------------------------- MODULE ProcessWorkersProofs -------------------------
(***************************************************************************)
(* Theorems about ProcessWorkers, for every set of rollouts, workers,      *)
(* brokers and requests.                                                   *)
(*                                                                         *)
(* The invariant has three parts.  Assigned: a lease that runs is that of  *)
(* a claim, made for the worker the claim names.  Decided: every decision  *)
(* was taken under an observation on record.  Delivered: a reply on record *)
(* is about an assignment of the worker it was given to, and a broker that *)
(* is not at work serves nobody.                                           *)
(***************************************************************************)
EXTENDS ProcessWorkers, SequenceTheorems, TLAPS

RegistrationRows == [status : {"none", "active", "revoked"}, expired : BOOLEAN]

RolloutRows ==
    [status : {"none", "active", "paused", "review_required", "complete", "failed"},
     sequence : Nat, lease : Nat \union {NULL}, live : BOOLEAN]

LeaseRows == [worker : Workers \union {NULL}, rollout : Rollouts, from : Nat]

DecisionRows ==
    [lease : Nat, authority : Nat,
     phase : {"reserved", "denied", "started", "committed", "released"}]

Assigned ==
    /\ enrolled \in BOOLEAN
    /\ registrations \in [Workers -> RegistrationRows]
    /\ rollouts \in [Rollouts -> RolloutRows]
    /\ leases \in Seq(LeaseRows)
    /\ \A r \in Rollouts : rollouts[r].live => rollouts[r].lease \in DOMAIN leases
    /\ \A r \in Rollouts : rollouts[r].status = "none" => ~rollouts[r].live
    /\ LeasesAreAssigned

Decided ==
    /\ authority \in [status : {"active", "paused", "ended"}, sequence : Nat]
    /\ decisions \in Seq(DecisionRows)
    /\ DecidedAsObserved

Kinds == {"claim", "observe", "propose"}

Flights ==
    [at : {"idle", "denied", "looked"}, worker : Workers \union {NULL},
     request : Requests \union {NULL},
     content : [kind : Kinds \union {NULL}, lease : Nat \union {NULL},
                source : Requests \union {NULL}],
     sequence : Nat \union {NULL}, shown : BOOLEAN]

\* What a receipt says is true of its assignment for good: claims only grow.
Delivered ==
    /\ \A s \in receipts :
          /\ s.worker \in Workers /\ s.lease \in DOMAIN leases
          /\ leases[s.lease].worker = s.worker
          /\ s.content.kind \in Kinds
          /\ s.content.kind # "claim" => s.content.lease = s.lease
    /\ flights \in [Brokers -> Flights]
    /\ \A b \in Brokers :
          LET f == flights[b] IN
          IF f.at = "looked"
             THEN /\ f.worker \in Workers /\ f.content.kind \in Kinds
                  /\ f.content.kind # "claim" => f.content.lease \in DOMAIN leases
             ELSE f.worker = NULL

WorkersInv == Assigned /\ Decided /\ Delivered

-----------------------------------------------------------------------------
(* Leases.                                                                 *)

\* Claims are only added.
Grown == \A l \in DOMAIN leases : l \in DOMAIN leases' /\ leases'[l] = leases[l]

LEMMA FreedFacts ==
    ASSUME NEW row \in RolloutRows,
           NEW to \in {"active", "paused", "review_required", "complete", "failed"}
    PROVE  /\ Freed(row, to) \in RolloutRows
           /\ Freed(row, to).live = FALSE /\ Freed(row, to).sequence = row.sequence
<1> DEFINE one == [row EXCEPT !.status = to]
           two == [one EXCEPT !.lease = NULL]
           three == [two EXCEPT !.live = FALSE]
<1>1. one \in RolloutRows /\ one.sequence = row.sequence
    BY DEF RolloutRows
<1> HIDE DEF one
<1>2. two \in RolloutRows /\ two.sequence = row.sequence
    BY <1>1 DEF RolloutRows
<1> HIDE DEF two
<1>3. three \in RolloutRows /\ three.sequence = row.sequence /\ three.live = FALSE
    BY <1>2 DEF RolloutRows
<1>4. Freed(row, to) = three
    BY Zenon DEF Freed, one, two
<1> QED BY <1>3, <1>4

\* A step that makes no claim takes no worker's lease to another.
LEMMA AssignedStays ==
    ASSUME Assigned, enrolled' = enrolled, leases' = leases,
           registrations' \in [Workers -> RegistrationRows],
           rollouts' \in [Rollouts -> RolloutRows],
           \A w \in Workers :
               registrations[w].status # "none" => registrations'[w].status # "none",
           \A r \in Rollouts : rollouts'[r].live =>
               /\ rollouts[r].live /\ rollouts'[r].lease = rollouts[r].lease
               /\ rollouts'[r].status # "none"
    PROVE  Assigned'
<1>1. ASSUME NEW r \in Rollouts, rollouts'[r].live
      PROVE  /\ rollouts[r].live /\ Owner(r)' = Owner(r)
             /\ rollouts'[r].lease = rollouts[r].lease /\ rollouts'[r].status # "none"
    BY <1>1 DEF Owner
<1>2. LeasesAreAssigned'
  <2> SUFFICES ASSUME enrolled, NEW r \in Rollouts, rollouts'[r].live
               PROVE  /\ Owner(r)' \in Workers /\ registrations'[Owner(r)'].status # "none"
                      /\ ~HoldsAnother(Owner(r), r)'
      BY DEF LeasesAreAssigned
  <2>1. /\ Owner(r) \in Workers /\ registrations[Owner(r)].status # "none"
        /\ ~HoldsAnother(Owner(r), r) /\ Owner(r)' = Owner(r)
      BY <1>1 DEF Assigned, LeasesAreAssigned
  <2>2. ~HoldsAnother(Owner(r), r)'
      BY <1>1, <2>1 DEF HoldsAnother
  <2> QED BY <2>1, <2>2
<1>3. /\ \A r \in Rollouts : rollouts'[r].live => rollouts'[r].lease \in DOMAIN leases'
      /\ \A r \in Rollouts : rollouts'[r].status = "none" => ~rollouts'[r].live
    BY <1>1 DEF Assigned
<1> QED BY <1>2, <1>3 DEF Assigned

LEMMA LeasedFacts ==
    ASSUME Assigned, NEW r \in Rollouts, NEW w \in Workers \union {NULL}, Leased(r, w)
    PROVE  /\ leases' \in Seq(LeaseRows) /\ Grown
           /\ Len(leases) + 1 \in DOMAIN leases' /\ Len(leases) + 1 \in Nat
           /\ leases'[Len(leases) + 1].worker = w
           /\ leases'[Len(leases) + 1].rollout = r
           /\ rollouts' \in [Rollouts -> RolloutRows]
           /\ rollouts'[r].lease = Len(leases) + 1
           /\ rollouts'[r].status = rollouts[r].status
           /\ \A o \in Rollouts \ {r} : rollouts'[o] = rollouts[o]
<1> DEFINE claim == [worker |-> w, rollout |-> r, from |-> rollouts[r].sequence]
           one == [rollouts[r] EXCEPT !.lease = Len(leases) + 1]
           two == [one EXCEPT !.live = TRUE]
<1>1. Len(leases) + 1 \in Nat /\ leases \in Seq(LeaseRows) /\ rollouts[r] \in RolloutRows
    BY LenProperties DEF Assigned
<1>2. claim \in LeaseRows
    BY <1>1 DEF LeaseRows, RolloutRows
<1>3. claim.worker = w /\ claim.rollout = r
    OBVIOUS
<1>4. leases' = Append(leases, claim)
    BY DEF Leased
<1> HIDE DEF claim
<1>5. /\ leases' \in Seq(LeaseRows) /\ Grown
      /\ Len(leases) + 1 \in DOMAIN leases' /\ leases'[Len(leases) + 1] = claim
    BY <1>1, <1>2, <1>4 DEF Grown
<1>6. one \in RolloutRows /\ one.lease = Len(leases) + 1 /\ one.status = rollouts[r].status
    BY <1>1 DEF RolloutRows
<1> HIDE DEF one
<1>7. two \in RolloutRows /\ two.lease = Len(leases) + 1 /\ two.status = rollouts[r].status
    BY <1>6 DEF RolloutRows
<1>8. rollouts' = [rollouts EXCEPT ![r] = two]
    BY Zenon DEF Leased, one
<1> HIDE DEF two
<1>9. /\ rollouts' \in [Rollouts -> RolloutRows] /\ rollouts'[r] = two
      /\ \A o \in Rollouts \ {r} : rollouts'[o] = rollouts[o]
    BY <1>7, <1>8 DEF Assigned
<1> QED BY <1>1, <1>3, <1>5, <1>7, <1>9

LEMMA LeasedKeepsAssigned ==
    ASSUME Assigned, NEW r \in Rollouts, NEW w \in Workers \union {NULL}, Leased(r, w),
           rollouts[r].status = "active", enrolled' = enrolled, registrations' = registrations,
           enrolled => w \in Workers /\ registrations[w].status # "none" /\ ~HoldsAnother(w, r)
    PROVE  Assigned'
<1>1. Owner(r)' = w
    BY LeasedFacts DEF Owner
<1>2. ASSUME NEW o \in Rollouts \ {r}, rollouts'[o].live
      PROVE  Owner(o)' = Owner(o) /\ rollouts[o].live /\ rollouts[o].lease \in DOMAIN leases
    BY <1>2, LeasedFacts DEF Owner, Grown, Assigned
<1>3. LeasesAreAssigned'
  <2> SUFFICES ASSUME enrolled, NEW o \in Rollouts, rollouts'[o].live
               PROVE  /\ Owner(o)' \in Workers /\ registrations[Owner(o)'].status # "none"
                      /\ ~HoldsAnother(Owner(o), o)'
      BY DEF LeasesAreAssigned
  <2>1. CASE o = r
    <3>1. ~HoldsAnother(Owner(r), r)'
        BY <1>1, <1>2 DEF HoldsAnother
    <3> QED BY <1>1, <2>1, <3>1
  <2>2. CASE o # r
    <3>1. /\ Owner(o) \in Workers /\ registrations[Owner(o)].status # "none"
          /\ ~HoldsAnother(Owner(o), o) /\ Owner(o)' = Owner(o) /\ rollouts[o].live
        BY <1>2, <2>2 DEF Assigned, LeasesAreAssigned
    <3>2. Owner(o) # w
        BY <2>2, <3>1 DEF HoldsAnother
    <3>3. ~HoldsAnother(Owner(o), o)'
        BY <1>1, <1>2, <3>1, <3>2 DEF HoldsAnother
    <3> QED BY <3>1, <3>3
  <2> QED BY <2>1, <2>2
<1>4. \A o \in Rollouts : rollouts'[o].live => rollouts'[o].lease \in DOMAIN leases'
    BY <1>2, LeasedFacts DEF Grown
<1>5. \A o \in Rollouts : rollouts'[o].status = "none" => ~rollouts'[o].live
    BY LeasedFacts DEF Assigned
<1> QED BY <1>3, <1>4, <1>5, LeasedFacts DEF Assigned

LEMMA ReleasingKeepsAssigned ==
    ASSUME Assigned, enrolled' = enrolled, leases' = leases,
           registrations' \in [Workers -> RegistrationRows],
           \A w \in Workers :
               registrations[w].status # "none" => registrations'[w].status # "none",
           NEW r \in Rollouts, NEW row \in RolloutRows, row.live = FALSE,
           rollouts' = [rollouts EXCEPT ![r] = row]
    PROVE  Assigned'
<1>1. /\ rollouts' \in [Rollouts -> RolloutRows]
      /\ \A o \in Rollouts : rollouts'[o].live =>
             /\ rollouts[o].live /\ rollouts'[o].lease = rollouts[o].lease
             /\ rollouts'[o].status # "none"
    BY DEF Assigned
<1> QED BY <1>1, AssignedStays

LEMMA NextKeepsAssigned ==
    ASSUME Assigned, Delivered, [Next]_vars
    PROVE  Assigned'
<1> DEFINE Registered == \A w \in Workers :
               registrations[w].status # "none" => registrations'[w].status # "none"
           Registry == registrations' \in [Workers -> RegistrationRows]
<1>1. CASE Enroll
    BY <1>1 DEF Enroll, Assigned, LeasesAreAssigned
<1>2. ASSUME enrolled' = enrolled, leases' = leases, rollouts' = rollouts, Registered, Registry
      PROVE  Assigned'
    BY <1>2, AssignedStays DEF Assigned
<1>3. ASSUME NEW to \in {"active", "paused", "ended"}, Transition(to)
      PROVE  Assigned'
    BY <1>3, <1>2 DEF Transition, Assigned
<1>4. ASSUME NEW w \in Workers, Issue(w) \/ Revoke(w) \/ CredentialExpires(w)
      PROVE  Assigned'
  <2>1. ASSUME NEW st \in {"active", "revoked"},
               registrations' = [registrations EXCEPT ![w].status = st]
        PROVE  Registered /\ Registry
      BY <2>1 DEF Assigned, RegistrationRows
  <2>2. ASSUME registrations' = [registrations EXCEPT ![w].expired = TRUE]
        PROVE  Registered /\ Registry
      BY <2>2 DEF Assigned, RegistrationRows
  <2>3. Registered /\ Registry
      BY <1>4, <2>1, <2>2 DEF Issue, Revoke, CredentialExpires
  <2> QED BY <1>4, <1>2, <2>3 DEF Issue, Revoke, CredentialExpires
<1>5. ASSUME NEW r \in Rollouts, CreateRollout(r)
      PROVE  Assigned'
  <2> DEFINE row == [rollouts[r] EXCEPT !.status = "active"]
  <2>1. row \in RolloutRows /\ row.live = FALSE
      BY <1>5 DEF CreateRollout, Assigned, RolloutRows
  <2>2. rollouts' = [rollouts EXCEPT ![r] = row]
      BY <1>5 DEF CreateRollout
  <2> HIDE DEF row
  <2> QED BY <1>5, <2>1, <2>2, ReleasingKeepsAssigned DEF CreateRollout, Assigned
<1>6. ASSUME NEW r \in Rollouts, LeaseExpires(r)
      PROVE  Assigned'
  <2> DEFINE row == [rollouts[r] EXCEPT !.live = FALSE]
  <2>1. row \in RolloutRows /\ row.live = FALSE
      BY DEF Assigned, RolloutRows
  <2>2. rollouts' = [rollouts EXCEPT ![r] = row]
      BY <1>6 DEF LeaseExpires
  <2> HIDE DEF row
  <2> QED BY <1>6, <2>1, <2>2, ReleasingKeepsAssigned DEF LeaseExpires, Assigned
<1>7. ASSUME NEW r \in Rollouts, CoordinatorClaims(r)
      PROVE  Assigned'
    BY <1>7, LeasedKeepsAssigned DEF CoordinatorClaims, Claimable
<1>8. ASSUME NEW r \in Rollouts, NEW retire \in BOOLEAN, NEW resume \in BOOLEAN,
             Recover(r, retire, resume)
      PROVE  Assigned'
  <2>1. PICK to \in {"active", "paused", "review_required"} :
            rollouts' = [rollouts EXCEPT ![r] = Freed(rollouts[r], to)]
    <3>1. rollouts' = [rollouts EXCEPT ![r] = Freed(rollouts[r],
              IF {d \in Unresolved(r) : decisions[d].phase = "started"} # {} THEN "review_required"
              ELSE IF InForce /\ (resume \/ rollouts[r].status = "active")
                   THEN "active" ELSE "paused")]
        BY <1>8, Zenon DEF Recover
    <3> QED BY <3>1
  <2>2. \/ registrations' = registrations
        \/ registrations' = [registrations EXCEPT ![Owner(r)].status = "revoked"]
      BY <1>8 DEF Recover
  <2>3. Registered /\ Registry
      BY <2>2 DEF Assigned, RegistrationRows
  <2>4. enrolled' = enrolled /\ leases' = leases
      BY <1>8 DEF Recover
  <2>5. Freed(rollouts[r], to) \in RolloutRows /\ Freed(rollouts[r], to).live = FALSE
    <3>1. rollouts[r] \in RolloutRows
        BY DEF Assigned
    <3> QED BY <3>1, FreedFacts
  <2> QED BY <2>1, <2>3, <2>4, <2>5, ReleasingKeepsAssigned
<1>9. ASSUME NEW b \in Brokers, Claim(b)
      PROVE  Assigned'
  <2>1. flights[b].worker \in Workers
      BY <1>9 DEF Claim, Delivered
  <2>2. registrations[flights[b].worker].status # "none"
      BY <1>9 DEF Claim, Identified
  <2>3. PICK r \in Rollouts : /\ Claimable(r) /\ ~HoldsAnother(flights[b].worker, r)
                              /\ Leased(r, flights[b].worker)
      BY <1>9 DEF Claim
  <2> QED BY <1>9, <2>1, <2>2, <2>3, LeasedKeepsAssigned DEF Claim, Claimable
<1>10. ASSUME NEW d \in DOMAIN decisions, NEW to \in {"active", "complete"},
              AppendEvent(d, to)
       PROVE  Assigned'
  <2> DEFINE r == leases[decisions[d].lease].rollout
             freed == Freed(rollouts[r], to)
             row == [freed EXCEPT !.sequence = rollouts[r].sequence + 1]
  <2>1. rollouts' = [rollouts EXCEPT ![r] = row]
      BY <1>10, Zenon DEF AppendEvent
  <2>2. CASE r \in Rollouts
    <3>1. rollouts[r] \in RolloutRows
        BY <2>2 DEF Assigned
    <3>2. freed \in RolloutRows /\ freed.live = FALSE
        BY <3>1, FreedFacts
    <3> HIDE DEF freed
    <3>3. row \in RolloutRows /\ row.live = FALSE
        BY <3>1, <3>2 DEF RolloutRows
    <3> HIDE DEF row, r
    <3> QED BY <1>10, <2>1, <2>2, <3>3, ReleasingKeepsAssigned DEF AppendEvent, Assigned
  <2>3. CASE r \notin Rollouts
    <3>1. rollouts' = rollouts
        BY <2>1, <2>3 DEF Assigned
    <3> QED BY <1>2, <1>10, <3>1 DEF AppendEvent, Assigned
  <2> QED BY <2>2, <2>3
<1>11. ASSUME NEW l \in DOMAIN leases, NEW to \in {"active", "failed"}, Release(l, to)
       PROVE  Assigned'
  <2> DEFINE r == leases[l].rollout
  <2>1. r \in Rollouts
    <3>1. leases[l] \in LeaseRows
        BY DEF Assigned
    <3> QED BY <3>1 DEF LeaseRows
  <2>2. rollouts[r] \in RolloutRows
      BY <2>1 DEF Assigned
  <2>3. Freed(rollouts[r], to) \in RolloutRows /\ Freed(rollouts[r], to).live = FALSE
      BY <2>2, FreedFacts
  <2>4. rollouts' = [rollouts EXCEPT ![r] = Freed(rollouts[r], to)]
      BY <1>11, Zenon DEF Release
  <2> HIDE DEF r
  <2> QED BY <1>11, <2>1, <2>3, <2>4, ReleasingKeepsAssigned DEF Release, Assigned
<1>12. ASSUME UNCHANGED <<enrolled, registrations, rollouts, leases>>
       PROVE  Assigned'
    BY <1>2, <1>12 DEF Assigned
<1> QED
    BY <1>1, <1>3, <1>4, <1>5, <1>6, <1>7, <1>8, <1>9, <1>10, <1>11, <1>12
    DEF Next, vars, Receive, AnswerAgain, Observe, Deny, Drop, Propose, Start

-----------------------------------------------------------------------------
(* Receipts, flights and decisions.                                        *)

LEMMA ClaimsOnlyGrow ==
    ASSUME Assigned, Delivered, [Next]_vars
    PROVE  Grown
<1>1. ASSUME leases' = leases
      PROVE  Grown
    BY <1>1 DEF Grown
<1>2. ASSUME NEW r \in Rollouts, CoordinatorClaims(r)
      PROVE  Grown
    BY <1>2, LeasedFacts DEF CoordinatorClaims
<1>3. ASSUME NEW b \in Brokers, Claim(b)
      PROVE  Grown
  <2>1. flights[b].worker \in Workers
      BY <1>3 DEF Claim, Delivered
  <2> QED BY <1>3, <2>1, LeasedFacts DEF Claim
<1> QED
    BY <1>1, <1>2, <1>3
    DEF Next, vars, Enroll, Transition, Issue, Revoke, CredentialExpires, CreateRollout,
        LeaseExpires, Recover, Receive, AnswerAgain, Observe, Deny, Drop, Propose, Start,
        AppendEvent, Release

\* What is said of a flight.
Flown(f) ==
    IF f.at = "looked"
       THEN /\ f.worker \in Workers /\ f.content.kind \in Kinds
            /\ f.content.kind # "claim" => f.content.lease \in DOMAIN leases
       ELSE f.worker = NULL

LEMMA ConcludedFacts ==
    ASSUME Delivered, Grown, NEW b \in Brokers, NEW outcome \in {"idle", "denied"},
           Conclude(b, outcome)
    PROVE  /\ flights' \in [Brokers -> Flights]
           /\ \A c \in Brokers : Flown(flights[c])'
<1> DEFINE none == NoFlight(outcome)
<1>1. none \in Flights /\ none.at # "looked" /\ none.worker = NULL
    BY DEF NoFlight, Flights
<1>2. flights' = [flights EXCEPT ![b] = none]
    BY DEF Conclude
<1> HIDE DEF none
<1>3. flights' \in [Brokers -> Flights]
    BY <1>1, <1>2 DEF Delivered
<1>4. ASSUME NEW c \in Brokers
      PROVE  Flown(flights[c])'
  <2>1. CASE c = b
      BY <1>1, <1>2, <2>1 DEF Flown, Delivered
  <2>2. CASE c # b
    <3>1. flights'[c] = flights[c] /\ Flown(flights[c])
        BY <1>2, <2>2 DEF Delivered, Flown
    <3> QED BY <3>1 DEF Flown, Grown
  <2> QED BY <2>1, <2>2
<1> QED BY <1>3, <1>4

\* What is said of a receipt, and of the claims.
Receipt(s, claims) ==
    /\ s.worker \in Workers /\ s.lease \in DOMAIN claims
    /\ claims[s.lease].worker = s.worker
    /\ s.content.kind \in Kinds
    /\ s.content.kind # "claim" => s.content.lease = s.lease

LEMMA DeliveredParts ==
    Delivered <=> /\ \A s \in receipts : Receipt(s, leases)
                  /\ flights \in [Brokers -> Flights]
                  /\ \A b \in Brokers : Flown(flights[b])
BY DEF Delivered, Receipt, Flown

LEMMA ReceiptsStand ==
    ASSUME Delivered, Grown, NEW s \in receipts
    PROVE  Receipt(s, leases')
<1>1. Receipt(s, leases)
    BY DeliveredParts
<1>2. s.lease \in DOMAIN leases' /\ leases'[s.lease] = leases[s.lease]
    BY <1>1 DEF Receipt, Grown
<1> QED BY <1>1, <1>2 DEF Receipt

LEMMA RetainedKeepsDelivered ==
    ASSUME Delivered, Grown, NEW b \in Brokers, flights[b].at = "looked",
           NEW l, NEW seen, NEW decision, Retain(b, l, seen, decision),
           l \in DOMAIN leases', leases'[l].worker = flights[b].worker,
           flights[b].content.kind # "claim" => flights[b].content.lease = l
    PROVE  Delivered'
<1> DEFINE f == flights[b]
           s == [worker |-> f.worker, request |-> f.request, content |-> f.content,
                 lease |-> l, seen |-> seen, decision |-> decision]
<1>1. receipts' = receipts \union {s}
    BY DEF Retain
<1>2. Receipt(s, leases')
  <2>1. s.worker = f.worker /\ s.content = f.content /\ s.lease = l
      OBVIOUS
  <2>2. f.worker \in Workers /\ f.content.kind \in Kinds
      BY DEF Delivered
  <2> HIDE DEF s
  <2> QED BY <2>1, <2>2 DEF Receipt
<1> HIDE DEF s
<1>3. \A t \in receipts' : Receipt(t, leases')
    BY <1>1, <1>2, ReceiptsStand
<1>4. /\ flights' \in [Brokers -> Flights]
      /\ \A c \in Brokers : Flown(flights[c])'
    BY ConcludedFacts DEF Retain
<1> QED BY <1>3, <1>4 DEF Delivered, Receipt, Flown

LEMMA ContentFacts ==
    ASSUME Assigned, NEW content \in Contents
    PROVE  /\ content \in [kind : Kinds \union {NULL}, lease : Nat \union {NULL},
                            source : Requests \union {NULL}]
           /\ content.kind \in Kinds
           /\ content.kind # "claim" => content.lease \in DOMAIN leases
<1>1. DOMAIN leases \subseteq Nat
    BY DEF Assigned
<1> QED BY <1>1 DEF Contents, Kinds

LEMMA ReceiveKeepsDelivered ==
    ASSUME Assigned, Decided, Delivered, Grown, NEW b \in Brokers, NEW w \in Workers,
           NEW q \in Requests, NEW content \in Contents, Receive(b, w, q, content)
    PROVE  Delivered'
<1> DEFINE shown == OnRecord(w, q) # {} \/ Shown(content.lease)
           f == [at |-> "looked", worker |-> w, request |-> q, content |-> content,
                 sequence |-> authority.sequence, shown |-> shown]
<1>1. /\ receipts' = receipts /\ leases' = leases
      /\ \/ flights' = [flights EXCEPT ![b] = f]
         \/ \E outcome \in {"idle", "denied"} : Conclude(b, outcome)
    BY DEF Receive
<1>2. \A s \in receipts' : Receipt(s, leases')
    BY <1>1, ReceiptsStand
<1>3. ASSUME flights' = [flights EXCEPT ![b] = f]
      PROVE  flights' \in [Brokers -> Flights] /\ \A c \in Brokers : Flown(flights[c])'
  <2>1. f \in Flights /\ f.at = "looked" /\ f.worker = w /\ f.content = content
    <3>1. shown \in BOOLEAN /\ authority.sequence \in Nat
        BY DEF Decided
    <3> HIDE DEF shown
    <3> QED BY <3>1, ContentFacts DEF Flights
  <2> HIDE DEF f
  <2>2. flights' \in [Brokers -> Flights]
      BY <1>3, <2>1 DEF Delivered
  <2>3. ASSUME NEW c \in Brokers
        PROVE  Flown(flights[c])'
    <3>1. CASE c = b
      <4>1. flights'[c] = f
          BY <1>3, <3>1 DEF Delivered
      <4> QED BY <1>1, <2>1, <4>1, ContentFacts DEF Flown
    <3>2. CASE c # b
      <4>1. flights'[c] = flights[c] /\ Flown(flights[c])
          BY <1>3, <3>2 DEF Delivered, Flown
      <4> QED BY <1>1, <4>1 DEF Flown
    <3> QED BY <3>1, <3>2
  <2> QED BY <2>2, <2>3
<1>4. flights' \in [Brokers -> Flights] /\ \A c \in Brokers : Flown(flights[c])'
    BY <1>1, <1>3, ConcludedFacts
<1> QED BY <1>2, <1>4 DEF Delivered, Receipt, Flown

LEMMA NextKeepsDelivered ==
    ASSUME Assigned, Decided, Delivered, [Next]_vars
    PROVE  Delivered'
<1>1. Grown
    BY ClaimsOnlyGrow
<1>2. ASSUME receipts' = receipts, flights' = flights
      PROVE  Delivered'
  <2>1. \A s \in receipts' : Receipt(s, leases')
      BY <1>1, <1>2, ReceiptsStand
  <2>2. \A c \in Brokers : Flown(flights[c])'
    <3>1. \A c \in Brokers : Flown(flights[c])
        BY DEF Delivered, Flown
    <3> QED BY <1>1, <1>2, <3>1 DEF Flown, Grown
  <2> QED BY <1>2, <2>1, <2>2 DEF Delivered, Receipt, Flown
<1>3. ASSUME NEW b \in Brokers, NEW outcome \in {"idle", "denied"}, Conclude(b, outcome),
             receipts' = receipts
      PROVE  Delivered'
  <2>1. \A s \in receipts' : Receipt(s, leases')
      BY <1>1, <1>3, ReceiptsStand
  <2> QED BY <1>1, <1>3, <2>1, ConcludedFacts DEF Delivered, Receipt, Flown
<1>4. ASSUME NEW b \in Brokers, Claim(b)
      PROVE  Delivered'
  <2>1. flights[b].worker \in Workers
      BY <1>4 DEF Claim, Delivered
  <2>2. /\ Len(leases) + 1 \in DOMAIN leases'
        /\ leases'[Len(leases) + 1].worker = flights[b].worker
      BY <1>4, <2>1, LeasedFacts DEF Claim
  <2> QED BY <1>1, <1>4, <2>2, RetainedKeepsDelivered DEF Claim
<1>5. ASSUME NEW b \in Brokers, Addressed(flights[b]), NEW decision,
             Retain(b, flights[b].content.lease, authority.sequence, decision)
      PROVE  Delivered'
  <2> DEFINE l == flights[b].content.lease
  <2>1. /\ flights[b].at = "looked" /\ flights[b].content.kind # "claim"
        /\ leases[l].worker = flights[b].worker
      BY <1>5 DEF Addressed
  <2>2. l \in DOMAIN leases
      BY <2>1 DEF Delivered
  <2>3. l \in DOMAIN leases' /\ leases'[l] = leases[l]
      BY <1>1, <2>2 DEF Grown
  <2> QED BY <1>1, <1>5, <2>1, <2>3, RetainedKeepsDelivered
<1>6. ASSUME NEW b \in Brokers,
             Observe(b) \/ \E refused \in BOOLEAN : Propose(b, refused)
      PROVE  Delivered'
    BY <1>5, <1>6 DEF Observe, Propose
<1>7. ASSUME NEW b \in Brokers, AnswerAgain(b) \/ Deny(b) \/ Drop(b)
      PROVE  Delivered'
    BY <1>3, <1>7 DEF AnswerAgain, Deny, Drop
<1>8. ASSUME NEW b \in Brokers, NEW w \in Workers, NEW q \in Requests,
             NEW content \in Contents, Receive(b, w, q, content)
      PROVE  Delivered'
    BY <1>1, <1>8, ReceiveKeepsDelivered
<1> QED
    BY <1>2, <1>4, <1>6, <1>7, <1>8
    DEF Next, vars, Enroll, Transition, Issue, Revoke, CredentialExpires, CreateRollout,
        LeaseExpires, CoordinatorClaims, Recover, Start, AppendEvent, Release

LEMMA ReceiptsOnlyGrow ==
    [Next]_vars => receipts \subseteq receipts'
BY DEF Next, vars, Enroll, Transition, Issue, Revoke, CredentialExpires, CreateRollout,
    LeaseExpires, CoordinatorClaims, Recover, Receive, Claim, AnswerAgain, Observe, Deny,
    Drop, Propose, Retain, Start, AppendEvent, Release

\* A decision that rests on an observation on record.
Rests(d, record) == \E s \in record :
    /\ s.content.kind \in {"claim", "observe"} /\ s.lease = d.lease /\ s.seen = d.authority

\* A decision keeps its observation, for neither is ever taken back.
LEMMA NextKeepsDecided ==
    ASSUME Assigned, Delivered, Decided, [Next]_vars
    PROVE  Decided'
<1>1. ASSUME NEW d, Rests(d, receipts)
      PROVE  Rests(d, receipts')
    BY <1>1, ReceiptsOnlyGrow DEF Rests
<1>2. \A d \in DOMAIN decisions :
          decisions[d] \in DecisionRows /\ Rests(decisions[d], receipts')
    BY <1>1 DEF Decided, DecidedAsObserved, Rests
<1>3. authority' \in [status : {"active", "paused", "ended"}, sequence : Nat]
  <2>1. ASSUME NEW to \in {"active", "paused", "ended"}, Transition(to)
        PROVE  authority' \in [status : {"active", "paused", "ended"}, sequence : Nat]
      BY <2>1 DEF Transition, Decided
  <2> QED
      BY <2>1
      DEF Decided, Next, vars, Enroll, Issue, Revoke, CredentialExpires, CreateRollout,
          LeaseExpires, CoordinatorClaims, Recover, Receive, Claim, AnswerAgain, Observe,
          Deny, Drop, Propose, Start, AppendEvent, Release
<1>4. ASSUME DOMAIN decisions' = DOMAIN decisions, decisions' \in Seq(DecisionRows),
             \A d \in DOMAIN decisions : /\ decisions'[d].lease = decisions[d].lease
                                          /\ decisions'[d].authority = decisions[d].authority
      PROVE  Decided'
    BY <1>2, <1>3, <1>4 DEF Decided, DecidedAsObserved, Rests
<1>5. ASSUME decisions' = decisions
      PROVE  Decided'
    BY <1>4, <1>5 DEF Decided
<1>6. ASSUME NEW d \in DOMAIN decisions, NEW phase \in {"started", "committed"},
             decisions' = [decisions EXCEPT ![d].phase = phase]
      PROVE  Decided'
  <2> DEFINE row == [decisions[d] EXCEPT !.phase = phase]
  <2>1. /\ row \in DecisionRows /\ row.lease = decisions[d].lease
        /\ row.authority = decisions[d].authority
      BY <1>2 DEF DecisionRows
  <2>2. decisions' = [decisions EXCEPT ![d] = row]
      BY <1>6
  <2> HIDE DEF row
  <2>3. decisions' \in Seq(DecisionRows) /\ DOMAIN decisions' = DOMAIN decisions
      BY <2>1, <2>2 DEF Decided
  <2>4. \A e \in DOMAIN decisions : decisions'[e] = IF e = d THEN row ELSE decisions[e]
      BY <2>2 DEF Decided
  <2> QED BY <1>4, <2>1, <2>3, <2>4
<1>7. ASSUME NEW r \in Rollouts, NEW retire \in BOOLEAN, NEW resume \in BOOLEAN,
             Recover(r, retire, resume)
      PROVE  Decided'
  <2> DEFINE freed == Unresolved(r) \ {d \in Unresolved(r) : decisions[d].phase = "started"}
             Row(d) == IF d \in freed THEN [decisions[d] EXCEPT !.phase = "released"]
                                      ELSE decisions[d]
  <2>1. decisions' = [d \in DOMAIN decisions |-> Row(d)]
      BY <1>7, Zenon DEF Recover
  <2>2. ASSUME NEW d \in DOMAIN decisions
        PROVE  /\ Row(d) \in DecisionRows /\ Row(d).lease = decisions[d].lease
               /\ Row(d).authority = decisions[d].authority
    <3>1. decisions[d] \in DecisionRows
        BY <1>2
    <3> HIDE DEF freed
    <3> QED BY <3>1 DEF DecisionRows
  <2> HIDE DEF Row
  <2>3. DOMAIN decisions = 1..Len(decisions) /\ Len(decisions) \in Nat
      BY DEF Decided
  <2>4. decisions' \in Seq(DecisionRows)
      BY <2>1, <2>2, <2>3, IsASeq
  <2> QED BY <1>4, <2>1, <2>2, <2>4
<1>8. ASSUME NEW b \in Brokers, NEW refused \in BOOLEAN, Propose(b, refused)
      PROVE  Decided'
  <2> DEFINE f == flights[b]
             admitted == ~refused /\ Unresolved(leases[f.content.lease].rollout) = {}
             row == [lease |-> f.content.lease, authority |-> authority.sequence,
                     phase |-> IF admitted THEN "reserved" ELSE "denied"]
  <2>1. decisions' = Append(decisions, row)
      BY <1>8 DEF Propose
  <2>2. f.at = "looked" /\ f.content.kind = "propose" /\ Observed(f)
      BY <1>8 DEF Propose, Addressed
  <2>3. f.content.lease \in DOMAIN leases
      BY <2>2 DEF Delivered
  <2>4. row \in DecisionRows
    <3>1. f.content.lease \in Nat /\ authority.sequence \in Nat
        BY <2>3 DEF Assigned, Decided
    <3> HIDE DEF admitted
    <3> QED BY <3>1 DEF DecisionRows
  <2>5. Rests(row, receipts)
    <3>1. row.lease = f.content.lease /\ row.authority = authority.sequence
        OBVIOUS
    <3> QED BY <2>2, <3>1 DEF Observed, OnRecord, Rests
  <2> HIDE DEF row
  <2>6. Rests(row, receipts')
      BY <1>1, <2>5
  <2>7. /\ decisions' \in Seq(DecisionRows)
        /\ \A d \in DOMAIN decisions' :
               decisions'[d] = row \/ (d \in DOMAIN decisions /\ decisions'[d] = decisions[d])
      BY <2>1, <2>4 DEF Decided
  <2>8. \A d \in DOMAIN decisions' : Rests(decisions'[d], receipts')
      BY <1>2, <2>6, <2>7
  <2> QED BY <1>3, <2>7, <2>8 DEF Decided, DecidedAsObserved, Rests
<1>9. ASSUME NEW d \in DOMAIN decisions,
             Start(d) \/ \E to \in {"active", "complete"} : AppendEvent(d, to)
      PROVE  Decided'
    BY <1>6, <1>9 DEF Start, AppendEvent
<1> QED
    BY <1>5, <1>7, <1>8, <1>9
    DEF Next, vars, Enroll, Transition, Issue, Revoke, CredentialExpires, CreateRollout,
        LeaseExpires, CoordinatorClaims, Receive, Claim, AnswerAgain, Observe, Deny, Drop,
        Release

-----------------------------------------------------------------------------
(* The theorems.                                                           *)

LEMMA InitEstablishesInv == Init => WorkersInv
<1> SUFFICES ASSUME Init
             PROVE  WorkersInv
    OBVIOUS
<1>1. registrations \in [Workers -> RegistrationRows]
    BY DEF Init, RegistrationRows
<1>2. rollouts \in [Rollouts -> RolloutRows] /\ \A r \in Rollouts : ~rollouts[r].live
    BY DEF Init, RolloutRows
<1>3. Assigned
  <2>1. enrolled = FALSE /\ leases \in Seq(LeaseRows)
      BY DEF Init
  <2>2. LeasesAreAssigned
      BY <2>1 DEF LeasesAreAssigned
  <2> QED BY <1>1, <1>2, <2>1, <2>2 DEF Assigned
<1>4. Decided
    BY DEF Init, Decided, DecidedAsObserved
<1>5. Delivered
    BY DEF Init, Delivered, NoFlight, Flights
<1> QED BY <1>3, <1>4, <1>5 DEF WorkersInv

\* The inductive invariant: leases, decisions, receipts and flights agree, at
\* every step of an execution (worker_identities.py, worker_broker.py).
THEOREM WorkersInvariance == Spec => []WorkersInv
<1>1. WorkersInv /\ [Next]_vars => WorkersInv'
    BY NextKeepsAssigned, NextKeepsDecided, NextKeepsDelivered DEF WorkersInv
<1> QED BY <1>1, InitEstablishesInv, PTL DEF Spec

\* In an enrolled execution no lease runs but of a registered worker, and no
\* worker holds two (bind_claim, enroll).
THEOREM LeasesAssigned == Spec => []LeasesAreAssigned
<1>1. WorkersInv => LeasesAreAssigned
    BY DEF WorkersInv, Assigned
<1> QED BY <1>1, WorkersInvariance, PTL

\* Every decision rests on an observation that was delivered on its assignment
\* under its authority (ProcessWorkerBroker._request).
THEOREM DecisionsObserved == Spec => []DecidedAsObserved
<1>1. WorkersInv => DecidedAsObserved
    BY DEF WorkersInv, Decided
<1> QED BY <1>1, WorkersInvariance, PTL

Answered ==
    \A b \in Brokers :
        flights[b].at = "looked" /\ Repliable(flights[b]) /\ ~Outdated(flights[b])
            => flights'[b].at # "denied"

\* A request whose reply is on record is not denied to the broker that comes
\* second, unless the observation or the authority is younger than its instant:
\* the assignment of the reply is the request's own.
THEOREM RetriesAnswered == Spec => RetriesAreAnswered
<1>1. WorkersInv /\ [Next]_vars => [Answered]_vars
  <2> SUFFICES ASSUME WorkersInv, [Next]_vars, NEW b \in Brokers,
                      flights[b].at = "looked", Repliable(flights[b]), ~Outdated(flights[b]),
                      flights'[b].at = "denied"
               PROVE  FALSE
      BY DEF Answered
  <2> DEFINE f == flights[b]
  <2>1. OnRecord(f.worker, f.request) # {}
      BY DEF Repliable
  <2>2. f.content.kind # "claim" => Addressed(f)
    <3>1. PICK s \in receipts : /\ s.worker = f.worker /\ s.content = f.content
                                /\ Current(s.lease)
        BY DEF Repliable, OnRecord
    <3>2. /\ leases[s.lease].worker = s.worker /\ s.content.kind \in Kinds
          /\ s.content.kind # "claim" => s.content.lease = s.lease
        BY DEF WorkersInv, Delivered
    <3> QED BY <3>1, <3>2 DEF Addressed, Kinds
  <2>3. ASSUME NEW c \in Brokers, NEW g, flights' = [flights EXCEPT ![c] = g],
               c # b \/ g.at # "denied"
        PROVE  FALSE
      BY <2>3 DEF WorkersInv, Delivered
  <2>4. ASSUME NEW c \in Brokers, Deny(c)
        PROVE  FALSE
      BY <2>1, <2>2, <2>3, <2>4 DEF Deny, Conclude
  <2>5. ASSUME NEW c \in Brokers, Conclude(c, "idle")
        PROVE  FALSE
      BY <2>3, <2>5 DEF Conclude, NoFlight
  <2>6. ASSUME NEW c \in Brokers, NEW w \in Workers, NEW q \in Requests,
               NEW content \in Contents, Receive(c, w, q, content)
        PROVE  FALSE
    <3>1. c # b
        BY <2>6 DEF Receive
    <3> QED BY <2>3, <2>6, <3>1 DEF Receive, Conclude
  <2>7. ASSUME flights' = flights
        PROVE  FALSE
      BY <2>7
  <2> QED
      BY <2>4, <2>5, <2>6, <2>7
      DEF Next, vars, Enroll, Transition, Issue, Revoke, CredentialExpires, CreateRollout,
          LeaseExpires, CoordinatorClaims, Recover, Claim, AnswerAgain, Observe, Drop,
          Propose, Retain, Start, AppendEvent, Release
<1> QED BY <1>1, WorkersInvariance, PTL DEF Spec, RetriesAreAnswered, Answered

Fenced ==
    \A d \in DOMAIN decisions :
        decisions'[d].phase # decisions[d].phase /\ decisions'[d].phase # "released" =>
            LET l == decisions[d].lease IN
            /\ Identified(leases[l].worker)
            /\ rollouts[leases[l].rollout].lease = l

\* An action is started, and its state committed, only for a worker that is
\* registered at that moment and holds the lease of the decision (require).
THEOREM WorkersFenced == Spec => OldWorkersAreFenced
<1>1. WorkersInv /\ [Next]_vars => [Fenced]_vars
  <2> SUFFICES ASSUME WorkersInv, [Next]_vars, NEW d \in DOMAIN decisions,
                      decisions'[d].phase # decisions[d].phase,
                      decisions'[d].phase # "released"
               PROVE  /\ Identified(leases[decisions[d].lease].worker)
                      /\ rollouts[leases[decisions[d].lease].rollout].lease
                             = decisions[d].lease
      BY Zenon DEF Fenced
  <2>1. decisions \in Seq(DecisionRows)
      BY DEF WorkersInv, Decided
  <2>2. decisions' # decisions
      OBVIOUS
  <2>3. ASSUME NEW e \in DOMAIN decisions, NEW phase \in {"started", "committed"},
               decisions' = [decisions EXCEPT ![e].phase = phase]
        PROVE  e = d
      BY <2>1, <2>3
  <2>4. ASSUME NEW e \in DOMAIN decisions,
               Start(e) \/ \E to \in {"active", "complete"} : AppendEvent(e, to)
        PROVE  /\ Identified(leases[decisions[d].lease].worker)
               /\ rollouts[leases[decisions[d].lease].rollout].lease = decisions[d].lease
    <3>1. e = d
        BY <2>3, <2>4 DEF Start, AppendEvent
    <3> QED BY <2>4, <3>1 DEF Start, AppendEvent, Current
  <2>5. ASSUME NEW r \in Rollouts, NEW retire \in BOOLEAN, NEW resume \in BOOLEAN,
               Recover(r, retire, resume)
        PROVE  FALSE
    <3> DEFINE freed == Unresolved(r) \ {e \in Unresolved(r) : decisions[e].phase = "started"}
    <3>1. decisions' = [e \in DOMAIN decisions |->
              IF e \in freed THEN [decisions[e] EXCEPT !.phase = "released"] ELSE decisions[e]]
        BY <2>5, Zenon DEF Recover
    <3> HIDE DEF freed
    <3>2. decisions[d] \in DecisionRows
        BY <2>1
    <3> QED BY <3>1, <3>2 DEF DecisionRows
  <2>6. ASSUME NEW b \in Brokers, NEW refused \in BOOLEAN, Propose(b, refused)
        PROVE  FALSE
      BY <2>1, <2>6 DEF Propose
  <2> QED
      BY <2>2, <2>4, <2>5, <2>6
      DEF Next, vars, Enroll, Transition, Issue, Revoke, CredentialExpires, CreateRollout,
          LeaseExpires, CoordinatorClaims, Receive, Claim, AnswerAgain, Observe, Deny, Drop,
          Release
<1> QED BY <1>1, WorkersInvariance, PTL DEF Spec, OldWorkersAreFenced, Fenced

=============================================================================
