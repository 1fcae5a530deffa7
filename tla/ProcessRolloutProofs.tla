------------------------ MODULE ProcessRolloutProofs ------------------------
(***************************************************************************)
(* Proofs about ProcessRollout, for any number of rollouts, workers and    *)
(* claims, any grant and any charges.  Inv is inductive; so is FundingInv, *)
(* which adds the accounts and rests on what a sum over a finite set is,   *)
(* and EffectInv, by which model actions implement EffectLifecycle.        *)
(***************************************************************************)
EXTENDS ProcessRollout, FiniteSetTheorems, WellFoundedInduction, TLAPS

\* A lease is carried by active rollouts only, and a live one by its token;
\* what was abandoned stays cancelled.
LeasesMarkActive ==
    \A r \in Rollouts :
        /\ rollouts[r].lease # NULL => rollouts[r].status = "active"
        /\ rollouts[r].live => rollouts[r].lease # NULL
        /\ Abandoned(r) => rollouts[r].status = "cancelled"

\* A worker past admission remembers a decision, which was made for its claim.
DecisionsKnown ==
    \A w \in Workers :
        workers[w].at \notin {"idle", "planning", "failing"} =>
            workers[w].decision \in DOMAIN decisions

\* What pends starts from the rollout's head, what is committed from before it.
PendingAtHead ==
    /\ \A r \in Rollouts : \A d \in Unresolved(r) : decisions[d].from = rollouts[r].sequence
    /\ \A d \in DOMAIN decisions : decisions[d].event =>
          /\ decisions[d].phase = "settled"
          /\ decisions[d].from < rollouts[decisions[d].rollout].sequence

\* Recovery leaves no releasable hold in the rollouts it puts under review.
ReviewedHoldsStay ==
    \A r \in Rollouts :
        (rollouts[r].status = "review_required" /\ rollouts[r].paused) \/ Abandoned(r) =>
            \A d \in Unresolved(r) : decisions[d].phase # "reserved"

Inv ==
    /\ TypeOK
    /\ LeasesMarkActive
    /\ DecisionsKnown
    /\ PendingAtHead
    /\ OneOpenAction
    /\ OneEffectPerState
    /\ OneLineOfEvents
    /\ ReviewedHoldsStay
    /\ AbandonmentStaysReadable

-----------------------------------------------------------------------------
(* What EXCEPT makes of the records.  The lemmas name the fields, since    *)
(* SMT does not see through an update of several.                          *)

LEMMA FreedFacts ==
    ASSUME NEW row \in Rollout, NEW status \in EventStatuses, NEW paused \in BOOLEAN
    PROVE  LET new == Freed(row, status, paused) IN
           /\ new \in Rollout
           /\ new.status = status /\ new.paused = paused /\ new.lease = NULL /\ ~new.live
           /\ new.sequence = row.sequence /\ new.abandoned = row.abandoned
           /\ new.opening = row.opening
<1> DEFINE a == [row EXCEPT !.status = status]
           b == [a EXCEPT !.paused = paused]
           c == [b EXCEPT !.lease = NULL]
           d == [c EXCEPT !.live = FALSE]
<1>1. Freed(row, status, paused) = d
    BY Zenon DEF Freed
<1>2. /\ a \in Rollout /\ a.status = status
      /\ a.sequence = row.sequence /\ a.abandoned = row.abandoned /\ a.opening = row.opening
    BY DEF Rollout
<1> HIDE DEF a
<1>3. /\ b \in Rollout /\ b.status = status /\ b.paused = paused
      /\ b.sequence = row.sequence /\ b.abandoned = row.abandoned /\ b.opening = row.opening
    BY <1>2 DEF Rollout
<1> HIDE DEF b
<1>4. /\ c \in Rollout /\ c.status = status /\ c.paused = paused /\ c.lease = NULL
      /\ c.sequence = row.sequence /\ c.abandoned = row.abandoned /\ c.opening = row.opening
    BY <1>3 DEF Rollout
<1> HIDE DEF c
<1>5. /\ d \in Rollout /\ d.status = status /\ d.paused = paused /\ d.lease = NULL /\ ~d.live
      /\ d.sequence = row.sequence /\ d.abandoned = row.abandoned /\ d.opening = row.opening
    BY <1>4 DEF Rollout
<1> QED BY <1>1, <1>5

LEMMA ChargedFacts ==
    ASSUME NEW acc \in Account, NEW amount \in Int, NEW charge \in {NULL} \union Int
    PROVE  LET new == Charged(acc, amount, charge) IN
           /\ new \in Account /\ (acc.stopped => new.stopped)
           /\ IF charge = NULL
              THEN new.held = acc.held /\ new.charged = acc.charged /\ new.open = acc.open
              ELSE /\ new.held = acc.held - amount /\ new.charged = acc.charged + charge
                   /\ new.open = acc.open - 1 /\ new.stopped = (acc.stopped \/ charge > amount)
<1>1. CASE charge = NULL
    BY <1>1 DEF Charged, Account
<1>2. CASE charge # NULL
    <2> DEFINE a == [acc EXCEPT !.held = @ - amount]
               b == [a EXCEPT !.charged = @ + charge]
               c == [b EXCEPT !.open = @ - 1]
               stopped == acc.stopped \/ charge > amount
               d == [c EXCEPT !.stopped = @ \/ charge > amount]
    <2>1. Charged(acc, amount, charge) = d
        BY <1>2, Zenon DEF Charged
    <2>2. /\ a \in Account /\ a.held = acc.held - amount /\ a.charged = acc.charged
          /\ a.open = acc.open /\ a.stopped = acc.stopped
        BY DEF Account
    <2> HIDE DEF a
    <2>3. /\ b \in Account /\ b.held = acc.held - amount /\ b.charged = acc.charged + charge
          /\ b.open = acc.open /\ b.stopped = acc.stopped
        BY <1>2, <2>2 DEF Account
    <2> HIDE DEF b
    <2>4. /\ c \in Account /\ c.held = acc.held - amount /\ c.charged = acc.charged + charge
          /\ c.open = acc.open - 1 /\ c.stopped = acc.stopped
        BY <2>3 DEF Account
    <2> HIDE DEF c
    <2>5. d = [c EXCEPT !.stopped = stopped] /\ stopped \in BOOLEAN
        BY <2>4, Zenon
    <2> HIDE DEF d, stopped
    <2>6. /\ d \in Account /\ d.held = acc.held - amount /\ d.charged = acc.charged + charge
          /\ d.open = acc.open - 1 /\ d.stopped = stopped
        BY <2>4, <2>5 DEF Account
    <2> QED BY <1>2, <2>1, <2>6 DEF stopped
<1> QED BY <1>1, <1>2

\* Holds and slots given or taken.
LEMMA HoldFacts ==
    ASSUME NEW acc \in Account, NEW amount \in Int
    PROVE  /\ LET new == [acc EXCEPT !.held = @ + amount, !.open = @ + 1] IN
              /\ new \in Account /\ new.held = acc.held + amount /\ new.open = acc.open + 1
              /\ new.charged = acc.charged /\ new.stopped = acc.stopped
           /\ LET new == [acc EXCEPT !.held = @ - amount, !.open = @ - 1] IN
              /\ new \in Account /\ new.held = acc.held - amount /\ new.open = acc.open - 1
              /\ new.charged = acc.charged /\ new.stopped = acc.stopped
<1> DEFINE a == [acc EXCEPT !.held = @ + amount]
           b == [acc EXCEPT !.held = @ - amount]
<1>1. /\ [acc EXCEPT !.held = @ + amount, !.open = @ + 1] = [a EXCEPT !.open = @ + 1]
      /\ [acc EXCEPT !.held = @ - amount, !.open = @ - 1] = [b EXCEPT !.open = @ - 1]
    BY Zenon
<1>2. /\ a \in Account /\ a.held = acc.held + amount /\ a.open = acc.open
      /\ a.charged = acc.charged /\ a.stopped = acc.stopped
      /\ b \in Account /\ b.held = acc.held - amount /\ b.open = acc.open
      /\ b.charged = acc.charged /\ b.stopped = acc.stopped
    BY DEF Account
<1> HIDE DEF a, b
<1> DEFINE c == [a EXCEPT !.open = @ + 1]
           d == [b EXCEPT !.open = @ - 1]
<1>3. /\ c \in Account /\ c.held = acc.held + amount /\ c.open = acc.open + 1
      /\ c.charged = acc.charged /\ c.stopped = acc.stopped
      /\ d \in Account /\ d.held = acc.held - amount /\ d.open = acc.open - 1
      /\ d.charged = acc.charged /\ d.stopped = acc.stopped
    BY <1>2 DEF Account
<1> HIDE DEF c, d
<1> QED BY <1>1, <1>3 DEF c, d

LEMMA OpenedFacts ==
    ASSUME NEW row \in Rollout, NEW usage \in Nat
    PROVE  LET new == [row EXCEPT !.status = "active", !.opening = usage] IN
           /\ new \in Rollout /\ new.status = "active"
           /\ new.paused = row.paused /\ new.sequence = row.sequence /\ new.lease = row.lease
           /\ new.live = row.live /\ new.abandoned = row.abandoned /\ new.opening = usage
<1> DEFINE a == [row EXCEPT !.status = "active"]
           b == [a EXCEPT !.opening = usage]
<1>1. [row EXCEPT !.status = "active", !.opening = usage] = b
    BY Zenon
<1>2. /\ a \in Rollout /\ a.status = "active"
      /\ a.paused = row.paused /\ a.sequence = row.sequence /\ a.lease = row.lease
      /\ a.live = row.live /\ a.abandoned = row.abandoned
    BY DEF Rollout, EventStatuses
<1> HIDE DEF a
<1>3. /\ b \in Rollout /\ b.status = "active"
      /\ b.paused = row.paused /\ b.sequence = row.sequence /\ b.lease = row.lease
      /\ b.live = row.live /\ b.abandoned = row.abandoned /\ b.opening = usage
    BY <1>2 DEF Rollout
<1> QED BY <1>1, <1>3

LEMMA LeasedFacts ==
    ASSUME NEW row \in Rollout, NEW token \in Nat
    PROVE  LET new == [row EXCEPT !.lease = token, !.live = TRUE] IN
           /\ new \in Rollout /\ new.lease = token /\ new.live
           /\ new.status = row.status /\ new.paused = row.paused
           /\ new.sequence = row.sequence /\ new.abandoned = row.abandoned
           /\ new.opening = row.opening
<1> DEFINE a == [row EXCEPT !.lease = token]
           b == [a EXCEPT !.live = TRUE]
<1>1. [row EXCEPT !.lease = token, !.live = TRUE] = b
    BY Zenon
<1>2. /\ a \in Rollout /\ a.lease = token
      /\ a.status = row.status /\ a.paused = row.paused
      /\ a.sequence = row.sequence /\ a.abandoned = row.abandoned
      /\ a.opening = row.opening
    BY DEF Rollout
<1> HIDE DEF a
<1>3. /\ b \in Rollout /\ b.lease = token /\ b.live
      /\ b.status = row.status /\ b.paused = row.paused
      /\ b.sequence = row.sequence /\ b.abandoned = row.abandoned
      /\ b.opening = row.opening
    BY <1>2 DEF Rollout
<1> QED BY <1>1, <1>3

LEMMA CancelledFacts ==
    ASSUME NEW row \in Rollout, NEW names \in SUBSET Nat
    PROVE  LET new == [row EXCEPT !.status = "cancelled", !.abandoned = names] IN
           /\ new \in Rollout /\ new.status = "cancelled" /\ new.abandoned = names
           /\ new.paused = row.paused /\ new.sequence = row.sequence
           /\ new.lease = row.lease /\ new.live = row.live /\ new.opening = row.opening
<1> DEFINE a == [row EXCEPT !.status = "cancelled"]
           b == [a EXCEPT !.abandoned = names]
<1>1. [row EXCEPT !.status = "cancelled", !.abandoned = names] = b
    BY Zenon
<1>2. /\ a \in Rollout /\ a.status = "cancelled"
      /\ a.paused = row.paused /\ a.sequence = row.sequence
      /\ a.lease = row.lease /\ a.live = row.live /\ a.opening = row.opening
    BY DEF Rollout, EventStatuses, Terminal
<1> HIDE DEF a
<1>3. /\ b \in Rollout /\ b.status = "cancelled" /\ b.abandoned = names
      /\ b.paused = row.paused /\ b.sequence = row.sequence
      /\ b.lease = row.lease /\ b.live = row.live /\ b.opening = row.opening
    BY <1>2 DEF Rollout
<1> QED BY <1>1, <1>3

\* The journal with one entry replaced.
LEMMA ReplacedFacts ==
    ASSUME NEW seq \in Seq(Decision), NEW d \in DOMAIN seq, NEW new \in Decision
    PROVE  /\ [seq EXCEPT ![d] = new] \in Seq(Decision)
           /\ DOMAIN [seq EXCEPT ![d] = new] = DOMAIN seq
           /\ [seq EXCEPT ![d] = new][d] = new
           /\ \A c \in DOMAIN seq \ {d} : [seq EXCEPT ![d] = new][c] = seq[c]
    OBVIOUS

-----------------------------------------------------------------------------
(* Ordinary steps: what every action but Admit and AppendEvent does to an  *)
(* entry of the journal, to a rollout and to a worker.                     *)

DecisionMoves(old, new) ==
    /\ new \in Decision
    /\ new.rollout = old.rollout /\ new.from = old.from /\ new.event = old.event
    /\ new.amount = old.amount /\ (old.phase = "settled" => new.charged = old.charged)
    /\ \/ new.phase = old.phase
       \/ old.phase = "reserved" /\ new.phase \in {"started", "released"}
       \/ old.phase = "started" /\ new.phase = "settled" /\ new.call = "completed"

RolloutMoves(r, old, new) ==
    /\ new \in Rollout /\ new.sequence = old.sequence
    /\ new.lease # NULL => new.status = "active"
    /\ new.live => new.lease # NULL
    /\ new.abandoned # {} => new.status = "cancelled"
    /\ \/ new.abandoned = old.abandoned
       \/ old.status = "review_required" /\ old.paused /\ new.abandoned = Unresolved(r)'
    /\ new.status = "review_required" /\ new.paused =>
          \/ old.status = "review_required" /\ old.paused
          \/ \A d \in Unresolved(r)' : decisions'[d].phase # "reserved"
    /\ old.status \in Terminal => new = old
    /\ new.status = "none" => new = old
    /\ new.opening # old.opening => \E usage \in Usages : CreateRollout(r, usage)

WorkerMoves(new) ==
    /\ new \in {IdleWorker} \union Worker
    /\ new.at \notin {"idle", "planning", "failing"} => new.decision \in DOMAIN decisions

DecisionsMove ==
    /\ decisions' \in Seq(Decision) /\ DOMAIN decisions' = DOMAIN decisions
    /\ \A d \in DOMAIN decisions : DecisionMoves(decisions[d], decisions'[d])

RolloutsMove ==
    /\ rollouts' \in [Rollouts -> Rollout]
    /\ \A r \in Rollouts : RolloutMoves(r, rollouts[r], rollouts'[r])

WorkersMove ==
    /\ workers' \in [Workers -> {IdleWorker} \union Worker]
    /\ \A w \in Workers : WorkerMoves(workers'[w])

OrdinaryStep ==
    /\ claims' \in Nat /\ authority' \in Authority /\ account' \in Account
    /\ DecisionsMove /\ RolloutsMove /\ WorkersMove

LEMMA DecisionType == TypeOK => \A d \in DOMAIN decisions : decisions[d] \in Decision
    BY DEF TypeOK

LEMMA AmountType == Inv => \A d \in DOMAIN decisions : decisions[d].amount \in Int
<1>1. Inv => \A d \in DOMAIN decisions : decisions[d].amount \in Usages
    BY DecisionType DEF Inv, Decision
<1>2. Usages \subseteq Int
    BY ProcessAssumption
<1> QED BY <1>1, <1>2

LEMMA SameDecision == TypeOK => \A d \in DOMAIN decisions : DecisionMoves(decisions[d], decisions[d])
    BY DEF TypeOK, DecisionMoves

LEMMA SameRollout == Inv => \A r \in Rollouts : RolloutMoves(r, rollouts[r], rollouts[r])
    BY DEF Inv, TypeOK, LeasesMarkActive, Abandoned, RolloutMoves

LEMMA SameWorker == Inv => \A w \in Workers : WorkerMoves(workers[w])
    BY DEF Inv, TypeOK, DecisionsKnown, WorkerMoves

\* What pends after an ordinary step did before.
LEMMA PendingShrinks ==
    ASSUME TypeOK, OrdinaryStep
    PROVE  \A r : Unresolved(r)' \subseteq Unresolved(r)
    BY DEF TypeOK, OrdinaryStep, DecisionsMove, RolloutsMove, WorkersMove, DecisionMoves, Unresolved, Admitted, Decision, Phases

LEMMA OrdinaryEffects ==
    ASSUME Inv, OrdinaryStep
    PROVE  PendingAtHead' /\ OneOpenAction' /\ OneEffectPerState' /\ OneLineOfEvents'
<1>1. /\ DOMAIN decisions' = DOMAIN decisions
      /\ \A r \in Rollouts : rollouts'[r].sequence = rollouts[r].sequence
      /\ \A d \in DOMAIN decisions :
            /\ decisions'[d].rollout = decisions[d].rollout
            /\ decisions'[d].from = decisions[d].from
            /\ decisions'[d].event = decisions[d].event
            /\ decisions[d].phase = "settled" => decisions'[d].phase = "settled"
    BY DEF OrdinaryStep, DecisionsMove, RolloutsMove, WorkersMove, DecisionMoves, RolloutMoves
<1>0. \A d \in DOMAIN decisions :
          /\ decisions[d].rollout \in Rollouts /\ decisions[d].from \in Nat
          /\ decisions[d].event \in BOOLEAN
    BY DecisionType DEF Inv, Decision
<1>2. \A d \in DOMAIN decisions :
         decisions'[d].phase \in {"reserved", "started", "settled"} =>
             decisions[d].phase \in {"reserved", "started", "settled"}
    BY DEF OrdinaryStep, DecisionsMove, RolloutsMove, WorkersMove, DecisionMoves
<1>3. PendingAtHead'
    <2>1. ASSUME NEW r \in Rollouts, NEW d \in Unresolved(r)'
          PROVE  decisions'[d].from = rollouts'[r].sequence
        <3>1. d \in Unresolved(r) /\ d \in DOMAIN decisions
            BY <2>1, PendingShrinks DEF Inv, Unresolved
        <3> QED BY <3>1, <1>1 DEF Inv, PendingAtHead
    <2>2. ASSUME NEW d \in DOMAIN decisions, decisions'[d].event
          PROVE  /\ decisions'[d].phase = "settled"
                 /\ decisions'[d].from < rollouts'[decisions'[d].rollout].sequence
        BY <2>2, <1>0, <1>1 DEF Inv, PendingAtHead
    <2> QED BY <2>1, <2>2, <1>1 DEF PendingAtHead
<1>4. OneOpenAction'
    BY <1>1, <1>2 DEF Inv, OneOpenAction
<1>5. OneEffectPerState'
    <2> SUFFICES ASSUME NEW d \in DOMAIN decisions, NEW e \in DOMAIN decisions,
                        decisions'[d].rollout = decisions'[e].rollout,
                        decisions'[d].from = decisions'[e].from,
                        decisions'[d].phase \in {"started", "settled"},
                        decisions'[e].phase \in {"started", "settled"}
                 PROVE  d = e
        BY <1>1 DEF OneEffectPerState
    <2>1. /\ decisions[d].rollout = decisions[e].rollout
          /\ decisions[d].from = decisions[e].from
          /\ decisions[d].phase \in {"reserved", "started", "settled"}
          /\ decisions[e].phase \in {"reserved", "started", "settled"}
        BY <1>1, <1>2
    <2>2. CASE ~decisions[d].event /\ ~decisions[e].event
        BY <2>1, <2>2 DEF Inv, OneOpenAction
    <2>3. CASE decisions[d].event /\ decisions[e].event
        BY <2>1, <2>3 DEF Inv, OneEffectPerState, PendingAtHead
    <2>4. CASE decisions[d].event # decisions[e].event
        \* One is committed and behind the head, the other pends at it.
        <3>1. PICK c \in {d, e}, o \in {d, e} : decisions[c].event /\ ~decisions[o].event
            BY <2>4, <1>0
        <3>2. o \in Unresolved(decisions[o].rollout)
            BY <3>1, <2>1 DEF Unresolved, Admitted
        <3>3. decisions[o].from = rollouts[decisions[o].rollout].sequence
            BY <3>2, <1>0 DEF Inv, PendingAtHead
        <3>4. decisions[c].from < rollouts[decisions[c].rollout].sequence
            BY <3>1 DEF Inv, PendingAtHead
        <3>5. /\ decisions[c].rollout = decisions[o].rollout
              /\ decisions[c].from = decisions[o].from
            BY <2>1
        <3>6. decisions[c].from \in Nat /\ rollouts[decisions[c].rollout].sequence \in Nat
            BY <1>0 DEF Inv, TypeOK, Rollout
        <3> QED BY <3>3, <3>4, <3>5, <3>6
    <2> QED BY <2>2, <2>3, <2>4, <1>0
<1>6. OneLineOfEvents'
    <2> SUFFICES ASSUME NEW r \in Rollouts
                 PROVE  LET events == {d \in DOMAIN decisions' :
                                decisions'[d].rollout = r /\ decisions'[d].event} IN
                        /\ {decisions'[d].from : d \in events} = 0 .. (rollouts'[r].sequence - 1)
                        /\ \A d, e \in events : decisions'[d].from = decisions'[e].from => d = e
        BY DEF OneLineOfEvents
    <2> DEFINE events == {d \in DOMAIN decisions : decisions[d].rollout = r /\ decisions[d].event}
    <2>1. {d \in DOMAIN decisions' : decisions'[d].rollout = r /\ decisions'[d].event} = events
        BY <1>1
    <2>2. \A d \in events : decisions'[d].from = decisions[d].from
        BY <1>1
    <2>3. /\ {decisions[d].from : d \in events} = 0 .. (rollouts[r].sequence - 1)
          /\ \A d, e \in events : decisions[d].from = decisions[e].from => d = e
        BY DEF Inv, OneLineOfEvents
    <2> HIDE DEF events
    <2> QED BY <2>1, <2>2, <2>3, <1>1
<1> QED BY <1>3, <1>4, <1>5, <1>6

LEMMA OrdinaryReviews ==
    ASSUME Inv, OrdinaryStep
    PROVE  ReviewedHoldsStay' /\ AbandonmentStaysReadable'
<1> SUFFICES ASSUME NEW r \in Rollouts
             PROVE  /\ (rollouts'[r].status = "review_required" /\ rollouts'[r].paused) \/ Abandoned(r)' =>
                           \A d \in Unresolved(r)' : decisions'[d].phase # "reserved"
                    /\ Abandoned(r)' => rollouts'[r].abandoned = Unresolved(r)'
    BY DEF ReviewedHoldsStay, AbandonmentStaysReadable
<1>1. RolloutMoves(r, rollouts[r], rollouts'[r])
    BY DEF OrdinaryStep, DecisionsMove, RolloutsMove, WorkersMove
<1>2. \A d \in Unresolved(r)' : d \in Unresolved(r) /\ (decisions'[d].phase = "reserved" => decisions[d].phase = "reserved")
    <2>1. \A d \in DOMAIN decisions' :
              decisions'[d].phase = "reserved" => decisions[d].phase = "reserved"
        BY DEF OrdinaryStep, DecisionsMove, RolloutsMove, WorkersMove, DecisionMoves
    <2> QED BY <2>1, PendingShrinks DEF Inv, Unresolved
<1>3. (rollouts'[r].status = "review_required" /\ rollouts'[r].paused) \/ Abandoned(r)' =>
          \A d \in Unresolved(r)' : decisions'[d].phase # "reserved"
    BY <1>1, <1>2 DEF RolloutMoves, Abandoned, Inv, ReviewedHoldsStay
<1>4. ASSUME Abandoned(r)' PROVE rollouts'[r].abandoned = Unresolved(r)'
    <2>1. CASE rollouts'[r].abandoned = Unresolved(r)'
        BY <2>1
    <2>2. CASE rollouts'[r].abandoned = rollouts[r].abandoned
        <3>1. Abandoned(r) /\ rollouts[r].abandoned = Unresolved(r)
            BY <1>4, <2>2 DEF Abandoned, Inv, AbandonmentStaysReadable
        <3>2. \A d \in Unresolved(r) : decisions[d].phase # "reserved"
            BY <3>1 DEF Inv, ReviewedHoldsStay
        <3>3. Unresolved(r) \subseteq Unresolved(r)'
            BY <3>2 DEF OrdinaryStep, DecisionsMove, RolloutsMove, WorkersMove, DecisionMoves, Unresolved, Admitted
        <3> QED BY <3>1, <3>3, <2>2, <1>2
    <2> QED BY <1>1, <2>1, <2>2 DEF RolloutMoves
<1> QED BY <1>3, <1>4

LEMMA OrdinaryInv == ASSUME Inv, OrdinaryStep PROVE Inv'
<1>1. TypeOK'
    BY DEF OrdinaryStep, DecisionsMove, RolloutsMove, WorkersMove, TypeOK
<1>2. LeasesMarkActive'
    BY DEF OrdinaryStep, DecisionsMove, RolloutsMove, WorkersMove, RolloutMoves, LeasesMarkActive, Abandoned
<1>3. DecisionsKnown'
    BY DEF OrdinaryStep, DecisionsMove, RolloutsMove, WorkersMove, WorkerMoves, DecisionsKnown
<1> QED BY <1>1, <1>2, <1>3, OrdinaryEffects, OrdinaryReviews DEF Inv

-----------------------------------------------------------------------------
(* The shapes in which actions change one part of the state.               *)

LEMMA ClaimFacts ==
    ASSUME Inv, NEW w \in Workers, workers[w].at # "idle"
    PROVE  /\ workers[w] \in Worker
           /\ workers[w].rollout \in Rollouts /\ workers[w].lease \in Nat
           /\ Holds(w) => rollouts[workers[w].rollout].status = "active"
<1>1. workers[w] \in Worker
    BY DEF Inv, TypeOK, IdleWorker
<1>2. workers[w].rollout \in Rollouts /\ workers[w].lease \in Nat
    BY <1>1 DEF Worker
<1>3. ASSUME Holds(w) PROVE rollouts[workers[w].rollout].status = "active"
    <2>1. rollouts[workers[w].rollout].lease # NULL
        BY <1>2, <1>3, ProcessAssumption DEF Holds
    <2> QED BY <2>1, <1>2 DEF Inv, LeasesMarkActive
<1> QED BY <1>1, <1>2, <1>3

LEMMA SameDecisions == ASSUME Inv, decisions' = decisions PROVE DecisionsMove
    BY SameDecision DEF Inv, TypeOK, DecisionsMove

LEMMA SameRollouts == ASSUME Inv, rollouts' = rollouts PROVE RolloutsMove
    BY SameRollout DEF Inv, TypeOK, RolloutsMove

LEMMA SameWorkers == ASSUME Inv, workers' = workers PROVE WorkersMove
    BY SameWorker DEF Inv, TypeOK, WorkersMove

LEMMA DecisionReplaced ==
    ASSUME Inv, NEW d \in DOMAIN decisions, NEW new,
           decisions' = [decisions EXCEPT ![d] = new], DecisionMoves(decisions[d], new)
    PROVE  /\ DecisionsMove /\ decisions'[d] = new
           /\ \A c \in DOMAIN decisions \ {d} : decisions'[c] = decisions[c]
<1>1. new \in Decision /\ decisions \in Seq(Decision)
    BY DEF DecisionMoves, Inv, TypeOK
<1>2. /\ decisions' \in Seq(Decision) /\ DOMAIN decisions' = DOMAIN decisions
      /\ decisions'[d] = new
      /\ \A c \in DOMAIN decisions \ {d} : decisions'[c] = decisions[c]
    BY <1>1, ReplacedFacts
<1> QED BY <1>2, SameDecision DEF Inv, DecisionsMove

LEMMA RolloutReplaced ==
    ASSUME Inv, NEW r \in Rollouts, NEW new,
           rollouts' = [rollouts EXCEPT ![r] = new], RolloutMoves(r, rollouts[r], new)
    PROVE  RolloutsMove
<1>1. new \in Rollout
    BY DEF RolloutMoves
<1>2. /\ rollouts' \in [Rollouts -> Rollout] /\ rollouts'[r] = new
      /\ \A q \in Rollouts \ {r} : rollouts'[q] = rollouts[q]
    BY <1>1 DEF Inv, TypeOK
<1> QED BY <1>2, SameRollout DEF RolloutsMove

LEMMA WorkerReplaced ==
    ASSUME Inv, NEW w \in Workers, NEW new,
           workers' = [workers EXCEPT ![w] = new], WorkerMoves(new)
    PROVE  WorkersMove
<1>1. new \in {IdleWorker} \union Worker
    BY DEF WorkerMoves
<1>2. /\ workers' \in [Workers -> {IdleWorker} \union Worker] /\ workers'[w] = new
      /\ \A v \in Workers \ {w} : workers'[v] = workers[v]
    BY <1>1 DEF Inv, TypeOK
<1> QED BY <1>2, SameWorker DEF WorkersMove

LEMMA Left == ASSUME Inv, NEW w \in Workers, Leave(w) PROVE WorkersMove
<1>1. WorkerMoves(IdleWorker)
    BY DEF WorkerMoves, IdleWorker
<1> QED BY <1>1, WorkerReplaced DEF Leave

LEMMA Went ==
    ASSUME Inv, NEW w \in Workers, NEW to \in Places \ {"idle", "planning"}, Goto(w, to),
           workers[w].at # "idle",
           to # "failing" => workers[w].at \notin {"planning", "failing"}
    PROVE  WorkersMove
<1> DEFINE new == [workers[w] EXCEPT !.at = to]
<1>1. workers' = [workers EXCEPT ![w] = new]
    BY Zenon DEF Goto
<1>2. workers[w] \in Worker
    BY ClaimFacts
<1>3. new \in Worker /\ new.at = to /\ new.decision = workers[w].decision
    BY <1>2 DEF Worker
<1>4. WorkerMoves(new)
    BY <1>3 DEF WorkerMoves, Inv, DecisionsKnown
<1> QED BY <1>1, <1>4, WorkerReplaced

PhasesStay == \A d \in DOMAIN decisions : decisions'[d].phase = decisions[d].phase

\* A hold is begun or released.
LEMMA Phased ==
    ASSUME Inv, NEW d \in DOMAIN decisions, NEW phase \in {"started", "released"},
           decisions' = [decisions EXCEPT ![d].phase = phase], decisions[d].phase = "reserved"
    PROVE  /\ DecisionsMove /\ decisions'[d].phase = phase
           /\ \A c \in DOMAIN decisions \ {d} : decisions'[c] = decisions[c]
<1> DEFINE new == [decisions[d] EXCEPT !.phase = phase]
<1>1. decisions' = [decisions EXCEPT ![d] = new]
    BY Zenon
<1>2. decisions[d] \in Decision
    BY DecisionType DEF Inv
<1>3. /\ new \in Decision /\ new.phase = phase
      /\ new.rollout = decisions[d].rollout /\ new.from = decisions[d].from
      /\ new.event = decisions[d].event
      /\ new.amount = decisions[d].amount /\ new.charged = decisions[d].charged
    BY <1>2 DEF Decision, Phases
<1>4. DecisionMoves(decisions[d], new)
    BY <1>3 DEF DecisionMoves
<1> QED BY <1>1, <1>3, <1>4, DecisionReplaced

LEMMA Invoked ==
    ASSUME Inv, NEW d \in DOMAIN decisions, NEW status \in {"running", "completed", "ended"},
           decisions' = [decisions EXCEPT ![d].invocation = status]
    PROVE  DecisionsMove /\ PhasesStay
<1> DEFINE new == [decisions[d] EXCEPT !.invocation = status]
<1>1. decisions' = [decisions EXCEPT ![d] = new]
    BY Zenon
<1>2. decisions[d] \in Decision
    BY DecisionType DEF Inv
<1>3. /\ new \in Decision /\ new.phase = decisions[d].phase
      /\ new.rollout = decisions[d].rollout /\ new.from = decisions[d].from
      /\ new.event = decisions[d].event
      /\ new.amount = decisions[d].amount /\ new.charged = decisions[d].charged
    BY <1>2 DEF Decision
<1>4. DecisionMoves(decisions[d], new)
    BY <1>3 DEF DecisionMoves
<1> QED BY <1>1, <1>3, <1>4, DecisionReplaced DEF PhasesStay

LEMMA Called ==
    ASSUME Inv, NEW d \in DOMAIN decisions,
           decisions' = [decisions EXCEPT ![d].call = "completed"]
    PROVE  DecisionsMove /\ PhasesStay
<1> DEFINE new == [decisions[d] EXCEPT !.call = "completed"]
<1>1. decisions' = [decisions EXCEPT ![d] = new]
    BY Zenon
<1>2. decisions[d] \in Decision
    BY DecisionType DEF Inv
<1>3. /\ new \in Decision /\ new.phase = decisions[d].phase
      /\ new.rollout = decisions[d].rollout /\ new.from = decisions[d].from
      /\ new.event = decisions[d].event
      /\ new.amount = decisions[d].amount /\ new.charged = decisions[d].charged
    BY <1>2 DEF Decision
<1>4. DecisionMoves(decisions[d], new)
    BY <1>3 DEF DecisionMoves
<1> QED BY <1>1, <1>3, <1>4, DecisionReplaced DEF PhasesStay

LEMMA Settled ==
    ASSUME Inv, NEW d \in DOMAIN decisions, NEW charge \in Charges \union {NULL},
           NEW status \in {"none", "running", "completed", "ended"}, Settle(d, charge, status)
    PROVE  /\ DecisionsMove /\ account' \in Account
           /\ \A c \in DOMAIN decisions \ {d} : decisions'[c] = decisions[c]
           /\ IF decisions[d].phase = "started" /\ charge # NULL
              THEN decisions'[d].phase = "settled" /\ decisions'[d].charged = charge
              ELSE decisions'[d].phase = decisions[d].phase
<1> DEFINE dec == decisions[d]
           settles == dec.phase = "started" /\ charge # NULL
           phase == IF settles THEN "settled" ELSE dec.phase
           charged == IF settles THEN charge ELSE dec.charged
           a == [dec EXCEPT !.invocation = status]
           b == [a EXCEPT !.phase = phase]
           new == [b EXCEPT !.charged = charged]
<1>1. decisions' = [decisions EXCEPT ![d] = new]
    BY Zenon DEF Settle
<1>2. dec \in Decision /\ dec.call = "completed" /\ dec.phase \in {"started", "settled"}
    BY DecisionType DEF Inv, Settle
<1>3. phase \in Phases /\ charged \in {NULL} \union Charges \union Usages
    BY <1>2 DEF Decision, Phases
<1>4. /\ (phase = dec.phase) \/ (dec.phase = "started" /\ phase = "settled")
      /\ dec.phase = "settled" => charged = dec.charged
      /\ IF dec.phase = "started" /\ charge # NULL THEN phase = "settled" /\ charged = charge
                                                   ELSE phase = dec.phase
    OBVIOUS
<1> HIDE DEF phase, charged
<1>5. /\ a \in Decision /\ a.rollout = dec.rollout /\ a.from = dec.from
      /\ a.amount = dec.amount /\ a.event = dec.event /\ a.call = "completed"
    BY <1>2 DEF Decision
<1> HIDE DEF a
<1>6. /\ b \in Decision /\ b.rollout = dec.rollout /\ b.from = dec.from
      /\ b.amount = dec.amount /\ b.event = dec.event /\ b.call = "completed" /\ b.phase = phase
    BY <1>3, <1>5 DEF Decision
<1> HIDE DEF b
<1>7. /\ new \in Decision /\ new.rollout = dec.rollout /\ new.from = dec.from
      /\ new.amount = dec.amount /\ new.charged = charged
      /\ new.event = dec.event /\ new.call = "completed" /\ new.phase = phase
    BY <1>3, <1>6 DEF Decision
<1>8. DecisionMoves(dec, new)
    BY <1>4, <1>7 DEF DecisionMoves
<1>9. account' \in Account
    <2>1. dec.amount \in Int /\ account \in Account
        BY AmountType DEF Inv, TypeOK
    <2> HIDE DEF new, settles, dec
    <2>2. charge \in {NULL} \union Int
        <3>1. Charges \subseteq Int
            BY ProcessAssumption, SMT
        <3> QED BY <3>1, Zenon
    <2> QED BY <2>1, <2>2, ChargedFacts DEF Settle, settles, dec
<1>10. /\ DecisionsMove /\ decisions'[d] = new
       /\ \A c \in DOMAIN decisions \ {d} : decisions'[c] = decisions[c]
    BY <1>1, <1>8, DecisionReplaced
<1> HIDE DEF new
<1> QED BY <1>4, <1>7, <1>9, <1>10

LEMMA Released ==
    ASSUME Inv, NEW d \in DOMAIN decisions,
           account' = [account EXCEPT !.held = @ - decisions[d].amount, !.open = @ - 1]
    PROVE  account' \in Account
<1>1. decisions[d].amount \in Int /\ account \in Account
    BY AmountType DEF Inv, TypeOK
<1> QED BY <1>1, HoldFacts

\* A claim ends and leaves its rollout in another status.
LEMMA RolloutFreed ==
    ASSUME Inv, NEW r \in Rollouts, NEW status \in EventStatuses, NEW paused \in BOOLEAN,
           rollouts' = [rollouts EXCEPT ![r] = Freed(@, status, paused)],
           rollouts[r].status \notin Terminal,
           status = "review_required" /\ paused =>
               \A d \in Unresolved(r)' : decisions'[d].phase # "reserved"
    PROVE  RolloutsMove
<1> DEFINE new == Freed(rollouts[r], status, paused)
<1>1. rollouts' = [rollouts EXCEPT ![r] = new]
    BY Zenon
<1>2. rollouts[r] \in Rollout /\ rollouts[r].abandoned = {}
    BY DEF Inv, TypeOK, LeasesMarkActive, Abandoned, Terminal
<1>3. /\ new \in Rollout
      /\ new.status = status /\ new.paused = paused /\ new.lease = NULL /\ ~new.live
      /\ new.sequence = rollouts[r].sequence /\ new.abandoned = {}
      /\ new.opening = rollouts[r].opening
    BY <1>2, FreedFacts
<1>4. RolloutMoves(r, rollouts[r], new)
    <2> HIDE DEF new
    <2> QED BY <1>2, <1>3 DEF RolloutMoves, EventStatuses, Terminal
<1> QED BY <1>1, <1>4, RolloutReplaced

-----------------------------------------------------------------------------
(* Every action but Admit and AppendEvent is ordinary.                     *)

LEMMA Types == Inv => claims \in Nat /\ authority \in Authority /\ account \in Account
    BY DEF Inv, TypeOK

LEMMA DecisionOfWorker ==
    ASSUME Inv, NEW w \in Workers, workers[w].at \notin {"idle", "planning", "failing"}
    PROVE  workers[w].decision \in DOMAIN decisions
    BY DEF Inv, DecisionsKnown

LEMMA TransitionOrdinary == ASSUME Inv, NEW to \in AmberStatuses, Transition(to) PROVE OrdinaryStep
<1> DEFINE a == [authority EXCEPT !.status = to]
           b == [a EXCEPT !.sequence = @ + 1]
<1>1. authority' = b
    BY Zenon DEF Transition
<1>2. a \in Authority
    BY Types DEF Authority
<1> HIDE DEF a
<1>3. b \in Authority
    BY <1>2 DEF Authority
<1> QED BY <1>1, <1>3, Types, SameDecisions, SameRollouts, SameWorkers DEF Transition, OrdinaryStep

LEMMA LapseOrdinary == ASSUME Inv, Lapse PROVE OrdinaryStep
<1>1. authority' \in Authority
    BY Types DEF Lapse, Authority
<1> QED BY <1>1, Types, SameDecisions, SameRollouts, SameWorkers DEF Lapse, OrdinaryStep

LEMMA FundOrdinary == ASSUME Inv, Fund PROVE OrdinaryStep
<1>1. account' \in Account
    BY Types DEF Fund, Account
<1> QED BY <1>1, Types, SameDecisions, SameRollouts, SameWorkers DEF Fund, OrdinaryStep

LEMMA CreateRolloutOrdinary ==
    ASSUME Inv, NEW r \in Rollouts, NEW usage \in Usages, CreateRollout(r, usage)
    PROVE  OrdinaryStep
<1> DEFINE new == [rollouts[r] EXCEPT !.status = "active", !.opening = usage]
<1>1. account' \in Account
    BY Types, ProcessAssumption DEF CreateRollout, Account
<1>2. rollouts' = [rollouts EXCEPT ![r] = new]
    BY Zenon DEF CreateRollout
<1>3. /\ rollouts[r] \in Rollout /\ rollouts[r].status = "none"
      /\ rollouts[r].abandoned = {} /\ rollouts[r].lease = NULL /\ ~rollouts[r].live
    BY DEF Inv, TypeOK, LeasesMarkActive, Abandoned, CreateRollout
<1>4. usage \in Nat
    BY ProcessAssumption
<1>5. /\ new \in Rollout /\ new.status = "active"
      /\ new.paused = rollouts[r].paused /\ new.sequence = rollouts[r].sequence
      /\ new.lease = NULL /\ ~new.live /\ new.abandoned = {}
    BY <1>3, <1>4, OpenedFacts
<1>6. RolloutMoves(r, rollouts[r], new)
    <2> HIDE DEF new
    <2> QED BY <1>3, <1>5 DEF RolloutMoves, Terminal
<1>7. RolloutsMove
    BY <1>2, <1>6, RolloutReplaced
<1> QED BY <1>1, <1>7, Types, SameDecisions, SameWorkers DEF CreateRollout, OrdinaryStep

LEMMA LeaseExpiresOrdinary ==
    ASSUME Inv, NEW r \in Rollouts, LeaseExpires(r) PROVE OrdinaryStep
<1> DEFINE new == [rollouts[r] EXCEPT !.live = FALSE]
<1>1. rollouts' = [rollouts EXCEPT ![r] = new]
    BY Zenon DEF LeaseExpires
<1>2. /\ rollouts[r] \in Rollout /\ rollouts[r].status = "active" /\ rollouts[r].abandoned = {}
    BY DEF Inv, TypeOK, LeasesMarkActive, Abandoned, LeaseExpires
<1>3. /\ new \in Rollout /\ new.status = "active"
      /\ new.sequence = rollouts[r].sequence /\ ~new.live /\ new.abandoned = {}
      /\ new.opening = rollouts[r].opening
    BY <1>2 DEF Rollout
<1>4. RolloutMoves(r, rollouts[r], new)
    <2> HIDE DEF new
    <2> QED BY <1>2, <1>3 DEF RolloutMoves, Terminal
<1>5. RolloutsMove
    BY <1>1, <1>4, RolloutReplaced
<1> QED BY <1>5, Types, SameDecisions, SameWorkers DEF LeaseExpires, OrdinaryStep

LEMMA ClaimNextOrdinary ==
    ASSUME Inv, NEW w \in Workers, NEW r \in Rollouts, ClaimNext(w, r) PROVE OrdinaryStep
<1> DEFINE new == [rollouts[r] EXCEPT !.lease = claims + 1, !.live = TRUE]
           job == [at |-> "planning", rollout |-> r, lease |-> claims + 1,
                   from |-> rollouts[r].sequence, seen |-> authority.sequence,
                   decision |-> NULL]
<1>1. claims' \in Nat /\ claims + 1 \in Nat
    BY Types DEF ClaimNext
<1>2. rollouts' = [rollouts EXCEPT ![r] = new]
    BY Zenon DEF ClaimNext
<1>3. rollouts[r] \in Rollout /\ rollouts[r].status = "active" /\ rollouts[r].abandoned = {}
    BY DEF Inv, TypeOK, Abandoned, ClaimNext, Claimable
<1>4. /\ new \in Rollout /\ new.lease = claims + 1 /\ new.live
      /\ new.status = "active" /\ new.paused = rollouts[r].paused
      /\ new.sequence = rollouts[r].sequence /\ new.abandoned = {}
      /\ new.opening = rollouts[r].opening
    BY <1>1, <1>3, LeasedFacts
<1>5. RolloutMoves(r, rollouts[r], new)
    <2> HIDE DEF new
    <2> QED BY <1>1, <1>3, <1>4, ProcessAssumption DEF RolloutMoves, Terminal
<1>6. RolloutsMove
    BY <1>2, <1>5, RolloutReplaced
<1>7. rollouts[r].sequence \in Nat /\ authority.sequence \in Nat
    BY <1>3, Types DEF Rollout, Authority
<1>8. WorkerMoves(job)
    BY <1>1, <1>7 DEF WorkerMoves, Worker, Places
<1>9. WorkersMove
    <2>1. workers' = [workers EXCEPT ![w] = job]
        BY DEF ClaimNext
    <2> QED BY <2>1, <1>8, WorkerReplaced
<1> QED BY <1>1, <1>6, <1>9, Types, SameDecisions DEF ClaimNext, OrdinaryStep

LEMMA RefuseOrdinary == ASSUME Inv, NEW w \in Workers, Refuse(w) PROVE OrdinaryStep
<1> DEFINE r == workers[w].rollout
           status == IF decisions[workers[w].decision].stop THEN "quarantined"
                                                            ELSE "review_required"
<1>1. r \in Rollouts /\ rollouts[r].status = "active"
    BY ClaimFacts DEF Refuse, Binds, Current
<1>2. status \in EventStatuses
    BY DEF EventStatuses, Terminal
<1>3. rollouts' = [rollouts EXCEPT ![r] = Freed(@, status, FALSE)]
    BY Zenon DEF Refuse
<1>4. RolloutsMove
    <2> HIDE DEF status
    <2> QED BY <1>1, <1>2, <1>3, RolloutFreed DEF Terminal
<1> QED BY <1>4, Types, SameDecisions, Left DEF Refuse, OrdinaryStep

LEMMA StartOrdinary == ASSUME Inv, NEW w \in Workers, Start(w) PROVE OrdinaryStep
<1>1. workers[w].at = "decided" /\ workers[w].decision \in DOMAIN decisions
    BY DecisionOfWorker DEF Start, Binds
<1>2. DecisionsMove
    BY <1>1, Phased DEF Start
<1>3. WorkersMove
    BY <1>1, Went DEF Start, Places
<1> QED BY <1>2, <1>3, Types, SameRollouts DEF Start, OrdinaryStep

LEMMA IntendOrdinary == ASSUME Inv, NEW w \in Workers, Intend(w) PROVE OrdinaryStep
<1>1. workers[w].at = "acting" /\ workers[w].decision \in DOMAIN decisions
    BY DecisionOfWorker DEF Intend
<1>2. DecisionsMove
    BY <1>1, Invoked DEF Intend
<1>3. WorkersMove
    BY <1>1, Went DEF Intend, Places
<1> QED BY <1>2, <1>3, Types, SameRollouts DEF Intend, OrdinaryStep

LEMMA DispatchOrdinary == ASSUME Inv, NEW w \in Workers, Dispatch(w) PROVE OrdinaryStep
<1>1. WorkersMove
    BY Went DEF Dispatch, Places
<1> QED BY <1>1, Types, SameDecisions, SameRollouts DEF Dispatch, OrdinaryStep

LEMMA AnswerOrdinary == ASSUME Inv, NEW w \in Workers, Answer(w) PROVE OrdinaryStep
<1>1. workers[w].at = "sent" /\ workers[w].decision \in DOMAIN decisions
    BY DecisionOfWorker DEF Answer
<1>2. DecisionsMove
    BY <1>1, Called DEF Answer
<1>3. WorkersMove
    BY <1>1, Went DEF Answer, Places
<1> QED BY <1>2, <1>3, Types, SameRollouts DEF Answer, OrdinaryStep

LEMMA InvocationType ==
    ASSUME Inv, NEW d \in DOMAIN decisions
    PROVE  decisions[d].invocation \in {"none", "running", "completed", "ended"}
    BY DecisionType DEF Inv, Decision

LEMMA ReconcileOrdinary ==
    ASSUME Inv, NEW w \in Workers, NEW charge \in Charges \union {NULL}, Reconcile(w, charge)
    PROVE  OrdinaryStep
<1>1. workers[w].at = "answered" /\ workers[w].decision \in DOMAIN decisions
    BY DecisionOfWorker DEF Reconcile
<1>2. DecisionsMove /\ account' \in Account
    BY <1>1, Settled, InvocationType DEF Reconcile
<1>3. PICK to \in {"broken", "reconciled"} : Goto(w, to)
    BY DEF Reconcile
<1>4. WorkersMove
    BY <1>1, <1>3, Went DEF Places
<1> QED BY <1>2, <1>4, Types, SameRollouts DEF Reconcile, OrdinaryStep

LEMMA AdmitOutputOrdinary == ASSUME Inv, NEW w \in Workers, AdmitOutput(w) PROVE OrdinaryStep
<1>1. workers[w].at = "reconciled" /\ workers[w].decision \in DOMAIN decisions
    BY DecisionOfWorker DEF AdmitOutput
<1>2. DecisionsMove
    BY <1>1, Invoked DEF AdmitOutput
<1>3. WorkersMove
    BY <1>1, Went DEF AdmitOutput, Places
<1> QED BY <1>2, <1>3, Types, SameRollouts DEF AdmitOutput, OrdinaryStep

LEMMA MarkTerminalOrdinary ==
    ASSUME Inv, NEW w \in Workers, NEW charge \in Charges \union {NULL}, MarkTerminal(w, charge)
    PROVE  OrdinaryStep
<1>1. /\ workers[w].at \notin {"idle", "planning", "failing"}
      /\ workers[w].decision \in DOMAIN decisions
    BY DecisionOfWorker DEF MarkTerminal
<1>2. DecisionsMove /\ account' \in Account
    <2>1. CASE Settle(workers[w].decision, charge, "ended")
        BY <1>1, <2>1, Settled
    <2>2. CASE ~Settle(workers[w].decision, charge, "ended")
        BY <1>1, <2>2, Invoked, Types DEF MarkTerminal
    <2> QED BY <2>1, <2>2
<1>3. WorkersMove
    BY <1>1, Went, Left DEF MarkTerminal, Places
<1> QED BY <1>2, <1>3, Types, SameRollouts DEF MarkTerminal, OrdinaryStep

LEMMA RaiseOrdinary == ASSUME Inv, NEW w \in Workers, Raise(w) PROVE OrdinaryStep
<1>1. WorkersMove
    BY Went DEF Raise, Places
<1> QED BY <1>1, Types, SameDecisions, SameRollouts DEF Raise, OrdinaryStep

LEMMA ReleaseFailedOrdinary == ASSUME Inv, NEW w \in Workers, ReleaseFailed(w) PROVE OrdinaryStep
<1>1. RolloutsMove
    <2>1. CASE Holds(w)
        <3>1. /\ workers[w].rollout \in Rollouts
              /\ rollouts[workers[w].rollout].status = "active"
            BY <2>1, ClaimFacts DEF ReleaseFailed
        <3>2. "failed" \in EventStatuses
            BY DEF EventStatuses, Terminal
        <3> QED BY <2>1, <3>1, <3>2, RolloutFreed DEF ReleaseFailed, Terminal
    <2>2. CASE ~Holds(w)
        BY <2>2, SameRollouts DEF ReleaseFailed
    <2> QED BY <2>1, <2>2
<1> QED BY <1>1, Types, SameDecisions, Left DEF ReleaseFailed, OrdinaryStep

LEMMA CrashOrdinary == ASSUME Inv, NEW w \in Workers, Crash(w) PROVE OrdinaryStep
    BY Types, SameDecisions, SameRollouts, Left DEF Crash, OrdinaryStep

LEMMA ReleaseUnstartedOrdinary ==
    ASSUME Inv, NEW d \in DOMAIN decisions, ReleaseUnstarted(d) PROVE OrdinaryStep
<1>1. DecisionsMove
    BY Phased DEF ReleaseUnstarted
<1>2. account' \in Account
    BY Released DEF ReleaseUnstarted
<1> QED BY <1>1, <1>2, Types, SameRollouts, SameWorkers DEF ReleaseUnstarted, OrdinaryStep

LEMMA ReconcileModelOrdinary ==
    ASSUME Inv, NEW d \in DOMAIN decisions, NEW charge \in Charges \union {NULL},
           ReconcileModel(d, charge)
    PROVE  OrdinaryStep
<1>1. DecisionsMove /\ account' \in Account
    BY Settled, InvocationType DEF ReconcileModel
<1> QED BY <1>1, Types, SameRollouts, SameWorkers DEF ReconcileModel, OrdinaryStep

LEMMA ConcludeMoves ==
    ASSUME Inv, NEW r \in Rollouts, Recoverable(r),
           NEW unresolved \in BOOLEAN, NEW resume \in BOOLEAN, NEW stopped \in BOOLEAN,
           Conclude(r, unresolved, resume, stopped),
           unresolved => \A d \in Unresolved(r)' : decisions'[d].phase # "reserved"
    PROVE  RolloutsMove
<1>1. PICK status \in {"review_required", "active", "paused"} :
          /\ rollouts' = [rollouts EXCEPT ![r] = Freed(@, status, status # "active")]
          /\ status = "review_required" => unresolved
    BY Zenon DEF Conclude
<1>2. status \in EventStatuses /\ (status # "active") \in BOOLEAN
    BY DEF EventStatuses
<1>3. rollouts[r].status \notin Terminal
    BY DEF Recoverable, Terminal
<1> QED BY <1>1, <1>2, <1>3, RolloutFreed

LEMMA StoppedType == Inv => account.stopped \in BOOLEAN
    BY DEF Inv, TypeOK, Account

LEMMA RecoverClearOrdinary ==
    ASSUME Inv, NEW r \in Rollouts, NEW resume \in BOOLEAN, RecoverClear(r, resume)
    PROVE  OrdinaryStep
<1>1. RolloutsMove
    BY ConcludeMoves, StoppedType DEF RecoverClear
<1> QED BY <1>1, Types, SameDecisions, SameWorkers DEF RecoverClear, Conclude, OrdinaryStep

LEMMA RecoverUnstartedOrdinary ==
    ASSUME Inv, NEW r \in Rollouts, NEW resume \in BOOLEAN, RecoverUnstarted(r, resume)
    PROVE  OrdinaryStep
<1>1. PICK d \in Unresolved(r) :
          /\ Recoverable(r)
          /\ decisions[d].phase = "reserved" /\ decisions[d].invocation = "none"
          /\ decisions' = [decisions EXCEPT ![d].phase = "released"]
          /\ account' = [account EXCEPT !.held = @ - decisions[d].amount, !.open = @ - 1]
          /\ Conclude(r, FALSE, resume, account.stopped)
    BY DEF RecoverUnstarted
<1>2. d \in DOMAIN decisions
    BY DEF Unresolved
<1>3. DecisionsMove /\ account' \in Account
    BY <1>1, <1>2, Phased, Released
<1>4. RolloutsMove
    BY <1>1, ConcludeMoves, StoppedType
<1> QED BY <1>1, <1>3, <1>4, Types, SameWorkers DEF Conclude, OrdinaryStep

\* The pending action of a rollout is the only one.
LEMMA OnlyPending ==
    ASSUME Inv, NEW r \in Rollouts, NEW d \in Unresolved(r), NEW e \in Unresolved(r)
    PROVE  d = e
<1>1. /\ d \in DOMAIN decisions /\ e \in DOMAIN decisions
      /\ decisions[d].rollout = r /\ decisions[e].rollout = r
      /\ ~decisions[d].event /\ ~decisions[e].event
      /\ decisions[d].phase \notin {"denied", "released"}
      /\ decisions[e].phase \notin {"denied", "released"}
    BY DEF Unresolved, Admitted
<1>2. decisions[d] \in Decision /\ decisions[e] \in Decision
    BY <1>1, DecisionType DEF Inv
<1>3. /\ decisions[d].phase \in {"reserved", "started", "settled"}
      /\ decisions[e].phase \in {"reserved", "started", "settled"}
    BY <1>1, <1>2 DEF Decision, Phases
<1> QED BY <1>1, <1>3 DEF Inv, OneOpenAction

LEMMA RecoverCompletedOrdinary ==
    ASSUME Inv, NEW r \in Rollouts, NEW charge \in Charges \union {NULL}, RecoverCompleted(r, charge)
    PROVE  OrdinaryStep
<1>1. PICK d \in Unresolved(r) :
          /\ Recoverable(r)
          /\ Settle(d, charge, decisions[d].invocation)
          /\ Conclude(r, TRUE, FALSE, account'.stopped)
    BY DEF RecoverCompleted
<1>2. d \in DOMAIN decisions /\ decisions[d].phase # "reserved"
    BY <1>1 DEF Unresolved, Settle
<1>3. DecisionsMove /\ account' \in Account
    BY <1>1, <1>2, Settled, InvocationType
<1>4. \A e \in Unresolved(r)' : decisions'[e].phase # "reserved"
    <2> TAKE e \in Unresolved(r)'
    <2>1. e \in DOMAIN decisions /\ DecisionMoves(decisions[e], decisions'[e])
        BY <1>3 DEF DecisionsMove, Unresolved
    <2>2. e \in Unresolved(r)
        BY <2>1, DecisionType DEF Inv, DecisionMoves, Unresolved, Admitted, Decision, Phases
    <2>3. e = d
        BY <2>2, OnlyPending
    <2> QED BY <1>2, <2>1, <2>3 DEF DecisionMoves
<1>5. RolloutsMove
    <2>1. account'.stopped \in BOOLEAN
        BY <1>3 DEF Account
    <2> QED BY <1>1, <1>4, <2>1, ConcludeMoves
<1> QED BY <1>1, <1>3, <1>5, Types, SameWorkers DEF Conclude, OrdinaryStep

LEMMA RecoverUnknownOrdinary ==
    ASSUME Inv, NEW r \in Rollouts, RecoverUnknown(r) PROVE OrdinaryStep
<1>1. PICK d \in Unresolved(r) :
          /\ Recoverable(r)
          /\ decisions[d].phase # "reserved" /\ decisions[d].call = "none"
          /\ Conclude(r, TRUE, FALSE, account.stopped)
          /\ UNCHANGED <<account, decisions>>
    BY DEF RecoverUnknown
<1>2. \A e \in Unresolved(r)' : decisions'[e].phase # "reserved"
    BY <1>1, OnlyPending DEF Unresolved, Admitted
<1>3. RolloutsMove
    BY <1>1, <1>2, ConcludeMoves, StoppedType
<1> QED BY <1>1, <1>3, Types, SameDecisions, SameWorkers DEF Conclude, OrdinaryStep

LEMMA AbandonOrdinary == ASSUME Inv, NEW r \in Rollouts, Abandon(r) PROVE OrdinaryStep
<1>1. PICK names \in SUBSET Nat : names = Unresolved(r) /\ names = Unresolved(r)'
    <2>1. DOMAIN decisions \subseteq Nat
        BY DEF Inv, TypeOK
    <2>2. Unresolved(r) \in SUBSET Nat
        BY <2>1 DEF Unresolved
    <2>3. decisions' = decisions
        BY DEF Abandon
    <2>4. Unresolved(r)' = Unresolved(r)
        BY <2>3, Zenon DEF Unresolved, Admitted
    <2> QED BY <2>2, <2>4
<1> DEFINE new == [rollouts[r] EXCEPT !.status = "cancelled", !.abandoned = names]
<1>2. rollouts' = [rollouts EXCEPT ![r] = new]
    BY <1>1, Zenon DEF Abandon
<1>3. /\ rollouts[r] \in Rollout /\ rollouts[r].status = "review_required"
      /\ rollouts[r].paused /\ rollouts[r].lease = NULL /\ ~rollouts[r].live
    BY DEF Inv, TypeOK, LeasesMarkActive, Abandon
<1>4. /\ new \in Rollout /\ new.status = "cancelled" /\ new.abandoned = names
      /\ new.sequence = rollouts[r].sequence /\ new.lease = NULL /\ ~new.live
      /\ new.opening = rollouts[r].opening
    <2>1. PICK old \in Rollout : old = rollouts[r]
        BY <1>3
    <2> DEFINE next == [old EXCEPT !.status = "cancelled", !.abandoned = names]
    <2>2. /\ next \in Rollout /\ next.status = "cancelled" /\ next.abandoned = names
          /\ next.sequence = old.sequence /\ next.lease = old.lease /\ next.live = old.live
          /\ next.opening = old.opening
        BY CancelledFacts
    <2>3. new = next
        BY <2>1
    <2> HIDE DEF new, next
    <2> QED BY <1>3, <2>1, <2>2, <2>3
<1>5. RolloutMoves(r, rollouts[r], new)
    <2> HIDE DEF new
    <2> QED BY <1>1, <1>3, <1>4 DEF RolloutMoves, Terminal
<1>6. RolloutsMove
    BY <1>2, <1>5, RolloutReplaced
<1> QED BY <1>6, Types, SameDecisions, SameWorkers DEF Abandon, OrdinaryStep

-----------------------------------------------------------------------------
(* Admission: an entry more, and no other pending beside it.               *)

LEMMA AdmitInv ==
    ASSUME Inv, NEW w \in Workers, NEW kind \in Kinds, NEW usage \in Usages,
           NEW refusal \in Refusals, Admit(w, kind, usage, refusal)
    PROVE  Inv'
<1> DEFINE x == workers[w]
           admitted == refusal = "none" /\ Admissible(w, usage)
           entry == [rollout |-> x.rollout, from |-> x.from, lease |-> x.lease,
                     authority |-> authority.sequence, kind |-> kind, amount |-> usage,
                     stop |-> refusal = "stop",
                     phase |-> IF admitted THEN "reserved" ELSE "denied",
                     charged |-> NULL, invocation |-> "none", call |-> "none",
                     event |-> FALSE]
           n == Len(decisions) + 1
<1>1. x.at = "planning" /\ x \in Worker
    BY ClaimFacts DEF Admit
<1>2. /\ x.rollout \in Rollouts /\ x.lease \in Nat /\ x.from \in Nat
      /\ authority.sequence \in Nat
    BY <1>1, Types DEF Worker, Authority
<1>3. /\ entry \in Decision /\ entry.rollout = x.rollout /\ entry.from = x.from /\ ~entry.event
      /\ entry.phase \in {"reserved", "denied"}
      /\ entry.phase = "reserved" => admitted
    BY <1>2 DEF Decision, Phases
<1>4. decisions' = Append(decisions, entry) /\ rollouts' = rollouts
    BY DEF Admit
<1> HIDE DEF entry
<1>5. /\ decisions' \in Seq(Decision)
      /\ DOMAIN decisions = 1 .. Len(decisions) /\ n \in Nat /\ n \notin DOMAIN decisions
      /\ DOMAIN decisions' = (DOMAIN decisions) \union {n}
      /\ decisions'[n] = entry
      /\ \A d \in DOMAIN decisions : decisions'[d] = decisions[d]
    BY <1>3, <1>4 DEF Inv, TypeOK
<1>6. /\ admitted => /\ Unresolved(x.rollout) = {}
                     /\ rollouts[x.rollout].status = "active"
                     /\ rollouts[x.rollout].sequence = x.from
    BY DEF Admissible
<1> HIDE DEF n
<1>7. ASSUME NEW r \in Rollouts
      PROVE  Unresolved(r)' = IF r = x.rollout /\ entry.phase = "reserved"
                              THEN {n} ELSE Unresolved(r)
    <2>1. \A d \in DOMAIN decisions : d \in Unresolved(r)' <=> d \in Unresolved(r)
        BY <1>5 DEF Unresolved, Admitted
    <2>2. n \in Unresolved(r)' <=> r = x.rollout /\ entry.phase = "reserved"
        BY <1>3, <1>5 DEF Unresolved, Admitted
    <2>3. Unresolved(r) \subseteq DOMAIN decisions /\ Unresolved(r)' \subseteq (DOMAIN decisions) \union {n}
        BY <1>5 DEF Unresolved
    <2>4. r = x.rollout /\ entry.phase = "reserved" => Unresolved(r) = {}
        BY <1>3, <1>6
    <2> QED BY <2>1, <2>2, <2>3, <2>4
<1> DEFINE a == [x EXCEPT !.at = "decided"]
           b == [a EXCEPT !.decision = n]
<1>8. workers' = [workers EXCEPT ![w] = b]
    BY Zenon DEF Admit, n
<1>9. a \in Worker
    BY <1>1 DEF Worker, Places
<1> HIDE DEF a
<1>10. b \in Worker /\ b.decision = n
    BY <1>5, <1>9 DEF Worker
<1> HIDE DEF b
<1>11. /\ workers' \in [Workers -> {IdleWorker} \union Worker] /\ workers'[w] = b
       /\ \A v \in Workers \ {w} : workers'[v] = workers[v]
    BY <1>8, <1>10 DEF Inv, TypeOK
<1>12. account' \in Account
    <2>1. usage \in Int
        BY ProcessAssumption
    <2> QED BY <2>1, Types, HoldFacts DEF Admit
<1>13. TypeOK'
    BY <1>4, <1>5, <1>11, <1>12 DEF Admit, Inv, TypeOK
<1>14. LeasesMarkActive'
    BY <1>4 DEF Inv, LeasesMarkActive, Abandoned
<1>15. DecisionsKnown'
    BY <1>5, <1>10, <1>11 DEF Inv, DecisionsKnown
<1>16. PendingAtHead'
    <2>1. ASSUME NEW r \in Rollouts, NEW d \in Unresolved(r)'
          PROVE  decisions'[d].from = rollouts'[r].sequence
        <3>1. CASE r = x.rollout /\ entry.phase = "reserved"
            BY <3>1, <2>1, <1>3, <1>4, <1>5, <1>6, <1>7
        <3>2. CASE ~(r = x.rollout /\ entry.phase = "reserved")
            <4>1. d \in Unresolved(r) /\ d \in DOMAIN decisions
                BY <3>2, <2>1, <1>7 DEF Unresolved
            <4> QED BY <4>1, <1>4, <1>5 DEF Inv, PendingAtHead
        <3> QED BY <3>1, <3>2
    <2>2. ASSUME NEW d \in DOMAIN decisions', decisions'[d].event
          PROVE  /\ decisions'[d].phase = "settled"
                 /\ decisions'[d].from < rollouts'[decisions'[d].rollout].sequence
        BY <2>2, <1>3, <1>4, <1>5 DEF Inv, PendingAtHead
    <2> QED BY <2>1, <2>2 DEF PendingAtHead
<1>17. OneOpenAction'
    <2> SUFFICES ASSUME NEW d \in DOMAIN decisions', NEW e \in DOMAIN decisions',
                        decisions'[d].rollout = decisions'[e].rollout,
                        \A c \in {d, e} :
                            /\ decisions'[c].phase \in {"reserved", "started", "settled"}
                            /\ ~decisions'[c].event
                 PROVE  d = e
        BY DEF OneOpenAction
    <2>1. \A c \in {d, e} : c # n \/ (entry.phase = "reserved" /\ Unresolved(x.rollout) = {})
        BY <1>3, <1>5, <1>6
    <2>2. \A c \in {d, e} : c \in DOMAIN decisions => c \in Unresolved(decisions[c].rollout)
        BY <1>5 DEF Unresolved, Admitted
    <2>3. CASE d \in DOMAIN decisions /\ e \in DOMAIN decisions
        BY <2>3, <1>5 DEF Inv, OneOpenAction
    <2>4. CASE d = n \/ e = n
        BY <2>1, <2>2, <2>4, <1>3, <1>5
    <2> QED BY <2>3, <2>4, <1>5
<1>18. OneEffectPerState'
    BY <1>3, <1>5 DEF Inv, OneEffectPerState
<1>19. OneLineOfEvents'
    <2> SUFFICES ASSUME NEW r \in Rollouts
                 PROVE  LET events == {d \in DOMAIN decisions' :
                                decisions'[d].rollout = r /\ decisions'[d].event} IN
                        /\ {decisions'[d].from : d \in events} = 0 .. (rollouts'[r].sequence - 1)
                        /\ \A d, e \in events : decisions'[d].from = decisions'[e].from => d = e
        BY DEF OneLineOfEvents
    <2> DEFINE events == {d \in DOMAIN decisions : decisions[d].rollout = r /\ decisions[d].event}
    <2>1. {d \in DOMAIN decisions' : decisions'[d].rollout = r /\ decisions'[d].event} = events
        BY <1>3, <1>5
    <2>2. \A d \in events : decisions'[d].from = decisions[d].from
        BY <1>5
    <2>3. /\ {decisions[d].from : d \in events} = 0 .. (rollouts[r].sequence - 1)
          /\ \A d, e \in events : decisions[d].from = decisions[e].from => d = e
        BY DEF Inv, OneLineOfEvents
    <2> HIDE DEF events
    <2> QED BY <2>1, <2>2, <2>3, <1>4
<1>20. ReviewedHoldsStay' /\ AbandonmentStaysReadable'
    <2> SUFFICES ASSUME NEW r \in Rollouts,
                        (rollouts[r].status = "review_required" /\ rollouts[r].paused) \/ Abandoned(r)
                 PROVE  /\ \A d \in Unresolved(r)' : decisions'[d].phase # "reserved"
                        /\ Abandoned(r) => rollouts[r].abandoned = Unresolved(r)'
        BY <1>4 DEF ReviewedHoldsStay, AbandonmentStaysReadable, Abandoned
    <2>1. rollouts[r].status # "active"
        BY DEF Inv, LeasesMarkActive
    <2>2. Unresolved(r)' = Unresolved(r)
        BY <2>1, <1>3, <1>6, <1>7
    <2>3. \A d \in Unresolved(r) : d \in DOMAIN decisions /\ decisions[d].phase # "reserved"
        BY DEF Inv, ReviewedHoldsStay, Unresolved
    <2> QED BY <2>2, <2>3, <1>5 DEF Inv, AbandonmentStaysReadable
<1> QED BY <1>13, <1>14, <1>15, <1>16, <1>17, <1>18, <1>19, <1>20 DEF Inv

-----------------------------------------------------------------------------
(* The commit of an event: what pended at the head is now behind it.       *)

LEMMA AppendFacts ==
    ASSUME Inv, NEW w \in Workers, NEW to \in EventStatuses, AppendEvent(w, to)
    PROVE  LET r == workers[w].rollout  d == workers[w].decision IN
           /\ r \in Rollouts /\ d \in DOMAIN decisions
           /\ decisions[d].rollout = r /\ decisions[d].from = rollouts[r].sequence
           /\ d \in Unresolved(r) /\ decisions[d].phase \in {"started", "settled"}
           /\ decisions' \in Seq(Decision) /\ DOMAIN decisions' = DOMAIN decisions
           /\ decisions'[d].rollout = r /\ decisions'[d].from = decisions[d].from
           /\ decisions'[d].phase = "settled" /\ decisions'[d].event
           /\ decisions'[d].amount = decisions[d].amount
           /\ decisions'[d].charged = IF decisions[d].phase = "settled" THEN decisions[d].charged
                                      ELSE decisions[d].amount
           /\ \A c \in DOMAIN decisions \ {d} : decisions'[c] = decisions[c]
           /\ rollouts[r].status = "active" /\ rollouts[r].sequence \in Nat
           /\ rollouts' \in [Rollouts -> Rollout]
           /\ rollouts'[r].sequence = rollouts[r].sequence + 1
           /\ rollouts'[r].lease = NULL /\ ~rollouts'[r].live /\ rollouts'[r].abandoned = {}
           /\ rollouts'[r].opening = rollouts[r].opening /\ rollouts'[r].status # "none"
           /\ \A q \in Rollouts \ {r} : rollouts'[q] = rollouts[q]
<1> DEFINE r == workers[w].rollout
           d == workers[w].decision
           dec == decisions[d]
           charged == IF dec.phase = "settled" THEN dec.charged ELSE dec.amount
           e1 == [dec EXCEPT !.event = TRUE]
           e2 == [e1 EXCEPT !.phase = "settled"]
           e3 == [e2 EXCEPT !.charged = charged]
           free == Freed(rollouts[r], to, to = "paused")
           row == [free EXCEPT !.sequence = rollouts[r].sequence + 1]
<1>1. r \in Rollouts /\ rollouts[r].status = "active" /\ d \in DOMAIN decisions
    BY ClaimFacts, DecisionOfWorker DEF AppendEvent
<1>2. dec.rollout = r /\ dec.from = rollouts[r].sequence /\ dec.phase \in {"started", "settled"}
    BY DEF AppendEvent
<1>3. dec \in Decision
    BY <1>1, DecisionType DEF Inv
<1>4. rollouts[r] \in Rollout /\ rollouts[r].abandoned = {}
    BY <1>1 DEF Inv, TypeOK, LeasesMarkActive, Abandoned
<1>5. rollouts[r].sequence \in Nat
    BY <1>4 DEF Rollout
<1>6. d \in Unresolved(r)
    <2>1. ~dec.event
        BY <1>1, <1>2, <1>5 DEF Inv, PendingAtHead
    <2> QED BY <2>1, <1>1, <1>2 DEF Unresolved, Admitted
<1>7. decisions' = [decisions EXCEPT ![d] = e3]
    BY Zenon DEF AppendEvent
<1>8. rollouts' = [rollouts EXCEPT ![r] = row]
    BY Zenon DEF AppendEvent
<1>9. /\ charged \in {NULL} \union Charges \union Usages
      /\ charged = IF dec.phase = "settled" THEN dec.charged ELSE dec.amount
    BY <1>3 DEF Decision
<1> HIDE DEF charged
<1>10. /\ e1 \in Decision /\ e1.event /\ e1.amount = dec.amount
       /\ e1.rollout = dec.rollout /\ e1.from = dec.from
    BY <1>3 DEF Decision
<1> HIDE DEF e1
<1>11. /\ e2 \in Decision /\ e2.event /\ e2.phase = "settled"
       /\ e2.amount = dec.amount /\ e2.rollout = dec.rollout /\ e2.from = dec.from
    BY <1>10 DEF Decision, Phases
<1> HIDE DEF e2
<1>12. /\ e3 \in Decision /\ e3.event /\ e3.phase = "settled"
       /\ e3.amount = dec.amount /\ e3.charged = charged /\ e3.rollout = dec.rollout /\ e3.from = dec.from
    BY <1>9, <1>11 DEF Decision
<1> HIDE DEF e3
<1>13. /\ decisions' \in Seq(Decision) /\ DOMAIN decisions' = DOMAIN decisions
       /\ decisions'[d] = e3
       /\ \A c \in DOMAIN decisions \ {d} : decisions'[c] = decisions[c]
    BY <1>1, <1>7, <1>12, ReplacedFacts DEF Inv, TypeOK
<1>14. /\ free \in Rollout /\ free.lease = NULL /\ ~free.live
       /\ free.sequence = rollouts[r].sequence /\ free.abandoned = {}
       /\ free.opening = rollouts[r].opening /\ free.status = to
    <2> DEFINE paused == to = "paused"
    <2>1. paused \in BOOLEAN /\ free = Freed(rollouts[r], to, paused)
        OBVIOUS
    <2> HIDE DEF paused, free
    <2> QED BY <2>1, <1>4, FreedFacts
<1> HIDE DEF free
<1>15. /\ row \in Rollout /\ row.lease = NULL /\ ~row.live
       /\ row.sequence = rollouts[r].sequence + 1 /\ row.abandoned = {}
       /\ row.opening = rollouts[r].opening /\ row.status # "none"
    BY <1>14 DEF Rollout, EventStatuses, Terminal
<1> HIDE DEF row
<1>16. /\ rollouts' \in [Rollouts -> Rollout] /\ rollouts'[r] = row
       /\ \A q \in Rollouts \ {r} : rollouts'[q] = rollouts[q]
    BY <1>1, <1>8, <1>15 DEF Inv, TypeOK
<1> HIDE DEF r, d
<1> QED BY <1>1, <1>2, <1>5, <1>6, <1>9, <1>12, <1>13, <1>15, <1>16 DEF r, d

LEMMA AppendEventInv ==
    ASSUME Inv, NEW w \in Workers, NEW to \in EventStatuses, AppendEvent(w, to)
    PROVE  Inv'
<1>1. PICK r \in Rollouts, d \in DOMAIN decisions :
      /\ r = workers[w].rollout /\ d = workers[w].decision
      /\ decisions[d].rollout = r /\ decisions[d].from = rollouts[r].sequence
      /\ d \in Unresolved(r) /\ decisions[d].phase \in {"started", "settled"}
      /\ decisions' \in Seq(Decision) /\ DOMAIN decisions' = DOMAIN decisions
      /\ decisions'[d].rollout = r /\ decisions'[d].from = decisions[d].from
      /\ decisions'[d].phase = "settled" /\ decisions'[d].event
      /\ \A c \in DOMAIN decisions \ {d} : decisions'[c] = decisions[c]
      /\ rollouts[r].status = "active" /\ rollouts[r].sequence \in Nat
      /\ rollouts' \in [Rollouts -> Rollout]
      /\ rollouts'[r].sequence = rollouts[r].sequence + 1
      /\ rollouts'[r].lease = NULL /\ ~rollouts'[r].live /\ rollouts'[r].abandoned = {}
      /\ \A q \in Rollouts \ {r} : rollouts'[q] = rollouts[q]
    BY AppendFacts
<1>2. WorkersMove /\ claims' = claims /\ authority' = authority
    BY Left DEF AppendEvent
<1>3. account' \in Account
    <2>1. decisions[d].amount \in Int /\ account \in Account
        BY AmountType, Types
    <2>2. account' = account \/ account' = Charged(account, decisions[d].amount, decisions[d].amount)
        BY <1>1 DEF AppendEvent
    <2> QED BY <2>1, <2>2, ChargedFacts
<1>4. TypeOK'
    BY <1>1, <1>2, <1>3, Types DEF TypeOK, WorkersMove
<1>5. LeasesMarkActive'
    BY <1>1 DEF Inv, LeasesMarkActive, Abandoned
<1>6. DecisionsKnown'
    BY <1>1, <1>2 DEF WorkersMove, WorkerMoves, DecisionsKnown
<1>7. Unresolved(r)' = {} /\ \A q \in Rollouts \ {r} : Unresolved(q)' = Unresolved(q)
    <2>1. ASSUME NEW c \in Unresolved(r)' PROVE FALSE
        <3>1. c # d /\ c \in Unresolved(r)
            BY <2>1, <1>1 DEF Unresolved, Admitted
        <3> QED BY <3>1, <1>1, OnlyPending
    <2>2. ASSUME NEW q \in Rollouts \ {r} PROVE Unresolved(q)' = Unresolved(q)
        BY <2>2, <1>1 DEF Unresolved, Admitted
    <2> QED BY <2>1, <2>2
<1>8. \A c \in DOMAIN decisions :
          decisions[c].rollout \in Rollouts /\ decisions[c].from \in Nat
    BY DecisionType DEF Inv, Decision
<1>9. PendingAtHead'
    <2>1. ASSUME NEW q \in Rollouts, NEW c \in Unresolved(q)'
          PROVE  decisions'[c].from = rollouts'[q].sequence
        <3>1. q # r /\ c \in Unresolved(q) /\ c \in DOMAIN decisions /\ decisions[c].rollout = q
            BY <2>1, <1>7 DEF Unresolved
        <3> QED BY <3>1, <1>1 DEF Inv, PendingAtHead
    <2>2. ASSUME NEW c \in DOMAIN decisions, decisions'[c].event
          PROVE  /\ decisions'[c].phase = "settled"
                 /\ decisions'[c].from < rollouts'[decisions'[c].rollout].sequence
        <3>1. CASE c = d
            BY <3>1, <1>1
        <3>2. CASE c # d
            <4>1. /\ decisions'[c] = decisions[c] /\ decisions[c].phase = "settled"
                  /\ decisions[c].from < rollouts[decisions[c].rollout].sequence
                BY <3>2, <2>2, <1>1 DEF Inv, PendingAtHead
            <4> QED BY <4>1, <1>1, <1>8
        <3> QED BY <3>1, <3>2
    <2> QED BY <2>1, <2>2, <1>1 DEF PendingAtHead
<1>10. OneOpenAction'
    BY <1>1 DEF Inv, OneOpenAction
<1>11. OneEffectPerState'
    BY <1>1 DEF Inv, OneEffectPerState
<1>12. OneLineOfEvents'
    <2> SUFFICES ASSUME NEW q \in Rollouts
                 PROVE  LET events == {c \in DOMAIN decisions' :
                                decisions'[c].rollout = q /\ decisions'[c].event} IN
                        /\ {decisions'[c].from : c \in events} = 0 .. (rollouts'[q].sequence - 1)
                        /\ \A c, e \in events : decisions'[c].from = decisions'[e].from => c = e
        BY DEF OneLineOfEvents
    <2> DEFINE events == {c \in DOMAIN decisions : decisions[c].rollout = q /\ decisions[c].event}
               after == {c \in DOMAIN decisions' :
                            decisions'[c].rollout = q /\ decisions'[c].event}
    <2>1. /\ {decisions[c].from : c \in events} = 0 .. (rollouts[q].sequence - 1)
          /\ \A c, e \in events : decisions[c].from = decisions[e].from => c = e
        BY DEF Inv, OneLineOfEvents
    <2>2. d \notin events
        BY <1>1 DEF Unresolved
    <2>3. \A c \in events : decisions'[c] = decisions[c]
        BY <2>2, <1>1
    <2>4. CASE q # r
        <3>1. after = events
            BY <2>4, <1>1
        <3> HIDE DEF events, after
        <3> QED BY <2>1, <2>3, <2>4, <3>1, <1>1 DEF after
    <2>5. CASE q = r
        <3>1. after = events \union {d}
            BY <2>5, <1>1
        <3> HIDE DEF events
        <3>2. \A c \in events : decisions'[c].from \in 0 .. (rollouts[r].sequence - 1)
            BY <2>1, <2>3, <2>5
        <3>3. {decisions'[c].from : c \in after}
                  = {decisions[c].from : c \in events} \union {rollouts[r].sequence}
            <4> HIDE DEF after
            <4> QED BY <2>3, <3>1, <1>1
        <3>4. {decisions'[c].from : c \in after} = 0 .. (rollouts'[r].sequence - 1)
            <4> HIDE DEF after
            <4>1. 0 .. (rollouts[r].sequence - 1) \union {rollouts[r].sequence}
                      = 0 .. rollouts[r].sequence
                BY <1>1
            <4>2. rollouts'[r].sequence - 1 = rollouts[r].sequence
                BY <1>1
            <4> QED BY <3>3, <4>1, <4>2, <2>1, <2>5
        <3>5. \A c, e \in after : decisions'[c].from = decisions'[e].from => c = e
            <4> HIDE DEF after
            <4> QED BY <2>1, <2>3, <3>1, <3>2, <1>1
        <3> QED BY <2>5, <3>4, <3>5
    <2> QED BY <2>4, <2>5
<1>13. ReviewedHoldsStay' /\ AbandonmentStaysReadable'
    <2> SUFFICES ASSUME NEW q \in Rollouts
                 PROVE  /\ (rollouts'[q].status = "review_required" /\ rollouts'[q].paused) \/ Abandoned(q)' =>
                               \A c \in Unresolved(q)' : decisions'[c].phase # "reserved"
                        /\ Abandoned(q)' => rollouts'[q].abandoned = Unresolved(q)'
        BY DEF ReviewedHoldsStay, AbandonmentStaysReadable
    <2>1. CASE q = r
        BY <2>1, <1>1, <1>7 DEF Abandoned
    <2>2. CASE q # r
        <3>1. /\ rollouts'[q] = rollouts[q] /\ Unresolved(q)' = Unresolved(q)
              /\ \A c \in Unresolved(q) : decisions'[c] = decisions[c]
            BY <2>2, <1>1, <1>7 DEF Unresolved
        <3> QED BY <3>1 DEF Inv, ReviewedHoldsStay, AbandonmentStaysReadable, Abandoned
    <2> QED BY <2>1, <2>2
<1> QED BY <1>4, <1>5, <1>6, <1>9, <1>10, <1>11, <1>12, <1>13 DEF Inv

-----------------------------------------------------------------------------
(* The specification.                                                      *)

LEMMA InitInv == Init => Inv
<1> SUFFICES ASSUME Init PROVE Inv
    OBVIOUS
<1>1. /\ decisions = << >> /\ DOMAIN decisions = {} /\ decisions \in Seq(Decision)
      /\ claims = 0 /\ workers = [w \in Workers |-> IdleWorker]
    BY DEF Init
<1>2. \A r \in Rollouts :
          /\ rollouts[r] \in Rollout /\ rollouts[r].status = "none" /\ rollouts[r].sequence = 0
          /\ rollouts[r].lease = NULL /\ ~rollouts[r].live /\ rollouts[r].abandoned = {}
    BY DEF Init, Rollout
<1>3. authority \in Authority /\ account \in Account /\ rollouts \in [Rollouts -> Rollout]
    BY DEF Init, Authority, AmberStatuses, Account, Rollout
<1>4. \A r : Unresolved(r) = {}
    BY <1>1 DEF Unresolved
<1>5. TypeOK
    BY <1>1, <1>3 DEF TypeOK
<1>6. LeasesMarkActive /\ AbandonmentStaysReadable /\ ReviewedHoldsStay
    BY <1>2, <1>4 DEF LeasesMarkActive, AbandonmentStaysReadable, ReviewedHoldsStay, Abandoned
<1>7. DecisionsKnown
    BY <1>1 DEF DecisionsKnown, IdleWorker
<1>8. PendingAtHead /\ OneOpenAction /\ OneEffectPerState
    BY <1>1, <1>4 DEF PendingAtHead, OneOpenAction, OneEffectPerState
<1>9. OneLineOfEvents
    <2>1. 0 .. (0 - 1) = {}
        OBVIOUS
    <2> QED BY <1>1, <1>2, <2>1 DEF OneLineOfEvents
<1> QED BY <1>5, <1>6, <1>7, <1>8, <1>9 DEF Inv

\* Every step is ordinary, an admission or the commit of an event.
LEMMA NextCases ==
    ASSUME Inv, Next
    PROVE  \/ OrdinaryStep
           \/ \E w \in Workers, kind \in Kinds, usage \in Usages, refusal \in Refusals :
                  Admit(w, kind, usage, refusal)
           \/ \E w \in Workers, to \in EventStatuses : AppendEvent(w, to)
<1>1. CASE \E to \in AmberStatuses : Transition(to)
    BY <1>1, TransitionOrdinary
<1>2. CASE Lapse \/ Fund
    BY <1>2, LapseOrdinary, FundOrdinary
<1>3. CASE \E r \in Rollouts : LeaseExpires(r) \/ \E usage \in Usages : CreateRollout(r, usage)
    BY <1>3, LeaseExpiresOrdinary, CreateRolloutOrdinary
<1>4. ASSUME NEW w \in Workers, WorkerStep(w)
      PROVE  \/ OrdinaryStep
             \/ \E kind \in Kinds, usage \in Usages, refusal \in Refusals :
                    Admit(w, kind, usage, refusal)
             \/ \E to \in EventStatuses : AppendEvent(w, to)
    BY <1>4, ClaimNextOrdinary, RefuseOrdinary, StartOrdinary, IntendOrdinary, DispatchOrdinary,
       AnswerOrdinary, AdmitOutputOrdinary, ReconcileOrdinary, MarkTerminalOrdinary,
       RaiseOrdinary, ReleaseFailedOrdinary, CrashOrdinary
       DEF WorkerStep
<1>5. CASE ReviewerStep
    BY <1>5, ReleaseUnstartedOrdinary, ReconcileModelOrdinary, RecoverClearOrdinary,
       RecoverUnstartedOrdinary, RecoverCompletedOrdinary, RecoverUnknownOrdinary, AbandonOrdinary
       DEF ReviewerStep
<1> QED BY <1>1, <1>2, <1>3, <1>4, <1>5 DEF Next

LEMMA NextInv == Inv /\ [Next]_vars => Inv'
<1> SUFFICES ASSUME Inv, [Next]_vars PROVE Inv'
    OBVIOUS
<1>1. CASE Next
    BY <1>1, NextCases, OrdinaryInv, AdmitInv, AppendEventInv
<1>2. CASE UNCHANGED vars
    <2>1. OrdinaryStep
        BY <1>2, Types, SameDecisions, SameRollouts, SameWorkers DEF vars, OrdinaryStep
    <2> QED BY <2>1, OrdinaryInv
<1> QED BY <1>1, <1>2

\* The inductive invariant: heads, pending and committed actions, leases.
THEOREM Invariance == Spec => []Inv
<1> QED BY InitInv, NextInv, PTL DEF Spec

\* Rows, journal and workers' memory have their types.
THEOREM TypeCorrect == Spec => []TypeOK
<1>1. Inv => TypeOK
    BY DEF Inv
<1> QED BY <1>1, Invariance, PTL

\* At most one action is ever started from a project state.
THEOREM NoSecondEffect == Spec => []OneEffectPerState
<1>1. Inv => OneEffectPerState
    BY DEF Inv
<1> QED BY <1>1, Invariance, PTL

\* At most one action of a rollout pends.
THEOREM NoSecondPending == Spec => []OneOpenAction
<1>1. Inv => OneOpenAction
    BY DEF Inv
<1> QED BY <1>1, Invariance, PTL

\* Committed events are one line from the first state to the head.
THEOREM EventChain == Spec => []OneLineOfEvents
<1>1. Inv => OneLineOfEvents
    BY DEF Inv
<1> QED BY <1>1, Invariance, PTL

\* What an abandonment names stays what is unresolved.
THEOREM AbandonmentsReadable == Spec => []AbandonmentStaysReadable
<1>1. Inv => AbandonmentStaysReadable
    BY DEF Inv
<1> QED BY <1>1, Invariance, PTL

\* A started hold ends with its call's answer or its event.
THEOREM NoRefundOfStarted == Spec => StartedIsNeverRefunded
<1>1. ASSUME Inv, [Next]_vars
      PROVE  [\A d \in DOMAIN decisions :
                decisions[d].phase = "started" /\ decisions'[d].phase # "started" =>
                    /\ decisions'[d].phase = "settled"
                    /\ decisions'[d].call = "completed" \/ decisions'[d].event]_vars
    <2> SUFFICES ASSUME Next, NEW d \in DOMAIN decisions,
                        decisions[d].phase = "started", decisions'[d].phase # "started"
                 PROVE  /\ decisions'[d].phase = "settled"
                        /\ decisions'[d].call = "completed" \/ decisions'[d].event
        BY <1>1
    <2>1. CASE OrdinaryStep
        BY <2>1 DEF OrdinaryStep, DecisionsMove, DecisionMoves
    <2>2. ASSUME NEW w \in Workers, NEW kind \in Kinds, NEW usage \in Usages,
                 NEW refusal \in Refusals, Admit(w, kind, usage, refusal)
          PROVE  FALSE
        <3>1. PICK entry : decisions' = Append(decisions, entry)
            BY <2>2 DEF Admit
        <3>2. decisions'[d] = decisions[d]
            BY <1>1, <3>1 DEF Inv, TypeOK
        <3> QED BY <3>2
    <2>3. ASSUME NEW w \in Workers, NEW to \in EventStatuses, AppendEvent(w, to)
          PROVE  decisions'[d].phase = "settled" /\ decisions'[d].event
        BY <1>1, <2>3, AppendFacts
    <2> QED BY <1>1, <2>1, <2>2, <2>3, NextCases
<1> QED BY <1>1, Invariance, PTL DEF Spec, StartedIsNeverRefunded

\* A rollout that ended is never touched again.
THEOREM EndsStay == Spec => TerminalIsFinal
<1>1. ASSUME Inv, [Next]_vars
      PROVE  [\A r \in Rollouts :
                rollouts[r].status \in Terminal => rollouts'[r] = rollouts[r]]_vars
    <2> SUFFICES ASSUME Next, NEW r \in Rollouts, rollouts[r].status \in Terminal
                 PROVE  rollouts'[r] = rollouts[r]
        BY <1>1
    <2>1. CASE OrdinaryStep
        BY <2>1 DEF OrdinaryStep, RolloutsMove, RolloutMoves
    <2>2. ASSUME NEW w \in Workers, NEW kind \in Kinds, NEW usage \in Usages,
                 NEW refusal \in Refusals, Admit(w, kind, usage, refusal)
          PROVE  rollouts'[r] = rollouts[r]
        BY <2>2 DEF Admit
    <2>3. ASSUME NEW w \in Workers, NEW to \in EventStatuses, AppendEvent(w, to)
          PROVE  rollouts'[r] = rollouts[r]
        BY <1>1, <2>3, AppendFacts DEF Terminal
    <2> QED BY <1>1, <2>1, <2>2, <2>3, NextCases
<1> QED BY <1>1, Invariance, PTL DEF Spec, TerminalIsFinal

-----------------------------------------------------------------------------
(* Sums over finite sets.  SumFunctionOnSet chooses a function that is     *)
(* defined by recursion on sets; that there is one, and what it returns,   *)
(* is shown by a least counterexample in the cardinality of the set.       *)

\* The element SumFunctionOnSet takes first.
Pick(T) == CHOOSE x \in T : TRUE

\* The sum over T by the sums over smaller sets.
NextSum(f, sums, T) == IF T = {} THEN 0 ELSE f[Pick(T)] + sums[T \ {Pick(T)}]

\* The subsets of S that a recursion of depth n covers.
Small(S, n) == {T \in SUBSET S : Cardinality(T) <= n}

LEMMA PickFacts == \A T : T # {} => Pick(T) \in T
BY DEF Pick

\* A non-empty set of numbers has a least one.
LEMMA LeastNumber ==
    ASSUME NEW N \in SUBSET Nat, N # {}
    PROVE  \E n \in N : \A m \in N : n <= m
<1> DEFINE Less == {ss \in Nat \X Nat : ss[1] < ss[2]}
<1>1. IsWellFoundedOn(Less, Nat)
  <2>1. Less = OpToRel(<, Nat)
      BY Zenon DEF OpToRel
  <2> QED BY <2>1, NatLessThanWellFounded, Zenon
<1>2. PICK n \in N : \A m \in N : ~(<<m, n>> \in Less)
  <2> HIDE DEF Less
  <2> QED BY <1>1, WFMin, Zenon
<1>3. \A m \in N : <<m, n>> \in Less <=> m < n
    OBVIOUS
<1> HIDE DEF Less
<1>4. ASSUME NEW m \in N
      PROVE  n <= m
  <2>1. n \in Nat /\ m \in Nat
      OBVIOUS
  <2>2. ~(m < n)
      BY <1>2, <1>3
  <2> QED BY <2>1, <2>2
<1> QED BY <1>4

LEMMA SmallerWithout ==
    ASSUME NEW S, IsFiniteSet(S), NEW T \in SUBSET S, NEW x \in T
    PROVE  /\ IsFiniteSet(T) /\ Cardinality(T) \in Nat /\ T \ {x} \in SUBSET S
           /\ Cardinality(T \ {x}) = Cardinality(T) - 1 /\ Cardinality(T \ {x}) \in Nat
<1>1. IsFiniteSet(T)
    BY FS_Subset
<1>2. IsFiniteSet(T \ {x}) /\ Cardinality(T \ {x}) = Cardinality(T) - 1
    BY <1>1, FS_RemoveElement
<1> QED BY <1>1, <1>2, FS_CardinalityType

\* The recursion has a solution on the subsets of up to n elements.
LEMMA SumsOfSmall ==
    ASSUME NEW S, IsFiniteSet(S), NEW f, \A x \in S : f[x] \in Int, NEW n \in Nat
    PROVE  \E sums \in [Small(S, n) -> Int] : \A T \in Small(S, n) : sums[T] = NextSum(f, sums, T)
<1> DEFINE Good(k) == \E sums \in [Small(S, k) -> Int] :
                          \A T \in Small(S, k) : sums[T] = NextSum(f, sums, T)
           bad == {k \in Nat : ~Good(k)}
<1>1. Good(0)
  <2> DEFINE none == [T \in Small(S, 0) |-> 0]
  <2>1. \A T \in Small(S, 0) : T = {}
      BY FS_Subset, FS_EmptySet, FS_CardinalityType DEF Small
  <2>2. none \in [Small(S, 0) -> Int] /\ \A T \in Small(S, 0) : none[T] = NextSum(f, none, T)
      BY <2>1 DEF NextSum
  <2> QED BY <2>2
<1>2. ASSUME NEW k \in Nat, Good(k)
      PROVE  Good(k + 1)
  <2>1. PICK sums \in [Small(S, k) -> Int] : \A T \in Small(S, k) : sums[T] = NextSum(f, sums, T)
      BY <1>2
  <2> DEFINE more == [T \in Small(S, k + 1) |-> NextSum(f, sums, T)]
  <2>2. ASSUME NEW T \in Small(S, k + 1), T # {}
        PROVE  Pick(T) \in S /\ T \ {Pick(T)} \in Small(S, k)
    <3>1. Pick(T) \in T /\ T \in SUBSET S
        BY <2>2, PickFacts DEF Small
    <3> QED BY <3>1, SmallerWithout DEF Small
  <2>3. more \in [Small(S, k + 1) -> Int]
      BY <2>2 DEF NextSum
  <2>4. ASSUME NEW T \in Small(S, k)
        PROVE  T \in Small(S, k + 1) /\ more[T] = sums[T]
    <3>1. T \in Small(S, k + 1)
      <4>1. Cardinality(T) \in Nat
          BY FS_Subset, FS_CardinalityType DEF Small
      <4> QED BY <4>1 DEF Small
    <3> QED BY <2>1, <3>1
  <2>5. ASSUME NEW T \in Small(S, k + 1)
        PROVE  more[T] = NextSum(f, more, T)
    <3>1. CASE T = {}
        BY <3>1 DEF NextSum
    <3>2. CASE T # {}
        BY <2>2, <2>4, <3>2 DEF NextSum
    <3> QED BY <3>1, <3>2
  <2> HIDE DEF more
  <2> QED BY <2>3, <2>5
<1> HIDE DEF Good
<1>3. ASSUME bad # {} PROVE FALSE
  <2>1. PICK k \in bad : \A m \in bad : k <= m
      BY <1>3, LeastNumber
  <2>2. k \in Nat /\ k # 0 /\ ~Good(k)
      BY <1>1
  <2>3. k - 1 \in Nat /\ Good(k - 1)
      BY <2>1, <2>2
  <2>4. Good((k - 1) + 1)
      BY <1>2, <2>3
  <2> QED BY <2>2, <2>4
<1>4. Good(n)
    BY <1>3
<1> QED BY <1>4 DEF Good

\* What SumFunctionOnSet computes by its definition.
SumsOf(f, S) == CHOOSE sums : sums = [T \in SUBSET S |-> NextSum(f, sums, T)]

LEMMA SumUnfolds == \A f, S : SumFunctionOnSet(f, S) = SumsOf(f, S)[S]
BY Zenon DEF SumFunctionOnSet, FoldFunctionOnSet, MapThenFoldSet, SumsOf, NextSum, Pick

\* ... and therefore on all of them, which is what is chosen.
LEMMA SumsExist ==
    ASSUME NEW S, IsFiniteSet(S), NEW f, \A x \in S : f[x] \in Int
    PROVE  /\ SumsOf(f, S) \in [SUBSET S -> Int]
           /\ \A T \in SUBSET S : SumsOf(f, S)[T] = NextSum(f, SumsOf(f, S), T)
<1>1. Small(S, Cardinality(S)) = SUBSET S /\ Cardinality(S) \in Nat
    BY FS_Subset, FS_CardinalityType DEF Small
<1>2. PICK sums \in [SUBSET S -> Int] : \A T \in SUBSET S : sums[T] = NextSum(f, sums, T)
  <2>1. \E sums \in [Small(S, Cardinality(S)) -> Int] :
            \A T \in Small(S, Cardinality(S)) : sums[T] = NextSum(f, sums, T)
    <3>1. \A n \in Nat : \E sums \in [Small(S, n) -> Int] :
              \A T \in Small(S, n) : sums[T] = NextSum(f, sums, T)
        BY SumsOfSmall
    <3> QED BY <1>1, <3>1
  <2> QED BY <1>1, <2>1
<1>3. sums = [T \in SUBSET S |-> NextSum(f, sums, T)]
    BY <1>2
<1>4. SumsOf(f, S) = [T \in SUBSET S |-> NextSum(f, SumsOf(f, S), T)]
    BY <1>3, Zenon DEF SumsOf
<1> HIDE DEF SumsOf
<1>5. \A T \in SUBSET S : SumsOf(f, S)[T] = NextSum(f, SumsOf(f, S), T)
    BY <1>4, Zenon
<1>6. SumsOf(f, S) = [T \in SUBSET S |-> SumsOf(f, S)[T]]
    BY <1>4
<1> DEFINE bad == {n \in Nat : \E T \in SUBSET S : Cardinality(T) = n /\ SumsOf(f, S)[T] \notin Int}
<1>7. ASSUME bad # {} PROVE FALSE
  <2>1. PICK n \in bad : \A m \in bad : n <= m
      BY <1>7, LeastNumber
  <2>2. PICK T \in SUBSET S : Cardinality(T) = n /\ SumsOf(f, S)[T] \notin Int
      OBVIOUS
  <2>3. T # {} /\ SumsOf(f, S)[T] = f[Pick(T)] + SumsOf(f, S)[T \ {Pick(T)}]
      BY <1>5, <2>2 DEF NextSum
  <2>4. Pick(T) \in T
      BY <2>3, PickFacts
  <2>5. /\ T \ {Pick(T)} \in SUBSET S /\ Cardinality(T \ {Pick(T)}) \in Nat
        /\ Cardinality(T \ {Pick(T)}) = n - 1
      BY <2>2, <2>4, SmallerWithout
  <2>6. ~(n - 1 \in bad)
      BY <2>1
  <2>7. SumsOf(f, S)[T \ {Pick(T)}] \in Int
      BY <2>5, <2>6
  <2> QED BY <2>2, <2>3, <2>4, <2>7
<1>8. \A T \in SUBSET S : SumsOf(f, S)[T] \in Int
  <2>1. \A T \in SUBSET S : Cardinality(T) \in Nat
      BY FS_Subset, FS_CardinalityType
  <2> QED BY <1>7, <2>1
<1> QED BY <1>5, <1>6, <1>8

\* The sums of f over the subsets of S.
AreSums(sums, f, S) ==
    /\ \A x \in S : f[x] \in Int
    /\ sums \in [SUBSET S -> Int]
    /\ \A T \in SUBSET S : sums[T] = NextSum(f, sums, T)

\* The element taken first does not matter.
LEMMA AnyOrder ==
    ASSUME NEW S, IsFiniteSet(S), NEW f, NEW sums, AreSums(sums, f, S),
           NEW T \in SUBSET S, NEW x \in T
    PROVE  sums[T] = f[x] + sums[T \ {x}]
<1> DEFINE Wrong(U) == \E y \in U : sums[U] # f[y] + sums[U \ {y}]
           bad == {n \in Nat : \E U \in SUBSET S : Cardinality(U) = n /\ Wrong(U)}
<1>1. ASSUME bad # {} PROVE FALSE
  <2>1. PICK n \in bad : \A m \in bad : n <= m
      BY <1>1, LeastNumber
  <2>2. PICK U \in SUBSET S : Cardinality(U) = n /\ Wrong(U)
      OBVIOUS
  <2>3. PICK y \in U : sums[U] # f[y] + sums[U \ {y}]
      BY <2>2
  <2> DEFINE p == Pick(U)
  <2>4. p \in U /\ sums[U] = f[p] + sums[U \ {p}]
      BY <2>3, PickFacts DEF AreSums, NextSum
  <2> HIDE DEF p
  <2>5. ASSUME NEW z \in U, NEW u \in U, z # u
        PROVE  /\ U \ {z} \in SUBSET S /\ (U \ {z}) \ {u} \in SUBSET S
               /\ sums[U \ {z}] = f[u] + sums[(U \ {z}) \ {u}]
    <3>1. /\ U \ {z} \in SUBSET S /\ Cardinality(U \ {z}) \in Nat
          /\ Cardinality(U \ {z}) = Cardinality(U) - 1 /\ Cardinality(U) = n
        BY <2>2, SmallerWithout
    <3>2. ~(Cardinality(U \ {z}) \in bad)
      <4>1. n \in Nat
          OBVIOUS
      <4>2. ~(n <= Cardinality(U \ {z}))
          BY <3>1, <4>1
      <4> HIDE DEF bad
      <4> QED BY <2>1, <4>2
    <3>3. ~Wrong(U \ {z})
        BY <3>1, <3>2
    <3> QED BY <2>5, <3>1, <3>3
  <2> HIDE DEF Wrong, bad
  <2>6. y # p
      BY <2>3, <2>4
  <2>7. (U \ {p}) \ {y} = (U \ {y}) \ {p}
      OBVIOUS
  <2>8. sums[U \ {p}] = f[y] + sums[(U \ {p}) \ {y}] /\ (U \ {p}) \ {y} \in SUBSET S
      BY <2>4, <2>5, <2>6
  <2>9. sums[U \ {y}] = f[p] + sums[(U \ {p}) \ {y}]
      BY <2>4, <2>5, <2>6, <2>7
  <2>10. f[p] \in Int /\ f[y] \in Int /\ sums[(U \ {p}) \ {y}] \in Int
      BY <2>4, <2>8 DEF AreSums
  <2> QED BY <2>3, <2>4, <2>8, <2>9, <2>10
<1>2. Cardinality(T) \in Nat
    BY SmallerWithout
<1> QED BY <1>1, <1>2

\* A sum over T depends on nothing but the values on T.
LEMMA SumsAgree ==
    ASSUME NEW S, IsFiniteSet(S), NEW f, NEW sums, AreSums(sums, f, S),
           NEW R, IsFiniteSet(R), NEW g, NEW others, AreSums(others, g, R),
           NEW T \in SUBSET S, T \in SUBSET R, \A x \in T : f[x] = g[x]
    PROVE  sums[T] = others[T]
<1> DEFINE Wrong(U) == sums[U] # others[U]
           bad == {n \in Nat : \E U \in SUBSET T : Cardinality(U) = n /\ Wrong(U)}
<1>0. IsFiniteSet(T) /\ Cardinality(T) \in Nat
    BY FS_Subset, FS_CardinalityType
<1>1. ASSUME bad # {} PROVE FALSE
  <2>1. PICK n \in bad : \A m \in bad : n <= m
      BY <1>1, LeastNumber
  <2>2. PICK U \in SUBSET T : Cardinality(U) = n /\ Wrong(U)
      OBVIOUS
  <2>3. U # {} /\ sums[U] = f[Pick(U)] + sums[U \ {Pick(U)}] /\ others[U] = g[Pick(U)] + others[U \ {Pick(U)}]
    <3>1. U \in SUBSET S /\ U \in SUBSET R
        BY <2>2
    <3>2. sums[U] = NextSum(f, sums, U) /\ others[U] = NextSum(g, others, U)
        BY <3>1 DEF AreSums
    <3> QED BY <2>2, <3>2 DEF NextSum
  <2>4. Pick(U) \in U
      BY <2>3, PickFacts
  <2>5. /\ U \ {Pick(U)} \in SUBSET T /\ Cardinality(U \ {Pick(U)}) \in Nat
        /\ Cardinality(U \ {Pick(U)}) = Cardinality(U) - 1 /\ Cardinality(U) = n
      BY <1>0, <2>2, <2>4, SmallerWithout
  <2>6. ~(Cardinality(U \ {Pick(U)}) \in bad)
    <3>1. n \in Nat
        OBVIOUS
    <3>2. ~(n <= Cardinality(U \ {Pick(U)}))
        BY <2>5, <3>1
    <3> HIDE DEF bad
    <3> QED BY <2>1, <3>2
  <2>7. sums[U \ {Pick(U)}] = others[U \ {Pick(U)}]
      BY <2>5, <2>6
  <2> QED BY <2>2, <2>3, <2>4, <2>7
<1> QED BY <1>0, <1>1

LEMMA SumFacts ==
    ASSUME NEW S, IsFiniteSet(S), NEW f, \A x \in S : f[x] \in Int
    PROVE  AreSums(SumsOf(f, S), f, S) /\ SumFunctionOnSet(f, S) = SumsOf(f, S)[S]
BY SumUnfolds, SumsExist DEF AreSums

LEMMA SumType ==
    ASSUME NEW S, IsFiniteSet(S), NEW f, \A x \in S : f[x] \in Int
    PROVE  SumFunctionOnSet(f, S) \in Int
<1>1. AreSums(SumsOf(f, S), f, S) /\ SumFunctionOnSet(f, S) = SumsOf(f, S)[S]
    BY SumFacts
<1> QED BY <1>1 DEF AreSums

LEMMA SumEmpty == \A f : SumFunctionOnSet(f, {}) = 0
<1> SUFFICES ASSUME NEW f PROVE SumFunctionOnSet(f, {}) = 0
    OBVIOUS
<1>1. AreSums(SumsOf(f, {}), f, {}) /\ SumFunctionOnSet(f, {}) = SumsOf(f, {})[{}]
    BY SumFacts, FS_EmptySet
<1> QED BY <1>1 DEF AreSums, NextSum

LEMMA SumSame ==
    ASSUME NEW S, IsFiniteSet(S), NEW f, NEW g, \A x \in S : f[x] \in Int /\ g[x] = f[x]
    PROVE  SumFunctionOnSet(f, S) = SumFunctionOnSet(g, S)
<1>1. \A x \in S : f[x] \in Int /\ g[x] \in Int /\ f[x] = g[x]
    OBVIOUS
<1>2. AreSums(SumsOf(f, S), f, S) /\ SumFunctionOnSet(f, S) = SumsOf(f, S)[S]
    BY <1>1, SumFacts
<1>3. AreSums(SumsOf(g, S), g, S) /\ SumFunctionOnSet(g, S) = SumsOf(g, S)[S]
    BY <1>1, SumFacts
<1>4. SumsOf(f, S)[S] = SumsOf(g, S)[S]
    BY <1>1, <1>2, <1>3, SumsAgree
<1> QED BY <1>2, <1>3, <1>4

LEMMA SumWithout ==
    ASSUME NEW S, IsFiniteSet(S), NEW f, \A x \in S : f[x] \in Int, NEW x \in S
    PROVE  SumFunctionOnSet(f, S) = f[x] + SumFunctionOnSet(f, S \ {x})
<1>1. IsFiniteSet(S \ {x}) /\ S \ {x} \in SUBSET S /\ \A y \in S \ {x} : f[y] \in Int /\ f[y] = f[y]
    BY FS_Subset
<1>2. AreSums(SumsOf(f, S), f, S) /\ SumFunctionOnSet(f, S) = SumsOf(f, S)[S]
    BY SumFacts
<1>3. AreSums(SumsOf(f, S \ {x}), f, S \ {x}) /\ SumFunctionOnSet(f, S \ {x}) = SumsOf(f, S \ {x})[S \ {x}]
    BY <1>1, SumFacts
<1>4. SumsOf(f, S)[S] = f[x] + SumsOf(f, S)[S \ {x}]
    BY <1>2, AnyOrder
<1>5. SumsOf(f, S)[S \ {x}] = SumsOf(f, S \ {x})[S \ {x}]
    BY <1>1, <1>2, <1>3, SumsAgree
<1> QED BY <1>2, <1>3, <1>4, <1>5

LEMMA SumOfZeros ==
    ASSUME NEW S, IsFiniteSet(S), NEW f, \A x \in S : f[x] = 0
    PROVE  SumFunctionOnSet(f, S) = 0
<1> DEFINE bad == {n \in Nat : \E T \in SUBSET S : Cardinality(T) = n /\ SumFunctionOnSet(f, T) # 0}
<1>1. ASSUME bad # {} PROVE FALSE
  <2>1. PICK n \in bad : \A m \in bad : n <= m
      BY <1>1, LeastNumber
  <2>2. PICK T \in SUBSET S : Cardinality(T) = n /\ SumFunctionOnSet(f, T) # 0
      OBVIOUS
  <2>3. IsFiniteSet(T) /\ \A x \in T : f[x] \in Int
      BY FS_Subset
  <2>4. PICK x \in T : TRUE
      BY <2>2, SumEmpty
  <2>5. SumFunctionOnSet(f, T) = f[x] + SumFunctionOnSet(f, T \ {x})
      BY <2>3, SumWithout
  <2>6. /\ T \ {x} \in SUBSET S /\ Cardinality(T \ {x}) \in Nat
        /\ Cardinality(T \ {x}) = Cardinality(T) - 1 /\ n \in Nat
      BY <2>2, SmallerWithout
  <2>7. ~(n <= Cardinality(T \ {x}))
      BY <2>2, <2>6
  <2>8. ~(Cardinality(T \ {x}) \in bad)
    <3> HIDE DEF bad
    <3> QED BY <2>1, <2>7
  <2>9. SumFunctionOnSet(f, T \ {x}) = 0
      BY <2>6, <2>8
  <2>10. f[x] = 0
      OBVIOUS
  <2> QED BY <2>2, <2>5, <2>9, <2>10
<1>2. Cardinality(S) \in Nat
    BY FS_CardinalityType
<1> QED BY <1>1, <1>2

-----------------------------------------------------------------------------
(* Funding: what the account records is what the journal and the rollouts  *)
(* add up to.                                                              *)

LiveIn(ds) == {d \in DOMAIN ds : ds[d].phase \in {"reserved", "started"}}
SettledIn(ds) == {d \in DOMAIN ds : ds[d].phase = "settled"}
HeldIn(ds) == SumFunctionOnSet([d \in DOMAIN ds |-> ds[d].amount], LiveIn(ds))
SpentIn(ds) == SumFunctionOnSet([d \in DOMAIN ds |-> ds[d].charged], SettledIn(ds))
OpeningsIn(rows) == SumFunctionOnSet([r \in Rollouts |-> rows[r].opening], Rollouts)

\* A journal whose settled entries are charged.
Ledgers == {ds \in Seq(Decision) : \A d \in SettledIn(ds) : ds[d].charged # NULL}

UnopenedAreFree == \A r \in Rollouts : rollouts[r].status = "none" => rollouts[r].opening = 0

FundingInv ==
    /\ Inv
    /\ FundingConserved
    /\ decisions \in Ledgers
    /\ UnopenedAreFree

Balanced(acc, ds, rows) ==
    /\ acc.held = HeldIn(ds)
    /\ acc.charged = OpeningsIn(rows) + SpentIn(ds)
    /\ acc.open = Cardinality(LiveIn(ds)) /\ acc.open <= Slots
    /\ acc.stopped \/ acc.held + acc.charged + 0 <= Capacity

LEMMA FundingMeans ==
    /\ FundingConserved <=> Balanced(account, decisions, rollouts)
    /\ FundingConserved' <=> Balanced(account', decisions', rollouts')
<1>1. /\ {d \in DOMAIN decisions : decisions[d].phase \in {"settled"}} = SettledIn(decisions)
      /\ {d \in DOMAIN decisions' : decisions'[d].phase \in {"settled"}} = SettledIn(decisions')
    BY DEF SettledIn
<1>2. FundingConserved <=> Balanced(account, decisions, rollouts)
    BY <1>1, Zenon DEF FundingConserved, Fits, Balanced, HeldIn, SpentIn, OpeningsIn, LiveIn
<1>3. FundingConserved' <=> Balanced(account', decisions', rollouts')
    BY <1>1, Zenon DEF FundingConserved, Fits, Balanced, HeldIn, SpentIn, OpeningsIn, LiveIn
<1> QED BY <1>2, <1>3

LEMMA LedgerFacts ==
    ASSUME NEW ds \in Ledgers
    PROVE  /\ ds \in Seq(Decision)
           /\ IsFiniteSet(DOMAIN ds) /\ IsFiniteSet(LiveIn(ds)) /\ IsFiniteSet(SettledIn(ds))
           /\ \A d \in DOMAIN ds : [c \in DOMAIN ds |-> ds[c].amount][d] \in Int
           /\ \A d \in SettledIn(ds) : [c \in DOMAIN ds |-> ds[c].charged][d] \in Int
           /\ LiveIn(ds) \subseteq DOMAIN ds /\ SettledIn(ds) \subseteq DOMAIN ds
           /\ HeldIn(ds) \in Int /\ SpentIn(ds) \in Int /\ Cardinality(LiveIn(ds)) \in Nat
<1>1. ds \in Seq(Decision)
    BY DEF Ledgers
<1>2. LiveIn(ds) \subseteq DOMAIN ds /\ SettledIn(ds) \subseteq DOMAIN ds
    BY DEF LiveIn, SettledIn
<1>3. IsFiniteSet(DOMAIN ds)
  <2>1. Len(ds) \in Nat /\ DOMAIN ds = 1 .. Len(ds)
      BY <1>1
  <2> QED BY <2>1, FS_Interval
<1>4. IsFiniteSet(LiveIn(ds)) /\ IsFiniteSet(SettledIn(ds)) /\ Cardinality(LiveIn(ds)) \in Nat
    BY <1>2, <1>3, FS_Subset, FS_CardinalityType
<1>5. \A d \in DOMAIN ds :
          ds[d].amount \in Usages /\ ds[d].charged \in {NULL} \union Charges \union Usages
  <2>1. \A d \in DOMAIN ds : ds[d] \in Decision
      BY <1>1
  <2> QED BY <2>1 DEF Decision
<1>6. Usages \subseteq Int /\ Charges \subseteq Int
    BY ProcessAssumption
<1>7. \A d \in DOMAIN ds : [c \in DOMAIN ds |-> ds[c].amount][d] \in Int
    BY <1>5, <1>6
<1>8. \A d \in SettledIn(ds) : [c \in DOMAIN ds |-> ds[c].charged][d] \in Int
    BY <1>2, <1>5, <1>6 DEF Ledgers
<1>9. HeldIn(ds) \in Int
    BY <1>2, <1>4, <1>7, SumType DEF HeldIn
<1>10. SpentIn(ds) \in Int
    BY <1>4, <1>8, SumType DEF SpentIn
<1> QED BY <1>1, <1>2, <1>3, <1>4, <1>7, <1>8, <1>9, <1>10

\* What an entry is to the ledger.
SameEntry(old, new) ==
    /\ new.amount = old.amount
    /\ new.phase \in {"reserved", "started"} <=> old.phase \in {"reserved", "started"}
    /\ new.phase = "settled" <=> old.phase = "settled"
    /\ old.phase = "settled" => new.charged = old.charged

LEMMA EntriesKept ==
    ASSUME NEW ds \in Ledgers, NEW es \in Seq(Decision), DOMAIN es = DOMAIN ds,
           \A d \in DOMAIN ds : SameEntry(ds[d], es[d])
    PROVE  /\ es \in Ledgers /\ HeldIn(es) = HeldIn(ds) /\ SpentIn(es) = SpentIn(ds)
           /\ LiveIn(es) = LiveIn(ds)
<1>1. LiveIn(es) = LiveIn(ds) /\ SettledIn(es) = SettledIn(ds)
    BY DEF LiveIn, SettledIn, SameEntry
<1>2. \A d \in SettledIn(ds) : es[d].charged = ds[d].charged
    BY DEF SettledIn, SameEntry
<1>3. es \in Ledgers
    BY <1>1, <1>2 DEF Ledgers
<1> DEFINE a == [d \in DOMAIN ds |-> ds[d].amount]
           b == [d \in DOMAIN es |-> es[d].amount]
           p == [d \in DOMAIN ds |-> ds[d].charged]
           q == [d \in DOMAIN es |-> es[d].charged]
<1>4. \A d \in LiveIn(ds) : a[d] \in Int /\ b[d] = a[d]
  <2>1. \A d \in LiveIn(ds) : d \in DOMAIN ds /\ a[d] \in Int
      BY LedgerFacts
  <2> QED BY <2>1 DEF SameEntry
<1>5. \A d \in SettledIn(ds) : p[d] \in Int /\ q[d] = p[d]
  <2>1. \A d \in SettledIn(ds) : d \in DOMAIN ds /\ p[d] \in Int
      BY LedgerFacts
  <2> QED BY <2>1, <1>2
<1>6. HeldIn(ds) = SumFunctionOnSet(a, LiveIn(ds)) /\ HeldIn(es) = SumFunctionOnSet(b, LiveIn(ds))
    BY <1>1, Zenon DEF HeldIn
<1>7. /\ SpentIn(ds) = SumFunctionOnSet(p, SettledIn(ds))
      /\ SpentIn(es) = SumFunctionOnSet(q, SettledIn(ds))
    BY <1>1, Zenon DEF SpentIn
<1> HIDE DEF a, b, p, q
<1>8. IsFiniteSet(LiveIn(ds)) /\ IsFiniteSet(SettledIn(ds))
    BY LedgerFacts
<1>9. SumFunctionOnSet(a, LiveIn(ds)) = SumFunctionOnSet(b, LiveIn(ds))
    BY <1>4, <1>8, SumSame
<1>10. SumFunctionOnSet(p, SettledIn(ds)) = SumFunctionOnSet(q, SettledIn(ds))
    BY <1>5, <1>8, SumSame
<1> QED BY <1>1, <1>3, <1>6, <1>7, <1>9, <1>10

\* A hold ends: the entry leaves the live ones, settled or not.
LEMMA EntryClosed ==
    ASSUME NEW ds \in Ledgers, NEW es \in Seq(Decision), DOMAIN es = DOMAIN ds,
           NEW d \in LiveIn(ds), \A c \in DOMAIN ds \ {d} : es[c] = ds[c],
           es[d].amount = ds[d].amount, es[d].phase \in {"released", "settled"},
           es[d].phase = "settled" => es[d].charged # NULL
    PROVE  /\ es \in Ledgers /\ HeldIn(es) = HeldIn(ds) - ds[d].amount
           /\ SpentIn(es) = IF es[d].phase = "settled" THEN SpentIn(ds) + es[d].charged
                                                       ELSE SpentIn(ds)
           /\ Cardinality(LiveIn(es)) = Cardinality(LiveIn(ds)) - 1
<1>1. d \in DOMAIN ds /\ d \notin SettledIn(ds)
    BY DEF LiveIn, SettledIn
<1>2. LiveIn(es) = LiveIn(ds) \ {d}
    BY DEF LiveIn
<1>3. SettledIn(es) = IF es[d].phase = "settled" THEN SettledIn(ds) \union {d} ELSE SettledIn(ds)
    BY <1>1 DEF SettledIn
<1>4. es \in Ledgers
    BY <1>1, <1>3 DEF Ledgers, SettledIn
<1> DEFINE a == [c \in DOMAIN ds |-> ds[c].amount]
           b == [c \in DOMAIN es |-> es[c].amount]
           p == [c \in DOMAIN ds |-> ds[c].charged]
           q == [c \in DOMAIN es |-> es[c].charged]
           live == LiveIn(ds)
           settled == SettledIn(ds)
<1>5. /\ IsFiniteSet(live) /\ live \subseteq DOMAIN ds /\ \A c \in live : a[c] \in Int
      /\ IsFiniteSet(settled) /\ settled \subseteq DOMAIN ds /\ \A c \in settled : p[c] \in Int
    BY LedgerFacts
<1>6. IsFiniteSet(SettledIn(es)) /\ \A c \in SettledIn(es) : q[c] \in Int
    BY <1>4, LedgerFacts
<1>7. a[d] = ds[d].amount /\ \A c \in live \ {d} : b[c] = a[c]
    BY <1>1, <1>5
<1>8. \A c \in settled : q[c] = p[c] /\ p[c] \in Int
    BY <1>1, <1>5
<1>9. q[d] = es[d].charged
    BY <1>1
<1>10. HeldIn(ds) = SumFunctionOnSet(a, live) /\ HeldIn(es) = SumFunctionOnSet(b, live \ {d})
    BY <1>2, Zenon DEF HeldIn
<1>11. /\ SpentIn(ds) = SumFunctionOnSet(p, settled)
       /\ SpentIn(es) = SumFunctionOnSet(q, SettledIn(es))
    BY Zenon DEF SpentIn
<1> HIDE DEF a, b, p, q
<1>12. HeldIn(es) = HeldIn(ds) - ds[d].amount
  <2>1. SumFunctionOnSet(a, live) = a[d] + SumFunctionOnSet(a, live \ {d})
      BY <1>5, SumWithout
  <2>2. IsFiniteSet(live \ {d}) /\ \A c \in live \ {d} : a[c] \in Int /\ b[c] = a[c]
      BY <1>5, <1>7, FS_Subset
  <2>3. /\ SumFunctionOnSet(a, live \ {d}) = SumFunctionOnSet(b, live \ {d})
        /\ SumFunctionOnSet(a, live \ {d}) \in Int
      BY <2>2, SumSame, SumType
  <2>4. a[d] \in Int
      BY <1>5
  <2> QED BY <1>7, <1>10, <2>1, <2>3, <2>4
<1>13. SpentIn(es) = IF es[d].phase = "settled" THEN SpentIn(ds) + es[d].charged ELSE SpentIn(ds)
  <2>1. SumFunctionOnSet(p, settled) = SumFunctionOnSet(q, settled) /\ SumFunctionOnSet(p, settled) \in Int
      BY <1>5, <1>8, SumSame, SumType
  <2>2. CASE es[d].phase = "settled"
    <3>1. SettledIn(es) = settled \union {d} /\ d \in SettledIn(es) /\ SettledIn(es) \ {d} = settled
        BY <1>1, <1>3, <2>2
    <3>2. SumFunctionOnSet(q, SettledIn(es)) = q[d] + SumFunctionOnSet(q, SettledIn(es) \ {d})
        BY <1>6, <3>1, SumWithout
    <3>3. SpentIn(es) = es[d].charged + SpentIn(ds)
        BY <1>9, <1>11, <2>1, <3>1, <3>2, Zenon
    <3>4. es[d].charged \in Int /\ SpentIn(ds) \in Int
        BY <1>6, <1>9, <3>1, LedgerFacts
    <3> QED BY <2>2, <3>3, <3>4
  <2>3. CASE es[d].phase # "settled"
      BY <1>3, <1>11, <2>1, <2>3
  <2> QED BY <2>2, <2>3
<1>14. Cardinality(LiveIn(es)) = Cardinality(live) - 1
    BY <1>2, <1>5, FS_RemoveElement
<1> QED BY <1>4, <1>12, <1>13, <1>14

\* An entry more, which holds capacity if it was admitted.
LEMMA EntryAppended ==
    ASSUME NEW ds \in Ledgers, NEW es \in Seq(Decision), NEW n, n \notin DOMAIN ds,
           DOMAIN es = (DOMAIN ds) \union {n}, \A c \in DOMAIN ds : es[c] = ds[c],
           es[n].phase \in {"reserved", "denied"}
    PROVE  /\ es \in Ledgers /\ SpentIn(es) = SpentIn(ds)
           /\ IF es[n].phase = "reserved"
              THEN /\ HeldIn(es) = HeldIn(ds) + es[n].amount
                   /\ Cardinality(LiveIn(es)) = Cardinality(LiveIn(ds)) + 1
              ELSE HeldIn(es) = HeldIn(ds) /\ LiveIn(es) = LiveIn(ds)
<1>1. SettledIn(es) = SettledIn(ds)
    BY DEF SettledIn
<1>2. LiveIn(es) = IF es[n].phase = "reserved" THEN LiveIn(ds) \union {n} ELSE LiveIn(ds)
    BY DEF LiveIn
<1>3. es \in Ledgers
    BY <1>1 DEF Ledgers, SettledIn
<1> DEFINE a == [c \in DOMAIN ds |-> ds[c].amount]
           b == [c \in DOMAIN es |-> es[c].amount]
           p == [c \in DOMAIN ds |-> ds[c].charged]
           q == [c \in DOMAIN es |-> es[c].charged]
           live == LiveIn(ds)
           settled == SettledIn(ds)
<1>4. /\ IsFiniteSet(live) /\ live \subseteq DOMAIN ds /\ \A c \in live : a[c] \in Int
      /\ IsFiniteSet(settled) /\ settled \subseteq DOMAIN ds /\ \A c \in settled : p[c] \in Int
    BY LedgerFacts
<1>5. IsFiniteSet(LiveIn(es)) /\ LiveIn(es) \subseteq DOMAIN es /\ \A c \in LiveIn(es) : b[c] \in Int
    BY <1>3, LedgerFacts
<1>6. \A c \in live : a[c] \in Int /\ b[c] = a[c]
    BY <1>4
<1>7. \A c \in settled : p[c] \in Int /\ q[c] = p[c]
    BY <1>4
<1>8. b[n] = es[n].amount
    OBVIOUS
<1>9. HeldIn(ds) = SumFunctionOnSet(a, live) /\ HeldIn(es) = SumFunctionOnSet(b, LiveIn(es))
    BY Zenon DEF HeldIn
<1>10. SpentIn(ds) = SumFunctionOnSet(p, settled) /\ SpentIn(es) = SumFunctionOnSet(q, settled)
    BY <1>1, Zenon DEF SpentIn
<1> HIDE DEF a, b, p, q
<1>11. SpentIn(es) = SpentIn(ds)
    BY <1>4, <1>7, <1>10, SumSame
<1>12. SumFunctionOnSet(a, live) = SumFunctionOnSet(b, live) /\ SumFunctionOnSet(a, live) \in Int
    BY <1>4, <1>6, SumSame, SumType
<1>13. CASE es[n].phase = "reserved"
  <2>1. /\ LiveIn(es) = live \union {n} /\ n \in LiveIn(es) /\ n \notin live
        /\ LiveIn(es) \ {n} = live
      BY <1>2, <1>4, <1>13
  <2>2. SumFunctionOnSet(b, LiveIn(es)) = b[n] + SumFunctionOnSet(b, LiveIn(es) \ {n})
      BY <1>5, <2>1, SumWithout
  <2>3. HeldIn(es) = es[n].amount + HeldIn(ds)
      BY <1>8, <1>9, <1>12, <2>1, <2>2, Zenon
  <2>4. Cardinality(live \union {n}) = Cardinality(live) + 1
      BY <1>4, <2>1, FS_AddElement
  <2>5. es[n].amount \in Int /\ HeldIn(ds) \in Int
      BY <1>5, <1>8, <2>1, LedgerFacts
  <2> QED BY <1>3, <1>11, <1>13, <2>1, <2>3, <2>4, <2>5
<1>14. CASE es[n].phase # "reserved"
    BY <1>2, <1>3, <1>9, <1>11, <1>12, <1>14
<1> QED BY <1>13, <1>14

-----------------------------------------------------------------------------
(* What the steps do to the account and to the journal beside it.          *)

OpeningsStay ==
    \A r \in Rollouts :
        /\ rollouts'[r].opening = rollouts[r].opening
        /\ rollouts'[r].status = "none" => rollouts[r].status = "none"

\* Holds begin to be used at most.
MoneyStays ==
    /\ \A d \in DOMAIN decisions :
          \/ decisions'[d].phase = decisions[d].phase
          \/ decisions[d].phase = "reserved" /\ decisions'[d].phase = "started"
    /\ account'.held = account.held /\ account'.charged = account.charged
    /\ account'.open = account.open /\ (account.stopped => account'.stopped)

\* The hold of d ends, charged or not.
HoldEnds(d) ==
    /\ decisions[d].phase \in {"reserved", "started"}
    /\ \A c \in DOMAIN decisions \ {d} : decisions'[c] = decisions[c]
    /\ decisions'[d].amount = decisions[d].amount
    /\ account'.held = account.held - decisions[d].amount
    /\ account'.open = account.open - 1 /\ (account.stopped => account'.stopped)
    /\ \/ decisions'[d].phase = "released" /\ account'.charged = account.charged
       \/ /\ decisions'[d].phase = "settled" /\ decisions'[d].charged # NULL
          /\ account'.charged = account.charged + decisions'[d].charged
          /\ decisions'[d].charged <= decisions[d].amount \/ account'.stopped

LEMMA AccountNumbers ==
    Inv => account.held \in Int /\ account.charged \in Int /\ account.open \in Int
    BY DEF Inv, TypeOK, Account

LEMMA OpeningsSame ==
    ASSUME OpeningsStay PROVE OpeningsIn(rollouts') = OpeningsIn(rollouts)
<1>1. [r \in Rollouts |-> rollouts'[r].opening] = [r \in Rollouts |-> rollouts[r].opening]
    BY DEF OpeningsStay
<1> QED BY <1>1, Zenon DEF OpeningsIn

LEMMA OpeningsNumber == Inv => OpeningsIn(rollouts) \in Int
<1> SUFFICES ASSUME Inv PROVE OpeningsIn(rollouts) \in Int
    OBVIOUS
<1> DEFINE f == [r \in Rollouts |-> rollouts[r].opening]
<1>1. \A r \in Rollouts : f[r] \in Int
    BY DEF Inv, TypeOK, Rollout
<1> HIDE DEF f
<1> QED BY <1>1, SumType, ProcessAssumption DEF OpeningsIn, f

LEMMA MoneyStaysFunds ==
    ASSUME FundingInv, DecisionsMove, OpeningsStay, MoneyStays
    PROVE  FundingConserved' /\ decisions' \in Ledgers
<1>1. \A d \in DOMAIN decisions : SameEntry(decisions[d], decisions'[d])
    BY DEF DecisionsMove, DecisionMoves, MoneyStays, SameEntry
<1>2. /\ decisions' \in Ledgers /\ LiveIn(decisions') = LiveIn(decisions)
      /\ HeldIn(decisions') = HeldIn(decisions) /\ SpentIn(decisions') = SpentIn(decisions)
    BY <1>1, EntriesKept DEF DecisionsMove, FundingInv
<1>3. Balanced(account, decisions, rollouts)
    BY FundingMeans DEF FundingInv
<1>4. Balanced(account', decisions', rollouts')
    BY <1>2, <1>3, OpeningsSame DEF Balanced, MoneyStays
<1> QED BY <1>2, <1>4, FundingMeans

LEMMA HoldEndsFunds ==
    ASSUME FundingInv, decisions' \in Seq(Decision), DOMAIN decisions' = DOMAIN decisions,
           OpeningsStay, NEW d \in DOMAIN decisions, HoldEnds(d)
    PROVE  FundingConserved' /\ decisions' \in Ledgers
<1>1. d \in LiveIn(decisions) /\ decisions \in Ledgers
    BY DEF HoldEnds, LiveIn, FundingInv
<1>2. /\ decisions' \in Ledgers /\ HeldIn(decisions') = HeldIn(decisions) - decisions[d].amount
      /\ SpentIn(decisions') = IF decisions'[d].phase = "settled"
                               THEN SpentIn(decisions) + decisions'[d].charged
                               ELSE SpentIn(decisions)
      /\ Cardinality(LiveIn(decisions')) = Cardinality(LiveIn(decisions)) - 1
    BY <1>1, EntryClosed DEF HoldEnds
<1>3. Balanced(account, decisions, rollouts)
    BY FundingMeans DEF FundingInv
<1>4. /\ decisions[d].amount \in Nat /\ OpeningsIn(rollouts) \in Int
      /\ HeldIn(decisions) \in Int /\ SpentIn(decisions) \in Int
      /\ Cardinality(LiveIn(decisions)) \in Nat /\ Slots \in Nat /\ Capacity \in Nat
  <2>1. decisions[d].amount \in Nat
      BY DecisionType, ProcessAssumption DEF FundingInv, Inv, Decision
  <2> QED BY <1>1, <2>1, LedgerFacts, OpeningsNumber, ProcessAssumption DEF FundingInv
<1>5. OpeningsIn(rollouts') = OpeningsIn(rollouts)
    BY OpeningsSame
<1>6. PICK charge \in Int :
          /\ account'.charged = account.charged + charge
          /\ SpentIn(decisions') = SpentIn(decisions) + charge
          /\ charge <= decisions[d].amount \/ account'.stopped
  <2>1. CASE decisions'[d].phase = "released"
    <3>1. account'.charged = account.charged
        BY <2>1 DEF HoldEnds
    <3>2. SpentIn(decisions') = SpentIn(decisions)
        BY <1>2, <2>1
    <3>3. account.charged \in Int /\ 0 <= decisions[d].amount
        BY <1>4, AccountNumbers DEF FundingInv
    <3> QED BY <1>4, <3>1, <3>2, <3>3
  <2>2. CASE decisions'[d].phase = "settled"
    <3>1. d \in SettledIn(decisions') /\ d \in DOMAIN decisions'
        BY <2>2 DEF SettledIn
    <3>2. decisions'[d].charged \in Int
        BY <1>2, <3>1, LedgerFacts
    <3>3. SpentIn(decisions') = SpentIn(decisions) + decisions'[d].charged
        BY <1>2, <2>2
    <3> QED BY <2>2, <3>2, <3>3 DEF HoldEnds
  <2> QED BY <2>1, <2>2 DEF HoldEnds
<1>7. /\ account'.held = account.held - decisions[d].amount
      /\ account'.open = account.open - 1 /\ (account.stopped => account'.stopped)
    BY DEF HoldEnds
<1>8. /\ account.held = HeldIn(decisions)
      /\ account.charged = OpeningsIn(rollouts) + SpentIn(decisions)
      /\ account.open = Cardinality(LiveIn(decisions)) /\ account.open <= Slots
      /\ account.stopped \/ account.held + account.charged + 0 <= Capacity
    BY <1>3 DEF Balanced
<1>9. account'.held = HeldIn(decisions')
    BY <1>2, <1>7, <1>8
<1>10. account'.charged = OpeningsIn(rollouts') + SpentIn(decisions')
  <2>1. (OpeningsIn(rollouts) + SpentIn(decisions)) + charge
            = OpeningsIn(rollouts) + (SpentIn(decisions) + charge)
      BY <1>4
  <2> QED BY <1>5, <1>6, <1>8, <2>1
<1>11. account'.open = Cardinality(LiveIn(decisions')) /\ account'.open <= Slots
    BY <1>2, <1>4, <1>7, <1>8
<1>12. account'.stopped \/ account'.held + account'.charged + 0 <= Capacity
  <2> SUFFICES ASSUME ~account'.stopped
               PROVE  account'.held + account'.charged + 0 <= Capacity
      OBVIOUS
  <2>1. account.held + account.charged + 0 <= Capacity /\ charge <= decisions[d].amount
      BY <1>6, <1>7, <1>8
  <2>2. /\ account.held \in Int /\ account.charged \in Int
        /\ decisions[d].amount \in Int /\ Capacity \in Int
      BY <1>4, AccountNumbers DEF FundingInv
  <2>3. \A held, charged, amount \in Int :
            held + charged + 0 <= Capacity /\ charge <= amount =>
                (held - amount) + (charged + charge) + 0 <= Capacity
      BY <2>2
  <2> QED BY <1>6, <1>7, <2>1, <2>2, <2>3
<1>13. Balanced(account', decisions', rollouts')
    BY <1>9, <1>10, <1>11, <1>12 DEF Balanced
<1> QED BY <1>2, <1>13, FundingMeans

\* Charged once for what it opens with.
LEMMA CreateRolloutFunds ==
    ASSUME FundingInv, NEW r \in Rollouts, NEW usage \in Usages, CreateRollout(r, usage)
    PROVE  FundingConserved' /\ decisions' \in Ledgers /\ UnopenedAreFree'
<1> DEFINE new == [rollouts[r] EXCEPT !.status = "active", !.opening = usage]
           f == [q \in Rollouts |-> rollouts[q].opening]
           g == [q \in Rollouts |-> rollouts'[q].opening]
<1>1. usage \in Nat /\ rollouts[r] \in Rollout
    BY ProcessAssumption DEF FundingInv, Inv, TypeOK
<1>2. rollouts' = [rollouts EXCEPT ![r] = new]
    BY Zenon DEF CreateRollout
<1>3. new.status = "active" /\ new.opening = usage
    BY <1>1, OpenedFacts
<1> HIDE DEF new
<1>4. rollouts'[r] = new /\ \A q \in Rollouts \ {r} : rollouts'[q] = rollouts[q]
    BY <1>2 DEF FundingInv, Inv, TypeOK
<1>5. rollouts[r].opening = 0
    BY DEF FundingInv, UnopenedAreFree, CreateRollout
<1>6. /\ f[r] = 0 /\ g[r] = usage /\ \A q \in Rollouts \ {r} : f[q] \in Int /\ g[q] = f[q]
      /\ \A q \in Rollouts : f[q] \in Int /\ g[q] \in Int
    BY <1>1, <1>3, <1>4, <1>5 DEF FundingInv, Inv, TypeOK, Rollout
<1> HIDE DEF f, g
<1>7. OpeningsIn(rollouts') = OpeningsIn(rollouts) + usage
  <2>1. IsFiniteSet(Rollouts) /\ IsFiniteSet(Rollouts \ {r})
      BY ProcessAssumption, FS_Subset
  <2>2. /\ SumFunctionOnSet(f, Rollouts) = f[r] + SumFunctionOnSet(f, Rollouts \ {r})
        /\ SumFunctionOnSet(g, Rollouts) = g[r] + SumFunctionOnSet(g, Rollouts \ {r})
      BY <1>6, <2>1, SumWithout
  <2>3. /\ SumFunctionOnSet(f, Rollouts \ {r}) = SumFunctionOnSet(g, Rollouts \ {r})
        /\ SumFunctionOnSet(f, Rollouts \ {r}) \in Int
      BY <1>6, <2>1, SumSame, SumType
  <2>4. /\ OpeningsIn(rollouts) = SumFunctionOnSet(f, Rollouts)
        /\ OpeningsIn(rollouts') = SumFunctionOnSet(g, Rollouts)
      BY Zenon DEF OpeningsIn, f, g
  <2> QED BY <1>1, <1>6, <2>2, <2>3, <2>4
<1>8. /\ account'.held = account.held /\ account'.charged = account.charged + usage
      /\ account'.open = account.open /\ account.held + account.charged + usage <= Capacity
    BY Types DEF CreateRollout, Fits, Account, FundingInv
<1>9. decisions' = decisions /\ decisions \in Ledgers
    BY DEF CreateRollout, FundingInv
<1>10. FundingConserved'
  <2>1. Balanced(account, decisions, rollouts)
      BY FundingMeans DEF FundingInv
  <2>2. /\ OpeningsIn(rollouts) \in Int /\ SpentIn(decisions) \in Int /\ HeldIn(decisions) \in Int
        /\ account.held \in Int /\ account.charged \in Int
      BY <1>9, LedgerFacts, OpeningsNumber, AccountNumbers DEF FundingInv
  <2>3. account'.charged = OpeningsIn(rollouts') + SpentIn(decisions)
      BY <1>1, <1>7, <1>8, <2>1, <2>2 DEF Balanced
  <2>4. account'.held + account'.charged + 0 <= Capacity
      BY <1>1, <1>8, <2>2, ProcessAssumption
  <2>5. Balanced(account', decisions', rollouts')
      BY <1>8, <1>9, <2>1, <2>3, <2>4 DEF Balanced
  <2> QED BY <2>5, FundingMeans
<1>11. UnopenedAreFree'
    BY <1>3, <1>4 DEF FundingInv, UnopenedAreFree
<1> QED BY <1>9, <1>10, <1>11

\* Admitted within the grant and its slots.
LEMMA AdmitFunds ==
    ASSUME FundingInv, NEW w \in Workers, NEW kind \in Kinds, NEW usage \in Usages,
           NEW refusal \in Refusals, Admit(w, kind, usage, refusal)
    PROVE  FundingConserved' /\ decisions' \in Ledgers /\ UnopenedAreFree'
<1> DEFINE x == workers[w]
           admitted == refusal = "none" /\ Admissible(w, usage)
           entry == [rollout |-> x.rollout, from |-> x.from, lease |-> x.lease,
                     authority |-> authority.sequence, kind |-> kind, amount |-> usage,
                     stop |-> refusal = "stop",
                     phase |-> IF admitted THEN "reserved" ELSE "denied",
                     charged |-> NULL, invocation |-> "none", call |-> "none",
                     event |-> FALSE]
           n == Len(decisions) + 1
<1>1. Inv'
    BY AdmitInv DEF FundingInv
<1>2. decisions' = Append(decisions, entry) /\ rollouts' = rollouts
    BY DEF Admit
<1>3. /\ entry.phase = IF admitted THEN "reserved" ELSE "denied"
      /\ entry.amount = usage
    OBVIOUS
<1> HIDE DEF entry
<1>4. decisions \in Seq(Decision) /\ decisions' \in Seq(Decision) /\ decisions \in Ledgers
    BY <1>1 DEF FundingInv, Inv, TypeOK
<1>5. /\ n \notin DOMAIN decisions /\ DOMAIN decisions' = (DOMAIN decisions) \union {n}
      /\ decisions'[n] = entry /\ \A d \in DOMAIN decisions : decisions'[d] = decisions[d]
    BY <1>2, <1>4
<1> HIDE DEF n, admitted
<1>6. decisions'[n].phase \in {"reserved", "denied"}
    BY <1>3, <1>5
<1>7. /\ decisions' \in Ledgers /\ SpentIn(decisions') = SpentIn(decisions)
      /\ IF decisions'[n].phase = "reserved"
         THEN /\ HeldIn(decisions') = HeldIn(decisions) + decisions'[n].amount
              /\ Cardinality(LiveIn(decisions')) = Cardinality(LiveIn(decisions)) + 1
         ELSE HeldIn(decisions') = HeldIn(decisions) /\ LiveIn(decisions') = LiveIn(decisions)
    BY <1>4, <1>5, <1>6, EntryAppended
<1>8. Balanced(account, decisions, rollouts)
    BY FundingMeans DEF FundingInv
<1>9. usage \in Int
    BY ProcessAssumption
<1>10. CASE admitted
  <2>1. account' = [account EXCEPT !.held = @ + usage, !.open = @ + 1]
      BY <1>10, Zenon DEF Admit, admitted
  <2>2. /\ account'.held = account.held + usage /\ account'.open = account.open + 1
        /\ account'.charged = account.charged
      BY <1>9, <2>1, HoldFacts, Types DEF FundingInv
  <2>3. account.held + account.charged + usage <= Capacity /\ account.open < Slots
      BY <1>10 DEF admitted, Admissible, Fits
  <2>4. decisions'[n].phase = "reserved" /\ decisions'[n].amount = usage
      BY <1>3, <1>5, <1>10
  <2>5. /\ account.held \in Int /\ account.charged \in Int /\ account.open \in Int
        /\ Slots \in Nat /\ Capacity \in Nat
      BY AccountNumbers, ProcessAssumption DEF FundingInv
  <2>6. account'.held = HeldIn(decisions') /\ account'.open = Cardinality(LiveIn(decisions'))
      BY <1>7, <1>8, <2>2, <2>4 DEF Balanced
  <2>7. account'.open <= Slots /\ account'.held + account'.charged + 0 <= Capacity
      BY <1>9, <2>2, <2>3, <2>5
  <2>8. account'.charged = OpeningsIn(rollouts') + SpentIn(decisions')
      BY <1>2, <1>7, <1>8, <2>2 DEF Balanced
  <2>9. Balanced(account', decisions', rollouts')
      BY <2>6, <2>7, <2>8 DEF Balanced
  <2> QED BY <1>2, <1>7, <2>9, FundingMeans DEF FundingInv, UnopenedAreFree
<1>11. CASE ~admitted
  <2>1. account' = account
      BY <1>11, Zenon DEF Admit, admitted
  <2>2. decisions'[n].phase # "reserved"
      BY <1>3, <1>5, <1>11
  <2>3. Balanced(account', decisions', rollouts')
      BY <1>2, <1>7, <1>8, <2>1, <2>2 DEF Balanced
  <2> QED BY <1>2, <1>7, <2>3, FundingMeans DEF FundingInv, UnopenedAreFree
<1> QED BY <1>10, <1>11

\* A tool action is charged what it held, a model action was charged before.
LEMMA AppendEventFunds ==
    ASSUME FundingInv, NEW w \in Workers, NEW to \in EventStatuses, AppendEvent(w, to)
    PROVE  FundingConserved' /\ decisions' \in Ledgers /\ UnopenedAreFree'
<1>1. PICK r \in Rollouts, d \in DOMAIN decisions :
      /\ r = workers[w].rollout /\ d = workers[w].decision
      /\ decisions[d].phase \in {"started", "settled"}
      /\ decisions' \in Seq(Decision) /\ DOMAIN decisions' = DOMAIN decisions
      /\ decisions'[d].phase = "settled" /\ decisions'[d].amount = decisions[d].amount
      /\ decisions'[d].charged = IF decisions[d].phase = "settled" THEN decisions[d].charged
                                 ELSE decisions[d].amount
      /\ \A c \in DOMAIN decisions \ {d} : decisions'[c] = decisions[c]
      /\ rollouts'[r].opening = rollouts[r].opening /\ rollouts'[r].status # "none"
      /\ \A q \in Rollouts \ {r} : rollouts'[q] = rollouts[q]
    BY AppendFacts DEF FundingInv
<1>2. OpeningsStay
    BY <1>1 DEF OpeningsStay
<1>3. UnopenedAreFree'
    BY <1>2 DEF OpeningsStay, FundingInv, UnopenedAreFree
<1>4. CASE decisions[d].phase = "settled"
  <2>1. account' = account
      BY <1>1, <1>4 DEF AppendEvent
  <2>2. \A c \in DOMAIN decisions : SameEntry(decisions[c], decisions'[c])
      BY <1>1, <1>4 DEF SameEntry
  <2>3. /\ decisions' \in Ledgers /\ LiveIn(decisions') = LiveIn(decisions)
        /\ HeldIn(decisions') = HeldIn(decisions) /\ SpentIn(decisions') = SpentIn(decisions)
      BY <1>1, <2>2, EntriesKept DEF FundingInv
  <2>4. Balanced(account, decisions, rollouts)
      BY FundingMeans DEF FundingInv
  <2>5. Balanced(account', decisions', rollouts')
      BY <1>2, <2>1, <2>3, <2>4, OpeningsSame DEF Balanced
  <2> QED BY <1>3, <2>3, <2>5, FundingMeans
<1>5. CASE decisions[d].phase = "started"
  <2> DEFINE amount == decisions[d].amount
  <2>1. amount \in Nat /\ amount # NULL /\ account \in Account
      BY DecisionType, Types, ProcessAssumption DEF FundingInv, Inv, Decision
  <2>2. account' = Charged(account, amount, amount)
      BY <1>1, <1>5 DEF AppendEvent
  <2> HIDE DEF amount
  <2>3. /\ account'.held = account.held - amount /\ account'.charged = account.charged + amount
        /\ account'.open = account.open - 1 /\ (account.stopped => account'.stopped)
      BY <2>1, <2>2, ChargedFacts
  <2>4. amount <= amount
      BY <2>1
  <2>5. HoldEnds(d)
      BY <1>1, <1>5, <2>1, <2>3, <2>4 DEF HoldEnds, amount
  <2> QED BY <1>1, <1>2, <1>3, <2>5, HoldEndsFunds
<1> QED BY <1>1, <1>4, <1>5

\* What a settlement does, which never happens twice.
LEMMA SettleMoney ==
    ASSUME FundingInv, NEW d \in DOMAIN decisions, NEW charge \in Charges \union {NULL},
           NEW status \in {"none", "running", "completed", "ended"}, Settle(d, charge, status)
    PROVE  MoneyStays \/ HoldEnds(d)
<1>1. /\ DecisionsMove /\ \A c \in DOMAIN decisions \ {d} : decisions'[c] = decisions[c]
      /\ IF decisions[d].phase = "started" /\ charge # NULL
         THEN decisions'[d].phase = "settled" /\ decisions'[d].charged = charge
         ELSE decisions'[d].phase = decisions[d].phase
    BY Settled DEF FundingInv
<1>2. account \in Account /\ decisions[d].amount \in Int
    BY Types, AmountType DEF FundingInv
<1>3. charge \in {NULL} \union Int
    BY ProcessAssumption
<1>4. account' = IF decisions[d].phase = "started" THEN Charged(account, decisions[d].amount, charge)
                                                   ELSE account
    BY DEF Settle
<1>5. CASE decisions[d].phase = "started" /\ charge # NULL
  <2>1. /\ account'.held = account.held - decisions[d].amount
        /\ account'.charged = account.charged + charge /\ account'.open = account.open - 1
        /\ account'.stopped = (account.stopped \/ charge > decisions[d].amount)
      BY <1>2, <1>3, <1>4, <1>5, ChargedFacts
  <2>2. charge <= decisions[d].amount \/ account'.stopped
    <3>1. charge <= decisions[d].amount \/ charge > decisions[d].amount
        BY <1>2, <1>3, <1>5
    <3> QED BY <2>1, <3>1, Zenon
  <2>3. decisions'[d].amount = decisions[d].amount
      BY <1>1 DEF DecisionsMove, DecisionMoves
  <2> QED BY <1>1, <1>5, <2>1, <2>2, <2>3 DEF HoldEnds
<1>6. CASE ~(decisions[d].phase = "started" /\ charge # NULL)
  <2>1. /\ account'.held = account.held /\ account'.charged = account.charged
        /\ account'.open = account.open /\ (account.stopped => account'.stopped)
      BY <1>2, <1>3, <1>4, <1>6, ChargedFacts
  <2> QED BY <1>1, <1>6, <2>1 DEF MoneyStays
<1> QED BY <1>5, <1>6

LEMMA ReleaseMoney ==
    ASSUME FundingInv, NEW d \in DOMAIN decisions, decisions[d].phase = "reserved",
           decisions' = [decisions EXCEPT ![d].phase = "released"],
           account' = [account EXCEPT !.held = @ - decisions[d].amount, !.open = @ - 1]
    PROVE  HoldEnds(d)
<1>1. /\ DecisionsMove /\ decisions'[d].phase = "released"
      /\ \A c \in DOMAIN decisions \ {d} : decisions'[c] = decisions[c]
    BY Phased DEF FundingInv
<1>2. account \in Account /\ decisions[d].amount \in Int
    BY Types, AmountType DEF FundingInv
<1>3. /\ account'.held = account.held - decisions[d].amount /\ account'.open = account.open - 1
      /\ account'.charged = account.charged /\ account'.stopped = account.stopped
    BY <1>2, HoldFacts
<1>4. decisions'[d].amount = decisions[d].amount
    BY <1>1 DEF DecisionsMove, DecisionMoves
<1> QED BY <1>1, <1>3, <1>4 DEF HoldEnds

LEMMA SameMoney ==
    ASSUME decisions' = decisions, account' = account PROVE MoneyStays
    BY DEF MoneyStays

LEMMA PhasesStayMoney ==
    ASSUME PhasesStay, account' = account PROVE MoneyStays
    BY DEF PhasesStay, MoneyStays

LEMMA StartMoney == ASSUME FundingInv, NEW w \in Workers, Start(w) PROVE MoneyStays
<1>1. workers[w].decision \in DOMAIN decisions /\ Inv
    BY DecisionOfWorker DEF Start, Binds, FundingInv
<1> DEFINE d == workers[w].decision
<1>2. /\ decisions[d].phase = "reserved" /\ account' = account
      /\ decisions' = [decisions EXCEPT ![d].phase = "started"]
    BY DEF Start
<1>3. /\ decisions'[d].phase = "started"
      /\ \A c \in DOMAIN decisions \ {d} : decisions'[c] = decisions[c]
    BY <1>1, <1>2, Phased
<1> QED BY <1>1, <1>2, <1>3 DEF MoneyStays

\* A worker's step but an admission and an event.
LEMMA WorkerMoney ==
    ASSUME FundingInv, NEW w \in Workers, WorkerStep(w)
    PROVE  \/ \E kind \in Kinds, usage \in Usages, refusal \in Refusals :
                  Admit(w, kind, usage, refusal)
           \/ \E to \in EventStatuses : AppendEvent(w, to)
           \/ MoneyStays \/ \E d \in DOMAIN decisions : HoldEnds(d)
<1> DEFINE d == workers[w].decision
<1>0. Inv
    BY DEF FundingInv
<1>1. CASE (\E r \in Rollouts : ClaimNext(w, r)) \/ Refuse(w) \/ Dispatch(w) \/ Raise(w)
           \/ ReleaseFailed(w) \/ Crash(w)
    BY <1>1, SameMoney DEF ClaimNext, Refuse, Dispatch, Raise, ReleaseFailed, Crash
<1>2. CASE Start(w)
    BY <1>2, StartMoney
<1>3. CASE Intend(w) \/ Answer(w) \/ AdmitOutput(w)
  <2>1. d \in DOMAIN decisions /\ account' = account
      BY <1>0, <1>3, DecisionOfWorker DEF Intend, Answer, AdmitOutput
  <2>2. PhasesStay
      BY <1>0, <1>3, <2>1, Invoked, Called DEF Intend, Answer, AdmitOutput
  <2> QED BY <2>1, <2>2, PhasesStayMoney
<1>4. ASSUME NEW charge \in Charges \union {NULL}, Reconcile(w, charge) \/ MarkTerminal(w, charge)
      PROVE  MoneyStays \/ HoldEnds(d)
  <2>1. d \in DOMAIN decisions
      BY <1>0, <1>4, DecisionOfWorker DEF Reconcile, MarkTerminal
  <2>2. decisions[d].invocation \in {"none", "running", "completed", "ended"}
      BY <1>0, <2>1, InvocationType
  <2>3. \/ Settle(d, charge, decisions[d].invocation) \/ Settle(d, charge, "ended")
        \/ decisions' = [decisions EXCEPT ![d].invocation = "ended"] /\ account' = account
      BY <1>4 DEF Reconcile, MarkTerminal
  <2>4. CASE Settle(d, charge, decisions[d].invocation) \/ Settle(d, charge, "ended")
      BY <2>1, <2>2, <2>4, SettleMoney
  <2>5. CASE decisions' = [decisions EXCEPT ![d].invocation = "ended"] /\ account' = account
      BY <1>0, <2>1, <2>5, Invoked, PhasesStayMoney
  <2> QED BY <2>3, <2>4, <2>5
<1>5. ASSUME NEW charge \in Charges \union {NULL}, Reconcile(w, charge) \/ MarkTerminal(w, charge)
      PROVE  d \in DOMAIN decisions
    BY <1>0, <1>5, DecisionOfWorker DEF Reconcile, MarkTerminal
<1> HIDE DEF d
<1> QED BY <1>1, <1>2, <1>3, <1>4, <1>5 DEF WorkerStep

LEMMA ReviewerMoney ==
    ASSUME FundingInv, ReviewerStep
    PROVE  MoneyStays \/ \E d \in DOMAIN decisions : HoldEnds(d)
<1>0. Inv
    BY DEF FundingInv
<1>1. ASSUME NEW d \in DOMAIN decisions, ReleaseUnstarted(d)
      PROVE  HoldEnds(d)
    BY <1>1, ReleaseMoney DEF ReleaseUnstarted
<1>2. ASSUME NEW d \in DOMAIN decisions, NEW charge \in Charges \union {NULL},
             ReconcileModel(d, charge)
      PROVE  MoneyStays \/ HoldEnds(d)
    BY <1>0, <1>2, SettleMoney, InvocationType DEF ReconcileModel
<1>3. ASSUME NEW r \in Rollouts, NEW resume \in BOOLEAN, RecoverClear(r, resume)
      PROVE  MoneyStays
    BY <1>3, SameMoney DEF RecoverClear
<1>4. ASSUME NEW r \in Rollouts, NEW resume \in BOOLEAN, RecoverUnstarted(r, resume)
      PROVE  \E d \in DOMAIN decisions : HoldEnds(d)
  <2>1. PICK d \in Unresolved(r) :
          /\ decisions[d].phase = "reserved"
          /\ decisions' = [decisions EXCEPT ![d].phase = "released"]
          /\ account' = [account EXCEPT !.held = @ - decisions[d].amount, !.open = @ - 1]
      BY <1>4 DEF RecoverUnstarted
  <2>2. d \in DOMAIN decisions
      BY DEF Unresolved
  <2> QED BY <2>1, <2>2, ReleaseMoney
<1>5. ASSUME NEW r \in Rollouts, NEW charge \in Charges \union {NULL}, RecoverCompleted(r, charge)
      PROVE  MoneyStays \/ \E d \in DOMAIN decisions : HoldEnds(d)
  <2>1. PICK d \in Unresolved(r) : Settle(d, charge, decisions[d].invocation)
      BY <1>5 DEF RecoverCompleted
  <2>2. d \in DOMAIN decisions
      BY DEF Unresolved
  <2> QED BY <1>0, <2>1, <2>2, SettleMoney, InvocationType
<1>6. ASSUME NEW r \in Rollouts, RecoverUnknown(r) \/ Abandon(r)
      PROVE  MoneyStays
    BY <1>6, SameMoney DEF RecoverUnknown, Abandon
<1> QED BY <1>1, <1>2, <1>3, <1>4, <1>5, <1>6 DEF ReviewerStep

LEMMA FundingInit == Init => FundingInv
<1> SUFFICES ASSUME Init PROVE FundingInv
    OBVIOUS
<1>1. /\ decisions = << >> /\ decisions \in Seq(Decision) /\ DOMAIN decisions = {}
      /\ account.held = 0 /\ account.charged = 0 /\ account.open = 0
      /\ \A r \in Rollouts : rollouts[r].opening = 0
    BY DEF Init
<1>2. LiveIn(decisions) = {} /\ SettledIn(decisions) = {} /\ decisions \in Ledgers
    BY <1>1 DEF LiveIn, SettledIn, Ledgers
<1>3. /\ HeldIn(decisions) = 0 /\ SpentIn(decisions) = 0 /\ Cardinality(LiveIn(decisions)) = 0
    BY <1>2, SumEmpty, FS_EmptySet DEF HeldIn, SpentIn
<1>4. OpeningsIn(rollouts) = 0
  <2> DEFINE f == [r \in Rollouts |-> rollouts[r].opening]
  <2>1. \A r \in Rollouts : f[r] = 0
      BY <1>1
  <2> HIDE DEF f
  <2>2. SumFunctionOnSet(f, Rollouts) = 0
      BY <2>1, SumOfZeros, ProcessAssumption
  <2> QED BY <2>2, Zenon DEF OpeningsIn, f
<1>5. Balanced(account, decisions, rollouts)
    BY <1>1, <1>3, <1>4, ProcessAssumption DEF Balanced
<1>6. UnopenedAreFree
    BY <1>1 DEF UnopenedAreFree
<1> QED BY <1>2, <1>5, <1>6, InitInv, FundingMeans DEF FundingInv

LEMMA FundingNext == FundingInv /\ [Next]_vars => FundingInv'
<1> SUFFICES ASSUME FundingInv, [Next]_vars PROVE FundingInv'
    OBVIOUS
<1>0. Inv /\ Inv'
    BY NextInv DEF FundingInv
<1>1. CASE \E r \in Rollouts, usage \in Usages : CreateRollout(r, usage)
    BY <1>0, <1>1, CreateRolloutFunds DEF FundingInv
<1>2. CASE \E w \in Workers, kind \in Kinds, usage \in Usages, refusal \in Refusals :
               Admit(w, kind, usage, refusal)
    BY <1>0, <1>2, AdmitFunds DEF FundingInv
<1>3. CASE \E w \in Workers, to \in EventStatuses : AppendEvent(w, to)
    BY <1>0, <1>3, AppendEventFunds DEF FundingInv
<1>4. ASSUME DecisionsMove, RolloutsMove,
             ~\E r \in Rollouts, usage \in Usages : CreateRollout(r, usage),
             MoneyStays \/ \E d \in DOMAIN decisions : HoldEnds(d)
      PROVE  FundingInv'
  <2>1. OpeningsStay
      BY <1>4 DEF RolloutsMove, RolloutMoves, OpeningsStay
  <2>2. UnopenedAreFree'
      BY <2>1 DEF OpeningsStay, FundingInv, UnopenedAreFree
  <2>3. FundingConserved' /\ decisions' \in Ledgers
      BY <1>4, <2>1, MoneyStaysFunds, HoldEndsFunds DEF DecisionsMove
  <2> QED BY <1>0, <2>2, <2>3 DEF FundingInv
<1>5. CASE /\ Next
           /\ ~\E r \in Rollouts, usage \in Usages : CreateRollout(r, usage)
           /\ ~\E w \in Workers, kind \in Kinds, usage \in Usages, refusal \in Refusals :
                  Admit(w, kind, usage, refusal)
           /\ ~\E w \in Workers, to \in EventStatuses : AppendEvent(w, to)
  <2>1. OrdinaryStep
      BY <1>0, <1>5, NextCases
  <2>2. MoneyStays \/ \E d \in DOMAIN decisions : HoldEnds(d)
    <3>1. CASE \E to \in AmberStatuses : Transition(to)
        BY <3>1, SameMoney DEF Transition
    <3>2. CASE Lapse
        BY <3>2, SameMoney DEF Lapse
    <3>3. CASE Fund
        BY <1>0, <3>3, Types DEF Fund, MoneyStays, Account
    <3>4. CASE \E r \in Rollouts : LeaseExpires(r)
        BY <3>4, SameMoney DEF LeaseExpires
    <3>5. CASE \E w \in Workers : WorkerStep(w)
        BY <1>5, <3>5, WorkerMoney
    <3>6. CASE ReviewerStep
        BY <3>6, ReviewerMoney
    <3> QED BY <1>5, <3>1, <3>2, <3>3, <3>4, <3>5, <3>6 DEF Next
  <2> QED BY <1>4, <1>5, <2>1, <2>2 DEF OrdinaryStep
<1>6. CASE UNCHANGED vars
  <2>1. decisions' = decisions /\ account' = account /\ rollouts' = rollouts
      BY <1>6 DEF vars
  <2>2. DecisionsMove /\ OpeningsStay /\ MoneyStays
      BY <1>0, <2>1, SameDecisions, SameMoney DEF OpeningsStay
  <2>3. FundingConserved' /\ decisions' \in Ledgers
      BY <2>2, MoneyStaysFunds
  <2> QED BY <1>0, <2>1, <2>3 DEF FundingInv, UnopenedAreFree
<1> QED BY <1>1, <1>2, <1>3, <1>5, <1>6

\* The ledger conserves funding: holds, charges and slots are what the
\* journal and the rollouts add up to, within the grant unless stopped.
THEOREM FundingKept == Spec => []FundingConserved
<1>1. FundingInv => FundingConserved
    BY DEF FundingInv
<1> QED BY <1>1, FundingInit, FundingNext, PTL DEF Spec

-----------------------------------------------------------------------------
(* The refinement of EffectLifecycle by every model action.  EffectInv     *)
(* adds to Inv that a decision has at most one worker at work, and that it *)
(* can rely on the decision: reviewers change only what it does not use.   *)

\* At work: past admission, on a decision of its own.
AtWork(w) == workers[w].at \notin {"idle", "planning", "failing"}

\* What a worker can rely on in its decision, by how far it has come.
Stands(at, dec) ==
    /\ at \in {"decided", "acting"} => dec.invocation = "none" /\ dec.call = "none"
    /\ at \in {"acting", "intended", "sent"} => dec.phase = "started"
    /\ at \in {"intended", "sent"} =>
          dec.kind = "model" /\ dec.invocation = "running" /\ dec.call = "none"
    /\ at \in {"answered", "broken", "reconciled", "acted"} => dec.call = "completed"

\* What every entry shows, whatever its worker did or left undone.
Sound(dec) ==
    /\ dec.invocation # "none" => dec.phase \in {"started", "settled"}
    /\ dec.call = "completed" => dec.kind = "model" /\ dec.invocation # "none"
    /\ dec.kind = "model" /\ dec.phase = "settled" => dec.call = "completed"

WorkAgrees ==
    /\ \A d \in DOMAIN decisions : Sound(decisions[d])
    /\ \A w \in Workers : AtWork(w) => Stands(workers[w].at, decisions[workers[w].decision])
    /\ \A v, w \in Workers :
          AtWork(v) /\ AtWork(w) /\ workers[v].decision = workers[w].decision => v = w

\* An entry that is no model action, or not yet there, is at the beginning.
CallOf(d) == d \in DOMAIN decisions /\ decisions[d].kind = "model"

Effect(d) ==
    IF ~CallOf(d) THEN "none"
    ELSE IF decisions[d].call = "completed" THEN "happened"
    ELSE IF decisions[d].invocation # "none" THEN "announced" ELSE "none"

Hold(d) ==
    IF ~CallOf(d) \/ decisions[d].phase = "reserved" THEN "held"
    ELSE IF decisions[d].phase = "started" THEN "committed"
    ELSE IF decisions[d].phase = "settled" THEN "charged" ELSE "returned"

Lifecycle(d) == INSTANCE EffectLifecycle WITH effect <- Effect(d), hold <- Hold(d)

EffectInv == Inv /\ WorkAgrees

-----------------------------------------------------------------------------
(* A step leaves the journal alone, or changes one entry.                  *)

\* How an entry goes on.
Follows(old, new) ==
    /\ new.kind = old.kind
    /\ \/ new.phase = old.phase /\ new.call = old.call
          /\ (old.invocation # "none" => new.invocation # "none")
       \/ new.phase = old.phase /\ old.phase = "started" /\ old.call = "none"
          /\ old.invocation # "none" /\ new.invocation # "none"
       \/ old.phase = "reserved" /\ new.phase \in {"started", "released"}
          /\ new.call = old.call /\ new.invocation = old.invocation
       \/ old.phase = "started" /\ new.phase = "settled" /\ new.call = old.call
          /\ (old.invocation # "none" => new.invocation # "none")

\* Who was at work on another entry than d goes on or leaves, and who was at
\* work on d can rely on what it has become.
Hands(d, new) ==
    \A w \in Workers : AtWork(w)' =>
        /\ AtWork(w) /\ workers'[w].decision = workers[w].decision
        /\ workers[w].decision # d => workers'[w].at = workers[w].at
        /\ workers[w].decision = d => Stands(workers'[w].at, new)

Touches(d) ==
    \E new \in Decision :
        /\ decisions' = [decisions EXCEPT ![d] = new]
        /\ Sound(new) /\ Follows(decisions[d], new) /\ Hands(d, new)

LeavesAlone ==
    /\ decisions' = decisions
    /\ \A w \in Workers : AtWork(w)' =>
        /\ AtWork(w) /\ workers'[w].decision = workers[w].decision
        /\ Stands(workers'[w].at, decisions[workers[w].decision])

LEMMA TouchedFacts ==
    ASSUME Inv, NEW d \in DOMAIN decisions, NEW new \in Decision,
           decisions' = [decisions EXCEPT ![d] = new]
    PROVE  /\ DOMAIN decisions' = DOMAIN decisions /\ decisions'[d] = new
           /\ \A c \in DOMAIN decisions \ {d} : decisions'[c] = decisions[c]
    BY ReplacedFacts DEF Inv, TypeOK

LEMMA TouchAgrees ==
    ASSUME EffectInv, NEW d \in DOMAIN decisions, Touches(d)
    PROVE  WorkAgrees'
<1>1. PICK new \in Decision :
          /\ decisions' = [decisions EXCEPT ![d] = new]
          /\ Sound(new) /\ Hands(d, new)
    BY DEF Touches
<1>2. /\ DOMAIN decisions' = DOMAIN decisions /\ decisions'[d] = new
      /\ \A c \in DOMAIN decisions \ {d} : decisions'[c] = decisions[c]
    BY <1>1, TouchedFacts DEF EffectInv
<1>3. \A c \in DOMAIN decisions' : Sound(decisions'[c])
    BY <1>1, <1>2 DEF EffectInv, WorkAgrees
<1>4. ASSUME NEW w \in Workers, AtWork(w)'
      PROVE  /\ AtWork(w) /\ workers'[w].decision = workers[w].decision
             /\ Stands(workers'[w].at, decisions'[workers'[w].decision])
  <2>1. /\ AtWork(w) /\ workers'[w].decision = workers[w].decision
        /\ workers[w].decision # d => workers'[w].at = workers[w].at
        /\ workers[w].decision = d => Stands(workers'[w].at, new)
      BY <1>1, <1>4 DEF Hands
  <2>2. workers[w].decision \in DOMAIN decisions
      BY <2>1, DecisionOfWorker DEF EffectInv, AtWork
  <2>3. Stands(workers[w].at, decisions[workers[w].decision])
      BY <2>1 DEF EffectInv, WorkAgrees
  <2> QED BY <1>2, <2>1, <2>2, <2>3
<1>5. \A v, w \in Workers :
          AtWork(v)' /\ AtWork(w)' /\ workers'[v].decision = workers'[w].decision => v = w
    BY <1>4 DEF EffectInv, WorkAgrees
<1> QED BY <1>3, <1>4, <1>5 DEF WorkAgrees

LEMMA AloneAgrees ==
    ASSUME EffectInv, LeavesAlone
    PROVE  WorkAgrees'
    BY DEF EffectInv, LeavesAlone, WorkAgrees

\* A worker goes on with its own decision, or gives it up.
LEMMA OwnHands ==
    ASSUME EffectInv, NEW w \in Workers, AtWork(w), NEW new,
           \/ Leave(w)
           \/ \E at \in Places : Goto(w, at) /\ (at # "failing" => Stands(at, new))
    PROVE  Hands(workers[w].decision, new)
<1>1. /\ workers'[w].at \notin {"idle", "planning", "failing"} =>
            /\ workers'[w].decision = workers[w].decision
            /\ Stands(workers'[w].at, new)
      /\ \A v \in Workers \ {w} : workers'[v] = workers[v]
  <2>1. workers[w] \in Worker /\ workers \in [Workers -> {IdleWorker} \union Worker]
      BY DEF EffectInv, Inv, TypeOK, AtWork, IdleWorker
  <2>2. CASE Leave(w)
      BY <2>1, <2>2 DEF Leave, IdleWorker
  <2>3. ASSUME NEW at \in Places, Goto(w, at), at # "failing" => Stands(at, new)
        PROVE  (workers'[w].at \notin {"idle", "planning", "failing"} =>
                  /\ workers'[w].decision = workers[w].decision
                  /\ Stands(workers'[w].at, new))
               /\ \A v \in Workers \ {w} : workers'[v] = workers[v]
    <3> DEFINE mine == [workers[w] EXCEPT !.at = at]
    <3>1. workers' = [workers EXCEPT ![w] = mine]
        BY <2>3, Zenon DEF Goto
    <3>2. mine.at = at /\ mine.decision = workers[w].decision
        BY <2>1 DEF Worker
    <3> HIDE DEF mine
    <3>3. workers'[w] = mine /\ \A v \in Workers \ {w} : workers'[v] = workers[v]
        BY <2>1, <3>1
    <3> QED BY <2>3, <3>2, <3>3
  <2> QED BY <2>2, <2>3
<1>2. \A v \in Workers \ {w} : AtWork(v) => workers[v].decision # workers[w].decision
    BY DEF EffectInv, WorkAgrees
<1> QED BY <1>1, <1>2 DEF Hands, AtWork

\* A reviewer changes a decision that its worker, if any, can still rely on.
LEMMA OtherHands ==
    ASSUME EffectInv, NEW d \in DOMAIN decisions, NEW new, workers' = workers,
           \A at \in Places : Stands(at, decisions[d]) => Stands(at, new)
    PROVE  Hands(d, new)
<1>1. \A w \in Workers : AtWork(w) => workers[w].at \in Places
    BY DEF EffectInv, Inv, TypeOK, Worker, AtWork, IdleWorker
<1> QED BY <1>1 DEF Hands, EffectInv, WorkAgrees, AtWork

-----------------------------------------------------------------------------
(* The steps that change an entry.                                         *)

LEMMA EntryFacts ==
    ASSUME EffectInv, NEW d \in DOMAIN decisions
    PROVE  decisions[d] \in Decision /\ Sound(decisions[d])
    BY DecisionType DEF EffectInv, Inv, WorkAgrees

LEMMA OwnEntry ==
    ASSUME EffectInv, NEW w \in Workers, AtWork(w)
    PROVE  /\ workers[w].decision \in DOMAIN decisions
           /\ decisions[workers[w].decision] \in Decision
           /\ Sound(decisions[workers[w].decision])
           /\ Stands(workers[w].at, decisions[workers[w].decision])
<1>1. workers[w].decision \in DOMAIN decisions
    BY DecisionOfWorker DEF EffectInv, AtWork
<1> QED BY <1>1, EntryFacts DEF EffectInv, WorkAgrees

LEMMA StartTouches ==
    ASSUME EffectInv, NEW w \in Workers, Start(w)
    PROVE  \E d \in DOMAIN decisions : Touches(d)
<1> DEFINE d == workers[w].decision
           new == [decisions[d] EXCEPT !.phase = "started"]
<1>1. workers[w].at = "decided" /\ AtWork(w) /\ decisions[d].phase = "reserved"
    BY DEF Start, Binds, AtWork
<1>2. /\ d \in DOMAIN decisions /\ decisions[d] \in Decision
      /\ Sound(decisions[d]) /\ Stands("decided", decisions[d])
    BY <1>1, OwnEntry
<1>3. decisions' = [decisions EXCEPT ![d] = new]
    BY Zenon DEF Start
<1>4. /\ new \in Decision /\ new.phase = "started" /\ new.kind = decisions[d].kind
      /\ new.call = decisions[d].call /\ new.invocation = decisions[d].invocation
    BY <1>2 DEF Decision, Phases
<1> HIDE DEF new
<1>5. Sound(new) /\ Follows(decisions[d], new) /\ Stands("acting", new)
    BY <1>1, <1>2, <1>4 DEF Sound, Follows, Stands
<1>6. Hands(d, new)
    BY <1>1, <1>5, OwnHands DEF Start, Places
<1> QED BY <1>2, <1>3, <1>4, <1>5, <1>6 DEF Touches

\* The invocation of a worker's own decision moves on.
LEMMA InvocationTouches ==
    ASSUME EffectInv, NEW w \in Workers, AtWork(w), NEW status \in {"running", "completed", "ended"},
           decisions' = [decisions EXCEPT ![workers[w].decision].invocation = status],
           decisions[workers[w].decision].phase \in {"started", "settled"},
           \/ Leave(w)
           \/ Goto(w, "failing")
           \/ /\ workers[w].at = "acting" /\ decisions[workers[w].decision].kind = "model"
              /\ status = "running" /\ Goto(w, "intended")
           \/ workers[w].at = "reconciled" /\ Goto(w, "acted")
    PROVE  \E d \in DOMAIN decisions : Touches(d)
<1> DEFINE d == workers[w].decision
           new == [decisions[d] EXCEPT !.invocation = status]
<1>1. /\ d \in DOMAIN decisions /\ decisions[d] \in Decision
      /\ Sound(decisions[d]) /\ Stands(workers[w].at, decisions[d])
    BY OwnEntry
<1>2. decisions' = [decisions EXCEPT ![d] = new]
    BY Zenon
<1>3. /\ new \in Decision /\ new.invocation = status /\ new.kind = decisions[d].kind
      /\ new.call = decisions[d].call /\ new.phase = decisions[d].phase
    BY <1>1 DEF Decision
<1> HIDE DEF new
<1>4. Sound(new) /\ Follows(decisions[d], new)
    BY <1>1, <1>3 DEF Sound, Follows
<1>5. Hands(d, new)
  <2>1. \/ Leave(w)
        \/ \E at \in Places : Goto(w, at) /\ (at # "failing" => Stands(at, new))
      BY <1>1, <1>3 DEF Stands, Places
  <2> QED BY <2>1, OwnHands
<1> QED BY <1>1, <1>2, <1>3, <1>4, <1>5 DEF Touches

LEMMA IntendTouches ==
    ASSUME EffectInv, NEW w \in Workers, Intend(w)
    PROVE  \E d \in DOMAIN decisions : Touches(d)
<1>1. AtWork(w) /\ workers[w].at = "acting"
    BY DEF Intend, AtWork
<1>2. decisions[workers[w].decision].phase = "started"
    BY <1>1, OwnEntry DEF Stands
<1> QED BY <1>1, <1>2, InvocationTouches DEF Intend

LEMMA AdmitOutputTouches ==
    ASSUME EffectInv, NEW w \in Workers, AdmitOutput(w)
    PROVE  \E d \in DOMAIN decisions : Touches(d)
<1>1. AtWork(w) /\ workers[w].at = "reconciled"
    BY DEF AdmitOutput, AtWork
<1>2. decisions[workers[w].decision].phase \in {"started", "settled"}
    BY <1>1, OwnEntry DEF Stands, Sound
<1> QED BY <1>1, <1>2, InvocationTouches DEF AdmitOutput

LEMMA AnswerTouches ==
    ASSUME EffectInv, NEW w \in Workers, Answer(w)
    PROVE  \E d \in DOMAIN decisions : Touches(d)
<1> DEFINE d == workers[w].decision
           new == [decisions[d] EXCEPT !.call = "completed"]
<1>1. workers[w].at = "sent" /\ AtWork(w)
    BY DEF Answer, AtWork
<1>2. /\ d \in DOMAIN decisions /\ decisions[d] \in Decision
      /\ Sound(decisions[d]) /\ Stands("sent", decisions[d])
    BY <1>1, OwnEntry
<1>3. decisions' = [decisions EXCEPT ![d] = new]
    BY Zenon DEF Answer
<1>4. /\ new \in Decision /\ new.phase = decisions[d].phase /\ new.kind = decisions[d].kind
      /\ new.call = "completed" /\ new.invocation = decisions[d].invocation
    BY <1>2 DEF Decision, Phases
<1> HIDE DEF new
<1>5. Sound(new) /\ Follows(decisions[d], new) /\ Stands("answered", new)
    BY <1>1, <1>2, <1>4 DEF Sound, Follows, Stands
<1>6. Hands(d, new)
    BY <1>1, <1>5, OwnHands DEF Answer, Places
<1> QED BY <1>2, <1>3, <1>4, <1>5, <1>6 DEF Touches

\* What reconciliation makes of an entry.
LEMMA SettledEntry ==
    ASSUME EffectInv, NEW d \in DOMAIN decisions, NEW charge \in Charges \union {NULL},
           NEW status \in {"none", "running", "completed", "ended"},
           status \in {decisions[d].invocation, "ended"}, Settle(d, charge, status)
    PROVE  \E new \in Decision :
              /\ decisions' = [decisions EXCEPT ![d] = new]
              /\ Sound(new) /\ Follows(decisions[d], new) /\ new.call = "completed"
              /\ new.kind = decisions[d].kind /\ new.invocation = status
              /\ decisions[d].call = "completed"
<1> DEFINE dec == decisions[d]
           settles == dec.phase = "started" /\ charge # NULL
           phase == IF settles THEN "settled" ELSE dec.phase
           charged == IF settles THEN charge ELSE dec.charged
           a == [dec EXCEPT !.invocation = status]
           b == [a EXCEPT !.phase = phase]
           new == [b EXCEPT !.charged = charged]
<1>1. decisions' = [decisions EXCEPT ![d] = new]
    BY Zenon DEF Settle
<1>2. /\ dec \in Decision /\ Sound(dec)
      /\ dec.call = "completed" /\ dec.phase \in {"started", "settled"}
    BY EntryFacts DEF Settle
<1>3. /\ phase \in {"started", "settled"} /\ charged \in {NULL} \union Charges \union Usages
      /\ phase = dec.phase \/ (dec.phase = "started" /\ phase = "settled")
    BY <1>2 DEF Decision
<1> HIDE DEF phase, charged
<1>4. /\ a \in Decision /\ a.call = "completed" /\ a.kind = dec.kind /\ a.invocation = status
    BY <1>2 DEF Decision
<1> HIDE DEF a
<1>5. /\ b \in Decision /\ b.call = "completed" /\ b.kind = dec.kind /\ b.invocation = status
      /\ b.phase = phase
    BY <1>3, <1>4 DEF Decision, Phases
<1> HIDE DEF b
<1>6. /\ new \in Decision /\ new.call = "completed" /\ new.kind = dec.kind
      /\ new.invocation = status /\ new.phase = phase
    BY <1>3, <1>5 DEF Decision
<1> HIDE DEF new
<1>7. Sound(new) /\ Follows(dec, new)
    BY <1>2, <1>3, <1>6 DEF Sound, Follows
<1> QED BY <1>1, <1>2, <1>6, <1>7

LEMMA ReconcileTouches ==
    ASSUME EffectInv, NEW w \in Workers, NEW charge \in Charges \union {NULL}, Reconcile(w, charge)
    PROVE  \E d \in DOMAIN decisions : Touches(d)
<1> DEFINE d == workers[w].decision
<1>1. workers[w].at = "answered" /\ AtWork(w) /\ d \in DOMAIN decisions
    BY OwnEntry DEF Reconcile, AtWork
<1>2. PICK new \in Decision :
          /\ decisions' = [decisions EXCEPT ![d] = new]
          /\ Sound(new) /\ Follows(decisions[d], new) /\ new.call = "completed"
    BY <1>1, SettledEntry, InvocationType DEF EffectInv, Reconcile
<1>3. \E at \in Places : Goto(w, at) /\ (at # "failing" => Stands(at, new))
    BY <1>2 DEF Reconcile, Places, Stands
<1>4. Hands(d, new)
    BY <1>1, <1>3, OwnHands
<1> QED BY <1>1, <1>2, <1>4 DEF Touches

LEMMA MarkTerminalTouches ==
    ASSUME EffectInv, NEW w \in Workers, NEW charge \in Charges \union {NULL},
           MarkTerminal(w, charge)
    PROVE  \E d \in DOMAIN decisions : Touches(d)
<1> DEFINE d == workers[w].decision
<1>1. /\ workers[w].at \in {"intended", "sent", "answered", "broken", "reconciled"}
      /\ AtWork(w) /\ d \in DOMAIN decisions
      /\ Goto(w, "failing") \/ Leave(w)
    BY OwnEntry DEF MarkTerminal, AtWork
<1>2. CASE Settle(d, charge, "ended")
  <2>1. PICK new \in Decision :
            /\ decisions' = [decisions EXCEPT ![d] = new]
            /\ Sound(new) /\ Follows(decisions[d], new)
      BY <1>1, <1>2, SettledEntry
  <2>2. Hands(d, new)
      BY <1>1, OwnHands DEF Places
  <2> QED BY <1>1, <2>1, <2>2 DEF Touches
<1>3. CASE decisions' = [decisions EXCEPT ![d].invocation = "ended"]
  <2>1. decisions[d].phase \in {"started", "settled"}
      BY <1>1, OwnEntry DEF Stands, Sound
  <2> QED BY <1>1, <1>3, <2>1, InvocationTouches
<1> QED BY <1>2, <1>3 DEF MarkTerminal

LEMMA AppendEventTouches ==
    ASSUME EffectInv, NEW w \in Workers, NEW to \in EventStatuses, AppendEvent(w, to)
    PROVE  \E d \in DOMAIN decisions : Touches(d)
<1> DEFINE d == workers[w].decision
           dec == decisions[d]
           charged == IF dec.phase = "settled" THEN dec.charged ELSE dec.amount
           a == [dec EXCEPT !.event = TRUE]
           b == [a EXCEPT !.phase = "settled"]
           new == [b EXCEPT !.charged = charged]
<1>1. /\ AtWork(w) /\ workers[w].at \in {"acting", "acted"} /\ Leave(w)
      /\ workers[w].at = "acted" <=> dec.kind = "model"
      /\ dec.phase \in {"started", "settled"}
    BY DEF AppendEvent, AtWork
<1>2. /\ d \in DOMAIN decisions /\ dec \in Decision /\ Sound(dec)
      /\ dec.kind = "model" => dec.call = "completed"
    BY <1>1, OwnEntry DEF Stands
<1>3. decisions' = [decisions EXCEPT ![d] = new]
    BY Zenon DEF AppendEvent
<1>4. charged \in {NULL} \union Charges \union Usages
    BY <1>2 DEF Decision
<1> HIDE DEF charged
<1>5. /\ a \in Decision /\ a.call = dec.call /\ a.kind = dec.kind /\ a.invocation = dec.invocation
    BY <1>2 DEF Decision
<1> HIDE DEF a
<1>6. /\ b \in Decision /\ b.call = dec.call /\ b.kind = dec.kind
      /\ b.invocation = dec.invocation /\ b.phase = "settled"
    BY <1>5 DEF Decision, Phases
<1> HIDE DEF b
<1>7. /\ new \in Decision /\ new.call = dec.call /\ new.kind = dec.kind
      /\ new.invocation = dec.invocation /\ new.phase = "settled"
    BY <1>4, <1>6 DEF Decision
<1> HIDE DEF new
<1>8. Sound(new) /\ Follows(dec, new)
    BY <1>1, <1>2, <1>7 DEF Sound, Follows
<1>9. Hands(d, new)
    BY <1>1, OwnHands
<1> QED BY <1>2, <1>3, <1>7, <1>8, <1>9 DEF Touches

\* A reviewer gives back the hold of an action that was not started.
LEMMA ReleaseTouches ==
    ASSUME EffectInv, NEW d \in DOMAIN decisions, workers' = workers,
           decisions[d].phase = "reserved",
           decisions' = [decisions EXCEPT ![d].phase = "released"]
    PROVE  Touches(d)
<1> DEFINE new == [decisions[d] EXCEPT !.phase = "released"]
<1>1. decisions[d] \in Decision /\ Sound(decisions[d])
    BY EntryFacts
<1>2. decisions' = [decisions EXCEPT ![d] = new]
    BY Zenon
<1>3. /\ new \in Decision /\ new.phase = "released" /\ new.kind = decisions[d].kind
      /\ new.call = decisions[d].call /\ new.invocation = decisions[d].invocation
    BY <1>1 DEF Decision, Phases
<1> HIDE DEF new
<1>4. Sound(new) /\ Follows(decisions[d], new)
    BY <1>1, <1>3 DEF Sound, Follows
<1>5. \A at \in Places : Stands(at, decisions[d]) => Stands(at, new)
    BY <1>3 DEF Stands
<1>6. Hands(d, new)
    BY <1>5, OtherHands
<1> QED BY <1>2, <1>3, <1>4, <1>6 DEF Touches

\* A reviewer charges a retained answer.
LEMMA ReconcileModelTouches ==
    ASSUME EffectInv, NEW d \in DOMAIN decisions, NEW charge \in Charges \union {NULL},
           workers' = workers, Settle(d, charge, decisions[d].invocation)
    PROVE  Touches(d)
<1>1. PICK new \in Decision :
          /\ decisions' = [decisions EXCEPT ![d] = new]
          /\ Sound(new) /\ Follows(decisions[d], new) /\ new.call = "completed"
          /\ new.kind = decisions[d].kind /\ new.invocation = decisions[d].invocation
          /\ decisions[d].call = "completed"
    BY SettledEntry, InvocationType DEF EffectInv
<1>2. \A at \in Places : Stands(at, decisions[d]) => Stands(at, new)
    BY <1>1 DEF Stands
<1>3. Hands(d, new)
    BY <1>2, OtherHands
<1> QED BY <1>1, <1>3 DEF Touches

-----------------------------------------------------------------------------
(* The steps that leave the journal alone, and admissions.                 *)

LEMMA SameWorkersAlone ==
    ASSUME EffectInv, decisions' = decisions, workers' = workers
    PROVE  LeavesAlone
    BY DEF EffectInv, WorkAgrees, LeavesAlone, AtWork

\* A worker that is not, or no longer, at work after the step.
LEMMA NotAtWorkAlone ==
    ASSUME EffectInv, decisions' = decisions, NEW w \in Workers, NEW new,
           workers' = [workers EXCEPT ![w] = new], new.at \in {"idle", "planning", "failing"}
    PROVE  LeavesAlone
<1>1. workers'[w] = new /\ \A v \in Workers \ {w} : workers'[v] = workers[v]
    BY DEF EffectInv, Inv, TypeOK
<1> QED BY <1>1 DEF EffectInv, WorkAgrees, LeavesAlone, AtWork

LEMMA FailingAlone ==
    ASSUME EffectInv, decisions' = decisions, NEW w \in Workers, Goto(w, "failing"),
           workers[w].at # "idle"
    PROVE  LeavesAlone
<1> DEFINE new == [workers[w] EXCEPT !.at = "failing"]
<1>1. workers' = [workers EXCEPT ![w] = new]
    BY Zenon DEF Goto
<1>2. new.at = "failing"
    BY DEF EffectInv, Inv, TypeOK, Worker, IdleWorker
<1> HIDE DEF new
<1> QED BY <1>1, <1>2, NotAtWorkAlone

LEMMA DispatchAlone == ASSUME EffectInv, NEW w \in Workers, Dispatch(w) PROVE LeavesAlone
<1> DEFINE new == [workers[w] EXCEPT !.at = "sent"]
<1>1. workers' = [workers EXCEPT ![w] = new] /\ decisions' = decisions
    BY Zenon DEF Goto, Dispatch
<1>2. workers[w].at = "intended" /\ AtWork(w)
    BY DEF Dispatch, AtWork
<1>3. workers[w] \in Worker
    BY <1>2 DEF EffectInv, Inv, TypeOK, IdleWorker
<1>4. new.at = "sent" /\ new.decision = workers[w].decision
    BY <1>3 DEF Worker
<1> HIDE DEF new
<1>5. workers'[w] = new /\ \A v \in Workers \ {w} : workers'[v] = workers[v]
    BY <1>1 DEF EffectInv, Inv, TypeOK
<1>6. Stands("sent", decisions[workers[w].decision])
    BY <1>2, OwnEntry DEF Stands
<1> QED BY <1>1, <1>2, <1>4, <1>5, <1>6 DEF EffectInv, WorkAgrees, LeavesAlone, AtWork

LEMMA ClaimNextAlone ==
    ASSUME EffectInv, NEW w \in Workers, NEW r \in Rollouts, ClaimNext(w, r)
    PROVE  LeavesAlone
    BY NotAtWorkAlone DEF ClaimNext

LEMMA LeaveAlone ==
    ASSUME EffectInv, decisions' = decisions, NEW w \in Workers, Leave(w)
    PROVE  LeavesAlone
    BY NotAtWorkAlone DEF Leave, IdleWorker

\* An admission appends an entry for a worker that was not at work.
Appends(w) ==
    \E new \in Decision :
        /\ decisions' = Append(decisions, new)
        /\ Sound(new) /\ Stands("decided", new)
        /\ new.phase \in {"reserved", "denied"}
        /\ workers'[w].at = "decided" /\ workers'[w].decision = Len(decisions) + 1
        /\ \A v \in Workers \ {w} : workers'[v] = workers[v]

LEMMA AdmitAppends ==
    ASSUME EffectInv, NEW w \in Workers, NEW kind \in Kinds, NEW usage \in Usages,
           NEW refusal \in Refusals, Admit(w, kind, usage, refusal)
    PROVE  Appends(w)
<1> DEFINE x == workers[w]
           admitted == refusal = "none" /\ Admissible(w, usage)
           phase == IF admitted THEN "reserved" ELSE "denied"
           stop == refusal = "stop"
           new == [rollout |-> x.rollout, from |-> x.from, lease |-> x.lease,
                   authority |-> authority.sequence, kind |-> kind, amount |-> usage, stop |-> stop,
                   phase |-> phase, charged |-> NULL, invocation |-> "none", call |-> "none",
                   event |-> FALSE]
           mine == [[x EXCEPT !.at = "decided"] EXCEPT !.decision = Len(decisions) + 1]
<1>1. /\ decisions' = Append(decisions, new)
      /\ workers' = [workers EXCEPT ![w] = mine]
    BY Zenon DEF Admit
<1>2. x \in Worker
    BY DEF Admit, EffectInv, Inv, TypeOK, IdleWorker
<1>3. phase \in {"reserved", "denied"} /\ stop \in BOOLEAN /\ authority.sequence \in Nat
    BY DEF EffectInv, Inv, TypeOK, Authority
<1> HIDE DEF phase, stop
<1>4. /\ new \in Decision /\ new.phase = phase /\ new.invocation = "none" /\ new.call = "none"
    BY <1>2, <1>3 DEF Decision, Phases, Worker
<1> HIDE DEF new
<1>5. Sound(new) /\ Stands("decided", new)
    BY <1>3, <1>4 DEF Sound, Stands
<1>6. mine.at = "decided" /\ mine.decision = Len(decisions) + 1
    BY <1>2 DEF Worker
<1> HIDE DEF mine
<1>7. workers'[w] = mine /\ \A v \in Workers \ {w} : workers'[v] = workers[v]
    BY <1>1 DEF EffectInv, Inv, TypeOK
<1> QED BY <1>1, <1>3, <1>4, <1>5, <1>6, <1>7 DEF Appends

LEMMA AppendsAgrees ==
    ASSUME EffectInv, NEW w \in Workers, Appends(w)
    PROVE  WorkAgrees'
<1>1. PICK new \in Decision :
          /\ decisions' = Append(decisions, new)
          /\ Sound(new) /\ Stands("decided", new)
    BY DEF Appends
<1>2. decisions \in Seq(Decision)
    BY DEF EffectInv, Inv, TypeOK
<1> DEFINE last == Len(decisions) + 1
<1>3. /\ DOMAIN decisions' = DOMAIN decisions \union {last} /\ last \notin DOMAIN decisions
      /\ decisions'[last] = new
      /\ \A c \in DOMAIN decisions : decisions'[c] = decisions[c]
    BY <1>1, <1>2
<1>4. /\ workers'[w].at = "decided" /\ workers'[w].decision = last
      /\ \A v \in Workers \ {w} : workers'[v] = workers[v]
    BY DEF Appends
<1> HIDE DEF last
<1>5. \A v \in Workers : AtWork(v) => workers[v].decision \in DOMAIN decisions
    BY DecisionOfWorker DEF EffectInv, AtWork
<1>6. \A c \in DOMAIN decisions' : Sound(decisions'[c])
    BY <1>1, <1>3 DEF EffectInv, WorkAgrees
<1>7. \A v \in Workers :
          AtWork(v)' => Stands(workers'[v].at, decisions'[workers'[v].decision])
    BY <1>1, <1>3, <1>4, <1>5 DEF EffectInv, WorkAgrees, AtWork
<1>8. \A v, u \in Workers :
          AtWork(v)' /\ AtWork(u)' /\ workers'[v].decision = workers'[u].decision => v = u
    BY <1>3, <1>4, <1>5 DEF EffectInv, WorkAgrees, AtWork
<1> QED BY <1>6, <1>7, <1>8 DEF WorkAgrees

-----------------------------------------------------------------------------
(* Every step is of one of the three forms.                                *)

LEMMA WorkerEffects ==
    ASSUME EffectInv, NEW w \in Workers, WorkerStep(w)
    PROVE  LeavesAlone \/ Appends(w) \/ \E d \in DOMAIN decisions : Touches(d)
<1>1. CASE \E r \in Rollouts : ClaimNext(w, r)
    BY <1>1, ClaimNextAlone
<1>2. CASE \E kind \in Kinds, usage \in Usages, refusal \in Refusals :
               Admit(w, kind, usage, refusal)
    BY <1>2, AdmitAppends
<1>3. CASE Refuse(w) \/ ReleaseFailed(w) \/ Crash(w)
    BY <1>3, LeaveAlone DEF Refuse, ReleaseFailed, Crash
<1>4. CASE Start(w) \/ Intend(w) \/ Answer(w) \/ AdmitOutput(w)
    BY <1>4, StartTouches, IntendTouches, AnswerTouches, AdmitOutputTouches
<1>5. CASE Dispatch(w)
    BY <1>5, DispatchAlone
<1>6. CASE \E charge \in Charges \union {NULL} : Reconcile(w, charge) \/ MarkTerminal(w, charge)
    BY <1>6, ReconcileTouches, MarkTerminalTouches
<1>7. CASE \E to \in EventStatuses : AppendEvent(w, to)
    BY <1>7, AppendEventTouches
<1>8. CASE Raise(w)
    BY <1>8, FailingAlone DEF Raise
<1> QED BY <1>1, <1>2, <1>3, <1>4, <1>5, <1>6, <1>7, <1>8 DEF WorkerStep

LEMMA ReviewerEffects ==
    ASSUME EffectInv, ReviewerStep
    PROVE  LeavesAlone \/ \E d \in DOMAIN decisions : Touches(d)
<1>1. ASSUME NEW d \in DOMAIN decisions, ReleaseUnstarted(d)
      PROVE  Touches(d)
    BY <1>1, ReleaseTouches DEF ReleaseUnstarted
<1>2. ASSUME NEW d \in DOMAIN decisions, NEW charge \in Charges \union {NULL},
             ReconcileModel(d, charge)
      PROVE  Touches(d)
    BY <1>2, ReconcileModelTouches DEF ReconcileModel
<1>3. ASSUME NEW r \in Rollouts, NEW resume \in BOOLEAN, RecoverClear(r, resume)
      PROVE  LeavesAlone
    BY <1>3, SameWorkersAlone DEF RecoverClear, Conclude
<1>4. ASSUME NEW r \in Rollouts, NEW resume \in BOOLEAN, RecoverUnstarted(r, resume)
      PROVE  \E d \in DOMAIN decisions : Touches(d)
  <2>1. PICK d \in Unresolved(r) :
            /\ decisions[d].phase = "reserved" /\ workers' = workers
            /\ decisions' = [decisions EXCEPT ![d].phase = "released"]
      BY <1>4 DEF RecoverUnstarted, Conclude
  <2> QED BY <2>1, ReleaseTouches DEF Unresolved
<1>5. ASSUME NEW r \in Rollouts, NEW charge \in Charges \union {NULL}, RecoverCompleted(r, charge)
      PROVE  \E d \in DOMAIN decisions : Touches(d)
  <2>1. PICK d \in Unresolved(r) :
            Settle(d, charge, decisions[d].invocation) /\ workers' = workers
      BY <1>5 DEF RecoverCompleted, Conclude
  <2> QED BY <2>1, ReconcileModelTouches DEF Unresolved
<1>6. ASSUME NEW r \in Rollouts, RecoverUnknown(r) \/ Abandon(r)
      PROVE  LeavesAlone
    BY <1>6, SameWorkersAlone DEF RecoverUnknown, Conclude, Abandon
<1> QED BY <1>1, <1>2, <1>3, <1>4, <1>5, <1>6 DEF ReviewerStep

LEMMA EffectCases ==
    ASSUME EffectInv, [Next]_vars
    PROVE  \/ LeavesAlone
           \/ \E w \in Workers : Appends(w)
           \/ \E d \in DOMAIN decisions : Touches(d)
<1>1. CASE \/ \E to \in AmberStatuses : Transition(to)
           \/ Lapse \/ Fund
           \/ \E r \in Rollouts : LeaseExpires(r) \/ \E usage \in Usages : CreateRollout(r, usage)
           \/ UNCHANGED vars
    BY <1>1, SameWorkersAlone DEF Transition, Lapse, Fund, LeaseExpires, CreateRollout, vars
<1>2. CASE \E w \in Workers : WorkerStep(w)
    BY <1>2, WorkerEffects
<1>3. CASE ReviewerStep
    BY <1>3, ReviewerEffects
<1> QED BY <1>1, <1>2, <1>3 DEF Next

LEMMA EffectInit == Init => EffectInv
<1> SUFFICES ASSUME Init PROVE EffectInv
    OBVIOUS
<1>1. Inv
    BY InitInv
<1>2. decisions = << >> /\ \A w \in Workers : ~AtWork(w)
    BY DEF Init, AtWork, IdleWorker
<1> QED BY <1>1, <1>2 DEF EffectInv, WorkAgrees

LEMMA EffectNext == EffectInv /\ [Next]_vars => EffectInv'
<1> SUFFICES ASSUME EffectInv, [Next]_vars PROVE EffectInv'
    OBVIOUS
<1>1. Inv'
    BY NextInv DEF EffectInv
<1>2. WorkAgrees'
    BY EffectCases, AloneAgrees, AppendsAgrees, TouchAgrees
<1> QED BY <1>1, <1>2 DEF EffectInv

LEMMA EffectInvariance == Spec => []EffectInv
<1> QED BY EffectInit, EffectNext, PTL DEF Spec

-----------------------------------------------------------------------------
(* The refinement.                                                         *)

LEMMA InitBegins == ASSUME Init, NEW d \in Nat PROVE Lifecycle(d)!Init
    BY DEF Init, CallOf, Effect, Hold, Lifecycle!Init

LEMMA FollowsLifecycle ==
    ASSUME EffectInv, NEW c \in DOMAIN decisions, c \in DOMAIN decisions',
           Follows(decisions[c], decisions'[c]), Sound(decisions'[c]), decisions'[c] \in Decision
    PROVE  [Lifecycle(c)!Next]_<<Effect(c), Hold(c)>>
<1> DEFINE old == decisions[c]
           new == decisions'[c]
<1>1. old \in Decision /\ new \in Decision /\ Sound(old) /\ Sound(new) /\ new.kind = old.kind
    BY EntryFacts DEF Follows
<1>2. CASE old.kind # "model"
    BY <1>1, <1>2 DEF CallOf, Effect, Hold
<1>3. CASE old.kind = "model"
  <2>1. CallOf(c) /\ CallOf(c)'
      BY <1>1, <1>3 DEF CallOf
  <2>2. CASE /\ new.phase = old.phase /\ new.call = old.call
             /\ (old.invocation # "none" => new.invocation # "none")
      BY <1>1, <1>3, <2>1, <2>2
         DEF Effect, Hold, Sound, Decision, Phases, Lifecycle!Next, Lifecycle!Announce
  <2>3. CASE /\ new.phase = old.phase /\ old.phase = "started" /\ old.call = "none"
             /\ old.invocation # "none" /\ new.invocation # "none"
      BY <1>1, <2>1, <2>3
         DEF Effect, Hold, Decision, Lifecycle!Next, Lifecycle!Happen
  <2>4. CASE /\ old.phase = "reserved" /\ new.phase \in {"started", "released"}
             /\ new.call = old.call /\ new.invocation = old.invocation
      BY <1>1, <2>1, <2>4
         DEF Effect, Hold, Sound, Decision, Lifecycle!Next, Lifecycle!CommitHold,
             Lifecycle!Return
  <2>5. CASE /\ old.phase = "started" /\ new.phase = "settled" /\ new.call = old.call
             /\ (old.invocation # "none" => new.invocation # "none")
      BY <1>1, <1>3, <2>1, <2>5
         DEF Effect, Hold, Sound, Decision, Lifecycle!Next, Lifecycle!Charge
  <2> QED BY <2>2, <2>3, <2>4, <2>5 DEF Follows
<1> QED BY <1>2, <1>3

LEMMA SameEntryStutters ==
    ASSUME NEW c, CallOf(c)' = CallOf(c), CallOf(c) => decisions'[c] = decisions[c]
    PROVE  [Lifecycle(c)!Next]_<<Effect(c), Hold(c)>>
    BY DEF Effect, Hold

LEMMA StepFollows ==
    ASSUME EffectInv, [Next]_vars, NEW c \in Nat
    PROVE  [Lifecycle(c)!Next]_<<Effect(c), Hold(c)>>
<1>1. CASE LeavesAlone
    BY <1>1, SameEntryStutters DEF LeavesAlone, CallOf
<1>2. ASSUME NEW d \in DOMAIN decisions, Touches(d)
      PROVE  [Lifecycle(c)!Next]_<<Effect(c), Hold(c)>>
  <2>1. PICK new \in Decision :
            /\ decisions' = [decisions EXCEPT ![d] = new]
            /\ Sound(new) /\ Follows(decisions[d], new)
      BY <1>2 DEF Touches
  <2>2. /\ DOMAIN decisions' = DOMAIN decisions /\ decisions'[d] = new
        /\ \A e \in DOMAIN decisions \ {d} : decisions'[e] = decisions[e]
      BY <2>1, TouchedFacts DEF EffectInv
  <2>3. CASE c = d
      BY <2>1, <2>2, <2>3, FollowsLifecycle
  <2>4. CASE c # d
      BY <2>2, <2>4, SameEntryStutters DEF CallOf
  <2> QED BY <2>3, <2>4
<1>3. ASSUME NEW w \in Workers, Appends(w)
      PROVE  [Lifecycle(c)!Next]_<<Effect(c), Hold(c)>>
  <2>1. PICK new \in Decision :
            /\ decisions' = Append(decisions, new)
            /\ new.phase \in {"reserved", "denied"} /\ Stands("decided", new)
      BY <1>3 DEF Appends
  <2>2. decisions \in Seq(Decision)
      BY DEF EffectInv, Inv, TypeOK
  <2> DEFINE last == Len(decisions) + 1
  <2>3. /\ DOMAIN decisions' = DOMAIN decisions \union {last} /\ last \notin DOMAIN decisions
        /\ decisions'[last] = new
        /\ \A e \in DOMAIN decisions : decisions'[e] = decisions[e]
      BY <2>1, <2>2
  <2> HIDE DEF last
  <2>4. CASE c # last
      BY <2>3, <2>4, SameEntryStutters DEF CallOf
  <2>5. CASE c = last
    <3>1. Effect(c) = "none" /\ Hold(c) = "held" /\ Effect(c)' = "none"
        BY <2>1, <2>3, <2>5 DEF Effect, Hold, CallOf, Stands
    <3>2. Hold(c)' \in {"held", "returned"}
        BY <2>1, <2>3, <2>5 DEF Hold, CallOf
    <3> QED BY <3>1, <3>2 DEF Lifecycle!Next, Lifecycle!Return
  <2> QED BY <2>4, <2>5
<1> QED BY <1>1, <1>2, <1>3, EffectCases

\* Whatever fails, crashes, runs out or is reviewed, every model action
\* implements the lifecycle of an effect: its call is made after its intent
\* and on a started hold, once, and it is charged because it was answered.
THEOREM ModelActionsImplement == Spec => \A d \in Nat : Lifecycle(d)!Spec
<1>1. ASSUME NEW CONSTANT d \in Nat
      PROVE  Spec => Lifecycle(d)!Spec
  <2>1. Init => Lifecycle(d)!Init
      BY InitBegins
  <2>2. EffectInv /\ [Next]_vars => [Lifecycle(d)!Next]_<<Effect(d), Hold(d)>>
      BY StepFollows
  <2> QED BY <2>1, <2>2, EffectInvariance, PTL DEF Spec, Lifecycle!Spec
<1> QED BY <1>1
=============================================================================
