--------------------------- MODULE RunStoreProofs ---------------------------
(***************************************************************************)
(* Proofs about RunStore, for any number of runs, processes, tokens and    *)
(* stages.  Inv is inductive; the properties follow from it.               *)
(***************************************************************************)
EXTENDS RunStore, TLAPS

\* Why ClaimFresh holds: tokens are never shared, by processes or by rows, and
\* the row that carries a process's token is the row it claimed, as it was.
TokensIdentifyClaims ==
    /\ \A p \in Procs : claim[p] = NULL <=> pc[p] \in {"loop", "poll", "down"}
    /\ \A p \in Procs : claim[p] # NULL =>
          /\ pc[p] = "resume" <=> claim[p].state = Retryable
          /\ claim[p].state # Complete
          /\ \A q \in Procs \ {p} : claim[q] # NULL => claim[q].token # claim[p].token
          /\ \A r \in Runs : lease[r].token = claim[p].token =>
                claim[p].run = r /\ state[r] = claim[p].state
    /\ \A q, r \in Runs : lease[q] # NoLease /\ lease[q].token = lease[r].token => q = r

Inv ==
    /\ TypeOK
    /\ OneActiveRunPerStudent
    /\ TokensIdentifyClaims
    /\ LiveLeaseHasHeartbeat
    /\ RetryPointIsAStage

\* Moves lead from stages before COMPLETE to stages after CREATED.
LEMMA MovesType ==
    \A a, b : <<a, b>> \in Moves =>
        /\ a \in Stages \ {Complete, Retryable, Failed, Review, Absent}
        /\ b \in Stages \ {Created, Retryable, Failed, Review, Absent}
<1> SUFFICES ASSUME NEW a, NEW b, <<a, b>> \in Moves
             PROVE  /\ a \in Stages \ {Complete, Retryable, Failed, Review, Absent}
                    /\ b \in Stages \ {Created, Retryable, Failed, Review, Absent}
    OBVIOUS
<1>0. PICK path \in Paths :
          \E i \in 1..(Len(path) - 1) : <<a, b>> = <<path[i], path[i + 1]>>
    BY DEF Moves
<1>1. PICK i \in 1..(Len(path) - 1) : a = path[i] /\ b = path[i + 1]
    BY <1>0
<1>2. path \in Seq(STRING) /\ i \in 1..Len(path) /\ i + 1 \in 1..Len(path)
    BY <1>1, PathsAssumption DEF IsPath
<1>3. i # Len(path) /\ i + 1 # 1
    BY <1>1, <1>2
<1>4. a \in Stages /\ b \in Stages
  <2>1. {path[j] : j \in DOMAIN path} \subseteq Stages
      BY DEF Stages
  <2> QED BY <2>1, <1>1, <1>2
<1> QED BY <1>1, <1>2, <1>3, <1>4, PathsAssumption DEF IsPath

\* Every move changes the stage.
LEMMA NoSelfMove == \A a, b : <<a, b>> \in Moves => a # b
<1> SUFFICES ASSUME NEW a, NEW b, <<a, b>> \in Moves PROVE a # b
    OBVIOUS
<1>1. PICK path \in Paths :
          \E i \in 1..(Len(path) - 1) : <<a, b>> = <<path[i], path[i + 1]>>
    BY DEF Moves
<1>2. PICK i \in 1..(Len(path) - 1) : a = path[i] /\ b = path[i + 1]
    BY <1>1
<1>3. i \in 1..Len(path) /\ i + 1 \in 1..Len(path) /\ i # i + 1
    BY PathsAssumption DEF IsPath
<1>4. \A j, k \in 1..Len(path) : path[j] = path[k] => j = k
    BY PathsAssumption DEF IsPath
<1> QED BY <1>2, <1>3, <1>4

\* CREATED is a stage, and no stage is a failure or a review.
LEMMA StagesType ==
    Created \in Stages /\ Stages \intersect {Retryable, Failed, Review, Absent} = {}
<1>1. PICK path \in Paths : TRUE
    BY ConstantsAssumption
<1>2. 1 \in DOMAIN path /\ path[1] = Created
    BY <1>1, PathsAssumption DEF IsPath
<1>3. Created \in Stages
  <2>1. {path[j] : j \in DOMAIN path} \subseteq Stages
      BY DEF Stages
  <2> QED BY <2>1, <1>2
<1>4. ASSUME NEW s \in Stages
      PROVE  s \notin {Retryable, Failed, Review, Absent}
  <2>1. PICK other \in Paths : s \in {other[i] : i \in DOMAIN other}
      BY DEF Stages
  <2>2. PICK i \in DOMAIN other : s = other[i]
      BY <2>1
  <2>3. i \in 1..Len(other)
      BY <2>1, <2>2, PathsAssumption DEF IsPath
  <2> QED BY <2>1, <2>2, <2>3, PathsAssumption DEF IsPath
<1> QED BY <1>3, <1>4

LEMMA InitInv == Init => Inv
<1> SUFFICES ASSUME Init PROVE Inv
    OBVIOUS
<1> USE ConstantsAssumption, NullAssumption
<1>1. TypeOK
  <2>1. lease \in [Runs -> Leases]
      BY DEF Init, Leases
  <2>2. beat \in [WorkerIds -> {NoBeat} \union 0..MaxAge]
      BY DEF Init
  <2> QED BY <2>1, <2>2 DEF Init, TypeOK, States
<1>2. OneActiveRunPerStudent
    BY DEF Init, OneActiveRunPerStudent, Exists
<1>3. TokensIdentifyClaims
    BY DEF Init, TokensIdentifyClaims, NoLease
<1>4. LiveLeaseHasHeartbeat
    BY DEF Init, LiveLeaseHasHeartbeat, NoLease
<1>5. RetryPointIsAStage
    BY DEF Init, RetryPointIsAStage, Absent, Retryable
<1> QED BY <1>1, <1>2, <1>3, <1>4, <1>5 DEF Inv

\* The stages are strings of their own.
LEMMA Distinct ==
    /\ Terminal = {Complete, Failed, Review}
    /\ {Created, Complete} \intersect {Retryable, Failed, Review, Absent} = {}
    /\ Created # Complete /\ Retryable \notin Terminal /\ Absent \notin Terminal
    /\ Retryable # Absent
BY DEF Terminal, Complete, Failed, Review, Created, Retryable, Absent

LEMMA TouchType ==
    ASSUME NEW r \in Runs, older \subseteq Runs \X Runs, Touch(r)
    PROVE  older' \subseteq Runs \X Runs
BY DEF Touch

LEMMA CreateInv == \A r \in Runs : Inv /\ Create(r) => Inv'
<1> SUFFICES ASSUME NEW r \in Runs, Inv, Create(r) PROVE Inv'
    OBVIOUS
<1> USE ConstantsAssumption, Distinct, StagesType DEF Inv, Create
<1>1. TypeOK'
    BY TouchType DEF TypeOK, States
<1>2. OneActiveRunPerStudent'
    BY DEF TypeOK, OneActiveRunPerStudent, Exists
<1>3. TokensIdentifyClaims'
  <2>1. \A p \in Procs : claim[p] # NULL => claim[p].state # Absent
      BY DEF TypeOK, Claims
  <2> QED BY <2>1 DEF TypeOK, TokensIdentifyClaims, Exists
<1>4. LiveLeaseHasHeartbeat'
    BY DEF LiveLeaseHasHeartbeat
<1>5. RetryPointIsAStage'
    BY DEF TypeOK, RetryPointIsAStage
<1> QED BY <1>1, <1>2, <1>3, <1>4, <1>5

LEMMA SetPausedInv == \A r \in Runs, flag \in BOOLEAN : Inv /\ SetPaused(r, flag) => Inv'
<1> SUFFICES ASSUME NEW r \in Runs, NEW flag \in BOOLEAN, Inv, SetPaused(r, flag)
             PROVE  Inv'
    OBVIOUS
<1> USE DEF Inv, SetPaused
<1>1. TypeOK'
  <2>1. paused' \subseteq Runs
      BY DEF TypeOK
  <2> QED BY <2>1, TouchType DEF TypeOK
<1>2. OneActiveRunPerStudent'
    BY DEF OneActiveRunPerStudent, Exists
<1>3. TokensIdentifyClaims'
    BY DEF TokensIdentifyClaims
<1>4. LiveLeaseHasHeartbeat'
    BY DEF LiveLeaseHasHeartbeat
<1>5. RetryPointIsAStage'
    BY DEF RetryPointIsAStage
<1> QED BY <1>1, <1>2, <1>3, <1>4, <1>5

\* The worker of a live lease has a young heartbeat or none.
LEMMA LiveOwner ==
    ASSUME Inv, NEW r \in Runs, lease[r].left > 0
    PROVE  /\ lease[r] # NoLease
           /\ lease[r].owner \in WorkerIds \ StaleIds
           /\ lease[r].left \in 1..LeaseFor
           /\ \/ beat[lease[r].owner] = NoBeat
              \/ beat[lease[r].owner] + lease[r].left <= LeaseFor
<1> USE ConstantsAssumption
<1>1. lease[r] \in Leases /\ lease[r] # NoLease
    BY DEF Inv, TypeOK, NoLease
<1>2. lease[r].owner \in WorkerIds /\ lease[r].left \in 1..LeaseFor
    BY <1>1 DEF Leases
<1>3. beat[lease[r].owner] \in {NoBeat} \union 0..MaxAge
    BY <1>2 DEF Inv, TypeOK
<1>4. \/ beat[lease[r].owner] = NoBeat
      \/ beat[lease[r].owner] + lease[r].left <= LeaseFor
    BY DEF Inv, LiveLeaseHasHeartbeat
<1>5. lease[r].owner \notin StaleIds
    BY <1>2, <1>3, <1>4 DEF StaleIds, NoBeat, MaxAge
<1> QED BY <1>1, <1>2, <1>4, <1>5

\* What recover_stale_workers leaves is a table of the leases that were there.
LEMMA RecoveredFacts ==
    ASSUME Inv, NEW p \in Procs, NEW late
    PROVE  /\ Recovered(p, late) \in [Runs -> Leases]
           /\ \A r \in Runs : Recovered(p, late)[r] \in {lease[r], NoLease}
           /\ \A r \in Runs : lease[r].owner \notin seen[p] => Recovered(p, late)[r] = lease[r]
           /\ \A r \in Runs : lease[r] = NoLease => Recovered(p, late)[r] = NoLease
<1>1. NoLease \in Leases /\ NoLease.left = 0
    BY DEF NoLease, Leases
<1> QED BY <1>1 DEF Inv, TypeOK, Recovered

LEMMA SurveyInv == \A p \in Procs : Inv /\ Survey(p) => Inv'
<1> SUFFICES ASSUME NEW p \in Procs, Inv, Survey(p) PROVE Inv'
    OBVIOUS
<1> USE DEF Inv, Survey, rowVars
<1>1. /\ pc' \in [Procs -> {"loop", "poll", "handle", "resume", "fail", "down"}]
      /\ seen' \in [Procs -> SUBSET WorkerIds]
    BY DEF TypeOK, StaleIds
<1>2. TypeOK'
    BY <1>1 DEF TypeOK
<1>3. OneActiveRunPerStudent'
    BY DEF OneActiveRunPerStudent, Exists
<1>4. TokensIdentifyClaims'
    BY <1>1 DEF TokensIdentifyClaims, TypeOK
<1>5. LiveLeaseHasHeartbeat'
    BY DEF LiveLeaseHasHeartbeat
<1>6. RetryPointIsAStage'
    BY DEF RetryPointIsAStage
<1> QED BY <1>2, <1>3, <1>4, <1>5, <1>6

\* Only an absent lease has no token.
LEMMA LeaseTokens ==
    ASSUME Inv
    PROVE  /\ NoLease.token = NULL
           /\ \A r \in Runs : lease[r] # NoLease => lease[r].token # NULL
           /\ \A p \in Procs : claim[p] # NULL => claim[p].token # NULL
BY ConstantsAssumption DEF Inv, TypeOK, Leases, NoLease, Claims

LEMMA PollInv == \A p \in Procs : Inv /\ Poll(p) => Inv'
<1> SUFFICES ASSUME NEW p \in Procs, Inv, Poll(p) PROVE Inv'
    OBVIOUS
<1> USE ConstantsAssumption, NullAssumption
<1>b. beat' \in [WorkerIds -> {NoBeat} \union 0..MaxAge]
  <2>1. beat' = Heartbeat(p) /\ beat \in [WorkerIds -> {NoBeat} \union 0..MaxAge]
      BY DEF Poll, Inv, TypeOK
  <2>2. 0 \in 0..MaxAge
      BY DEF MaxAge
  <2> QED BY <2>1, <2>2 DEF Heartbeat
<1>s. seen' \in [Procs -> SUBSET WorkerIds]
    BY DEF Poll, Inv, TypeOK
<1>n. NoLease.left = 0
    BY DEF NoLease
<1>p. PICK late \in SUBSET GrantedMeanwhile(p) :
         LET rows == Recovered(p, late)
             candidates == {r \in Runs : Claimable(p, r, rows)} IN
         \/ /\ candidates = {}
            /\ lease' = rows
            /\ pc' = [pc EXCEPT ![p] = "loop"]
            /\ UNCHANGED <<older, claim>>
         \/ \E r \in Oldest(candidates), t \in Tokens \ UsedTokens :
            /\ lease' = [rows EXCEPT ![r] =
                           [owner |-> IdOf[p], token |-> t, left |-> LeaseFor]]
            /\ Touch(r)
            /\ claim' = [claim EXCEPT ![p] = [run |-> r, state |-> state[r], token |-> t]]
            /\ pc' = [pc EXCEPT ![p] = IF state[r] = Retryable THEN "resume" ELSE "handle"]
    BY DEF Poll
<1> DEFINE rows == Recovered(p, late)
<1>r. /\ rows \in [Runs -> Leases]
      /\ \A r \in Runs : rows[r] \in {lease[r], NoLease}
    BY RecoveredFacts
<1> HIDE DEF rows
<1>live. ASSUME NEW r \in Runs, rows[r].left > 0
         PROVE  \/ beat'[rows[r].owner] = NoBeat
                \/ beat'[rows[r].owner] + rows[r].left <= LeaseFor
  <2>1. rows[r] = lease[r] /\ lease[r].left > 0
      BY <1>live, <1>r, <1>n
  <2>2. /\ lease[r].owner \in WorkerIds
        /\ lease[r].left \in 1..LeaseFor
        /\ \/ beat[lease[r].owner] = NoBeat
           \/ beat[lease[r].owner] + lease[r].left <= LeaseFor
      BY <2>1, LiveOwner
  <2>3. beat'[lease[r].owner] \in {0, NoBeat, beat[lease[r].owner]}
      BY <2>2 DEF Poll, Heartbeat
  <2> QED BY <2>1, <2>2, <2>3 DEF NoBeat
<1>same. /\ state' = state /\ retryFrom' = retryFrom /\ retries' = retries
         /\ paused' = paused /\ active' = active /\ sampled' = sampled
         /\ log' = log /\ current' = current
    BY DEF Poll
<1>slot. OneActiveRunPerStudent' /\ RetryPointIsAStage'
    BY <1>same DEF Inv, OneActiveRunPerStudent, RetryPointIsAStage, Exists
<1>1. CASE /\ lease' = rows /\ pc' = [pc EXCEPT ![p] = "loop"]
           /\ UNCHANGED <<older, claim>>
  <2>1. TypeOK'
      BY <1>1, <1>b, <1>s, <1>r, <1>same DEF Inv, TypeOK
  <2>2. TokensIdentifyClaims'
    <3>1. \A r \in Runs : lease'[r] \in {lease[r], NoLease}
        BY <1>1, <1>r
    <3>2. \A q, r \in Runs :
             lease'[q] # NoLease /\ lease'[q].token = lease'[r].token => q = r
        BY <3>1, LeaseTokens DEF Inv, TokensIdentifyClaims
    <3>3. \A q \in Procs, r \in Runs : claim[q] # NULL =>
             (lease'[r].token = claim[q].token => lease[r].token = claim[q].token)
        BY <3>1, LeaseTokens
    <3>4. /\ claim[p] = NULL /\ pc'[p] = "loop"
          /\ \A q \in Procs \ {p} : pc'[q] = pc[q]
        BY <1>1 DEF Poll, Inv, TypeOK, TokensIdentifyClaims
    <3> QED BY <3>2, <3>3, <3>4, <1>1, <1>same DEF Inv, TokensIdentifyClaims
  <2>3. LiveLeaseHasHeartbeat'
      BY <1>1, <1>live DEF LiveLeaseHasHeartbeat
  <2> QED BY <2>1, <2>2, <2>3, <1>slot DEF Inv
<1>2. ASSUME NEW r \in Runs, NEW t \in Tokens,
             Claimable(p, r, rows), t \notin UsedTokens,
             lease' = [rows EXCEPT ![r] =
                         [owner |-> IdOf[p], token |-> t, left |-> LeaseFor]],
             Touch(r),
             claim' = [claim EXCEPT ![p] = [run |-> r, state |-> state[r], token |-> t]],
             pc' = [pc EXCEPT ![p] = IF state[r] = Retryable THEN "resume" ELSE "handle"]
      PROVE  Inv'
  <2> DEFINE new == [owner |-> IdOf[p], token |-> t, left |-> LeaseFor]
             mine == [run |-> r, state |-> state[r], token |-> t]
  <2>1. new \in Leases /\ new # NoLease /\ new.left = LeaseFor /\ new.token = t
      BY DEF Leases, NoLease
  <2>2. mine \in Claims /\ mine # NULL /\ mine.state # Complete
      BY <1>2 DEF Claims, Claimable, Exists, Terminal, States, Inv, TypeOK
  <2>3. TypeOK'
    <3>1. lease' \in [Runs -> Leases] /\ claim' \in [Procs -> Claims \union {NULL}]
        BY <1>2, <2>1, <2>2, <1>r DEF Inv, TypeOK
    <3>2. pc' \in [Procs -> {"loop", "poll", "handle", "resume", "fail", "down"}]
        BY <1>2 DEF Inv, TypeOK
    <3>3. older' \subseteq Runs \X Runs
        BY <1>2, TouchType DEF Inv, TypeOK
    <3> QED BY <3>1, <3>2, <3>3, <1>b, <1>s, <1>same DEF Inv, TypeOK
  <2>4. TokensIdentifyClaims'
    <3>1. \A q \in Procs : claim[q] # NULL => claim[q].token # t /\ claim[q].token # NULL
        BY <1>2 DEF UsedTokens, Inv, TypeOK, Claims
    <3>2. \A q \in Runs : lease[q].token # t
        BY <1>2 DEF UsedTokens
    <3>3. \A q \in Runs \ {r} : lease'[q] = rows[q] /\ lease'[q] \in {lease[q], NoLease}
        BY <1>2, <1>r
    <3>4. lease'[r] = new /\ NoLease.token = NULL /\ t # NULL
        BY <1>2, <1>r DEF NoLease
    <3>5. claim'[p] = mine /\ \A q \in Procs \ {p} : claim'[q] = claim[q] /\ pc'[q] = pc[q]
        BY <1>2 DEF Inv, TypeOK
    <3>6. pc'[p] = IF state[r] = Retryable THEN "resume" ELSE "handle"
        BY <1>2 DEF Inv, TypeOK
    <3>7. \A q \in Procs : claim'[q] = NULL <=> pc'[q] \in {"loop", "poll", "down"}
        BY <3>5, <3>6, <2>2 DEF Inv, TokensIdentifyClaims
    <3>8. ASSUME NEW q \in Procs, claim'[q] # NULL
          PROVE  /\ pc'[q] = "resume" <=> claim'[q].state = Retryable
                 /\ claim'[q].state # Complete
                 /\ \A o \in Procs \ {q} : claim'[o] # NULL => claim'[o].token # claim'[q].token
                 /\ \A x \in Runs : lease'[x].token = claim'[q].token =>
                       claim'[q].run = x /\ state'[x] = claim'[q].state
      <4>1. CASE q = p
          BY <4>1, <3>1, <3>2, <3>3, <3>4, <3>5, <3>6, <2>1, <2>2, <1>same
      <4>2. CASE q # p
          BY <4>2, <3>8, <3>1, <3>2, <3>3, <3>4, <3>5, <2>1, <1>same
             DEF Inv, TokensIdentifyClaims
      <4> QED BY <4>1, <4>2
    <3>9. \A x, y \in Runs : lease'[x] # NoLease /\ lease'[x].token = lease'[y].token => x = y
        BY <3>2, <3>3, <3>4, <2>1, LeaseTokens DEF Inv, TokensIdentifyClaims
    <3> QED BY <3>7, <3>8, <3>9 DEF TokensIdentifyClaims
  <2>5. LiveLeaseHasHeartbeat'
    <3>1. ASSUME NEW q \in Runs \ {r}, lease'[q].left > 0
          PROVE  \/ beat'[lease'[q].owner] = NoBeat
                 \/ beat'[lease'[q].owner] + lease'[q].left <= LeaseFor
        BY <3>1, <1>2, <1>live, <1>r
    <3>2. beat'[IdOf[p]] = 0
        BY DEF Poll, Heartbeat
    <3>3. lease'[r] = new /\ new.owner = IdOf[p] /\ new.left = LeaseFor
        BY <1>2, <1>r
    <3> QED BY <3>1, <3>2, <3>3 DEF LiveLeaseHasHeartbeat
  <2> QED BY <2>3, <2>4, <2>5, <1>slot DEF Inv
<1> QED BY <1>1, <1>2, <1>p DEF Oldest, rows

\* The run of a process that still holds its lease is what it claimed.
LEMMA HolderFacts ==
    ASSUME Inv, NEW p \in Procs, claim[p] # NULL, Holds(p)
    PROVE  /\ claim[p].run \in Runs
           /\ state[claim[p].run] = claim[p].state
           /\ claim[p].state \in (Stages \union {Retryable}) \ {Complete}
           /\ pc[p] = "resume" <=> claim[p].state = Retryable
           /\ \A q \in Procs \ {p} : claim[q] # NULL => claim[q].token # claim[p].token
BY DEF Inv, TypeOK, TokensIdentifyClaims, Claims, Holds

\* A transition on the row of a claim, with what the three transactions that
\* make one do around it.
LEMMA TransitionInv ==
    ASSUME Inv, NEW p \in Procs, claim[p] # NULL, Holds(p),
           NEW to \in Stages \union {Retryable, Failed, Review},
           Transition(claim[p].run, to),
           Goto(p, "loop"),
           UNCHANGED <<paused, beat, current>>,
           sampled' \subseteq Runs,
           retries' \in [Runs -> Nat],
           retryFrom' \in [Runs -> Stages \union {Retryable, NULL}],
           \A q \in Runs \ {claim[p].run} :
              retries'[q] = retries[q] /\ retryFrom'[q] = retryFrom[q],
           to = Retryable => /\ retryFrom'[claim[p].run] \in Stages \ {Complete}
                             /\ retries'[claim[p].run] \in 1..Budget[claim[p].run]
    PROVE  Inv'
<1> DEFINE r == claim[p].run
<1> USE ConstantsAssumption, NullAssumption
<1>1. r \in Runs /\ Exists(r) /\ state[r] \in States \ Terminal
    BY HolderFacts, StagesType, Distinct DEF Exists, States, Terminal
<1>2. /\ state' = [state EXCEPT ![r] = to]
      /\ lease' = [lease EXCEPT ![r] = NoLease]
      /\ active' = IF to \in Terminal THEN active \ {r} ELSE active
      /\ log' = [log EXCEPT ![r] = Append(@, [from |-> state[r], to |-> to])]
      /\ Touch(r)
    BY DEF Transition
<1>3. /\ pc' = [pc EXCEPT ![p] = "loop"]
      /\ claim' = [claim EXCEPT ![p] = NULL]
      /\ seen' = [seen EXCEPT ![p] = {}]
    BY DEF Goto
<1>4. to \in States
    BY DEF States
<1>5. TypeOK'
  <2>1. state' \in [Runs -> States] /\ lease' \in [Runs -> Leases] /\ active' \subseteq Runs
      BY <1>2, <1>4 DEF Inv, TypeOK, Leases
  <2>2. log' \in [Runs -> Seq([from : States, to : States])]
    <3>1. [from |-> state[r], to |-> to] \in [from : States, to : States]
        BY <1>1, <1>4
    <3>0. log[r] \in Seq([from : States, to : States])
        BY <1>1 DEF Inv, TypeOK
    <3>2. ASSUME NEW E, NEW s \in Seq(E), NEW e \in E PROVE Append(s, e) \in Seq(E)
        OBVIOUS
    <3>3. Append(log[r], [from |-> state[r], to |-> to]) \in Seq([from : States, to : States])
        BY <3>0, <3>1, <3>2
    <3> QED BY <3>3, <1>1, <1>2 DEF Inv, TypeOK
  <2>3. pc' \in [Procs -> {"loop", "poll", "handle", "resume", "fail", "down"}]
        /\ claim' \in [Procs -> Claims \union {NULL}]
        /\ seen' \in [Procs -> SUBSET WorkerIds]
      BY <1>3 DEF Inv, TypeOK
  <2>4. older' \subseteq Runs \X Runs
      BY <1>1, <1>2, TouchType DEF Inv, TypeOK
  <2>5. paused' \subseteq Runs /\ beat' \in [WorkerIds -> {NoBeat} \union 0..MaxAge]
        /\ current' \in BOOLEAN
      BY DEF Inv, TypeOK
  <2> QED BY <2>1, <2>2, <2>3, <2>4, <2>5 DEF TypeOK
<1>6. OneActiveRunPerStudent'
  <2>1. \A q \in Runs : state'[q] = IF q = r THEN to ELSE state[q]
      BY <1>2 DEF Inv, TypeOK
  <2>2. to # Absent
      BY StagesType, Distinct DEF Retryable, Failed, Review, Absent
  <2> QED BY <1>1, <1>2, <2>1, <2>2 DEF Inv, OneActiveRunPerStudent, Exists
<1>7. TokensIdentifyClaims'
  <2>1. \A q \in Runs : lease'[q] = IF q = r THEN NoLease ELSE lease[q]
      BY <1>2 DEF Inv, TypeOK
  <2>2. \A q \in Procs : /\ claim'[q] = IF q = p THEN NULL ELSE claim[q]
                         /\ pc'[q] = IF q = p THEN "loop" ELSE pc[q]
      BY <1>3 DEF Inv, TypeOK
  <2>3. \A q \in Procs : claim'[q] = NULL <=> pc'[q] \in {"loop", "poll", "down"}
      BY <2>2 DEF Inv, TokensIdentifyClaims
  <2>4. ASSUME NEW q \in Procs, claim'[q] # NULL
        PROVE  /\ pc'[q] = "resume" <=> claim'[q].state = Retryable
               /\ claim'[q].state # Complete
               /\ \A o \in Procs \ {q} : claim'[o] # NULL => claim'[o].token # claim'[q].token
               /\ \A x \in Runs : lease'[x].token = claim'[q].token =>
                     claim'[q].run = x /\ state'[x] = claim'[q].state
    <3>1. q # p /\ claim'[q] = claim[q] /\ pc'[q] = pc[q] /\ claim[q].token # NULL
        BY <2>2, <2>4, LeaseTokens
    <3>2. ASSUME NEW x \in Runs, lease'[x].token = claim[q].token
          PROVE  claim[q].run = x /\ state'[x] = claim[q].state
      <4>1. x # r /\ lease'[x] = lease[x] /\ state'[x] = state[x]
          BY <3>1, <3>2, <2>1, <1>2, LeaseTokens DEF Inv, TypeOK
      <4>2. lease[x].token = claim[q].token
          BY <4>1, <3>2
      <4>3. claim[q].run = x /\ state[x] = claim[q].state
          BY <4>2, <3>1, <2>2, <2>4 DEF Inv, TokensIdentifyClaims
      <4> QED BY <4>1, <4>3
    <3>3. /\ pc[q] = "resume" <=> claim[q].state = Retryable
          /\ claim[q].state # Complete
          /\ \A o \in Procs \ {q} : claim[o] # NULL => claim[o].token # claim[q].token
        BY <3>1, <2>2, <2>4 DEF Inv, TokensIdentifyClaims
    <3>4. \A o \in Procs \ {q} : claim'[o] # NULL => claim'[o].token # claim'[q].token
        BY <3>1, <3>3, <2>2
    <3> QED BY <3>1, <3>2, <3>3, <3>4
  <2>5. \A x, y \in Runs : lease'[x] # NoLease /\ lease'[x].token = lease'[y].token => x = y
      BY <2>1, LeaseTokens DEF Inv, TokensIdentifyClaims
  <2> QED BY <2>3, <2>4, <2>5 DEF TokensIdentifyClaims
<1>8. LiveLeaseHasHeartbeat'
  <2>1. \A q \in Runs : lease'[q] = IF q = r THEN NoLease ELSE lease[q]
      BY <1>2 DEF Inv, TypeOK
  <2> QED BY <2>1 DEF Inv, LiveLeaseHasHeartbeat, NoLease
<1>9. RetryPointIsAStage'
  <2>1. \A q \in Runs : state'[q] = IF q = r THEN to ELSE state[q]
      BY <1>2 DEF Inv, TypeOK
  <2> QED BY <2>1 DEF Inv, RetryPointIsAStage
<1> QED BY <1>5, <1>6, <1>7, <1>8, <1>9 DEF Inv

LEMMA CommitInv == \A p \in Procs : Inv /\ Commit(p) => Inv'
<1> SUFFICES ASSUME NEW p \in Procs, Inv, Commit(p) PROVE Inv'
    OBVIOUS
<1>1. claim[p] # NULL /\ Holds(p)
    BY DEF Commit, Inv, TokensIdentifyClaims
<1>2. PICK to \in Stages \union {Review} :
          /\ to = Review \/ <<claim[p].state, to>> \in Moves
          /\ Transition(claim[p].run, to)
          /\ sampled' = IF to \in Sampling THEN sampled \union {claim[p].run} ELSE sampled
    BY DEF Commit
<1>3. to # Retryable
    BY <1>2, StagesType DEF Review, Retryable
<1>4. sampled' \subseteq Runs
  <2>1. claim[p].run \in Runs /\ sampled \subseteq Runs
      BY <1>1, HolderFacts DEF Inv, TypeOK
  <2> QED BY <2>1, <1>2
<1>5. /\ Goto(p, "loop") /\ UNCHANGED <<paused, beat, current>>
      /\ retries' = retries /\ retryFrom' = retryFrom
    BY DEF Commit
<1> QED BY <1>1, <1>2, <1>3, <1>4, <1>5, TransitionInv DEF Inv, TypeOK

LEMMA FailInv == \A p \in Procs : Inv /\ Fail(p) => Inv'
<1> SUFFICES ASSUME NEW p \in Procs, Inv, Fail(p) PROVE Inv'
    OBVIOUS
<1> DEFINE r == claim[p].run
<1>1. claim[p] # NULL /\ Holds(p) /\ pc[p] = "fail"
    BY DEF Fail, Inv, TokensIdentifyClaims
<1>2. r \in Runs /\ state[r] \in Stages \ {Complete}
    BY <1>1, HolderFacts
<1>3. PICK retryable \in BOOLEAN :
          Transition(r, IF retryable /\ retries[r] + 1 <= Budget[r] THEN Retryable ELSE Failed)
    BY DEF Fail
<1> DEFINE to == IF retryable /\ retries[r] + 1 <= Budget[r] THEN Retryable ELSE Failed
<1>4. /\ retries' = [retries EXCEPT ![r] = @ + 1]
      /\ retryFrom' = [retryFrom EXCEPT ![r] = state[r]]
      /\ Goto(p, "loop") /\ UNCHANGED <<paused, sampled, beat, current>>
    BY DEF Fail
<1>5. /\ retries' \in [Runs -> Nat] /\ sampled' \subseteq Runs
      /\ retryFrom' \in [Runs -> Stages \union {Retryable, NULL}]
    BY <1>2, <1>4 DEF Inv, TypeOK
<1>6. \A q \in Runs \ {r} : retries'[q] = retries[q] /\ retryFrom'[q] = retryFrom[q]
    BY <1>4 DEF Inv, TypeOK
<1>7. to = Retryable => /\ retryFrom'[r] \in Stages \ {Complete}
                        /\ retries'[r] \in 1..Budget[r]
    BY <1>2, <1>4, ConstantsAssumption DEF Inv, TypeOK, Retryable, Failed
<1>8. to \in Stages \union {Retryable, Failed, Review}
    OBVIOUS
<1> HIDE DEF to
<1>9. Transition(r, to)
    BY <1>3 DEF to
<1> QED BY <1>1, <1>4, <1>5, <1>6, <1>7, <1>8, <1>9, TransitionInv

LEMMA ResumeRetryInv == \A p \in Procs : Inv /\ ResumeRetry(p) => Inv'
<1> SUFFICES ASSUME NEW p \in Procs, Inv, ResumeRetry(p) PROVE Inv'
    OBVIOUS
<1> DEFINE r == claim[p].run
<1>1. claim[p] # NULL /\ Holds(p) /\ state[r] = Retryable
    BY DEF ResumeRetry, Inv, TokensIdentifyClaims
<1>2. r \in Runs /\ retryFrom[r] \in Stages
    BY <1>1, HolderFacts DEF Inv, RetryPointIsAStage
<1>3. retryFrom[r] # Retryable
    BY <1>2, StagesType
<1>4. /\ Transition(r, retryFrom[r]) /\ Goto(p, "loop")
      /\ UNCHANGED <<retryFrom, retries, paused, sampled, beat, current>>
    BY DEF ResumeRetry
<1> QED BY <1>1, <1>2, <1>3, <1>4, TransitionInv DEF Inv, TypeOK

\* Steps that touch only a process.
LEMMA GotoInv ==
    ASSUME Inv, NEW p \in Procs, NEW where \in {"loop", "fail", "down"},
           Goto(p, where), where = "fail" => pc[p] = "handle",
           UNCHANGED <<rowVars, beat, current>>
    PROVE  Inv'
<1> USE ConstantsAssumption, NullAssumption DEF Inv, rowVars
<1>1. \A q \in Procs : /\ claim'[q] = IF q = p /\ where # "fail" THEN NULL ELSE claim[q]
                       /\ pc'[q] = IF q = p THEN where ELSE pc[q]
    BY DEF Goto, TypeOK
<1>2. TypeOK'
    BY DEF Goto, TypeOK
<1>3. OneActiveRunPerStudent'
    BY DEF OneActiveRunPerStudent, Exists
<1>4. TokensIdentifyClaims'
    BY <1>1 DEF TokensIdentifyClaims
<1>5. LiveLeaseHasHeartbeat'
    BY DEF LiveLeaseHasHeartbeat
<1>6. RetryPointIsAStage'
    BY DEF RetryPointIsAStage
<1> QED BY <1>2, <1>3, <1>4, <1>5, <1>6

\* Inv does not look at the corpus.
LEMMA SameInv ==
    ASSUME Inv, UNCHANGED <<rowVars, beat, pc, seen, claim>>, current' \in BOOLEAN
    PROVE  Inv'
<1> USE DEF Inv, rowVars
<1>1. TypeOK'
    BY DEF TypeOK
<1>2. OneActiveRunPerStudent'
    BY DEF OneActiveRunPerStudent, Exists
<1>3. TokensIdentifyClaims'
    BY DEF TokensIdentifyClaims
<1>4. LiveLeaseHasHeartbeat'
    BY DEF LiveLeaseHasHeartbeat
<1>5. RetryPointIsAStage'
    BY DEF RetryPointIsAStage
<1> QED BY <1>1, <1>2, <1>3, <1>4, <1>5

LEMMA CorpusChangesInv == Inv /\ CorpusChanges => Inv'
<1> SUFFICES ASSUME Inv, CorpusChanges PROVE Inv'
    OBVIOUS
<1>1. current' \in BOOLEAN /\ UNCHANGED <<rowVars, beat, pc, seen, claim>>
    BY DEF CorpusChanges, Inv, TypeOK
<1> QED BY <1>1, SameInv

LEMMA TickInv == Inv /\ Tick => Inv'
<1> SUFFICES ASSUME Inv, Tick PROVE Inv'
    OBVIOUS
<1> USE ConstantsAssumption DEF Inv, Tick
<1>0. NoLease.left = 0 /\ NoLease.token = NULL
    BY DEF NoLease
<1>1. ASSUME NEW r \in Runs
      PROVE  /\ lease'[r] \in Leases
             /\ lease'[r].owner = lease[r].owner /\ lease'[r].token = lease[r].token
             /\ lease'[r].left = IF lease[r].left > 0 THEN lease[r].left - 1 ELSE 0
             /\ lease'[r] = NoLease <=> lease[r] = NoLease
  <2>1. CASE lease[r] = NoLease
      BY <2>1 DEF NoLease, Leases
  <2>2. CASE lease[r] \in [owner : WorkerIds, token : Tokens, left : 0..LeaseFor]
    <3>1. lease'[r] \in [owner : WorkerIds, token : Tokens, left : 0..LeaseFor]
        BY <2>2
    <3> QED BY <2>2, <3>1 DEF Leases, NoLease
  <2> QED BY <2>1, <2>2 DEF TypeOK, Leases
<1>2. TypeOK'
  <2>1. lease' \in [Runs -> Leases]
      BY <1>1
  <2>2. beat' \in [WorkerIds -> {NoBeat} \union 0..MaxAge]
      BY DEF TypeOK, MaxAge, NoBeat
  <2> QED BY <2>1, <2>2 DEF TypeOK
<1>3. OneActiveRunPerStudent'
    BY DEF OneActiveRunPerStudent, Exists
<1>4. TokensIdentifyClaims'
  <2>1. pc' = pc /\ claim' = claim /\ state' = state
      OBVIOUS
  <2>2. \A r \in Runs : /\ lease'[r].token = lease[r].token
                        /\ lease'[r] = NoLease <=> lease[r] = NoLease
      BY <1>1
  <2> HIDE DEF Tick
  <2> QED BY <2>1, <2>2 DEF TokensIdentifyClaims
<1>5. LiveLeaseHasHeartbeat'
  <2> SUFFICES ASSUME NEW r \in Runs, lease'[r].left > 0
               PROVE  \/ beat'[lease'[r].owner] = NoBeat
                      \/ beat'[lease'[r].owner] + lease'[r].left <= LeaseFor
      BY DEF LiveLeaseHasHeartbeat
  <2>1. lease[r].left > 0 /\ lease[r] \in [owner : WorkerIds, token : Tokens, left : 0..LeaseFor]
    <3>1. lease[r].left > 0
        BY <1>1
    <3>2. lease[r] \in Leases /\ lease[r] # NoLease
        BY <3>1, <1>0 DEF TypeOK
    <3> QED BY <3>1, <3>2 DEF Leases
  <2> DEFINE w == lease[r].owner
  <2>2. /\ w \in WorkerIds /\ beat[w] \in {NoBeat} \union 0..MaxAge
        /\ beat[w] = NoBeat \/ beat[w] + lease[r].left <= LeaseFor
      BY <2>1 DEF LiveLeaseHasHeartbeat, TypeOK
  <2>3. IF beat[w] = NoBeat THEN beat'[w] = NoBeat ELSE beat'[w] = beat[w] + 1
      BY <2>1, <2>2 DEF MaxAge, NoBeat
  <2> QED BY <1>1, <2>1, <2>2, <2>3
<1>6. RetryPointIsAStage'
    BY DEF RetryPointIsAStage
<1> QED BY <1>2, <1>3, <1>4, <1>5, <1>6

LEMMA NextInv == Inv /\ [Next]_vars => Inv'
<1> SUFFICES ASSUME Inv, [Next]_vars PROVE Inv'
    OBVIOUS
<1>1. ASSUME NEW r \in Runs, Create(r) \/ Pause(r) \/ Resume(r) PROVE Inv'
    BY <1>1, CreateInv, SetPausedInv DEF Pause, Resume
<1>2. ASSUME NEW p \in Procs, Survey(p) \/ Poll(p) PROVE Inv'
    BY <1>2, SurveyInv, PollInv
<1>3. ASSUME NEW p \in Procs, Work(p) PROVE Inv'
  <2>1. CASE Commit(p)
      BY <2>1, CommitInv
  <2>2. CASE Raise(p)
      BY <2>2, GotoInv DEF Raise
  <2>3. CASE Fail(p)
      BY <2>3, FailInv
  <2>4. CASE ResumeRetry(p)
      BY <2>4, ResumeRetryInv
  <2>5. CASE Die(p)
      BY <2>5, GotoInv DEF Die
  <2> QED BY <1>3, <2>1, <2>2, <2>3, <2>4, <2>5 DEF Work
<1>4. ASSUME NEW p \in Procs, Crash(p) \/ Restart(p) PROVE Inv'
    BY <1>4, GotoInv DEF Crash, Restart
<1>5. CASE CorpusChanges
    BY <1>5, CorpusChangesInv
<1>6. CASE Tick
    BY <1>6, TickInv
<1>7. CASE UNCHANGED vars
    BY <1>7, SameInv DEF vars, Inv, TypeOK
<1> QED BY <1>1, <1>2, <1>3, <1>4, <1>5, <1>6, <1>7 DEF Next

\* Inv holds in every reachable state.
THEOREM Invariance == Spec => []Inv
BY InitInv, NextInv, PTL DEF Spec

\* The table and the processes keep their types.
THEOREM TypeCorrect == Spec => []TypeOK
BY Invariance, PTL DEF Inv

\* RunStore.create, the unique active_student_id and its release at terminal
\* states give a student one active run.
THEOREM StudentSlot == Spec => []OneActiveRunPerStudent
BY Invariance, PTL DEF Inv

\* A lease token found on a row is proof that the claim is not stale, however
\* claims, crashes, expiry and stale recovery interleave.
THEOREM Freshness == Spec => []ClaimFresh
<1>1. Inv => ClaimFresh
    BY DEF Inv, TokensIdentifyClaims, ClaimFresh, Holds, TypeOK, Claims
<1> QED BY <1>1, Invariance, PTL

\* The row of a worker with a live lease is never old and active at once, which
\* is what recover_stale_workers looks for.
THEOREM LeaseOutlivesNoHeartbeat == Spec => []LiveLeaseHasHeartbeat
BY Invariance, PTL DEF Inv

\* FAILED_RETRYABLE always knows a stage to resume at, within its budget.
THEOREM RetryPoint == Spec => []RetryPointIsAStage
BY Invariance, PTL DEF Inv

-----------------------------------------------------------------------------
\* The state of a run that exists is changed by Commit, Fail and ResumeRetry,
\* each by a process that holds the run's lease.
LEMMA ChangeFacts ==
    ASSUME Inv, [Next]_vars, NEW r \in Runs, Exists(r), state'[r] # state[r]
    PROVE  \E p \in Procs : /\ claim[p] # NULL /\ claim'[p] = NULL
                            /\ claim[p].run = r /\ Holds(p)
                            /\ claim[p].state = state[r]
<1>1. \A q \in Runs : Create(q) => q # r /\ state'[r] = state[r]
    BY DEF Create, Exists, Inv, TypeOK
<1>2. \A q \in Runs : ~Pause(q) /\ ~Resume(q)
    BY DEF Pause, Resume, SetPaused
<1>3. \A p \in Procs : ~Survey(p) /\ ~Poll(p) /\ ~Raise(p) /\ ~Die(p) /\ ~Crash(p) /\ ~Restart(p)
    BY DEF Survey, Poll, Raise, Die, Crash, Restart, rowVars
<1>4. ~CorpusChanges /\ ~Tick /\ ~UNCHANGED vars
    BY DEF CorpusChanges, Tick, vars, rowVars
<1>5. PICK p \in Procs : Commit(p) \/ Fail(p) \/ ResumeRetry(p)
    BY <1>1, <1>2, <1>3, <1>4 DEF Next, Work
<1>6. claim[p] # NULL /\ Holds(p) /\ Goto(p, "loop")
    BY <1>5 DEF Commit, Fail, ResumeRetry, Inv, TokensIdentifyClaims
<1>7. \E to : state' = [state EXCEPT ![claim[p].run] = to]
    BY <1>5 DEF Commit, Fail, ResumeRetry, Transition
<1>8. claim[p].run = r
    BY <1>7 DEF Inv, TypeOK
<1>9. claim'[p] = NULL
    BY <1>6 DEF Goto, Inv, TypeOK
<1> QED BY <1>6, <1>8, <1>9, HolderFacts

\* No run is changed under a stale claim.
THEOREM Fencing == Spec => ChangesAreFenced
<1>1. ASSUME Inv, [Next]_vars
      PROVE  \A r \in Runs : state'[r] # state[r] /\ Exists(r) =>
                \E p \in Procs : /\ claim[p] # NULL /\ claim'[p] = NULL
                                 /\ claim[p].run = r
                                 /\ claim[p].token = lease[r].token
                                 /\ claim[p].state = state[r]
  <2> SUFFICES ASSUME NEW r \in Runs, state'[r] # state[r], Exists(r)
               PROVE  \E p \in Procs : /\ claim[p] # NULL /\ claim'[p] = NULL
                                       /\ claim[p].run = r
                                       /\ claim[p].token = lease[r].token
                                       /\ claim[p].state = state[r]
      OBVIOUS
  <2>1. PICK p \in Procs : /\ claim[p] # NULL /\ claim'[p] = NULL
                           /\ claim[p].run = r /\ Holds(p)
                           /\ claim[p].state = state[r]
      BY <1>1, ChangeFacts
  <2>2. claim[p].token = lease[r].token
      BY <2>1 DEF Holds
  <2> QED BY <2>1, <2>2
<1> QED BY <1>1, Invariance, PTL DEF Spec, ChangesAreFenced

\* A row without a lease gets one from a poll that finds it claimable.
LEMMA LeaseBegins ==
    ASSUME Inv, [Next]_vars, NEW r \in Runs, lease[r] = NoLease, lease'[r] # NoLease
    PROVE  r \notin paused
<1>1. \A q \in Runs : ~Create(q) /\ ~Pause(q) /\ ~Resume(q)
    BY DEF Create, Pause, Resume, SetPaused
<1>2. \A p \in Procs : ~Survey(p) /\ ~Raise(p) /\ ~Die(p) /\ ~Crash(p) /\ ~Restart(p)
    BY DEF Survey, Raise, Die, Crash, Restart, rowVars
<1>3. ~CorpusChanges /\ ~UNCHANGED vars
    BY DEF CorpusChanges, vars, rowVars
<1>4. ~Tick
    BY DEF Tick, NoLease
<1>5. \A p \in Procs : ~Commit(p) /\ ~Fail(p) /\ ~ResumeRetry(p)
  <2> SUFFICES ASSUME NEW p \in Procs, Commit(p) \/ Fail(p) \/ ResumeRetry(p)
               PROVE  FALSE
      OBVIOUS
  <2>1. lease' = [lease EXCEPT ![claim[p].run] = NoLease]
      BY DEF Commit, Fail, ResumeRetry, Transition
  <2> QED BY <2>1 DEF Inv, TypeOK
<1>6. PICK p \in Procs : Poll(p)
    BY <1>1, <1>2, <1>3, <1>4, <1>5 DEF Next, Work
<1>7. PICK late \in SUBSET GrantedMeanwhile(p), q \in Runs :
          /\ Claimable(p, q, Recovered(p, late))
          /\ \E t : lease' = [Recovered(p, late) EXCEPT ![q] =
                [owner |-> IdOf[p], token |-> t, left |-> LeaseFor]]
  <2>1. \A late : lease' # Recovered(p, late)
      BY RecoveredFacts
  <2> QED BY <1>6, <2>1 DEF Poll, Oldest
<1>8. Recovered(p, late)[r] = NoLease /\ Recovered(p, late) \in [Runs -> Leases]
    BY RecoveredFacts
<1>9. q = r
    BY <1>7, <1>8
<1> QED BY <1>7, <1>9 DEF Claimable

\* Pausing stops a run at its next transition.
THEOREM PauseHolds == Spec => PausedRunsRest
<1>1. ASSUME Inv, [Next]_vars
      PROVE  \A r \in paused : Exists(r) /\ lease[r] = NoLease =>
                state'[r] = state[r] /\ lease'[r] = NoLease
  <2> SUFFICES ASSUME NEW r \in paused, Exists(r), lease[r] = NoLease
               PROVE  state'[r] = state[r] /\ lease'[r] = NoLease
      OBVIOUS
  <2>1. r \in Runs
      BY <1>1 DEF Inv, TypeOK
  <2>2. ASSUME state'[r] # state[r] PROVE FALSE
    <3>1. PICK p \in Procs : claim[p] # NULL /\ claim[p].run = r /\ Holds(p)
        BY <1>1, <2>1, <2>2, ChangeFacts
    <3> QED BY <3>1, <1>1, LeaseTokens DEF Holds
  <2>3. lease'[r] = NoLease
      BY <1>1, <2>1, LeaseBegins
  <2> QED BY <2>2, <2>3
<1> QED BY <1>1, Invariance, PTL DEF Spec, PausedRunsRest

-----------------------------------------------------------------------------
\* A survey finds nobody stale whose lease is live.
LEMMA SurveyFacts ==
    ASSUME Inv, [Next]_vars, NEW r \in Runs, lease[r].left > 0, NEW p \in Procs
    PROVE  lease[r].owner \notin seen'[p] \ seen[p]
<1> SUFFICES ASSUME lease[r].owner \in seen'[p] \ seen[p] PROVE FALSE
    OBVIOUS
<1>1. lease[r].owner \notin StaleIds
    BY LiveOwner
<1>2. seen \in [Procs -> SUBSET WorkerIds]
    BY DEF Inv, TypeOK
<1>3. \A x \in Runs : ~Create(x) /\ ~Pause(x) /\ ~Resume(x)
    BY DEF Create, Pause, Resume, SetPaused
<1>4. ~CorpusChanges /\ ~Tick /\ ~UNCHANGED vars
    BY DEF CorpusChanges, Tick, vars
<1>5. ASSUME NEW q \in Procs, Poll(q) \/ Work(q) \/ Crash(q) \/ Restart(q) PROVE FALSE
  <2>1. seen' = [seen EXCEPT ![q] = {}]
      BY <1>5 DEF Poll, Work, Commit, Raise, Fail, ResumeRetry, Die, Crash, Restart, Goto
  <2> QED BY <2>1, <1>2
<1>6. ASSUME NEW q \in Procs, Survey(q) PROVE FALSE
    BY <1>6, <1>1, <1>2 DEF Survey
<1> QED BY <1>3, <1>4, <1>5, <1>6 DEF Next

\* A live lease is ended by its holder's transition, or by a recovery that was
\* under way when it was granted.
THEOREM Exclusion == Spec => LiveLeaseIsExclusive
<1>1. ASSUME Inv, [Next]_vars
      PROVE  \A r \in Runs : lease[r].left > 0 =>
                /\ \A p \in Procs : lease[r].owner \notin seen'[p] \ seen[p]
                /\ lease'[r].token # lease[r].token =>
                      \/ state'[r] # state[r]
                      \/ \E p \in Procs : /\ lease[r].owner \in seen[p]
                                          /\ pc[p] = "poll" /\ pc'[p] # pc[p]
                                          /\ beat'[IdOf[p]] = 0
  <2> SUFFICES ASSUME NEW r \in Runs, lease[r].left > 0, lease'[r].token # lease[r].token,
                      ~ \E p \in Procs : /\ lease[r].owner \in seen[p]
                                         /\ pc[p] = "poll" /\ pc'[p] # pc[p]
                                         /\ beat'[IdOf[p]] = 0
               PROVE  state'[r] # state[r]
      BY <1>1, SurveyFacts
  <2>0. lease' # lease /\ lease[r] # NoLease
      BY DEF NoLease
  <2>1. \A q \in Runs : ~Create(q) /\ ~Pause(q) /\ ~Resume(q)
      BY <2>0 DEF Create, Pause, Resume, SetPaused
  <2>2. \A p \in Procs : ~Survey(p) /\ ~Raise(p) /\ ~Die(p) /\ ~Crash(p) /\ ~Restart(p)
      BY <2>0 DEF Survey, Raise, Die, Crash, Restart, rowVars
  <2>3. ~CorpusChanges /\ ~UNCHANGED vars
      BY <2>0 DEF CorpusChanges, vars, rowVars
  <2>4. ~Tick
    <3>1. SUFFICES ASSUME Tick PROVE lease'[r].token = lease[r].token
        OBVIOUS
    <3>2. lease'[r] = [lease[r] EXCEPT !.left = IF @ > 0 THEN @ - 1 ELSE 0]
        BY <3>1 DEF Tick
    <3>3. lease[r] \in [owner : WorkerIds, token : Tokens, left : 0..LeaseFor]
        BY <1>1, <2>0 DEF Inv, TypeOK, Leases
    <3> QED BY <3>2, <3>3
  <2>5. \A p \in Procs : ~Poll(p)
    <3> SUFFICES ASSUME NEW p \in Procs, Poll(p) PROVE FALSE
        OBVIOUS
    <3>0. IdOf[p] \in WorkerIds /\ lease[r].left \in 1..LeaseFor
        BY <1>1, LiveOwner, ConstantsAssumption
    <3>1. /\ pc[p] = "poll" /\ beat'[IdOf[p]] = 0
          /\ pc'[p] \in {"loop", "handle", "resume"}
        BY <1>1, <3>0 DEF Poll, Heartbeat, Inv, TypeOK
    <3>2. lease[r].owner \notin seen[p]
        BY <3>1
    <3>3. PICK late : \/ lease' = Recovered(p, late)
                      \/ \E q \in Runs : \E row :
                             /\ Claimable(p, q, Recovered(p, late))
                             /\ lease' = [Recovered(p, late) EXCEPT ![q] = row]
        BY DEF Poll, Oldest
    <3>4. Recovered(p, late)[r] = lease[r] /\ Recovered(p, late) \in [Runs -> Leases]
        BY <1>1, <3>2, RecoveredFacts
    <3>5. ~Claimable(p, r, Recovered(p, late))
        BY <3>0, <3>4 DEF Claimable
    <3>6. lease'[r] = lease[r]
        BY <3>3, <3>4, <3>5
    <3> QED BY <3>6
  <2>6. PICK p \in Procs : Commit(p) \/ Fail(p) \/ ResumeRetry(p)
      BY <1>1, <2>1, <2>2, <2>3, <2>4, <2>5 DEF Next, Work
  <2>7. claim[p] # NULL /\ Holds(p)
      BY <1>1, <2>6 DEF Commit, Fail, ResumeRetry, Inv, TokensIdentifyClaims
  <2>8. claim[p].run \in Runs /\ state[claim[p].run] = claim[p].state
        /\ claim[p].state \in (Stages \union {Retryable}) \ {Complete}
        /\ (pc[p] = "resume" <=> claim[p].state = Retryable)
      BY <1>1, <2>7, HolderFacts
  <2>9. r = claim[p].run
      BY <2>6, <2>8, <1>1 DEF Commit, Fail, ResumeRetry, Transition, Inv, TypeOK
  <2>10. ASSUME Commit(p) PROVE state'[r] # state[r]
    <3>1. PICK to \in Stages \union {Review} :
             (to = Review \/ <<claim[p].state, to>> \in Moves) /\ Transition(r, to)
        BY <2>10, <2>9 DEF Commit
    <3>2. to # claim[p].state
        BY <3>1, <2>8, NoSelfMove, StagesType, Distinct DEF Retryable, Review
    <3> QED BY <3>1, <3>2, <2>8, <2>9, <1>1 DEF Transition, Inv, TypeOK
  <2>11. ASSUME Fail(p) PROVE state'[r] # state[r]
    <3>1. PICK to \in {Retryable, Failed} : Transition(r, to)
        BY <2>11, <2>9 DEF Fail
    <3>2. claim[p].state \in Stages
        BY <2>8, <2>11 DEF Fail
    <3> QED BY <3>1, <3>2, <2>8, <2>9, <1>1, StagesType DEF Transition, Inv, TypeOK
  <2>12. ASSUME ResumeRetry(p) PROVE state'[r] # state[r]
    <3>1. Transition(r, retryFrom[r]) /\ state[r] = Retryable
        BY <2>12, <2>9 DEF ResumeRetry
    <3>2. retryFrom[r] # Retryable
        BY <3>1, <1>1, StagesType DEF Inv, RetryPointIsAStage
    <3> QED BY <3>1, <3>2, <1>1 DEF Transition, Inv, TypeOK
  <2> QED BY <2>6, <2>10, <2>11, <2>12
<1> QED BY <1>1, Invariance, PTL DEF Spec, LiveLeaseIsExclusive

-----------------------------------------------------------------------------
(* What a run keeps: its episode and its history.                          *)

\* Every run beyond CREATED, or retried beyond it, has its episode.
SampledOnce ==
    \A r \in Runs : state[r] \notin Terminal \union {Absent} /\ SampledOrLater(r) =>
        r \in sampled

\* From CREATED every path leads to its sampling stage.
LEMMA CreatedIsSampled == \A b : <<Created, b>> \in Moves => b \in Sampling
<1> SUFFICES ASSUME NEW b, <<Created, b>> \in Moves PROVE b \in Sampling
    OBVIOUS
<1>1. PICK path \in Paths :
          \E i \in 1..(Len(path) - 1) : <<Created, b>> = <<path[i], path[i + 1]>>
    BY DEF Moves
<1>2. PICK i \in 1..(Len(path) - 1) : path[i] = Created /\ b = path[i + 1]
    BY <1>1
<1>3. i = 1
    BY <1>2, PathsAssumption DEF IsPath
<1> QED BY <1>2, <1>3 DEF Sampling

\* What a step changes of states and of transition rows: nothing, by a
\* creation, or by the transition of a held run.
LEMMA StepFacts ==
    ASSUME Inv, [Next]_vars
    PROVE  \/ UNCHANGED <<state, retryFrom, sampled, log>>
           \/ \E r \in Runs : Create(r)
           \/ \E p \in Procs : /\ Commit(p) \/ Fail(p) \/ ResumeRetry(p)
                               /\ claim[p] # NULL /\ Holds(p)
                               /\ claim[p].run \in Runs
                               /\ state[claim[p].run] = claim[p].state
                               /\ claim[p].state \in Stages \union {Retryable}
                               /\ pc[p] = "resume" <=> claim[p].state = Retryable
<1>1. ASSUME NEW r \in Runs, Pause(r) \/ Resume(r)
      PROVE  UNCHANGED <<state, retryFrom, sampled, log>>
    BY <1>1 DEF Pause, Resume, SetPaused
<1>2. ASSUME NEW p \in Procs, Survey(p) \/ Poll(p) \/ Raise(p) \/ Die(p) \/ Crash(p) \/ Restart(p)
      PROVE  UNCHANGED <<state, retryFrom, sampled, log>>
    BY <1>2 DEF Survey, Poll, Raise, Die, Crash, Restart, rowVars
<1>3. ASSUME CorpusChanges \/ Tick \/ UNCHANGED vars
      PROVE  UNCHANGED <<state, retryFrom, sampled, log>>
    BY <1>3 DEF CorpusChanges, Tick, vars, rowVars
<1>4. ASSUME NEW p \in Procs, Commit(p) \/ Fail(p) \/ ResumeRetry(p)
      PROVE  /\ claim[p] # NULL /\ Holds(p)
             /\ claim[p].run \in Runs
             /\ state[claim[p].run] = claim[p].state
             /\ claim[p].state \in Stages \union {Retryable}
             /\ pc[p] = "resume" <=> claim[p].state = Retryable
  <2>1. claim[p] # NULL /\ Holds(p)
      BY <1>4 DEF Commit, Fail, ResumeRetry, Inv, TokensIdentifyClaims
  <2> QED BY <2>1, HolderFacts
<1> QED BY <1>1, <1>2, <1>3, <1>4 DEF Next, Work

LEMMA SampledStep ==
    ASSUME Inv, [Next]_vars, SampledOnce
    PROVE  SampledOnce'
<1>1. CASE UNCHANGED <<state, retryFrom, sampled, log>>
    BY <1>1 DEF SampledOnce, SampledOrLater
<1>2. ASSUME NEW r \in Runs, Create(r) PROVE SampledOnce'
    BY <1>2, Distinct DEF Create, SampledOnce, SampledOrLater, Inv, TypeOK, Created, Retryable
<1>3. ASSUME NEW p \in Procs, Commit(p) \/ Fail(p) \/ ResumeRetry(p),
             claim[p] # NULL, Holds(p), claim[p].run \in Runs,
             state[claim[p].run] = claim[p].state,
             claim[p].state \in Stages \union {Retryable},
             pc[p] = "resume" <=> claim[p].state = Retryable
      PROVE  SampledOnce'
  <2> DEFINE r == claim[p].run
  <2>0. /\ state \in [Runs -> States] /\ retryFrom \in [Runs -> Stages \union {Retryable, NULL}]
        /\ state[r] \notin Terminal \union {Absent}
    <3>1. state[r] \notin Terminal
        BY <1>3 DEF Commit, Fail, ResumeRetry, Transition, ValidTransition
    <3> QED BY <1>3, <3>1, StagesType DEF Inv, TypeOK, Retryable, Absent
  <2>1. CASE Commit(p)
    <3>1. PICK to \in Stages \union {Review} :
             /\ to = Review \/ <<claim[p].state, to>> \in Moves
             /\ state' = [state EXCEPT ![r] = to]
             /\ sampled' = IF to \in Sampling THEN sampled \union {r} ELSE sampled
        BY <2>1 DEF Commit, Transition
    <3>2. retryFrom' = retryFrom
        BY <2>1 DEF Commit
    <3>3. state[r] # Retryable
        BY <2>1, <1>3 DEF Commit
    <3>4. to = Review \/ r \in sampled'
      <4>1. CASE to # Review /\ state[r] = Created
          BY <4>1, <3>1, <1>3, CreatedIsSampled
      <4>2. CASE state[r] # Created
          BY <4>2, <3>1, <3>3, <2>0, <1>3 DEF SampledOnce, SampledOrLater
      <4> QED BY <4>1, <4>2
    <3> QED BY <3>1, <3>2, <3>4, <2>0, <1>3, Distinct DEF SampledOnce, SampledOrLater
  <2>2. CASE Fail(p)
    <3>1. PICK to \in {Retryable, Failed} : state' = [state EXCEPT ![r] = to]
        BY <2>2 DEF Fail, Transition
    <3>2. retryFrom' = [retryFrom EXCEPT ![r] = state[r]] /\ sampled' = sampled
        BY <2>2 DEF Fail
    <3>3. state[r] # Retryable
        BY <2>2, <1>3 DEF Fail
    <3> QED BY <3>1, <3>2, <3>3, <2>0, <1>3, Distinct DEF SampledOnce, SampledOrLater
  <2>3. CASE ResumeRetry(p)
    <3>1. /\ state[r] = Retryable /\ state' = [state EXCEPT ![r] = retryFrom[r]]
          /\ retryFrom' = retryFrom /\ sampled' = sampled
        BY <2>3 DEF ResumeRetry, Transition
    <3>2. retryFrom[r] # Retryable
        BY <3>1, <1>3, StagesType DEF Inv, RetryPointIsAStage
    <3> QED BY <3>1, <3>2, <2>0, <1>3 DEF SampledOnce, SampledOrLater
  <2> QED BY <1>3, <2>1, <2>2, <2>3
<1> QED BY <1>1, <1>2, <1>3, StepFacts

\* A run that was sampled is admitted whatever the corpus has become since: its
\* own leases, which change the inventory's digest, cannot strand it.
THEOREM SampledRuns == Spec => []SampledRunsContinue
<1>1. Init => SampledOnce
    BY DEF Init, SampledOnce
<1>2. Inv /\ SampledOnce /\ [Next]_vars => SampledOnce'
    BY SampledStep
<1>3. SampledOnce => SampledRunsContinue
    BY DEF SampledOnce, SampledRunsContinue, Admitted
<1> QED BY <1>1, <1>2, <1>3, Invariance, PTL DEF Spec

LEMMA HistoryStep ==
    ASSUME Inv, [Next]_vars, HistoryReplays
    PROVE  HistoryReplays'
<1> USE DEF Inv, TypeOK
<1>1. CASE UNCHANGED <<state, retryFrom, sampled, log>>
    BY <1>1 DEF HistoryReplays, Exists
<1>2. ASSUME NEW r \in Runs, Create(r) PROVE HistoryReplays'
    BY <1>2 DEF Create, HistoryReplays, Exists, Created, Absent
<1>3. ASSUME NEW p \in Procs, Commit(p) \/ Fail(p) \/ ResumeRetry(p),
             claim[p].run \in Runs, state[claim[p].run] = claim[p].state,
             claim[p].state \in Stages \union {Retryable}
      PROVE  HistoryReplays'
  <2> DEFINE r == claim[p].run
             line(l) == \A i \in 1..Len(l) : l[i].from = (IF i = 1 THEN Created ELSE l[i - 1].to)
  <2>1. PICK to \in States \ {Absent} :
           /\ state' = [state EXCEPT ![r] = to]
           /\ log' = [log EXCEPT ![r] = Append(@, [from |-> state[r], to |-> to])]
    <3>1. PICK to : Transition(r, to)
        BY <1>3 DEF Commit, Fail, ResumeRetry
    <3>2. to \in States \ {Absent}
        BY <3>1, <1>3, MovesType, StagesType, Distinct
           DEF Transition, ValidTransition, RetryPointIsAStage, States, Retryable, Failed, Review, Absent
    <3> QED BY <3>1, <3>2 DEF Transition
  <2>2. state[r] # Absent
      BY <1>3, StagesType DEF Retryable, Absent
  <2>3. \A q \in Runs \ {r} : log'[q] = log[q] /\ state'[q] = state[q]
      BY <2>1
  <2>4. /\ log'[r] = Append(log[r], [from |-> state[r], to |-> to])
        /\ state'[r] = to /\ log[r] \in Seq([from : States, to : States])
      BY <2>1, <1>3
  <2>5. line(log[r]) /\ state[r] = (IF log[r] = <<>> THEN Created ELSE log[r][Len(log[r])].to)
      BY <2>2, <1>3 DEF HistoryReplays, Exists
  <2>6. line(log'[r])
      BY <2>4, <2>5
  <2>7. log'[r] # <<>> /\ state'[r] = log'[r][Len(log'[r])].to /\ state'[r] # Absent
    <3>1. Len(log'[r]) = Len(log[r]) + 1 /\ Len(log[r]) \in Nat
        BY <2>4
    <3>2. log'[r][Len(log'[r])] = [from |-> state[r], to |-> to]
        BY <2>4, <3>1
    <3>3. log'[r] # <<>>
        BY <3>1
    <3> QED BY <2>1, <2>4, <3>2, <3>3
  <2> HIDE DEF Inv, TypeOK
  <2> QED BY <2>3, <2>6, <2>7 DEF HistoryReplays, Exists
<1> QED BY <1>1, <1>2, <1>3, StepFacts

\* The transition rows of a run, read in order, lead from its creation to the
\* state of its row.
THEOREM History == Spec => []HistoryReplays
<1>1. Init => HistoryReplays
  <2> SUFFICES ASSUME Init, NEW r \in Runs
               PROVE  /\ \A i \in 1..Len(log[r]) :
                            log[r][i].from = (IF i = 1 THEN Created ELSE log[r][i - 1].to)
                      /\ ~Exists(r) /\ log[r] = <<>>
      BY DEF HistoryReplays
  <2>1. log[r] = <<>> /\ state[r] = Absent
      BY DEF Init
  <2>2. Len(<<>>) = 0
      OBVIOUS
  <2> QED BY <2>1, <2>2 DEF Exists
<1>2. Inv /\ HistoryReplays /\ [Next]_vars => HistoryReplays'
    BY HistoryStep
<1> QED BY <1>1, <1>2, Invariance, PTL DEF Spec

-----------------------------------------------------------------------------
(* Refinement of RunLifecycle.                                             *)

LEMMA ProgressFacts ==
    ASSUME Inv
    PROVE  \A r \in Runs :
              /\ Lifecycle!Open(r) <=> Exists(r) /\ state[r] \notin Terminal
              /\ Progress[r] = Absent <=> state[r] = Absent
<1> SUFFICES ASSUME NEW r \in Runs
             PROVE  /\ Lifecycle!Open(r) <=> Exists(r) /\ state[r] \notin Terminal
                    /\ Progress[r] = Absent <=> state[r] = Absent
    OBVIOUS
<1>1. CASE state[r] = Retryable
  <2>1. Progress[r] \in Stages \ {Complete}
      BY <1>1 DEF Progress, Inv, RetryPointIsAStage
  <2> QED BY <1>1, <2>1, StagesType, Distinct
          DEF Lifecycle!Open, Lifecycle!Ended, Exists, Complete, Failed, Review, Absent
<1>2. CASE state[r] # Retryable
    BY <1>2 DEF Progress, Lifecycle!Open, Lifecycle!Ended, Exists, Terminal,
                Complete, Failed, Review, Absent
<1> QED BY <1>1, <1>2

LEMMA InitRefines == Init => Lifecycle!Init
BY DEF Init, Lifecycle!Init, Progress, Absent, Retryable

\* A transition of a held run is a move, a giving up, or no progress at all.
LEMMA TransitionRefines ==
    ASSUME Inv, NEW p \in Procs, Commit(p) \/ Fail(p) \/ ResumeRetry(p)
    PROVE  Lifecycle!Next \/ Progress' = Progress
<1> DEFINE r == claim[p].run
<1>0. claim[p] # NULL /\ Holds(p)
    BY DEF Commit, Fail, ResumeRetry, Inv, TokensIdentifyClaims
<1>1. /\ r \in Runs /\ state[r] = claim[p].state
      /\ claim[p].state \in (Stages \union {Retryable}) \ {Complete}
      /\ pc[p] = "resume" <=> claim[p].state = Retryable
    BY <1>0, HolderFacts
<1>2. Lifecycle!Open(r)
    BY <1>1, ProgressFacts, StagesType, Distinct DEF Exists
<1>3. CASE Commit(p)
  <2>1. PICK to \in Stages \union {Review} :
           (to = Review \/ <<claim[p].state, to>> \in Moves) /\ Transition(r, to)
      BY <1>3 DEF Commit
  <2>2. to # Retryable /\ state[r] # Retryable
      BY <1>1, <1>3, StagesType DEF Commit, Review, Retryable
  <2>3. state' = [state EXCEPT ![r] = to] /\ retryFrom' = retryFrom
      BY <1>3, <2>1 DEF Commit, Transition
  <2>4. Progress' = [Progress EXCEPT ![r] = to] /\ Progress[r] = state[r]
      BY <1>1, <2>2, <2>3 DEF Progress, Inv, TypeOK
  <2>5. CASE to = Review
    <3>1. Lifecycle!GiveUp(r)
        BY <1>2, <2>4, <2>5 DEF Lifecycle!GiveUp, Review
    <3> QED BY <3>1, <1>1 DEF Lifecycle!Next
  <2>6. CASE <<claim[p].state, to>> \in Moves
    <3>1. Lifecycle!Advance(r)
        BY <1>1, <2>4, <2>6 DEF Lifecycle!Advance
    <3> QED BY <3>1, <1>1 DEF Lifecycle!Next
  <2> QED BY <2>1, <2>5, <2>6
<1>4. CASE Fail(p)
  <2>1. PICK to \in {Retryable, Failed} : Transition(r, to)
      BY <1>4 DEF Fail
  <2>2. /\ state' = [state EXCEPT ![r] = to]
        /\ retryFrom' = [retryFrom EXCEPT ![r] = state[r]]
        /\ state[r] # Retryable
      BY <1>1, <1>4, <2>1 DEF Fail, Transition
  <2>3. CASE to = Retryable
    <3>1. Progress' = Progress
        BY <1>1, <2>2, <2>3 DEF Progress, Inv, TypeOK
    <3> QED BY <3>1
  <2>4. CASE to = Failed
    <3>1. Progress' = [Progress EXCEPT ![r] = Failed]
        BY <1>1, <2>2, <2>4 DEF Progress, Inv, TypeOK, Failed, Retryable
    <3>2. Lifecycle!GiveUp(r)
        BY <1>2, <3>1 DEF Lifecycle!GiveUp, Failed
    <3> QED BY <3>2, <1>1 DEF Lifecycle!Next
  <2> QED BY <2>1, <2>3, <2>4
<1>5. CASE ResumeRetry(p)
  <2>1. /\ state' = [state EXCEPT ![r] = retryFrom[r]] /\ retryFrom' = retryFrom
        /\ state[r] = Retryable
      BY <1>5 DEF ResumeRetry, Transition
  <2>2. retryFrom[r] # Retryable
      BY <1>1, <2>1, StagesType DEF Inv, RetryPointIsAStage
  <2>3. Progress' = Progress
      BY <1>1, <2>1, <2>2 DEF Progress, Inv, TypeOK
  <2> QED BY <2>3
<1> QED BY <1>3, <1>4, <1>5

LEMMA NextRefines ==
    ASSUME Inv, [Next]_vars
    PROVE  Lifecycle!Next \/ Progress' = Progress
<1>1. ASSUME NEW r \in Runs, Create(r) PROVE Lifecycle!Next
  <2>1. Progress' = [Progress EXCEPT ![r] = Created]
      BY <1>1, Distinct DEF Create, Progress, Inv, TypeOK
  <2>2. Progress[r] = Absent
      BY <1>1, ProgressFacts DEF Create, Exists
  <2>3. ASSUME StudentOf[r] # NULL, NEW q \in Runs, Lifecycle!Open(q)
        PROVE  StudentOf[q] # StudentOf[r]
    <3>1. SUFFICES ASSUME StudentOf[q] = StudentOf[r] PROVE FALSE
        OBVIOUS
    <3>2. q \in active
        BY <2>3, <3>1, ProgressFacts DEF Inv, OneActiveRunPerStudent
    <3> QED BY <2>3, <3>1, <3>2, <1>1 DEF Create
  <2>4. Lifecycle!Begin(r)
      BY <2>1, <2>2, <2>3 DEF Lifecycle!Begin, Created, Absent
  <2> QED BY <2>4 DEF Lifecycle!Next
<1>2. ASSUME state' = state, retryFrom' = retryFrom PROVE Progress' = Progress
    BY <1>2 DEF Progress
<1>3. ASSUME NEW r \in Runs, Pause(r) \/ Resume(r) PROVE Progress' = Progress
    BY <1>2, <1>3 DEF Pause, Resume, SetPaused
<1>4. ASSUME NEW p \in Procs, Survey(p) \/ Poll(p) \/ Raise(p) \/ Die(p) \/ Crash(p) \/ Restart(p)
      PROVE  Progress' = Progress
    BY <1>2, <1>4 DEF Survey, Poll, Raise, Die, Crash, Restart, rowVars
<1>5. ASSUME CorpusChanges \/ Tick \/ UNCHANGED vars PROVE Progress' = Progress
    BY <1>2, <1>5 DEF CorpusChanges, Tick, vars, rowVars
<1> QED BY <1>1, <1>3, <1>4, <1>5, TransitionRefines DEF Next, Work

\* The run table implements the lifecycle its callers rely on.
THEOREM Implementation == Spec => ImplementsLifecycle
<1>1. Inv /\ [Next]_vars => [Lifecycle!Next]_Progress
    BY NextRefines
<1> QED BY <1>1, InitRefines, Invariance, PTL DEF Spec, ImplementsLifecycle, Lifecycle!Spec
=============================================================================
