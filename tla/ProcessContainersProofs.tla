----------------------- MODULE ProcessContainersProofs -----------------------
(***************************************************************************)
(* Proofs about ProcessContainers, for any executors: its receipts tell    *)
(* the truth, and it implements EffectLifecycle.  Inv is inductive.        *)
(***************************************************************************)
EXTENDS ProcessContainers, FiniteSetTheorems, TLAPS

Places == {"idle", "failing", "reporting", "accounting", "settled", "gone"}
          \union Running \union CleaningUp

Execution ==
    [at : Places, captured : SUBSET Captures, attempted : BOOLEAN, started : BOOLEAN,
     terminated : BOOLEAN, removed : BOOLEAN, complete : BOOLEAN, cancelled : BOOLEAN]

Machine == [state : {"absent", "created", "running", "exited", "removed"},
            asked : {"none", "create", "start"}, ran : BOOLEAN]

Receipt == [status : {"none", "terminated", "not_started", "unknown"},
            complete : BOOLEAN, captures : SUBSET Captures]

Typed ==
    /\ ContainerTypeOK
    /\ reports \in [Executors -> Receipt]
    /\ machines \in [Executors -> Machine]
    /\ execs \in [Executors -> Execution]

\* The head of one intent at most; who has none has done nothing.
OneIntent ==
    /\ \A x, y \in Executors : heads[x] # "none" /\ heads[y] # "none" => x = y
    /\ \A x \in Executors : heads[x] = "none" => execs[x].at = "idle"
    /\ reservation = "released" => \A x \in Executors : heads[x] = "none"

\* What an execution remembers of its container, however far it came, is what
\* became of it: nothing was asked that was not attempted, nothing ran that
\* was not started, and what is gone stays gone.
Remembers(x) ==
    LET e == execs[x]  m == machines[x] IN
    /\ e.at \in {"idle", "opening", "runtime", "creating"} => ~e.attempted
    /\ e.at \in {"awaiting", "created", "starting", "launching", "attached"} => e.attempted
    /\ e.at = "idle" => ~e.started /\ ~e.terminated /\ ~e.removed
    /\ ~e.attempted => m.state = "absent" /\ m.asked = "none"
    /\ m.asked = "create" => m.state = "absent"
    /\ m.asked = "start" \/ m.ran => e.started
    /\ m.state \in {"absent", "created"} => ~m.ran
    /\ m.state \in {"running", "exited"} => m.ran
    /\ e.removed => m.state = "removed"
    /\ e.terminated => m.ran /\ m.state \in {"exited", "removed"}

\* The start is paid for before it is asked for, and charged after it.
Paid(x) ==
    /\ execs[x].at = "launching" \/ execs[x].started => reservation \in {"started", "settled"}
    /\ execs[x].at \in {"accounting", "settled"} => machines[x].ran

Told(x) ==
    /\ reports[x].status = "terminated" => machines[x].ran /\ machines[x].state = "removed"
    /\ reports[x].status = "not_started" => ~machines[x].ran /\ machines[x].state = "removed"

MemoryIsTrue == \A x \in Executors : Remembers(x)

PaidInOrder ==
    /\ \A x \in Executors : Paid(x)
    /\ reservation = "settled" => \E x \in Executors : machines[x].ran

Inv == Typed /\ OneIntent /\ MemoryIsTrue /\ PaidInOrder /\ \A x \in Executors : Told(x)

-----------------------------------------------------------------------------
(* What the updates of several fields make of the records.                 *)

LEMMA AuditFacts ==
    ASSUME Typed, NEW x \in Executors, Audit(x)
    PROVE  /\ execs' \in [Executors -> Execution]
           /\ \A y \in Executors \ {x} : execs'[y] = execs[y]
           /\ execs'[x].at \in {"creating", "starting", "removing", "reporting"}
           /\ execs'[x].at = "creating" => execs[x].at = "runtime"
           /\ execs'[x].attempted = execs[x].attempted /\ execs'[x].started = execs[x].started
           /\ execs'[x].terminated = execs[x].terminated /\ execs'[x].removed = execs[x].removed
<1> DEFINE kind == execs[x].at
           at == CASE kind = "runtime"  -> "creating"
                   [] kind = "created"  -> "starting"
                   [] kind = "terminal" -> "removing"
                   [] kind = "cleanup"  -> "reporting"
           f == [execs EXCEPT ![x].captured = @ \union {kind}]
           g == [f EXCEPT ![x].at = at]
<1>1. execs' = g
    BY Zenon DEF Audit
<1>2. kind \in Captures
    BY DEF Audit
<1>3. /\ at \in {"creating", "starting", "removing", "reporting"}
      /\ at = "creating" => kind = "runtime"
    BY <1>2 DEF Captures
<1>4. at \in Places
    BY <1>3 DEF Places, Running, CleaningUp
<1>5. /\ f \in [Executors -> Execution]
      /\ \A y \in Executors \ {x} : f[y] = execs[y]
      /\ f[x].attempted = execs[x].attempted /\ f[x].started = execs[x].started
      /\ f[x].terminated = execs[x].terminated /\ f[x].removed = execs[x].removed
    BY <1>2 DEF Typed, Execution
<1> HIDE DEF f, at
<1>6. /\ g \in [Executors -> Execution]
      /\ \A y \in Executors \ {x} : g[y] = f[y]
      /\ g[x].at = at
      /\ g[x].attempted = f[x].attempted /\ g[x].started = f[x].started
      /\ g[x].terminated = f[x].terminated /\ g[x].removed = f[x].removed
    BY <1>4, <1>5 DEF Execution
<1> QED BY <1>1, <1>3, <1>5, <1>6

\* A step that also notes one thing.
LEMMA CreateFacts ==
    ASSUME Typed, NEW x \in Executors, Create(x)
    PROVE  /\ execs' \in [Executors -> Execution]
           /\ \A y \in Executors \ {x} : execs'[y] = execs[y]
           /\ execs'[x].at = "awaiting" /\ execs'[x].attempted
           /\ execs'[x].started = execs[x].started
           /\ execs'[x].terminated = execs[x].terminated /\ execs'[x].removed = execs[x].removed
<1> DEFINE f == [execs EXCEPT ![x].at = "awaiting"]
           g == [f EXCEPT ![x].attempted = TRUE]
<1>1. execs' = g
    BY Zenon DEF Create
<1>2. /\ f \in [Executors -> Execution]
      /\ \A y \in Executors \ {x} : f[y] = execs[y]
      /\ f[x].at = "awaiting" /\ f[x].started = execs[x].started
      /\ f[x].terminated = execs[x].terminated /\ f[x].removed = execs[x].removed
    BY DEF Typed, Execution, Places, Running
<1> HIDE DEF f
<1>3. /\ g \in [Executors -> Execution]
      /\ \A y \in Executors \ {x} : g[y] = f[y]
      /\ g[x].at = f[x].at /\ g[x].attempted /\ g[x].started = f[x].started
      /\ g[x].terminated = f[x].terminated /\ g[x].removed = f[x].removed
    BY <1>2 DEF Execution
<1> QED BY <1>1, <1>2, <1>3

LEMMA LaunchFacts ==
    ASSUME Typed, NEW x \in Executors, Launch(x)
    PROVE  /\ execs' \in [Executors -> Execution]
           /\ \A y \in Executors \ {x} : execs'[y] = execs[y]
           /\ execs'[x].at = "attached" /\ execs'[x].started
           /\ execs'[x].attempted = execs[x].attempted
           /\ execs'[x].terminated = execs[x].terminated /\ execs'[x].removed = execs[x].removed
<1> DEFINE f == [execs EXCEPT ![x].at = "attached"]
           g == [f EXCEPT ![x].started = TRUE]
<1>1. execs' = g
    BY Zenon DEF Launch
<1>2. /\ f \in [Executors -> Execution]
      /\ \A y \in Executors \ {x} : f[y] = execs[y]
      /\ f[x].at = "attached" /\ f[x].attempted = execs[x].attempted
      /\ f[x].terminated = execs[x].terminated /\ f[x].removed = execs[x].removed
    BY DEF Typed, Execution, Places, Running
<1> HIDE DEF f
<1>3. /\ g \in [Executors -> Execution]
      /\ \A y \in Executors \ {x} : g[y] = f[y]
      /\ g[x].at = f[x].at /\ g[x].started /\ g[x].attempted = f[x].attempted
      /\ g[x].terminated = f[x].terminated /\ g[x].removed = f[x].removed
    BY <1>2 DEF Execution
<1> QED BY <1>1, <1>2, <1>3

LEMMA BreakOffFacts ==
    ASSUME Typed, NEW x \in Executors, NEW cancelled \in BOOLEAN, NEW whole \in BOOLEAN,
           NEW kept \in BOOLEAN, BreakOff(x, cancelled, whole, kept)
    PROVE  /\ execs' \in [Executors -> Execution]
           /\ \A y \in Executors \ {x} : execs'[y] = execs[y]
           /\ execs'[x].at = "cleaning"
           /\ execs'[x].attempted = execs[x].attempted /\ execs'[x].started = execs[x].started
           /\ execs'[x].terminated = execs[x].terminated /\ execs'[x].removed = execs[x].removed
<1> DEFINE f == [execs EXCEPT ![x].at = "cleaning"]
           g == [f EXCEPT ![x].cancelled = cancelled]
           h == [g EXCEPT ![x].complete = whole]
<1>1. execs' = h
    BY Zenon DEF BreakOff
<1>2. /\ f \in [Executors -> Execution]
      /\ \A y \in Executors \ {x} : f[y] = execs[y]
      /\ f[x].at = "cleaning"
      /\ f[x].attempted = execs[x].attempted /\ f[x].started = execs[x].started
      /\ f[x].terminated = execs[x].terminated /\ f[x].removed = execs[x].removed
    BY DEF Typed, Execution, Places, CleaningUp
<1> HIDE DEF f
<1>3. /\ g \in [Executors -> Execution]
      /\ \A y \in Executors \ {x} : g[y] = f[y]
      /\ g[x].at = f[x].at
      /\ g[x].attempted = f[x].attempted /\ g[x].started = f[x].started
      /\ g[x].terminated = f[x].terminated /\ g[x].removed = f[x].removed
    BY <1>2 DEF Execution
<1> HIDE DEF g
<1>4. /\ h \in [Executors -> Execution]
      /\ \A y \in Executors \ {x} : h[y] = g[y]
      /\ h[x].at = g[x].at
      /\ h[x].attempted = g[x].attempted /\ h[x].started = g[x].started
      /\ h[x].terminated = g[x].terminated /\ h[x].removed = g[x].removed
    BY <1>3 DEF Execution
<1> QED BY <1>1, <1>2, <1>3, <1>4

LEMMA InspectEndFacts ==
    ASSUME Typed, NEW x \in Executors, InspectEnd(x)
    PROVE  /\ execs' \in [Executors -> Execution]
           /\ \A y \in Executors \ {x} : execs'[y] = execs[y]
           /\ execs'[x].at = "terminal"
           /\ execs'[x].attempted = execs[x].attempted /\ execs'[x].started = execs[x].started
           /\ execs'[x].terminated <=> machines[x].state = "exited"
           /\ execs'[x].removed = execs[x].removed
<1> DEFINE ended == machines[x].state = "exited"
           f == [execs EXCEPT ![x].at = "terminal"]
           g == [f EXCEPT ![x].terminated = ended]
<1>1. execs' = g
    BY Zenon DEF InspectEnd
<1>2. /\ f \in [Executors -> Execution]
      /\ \A y \in Executors \ {x} : f[y] = execs[y]
      /\ f[x].at = "terminal" /\ f[x].attempted = execs[x].attempted
      /\ f[x].started = execs[x].started /\ f[x].removed = execs[x].removed
    BY DEF Typed, Execution, Places, CleaningUp
<1>3. ended \in BOOLEAN
    OBVIOUS
<1> HIDE DEF f, ended
<1>4. /\ g \in [Executors -> Execution]
      /\ \A y \in Executors \ {x} : g[y] = f[y]
      /\ g[x].at = f[x].at /\ g[x].attempted = f[x].attempted
      /\ g[x].started = f[x].started /\ g[x].removed = f[x].removed
      /\ g[x].terminated <=> ended
    BY <1>2, <1>3 DEF Execution
<1> QED BY <1>1, <1>2, <1>4 DEF ended

LEMMA RemoveFacts ==
    ASSUME Typed, NEW x \in Executors, Remove(x)
    PROVE  /\ execs' \in [Executors -> Execution]
           /\ \A y \in Executors \ {x} : execs'[y] = execs[y]
           /\ execs'[x].at = "cleanup"
           /\ execs'[x].attempted = execs[x].attempted /\ execs'[x].started = execs[x].started
           /\ execs'[x].terminated = execs[x].terminated
<1> DEFINE f == [execs EXCEPT ![x].at = "cleanup"]
           g == [f EXCEPT ![x].removed = TRUE]
<1>1. execs' = g
    BY Zenon DEF Remove
<1>2. /\ f \in [Executors -> Execution]
      /\ \A y \in Executors \ {x} : f[y] = execs[y]
      /\ f[x].at = "cleanup" /\ f[x].attempted = execs[x].attempted
      /\ f[x].started = execs[x].started /\ f[x].terminated = execs[x].terminated
    BY DEF Typed, Execution, Places, CleaningUp, Captures
<1> HIDE DEF f
<1>3. /\ g \in [Executors -> Execution]
      /\ \A y \in Executors \ {x} : g[y] = f[y]
      /\ g[x].at = f[x].at /\ g[x].attempted = f[x].attempted
      /\ g[x].started = f[x].started /\ g[x].terminated = f[x].terminated
    BY <1>2 DEF Execution
<1> QED BY <1>1, <1>2, <1>3

LEMMA GiveUpFacts ==
    ASSUME Typed, NEW x \in Executors, NEW done \in BOOLEAN, GiveUpCleaning(x, done)
    PROVE  /\ execs' \in [Executors -> Execution]
           /\ \A y \in Executors \ {x} : execs'[y] = execs[y]
           /\ execs'[x].at \in {"removing", "reporting"}
           /\ execs'[x].attempted = execs[x].attempted /\ execs'[x].started = execs[x].started
           /\ execs'[x].terminated = execs[x].terminated /\ execs'[x].removed = execs[x].removed
<1> DEFINE to == IF execs[x].at = "terminal" THEN "removing" ELSE "reporting"
           f == [execs EXCEPT ![x].complete = FALSE]
           g == [f EXCEPT ![x].at = to]
<1>1. /\ f \in [Executors -> Execution]
      /\ \A y \in Executors \ {x} : f[y] = execs[y]
      /\ f[x].at = execs[x].at
      /\ f[x].attempted = execs[x].attempted /\ f[x].started = execs[x].started
      /\ f[x].terminated = execs[x].terminated /\ f[x].removed = execs[x].removed
    BY DEF Typed, Execution
<1>2. execs' = [f EXCEPT ![x].at = IF @ = "terminal" THEN "removing" ELSE "reporting"]
    BY Zenon DEF GiveUpCleaning
<1>3. execs' = g
    BY <1>1, <1>2, Zenon
<1>4. to \in {"removing", "reporting"} /\ to \in Places
    BY DEF Places, CleaningUp
<1> HIDE DEF f, to
<1>5. /\ g \in [Executors -> Execution]
      /\ \A y \in Executors \ {x} : g[y] = f[y]
      /\ g[x].at = to
      /\ g[x].attempted = f[x].attempted /\ g[x].started = f[x].started
      /\ g[x].terminated = f[x].terminated /\ g[x].removed = f[x].removed
    BY <1>1, <1>4 DEF Execution
<1> QED BY <1>1, <1>3, <1>4, <1>5

LEMMA StepFacts ==
    ASSUME Typed, NEW x \in Executors, NEW at \in Places, Step(x, at)
    PROVE  /\ execs' \in [Executors -> Execution]
           /\ \A y \in Executors \ {x} : execs'[y] = execs[y]
           /\ execs'[x].at = at
           /\ execs'[x].attempted = execs[x].attempted /\ execs'[x].started = execs[x].started
           /\ execs'[x].terminated = execs[x].terminated /\ execs'[x].removed = execs[x].removed
BY DEF Step, Typed, Execution

\* The container's record, when two of its fields are written, or one perhaps.
LEMMA DockerCreatesFacts ==
    ASSUME Typed, NEW x \in Executors, DockerCreates(x)
    PROVE  /\ machines' \in [Executors -> Machine]
           /\ \A y \in Executors \ {x} : machines'[y] = machines[y]
           /\ machines'[x].state = "created" /\ machines'[x].asked = "none"
           /\ machines'[x].ran = machines[x].ran
<1> DEFINE f == [machines EXCEPT ![x].state = "created"]
           g == [f EXCEPT ![x].asked = "none"]
<1>1. machines' = g
    BY Zenon DEF DockerCreates
<1>2. /\ f \in [Executors -> Machine]
      /\ \A y \in Executors \ {x} : f[y] = machines[y]
      /\ f[x].state = "created" /\ f[x].ran = machines[x].ran
    BY DEF Typed, Machine
<1> HIDE DEF f
<1>3. /\ g \in [Executors -> Machine]
      /\ \A y \in Executors \ {x} : g[y] = f[y]
      /\ g[x].state = f[x].state /\ g[x].asked = "none" /\ g[x].ran = f[x].ran
    BY <1>2 DEF Machine
<1> QED BY <1>1, <1>2, <1>3

\* The container comes no further than an end or a removal.
Ends(x) ==
    \/ machines'[x].state = machines[x].state
    \/ machines[x].state = "running" /\ machines'[x].state = "exited"
    \/ machines[x].state \in {"created", "exited"} /\ machines'[x].state = "removed"

LEMMA DoneUnseenFacts ==
    ASSUME Typed, NEW x \in Executors, NEW done \in BOOLEAN, DoneUnseen(x, done)
    PROVE  /\ machines' \in [Executors -> Machine]
           /\ captures' \in [Executors -> SUBSET Captures]
           /\ \A y \in Executors \ {x} : machines'[y] = machines[y]
           /\ machines'[x].asked = machines[x].asked /\ machines'[x].ran = machines[x].ran
           /\ Ends(x)
<1> DEFINE old == machines[x].state
           now == IF done /\ execs[x].at = "killing" /\ old = "running" THEN "exited"
                  ELSE IF done /\ execs[x].at = "removing" /\ old \in {"created", "exited"}
                       THEN "removed" ELSE old
           more == IF done /\ execs[x].at \in Captures THEN captures[x] \union {execs[x].at}
                   ELSE captures[x]
<1>1. machines' = [machines EXCEPT ![x].state = now]
    BY DEF DoneUnseen
<1>2. captures' = [captures EXCEPT ![x] = more]
    BY DEF DoneUnseen
<1>3. captures' \in [Executors -> SUBSET Captures]
    BY <1>2 DEF Typed, ContainerTypeOK
<1>4. /\ now \in {"absent", "created", "running", "exited", "removed"}
      /\ \/ now = old
         \/ old = "running" /\ now = "exited"
         \/ old \in {"created", "exited"} /\ now = "removed"
    BY DEF Typed, Machine
<1> HIDE DEF now
<1>5. /\ machines' \in [Executors -> Machine]
      /\ \A y \in Executors \ {x} : machines'[y] = machines[y]
      /\ machines'[x].state = now
      /\ machines'[x].asked = machines[x].asked /\ machines'[x].ran = machines[x].ran
    BY <1>1, <1>4 DEF Typed, Machine
<1> QED BY <1>3, <1>4, <1>5 DEF Ends

\* The rollout's row.
LEMMA FreedForFacts ==
    ASSUME Typed, NEW status \in {"active", "ready", "review_required", "failed", "cancelled"}
    PROVE  FreedFor(status) \in
               [status : {"active", "ready", "review_required", "failed", "cancelled"},
                held : BOOLEAN, live : BOOLEAN, committed : BOOLEAN]
BY DEF Typed, ContainerTypeOK, FreedFor

-----------------------------------------------------------------------------
(* The inductive invariant.                                                *)

LEMMA InitInv == ContainerInit => Inv
BY DEF ContainerInit, Inv, Typed, ContainerTypeOK, Execution, Machine, Receipt, Places,
       OneIntent, MemoryIsTrue, Remembers, PaidInOrder, Paid, Told, IdleExecutor, NoReport,
       Captures

Others(x) ==
    \A y \in Executors \ {x} :
        /\ execs'[y] = execs[y] /\ machines'[y] = machines[y]
        /\ heads'[y] = heads[y] /\ reports'[y] = reports[y]

\* What the ledger may do while one executor steps.
Ledger(x) ==
    \/ reservation' = reservation
    \/ reservation \in {"reserved", "started"} /\ reservation' = "started"
    \/ reservation \in {"started", "settled"} /\ reservation' = "settled" /\ machines'[x].ran

\* A step of an executor with an intent, or of its container, keeps the
\* invariant if it keeps what the invariant says of that executor.
LEMMA OneExecutorSteps ==
    ASSUME Inv, Typed', NEW x \in Executors, Others(x), Ledger(x),
           heads[x] # "none", heads'[x] # "none",
           machines[x].ran => machines'[x].ran,
           Remembers(x)', Paid(x)', Told(x)'
    PROVE  Inv'
<1>1. OneIntent'
    BY DEF Inv, OneIntent, Others, Ledger
<1>2. MemoryIsTrue'
    BY DEF Inv, MemoryIsTrue, Remembers, Others
<1>3. \A y \in Executors : Paid(y)'
    BY DEF Inv, PaidInOrder, Paid, Others, Ledger
<1>4. (reservation = "settled" => \E y \in Executors : machines[y].ran)'
    BY DEF Inv, PaidInOrder, Others, Ledger
<1>5. \A y \in Executors : Told(y)'
    BY DEF Inv, Told, Others
<1> QED BY <1>1, <1>2, <1>3, <1>4, <1>5 DEF Inv, PaidInOrder

\* Who is past its intent has one, and has made it for good.
LEMMA AtWorkHasIntent ==
    ASSUME Inv, NEW x \in Executors, execs[x].at # "idle"
    PROVE  heads[x] # "none" /\ reservation # "released"
BY DEF Inv, OneIntent

\* A step to another place, with nothing else noted of the container.
LEMMA Moves ==
    ASSUME Inv, Typed', NEW x \in Executors, execs[x].at # "idle", heads'[x] # "none",
           \A y \in Executors \ {x} : execs'[y] = execs[y] /\ heads'[y] = heads[y],
           machines' = machines, reports' = reports,
           execs'[x].at \notin {"idle", "opening"},
           execs'[x].at \in {"runtime", "creating"} => execs[x].at \in {"opening", "runtime"},
           execs'[x].at \in {"awaiting", "created", "starting", "launching", "attached"} =>
               execs[x].at \in {"awaiting", "created", "starting", "launching"},
           execs'[x].at = "launching" => reservation' = "started",
           execs'[x].at \in {"accounting", "settled"} => execs[x].at = "accounting",
           execs'[x].attempted = execs[x].attempted, execs'[x].started = execs[x].started,
           execs'[x].terminated = execs[x].terminated, execs'[x].removed = execs[x].removed,
           Ledger(x)
    PROVE  Inv'
<1>1. Remembers(x)'
    BY DEF Inv, MemoryIsTrue, Remembers
<1>2. Paid(x)'
    BY DEF Inv, PaidInOrder, Paid, Ledger
<1>3. Told(x)'
    BY DEF Inv, Told
<1>4. heads[x] # "none"
    BY AtWorkHasIntent
<1>5. Others(x)
    BY DEF Others
<1> QED BY <1>1, <1>2, <1>3, <1>4, <1>5, OneExecutorSteps

\* The steps of _execute up to its receipt, and after it.
LEMMA ExecutorKeepsInv ==
    ASSUME Inv, NEW x \in Executors,
           \/ Open(x) \/ Audit(x) \/ InspectCreated(x) \/ BeforeStart(x)
           \/ \E cancelled, whole, kept \in BOOLEAN : BreakOff(x, cancelled, whole, kept)
           \/ LookForContainer(x) \/ Account(x)
           \/ CommitAction(x) \/ ReleaseFailedAction(x) \/ Lose(x)
    PROVE  Inv'
<1> USE DEF Inv
<1>1. CASE Open(x)
  <2>1. execs[x].at = "opening" /\ Step(x, "runtime")
      BY <1>1 DEF Open
  <2>2. "runtime" \in Places
      BY DEF Places, Running
  <2>3. Typed'
      BY <1>1, <2>1, <2>2, StepFacts DEF Open, Typed, ContainerTypeOK
  <2> QED BY <1>1, <2>1, <2>2, <2>3, StepFacts, Moves, AtWorkHasIntent DEF Open, Ledger
<1>2. CASE Audit(x)
  <2>1. execs[x].at \in Captures
      BY <1>2 DEF Audit
  <2>2. captures' \in [Executors -> SUBSET Captures]
      BY <1>2, <2>1 DEF Audit, Typed, ContainerTypeOK
  <2>3. Typed'
      BY <1>2, <2>2, AuditFacts DEF Audit, Typed, ContainerTypeOK
  <2>4. execs'[x].at = "starting" => execs[x].at = "created"
      BY <1>2, <2>1 DEF Audit, Captures, Typed, Execution
  <2> QED BY <1>2, <2>1, <2>3, <2>4, AuditFacts, Moves, AtWorkHasIntent
          DEF Audit, Ledger, Captures
<1>3. CASE InspectCreated(x)
  <2>1. execs[x].at = "awaiting" /\ Step(x, "created")
      BY <1>3 DEF InspectCreated
  <2>2. "created" \in Places
      BY DEF Places, Running
  <2>3. Typed'
      BY <1>3, <2>1, <2>2, StepFacts DEF InspectCreated, Typed, ContainerTypeOK
  <2> QED BY <1>3, <2>1, <2>2, <2>3, StepFacts, Moves, AtWorkHasIntent
          DEF InspectCreated, Ledger
<1>4. CASE BeforeStart(x)
  <2>1. /\ execs[x].at = "starting" /\ Step(x, "launching")
        /\ reservation \in {"reserved", "started"} /\ reservation' = "started"
      BY <1>4 DEF BeforeStart, Expected
  <2>2. "launching" \in Places
      BY DEF Places, Running
  <2>3. Typed' /\ heads'[x] = "starting" /\ \A y \in Executors \ {x} : heads'[y] = heads[y]
      BY <1>4, <2>1, <2>2, StepFacts DEF BeforeStart, Typed, ContainerTypeOK
  <2> QED BY <1>4, <2>1, <2>2, <2>3, StepFacts, Moves DEF BeforeStart, Ledger
<1>5. ASSUME NEW cancelled \in BOOLEAN, NEW whole \in BOOLEAN, NEW kept \in BOOLEAN,
             BreakOff(x, cancelled, whole, kept)
      PROVE  Inv'
  <2>1. execs[x].at \in Running
      BY <1>5 DEF BreakOff
  <2>2. captures' \in [Executors -> SUBSET Captures]
    <3> DEFINE more == IF kept THEN captures[x] \union {execs[x].at} ELSE captures[x]
    <3>1. more \subseteq Captures
        BY <1>5 DEF BreakOff, Typed, ContainerTypeOK
    <3>2. captures' = [captures EXCEPT ![x] = more]
        BY <1>5 DEF BreakOff
    <3> QED BY <3>1, <3>2 DEF Typed, ContainerTypeOK
  <2>3. execs' \in [Executors -> Execution]
      BY <1>5, BreakOffFacts
  <2>4. UNCHANGED <<amber, rollout, reservation, heads, reports, machines>>
      BY <1>5 DEF BreakOff
  <2>5. Typed'
      BY <2>2, <2>3, <2>4 DEF Typed, ContainerTypeOK
  <2> QED BY <1>5, <2>1, <2>4, <2>5, BreakOffFacts, Moves, AtWorkHasIntent DEF Ledger, Running
<1>6. CASE LookForContainer(x)
  <2>1. PICK at \in {"reporting", "killing", "killed"} : Step(x, at)
      BY <1>6 DEF LookForContainer
  <2>2. at \in Places /\ execs[x].at = "cleaning"
      BY <1>6 DEF LookForContainer, Places, CleaningUp
  <2>3. Typed'
      BY <1>6, <2>1, <2>2, StepFacts DEF LookForContainer, Typed, ContainerTypeOK
  <2> QED BY <1>6, <2>1, <2>2, <2>3, StepFacts, Moves, AtWorkHasIntent
          DEF LookForContainer, Ledger
<1>7. CASE Account(x)
  <2>1. PICK at \in {"failing", "settled"} : Step(x, at)
      BY <1>7 DEF Account
  <2>2. at \in Places /\ execs[x].at = "accounting"
      BY <1>7 DEF Account, Places
  <2>3. machines[x].ran /\ reservation \in {"started", "settled"}
      BY <2>2 DEF PaidInOrder, Paid, MemoryIsTrue, Remembers
  <2>4. reservation' = "settled" /\ Ledger(x)
      BY <1>7, <2>3 DEF Account, Settled, Ledger
  <2>5. Typed'
      BY <1>7, <2>1, <2>2, <2>4, StepFacts DEF Account, Typed, ContainerTypeOK
  <2> QED BY <1>7, <2>1, <2>2, <2>4, <2>5, StepFacts, Moves, AtWorkHasIntent DEF Account
<1>8. CASE CommitAction(x) \/ ReleaseFailedAction(x) \/ Lose(x)
  <2>1. Step(x, "gone") /\ execs[x].at # "idle"
      BY <1>8 DEF CommitAction, ReleaseFailedAction, Lose
  <2>2. "gone" \in Places
      BY DEF Places
  <2>3. rollout' \in [status : {"active", "ready", "review_required", "failed", "cancelled"},
                      held : BOOLEAN, live : BOOLEAN, committed : BOOLEAN]
    <3>1. CASE CommitAction(x)
      <4> DEFINE freed == FreedFor("active")
      <4>1. freed \in [status : {"active", "ready", "review_required", "failed", "cancelled"},
                       held : BOOLEAN, live : BOOLEAN, committed : BOOLEAN]
          BY FreedForFacts
      <4>2. rollout' = [freed EXCEPT !.committed = TRUE]
          BY <3>1 DEF CommitAction
      <4> HIDE DEF freed
      <4> QED BY <4>1, <4>2
    <3>2. CASE ReleaseFailedAction(x)
        BY <3>2, FreedForFacts DEF ReleaseFailedAction, Typed, ContainerTypeOK
    <3>3. CASE Lose(x)
        BY <3>3 DEF Lose, Typed, ContainerTypeOK
    <3> QED BY <1>8, <3>1, <3>2, <3>3
  <2>4. Typed'
      BY <1>8, <2>1, <2>2, <2>3, StepFacts
         DEF CommitAction, ReleaseFailedAction, Lose, Typed, ContainerTypeOK
  <2>5. /\ heads' = heads /\ machines' = machines /\ reports' = reports
        /\ reservation' = reservation
      BY <1>8 DEF CommitAction, ReleaseFailedAction, Lose
  <2> QED BY <2>1, <2>2, <2>4, <2>5, StepFacts, Moves, AtWorkHasIntent DEF Ledger
<1> QED BY <1>1, <1>2, <1>3, <1>4, <1>5, <1>6, <1>7, <1>8

\* The steps that ask something of the daemon, and the cleaning up.
LEMMA CommandKeepsInv ==
    ASSUME Inv, NEW x \in Executors,
           \/ Create(x) \/ Launch(x) \/ Kill(x) \/ InspectEnd(x) \/ Remove(x)
           \/ \E done \in BOOLEAN : GiveUpCleaning(x, done) \/ CancelCleaning(x, done)
           \/ Report(x)
    PROVE  Inv'
<1> USE DEF Inv
<1>1. CASE Create(x)
  <2>1. /\ execs[x].at = "creating" /\ machines' = [machines EXCEPT ![x].asked = "create"]
        /\ UNCHANGED <<amber, rollout, reservation, heads, captures, reports>>
      BY <1>1 DEF Create
  <2>2. /\ machines' \in [Executors -> Machine]
        /\ \A y \in Executors \ {x} : machines'[y] = machines[y]
        /\ machines'[x].state = machines[x].state /\ machines'[x].asked = "create"
        /\ machines'[x].ran = machines[x].ran
      BY <2>1 DEF Typed, Machine
  <2>3. Typed' /\ Others(x) /\ Ledger(x)
      BY <1>1, <2>1, <2>2, CreateFacts DEF Typed, ContainerTypeOK, Others, Ledger
  <2>4. Remembers(x)'
      BY <1>1, <2>1, <2>2, CreateFacts DEF MemoryIsTrue, Remembers
  <2>5. Paid(x)' /\ Told(x)'
      BY <1>1, <2>1, <2>2, CreateFacts DEF PaidInOrder, Paid, Told
  <2> QED BY <2>1, <2>2, <2>3, <2>4, <2>5, AtWorkHasIntent, OneExecutorSteps
<1>2. CASE Launch(x)
  <2>1. /\ execs[x].at = "launching" /\ machines' = [machines EXCEPT ![x].asked = "start"]
        /\ UNCHANGED <<amber, rollout, reservation, heads, captures, reports>>
      BY <1>2 DEF Launch
  <2>2. /\ machines' \in [Executors -> Machine]
        /\ \A y \in Executors \ {x} : machines'[y] = machines[y]
        /\ machines'[x].state = machines[x].state /\ machines'[x].asked = "start"
        /\ machines'[x].ran = machines[x].ran
      BY <2>1 DEF Typed, Machine
  <2>3. Typed' /\ Others(x) /\ Ledger(x)
      BY <1>2, <2>1, <2>2, LaunchFacts DEF Typed, ContainerTypeOK, Others, Ledger
  <2>4. Remembers(x)'
      BY <1>2, <2>1, <2>2, LaunchFacts DEF MemoryIsTrue, Remembers
  <2>5. Paid(x)' /\ Told(x)'
      BY <1>2, <2>1, <2>2, LaunchFacts DEF PaidInOrder, Paid, Told
  <2> QED BY <2>1, <2>2, <2>3, <2>4, <2>5, AtWorkHasIntent, OneExecutorSteps
<1>3. CASE Kill(x)
  <2>1. /\ execs[x].at = "killing" /\ machines[x].state = "running"
        /\ machines' = [machines EXCEPT ![x].state = "exited"]
        /\ Step(x, "killed") /\ "killed" \in Places
        /\ UNCHANGED <<amber, rollout, reservation, heads, captures, reports>>
      BY <1>3 DEF Kill, Places, CleaningUp
  <2>2. /\ machines' \in [Executors -> Machine]
        /\ \A y \in Executors \ {x} : machines'[y] = machines[y]
        /\ machines'[x].state = "exited" /\ machines'[x].asked = machines[x].asked
        /\ machines'[x].ran = machines[x].ran
      BY <2>1 DEF Typed, Machine
  <2>3. Typed' /\ Others(x) /\ Ledger(x)
      BY <2>1, <2>2, StepFacts DEF Typed, ContainerTypeOK, Others, Ledger
  <2>4. Remembers(x)'
      BY <2>1, <2>2, StepFacts DEF MemoryIsTrue, Remembers
  <2>5. Paid(x)' /\ Told(x)'
      BY <2>1, <2>2, StepFacts DEF PaidInOrder, Paid, Told
  <2> QED BY <2>1, <2>2, <2>3, <2>4, <2>5, AtWorkHasIntent, OneExecutorSteps
<1>4. CASE InspectEnd(x)
  <2>1. /\ execs[x].at = "killed"
        /\ UNCHANGED <<amber, rollout, reservation, heads, captures, reports, machines>>
      BY <1>4 DEF InspectEnd
  <2>2. Typed' /\ Others(x) /\ Ledger(x)
      BY <1>4, <2>1, InspectEndFacts DEF Typed, ContainerTypeOK, Others, Ledger
  <2>3. Remembers(x)'
      BY <1>4, <2>1, InspectEndFacts DEF MemoryIsTrue, Remembers
  <2>4. Paid(x)' /\ Told(x)'
      BY <1>4, <2>1, InspectEndFacts DEF PaidInOrder, Paid, Told
  <2> QED BY <2>1, <2>2, <2>3, <2>4, AtWorkHasIntent, OneExecutorSteps
<1>5. CASE Remove(x)
  <2>1. /\ execs[x].at = "removing" /\ machines[x].state \in {"created", "exited"}
        /\ machines' = [machines EXCEPT ![x].state = "removed"]
        /\ UNCHANGED <<amber, rollout, reservation, heads, captures, reports>>
      BY <1>5 DEF Remove
  <2>2. /\ machines' \in [Executors -> Machine]
        /\ \A y \in Executors \ {x} : machines'[y] = machines[y]
        /\ machines'[x].state = "removed" /\ machines'[x].asked = machines[x].asked
        /\ machines'[x].ran = machines[x].ran
      BY <2>1 DEF Typed, Machine
  <2>3. Typed' /\ Others(x) /\ Ledger(x)
      BY <1>5, <2>1, <2>2, RemoveFacts DEF Typed, ContainerTypeOK, Others, Ledger
  <2>4. Remembers(x)'
      BY <1>5, <2>1, <2>2, RemoveFacts DEF MemoryIsTrue, Remembers
  <2>5. Paid(x)' /\ Told(x)'
      BY <1>5, <2>1, <2>2, RemoveFacts DEF PaidInOrder, Paid, Told
  <2> QED BY <2>1, <2>2, <2>3, <2>4, <2>5, AtWorkHasIntent, OneExecutorSteps
<1>6. ASSUME NEW done \in BOOLEAN, GiveUpCleaning(x, done)
      PROVE  Inv'
  <2>1. /\ execs[x].at \in CleaningUp /\ DoneUnseen(x, done)
        /\ UNCHANGED <<amber, rollout, reservation, heads, reports>>
      BY <1>6 DEF GiveUpCleaning
  <2>2. Typed' /\ Others(x) /\ Ledger(x)
      BY <1>6, <2>1, GiveUpFacts, DoneUnseenFacts DEF Typed, ContainerTypeOK, Others, Ledger
  <2>3. Remembers(x)'
      BY <1>6, <2>1, GiveUpFacts, DoneUnseenFacts DEF MemoryIsTrue, Remembers, Ends
  <2>4. Paid(x)' /\ Told(x)'
      BY <1>6, <2>1, GiveUpFacts, DoneUnseenFacts DEF PaidInOrder, Paid, Told, Ends
  <2>5. execs[x].at # "idle"
      BY <2>1 DEF CleaningUp
  <2> QED BY <2>1, <2>2, <2>3, <2>4, <2>5, DoneUnseenFacts, AtWorkHasIntent, OneExecutorSteps
<1>7. ASSUME NEW done \in BOOLEAN, CancelCleaning(x, done)
      PROVE  Inv'
  <2>1. /\ execs[x].at \in CleaningUp /\ DoneUnseen(x, done)
        /\ heads' = [heads EXCEPT ![x] = "unknown"]
        /\ Step(x, "failing") /\ "failing" \in Places
        /\ UNCHANGED <<amber, rollout, reservation, reports>>
      BY <1>7 DEF CancelCleaning, Places
  <2>2. Typed' /\ Others(x) /\ Ledger(x) /\ heads'[x] # "none"
      BY <2>1, StepFacts, DoneUnseenFacts DEF Typed, ContainerTypeOK, Others, Ledger
  <2>3. Remembers(x)'
      BY <2>1, StepFacts, DoneUnseenFacts DEF MemoryIsTrue, Remembers, Ends
  <2>4. Paid(x)' /\ Told(x)'
      BY <2>1, StepFacts, DoneUnseenFacts DEF PaidInOrder, Paid, Told, Ends
  <2>5. execs[x].at # "idle"
      BY <2>1 DEF CleaningUp
  <2> QED BY <2>1, <2>2, <2>3, <2>4, <2>5, DoneUnseenFacts, AtWorkHasIntent, OneExecutorSteps
<1>8. CASE Report(x)
  <2> DEFINE status == EffectStatus(execs[x])
             receipt == [status |-> status, complete |-> execs[x].complete,
                         captures |-> execs[x].captured]
  <2>1. /\ execs[x].at = "reporting" /\ reports' = [reports EXCEPT ![x] = receipt]
        /\ UNCHANGED <<amber, rollout, reservation, captures, machines>>
      BY <1>8 DEF Report
  <2>2. receipt \in Receipt /\ receipt.status = status
      BY DEF EffectStatus, Typed, Execution, Receipt
  <2>3. /\ status = "terminated" => execs[x].terminated /\ execs[x].removed
        /\ status = "not_started" => ~execs[x].started /\ execs[x].removed
      BY DEF EffectStatus
  <2>4. PICK at \in {"accounting", "failing"} :
            Step(x, at) /\ (at = "accounting" => status = "terminated")
      BY <1>8 DEF Report
  <2>5. PICK head \in {"unknown", "finished"} : heads' = [heads EXCEPT ![x] = head]
      BY <1>8 DEF Report
  <2> HIDE DEF status, receipt
  <2>6. /\ reports' \in [Executors -> Receipt] /\ reports'[x].status = status
        /\ \A y \in Executors \ {x} : reports'[y] = reports[y]
      BY <2>1, <2>2 DEF Typed
  <2>7. at \in Places
      BY DEF Places
  <2>8. Typed' /\ Others(x) /\ Ledger(x) /\ heads'[x] # "none"
      BY <2>1, <2>4, <2>5, <2>6, <2>7, StepFacts DEF Typed, ContainerTypeOK, Others, Ledger
  <2>9. Remembers(x)'
      BY <2>1, <2>4, <2>7, StepFacts DEF MemoryIsTrue, Remembers
  <2>10. Paid(x)' /\ Told(x)'
      BY <2>1, <2>3, <2>4, <2>6, <2>7, StepFacts
         DEF PaidInOrder, Paid, Told, MemoryIsTrue, Remembers
  <2> QED BY <2>1, <2>8, <2>9, <2>10, AtWorkHasIntent, OneExecutorSteps
<1> QED BY <1>1, <1>2, <1>3, <1>4, <1>5, <1>6, <1>7, <1>8

\* What was asked of the daemon was asked by an executor at work.
LEMMA AskedIsAtWork ==
    ASSUME Inv, NEW x \in Executors,
           machines[x].asked # "none" \/ machines[x].ran \/ machines[x].state # "absent"
    PROVE  execs[x].at # "idle"
BY DEF Inv, MemoryIsTrue, Remembers

\* The daemon and the container.
LEMMA DaemonKeepsInv ==
    ASSUME Inv, NEW x \in Executors,
           DockerCreates(x) \/ ContainerStarts(x) \/ ContainerEnds(x)
    PROVE  Inv'
<1> USE DEF Inv
<1>1. /\ machines' \in [Executors -> Machine]
      /\ \A y \in Executors \ {x} : machines'[y] = machines[y]
      /\ \/ machines[x].asked = "create" /\ machines'[x].state = "created"
            /\ machines'[x].asked = "none" /\ machines'[x].ran = machines[x].ran
         \/ machines[x].asked = "start" /\ machines[x].state = "created"
            /\ machines'[x].state = "running"
            /\ machines'[x].asked = "none" /\ machines'[x].ran
         \/ machines[x].state = "running" /\ machines'[x].state = "exited"
            /\ machines'[x].asked = machines[x].asked /\ machines'[x].ran = machines[x].ran
  <2>1. CASE DockerCreates(x)
      BY <2>1, DockerCreatesFacts DEF DockerCreates
  <2>2. CASE ContainerStarts(x)
      BY <2>2 DEF ContainerStarts, Typed, Machine
  <2>3. CASE ContainerEnds(x)
      BY <2>3 DEF ContainerEnds, Typed, Machine
  <2> QED BY <2>1, <2>2, <2>3
<1>2. UNCHANGED <<amber, rollout, reservation, heads, captures, reports, execs>>
    BY DEF DockerCreates, ContainerStarts, ContainerEnds
<1>3. Typed' /\ Others(x) /\ Ledger(x)
    BY <1>1, <1>2 DEF Typed, ContainerTypeOK, Others, Ledger
<1>4. Remembers(x)'
    BY <1>1, <1>2 DEF MemoryIsTrue, Remembers
<1>5. Paid(x)' /\ Told(x)'
    BY <1>1, <1>2 DEF PaidInOrder, Paid, Told, MemoryIsTrue, Remembers
<1>6. heads[x] # "none"
    BY <1>1, AskedIsAtWork, AtWorkHasIntent
<1> QED BY <1>1, <1>2, <1>3, <1>4, <1>5, <1>6, OneExecutorSteps

\* The intent.
LEMMA IntendKeepsInv ==
    ASSUME Inv, NEW x \in Executors, IntendContainer(x)
    PROVE  Inv'
<1> USE DEF Inv
<1>1. /\ execs[x].at = "idle" /\ Step(x, "opening") /\ "opening" \in Places
      /\ reservation \in {"reserved", "started"}
      /\ \A y \in Executors : heads[y] = "none"
      /\ heads' = [heads EXCEPT ![x] = "prepared"]
      /\ UNCHANGED <<amber, rollout, reservation, captures, reports, machines>>
    BY DEF IntendContainer, Expected, Places, Running
<1>2. /\ heads'[x] = "prepared"
      /\ \A y \in Executors \ {x} : heads'[y] = "none" /\ execs'[y] = execs[y]
    BY <1>1, StepFacts DEF Typed, ContainerTypeOK
<1>3. Typed'
    BY <1>1, <1>2, StepFacts DEF Typed, ContainerTypeOK
<1>4. OneIntent'
    BY <1>1, <1>2 DEF OneIntent
<1>5. MemoryIsTrue'
    BY <1>1, <1>2, StepFacts DEF MemoryIsTrue, Remembers
<1>6. PaidInOrder' /\ \A y \in Executors : Told(y)'
    BY <1>1, <1>2, StepFacts DEF PaidInOrder, Paid, Told
<1> QED BY <1>3, <1>4, <1>5, <1>6

\* The hold is given back with nothing announced, and charged to what ran.
Resolves ==
    \/ reservation' = reservation
    \/ reservation = "reserved" /\ reservation' = "started"
    \/ reservation = "reserved" /\ ~Announced /\ reservation' = "released"
    \/ reservation = "started" /\ reservation' = "settled" /\ \E x \in Executors : machines[x].ran

\* What others do to the claim, the authority and the ledger.
LEMMA OthersResolve ==
    ASSUME Inv, \/ StartAction \/ ClaimExpires \/ MoveAuthority \/ ReleaseHold
                \/ RecoverAction \/ AbandonAction
    PROVE  Typed' /\ Resolves /\ UNCHANGED <<heads, captures, reports, machines, execs>>
<1> USE DEF Inv
<1>1. CASE StartAction
    BY <1>1 DEF StartAction, Typed, ContainerTypeOK, Resolves
<1>2. CASE ClaimExpires
    BY <1>2 DEF ClaimExpires, Typed, ContainerTypeOK, Resolves
<1>3. CASE MoveAuthority
    BY <1>3 DEF MoveAuthority, Typed, ContainerTypeOK, Resolves
<1>4. CASE ReleaseHold
    BY <1>4 DEF ReleaseHold, Typed, ContainerTypeOK, Resolves
<1>5. CASE RecoverAction
  <2>1. rollout' = FreedFor("ready") \/ rollout' = FreedFor("review_required")
      BY <1>5 DEF RecoverAction
  <2>2. Completed => \E x \in Executors : machines[x].ran
      BY DEF Completed, Told
  <2>3. (\E x \in Executors : machines[x].ran) => reservation # "reserved"
      BY DEF MemoryIsTrue, Remembers, PaidInOrder, Paid
  <2>4. Resolves
      BY <1>5, <2>2, <2>3 DEF RecoverAction, Resolves, Settled, Typed, ContainerTypeOK
  <2>5. UNCHANGED <<amber, heads, captures, reports, machines, execs>>
      BY <1>5 DEF RecoverAction
  <2> QED BY <2>1, <2>4, <2>5, FreedForFacts DEF Resolves, Typed, ContainerTypeOK
<1>6. CASE AbandonAction
    BY <1>6 DEF AbandonAction, Typed, ContainerTypeOK, Resolves
<1> QED BY <1>1, <1>2, <1>3, <1>4, <1>5, <1>6

LEMMA ResolvesKeepsInv ==
    ASSUME Inv, Typed', Resolves, UNCHANGED <<heads, captures, reports, machines, execs>>
    PROVE  Inv'
<1> USE DEF Inv
<1>1. OneIntent'
    BY DEF OneIntent, Resolves, Announced
<1>2. MemoryIsTrue' /\ \A x \in Executors : Told(x)'
    BY DEF MemoryIsTrue, Remembers, Told
<1>3. PaidInOrder'
    BY DEF PaidInOrder, Paid, Resolves
<1> QED BY <1>1, <1>2, <1>3

LEMMA NextKeepsInv == Inv /\ [ContainerNext]_containerVars => Inv'
<1> SUFFICES ASSUME Inv, [ContainerNext]_containerVars
             PROVE  Inv'
    OBVIOUS
<1>1. ASSUME NEW x \in Executors,
             \/ IntendContainer(x) \/ Open(x) \/ Audit(x) \/ Create(x) \/ InspectCreated(x)
             \/ BeforeStart(x) \/ Launch(x)
             \/ \E cancelled, whole, kept \in BOOLEAN : BreakOff(x, cancelled, whole, kept)
             \/ LookForContainer(x) \/ Kill(x) \/ InspectEnd(x) \/ Remove(x)
             \/ \E done \in BOOLEAN : GiveUpCleaning(x, done) \/ CancelCleaning(x, done)
             \/ Report(x) \/ Account(x)
             \/ CommitAction(x) \/ ReleaseFailedAction(x) \/ Lose(x)
             \/ DockerCreates(x) \/ ContainerStarts(x) \/ ContainerEnds(x)
      PROVE  Inv'
    BY Zenon, <1>1, IntendKeepsInv, ExecutorKeepsInv, CommandKeepsInv, DaemonKeepsInv
<1>2. CASE \/ StartAction \/ ClaimExpires \/ MoveAuthority \/ ReleaseHold
           \/ RecoverAction \/ AbandonAction
    BY <1>2, OthersResolve, ResolvesKeepsInv
<1>3. CASE UNCHANGED containerVars
    BY <1>3 DEF containerVars, Inv, Typed, ContainerTypeOK, OneIntent, MemoryIsTrue,
                Remembers, PaidInOrder, Paid, Told
<1> QED BY Zenon, <1>1, <1>2, <1>3 DEF ContainerNext

\* In every behaviour, for any executors: the container's intent is one, what
\* its executor remembers of it is true, and it is paid for in order.
THEOREM Invariance == ContainerSpec => []Inv
BY InitInv, NextKeepsInv, PTL DEF ContainerSpec

\* A container's receipt says what became of it for good, whatever was lost,
\* late or cancelled between the daemon, its executor and the reviewers.
THEOREM ReceiptsTrue == ContainerSpec => []ReceiptsTellTheTruth
<1>1. Inv => ReceiptsTellTheTruth
    BY DEF Inv, Told, ReceiptsTellTheTruth
<1> QED BY <1>1, Invariance, PTL

-----------------------------------------------------------------------------
(* The refinement of EffectLifecycle.                                      *)

\* The effect never shows as repeated.
LEMMA EffectOnce ==
    ASSUME Inv
    PROVE  Effect = IF Ran # {} THEN "happened" ELSE IF Announced THEN "announced" ELSE "none"
<1>1. \A x, y \in Ran : x = y
    BY DEF Ran, Inv, MemoryIsTrue, Remembers, OneIntent
<1>2. CASE Ran = {}
    BY <1>2, FS_EmptySet DEF Effect
<1>3. ASSUME NEW x \in Ran
      PROVE  Cardinality(Ran) = 1
  <2>1. Ran = {x}
      BY <1>1, <1>3
  <2> QED BY <2>1, FS_Singleton
<1> QED BY <1>2, <1>3 DEF Effect

\* What ran was announced and paid for.
LEMMA HappenedInOrder ==
    ASSUME Inv
    PROVE  /\ Ran # {} => Announced /\ reservation \in {"started", "settled"}
           /\ reservation = "settled" => Ran # {}
           /\ reservation = "released" => ~Announced
BY DEF Ran, Announced, Inv, MemoryIsTrue, Remembers, OneIntent, PaidInOrder, Paid

Progress == <<Effect, Hold>>

LEMMA InitRefines == ContainerInit => Lifecycle!Init
<1> SUFFICES ASSUME ContainerInit
             PROVE  Lifecycle!Init
    OBVIOUS
<1>1. Inv /\ ~Announced /\ Ran = {}
    BY InitInv DEF ContainerInit, Announced, Ran
<1> QED BY <1>1, EffectOnce DEF ContainerInit, Lifecycle!Init, Hold

\* Nothing of the lifecycle moves when no intent is made, nothing is started,
\* and the ledger stays.
LEMMA Stutters ==
    ASSUME Inv, Inv', Ran' = Ran, Announced' = Announced
    PROVE  Effect' = Effect
<1>1. Effect = IF Ran # {} THEN "happened" ELSE IF Announced THEN "announced" ELSE "none"
    BY EffectOnce
<1>2. (Effect = IF Ran # {} THEN "happened" ELSE IF Announced THEN "announced" ELSE "none")'
    BY EffectOnce, PTL
<1> QED BY <1>1, <1>2

\* A step that makes no intent and starts no container moves the ledger alone.
LEMMA LedgerRefines ==
    ASSUME Inv, Inv', Ran' = Ran, Announced' = Announced,
           \/ reservation' = reservation
           \/ reservation = "reserved" /\ reservation' = "started"
           \/ reservation = "reserved" /\ ~Announced /\ reservation' = "released"
           \/ reservation = "started" /\ reservation' = "settled" /\ Ran # {}
    PROVE  [Lifecycle!Next]_Progress
<1>1. Effect' = Effect
    BY Stutters
<1>2. CASE reservation' = reservation
    BY <1>1, <1>2 DEF Progress, Hold
<1>3. CASE reservation = "reserved" /\ reservation' = "started"
    BY <1>1, <1>3 DEF Lifecycle!Next, Lifecycle!CommitHold, Hold
<1>4. CASE reservation = "reserved" /\ ~Announced /\ reservation' = "released"
    BY <1>1, <1>4, EffectOnce, HappenedInOrder DEF Lifecycle!Next, Lifecycle!Return, Hold
<1>5. CASE reservation = "started" /\ reservation' = "settled" /\ Ran # {}
    BY <1>1, <1>5, EffectOnce DEF Lifecycle!Next, Lifecycle!Charge, Hold
<1> QED BY <1>2, <1>3, <1>4, <1>5

\* What an executor's steps, its intent apart, leave as it was.
LEMMA ExecutorQuiet ==
    ASSUME Inv, NEW x \in Executors,
           \/ Open(x) \/ Audit(x) \/ Create(x) \/ InspectCreated(x)
           \/ BeforeStart(x) \/ Launch(x)
           \/ \E cancelled, whole, kept \in BOOLEAN : BreakOff(x, cancelled, whole, kept)
           \/ LookForContainer(x) \/ Kill(x) \/ InspectEnd(x) \/ Remove(x)
           \/ \E done \in BOOLEAN : GiveUpCleaning(x, done) \/ CancelCleaning(x, done)
           \/ Report(x) \/ Account(x)
           \/ CommitAction(x) \/ ReleaseFailedAction(x) \/ Lose(x)
           \/ DockerCreates(x) \/ ContainerEnds(x)
    PROVE  /\ \A y \in Executors : machines'[y].ran = machines[y].ran
           /\ \/ heads' = heads
              \/ heads[x] # "none" /\ heads'[x] # "none"
                 /\ \A y \in Executors \ {x} : heads'[y] = heads[y]
<1>1. machines' = machines \/ \A y \in Executors : machines'[y].ran = machines[y].ran
  <2>1. CASE Create(x) \/ Launch(x) \/ Kill(x) \/ Remove(x) \/ ContainerEnds(x)
    <3>1. PICK asked \in {"create", "start"}, state \in {"exited", "removed"} :
              \/ machines' = [machines EXCEPT ![x].asked = asked]
              \/ machines' = [machines EXCEPT ![x].state = state]
        BY <2>1 DEF Create, Launch, Kill, Remove, ContainerEnds
    <3> QED BY <3>1 DEF Inv, Typed, Machine
  <2>2. CASE DockerCreates(x)
      BY <2>2, DockerCreatesFacts DEF Inv
  <2>3. ASSUME NEW done \in BOOLEAN, GiveUpCleaning(x, done) \/ CancelCleaning(x, done)
        PROVE  \A y \in Executors : machines'[y].ran = machines[y].ran
      BY <2>3, DoneUnseenFacts DEF Inv, GiveUpCleaning, CancelCleaning
  <2>4. CASE \/ Open(x) \/ Audit(x) \/ InspectCreated(x) \/ BeforeStart(x)
             \/ \E cancelled, whole, kept \in BOOLEAN : BreakOff(x, cancelled, whole, kept)
             \/ LookForContainer(x) \/ InspectEnd(x) \/ Report(x) \/ Account(x)
             \/ CommitAction(x) \/ ReleaseFailedAction(x) \/ Lose(x)
      BY Zenon, <2>4 DEF Open, Audit, InspectCreated, BeforeStart, BreakOff, LookForContainer,
             InspectEnd, Report, Account, CommitAction, ReleaseFailedAction, Lose
  <2> QED BY Zenon, <2>1, <2>2, <2>3, <2>4
<1>2. heads' = heads \/ \E head \in {"starting", "unknown", "finished"} :
            execs[x].at # "idle" /\ heads' = [heads EXCEPT ![x] = head]
  <2>1. CASE BeforeStart(x) \/ Report(x)
      BY <2>1 DEF BeforeStart, Report
  <2>2. ASSUME NEW done \in BOOLEAN, CancelCleaning(x, done)
        PROVE  execs[x].at # "idle" /\ heads' = [heads EXCEPT ![x] = "unknown"]
      BY <2>2 DEF CancelCleaning, CleaningUp
  <2>3. CASE \/ Open(x) \/ Audit(x) \/ Create(x) \/ InspectCreated(x) \/ Launch(x)
             \/ \E cancelled, whole, kept \in BOOLEAN : BreakOff(x, cancelled, whole, kept)
             \/ LookForContainer(x) \/ Kill(x) \/ InspectEnd(x) \/ Remove(x)
             \/ \E done \in BOOLEAN : GiveUpCleaning(x, done)
             \/ Account(x) \/ CommitAction(x) \/ ReleaseFailedAction(x) \/ Lose(x)
             \/ DockerCreates(x) \/ ContainerEnds(x)
      BY Zenon, <2>3 DEF Open, Audit, Create, InspectCreated, Launch, BreakOff,
             LookForContainer, Kill, InspectEnd, Remove, GiveUpCleaning, Account,
             CommitAction, ReleaseFailedAction, Lose, DockerCreates, ContainerEnds
  <2> QED BY <2>1, <2>2, <2>3
<1> QED BY <1>1, <1>2, AtWorkHasIntent DEF Inv, Typed, ContainerTypeOK

LEMMA QuietIsQuiet ==
    ASSUME NEW x \in Executors,
           \A y \in Executors : machines'[y].ran = machines[y].ran,
           \/ heads' = heads
           \/ heads[x] # "none" /\ heads'[x] # "none"
              /\ \A y \in Executors \ {x} : heads'[y] = heads[y]
    PROVE  Ran' = Ran /\ Announced' = Announced
BY DEF Ran, Announced

\* What an executor's steps do to the ledger.
LEMMA ExecutorResolves ==
    ASSUME Inv, NEW x \in Executors,
           \/ Open(x) \/ Audit(x) \/ Create(x) \/ InspectCreated(x)
           \/ BeforeStart(x) \/ Launch(x)
           \/ \E cancelled, whole, kept \in BOOLEAN : BreakOff(x, cancelled, whole, kept)
           \/ LookForContainer(x) \/ Kill(x) \/ InspectEnd(x) \/ Remove(x)
           \/ \E done \in BOOLEAN : GiveUpCleaning(x, done) \/ CancelCleaning(x, done)
           \/ Report(x) \/ Account(x)
           \/ CommitAction(x) \/ ReleaseFailedAction(x) \/ Lose(x)
           \/ DockerCreates(x) \/ ContainerEnds(x)
    PROVE  Resolves
<1>1. CASE BeforeStart(x)
    BY <1>1 DEF BeforeStart, Expected, Resolves
<1>2. CASE Account(x)
  <2>1. machines[x].ran /\ reservation \in {"started", "settled"}
      BY <1>2 DEF Account, Inv, PaidInOrder, Paid, MemoryIsTrue, Remembers
  <2> QED BY <1>2, <2>1 DEF Account, Settled, Resolves
<1>3. CASE \/ Open(x) \/ Audit(x) \/ Create(x) \/ InspectCreated(x) \/ Launch(x)
           \/ \E cancelled, whole, kept \in BOOLEAN : BreakOff(x, cancelled, whole, kept)
           \/ LookForContainer(x) \/ Kill(x) \/ InspectEnd(x) \/ Remove(x)
           \/ \E done \in BOOLEAN : GiveUpCleaning(x, done) \/ CancelCleaning(x, done)
           \/ Report(x) \/ CommitAction(x) \/ ReleaseFailedAction(x) \/ Lose(x)
           \/ DockerCreates(x) \/ ContainerEnds(x)
    BY Zenon, <1>3 DEF Open, Audit, Create, InspectCreated, Launch, BreakOff, LookForContainer,
           Kill, InspectEnd, Remove, GiveUpCleaning, CancelCleaning, Report, CommitAction,
           ReleaseFailedAction, Lose, DockerCreates, ContainerEnds, Resolves
<1> QED BY <1>1, <1>2, <1>3

LEMMA NextRefines == Inv /\ Inv' /\ [ContainerNext]_containerVars => [Lifecycle!Next]_Progress
<1> SUFFICES ASSUME Inv, Inv', [ContainerNext]_containerVars
             PROVE  [Lifecycle!Next]_Progress
    OBVIOUS
<1>0. (Resolves => \/ reservation' = reservation
                   \/ reservation = "reserved" /\ reservation' = "started"
                   \/ reservation = "reserved" /\ ~Announced /\ reservation' = "released"
                   \/ reservation = "started" /\ reservation' = "settled" /\ Ran # {})
    BY DEF Resolves, Ran
<1>1. ASSUME NEW x \in Executors, IntendContainer(x)
      PROVE  [Lifecycle!Next]_Progress
  <2>1. /\ ~Announced /\ reservation \in {"reserved", "started"}
        /\ heads' = [heads EXCEPT ![x] = "prepared"]
        /\ UNCHANGED <<reservation, machines>>
      BY <1>1 DEF IntendContainer, Expected, Announced
  <2>2. Ran = {} /\ Ran' = {} /\ Announced'
      BY <2>1, HappenedInOrder DEF Ran, Announced, Inv, Typed, ContainerTypeOK
  <2>3. Effect = "none"
      BY <2>1, <2>2, EffectOnce
  <2>4. (Effect = IF Ran # {} THEN "happened" ELSE IF Announced THEN "announced" ELSE "none")'
      BY EffectOnce, PTL
  <2>5. Lifecycle!Announce
      BY <2>1, <2>2, <2>3, <2>4 DEF Lifecycle!Announce, Hold
  <2> QED BY <2>5 DEF Lifecycle!Next
<1>2. ASSUME NEW x \in Executors, ContainerStarts(x)
      PROVE  [Lifecycle!Next]_Progress
  <2>1. /\ machines[x].asked = "start" /\ machines[x].state = "created"
        /\ machines' = [machines EXCEPT ![x] = [state |-> "running", asked |-> "none", ran |-> TRUE]]
        /\ UNCHANGED <<heads, reservation>>
      BY <1>2 DEF ContainerStarts
  <2>2. ~machines[x].ran /\ execs[x].started /\ heads[x] # "none"
      BY <2>1, AskedIsAtWork, AtWorkHasIntent DEF Inv, MemoryIsTrue, Remembers
  <2>3. Ran = {}
      BY <2>2 DEF Ran, Inv, OneIntent, MemoryIsTrue, Remembers
  <2>4. reservation = "started"
      BY <2>2, <2>3, HappenedInOrder DEF Inv, PaidInOrder, Paid
  <2>5. Announced /\ Announced' /\ Ran' # {}
      BY <2>1, <2>2 DEF Announced, Ran, Inv, Typed
  <2>6. (Effect = IF Ran # {} THEN "happened" ELSE IF Announced THEN "announced" ELSE "none")'
      BY EffectOnce, PTL
  <2>7. Lifecycle!Happen
      BY <2>1, <2>3, <2>4, <2>5, <2>6, EffectOnce DEF Lifecycle!Happen, Hold
  <2> QED BY <2>7 DEF Lifecycle!Next
<1>3. ASSUME NEW x \in Executors,
             \/ Open(x) \/ Audit(x) \/ Create(x) \/ InspectCreated(x)
             \/ BeforeStart(x) \/ Launch(x)
             \/ \E cancelled, whole, kept \in BOOLEAN : BreakOff(x, cancelled, whole, kept)
             \/ LookForContainer(x) \/ Kill(x) \/ InspectEnd(x) \/ Remove(x)
             \/ \E done \in BOOLEAN : GiveUpCleaning(x, done) \/ CancelCleaning(x, done)
             \/ Report(x) \/ Account(x)
             \/ CommitAction(x) \/ ReleaseFailedAction(x) \/ Lose(x)
             \/ DockerCreates(x) \/ ContainerEnds(x)
      PROVE  [Lifecycle!Next]_Progress
  <2>1. Ran' = Ran /\ Announced' = Announced
      BY Zenon, <1>3, ExecutorQuiet, QuietIsQuiet
  <2>2. Resolves
      BY Zenon, <1>3, ExecutorResolves
  <2> QED BY <1>0, <2>1, <2>2, LedgerRefines
<1>4. CASE \/ StartAction \/ ClaimExpires \/ MoveAuthority \/ ReleaseHold
           \/ RecoverAction \/ AbandonAction
  <2>1. Resolves /\ UNCHANGED <<heads, machines>>
      BY <1>4, OthersResolve
  <2>2. Ran' = Ran /\ Announced' = Announced
      BY <2>1 DEF Ran, Announced
  <2> QED BY <1>0, <2>1, <2>2, LedgerRefines
<1>5. CASE UNCHANGED containerVars
  <2>1. Ran' = Ran /\ Announced' = Announced /\ reservation' = reservation
      BY <1>5 DEF containerVars, Ran, Announced
  <2> QED BY <2>1, LedgerRefines
<1> QED BY Zenon, <1>1, <1>2, <1>3, <1>4, <1>5 DEF ContainerNext

\* Containers, cancelled or lost, reviewed, paused and charged, implement the
\* lifecycle of an effect: announced, then paid for, then done once; charged
\* because it was done, given back only while nothing was announced.
THEOREM Implementation == ContainerSpec => ImplementsEffect
<1>1. Inv /\ Inv' /\ [ContainerNext]_containerVars => [Lifecycle!Next]_Progress
    BY NextRefines
<1> QED BY <1>1, InitRefines, Invariance, PTL
        DEF ContainerSpec, ImplementsEffect, Lifecycle!Spec, Progress
=============================================================================
