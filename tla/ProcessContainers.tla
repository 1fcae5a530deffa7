-------------------------- MODULE ProcessContainers --------------------------
(***************************************************************************)
(* The container of one admitted tool action (padawan/pprl/containers.py,  *)
(* container_driver.py), and what reviewers make of it                     *)
(* (recovery_evidence.py, recovery.py, abandonment.py).                    *)
(*                                                                         *)
(* Executors are given the same decision.  Each step of one is a           *)
(* transaction or a command to the Docker daemon, which answers late, or   *)
(* not, and does what it was asked even if nobody waits for it any more.   *)
(* The execution can fail, be cancelled or be lost at each of them.        *)
(***************************************************************************)
EXTENDS Naturals, FiniteSets

CONSTANT Executors

VARIABLES
    amber,          \* the authority: as it admitted the action, paused, or resumed
    rollout,        \* ProcessRolloutRow; committed: the action has its event
    reservation,    \* the last ProcessResourceEvent of the action
    heads,          \* ProcessContainerHeadRow.status, "none" before the intent
    captures,       \* the captures in the artifact store
    reports,        \* ProcessContainerReceipt, status "none" without one
    machines,       \* the container: its state, what was asked of it, whether it ran
    execs           \* executor -> where it is, and its ContainerRunEvidence

containerVars == <<amber, rollout, reservation, heads, captures, reports, machines, execs>>

Captures == {"runtime", "created", "terminal", "cleanup"}

Running == {"opening", "runtime", "creating", "awaiting", "created", "starting",
            "launching", "attached"}
CleaningUp == {"cleaning", "killing", "killed", "terminal", "removing", "cleanup"}

IdleExecutor ==
    [at |-> "idle", captured |-> {}, attempted |-> FALSE, started |-> FALSE,
     terminated |-> FALSE, removed |-> FALSE, complete |-> TRUE, cancelled |-> FALSE]

NoReport == [status |-> "none", complete |-> FALSE, captures |-> {}]

ContainerInit ==
    /\ amber = "admitted"
    /\ rollout = [status |-> "active", held |-> TRUE, live |-> TRUE, committed |-> FALSE]
    /\ reservation = "reserved"
    /\ heads = [x \in Executors |-> "none"]
    /\ captures = [x \in Executors |-> {}]
    /\ reports = [x \in Executors |-> NoReport]
    /\ machines = [x \in Executors |-> [state |-> "absent", asked |-> "none", ran |-> FALSE]]
    /\ execs = [x \in Executors |-> IdleExecutor]

-----------------------------------------------------------------------------
\* The claim and the authority under which the action was admitted.
Commanded ==
    /\ rollout.status = "active" /\ rollout.held /\ rollout.live
    /\ amber = "admitted"

\* ProcessContainerExecutor._expected
Expected == Commanded /\ ~rollout.committed /\ reservation \in {"reserved", "started"}

\* _settle: a retry changes nothing.
Settled == IF reservation \in {"reserved", "started"} THEN "settled" ELSE reservation

FreedFor(status) == [rollout EXCEPT !.status = status, !.held = FALSE, !.live = FALSE]

Step(x, at) == execs' = [execs EXCEPT ![x].at = at]

-----------------------------------------------------------------------------
(* _execute and DockerContainerDriver.run.                                 *)

\* ProcessCoordinator's own start of the action, before its executor.
StartAction ==
    /\ Commanded /\ reservation = "reserved"
    /\ reservation' = "started"
    /\ UNCHANGED <<amber, rollout, heads, captures, reports, machines, execs>>

\* The intent, one for a decision, before anything is asked of the daemon.
IntendContainer(x) ==
    /\ execs[x].at = "idle" /\ Expected
    /\ \A other \in Executors : heads[other] = "none"
    /\ heads' = [heads EXCEPT ![x] = "prepared"]
    /\ Step(x, "opening")
    /\ UNCHANGED <<amber, rollout, reservation, captures, reports, machines>>

\* authorize; the daemon and the image are the reviewed ones.
Open(x) ==
    /\ execs[x].at = "opening" /\ Expected
    /\ Step(x, "runtime")
    /\ UNCHANGED <<amber, rollout, reservation, heads, captures, reports, machines>>

\* audit: the capture is stored, then listed in memory.
Audit(x) ==
    LET kind == execs[x].at IN
    /\ kind \in Captures
    /\ captures' = [captures EXCEPT ![x] = @ \union {kind}]
    /\ execs' = [execs EXCEPT ![x].captured = @ \union {kind},
            ![x].at = CASE kind = "runtime"  -> "creating"
                        [] kind = "created"  -> "starting"
                        [] kind = "terminal" -> "removing"
                        [] kind = "cleanup"  -> "reporting"]
    /\ UNCHANGED <<amber, rollout, reservation, heads, reports, machines>>

Create(x) ==
    /\ execs[x].at = "creating" /\ Expected
    /\ machines' = [machines EXCEPT ![x].asked = "create"]
    /\ execs' = [execs EXCEPT ![x].at = "awaiting", ![x].attempted = TRUE]
    /\ UNCHANGED <<amber, rollout, reservation, heads, captures, reports>>

\* create has answered, and the container is as it should be and not running.
InspectCreated(x) ==
    /\ execs[x].at = "awaiting" /\ machines[x].state = "created"
    /\ Step(x, "created")
    /\ UNCHANGED <<amber, rollout, reservation, heads, captures, reports, machines>>

LaunchUnmarked(x) ==
    /\ execs[x].at = "starting" /\ Expected
    /\ heads' = [heads EXCEPT ![x] = "starting"]
    /\ Step(x, "launching")
    /\ UNCHANGED <<amber, rollout, reservation, captures, reports, machines>>

\* before_start: the action is started and the intent's head with it.
BeforeStart(x) ==
    /\ execs[x].at = "starting" /\ Expected /\ heads[x] = "prepared"
    /\ reservation' = "started"
    /\ heads' = [heads EXCEPT ![x] = "starting"]
    /\ Step(x, "launching")
    /\ UNCHANGED <<amber, rollout, captures, reports, machines>>

\* start --attach
Launch(x) ==
    /\ execs[x].at = "launching"
    /\ machines' = [machines EXCEPT ![x].asked = "start"]
    /\ execs' = [execs EXCEPT ![x].at = "attached", ![x].started = TRUE]
    /\ UNCHANGED <<amber, rollout, reservation, heads, captures, reports>>

(* The end of the attached client, the deadline or the output's limit;     *)
(* and an exception or a cancellation anywhere before, perhaps after the   *)
(* transaction of an audit that was under way.                             *)
BreakOff(x, cancelled, whole, kept) ==
    LET at == execs[x].at IN
    /\ at \in Running
    /\ ~whole => at = "attached"
    /\ kept => at \in Captures
    /\ captures' = [captures EXCEPT ![x] = IF kept THEN @ \union {at} ELSE @]
    /\ execs' = [execs EXCEPT ![x].at = "cleaning", ![x].cancelled = cancelled,
                              ![x].complete = whole]
    /\ UNCHANGED <<amber, rollout, reservation, heads, reports, machines>>

-----------------------------------------------------------------------------
(* The finally block.                                                      *)

\* inspect by name: only what was perhaps created is looked for.
LookForContainer(x) ==
    LET state == machines[x].state IN
    /\ execs[x].at = "cleaning"
    /\ ~execs[x].attempted \/ state \in {"created", "running", "exited"}
    /\ Step(x, IF ~execs[x].attempted THEN "reporting"
               ELSE IF state = "running" THEN "killing" ELSE "killed")
    /\ UNCHANGED <<amber, rollout, reservation, heads, captures, reports, machines>>

Kill(x) ==
    /\ execs[x].at = "killing" /\ machines[x].state = "running"
    /\ machines' = [machines EXCEPT ![x].state = "exited"]
    /\ Step(x, "killed")
    /\ UNCHANGED <<amber, rollout, reservation, heads, captures, reports>>

\* The second inspect.
InspectEnd(x) ==
    /\ execs[x].at = "killed" /\ machines[x].state \in {"created", "exited"}
    /\ execs' = [execs EXCEPT ![x].at = "terminal",
                              ![x].terminated = machines[x].state = "exited"]
    /\ UNCHANGED <<amber, rollout, reservation, heads, captures, reports, machines>>

\* rm without force, and ps.
Remove(x) ==
    /\ execs[x].at = "removing" /\ machines[x].state \in {"created", "exited"}
    /\ machines' = [machines EXCEPT ![x].state = "removed"]
    /\ execs' = [execs EXCEPT ![x].at = "cleanup", ![x].removed = TRUE]
    /\ UNCHANGED <<amber, rollout, reservation, heads, captures, reports>>

\* What a command that was given up has done all the same.
DoneUnseen(x, done) ==
    /\ done => execs[x].at \in {"killing", "removing"} \union Captures
    /\ captures' = [captures EXCEPT ![x] =
            IF done /\ execs[x].at \in Captures THEN @ \union {execs[x].at} ELSE @]
    /\ machines' = [machines EXCEPT ![x].state =
            IF done /\ execs[x].at = "killing" /\ @ = "running" THEN "exited"
            ELSE IF done /\ execs[x].at = "removing" /\ @ \in {"created", "exited"}
                 THEN "removed" ELSE @]

\* A command fails or is given up after 10 seconds; an audit raises.  Without
\* its terminal capture the container is removed nevertheless.
GiveUpCleaning(x, done) ==
    /\ execs[x].at \in CleaningUp
    /\ DoneUnseen(x, done)
    /\ execs' = [execs EXCEPT ![x].complete = FALSE,
            ![x].at = IF @ = "terminal" THEN "removing" ELSE "reporting"]
    /\ UNCHANGED <<amber, rollout, reservation, heads, reports>>

\* A cancellation while it is cleaning up: there is no receipt.
CancelCleaning(x, done) ==
    /\ execs[x].at \in CleaningUp
    /\ DoneUnseen(x, done)
    /\ heads' = [heads EXCEPT ![x] = "unknown"]
    /\ Step(x, "failing")
    /\ UNCHANGED <<amber, rollout, reservation, reports>>

-----------------------------------------------------------------------------
(* The receipt, the debit, the event.                                      *)

EffectStatusByStart(e) ==
    IF e.terminated /\ e.removed /\ e.captured = Captures THEN "terminated"
    ELSE IF ~e.started THEN "not_started" ELSE "unknown"

\* A terminal capture in memory is terminal_verified.
EffectStatus(e) ==
    IF e.terminated /\ e.removed /\ e.captured = Captures THEN "terminated"
    ELSE IF ~e.started /\ e.removed THEN "not_started" ELSE "unknown"

Report(x) ==
    LET e == execs[x]  status == EffectStatus(e) IN
    /\ e.at = "reporting"
    /\ reports' = [reports EXCEPT ![x] =
            [status |-> status, complete |-> e.complete, captures |-> e.captured]]
    /\ heads' = [heads EXCEPT ![x] = IF status = "unknown" THEN "unknown" ELSE "finished"]
    /\ Step(x, IF status = "terminated" /\ e.complete THEN "accounting" ELSE "failing")
    /\ UNCHANGED <<amber, rollout, reservation, captures, machines>>

\* reconcile, in a transaction of its own.
Account(x) ==
    /\ execs[x].at = "accounting"
    /\ reservation' = Settled
    /\ Step(x, IF execs[x].cancelled THEN "failing" ELSE "settled")
    /\ UNCHANGED <<amber, rollout, heads, captures, reports, machines>>

\* append_event, with the same debit.
CommitAction(x) ==
    /\ execs[x].at = "settled" /\ Commanded /\ reservation = "settled"
    /\ rollout' = [FreedFor("active") EXCEPT !.committed = TRUE]
    /\ Step(x, "gone")
    /\ UNCHANGED <<amber, reservation, heads, captures, reports, machines>>

\* The coordinator's release_claim, which needs no more than the lease.
ReleaseFailedAction(x) ==
    /\ execs[x].at \in {"settled", "failing"}
    /\ rollout' = IF rollout.held THEN FreedFor("failed") ELSE rollout
    /\ Step(x, "gone")
    /\ UNCHANGED <<amber, reservation, heads, captures, reports, machines>>

Lose(x) ==
    /\ execs[x].at \notin {"idle", "gone"}
    /\ Step(x, "gone")
    /\ UNCHANGED <<amber, rollout, reservation, heads, captures, reports, machines>>

-----------------------------------------------------------------------------
(* The daemon and the supervisor in the container.                         *)

DockerCreates(x) ==
    /\ machines[x].asked = "create"
    /\ machines' = [machines EXCEPT ![x].state = "created", ![x].asked = "none"]
    /\ UNCHANGED <<amber, rollout, reservation, heads, captures, reports, execs>>

ContainerStarts(x) ==
    /\ machines[x].asked = "start" /\ machines[x].state = "created"
    /\ machines' = [machines EXCEPT ![x] = [state |-> "running", asked |-> "none", ran |-> TRUE]]
    /\ UNCHANGED <<amber, rollout, reservation, heads, captures, reports, execs>>

\* The command ends, or the supervisor's timer ends it.
ContainerEnds(x) ==
    /\ machines[x].state = "running"
    /\ machines' = [machines EXCEPT ![x].state = "exited"]
    /\ UNCHANGED <<amber, rollout, reservation, heads, captures, reports, execs>>

-----------------------------------------------------------------------------
(* Time, operators, reviewers.                                             *)

\* The clock passes the lease_expires_at of the rollout.
ClaimExpires ==
    /\ rollout.live
    /\ rollout' = [rollout EXCEPT !.live = FALSE]
    /\ UNCHANGED <<amber, reservation, heads, captures, reports, machines, execs>>

\* AmberStore.transition; a resumed authority has another sequence.
MoveAuthority ==
    /\ amber' = IF amber = "paused" THEN "resumed" ELSE "paused"
    /\ UNCHANGED <<rollout, reservation, heads, captures, reports, machines, execs>>

Announced == \E x \in Executors : heads[x] # "none"

\* release_unstarted: no intent, though its container be only prepared.
ReleaseHold ==
    /\ reservation = "reserved" /\ ~Announced
    /\ reservation' = "released"
    /\ UNCHANGED <<amber, rollout, heads, captures, reports, machines, execs>>

Completed == \E x \in Executors : reports[x].status = "terminated" /\ reports[x].complete

(* recover, while the action pends.  What it finds is released, charged or *)
(* unknown; it refuses a receipt that does not list the captures in store. *)
RecoverAction ==
    /\ rollout.status \in {"active", "review_required"} /\ ~rollout.committed
    /\ reservation # "released"
    /\ ~(rollout.live /\ rollout.status = "active" /\ amber # "paused")
    /\ \A x \in Executors : reports[x].status # "none" => reports[x].captures = captures[x]
    /\ reservation' = IF reservation = "reserved" /\ ~Announced THEN "released"
                      ELSE IF Completed THEN Settled ELSE reservation
    /\ rollout' = FreedFor(IF reservation = "reserved" /\ ~Announced THEN "ready"
                           ELSE "review_required")
    /\ UNCHANGED <<amber, heads, captures, reports, machines, execs>>

\* abandon, while the effect is unresolved.
AbandonAction ==
    /\ rollout.status = "review_required"
    /\ rollout' = [rollout EXCEPT !.status = "cancelled"]
    /\ UNCHANGED <<amber, reservation, heads, captures, reports, machines, execs>>

-----------------------------------------------------------------------------
ContainerNext ==
    \/ \E x \in Executors :
          \/ IntendContainer(x) \/ Open(x) \/ Audit(x) \/ Create(x) \/ InspectCreated(x)
          \/ BeforeStart(x) \/ Launch(x)
          \/ \E cancelled, whole, kept \in BOOLEAN : BreakOff(x, cancelled, whole, kept)
          \/ LookForContainer(x) \/ Kill(x) \/ InspectEnd(x) \/ Remove(x)
          \/ \E done \in BOOLEAN : GiveUpCleaning(x, done) \/ CancelCleaning(x, done)
          \/ Report(x) \/ Account(x)
          \/ CommitAction(x) \/ ReleaseFailedAction(x) \/ Lose(x)
          \/ DockerCreates(x) \/ ContainerStarts(x) \/ ContainerEnds(x)
    \/ StartAction \/ ClaimExpires
    \/ MoveAuthority \/ ReleaseHold \/ RecoverAction \/ AbandonAction

ContainerSpec == ContainerInit /\ [][ContainerNext]_containerVars

-----------------------------------------------------------------------------
(* Properties.                                                             *)

ContainerTypeOK ==
    /\ amber \in {"admitted", "paused", "resumed"}
    /\ reservation \in {"reserved", "started", "settled", "released"}
    /\ rollout \in [status : {"active", "ready", "review_required", "failed", "cancelled"},
                    held : BOOLEAN, live : BOOLEAN, committed : BOOLEAN]
    /\ heads \in [Executors -> {"none", "prepared", "starting", "finished", "unknown"}]
    /\ captures \in [Executors -> SUBSET Captures]

\* Executors in whose container the command was started.
Ran == {x \in Executors : machines[x].ran}

Effect ==
    LET effect == IF Ran # {} THEN "happened" ELSE IF Announced THEN "announced" ELSE "none" IN
    IF Cardinality(Ran) > 1 THEN "repeated" ELSE effect

Hold == CASE reservation = "reserved" -> "held"    [] reservation = "started"  -> "committed"
          [] reservation = "settled"  -> "charged" [] reservation = "released" -> "returned"

Lifecycle == INSTANCE EffectLifecycle WITH effect <- Effect, hold <- Hold

\* Whatever is lost, late, cancelled or reviewed, the command of an action runs
\* at most once, after its intent and its start are durable; its hold is
\* charged only after it ran, and given back only if no intent was made.
ImplementsEffect == Lifecycle!Spec

\* A receipt says what became of the container for good, whenever the daemon
\* carried out what it was asked: one that says so ran and is gone, one that
\* says it did not start never will (effect_status).
ReceiptsTellTheTruth ==
    \A x \in Executors :
        /\ reports[x].status = "terminated" => machines[x].ran /\ machines[x].state = "removed"
        /\ reports[x].status = "not_started" => ~machines[x].ran /\ machines[x].state = "removed"
=============================================================================
