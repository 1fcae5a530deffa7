--------------------------- MODULE CorpusRegistry ---------------------------
(***************************************************************************)
(* The governed item inventory (padawan/corpus/registry.py).               *)
(*                                                                         *)
(* Items of one matched group are leased together, exposed to a student    *)
(* while the lease is held, and retired as a group when the exposure bears  *)
(* an answer.  A caller that was granted a lease may present its token at  *)
(* any later time, long after it expired, was recovered, or the item was   *)
(* leased again.                                                           *)
(*                                                                         *)
(* A token names a leasing call and an item of it: PostgreSQL gives every  *)
(* row of a block a token of its own (SQLite one to all of them).  An      *)
(* operation is one database transaction and one step, except retirement,  *)
(* which reads the group's rows without a lock and writes them afterwards. *)
(*                                                                         *)
(* Sealed anchors, difficulty and competency filters are left out; which   *)
(* of the eligible groups or items is taken is left open.                  *)
(***************************************************************************)
EXTENDS Integers, FiniteSets

CONSTANTS
    Items,          \* item ids
    Groups,         \* instance group ids
    GroupOf,        \* item -> its instance group
    FamilyOf,       \* group -> its template family
    Owners,         \* lease owners: run ids in the workflows
    Students,
    Tokens,         \* bound: one is spent by every lease
    Count,          \* siblings of a matched block
    LeaseFor,       \* lease_for, in ticks
    NULL

Families == {FamilyOf[g] : g \in Groups}

ASSUME CorpusAssumption ==
    /\ GroupOf \in [Items -> Groups]
    /\ DOMAIN FamilyOf = Groups
    /\ Count \in Nat \ {0, 1}
    /\ LeaseFor \in Nat \ {0}
    /\ NULL \notin Tokens /\ NULL \notin Owners

VARIABLES
    status,         \* item -> CorpusItemRow.status, "absent" without a row
    lease,          \* item -> lease columns, or NoLease
    grant,          \* token -> what its lease call returned, NULL if unused
    exposures,      \* the ExposureRows
    contaminated,   \* the families whose contaminated flag is set
    retiring        \* item -> what the retirement that locks its row has read, or NULL

corpusVars == <<status, lease, grant, exposures, contaminated, retiring>>

NoLease == [owner |-> NULL, token |-> NULL, left |-> 0]
Leases  == [owner : Owners, token : Tokens, left : 0..LeaseFor]
Grants  == [owner : Owners, student : Students, items : SUBSET Items]

\* An exposure's id names its run, its item and its occasion.
Exposures == [owner : Owners, student : Students, item : Items, answer : BOOLEAN]

\* The token the retirement was asked with, and which rows its query found in
\* the inventory, and which of those under a lease.
Readings == [token : Tokens, seen : SUBSET Items, leased : SUBSET Items]

ASSUME GrantAssumption == NULL \notin Grants /\ NULL \notin Readings

Init ==
    /\ status = [i \in Items |-> "absent"]
    /\ lease  = [i \in Items |-> NoLease]
    /\ grant  = [t \in Tokens |-> NULL]
    /\ exposures = {} /\ contaminated = {}
    /\ retiring = [i \in Items |-> NULL]

-----------------------------------------------------------------------------
Siblings(i) == {j \in Items : GroupOf[j] = GroupOf[i]}

\* Rows that others wait for.
Locked == {i \in Items : retiring[i] # NULL}

\* Mutated forms of a definition stand before it: the bug each one plants must
\* break the property it is paired with.
DropKeepsLease(S, from, to) ==
    LET changed == {i \in S : status[i] \in from} IN
    /\ status' = [i \in Items |-> IF i \in changed THEN to ELSE status[i]]
    /\ lease' = lease

\* Rows of S whose status is one of from get status to, and lose their lease.
Drop(S, from, to) ==
    LET changed == {i \in S : status[i] \in from} IN
    /\ status' = [i \in Items |-> IF i \in changed THEN to ELSE status[i]]
    /\ lease'  = [i \in Items |-> IF i \in changed THEN NoLease ELSE lease[i]]

\* register_items, for the new items of one group.  A batch that fails
\* _batch_validation_reasons is kept in quarantine and taints the family; rows
\* that exist are left as they are.
Register(S, valid) ==
    /\ S # {} /\ \A i \in S : status[i] = "absent"
    /\ \A i, j \in S : GroupOf[i] = GroupOf[j]
    /\ status' = [i \in Items |-> IF i \notin S THEN status[i]
                                  ELSE IF valid THEN "active" ELSE "quarantined"]
    /\ contaminated' = IF valid THEN contaminated
                       ELSE contaminated \union {FamilyOf[GroupOf[i]] : i \in S}
    /\ UNCHANGED <<lease, grant, exposures, retiring>>

\* recover_expired_leases, which opens every leasing transaction.
Expired == {i \in Items : status[i] = "leased" /\ lease[i].left = 0}

Recover == /\ Expired # {} /\ Expired \intersect Locked = {}
           /\ Drop(Expired, {"leased"}, "active")
           /\ UNCHANGED <<grant, exposures, contaminated, retiring>>

LeasableThoughSeen(s) == {i \in Items : status[i] = "active" \/ i \in Expired}

\* The items a leasing query may return to student s.
Leasable(s) ==
    {i \in Items : /\ status[i] = "active" \/ i \in Expired
                   /\ \A e \in exposures : e.student = s => GroupOf[e.item] # GroupOf[i]}

Grant(o, s, S, t) ==
    /\ grant[t] = NULL /\ Expired \intersect Locked = {}
    /\ status' = [i \in Items |-> IF i \in S THEN "leased"
                                  ELSE IF i \in Expired THEN "active" ELSE status[i]]
    /\ lease'  = [i \in Items |->
                    IF i \in S THEN [owner |-> o, token |-> t, left |-> LeaseFor]
                    ELSE IF i \in Expired THEN NoLease ELSE lease[i]]
    /\ grant' = [grant EXCEPT ![t] = [owner |-> o, student |-> s, items |-> S]]
    /\ UNCHANGED <<exposures, contaminated, retiring>>

LeaseItem(o, s, t) == \E i \in Leasable(s) : Grant(o, s, {i}, t)

\* lease_matched_group: Count siblings or none at all.
Blocks(s) ==
    {S \in SUBSET Leasable(s) : Cardinality(S) = Count /\ \A i, j \in S : GroupOf[i] = GroupOf[j]}

LeaseMatchedGroup(o, s, t) == \E S \in Blocks(s) : Grant(o, s, S, t)

-----------------------------------------------------------------------------
(* What the holder of a grant may do, now or later.                        *)

\* "lease does not own the exposed item": the row does not carry the token.
Owns(t, i) == grant[t] # NULL /\ lease[i].token = t /\ lease[i].owner = grant[t].owner

ReleaseLease(t, i) ==
    /\ Owns(t, i) /\ i \notin Locked
    /\ Drop({i}, {"leased"}, "active")
    /\ UNCHANGED <<grant, exposures, contaminated, retiring>>

Exposed(t, i, answer) ==
    [owner |-> grant[t].owner, student |-> grant[t].student, item |-> i, answer |-> answer]

\* record_exposure: the lease is kept.
RecordExposure(t, i, answer) ==
    /\ Owns(t, i) /\ i \notin Locked
    /\ exposures' = exposures \union {Exposed(t, i, answer)}
    /\ UNCHANGED <<status, lease, grant, contaminated, retiring>>

\* record_exposure_and_retire of a prompt returns the item, whatever its status.
RecordPromptAndReturn(t, i) ==
    /\ Owns(t, i) /\ i \notin Locked
    /\ exposures' = exposures \union {Exposed(t, i, FALSE)}
    /\ status' = [status EXCEPT ![i] = "active"]
    /\ lease' = [lease EXCEPT ![i] = NoLease]
    /\ UNCHANGED <<grant, contaminated, retiring>>

\* record_exposure_and_retire of an answer, under the default RetirementPolicy:
\* with the item's row locked, the rows of its group are read without a lock.
ReadSiblings(t, i) ==
    LET seen == {j \in Siblings(i) : status[j] \in {"active", "leased"}} IN
    /\ Owns(t, i) /\ i \notin Locked
    /\ retiring' = [retiring EXCEPT ![i] =
          [token |-> t, seen |-> seen, leased |-> {j \in seen : lease[j] # NoLease}]]
    /\ UNCHANGED <<status, lease, grant, exposures, contaminated>>

\* Rows of S are retired, whatever they are by now, and those of L lose their
\* lease.  A row that was quarantined stays in the quarantine pool, which is
\* what "quarantined" stands for.
RetireRows(S, L) ==
    /\ status' = [i \in Items |-> IF i \in S /\ status[i] # "quarantined" THEN "retired" ELSE status[i]]
    /\ lease'  = [i \in Items |-> IF i \in L THEN NoLease ELSE lease[i]]

\* The flush and the commit.  It writes the columns that it changes: of a row
\* read without a lease the lease columns are left as they are.
Retire(i) ==
    LET read == retiring[i] IN
    /\ read # NULL /\ Locked \intersect read.seen \subseteq {i}
    /\ exposures' = exposures \union {Exposed(read.token, i, TRUE)}
    /\ RetireRows(read.seen, read.leased)
    /\ retiring' = [retiring EXCEPT ![i] = NULL]
    /\ UNCHANGED <<grant, contaminated>>

\* The transaction is rolled back: a deadlock, a lost connection, the end of
\* the process.
Abort(i) ==
    /\ i \in Locked
    /\ retiring' = [retiring EXCEPT ![i] = NULL]
    /\ UNCHANGED <<status, lease, grant, exposures, contaminated>>

Quarantine(i, closeFamily) ==
    LET closed == IF closeFamily
                  THEN {j \in Items : FamilyOf[GroupOf[j]] = FamilyOf[GroupOf[i]]} ELSE {i} IN
    /\ status[i] # "absent" /\ closed \intersect Locked = {}
    /\ Drop(closed, {"active", "leased", "retired"}, "quarantined")
    /\ contaminated' = IF closeFamily THEN contaminated \union {FamilyOf[GroupOf[i]]}
                       ELSE contaminated
    /\ UNCHANGED <<grant, exposures, retiring>>

Tick ==
    /\ lease' = [i \in Items |->
          [lease[i] EXCEPT !.left = IF @ > 0 THEN @ - 1 ELSE 0]]
    /\ UNCHANGED <<status, grant, exposures, contaminated, retiring>>

Next ==
    \/ \E S \in SUBSET Items, valid \in BOOLEAN : Register(S, valid)
    \/ Recover
    \/ \E o \in Owners, s \in Students, t \in Tokens :
          LeaseItem(o, s, t) \/ LeaseMatchedGroup(o, s, t)
    \/ \E t \in Tokens, i \in Items :
          \/ ReleaseLease(t, i) \/ RecordPromptAndReturn(t, i) \/ ReadSiblings(t, i)
          \/ \E answer \in BOOLEAN : RecordExposure(t, i, answer)
    \/ \E i \in Items : Retire(i) \/ Abort(i)
    \/ \E i \in Items, closeFamily \in BOOLEAN : Quarantine(i, closeFamily)
    \/ Tick

Spec == Init /\ [][Next]_corpusVars

-----------------------------------------------------------------------------
(* Properties.                                                             *)

CorpusTypeOK ==
    /\ status \in [Items -> {"absent", "active", "leased", "retired", "quarantined"}]
    /\ lease \in [Items -> Leases \union {NoLease}]
    /\ grant \in [Tokens -> Grants \union {NULL}]
    /\ exposures \subseteq Exposures
    /\ contaminated \subseteq Families
    /\ retiring \in [Items -> Readings \union {NULL}]

\* A leased row carries a lease, and a lease is that of a grant of that very
\* item to that very owner: whatever a holder of an old token does, it cannot
\* act on an item that somebody else was granted since.  A lease survives on a
\* row that is not leased only if it was granted while the group was being
\* retired, for an answer that was shown.
LeasesMatchGrants ==
    \A i \in Items :
        /\ status[i] = "leased" => lease[i] # NoLease
        /\ lease[i] # NoLease =>
              /\ \/ status[i] = "leased"
                 \/ /\ status[i] = "retired"
                    /\ \E e \in exposures : e.answer /\ GroupOf[e.item] = GroupOf[i]
              /\ grant[lease[i].token] # NULL
              /\ grant[lease[i].token].owner = lease[i].owner
              /\ i \in grant[lease[i].token].items
=============================================================================
