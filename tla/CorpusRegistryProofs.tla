------------------------ MODULE CorpusRegistryProofs ------------------------
(***************************************************************************)
(* Proofs about CorpusRegistry, for any items, groups and holders: leases  *)
(* match their grants, whatever retirements read before they write.        *)
(***************************************************************************)
EXTENDS CorpusRegistry, TLAPS

ItemStatuses == {"absent", "active", "leased", "retired", "quarantined"}

LeaseRows == [owner : Owners \union {NULL}, token : Tokens \union {NULL}, left : 0..LeaseFor]

\* Who has no token has no lease.
RowsTyped ==
    /\ status \in [Items -> ItemStatuses]
    /\ lease \in [Items -> LeaseRows]
    /\ \A i \in Items : lease[i].token = NULL => lease[i] = NoLease
    /\ \A i \in Items : lease[i].token # NULL => lease[i] \in Leases

GrantsTyped ==
    /\ grant \in [Tokens -> Grants \union {NULL}]
    /\ exposures \subseteq Exposures
    /\ contaminated \subseteq Families

\* A retirement reads rows of one group, with a token that was granted.
ReadingsTyped ==
    /\ retiring \in [Items -> Readings \union {NULL}]
    /\ \A i \in Items : retiring[i] # NULL =>
          /\ grant[retiring[i].token] # NULL
          /\ retiring[i].seen \subseteq Siblings(i)
          /\ retiring[i].leased \subseteq retiring[i].seen

\* An answer was shown to an item of the group.
Answered(i) == \E e \in exposures : e.answer /\ GroupOf[e.item] = GroupOf[i]

\* What LeasesMatchGrants says of one item.
Matched(i) ==
    /\ status[i] = "leased" => lease[i].token # NULL
    /\ lease[i].token # NULL =>
          /\ status[i] = "leased" \/ (status[i] = "retired" /\ Answered(i))
          /\ grant[lease[i].token] # NULL
          /\ grant[lease[i].token].owner = lease[i].owner
          /\ i \in grant[lease[i].token].items

CorpusInv == RowsTyped /\ GrantsTyped /\ ReadingsTyped /\ (\A i \in Items : Matched(i))

-----------------------------------------------------------------------------
(* Facts about the operators.                                              *)

LEMMA NoLeaseTyped == NoLease \in LeaseRows /\ NoLease.token = NULL /\ NoLease.left = 0
BY CorpusAssumption DEF NoLease, LeaseRows

LEMMA LeasesAreRows ==
    ASSUME NEW l \in Leases
    PROVE  l \in LeaseRows /\ l.token \in Tokens /\ l.token # NULL
BY CorpusAssumption DEF Leases, LeaseRows

\* Drop gives every changed row the status and no lease, and keeps the others.
LEMMA DropFacts ==
    ASSUME RowsTyped, NEW S \in SUBSET Items, NEW from, NEW to \in ItemStatuses, Drop(S, from, to)
    PROVE  /\ RowsTyped'
           /\ \A i \in Items : i \in S /\ status[i] \in from =>
                 status'[i] = to /\ lease'[i] = NoLease
           /\ \A i \in Items : ~(i \in S /\ status[i] \in from) =>
                 status'[i] = status[i] /\ lease'[i] = lease[i]
<1>1. /\ status' \in [Items -> ItemStatuses]
      /\ \A i \in Items : status'[i] = IF i \in S /\ status[i] \in from THEN to ELSE status[i]
    BY DEF Drop, RowsTyped
<1>2. /\ lease' \in [Items -> LeaseRows]
      /\ \A i \in Items : lease'[i] = IF i \in S /\ status[i] \in from THEN NoLease ELSE lease[i]
    BY NoLeaseTyped DEF Drop, RowsTyped
<1> QED BY <1>1, <1>2, NoLeaseTyped DEF RowsTyped

\* Leased rows, dropped together.
LEMMA DropLeasedFacts ==
    ASSUME RowsTyped, NEW S \in SUBSET Items, \A i \in S : status[i] = "leased",
           NEW to \in ItemStatuses, Drop(S, {"leased"}, to)
    PROVE  /\ RowsTyped'
           /\ \A i \in Items : IF i \in S THEN status'[i] = to /\ lease'[i] = NoLease
                                ELSE status'[i] = status[i] /\ lease'[i] = lease[i]
<1>1. /\ RowsTyped'
      /\ \A i \in Items : i \in S /\ status[i] \in {"leased"} =>
            status'[i] = to /\ lease'[i] = NoLease
      /\ \A i \in Items : ~(i \in S /\ status[i] \in {"leased"}) =>
            status'[i] = status[i] /\ lease'[i] = lease[i]
    BY DropFacts
<1> QED BY <1>1

\* Whoever owns an item has it leased under its token.
LEMMA OwnsIsLeased ==
    ASSUME CorpusInv, NEW t \in Tokens, NEW i \in Items, Owns(t, i)
    PROVE  status[i] \in {"leased", "retired"} /\ lease[i].token = t /\ i \in grant[t].items
BY CorpusAssumption DEF Owns, CorpusInv, Matched

-----------------------------------------------------------------------------
(* The invariant is inductive.                                             *)

LEMMA CorpusInitInv == Init => CorpusInv
<1> SUFFICES ASSUME Init
             PROVE  CorpusInv
    OBVIOUS
<1>1. RowsTyped
    BY NoLeaseTyped DEF Init, RowsTyped, ItemStatuses
<1>2. GrantsTyped
    BY DEF Init, GrantsTyped
<1>3. ReadingsTyped /\ \A i \in Items : Matched(i)
    BY NoLeaseTyped DEF Init, ReadingsTyped, Matched
<1> QED BY <1>1, <1>2, <1>3 DEF CorpusInv

\* A step that grants nothing keeps the invariant if every row is as it was, or
\* has lost its lease, or is retired after an answer.
LEMMA DroppingKeepsInv ==
    ASSUME CorpusInv, RowsTyped', GrantsTyped', ReadingsTyped', grant' = grant,
           exposures \subseteq exposures',
           \A i \in Items :
              \/ status'[i] = status[i] /\ lease'[i] = lease[i]
              \/ status'[i] # "leased" /\ lease'[i] = NoLease
              \/ status'[i] = "retired" /\ Answered(i)' /\ lease'[i] = lease[i]
    PROVE  CorpusInv'
<1> USE DEF CorpusInv
<1>1. ASSUME NEW i \in Items
      PROVE  Answered(i) => Answered(i)'
    BY DEF Answered
<1>2. ASSUME NEW i \in Items
      PROVE  Matched(i)'
  <2>1. CASE status'[i] = status[i] /\ lease'[i] = lease[i]
      BY <1>1, <2>1 DEF Matched
  <2>2. CASE status'[i] # "leased" /\ lease'[i] = NoLease
      BY <2>2, NoLeaseTyped DEF Matched
  <2>3. CASE status'[i] = "retired" /\ Answered(i)' /\ lease'[i] = lease[i]
      BY <2>3 DEF Matched
  <2> QED BY <2>1, <2>2, <2>3
<1> QED BY <1>2

LEMMA RegisterKeepsInv ==
    ASSUME CorpusInv, NEW S \in SUBSET Items, NEW valid \in BOOLEAN, Register(S, valid)
    PROVE  CorpusInv'
<1> USE DEF CorpusInv
<1>1. /\ status' = [i \in Items |-> IF i \notin S THEN status[i]
                                    ELSE IF valid THEN "active" ELSE "quarantined"]
      /\ \A i \in S : status[i] = "absent"
      /\ UNCHANGED <<lease, grant, exposures, retiring>>
    BY DEF Register
<1>2. RowsTyped'
    BY <1>1 DEF RowsTyped, ItemStatuses
<1>3. GrantsTyped'
  <2>1. \A i \in Items : FamilyOf[GroupOf[i]] \in Families
      BY CorpusAssumption DEF Families
  <2>2. contaminated' \subseteq Families
      BY <2>1 DEF Register, GrantsTyped
  <2> QED BY <1>1, <2>2 DEF GrantsTyped
<1>4. \A i \in Items : Matched(i)'
    BY <1>1 DEF Matched, Answered
<1>5. ReadingsTyped'
    BY <1>1 DEF ReadingsTyped
<1> QED BY <1>2, <1>3, <1>4, <1>5

LEMMA RecoverKeepsInv ==
    ASSUME CorpusInv, Recover
    PROVE  CorpusInv'
<1> USE DEF CorpusInv
<1>1. /\ Drop(Expired, {"leased"}, "active") /\ Expired \in SUBSET Items /\ "active" \in ItemStatuses
      /\ UNCHANGED <<grant, exposures, contaminated, retiring>>
    BY DEF Recover, Expired, ItemStatuses
<1>2. RowsTyped' /\ GrantsTyped' /\ ReadingsTyped'
    BY <1>1, DropFacts DEF GrantsTyped, ReadingsTyped
<1>3. \A i \in Items :
          \/ status'[i] = status[i] /\ lease'[i] = lease[i]
          \/ status'[i] # "leased" /\ lease'[i] = NoLease
    BY <1>1, DropFacts
<1> QED BY <1>1, <1>2, <1>3, DroppingKeepsInv

LEMMA ReleaseKeepsInv ==
    ASSUME CorpusInv, NEW t \in Tokens, NEW i \in Items, ReleaseLease(t, i)
    PROVE  CorpusInv'
<1> USE DEF CorpusInv
<1>1. /\ Drop({i}, {"leased"}, "active") /\ {i} \in SUBSET Items /\ "active" \in ItemStatuses
      /\ UNCHANGED <<grant, exposures, contaminated, retiring>>
    BY DEF ReleaseLease, ItemStatuses
<1>2. RowsTyped' /\ GrantsTyped' /\ ReadingsTyped'
    BY <1>1, DropFacts DEF GrantsTyped, ReadingsTyped
<1>3. \A j \in Items :
          \/ status'[j] = status[j] /\ lease'[j] = lease[j]
          \/ status'[j] # "leased" /\ lease'[j] = NoLease
    BY <1>1, DropFacts
<1> QED BY <1>1, <1>2, <1>3, DroppingKeepsInv

\* What is exposed is an exposure of the grant's owner.
LEMMA ExposedFacts ==
    ASSUME CorpusInv, NEW t \in Tokens, NEW i \in Items, NEW answer \in BOOLEAN, grant[t] # NULL
    PROVE  /\ Exposed(t, i, answer) \in Exposures
           /\ Exposed(t, i, answer).item = i
           /\ Exposed(t, i, answer).answer = answer
BY DEF CorpusInv, GrantsTyped, Grants, Exposures, Exposed

LEMMA ExposureKeepsInv ==
    ASSUME CorpusInv, NEW t \in Tokens, NEW i \in Items, NEW answer \in BOOLEAN,
           RecordExposure(t, i, answer)
    PROVE  CorpusInv'
<1> USE DEF CorpusInv
<1>1. /\ grant[t] # NULL /\ exposures' = exposures \union {Exposed(t, i, answer)}
      /\ UNCHANGED <<status, lease, grant, contaminated, retiring>>
    BY DEF RecordExposure, Owns
<1>2. RowsTyped' /\ GrantsTyped' /\ ReadingsTyped'
    BY <1>1, ExposedFacts DEF RowsTyped, GrantsTyped, ReadingsTyped
<1> QED BY <1>1, <1>2, DroppingKeepsInv

LEMMA ReturnKeepsInv ==
    ASSUME CorpusInv, NEW t \in Tokens, NEW i \in Items, RecordPromptAndReturn(t, i)
    PROVE  CorpusInv'
<1> USE DEF CorpusInv
<1>1. /\ grant[t] # NULL /\ exposures' = exposures \union {Exposed(t, i, FALSE)}
      /\ UNCHANGED <<grant, contaminated, retiring>>
    BY DEF RecordPromptAndReturn, Owns
<1>2. GrantsTyped' /\ ReadingsTyped'
    BY <1>1, ExposedFacts DEF GrantsTyped, ReadingsTyped
<1>3. /\ status' = [status EXCEPT ![i] = "active"] /\ lease' = [lease EXCEPT ![i] = NoLease]
    BY DEF RecordPromptAndReturn
<1>4. RowsTyped'
    BY <1>3, NoLeaseTyped DEF RowsTyped, ItemStatuses
<1>5. \A j \in Items :
          \/ status'[j] = status[j] /\ lease'[j] = lease[j]
          \/ status'[j] # "leased" /\ lease'[j] = NoLease
    BY <1>3 DEF RowsTyped
<1> QED BY <1>1, <1>2, <1>4, <1>5, DroppingKeepsInv

\* Nothing but what a retirement has read changes, and as it should.
LEMMA ReadingKeepsInv ==
    ASSUME CorpusInv, ReadingsTyped', UNCHANGED <<status, lease, grant, exposures, contaminated>>
    PROVE  CorpusInv'
<1> USE DEF CorpusInv
<1>1. RowsTyped' /\ GrantsTyped'
    BY DEF RowsTyped, GrantsTyped
<1> QED BY <1>1, DroppingKeepsInv

LEMMA ReadSiblingsKeepsInv ==
    ASSUME CorpusInv, NEW t \in Tokens, NEW i \in Items, ReadSiblings(t, i)
    PROVE  CorpusInv'
<1> DEFINE found == {j \in Siblings(i) : status[j] \in {"active", "leased"}}
           read  == [token |-> t, seen |-> found, leased |-> {j \in found : lease[j] # NoLease}]
<1>1. /\ grant[t] # NULL /\ retiring' = [retiring EXCEPT ![i] = read]
      /\ UNCHANGED <<status, lease, grant, exposures, contaminated>>
    BY DEF ReadSiblings, Owns
<1>2. /\ read \in Readings /\ read.token = t
      /\ read.seen \subseteq Siblings(i) /\ read.leased \subseteq read.seen
    BY DEF Readings, Siblings
<1> HIDE DEF read
<1>3. ReadingsTyped'
    BY <1>1, <1>2 DEF CorpusInv, ReadingsTyped, Siblings
<1> QED BY <1>1, <1>3, ReadingKeepsInv

LEMMA AbortKeepsInv ==
    ASSUME CorpusInv, NEW i \in Items, Abort(i)
    PROVE  CorpusInv'
<1>1. ReadingsTyped'
    BY DEF Abort, CorpusInv, ReadingsTyped, Siblings
<1> QED BY <1>1, ReadingKeepsInv DEF Abort

LEMMA RetireKeepsInv ==
    ASSUME CorpusInv, NEW i \in Items, Retire(i)
    PROVE  CorpusInv'
<1> USE DEF CorpusInv
<1> DEFINE read == retiring[i]
<1>1. /\ read \in Readings /\ grant[read.token] # NULL
      /\ read.seen \subseteq Siblings(i) /\ read.leased \subseteq read.seen
    BY DEF Retire, ReadingsTyped
<1>2. read.token \in Tokens /\ read.seen \subseteq Items
    BY <1>1 DEF Readings
<1>3. /\ exposures' = exposures \union {Exposed(read.token, i, TRUE)}
      /\ RetireRows(read.seen, read.leased)
      /\ retiring' = [retiring EXCEPT ![i] = NULL]
      /\ UNCHANGED <<grant, contaminated>>
    BY DEF Retire
<1> HIDE DEF read
<1>4. GrantsTyped'
    BY <1>1, <1>2, <1>3, ExposedFacts DEF GrantsTyped
<1>5. ReadingsTyped'
    BY <1>3 DEF ReadingsTyped, Siblings
<1>6. /\ status' \in [Items -> ItemStatuses] /\ lease' \in [Items -> LeaseRows]
      /\ \A j \in Items :
            /\ status'[j] = IF j \in read.seen /\ status[j] # "quarantined" THEN "retired" ELSE status[j]
            /\ lease'[j] = IF j \in read.leased THEN NoLease ELSE lease[j]
    BY <1>3, NoLeaseTyped DEF RetireRows, RowsTyped, ItemStatuses
<1>7. RowsTyped'
    BY <1>6, NoLeaseTyped DEF RowsTyped
<1>8. ASSUME NEW j \in read.seen
      PROVE  Answered(j)'
  <2>1. /\ Exposed(read.token, i, TRUE) \in exposures'
        /\ Exposed(read.token, i, TRUE).answer /\ Exposed(read.token, i, TRUE).item = i
      BY <1>1, <1>2, <1>3, ExposedFacts
  <2>2. GroupOf[j] = GroupOf[i]
      BY <1>1, <1>8 DEF Siblings
  <2> QED BY <2>1, <2>2 DEF Answered
<1>9. ASSUME NEW j \in Items
      PROVE  \/ status'[j] = status[j] /\ lease'[j] = lease[j]
             \/ status'[j] # "leased" /\ lease'[j] = NoLease
             \/ status'[j] = "retired" /\ Answered(j)' /\ lease'[j] = lease[j]
  <2>1. CASE j \notin read.seen
      BY <1>1, <1>6, <2>1
  <2>2. CASE j \in read.seen
      BY <1>6, <1>8, <2>2
  <2> QED BY <2>1, <2>2
<1> QED BY <1>3, <1>4, <1>5, <1>7, <1>9, DroppingKeepsInv

LEMMA QuarantineKeepsInv ==
    ASSUME CorpusInv, NEW i \in Items, NEW closeFamily \in BOOLEAN, Quarantine(i, closeFamily)
    PROVE  CorpusInv'
<1> USE DEF CorpusInv
<1>1. PICK closed \in SUBSET Items :
          /\ Drop(closed, {"active", "leased", "retired"}, "quarantined")
          /\ "quarantined" \in ItemStatuses
          /\ UNCHANGED <<grant, exposures, retiring>>
    BY DEF Quarantine, ItemStatuses
<1>2. GrantsTyped'
  <2>1. FamilyOf[GroupOf[i]] \in Families
      BY CorpusAssumption DEF Families
  <2>2. contaminated' \subseteq Families
      BY <2>1 DEF Quarantine, GrantsTyped
  <2> QED BY <1>1, <2>2 DEF GrantsTyped
<1>3. RowsTyped' /\ ReadingsTyped'
    BY <1>1, DropFacts DEF ReadingsTyped
<1>4. \A j \in Items :
          \/ status'[j] = "quarantined" /\ lease'[j] = NoLease
          \/ status'[j] = status[j] /\ lease'[j] = lease[j]
    BY <1>1, DropFacts
<1> QED BY <1>1, <1>2, <1>3, <1>4, DroppingKeepsInv

LEMMA TickKeepsInv ==
    ASSUME CorpusInv, Tick
    PROVE  CorpusInv'
<1> USE DEF CorpusInv
<1> DEFINE later(l) == IF l.left > 0 THEN l.left - 1 ELSE 0
<1>1. /\ lease' = [i \in Items |-> [lease[i] EXCEPT !.left = later(lease[i])]]
      /\ UNCHANGED <<status, grant, exposures, contaminated, retiring>>
    BY DEF Tick
<1>2. ASSUME NEW l \in LeaseRows
      PROVE  /\ [l EXCEPT !.left = later(l)] \in LeaseRows
             /\ [l EXCEPT !.left = later(l)].token = l.token
             /\ [l EXCEPT !.left = later(l)].owner = l.owner
             /\ [l EXCEPT !.left = later(l)].left = later(l)
    BY CorpusAssumption DEF LeaseRows
<1>3. \A i \in Items : /\ lease'[i] \in LeaseRows
                       /\ lease'[i].token = lease[i].token /\ lease'[i].owner = lease[i].owner
                       /\ lease'[i].left = later(lease[i])
    BY <1>1, <1>2 DEF RowsTyped
<1>4. \A l \in LeaseRows : l.token # NULL /\ l.owner # NULL => l \in Leases
    BY DEF LeaseRows, Leases
<1>5. \A i \in Items : lease[i].token = NULL => lease'[i] = NoLease
  <2>1. later(NoLease) = 0
      BY NoLeaseTyped
  <2> HIDE DEF later
  <2>2. [NoLease EXCEPT !.left = later(NoLease)] = NoLease
      BY <2>1 DEF NoLease
  <2> QED BY <1>1, <2>2 DEF RowsTyped
<1>6. \A i \in Items : lease[i].token # NULL => lease'[i] \in Leases
    BY <1>3, <1>4, CorpusAssumption DEF RowsTyped, Leases
<1>7. RowsTyped'
    BY <1>1, <1>3, <1>5, <1>6 DEF RowsTyped
<1>8. GrantsTyped'
    BY <1>1 DEF GrantsTyped
<1>9. \A i \in Items : Matched(i)'
    BY <1>1, <1>3 DEF Matched, Answered
<1>10. ReadingsTyped'
    BY <1>1 DEF ReadingsTyped
<1> QED BY <1>7, <1>8, <1>9, <1>10

\* A grant that takes back the leases of R in the same transaction.
GrantAnew(o, s, S, R, t) ==
    /\ grant[t] = NULL
    /\ status' = [i \in Items |-> IF i \in S THEN "leased"
                                  ELSE IF i \in R THEN "active" ELSE status[i]]
    /\ lease' = [i \in Items |->
                    IF i \in S THEN [owner |-> o, token |-> t, left |-> LeaseFor]
                    ELSE IF i \in R THEN NoLease ELSE lease[i]]
    /\ grant' = [grant EXCEPT ![t] = [owner |-> o, student |-> s, items |-> S]]
    /\ UNCHANGED <<exposures, contaminated, retiring>>

\* A lease of items S, in a transaction that takes back the leases R.
LEMMA GrantingKeepsInv ==
    ASSUME CorpusInv, NEW o \in Owners, NEW s \in Students, NEW t \in Tokens,
           NEW S \in SUBSET Items, NEW R \in SUBSET Items,
           GrantAnew(o, s, S, R, t)
    PROVE  CorpusInv'
<1> USE DEF CorpusInv
<1> DEFINE fresh == [owner |-> o, token |-> t, left |-> LeaseFor]
           given == [owner |-> o, student |-> s, items |-> S]
<1>1. /\ grant[t] = NULL
      /\ status' = [i \in Items |-> IF i \in S THEN "leased"
                                    ELSE IF i \in R THEN "active" ELSE status[i]]
      /\ lease' = [i \in Items |-> IF i \in S THEN fresh
                                   ELSE IF i \in R THEN NoLease ELSE lease[i]]
      /\ grant' = [grant EXCEPT ![t] = given]
      /\ UNCHANGED <<exposures, contaminated, retiring>>
    BY DEF GrantAnew
<1>3. /\ fresh \in Leases /\ fresh \in LeaseRows /\ fresh.token = t /\ fresh.owner = o
      /\ fresh.left = LeaseFor /\ t # NULL
    BY LeasesAreRows, CorpusAssumption DEF Leases
<1>4. given \in Grants /\ given # NULL /\ given.owner = o /\ given.items = S
    BY GrantAssumption DEF Grants
<1> HIDE DEF fresh, given
<1>5. RowsTyped'
    BY <1>1, <1>3, NoLeaseTyped DEF RowsTyped, ItemStatuses
<1>6. GrantsTyped'
    BY <1>1, <1>4 DEF GrantsTyped
<1>7. /\ grant'[t] = given /\ \A u \in Tokens \ {t} : grant'[u] = grant[u]
      /\ \A i \in Items : lease[i].token # t
    BY <1>1, <1>3 DEF GrantsTyped, RowsTyped, Matched
<1>8. \A i \in Items :
          IF i \in S THEN status'[i] = "leased" /\ lease'[i] = fresh
          ELSE IF i \in R THEN status'[i] = "active" /\ lease'[i] = NoLease
          ELSE status'[i] = status[i] /\ lease'[i] = lease[i]
    BY <1>1
<1>9. \A i \in Items : Matched(i)'
  <2> SUFFICES ASSUME NEW i \in Items
               PROVE  Matched(i)'
      OBVIOUS
  <2>1. CASE i \in S
      BY <1>3, <1>4, <1>7, <1>8, <2>1 DEF Matched
  <2>2. CASE i \notin S /\ i \in R
      BY <1>8, <2>2, NoLeaseTyped DEF Matched
  <2>3. CASE i \notin S /\ i \notin R
    <3>1. lease[i].token # NULL => lease[i].token \in Tokens \ {t}
        BY <1>7 DEF RowsTyped, Leases
    <3>2. Answered(i)' <=> Answered(i)
        BY <1>1 DEF Answered
    <3> QED BY <1>7, <1>8, <2>3, <3>1, <3>2 DEF Matched
  <2> QED BY <2>1, <2>2, <2>3
<1>10. ReadingsTyped'
  <2>1. \A i \in Items : retiring[i] # NULL => grant'[retiring[i].token] # NULL
      BY <1>4, <1>7 DEF ReadingsTyped, Readings
  <2> QED BY <1>1, <2>1 DEF ReadingsTyped, Siblings
<1> QED BY <1>5, <1>6, <1>9, <1>10

LEMMA GrantKeepsInv ==
    ASSUME CorpusInv, NEW o \in Owners, NEW s \in Students, NEW t \in Tokens,
           NEW S \in SUBSET Leasable(s), Grant(o, s, S, t)
    PROVE  CorpusInv'
<1>1. S \in SUBSET Items /\ Expired \in SUBSET Items
    BY DEF Leasable, Expired
<1> QED BY <1>1, GrantingKeepsInv DEF Grant, GrantAnew

LEMMA CorpusNextKeepsInv == CorpusInv /\ [Next]_corpusVars => CorpusInv'
<1> SUFFICES ASSUME CorpusInv, [Next]_corpusVars
             PROVE  CorpusInv'
    OBVIOUS
<1>1. ASSUME NEW S \in SUBSET Items, NEW valid \in BOOLEAN, Register(S, valid)
      PROVE  CorpusInv'
    BY <1>1, RegisterKeepsInv
<1>2. CASE Recover
    BY <1>2, RecoverKeepsInv
<1>3. ASSUME NEW o \in Owners, NEW s \in Students, NEW t \in Tokens,
             LeaseItem(o, s, t) \/ LeaseMatchedGroup(o, s, t)
      PROVE  CorpusInv'
  <2>1. PICK S \in SUBSET Leasable(s) : Grant(o, s, S, t)
    <3>1. CASE LeaseItem(o, s, t)
        BY <3>1 DEF LeaseItem
    <3>2. CASE LeaseMatchedGroup(o, s, t)
        BY <3>2 DEF LeaseMatchedGroup, Blocks
    <3> QED BY <1>3, <3>1, <3>2
  <2> QED BY <2>1, GrantKeepsInv
<1>4. ASSUME NEW t \in Tokens, NEW i \in Items,
             \/ ReleaseLease(t, i) \/ RecordPromptAndReturn(t, i) \/ ReadSiblings(t, i)
             \/ \E answer \in BOOLEAN : RecordExposure(t, i, answer)
      PROVE  CorpusInv'
    BY <1>4, ReleaseKeepsInv, ReturnKeepsInv, ReadSiblingsKeepsInv, ExposureKeepsInv
<1>5. ASSUME NEW i \in Items, Retire(i) \/ Abort(i)
      PROVE  CorpusInv'
    BY <1>5, RetireKeepsInv, AbortKeepsInv
<1>6. ASSUME NEW i \in Items, NEW closeFamily \in BOOLEAN, Quarantine(i, closeFamily)
      PROVE  CorpusInv'
    BY <1>6, QuarantineKeepsInv
<1>7. CASE Tick
    BY <1>7, TickKeepsInv
<1>8. CASE UNCHANGED corpusVars
    BY <1>8 DEF corpusVars, CorpusInv, RowsTyped, GrantsTyped, ReadingsTyped, Matched, Answered
<1> QED BY <1>1, <1>2, <1>3, <1>4, <1>5, <1>6, <1>7, <1>8 DEF Next

\* In every behaviour, for any inventory: rows, grants and exposures are what
\* they are typed as, and CorpusInv relates them.
THEOREM CorpusInvariance == Spec => []CorpusInv
BY CorpusInitInv, CorpusNextKeepsInv, PTL DEF Spec

\* In every behaviour of the inventory, whoever presents whatever token when,
\* and whatever is leased while a retirement is between its query and its
\* writes: an item's lease is that of a grant of this item to this owner, and
\* it survives on a row that is not leased only where an answer was shown.
THEOREM LeasesMatch == Spec => []LeasesMatchGrants
<1>1. CorpusInv => LeasesMatchGrants
    BY NoLeaseTyped DEF CorpusInv, Matched, Answered, LeasesMatchGrants, RowsTyped
<1> QED BY <1>1, CorpusInvariance, PTL

\* The rows stay rows, whatever is registered, granted, exposed or closed.
THEOREM CorpusTypeCorrect == Spec => []CorpusTypeOK
<1>1. CorpusInv => CorpusTypeOK
    BY DEF CorpusInv, RowsTyped, GrantsTyped, ReadingsTyped, CorpusTypeOK, ItemStatuses
<1> QED BY <1>1, CorpusInvariance, PTL
=============================================================================
