--------------------------- MODULE WorkflowProofs ---------------------------
(***************************************************************************)
(* Theorems about the two workflows (DevelopmentalWorkflow,                *)
(* AlgebraWorkflow), for any runs, workers, students, items and groups.    *)
(***************************************************************************)
EXTENDS AlgebraWorkflow, FiniteSetTheorems, TLAPS

-----------------------------------------------------------------------------
(* The inventory.  A block is leased as a whole, and if groups have no     *)
(* room for two, nobody else leases items of its group.                    *)

LeaseRow == [owner : Runs \union {NULL}, token : Tokens \union {NULL}, left : Nat]

InventoryTyped ==
    /\ status \in [Items -> {"active", "leased", "retired"}]
    /\ lease \in [Items -> LeaseRow]
    /\ grant \in [Tokens -> Corpus!Grants \union {NULL}]
    /\ \A i \in Items : status[i] = "leased" => lease[i].token # NULL
    /\ \A i \in Items : lease[i].token # NULL => status[i] \in {"leased", "retired"}

GrantsAreBlocks ==
    \A t \in Tokens : grant[t] # NULL =>
        /\ Cardinality(grant[t].items) = Count
        /\ \A i, j \in grant[t].items : GroupOf[i] = GroupOf[j]
        /\ grant[t].student = StudentOf[grant[t].owner]

\* An item under a lease is of the block that its token was granted; and it is
\* leased with the rest of it, or retired with the rest of it.
LeasedTogether ==
    \A i \in Items : lease[i].token # NULL =>
        /\ grant[lease[i].token] # NULL
        /\ lease[i].owner = grant[lease[i].token].owner
        /\ i \in grant[lease[i].token].items
        /\ \A j \in grant[lease[i].token].items :
              /\ status[j] = status[i]
              /\ status[i] = "leased" =>
                    lease[j].token = lease[i].token /\ lease[j].left = lease[i].left

OneLeasePerGroup ==
    \A i, j \in Items :
        lease[i].token # NULL /\ lease[j].token # NULL /\ GroupOf[i] = GroupOf[j]
        => lease[i].token = lease[j].token

\* Who leases a group is the only one who showed it to the student.
SeenByLessee ==
    \A e \in exposures, i \in Items :
        /\ lease[i].token # NULL
        /\ e.student = grant[lease[i].token].student /\ GroupOf[e.item] = GroupOf[i]
        => e.owner = grant[lease[i].token].owner

\* Without room for two blocks in a group, its lessee and its reader are one.
\* And no lease outlives the retirement of its row.
RetiredUnleased == \A i \in Items : status[i] = "retired" => lease[i].token = NULL

GroupsApart == OneBlockPerGroup =>
    OneLeasePerGroup /\ RetiredUnleased /\ SeenByLessee /\ GroupSeenInOneRun

InventoryInv == InventoryTyped /\ GrantsAreBlocks /\ LeasedTogether /\ GroupsApart

\* What the workflows do to the inventory.
Shows(t) ==
    /\ exposures \subseteq exposures'
    /\ \A e \in exposures' \ exposures :
          \E i \in Items, answer \in BOOLEAN :
             Corpus!Owns(t, i) /\ e = Corpus!Exposed(t, i, answer)

Found(t) ==
    (grant[t].items \ {Cold(grant[t].items)}) \union
    {i \in Corpus!Siblings(Cold(grant[t].items)) : status[i] \in {"active", "leased"}}

Retires(t) ==
    /\ \A i \in grant[t].items : Corpus!Owns(t, i)
    /\ Shows(t)
    /\ \E ended \in SUBSET (Corpus!Siblings(Cold(grant[t].items)) \ grant[t].items) :
          Corpus!RetireRows(Found(t), (Found(t) \intersect grant[t].items) \union ended)
    /\ grant' = grant

InventoryStep ==
    \/ \E r \in Runs, t \in Tokens : \E block \in Corpus!Blocks(StudentOf[r]) :
          Corpus!Grant(r, StudentOf[r], block, t)
    \/ \E t \in Tokens : ReleaseBlock(t)
    \/ \E t \in Tokens : Shows(t) /\ UNCHANGED <<status, lease, grant>>
    \/ \E t \in Tokens : grant[t] # NULL /\ Retires(t)
    \/ Corpus!Tick
    \/ UNCHANGED <<status, lease, grant, exposures>>

-----------------------------------------------------------------------------
LEMMA NoLeaseRow == Corpus!NoLease \in LeaseRow /\ Corpus!NoLease.token = NULL
BY DEF Corpus!NoLease, LeaseRow

LEMMA SameCardinality ==
    ASSUME NEW S
    PROVE  Corpus!Cardinality(S) = Cardinality(S)
BY DEF Corpus!Cardinality, Cardinality

LEMMA BlockFacts ==
    ASSUME InventoryInv, NEW t \in Tokens, grant[t] # NULL
    PROVE  /\ grant[t].items \subseteq Items /\ IsFiniteSet(grant[t].items)
           /\ Cold(grant[t].items) \in grant[t].items
           /\ grant[t].owner \in Runs /\ grant[t].student = StudentOf[grant[t].owner]
<1>1. grant[t].items \in SUBSET Items /\ grant[t].owner \in Runs
    BY DEF InventoryInv, InventoryTyped, Corpus!Grants
<1>2. IsFiniteSet(grant[t].items)
    BY <1>1, WorkflowAssumption, FS_Subset
<1>3. grant[t].items # {}
  <2>1. Cardinality(grant[t].items) = 3
      BY WorkflowAssumption DEF InventoryInv, GrantsAreBlocks
  <2>2. Cardinality({}) = 0
      BY FS_EmptySet
  <2> QED BY <2>1, <2>2
<1> QED BY <1>1, <1>2, <1>3 DEF Cold, InventoryInv, GrantsAreBlocks

LEMMA OwnsFacts ==
    ASSUME InventoryInv, NEW t \in Tokens, NEW i \in Items
    PROVE  Corpus!Owns(t, i) <=> lease[i].token = t
BY WorkflowAssumption DEF Corpus!Owns, InventoryInv, LeasedTogether

\* A step that only ends leases keeps those of the blocks that it leaves whole.
LEMMA EndingKeeps ==
    ASSUME InventoryInv, grant' = grant,
           status' \in [Items -> {"active", "leased", "retired"}], lease' \in [Items -> LeaseRow],
           \A i \in Items :
              /\ lease'[i] = lease[i] \/ lease'[i] = Corpus!NoLease
              /\ status'[i] = "leased" => status[i] = "leased" /\ lease'[i] = lease[i]
              /\ lease'[i].token # NULL => status'[i] \in {"leased", "retired"},
           \A i \in Items : lease'[i].token # NULL =>
              \A j \in grant[lease[i].token].items :
                 /\ status'[j] = status'[i]
                 /\ status'[i] = "leased" => lease'[j] = lease[j]
    PROVE  /\ InventoryTyped' /\ GrantsAreBlocks' /\ LeasedTogether'
           /\ OneBlockPerGroup => OneLeasePerGroup'
<1>1. InventoryTyped'
    BY DEF InventoryInv, InventoryTyped
<1>2. GrantsAreBlocks'
    BY DEF InventoryInv, GrantsAreBlocks
<1>3. \A i \in Items : lease'[i].token # NULL => lease'[i] = lease[i]
    BY NoLeaseRow
<1>4. LeasedTogether'
    BY <1>3 DEF InventoryInv, LeasedTogether
<1>5. OneBlockPerGroup => OneLeasePerGroup'
    BY <1>3 DEF InventoryInv, GroupsApart, OneLeasePerGroup
<1> QED BY <1>1, <1>2, <1>4, <1>5

\* What is shown is shown by its lessee.
LEMMA ShowingKeeps ==
    ASSUME InventoryInv, NEW t \in Tokens, Shows(t), grant' = grant,
           \A i \in Items : lease'[i].token # NULL => lease'[i].token = lease[i].token
    PROVE  OneBlockPerGroup => SeenByLessee' /\ GroupSeenInOneRun'
<1> HAVE OneBlockPerGroup
<1>1. ASSUME NEW e \in exposures', e \notin exposures
      PROVE  \E i \in Items : /\ lease[i].token = t /\ GroupOf[e.item] = GroupOf[i] /\ grant[t] # NULL
                              /\ e.student = grant[t].student /\ e.owner = grant[t].owner
  <2>1. PICK i \in Items, answer \in BOOLEAN : Corpus!Owns(t, i) /\ e = Corpus!Exposed(t, i, answer)
      BY <1>1 DEF Shows
  <2>2. lease[i].token = t /\ grant[t] # NULL
      BY <2>1 DEF Corpus!Owns
  <2> QED BY <2>1, <2>2 DEF Corpus!Exposed
<1>2. \A e, f \in exposures' : e.student = f.student /\ GroupOf[e.item] = GroupOf[f.item] => e.owner = f.owner
    BY <1>1, WorkflowAssumption DEF InventoryInv, GroupsApart, SeenByLessee, OneLeasePerGroup, GroupSeenInOneRun
<1>3. \A e \in exposures', i \in Items :
        /\ lease'[i].token # NULL
        /\ e.student = grant[lease[i].token].student /\ GroupOf[e.item] = GroupOf[i]
        => e.owner = grant[lease[i].token].owner
    BY <1>1, WorkflowAssumption DEF InventoryInv, GroupsApart, SeenByLessee, OneLeasePerGroup
<1> QED BY <1>2, <1>3 DEF SeenByLessee, GroupSeenInOneRun

\* A leased item that has not run out leaves no room for a block in its group.
LEMMA NoRoomBeside ==
    ASSUME InventoryInv, OneBlockPerGroup, NEW s \in Students, NEW block \in Corpus!Blocks(s),
           NEW i \in Items, lease[i].token # NULL, i \notin Corpus!Expired,
           NEW j \in block, GroupOf[i] = GroupOf[j]
    PROVE  FALSE
<1> DEFINE t     == lease[i].token
           mine  == grant[t].items
           group == {k \in Items : GroupOf[k] = GroupOf[i]}
<1>1. /\ t \in Tokens /\ grant[t] # NULL /\ i \in mine
      /\ \A k \in mine : /\ status[k] = status[i]
                         /\ status[i] = "leased" => lease[k].left = lease[i].left
    BY DEF InventoryInv, InventoryTyped, LeaseRow, LeasedTogether
<1>2. mine \subseteq Items /\ IsFiniteSet(mine) /\ Cardinality(mine) = Count
    BY <1>1, BlockFacts DEF InventoryInv, GrantsAreBlocks
<1>3. mine \subseteq group
    BY <1>1, <1>2 DEF InventoryInv, GrantsAreBlocks
<1>4. /\ block \subseteq Corpus!Leasable(s) /\ Cardinality(block) = Count
      /\ \A k, l \in block : GroupOf[k] = GroupOf[l]
    BY SameCardinality DEF Corpus!Blocks
<1>5. \A k \in block : k \in Items /\ (status[k] = "active" \/ k \in Corpus!Expired)
    BY <1>4 DEF Corpus!Leasable
<1>6. block \subseteq group /\ IsFiniteSet(block)
    BY <1>4, <1>5, WorkflowAssumption, FS_Subset
<1>7. \A k \in mine : status[k] # "active" /\ ~(status[k] = "leased" /\ lease[k].left = 0)
  <2>1. status[i] \in {"leased", "retired"} /\ (status[i] = "leased" => lease[i].left # 0)
      BY DEF Corpus!Expired, InventoryInv, InventoryTyped
  <2> HIDE DEF mine
  <2> QED BY <1>1, <2>1
<1>8. mine \intersect block = {}
  <2> HIDE DEF mine
  <2> QED BY <1>5, <1>7 DEF Corpus!Expired
<1>9. /\ Cardinality(mine \union block) = 2 * Count
      /\ mine \union block \subseteq group /\ IsFiniteSet(mine \union block)
  <2>1. Cardinality(mine \intersect block) = 0
      BY <1>8, FS_EmptySet
  <2>2. /\ IsFiniteSet(mine \union block)
        /\ Cardinality(mine \union block)
              = Cardinality(mine) + Cardinality(block) - Cardinality(mine \intersect block)
      BY <1>2, <1>6, FS_Union
  <2> QED BY <1>2, <1>3, <1>4, <1>6, <2>1, <2>2, WorkflowAssumption
<1>10. IsFiniteSet(group) /\ Cardinality(group) < 2 * Count
  <2>1. GroupOf[i] \in Groups
      BY WorkflowAssumption
  <2> QED BY <2>1, WorkflowAssumption, FS_Subset DEF OneBlockPerGroup
<1>11. Cardinality(mine \union block) <= Cardinality(group)
    BY <1>9, <1>10, FS_Subset
<1>12. Cardinality(group) \in Nat
    BY <1>10, FS_CardinalityType
<1> QED
  <2> HIDE DEF group, mine
  <2> QED BY <1>9, <1>10, <1>11, <1>12, WorkflowAssumption

\* A block is leased of a group that the student never met, and that nobody
\* leases if it has no room for two.
LEMMA GrantKeeps ==
    ASSUME InventoryInv, NEW r \in Runs, NEW t \in Tokens, NEW block \in Corpus!Blocks(StudentOf[r]),
           Corpus!Grant(r, StudentOf[r], block, t)
    PROVE  InventoryInv'
<1> DEFINE s == StudentOf[r]
<1>1. s \in Students /\ NULL \notin Corpus!Grants
    BY WorkflowAssumption DEF Corpus!Grants
<1>2. /\ block \subseteq Corpus!Leasable(s) /\ Cardinality(block) = Count
      /\ \A k, l \in block : GroupOf[k] = GroupOf[l]
    BY SameCardinality DEF Corpus!Blocks
<1>3. block \subseteq Items
    BY <1>2 DEF Corpus!Leasable
<1>4. \A i \in block, e \in exposures : e.student = s => GroupOf[e.item] # GroupOf[i]
    BY <1>2 DEF Corpus!Leasable
<1>5. /\ grant[t] = NULL
      /\ exposures' = exposures
      /\ \A i \in Items :
            /\ status'[i] = IF i \in block THEN "leased" ELSE IF i \in Corpus!Expired THEN "active" ELSE status[i]
            /\ lease'[i] = IF i \in block THEN [owner |-> r, token |-> t, left |-> LeaseFor]
                           ELSE IF i \in Corpus!Expired THEN Corpus!NoLease ELSE lease[i]
    BY DEF Corpus!Grant
<1>6. /\ grant' \in [Tokens -> Corpus!Grants \union {NULL}]
      /\ grant'[t] = [owner |-> r, student |-> s, items |-> block]
      /\ \A u \in Tokens : u # t => grant'[u] = grant[u]
    BY <1>1, <1>3 DEF Corpus!Grant, Corpus!Grants, InventoryInv, InventoryTyped
<1>7. grant'[t] # NULL /\ grant'[t].owner = r /\ grant'[t].student = s /\ grant'[t].items = block
  <2>1. [owner |-> r, student |-> s, items |-> block] # NULL
      BY <1>1, <1>3 DEF Corpus!Grants
  <2> QED BY <1>6, <2>1
<1>8. LeaseFor \in Nat /\ NULL \notin Tokens
    BY WorkflowAssumption
<1>9. InventoryTyped'
  <2>1. /\ status' \in [Items -> {"active", "leased", "retired"}]
        /\ lease' \in [Items -> LeaseRow]
      BY <1>5, <1>8, NoLeaseRow DEF Corpus!Grant, InventoryInv, InventoryTyped, LeaseRow
  <2>2. \A i \in Items : /\ status'[i] = "leased" => lease'[i].token # NULL
                         /\ lease'[i].token # NULL => status'[i] \in {"leased", "retired"}
      BY <1>5, <1>8, NoLeaseRow DEF InventoryInv, InventoryTyped
  <2> QED BY <1>6, <2>1, <2>2 DEF InventoryTyped
<1>10. GrantsAreBlocks'
  <2> SUFFICES ASSUME NEW u \in Tokens, grant'[u] # NULL
               PROVE  /\ Cardinality(grant'[u].items) = Count
                      /\ \A i, j \in grant'[u].items : GroupOf[i] = GroupOf[j]
                      /\ grant'[u].student = StudentOf[grant'[u].owner]
      BY DEF GrantsAreBlocks
  <2>1. CASE u = t BY <1>2, <1>7, <2>1
  <2>2. CASE u # t BY <1>6, <2>2 DEF InventoryInv, GrantsAreBlocks
  <2> QED BY <2>1, <2>2
\* What stays leased was leased before, and apart from the block.
<1>11. ASSUME NEW i \in Items, lease'[i].token # NULL, i \notin block
       PROVE  /\ lease'[i] = lease[i] /\ status'[i] = status[i]
              /\ lease[i].token \in Tokens \ {t} /\ i \notin Corpus!Expired
              /\ grant[lease[i].token] # NULL
              /\ \A j \in grant[lease[i].token].items :
                    j \in Items /\ j \notin block /\ lease'[j] = lease[j] /\ status'[j] = status[j]
              /\ OneBlockPerGroup => \A j \in block : GroupOf[i] # GroupOf[j]
  <2>1. i \notin Corpus!Expired /\ lease'[i] = lease[i] /\ status'[i] = status[i]
      BY <1>5, <1>11, NoLeaseRow
  <2>2. lease[i].token \in Tokens /\ grant[lease[i].token] # NULL
      BY <1>11, <2>1 DEF InventoryInv, LeasedTogether, InventoryTyped, LeaseRow
  <2>3. OneBlockPerGroup => \A j \in block : GroupOf[i] # GroupOf[j]
      BY <1>1, <1>11, <2>1, NoRoomBeside
  <2>4. ASSUME NEW j \in grant[lease[i].token].items
        PROVE  j \in Items /\ status[j] # "active" /\ j \notin Corpus!Expired
    <3>1. j \in Items /\ status[j] = status[i] /\ (status[i] = "leased" => lease[j].left = lease[i].left)
        BY <1>11, <2>1, <2>2, <2>4, BlockFacts DEF InventoryInv, LeasedTogether
    <3>2. status[i] \in {"leased", "retired"}
        BY <1>11, <2>1 DEF InventoryInv, InventoryTyped
    <3> QED BY <2>1, <3>1, <3>2 DEF Corpus!Expired
  <2>5. \A j \in grant[lease[i].token].items :
            j \in Items /\ j \notin block /\ lease'[j] = lease[j] /\ status'[j] = status[j]
      BY <1>2, <1>5, <2>4 DEF Corpus!Leasable
  <2> QED BY <1>5, <2>1, <2>2, <2>3, <2>5
<1>12. ASSUME NEW i \in Items, i \in block
       PROVE  /\ lease'[i].token = t /\ lease'[i].owner = r /\ lease'[i].left = LeaseFor
              /\ status'[i] = "leased"
    BY <1>5, <1>12
<1>13. LeasedTogether'
  <2> SUFFICES ASSUME NEW i \in Items, lease'[i].token # NULL
               PROVE  /\ grant'[lease'[i].token] # NULL
                      /\ lease'[i].owner = grant'[lease'[i].token].owner
                      /\ i \in grant'[lease'[i].token].items
                      /\ \A j \in grant'[lease'[i].token].items :
                            /\ status'[j] = status'[i]
                            /\ status'[i] = "leased" =>
                                  lease'[j].token = lease'[i].token /\ lease'[j].left = lease'[i].left
      BY DEF LeasedTogether
  <2>1. CASE i \in block BY <1>3, <1>7, <1>12, <2>1
  <2>2. CASE i \notin block
      BY <1>6, <1>11, <2>2 DEF InventoryInv, LeasedTogether
  <2> QED BY <2>1, <2>2
<1>14. OneBlockPerGroup => OneLeasePerGroup'
  <2> HAVE OneBlockPerGroup
  <2> SUFFICES ASSUME NEW i \in Items, NEW j \in Items, lease'[i].token # NULL, lease'[j].token # NULL,
                      GroupOf[i] = GroupOf[j]
               PROVE  lease'[i].token = lease'[j].token
      BY DEF OneLeasePerGroup
  <2>1. CASE i \in block /\ j \in block BY <1>12, <2>1
  <2>2. CASE i \in block /\ j \notin block BY <1>11, <2>2
  <2>3. CASE i \notin block /\ j \in block BY <1>11, <2>3
  <2>4. CASE i \notin block /\ j \notin block BY <1>11, <2>4 DEF InventoryInv, GroupsApart, OneLeasePerGroup
  <2> QED BY <2>1, <2>2, <2>3, <2>4
<1>15. OneBlockPerGroup => SeenByLessee'
  <2> HAVE OneBlockPerGroup
  <2> SUFFICES ASSUME NEW e \in exposures, NEW i \in Items, lease'[i].token # NULL,
                      e.student = grant'[lease'[i].token].student, GroupOf[e.item] = GroupOf[i]
               PROVE  e.owner = grant'[lease'[i].token].owner
      BY <1>5 DEF SeenByLessee
  <2>1. CASE i \in block BY <1>4, <1>7, <1>12, <2>1
  <2>2. CASE i \notin block BY <1>6, <1>11, <2>2 DEF InventoryInv, GroupsApart, SeenByLessee
  <2> QED BY <2>1, <2>2
<1>16. OneBlockPerGroup => GroupSeenInOneRun'
    BY <1>5 DEF InventoryInv, GroupsApart, GroupSeenInOneRun
<1>17. OneBlockPerGroup => RetiredUnleased'
    BY <1>5, <1>11, <1>12 DEF InventoryInv, GroupsApart, RetiredUnleased
<1> QED BY <1>9, <1>10, <1>13, <1>14, <1>15, <1>16, <1>17 DEF InventoryInv, GroupsApart

\* The rows of a block that are leased under its token are given back.
LEMMA ReleaseFacts ==
    ASSUME InventoryInv, NEW t \in Tokens, ReleaseBlock(t)
    PROVE  /\ exposures' = exposures /\ grant' = grant
           /\ status' \in [Items -> {"active", "leased", "retired"}] /\ lease' \in [Items -> LeaseRow]
           /\ \A i \in Items : IF lease[i].token = t /\ status[i] = "leased"
                               THEN status'[i] = "active" /\ lease'[i] = Corpus!NoLease
                               ELSE status'[i] = status[i] /\ lease'[i] = lease[i]
<1>1. \A i \in Items : Corpus!Owns(t, i) <=> lease[i].token = t
    BY OwnsFacts
<1> QED BY <1>1, NoLeaseRow DEF ReleaseBlock, Corpus!Drop, InventoryInv, InventoryTyped

LEMMA ReleaseKeeps ==
    ASSUME InventoryInv, NEW t \in Tokens, ReleaseBlock(t)
    PROVE  InventoryInv' /\ \A i \in Items : lease'[i].token = t => status'[i] = "retired"
<1>1. /\ exposures' = exposures /\ grant' = grant
      /\ status' \in [Items -> {"active", "leased", "retired"}] /\ lease' \in [Items -> LeaseRow]
      /\ \A i \in Items : IF lease[i].token = t /\ status[i] = "leased"
                          THEN status'[i] = "active" /\ lease'[i] = Corpus!NoLease
                          ELSE status'[i] = status[i] /\ lease'[i] = lease[i]
    BY ReleaseFacts
<1>2. \A i \in Items :
          /\ lease'[i] = lease[i] \/ lease'[i] = Corpus!NoLease
          /\ status'[i] = "leased" => status[i] = "leased" /\ lease'[i] = lease[i]
          /\ lease'[i].token # NULL => status'[i] \in {"leased", "retired"} /\ status'[i] = status[i]
                                       /\ lease'[i] = lease[i]
          /\ lease'[i].token = t => status'[i] = "retired"
    BY <1>1, NoLeaseRow, WorkflowAssumption DEF InventoryInv, InventoryTyped
<1>3. ASSUME NEW i \in Items, lease'[i].token # NULL, NEW j \in grant[lease[i].token].items
      PROVE  status'[j] = status'[i] /\ (status'[i] = "leased" => lease'[j] = lease[j])
  <2>1. lease[i].token \in Tokens /\ grant[lease[i].token] # NULL
      BY <1>2, <1>3 DEF InventoryInv, InventoryTyped, LeaseRow, LeasedTogether
  <2>2. /\ j \in Items /\ status[j] = status[i]
        /\ status[i] = "leased" => lease[j].token = lease[i].token
      BY <1>2, <1>3, <2>1, BlockFacts DEF InventoryInv, LeasedTogether
  <2>3. status[i] = "leased" => lease[i].token # t
      BY <1>2, <1>3
  <2> QED BY <1>1, <1>2, <1>3, <2>2, <2>3
<1>4. InventoryTyped' /\ GrantsAreBlocks' /\ LeasedTogether' /\ (OneBlockPerGroup => OneLeasePerGroup')
    BY <1>1, <1>2, <1>3, EndingKeeps
<1>5. OneBlockPerGroup => RetiredUnleased' /\ SeenByLessee' /\ GroupSeenInOneRun'
    BY <1>1, <1>2 DEF InventoryInv, GroupsApart, RetiredUnleased, SeenByLessee, GroupSeenInOneRun
<1> QED BY <1>2, <1>4, <1>5 DEF InventoryInv, GroupsApart

\* The group leaves the inventory, and its block the leases: all of it, but for
\* a cold item that had been retired.
LEMMA RetiringFacts ==
    ASSUME InventoryInv, NEW t \in Tokens, grant[t] # NULL, Retires(t)
    PROVE  LET block == grant[t].items  group == Corpus!Siblings(Cold(grant[t].items)) IN
           /\ grant' = grant /\ Shows(t) /\ block \subseteq group /\ Cold(block) \in block
           /\ \A i \in block : lease[i].token = t
           /\ status' \in [Items -> {"active", "leased", "retired"}] /\ lease' \in [Items -> LeaseRow]
           /\ \A i \in Items : status'[i] = IF i \in group THEN "retired" ELSE status[i]
           /\ \A i \in Items : lease'[i] = lease[i] \/ (i \in group /\ lease'[i] = Corpus!NoLease)
           /\ \A i \in block : i # Cold(block) \/ status[i] = "leased" => lease'[i] = Corpus!NoLease
<1> DEFINE block == grant[t].items
           cold  == Cold(block)
           group == Corpus!Siblings(cold)
<1>1. /\ block \subseteq Items /\ cold \in block
      /\ \A i, j \in block : GroupOf[i] = GroupOf[j]
    BY BlockFacts DEF InventoryInv, GrantsAreBlocks
<1>2. block \subseteq group /\ group \subseteq Items
    BY <1>1 DEF Corpus!Siblings
<1>3. \A i \in block : lease[i].token = t
    BY <1>1, OwnsFacts DEF Retires
<1>4. PICK ended \in SUBSET (group \ block) :
          Corpus!RetireRows(Found(t), (Found(t) \intersect block) \union ended)
    BY DEF Retires
<1>5. \A i \in Items : i \in Found(t) <=>
          (i \in block /\ i # cold) \/ (i \in group /\ status[i] \in {"active", "leased"})
    BY <1>1 DEF Found
<1>6. /\ grant' = grant /\ Shows(t)
      /\ status' = [i \in Items |-> IF i \in Found(t) /\ status[i] # "quarantined" THEN "retired"
                                    ELSE status[i]]
      /\ lease' = [i \in Items |-> IF i \in (Found(t) \intersect block) \union ended
                                   THEN Corpus!NoLease ELSE lease[i]]
    BY <1>4 DEF Retires, Corpus!RetireRows
<1> HIDE DEF block, cold, group
<1>7. /\ status' \in [Items -> {"active", "leased", "retired"}] /\ lease' \in [Items -> LeaseRow]
      /\ \A i \in Items : status'[i] = IF i \in group THEN "retired" ELSE status[i]
    BY <1>2, <1>5, <1>6, NoLeaseRow DEF InventoryInv, InventoryTyped
<1>8. \A i \in Items : lease'[i] = lease[i] \/ (i \in group /\ lease'[i] = Corpus!NoLease)
    BY <1>2, <1>6
<1>9. \A i \in block : i # cold \/ status[i] = "leased" => lease'[i] = Corpus!NoLease
    BY <1>1, <1>2, <1>5, <1>6
<1> QED BY <1>1, <1>2, <1>3, <1>6, <1>7, <1>8, <1>9 DEF block, cold, group

LEMMA RetiringKeeps ==
    ASSUME InventoryInv, NEW t \in Tokens, grant[t] # NULL, Retires(t)
    PROVE  /\ InventoryInv'
           /\ \A i \in Corpus!Siblings(Cold(grant[t].items)) : status'[i] = "retired"
           /\ \E i \in grant[t].items : lease'[i].token # t
<1> DEFINE block == grant[t].items
           cold  == Cold(block)
           group == Corpus!Siblings(cold)
<1>1. /\ grant' = grant /\ Shows(t) /\ block \subseteq group /\ cold \in block
      /\ \A i \in block : lease[i].token = t
      /\ status' \in [Items -> {"active", "leased", "retired"}] /\ lease' \in [Items -> LeaseRow]
      /\ \A i \in Items : status'[i] = IF i \in group THEN "retired" ELSE status[i]
      /\ \A i \in Items : lease'[i] = lease[i] \/ (i \in group /\ lease'[i] = Corpus!NoLease)
      /\ \A i \in block : i # cold \/ status[i] = "leased" => lease'[i] = Corpus!NoLease
    BY RetiringFacts
<1>2. \A i \in Items : i \in group <=> GroupOf[i] = GroupOf[cold]
    BY DEF Corpus!Siblings
<1>3. group \subseteq Items
    BY DEF Corpus!Siblings
<1>4. Cardinality(block) = 3 /\ IsFiniteSet(block)
    BY BlockFacts, WorkflowAssumption DEF InventoryInv, GrantsAreBlocks
<1> HIDE DEF block, cold, group
<1>5. \A i \in Items : lease'[i].token # NULL => lease'[i] = lease[i]
    BY <1>1, NoLeaseRow
<1>6. \A i \in Items :
          /\ status'[i] = "leased" => status[i] = "leased" /\ lease'[i] = lease[i]
          /\ lease'[i].token # NULL => status'[i] \in {"leased", "retired"}
    BY <1>1, <1>5 DEF InventoryInv, InventoryTyped
<1>7. ASSUME NEW i \in Items, lease'[i].token # NULL, NEW j \in grant[lease[i].token].items
      PROVE  status'[j] = status'[i] /\ (status'[i] = "leased" => lease'[j] = lease[j])
  <2>1. lease[i].token \in Tokens /\ grant[lease[i].token] # NULL /\ i \in grant[lease[i].token].items
      BY <1>5, <1>7 DEF InventoryInv, InventoryTyped, LeaseRow, LeasedTogether
  <2>2. j \in Items /\ status[j] = status[i] /\ GroupOf[i] = GroupOf[j]
      BY <1>5, <1>7, <2>1, BlockFacts DEF InventoryInv, LeasedTogether, GrantsAreBlocks
  <2> QED BY <1>1, <1>2, <2>2
<1>8. InventoryTyped' /\ GrantsAreBlocks' /\ LeasedTogether' /\ (OneBlockPerGroup => OneLeasePerGroup')
    BY <1>1, <1>6, <1>7, EndingKeeps
<1>9. OneBlockPerGroup => SeenByLessee' /\ GroupSeenInOneRun'
    BY <1>1, <1>5, ShowingKeeps
\* The one lease of the group was the block's.
<1>10. OneBlockPerGroup => RetiredUnleased'
  <2> HAVE OneBlockPerGroup
  <2> SUFFICES ASSUME NEW i \in Items, status'[i] = "retired", lease'[i].token # NULL
               PROVE  FALSE
      BY DEF RetiredUnleased
  <2>1. lease'[i] = lease[i] /\ status[i] = "leased"
      BY <1>5, <1>6 DEF InventoryInv, GroupsApart, RetiredUnleased, InventoryTyped
  <2>2. i \in group
      BY <1>1, <2>1
  <2>3. lease[i].token = t
      BY <1>1, <1>2, <1>3, <2>1, <2>2, WorkflowAssumption
         DEF InventoryInv, GroupsApart, OneLeasePerGroup
  <2>4. i \in block
      BY <2>1, <2>3 DEF InventoryInv, LeasedTogether, block
  <2> QED BY <1>1, <2>1, <2>4, NoLeaseRow
<1>11. \E i \in block : lease'[i].token # t
  <2>1. Cardinality({cold}) = 1
      BY FS_Singleton
  <2>2. \E i \in block : i # cold
      BY <1>1, <1>4, <2>1
  <2> QED BY <1>1, <2>2, NoLeaseRow, WorkflowAssumption
<1> QED BY <1>1, <1>3, <1>8, <1>9, <1>10, <1>11 DEF InventoryInv, GroupsApart, block, cold, group

LEMMA TickKeeps ==
    ASSUME InventoryInv, Corpus!Tick
    PROVE  InventoryInv'
<1>1. UNCHANGED <<status, grant, exposures>>
    BY DEF Corpus!Tick
<1>2. \A i \in Items : lease[i] \in LeaseRow
    BY DEF InventoryInv, InventoryTyped
<1>3. /\ lease' \in [Items -> LeaseRow]
      /\ \A i \in Items : /\ lease'[i].token = lease[i].token /\ lease'[i].owner = lease[i].owner
                          /\ lease'[i].left = IF lease[i].left > 0 THEN lease[i].left - 1 ELSE 0
    BY <1>2 DEF Corpus!Tick, LeaseRow
<1>4. InventoryTyped'
    BY <1>1, <1>3 DEF InventoryInv, InventoryTyped
<1>5. GrantsAreBlocks' /\ GroupsApart'
    BY <1>1, <1>3 DEF InventoryInv, GrantsAreBlocks, GroupsApart, OneBlockPerGroup,
                      OneLeasePerGroup, RetiredUnleased, SeenByLessee, GroupSeenInOneRun
<1>6. LeasedTogether'
  <2> SUFFICES ASSUME NEW i \in Items, lease[i].token # NULL
               PROVE  /\ grant[lease[i].token] # NULL
                      /\ lease'[i].owner = grant[lease[i].token].owner
                      /\ i \in grant[lease[i].token].items
                      /\ \A j \in grant[lease[i].token].items :
                            /\ status[j] = status[i]
                            /\ status[i] = "leased" =>
                                  lease'[j].token = lease'[i].token /\ lease'[j].left = lease'[i].left
      BY <1>1, <1>3 DEF LeasedTogether
  <2>1. lease[i].token \in Tokens /\ grant[lease[i].token] # NULL
      BY <1>2 DEF InventoryInv, LeasedTogether, LeaseRow
  <2>2. grant[lease[i].token].items \subseteq Items
      BY <2>1, BlockFacts
  <2> QED BY <1>3, <2>1, <2>2 DEF InventoryInv, LeasedTogether
<1> QED BY <1>4, <1>5, <1>6 DEF InventoryInv

LEMMA InventoryKept ==
    ASSUME InventoryInv, InventoryStep
    PROVE  InventoryInv'
<1>1. CASE \E r \in Runs, t \in Tokens : \E block \in Corpus!Blocks(StudentOf[r]) :
              Corpus!Grant(r, StudentOf[r], block, t)
    BY <1>1, GrantKeeps
<1>2. CASE \E t \in Tokens : ReleaseBlock(t)
    BY <1>2, ReleaseKeeps
<1>3. ASSUME NEW t \in Tokens, Shows(t), UNCHANGED <<status, lease, grant>>
      PROVE  InventoryInv'
  <2>1. OneBlockPerGroup => SeenByLessee' /\ GroupSeenInOneRun'
      BY <1>3, ShowingKeeps
  <2> QED BY <1>3, <2>1 DEF InventoryInv, InventoryTyped, GrantsAreBlocks, LeasedTogether, GroupsApart,
                            OneBlockPerGroup, OneLeasePerGroup, RetiredUnleased
<1>4. CASE \E t \in Tokens : grant[t] # NULL /\ Retires(t)
    BY <1>4, RetiringKeeps
<1>5. CASE Corpus!Tick
    BY <1>5, TickKeeps
<1>6. CASE UNCHANGED <<status, lease, grant, exposures>>
    BY <1>6 DEF InventoryInv, InventoryTyped, GrantsAreBlocks, LeasedTogether, GroupsApart,
                OneBlockPerGroup, OneLeasePerGroup, RetiredUnleased, SeenByLessee, GroupSeenInOneRun
<1> QED BY <1>1, <1>2, <1>3, <1>4, <1>5, <1>6 DEF InventoryStep

-----------------------------------------------------------------------------
(* The stages.                                                             *)

OwnPath == IF domain = "general" THEN Path ELSE AlgebraPath

Steps(path) == {path[k] : k \in 1..(Len(path) - 1)}

\* The stages whose handlers write what outlives the stage.
Teaching   == {"DOMAIN_COLD_VERIFIED", "TEACHER_REQUESTED"}
Retiring   == {"DOMAIN_MEMORY_DECIDED", "MEMORY_DECIDED"}
Committing == {"DOMAIN_MEMORY_DECIDED", "ITEMS_RETIRED"}

AfterCommitting == {"DOMAIN_EPISODE_COMMITTED", "EPISODE_COMMITTED", "COMPLETE"}
AfterRetiring   == {"EXPOSURES_RECORDED", "ITEMS_RETIRED"} \union AfterCommitting
AfterTeaching   ==
    {"DOMAIN_TEACHER_STORED", "DOMAIN_REVISION_VERIFIED", "DOMAIN_TRANSFER_VERIFIED",
     "DOMAIN_MEMORY_DECIDED", "TEACHER_RESPONSE_STORED", "COMMENT_VALIDATED", "REVISION_RUNNING",
     "REVISION_STORED", "REVISION_GRADED", "TRANSFER_RUNNING", "TRANSFER_STORED",
     "TRANSFER_GRADED", "MEMORY_DECIDED"} \union AfterRetiring

\* The stages in which a handler exposes items before it makes an attempt.
Showing == {"DOMAIN_STATE_FORKED", "DOMAIN_TEACHER_STORED", "DOMAIN_REVISION_VERIFIED"}
           \union Student

LEMMA StepFacts ==
    ASSUME NEW path \in {Path, AlgebraPath}, NEW s \in Steps(path)
    PROVE  s \notin Terminal \union {"ABSENT"}
<1>1. PICK k \in 1..(Len(path) - 1) : path[k] = s
    BY DEF Steps
<1>2. CASE path = Path BY <1>1, <1>2 DEF Path, Terminal
<1>3. CASE path = AlgebraPath BY <1>1, <1>3 DEF AlgebraPath, Terminal
<1> QED BY <1>2, <1>3

LEMMA PathFacts ==
    /\ OwnPath \in {Path, AlgebraPath} /\ "CREATED" \in Steps(OwnPath) /\ Path[1] = "CREATED"
    /\ OwnPath = AlgebraPath => "DOMAIN_MEMORY_DECIDED" \notin Steps(OwnPath)
BY DEF OwnPath, Steps, Path, AlgebraPath

LEMMA AfterFacts ==
    ASSUME NEW path \in {Path, AlgebraPath}, NEW s \in Steps(path)
    PROVE  /\ After(path, s) \in Steps(path) \union {"COMPLETE"}
           /\ After(path, s) # "CREATED"
           /\ After(path, s) \in AfterTeaching => s \in AfterTeaching \union Teaching
           /\ After(path, s) \in AfterRetiring => s \in AfterRetiring \union Retiring
           /\ After(path, s) \in AfterCommitting => s \in AfterCommitting \union Committing
<1>1. PICK i \in 1..(Len(path) - 1) : path[i] = s /\ After(path, s) = path[i + 1]
  <2> DEFINE at == CHOOSE k \in 1..(Len(path) - 1) : path[k] = s
  <2>1. at \in 1..(Len(path) - 1) /\ path[at] = s
      BY DEF Steps
  <2>2. After(path, s) = path[at + 1]
      BY DEF After
  <2> QED BY <2>1, <2>2
<1>2. CASE path = Path
    BY <1>1, <1>2 DEF Path, Steps, Teaching, Retiring, Committing, AfterTeaching, AfterRetiring, AfterCommitting
<1>3. CASE path = AlgebraPath
    BY <1>1, <1>3 DEF AlgebraPath, Steps, Teaching, Retiring, Committing, AfterTeaching, AfterRetiring, AfterCommitting
<1> QED BY <1>2, <1>3

-----------------------------------------------------------------------------
(* The runs, the jobs and the episodes.                                    *)

EpisodeRow == [status : {"active", "complete", "failed", "review_required"}, item : Items]

Ats == {"enter", "recalled", "half", "exposed", "made", "ready", "misnamed", "review", "refused", "record",
        "failing"}

JobRow == [run : Runs, stage : Steps(OwnPath), token : Tokens \union {NULL}, at : Ats]

RunsTyped ==
    /\ domain \in {"general", "algebra"}
    /\ stage \in [Runs -> Steps(OwnPath) \union Terminal \union {"ABSENT"}]
    /\ base \in [Runs -> Nat]
    /\ token \in [Runs -> Tokens \union {NULL}]
    /\ holder \in [Runs -> Workers \union {NULL}]
    /\ job \in [Workers -> JobRow \union {NULL}]
    /\ taught \in [Runs -> {NULL, "accepted", "rejected"}]
    /\ episode \in [Runs -> EpisodeRow \union {NULL}]
    /\ lessons \in [Runs -> Nat]
    /\ promoted \in [Students -> Seq(Runs)]

Ended(r, how)   == episode[r] # NULL /\ episode[r].status = how
GroupRetired(r) == episode[r] # NULL /\ \A i \in Corpus!Siblings(episode[r].item) : status[i] = "retired"

\* What the earlier handlers of a run at stage s have left.
Reached(r, s) ==
    /\ s \in AfterTeaching => taught[r] = "accepted"
    /\ s \in AfterRetiring => GroupRetired(r)
    /\ s \in AfterCommitting => Ended(r, "complete") \/ stage[r] = "FAILED_TERMINAL"

\* A job is of a stage that its run came to, and its token is the run's.
JobSound(w) ==
    LET j == job[w]  r == job[w].run IN
    job[w] # NULL =>
        /\ stage[r] # "ABSENT" /\ Reached(r, j.stage)
        /\ j.at \in {"ready", "misnamed"} => Reached(r, After(OwnPath, j.stage))
        /\ j.at = "misnamed" => j.stage \in Grading
        /\ j.at \in {"half", "exposed", "made"} => j.stage \in Showing
        /\ j.at = "review" =>
              j.stage \in Teaching /\ (Ended(r, "review_required") \/ stage[r] = "FAILED_TERMINAL")
        /\ j.at \in {"record", "failing"} => stage[r] = "FAILED_TERMINAL"
        /\ j.at = "failing" => j.stage # "CREATED" /\ episode[r] # NULL
        /\ j.stage # "CREATED" => j.token \in Tokens /\ j.token = token[r]
        /\ j.stage = "CREATED" =>
              IF j.at = "ready" THEN j.token \in Tokens /\ grant[j.token] # NULL /\ grant[j.token].owner = r
              ELSE j.token = NULL
        /\ holder[r] = w => stage[r] = j.stage

RunSound(r) ==
    /\ stage[r] \in Steps(OwnPath) \union {"COMPLETE"} => Reached(r, stage[r])
    /\ stage[r] = "REVIEW_REQUIRED" => Ended(r, "review_required")
    /\ stage[r] \in {"ABSENT", "CREATED"} => token[r] = NULL
    /\ stage[r] \notin {"ABSENT", "CREATED", "FAILED_TERMINAL"} => token[r] # NULL
    /\ token[r] # NULL => grant[token[r]] # NULL /\ grant[token[r]].owner = r

EpisodeSound(r) ==
    /\ Ended(r, "complete") => taught[r] = "accepted" /\ GroupRetired(r)
    /\ Ended(r, "review_required") => taught[r] = "rejected"
    /\ Ended(r, "failed") => stage[r] = "FAILED_TERMINAL"
    /\ Ended(r, "review_required") \/ Ended(r, "failed") =>
          /\ token[r] # NULL
          /\ \A i \in Items : lease[i].token = token[r] => status[i] = "retired"
    /\ Ended(r, "complete") /\ domain = "general" =>
          token[r] # NULL /\ \E i \in grant[token[r]].items : lease[i].token # token[r]

\* Whatever a run was granted, it is the block of its episode's item.
BlocksOfEpisodes ==
    \A t \in Tokens : grant[t] # NULL =>
        episode[grant[t].owner] # NULL /\ episode[grant[t].owner].item = Cold(grant[t].items)

LessonsDecided ==
    domain = "general" => \A r \in Runs : lessons[r] <= 1 /\ (r \notin decided => lessons[r] = 0)

\* The student's canonical state is the one its open run started from.
SomeFailed(s) == \E j \in 1..Len(promoted[s]) : stage[promoted[s][j]] = "FAILED_TERMINAL"

OneOpenRun == \A q, r \in Runs : Open(q) /\ Open(r) /\ StudentOf[q] = StudentOf[r] => q = r

HeadsCurrent ==
    \A r \in Runs : Open(r) /\ ~Ended(r, "complete") =>
        base[r] = Len(promoted[StudentOf[r]]) \/ SomeFailed(StudentOf[r])

PromotedRan == \A s \in Students : \A k \in 1..Len(promoted[s]) : stage[promoted[s][k]] # "ABSENT"

LineageInv == OneOpenRun /\ HeadsCurrent /\ PromotedRan /\ CanonicalLineage

WorkflowInv ==
    /\ RunsTyped /\ InventoryInv
    /\ \A w \in Workers : JobSound(w)
    /\ \A r \in Runs : RunSound(r) /\ EpisodeSound(r)
    /\ BlocksOfEpisodes /\ LessonsDecided /\ LineageInv

-----------------------------------------------------------------------------
(* The steps, by what they do to this state.                               *)

ItemsKept == UNCHANGED <<status, lease, grant, exposures>>

LessonsKept == UNCHANGED <<lessons, decided>>

Decides(w) ==
    /\ domain = "general" => Run(w) \notin decided
    /\ decided' = decided \union {Run(w)}
    /\ \E accepted \in {0, 1} : lessons' = [lessons EXCEPT ![Run(w)] = @ + accepted]

\* Within a stage that leaves nothing behind, or before it does.
Moves(w) ==
    /\ job[w] # NULL /\ job[w].at \in {"enter", "recalled", "half", "exposed", "made"}
    /\ \E at \in {"recalled", "half", "exposed", "made", "refused", "ready", "misnamed"} :
          /\ Goto(w, at)
          /\ at \in {"half", "exposed", "made"} => job[w].stage \in Showing
          /\ at = "misnamed" => job[w].stage \in Grading
          /\ at \in {"ready", "misnamed"} =>
                job[w].stage \notin ({"CREATED"} \union Teaching \union Retiring \union Committing)
    /\ UNCHANGED <<status, lease, grant>>
    /\ exposures' = exposures \/ (job[w].stage \in Showing /\ Shows(job[w].token))
    /\ LessonsKept \/ Decides(w)
    /\ UNCHANGED <<taught, episode, promoted, runVars>>

LeasesFor(w, r) ==
    /\ Enters(w, "CREATED")
    /\ \E block \in Corpus!Blocks(StudentOf[r]), t \in Tokens :
          /\ episode[r] # NULL => episode[r].item = Cold(block)
          /\ Corpus!Grant(r, StudentOf[r], block, t)
          /\ episode' = [episode EXCEPT ![r] =
                IF @ = NULL THEN [status |-> "active", item |-> Cold(block)] ELSE @]
          /\ job' = [job EXCEPT ![w] = [run |-> r, stage |-> "CREATED", token |-> t, at |-> "ready"]]
    /\ LessonsKept /\ UNCHANGED <<taught, promoted, runVars>>

Leases(w) == LeasesFor(w, Run(w))

Teaches(w) == At(w, "recalled") /\ job[w].stage \in Teaching /\ PersistTeaching(w)

RetiresItems(w) ==
    /\ Enters(w, "MEMORY_DECIDED") /\ OwnsBlock(w) /\ CloseExposures(w) /\ Goto(w, "ready")
    /\ LessonsKept /\ UNCHANGED <<taught, episode, promoted, runVars>>

CompletesEpisode(w) ==
    /\ \/ /\ domain = "general" /\ Enters(w, "DOMAIN_MEMORY_DECIDED")
          /\ OwnsBlock(w) /\ CloseExposures(w)
       \/ /\ domain = "algebra" /\ Enters(w, "ITEMS_RETIRED")
          /\ episode[Run(w)].status # "complete" /\ ItemsKept
    /\ Promote(w) /\ Goto(w, "ready")

Commits(w) ==
    \/ (At(w, "ready") \/ At(w, "misnamed")) /\ CommitTo(w, After(OwnPath, job[w].stage))
    \/ At(w, "review") /\ CommitTo(w, "REVIEW_REQUIRED")

Fails(w) ==
    /\ job[w] # NULL /\ job[w].at \notin {"ready", "misnamed", "review", "record", "failing"}
    /\ \E retryable \in BOOLEAN : FailOf(w, retryable)

StepOf(w) ==
    \/ \E r \in Runs : Claim(w, r)
    \/ Moves(w) \/ Leases(w) \/ Teaches(w) \/ RetiresItems(w) \/ CompletesEpisode(w)
    \/ Commits(w) \/ Fails(w) \/ BeginFailure(w) \/ RecordFailure(w) \/ Crash(w)

Stays == ItemsKept /\ LessonsKept /\ UNCHANGED <<taught, episode, promoted, runVars, job>>

-----------------------------------------------------------------------------
(* What no step takes back.                                                *)

\* Items stay retired, grants as they were, and nothing is leased under a
\* token that was granted before.
InventoryMonotone ==
    /\ \A i \in Items : status[i] = "retired" => status'[i] = "retired"
    /\ \A t \in Tokens : grant[t] # NULL =>
          grant'[t] = grant[t] /\ \A i \in Items : lease'[i].token = t => lease[i].token = t

LEMMA InventoryStepMonotone ==
    ASSUME InventoryInv, InventoryStep
    PROVE  InventoryMonotone
<1>1. ASSUME NEW r \in Runs, NEW t \in Tokens, NEW block \in Corpus!Blocks(StudentOf[r]),
             Corpus!Grant(r, StudentOf[r], block, t)
      PROVE  InventoryMonotone
  <2>1. block \subseteq Corpus!Leasable(StudentOf[r])
      BY DEF Corpus!Blocks
  <2>2. \A i \in block : status[i] # "retired"
      BY <2>1 DEF Corpus!Leasable, Corpus!Expired
  <2>3. \A i \in Corpus!Expired : status[i] # "retired"
      BY DEF Corpus!Expired
  <2>4. /\ grant[t] = NULL
        /\ \A i \in Items :
              /\ status'[i] = IF i \in block THEN "leased" ELSE IF i \in Corpus!Expired THEN "active" ELSE status[i]
              /\ lease'[i] = IF i \in block THEN [owner |-> r, token |-> t, left |-> LeaseFor]
                             ELSE IF i \in Corpus!Expired THEN Corpus!NoLease ELSE lease[i]
      BY <1>1 DEF Corpus!Grant
  <2>5. \A u \in Tokens : u # t => grant'[u] = grant[u]
      BY <1>1 DEF Corpus!Grant, InventoryInv, InventoryTyped
  <2> QED BY <2>2, <2>3, <2>4, <2>5, NoLeaseRow, WorkflowAssumption DEF InventoryMonotone
<1>2. ASSUME NEW t \in Tokens, ReleaseBlock(t)
      PROVE  InventoryMonotone
    BY <1>2, ReleaseFacts, NoLeaseRow, WorkflowAssumption DEF InventoryMonotone
<1>3. ASSUME NEW t \in Tokens, grant[t] # NULL, Retires(t)
      PROVE  InventoryMonotone
    BY <1>3, RetiringFacts, NoLeaseRow, WorkflowAssumption DEF InventoryMonotone
<1>4. CASE Corpus!Tick
  <2>1. status' = status /\ grant' = grant
      BY <1>4 DEF Corpus!Tick
  <2>2. \A i \in Items : lease'[i].token = lease[i].token
      BY <1>4 DEF Corpus!Tick, InventoryInv, InventoryTyped, LeaseRow
  <2> QED BY <2>1, <2>2 DEF InventoryMonotone
<1>5. CASE UNCHANGED <<status, lease, grant>>
    BY <1>5 DEF InventoryMonotone
<1> QED BY <1>1, <1>2, <1>3, <1>4, <1>5 DEF InventoryStep

\* What the parts of the invariant that speak of a run rest on.
Monotone ==
    /\ InventoryMonotone
    /\ domain' = domain
    /\ \A r \in Runs :
          /\ stage[r] # "ABSENT" => stage'[r] # "ABSENT"
          /\ stage[r] = "FAILED_TERMINAL" => stage'[r] = "FAILED_TERMINAL"
          /\ token[r] # NULL => token'[r] = token[r]
          /\ taught[r] # NULL => taught'[r] = taught[r]
          /\ episode[r] # NULL => episode'[r] # NULL /\ episode'[r].item = episode[r].item
          /\ Ended(r, "complete") => Ended(r, "complete")' \/ stage[r] = "FAILED_TERMINAL"
          /\ Ended(r, "review_required") => Ended(r, "review_required")' \/ stage[r] = "FAILED_TERMINAL"

LEMMA ReachedStays ==
    ASSUME RunsTyped, Monotone, NEW r \in Runs, NEW s, Reached(r, s)
    PROVE  Reached(r, s)'
<1>1. GroupRetired(r) => GroupRetired(r)'
    BY DEF Monotone, InventoryMonotone, GroupRetired, Corpus!Siblings
<1> QED BY <1>1, WorkflowAssumption DEF Monotone, Reached

LEMMA OtherJobKept ==
    ASSUME RunsTyped, InventoryInv, Monotone, NEW v \in Workers, JobSound(v), job'[v] = job[v],
           job[v] # NULL => LET r == job[v].run IN holder'[r] = v => holder[r] = v /\ stage'[r] = stage[r]
    PROVE  JobSound(v)'
<1> SUFFICES ASSUME job[v] # NULL PROVE JobSound(v)'
    BY DEF JobSound
<1> DEFINE j == job[v]  r == job[v].run
<1>1. r \in Runs /\ OwnPath' = OwnPath /\ token[r] \in Tokens \union {NULL} /\ NULL \notin Tokens
    BY WorkflowAssumption DEF RunsTyped, JobRow, Monotone, OwnPath
<1>2. Reached(r, j.stage)' /\ (Reached(r, After(OwnPath, j.stage)) => Reached(r, After(OwnPath, j.stage))')
  <2>1. Reached(r, j.stage) => Reached(r, j.stage)'
      BY <1>1, ReachedStays
  <2> QED BY <1>1, <2>1, ReachedStays DEF JobSound
<1>3. /\ stage'[r] # "ABSENT"
      /\ j.at \in {"ready", "misnamed"} => Reached(r, After(OwnPath, j.stage))'
      /\ j.at = "review" => Ended(r, "review_required")' \/ stage'[r] = "FAILED_TERMINAL"
      /\ j.at \in {"record", "failing"} => stage'[r] = "FAILED_TERMINAL"
      /\ j.at = "failing" => episode'[r] # NULL
      /\ j.stage # "CREATED" => j.token \in Tokens /\ j.token = token'[r]
      /\ holder'[r] = v => stage'[r] = j.stage
    BY <1>1, <1>2 DEF JobSound, Monotone
<1>4. j.stage = "CREATED" /\ j.at = "ready" =>
          j.token \in Tokens /\ grant'[j.token] # NULL /\ grant'[j.token].owner = r
    BY <1>1 DEF JobSound, Monotone, InventoryMonotone
<1> QED BY <1>1, <1>2, <1>3, <1>4 DEF JobSound

LEMMA RunSoundKept ==
    ASSUME RunsTyped, InventoryInv, Monotone, NEW r \in Runs, RunSound(r),
           stage'[r] = stage[r], token'[r] = token[r]
    PROVE  RunSound(r)'
<1>1. Reached(r, stage[r]) => Reached(r, stage[r])'
    BY ReachedStays
<1>2. token[r] # NULL => token[r] \in Tokens
    BY DEF RunsTyped
<1>3. OwnPath' = OwnPath
    BY DEF Monotone, OwnPath
<1>4. stage[r] \in Steps(OwnPath) \union {"COMPLETE"} => Reached(r, stage[r])'
    BY <1>1 DEF RunSound
<1> QED BY <1>2, <1>3, <1>4 DEF RunSound, Monotone, InventoryMonotone, Reached

LEMMA EpisodeSoundKept ==
    ASSUME RunsTyped, InventoryInv, Monotone, NEW r \in Runs, RunSound(r), EpisodeSound(r),
           episode'[r] = episode[r]
    PROVE  EpisodeSound(r)'
<1>1. \A how : Ended(r, how)' <=> Ended(r, how)
    BY DEF Ended
<1>2. GroupRetired(r) => GroupRetired(r)'
    BY DEF Monotone, InventoryMonotone, GroupRetired, Corpus!Siblings
<1>3. token[r] # NULL => /\ token[r] \in Tokens /\ token'[r] = token[r]
                         /\ grant[token[r]] # NULL /\ grant'[token[r]] = grant[token[r]]
                         /\ \A i \in Items : lease'[i].token = token[r] => lease[i].token = token[r]
    BY DEF RunsTyped, RunSound, Monotone, InventoryMonotone
<1>4. token[r] # NULL => grant[token[r]].items \subseteq Items
    BY <1>3, BlockFacts
<1>5. \A i \in Items : status[i] = "retired" => status'[i] = "retired"
    BY DEF Monotone, InventoryMonotone
<1> QED BY <1>1, <1>2, <1>3, <1>4, <1>5, WorkflowAssumption DEF EpisodeSound, Monotone

LEMMA BlocksKept ==
    ASSUME RunsTyped, InventoryInv, Monotone, BlocksOfEpisodes, grant' = grant
    PROVE  BlocksOfEpisodes'
<1>1. \A t \in Tokens : grant[t] # NULL => grant[t].owner \in Runs
    BY BlockFacts
<1> QED BY <1>1 DEF Monotone, BlocksOfEpisodes

LEMMA SomeFailedStays ==
    ASSUME RunsTyped, Monotone, NEW s \in Students, SomeFailed(s), promoted'[s] = promoted[s]
    PROVE  SomeFailed(s)'
<1>1. \A j \in 1..Len(promoted[s]) : promoted[s][j] \in Runs
    BY DEF RunsTyped
<1> QED BY <1>1 DEF SomeFailed, Monotone

LEMMA LineageKept ==
    ASSUME RunsTyped, Monotone, LineageInv, promoted' = promoted, base' = base,
           \A r \in Runs : Open(r)' => Open(r)
    PROVE  LineageInv'
<1>1. OneOpenRun'
    BY DEF LineageInv, OneOpenRun
<1>2. HeadsCurrent'
  <2>1. \A r \in Runs : Open(r) /\ Ended(r, "complete") => Ended(r, "complete")'
      BY DEF Monotone, Open, Terminal
  <2> QED BY <2>1, SomeFailedStays, WorkflowAssumption DEF LineageInv, HeadsCurrent
<1>3. CanonicalLineage'
  <2>1. \A s \in Students : \A j \in 1..Len(promoted[s]) : promoted[s][j] \in Runs
      BY DEF RunsTyped
  <2>2. ASSUME NEW s \in Students, NEW k \in 1..Len(promoted[s]), NEW j \in 1..k
        PROVE  stage[promoted[s][j]] = "FAILED_TERMINAL" => stage'[promoted[s][j]] = "FAILED_TERMINAL"
    <3>1. j \in 1..Len(promoted[s])
        BY DEF RunsTyped
    <3> QED BY <2>1, <3>1 DEF Monotone
  <2> QED BY <2>2 DEF LineageInv, CanonicalLineage
<1>4. PromotedRan'
  <2>1. \A s \in Students : \A j \in 1..Len(promoted[s]) : promoted[s][j] \in Runs
      BY DEF RunsTyped
  <2> QED BY <2>1 DEF LineageInv, PromotedRan, Monotone
<1> QED BY <1>1, <1>2, <1>3, <1>4 DEF LineageInv

-----------------------------------------------------------------------------
(* The invariant, step by step.                                            *)

\* What is left to show of a step.
LEMMA StepKeeps ==
    ASSUME WorkflowInv, RunsTyped', InventoryInv', Monotone,
           \A v \in Workers :
              \/ JobSound(v)'
              \/ /\ job'[v] = job[v]
                 /\ \A r \in Runs : stage[r] # "ABSENT" /\ holder'[r] = v =>
                       holder[r] = v /\ stage'[r] = stage[r],
           \A r \in Runs : (stage'[r] = stage[r] /\ token'[r] = token[r]) \/ RunSound(r)',
           \A r \in Runs : episode'[r] = episode[r] \/ EpisodeSound(r)',
           grant' = grant \/ BlocksOfEpisodes',
           LessonsKept \/ LessonsDecided',
           (promoted' = promoted /\ base' = base /\ \A r \in Runs : Open(r)' => Open(r)) \/ LineageInv'
    PROVE  WorkflowInv'
<1>1. RunsTyped /\ InventoryInv /\ BlocksOfEpisodes /\ LessonsDecided /\ LineageInv
    BY DEF WorkflowInv
<1>2. ASSUME NEW v \in Workers PROVE JobSound(v)'
  <2> SUFFICES ASSUME job'[v] = job[v],
                      \A r \in Runs : stage[r] # "ABSENT" /\ holder'[r] = v =>
                          holder[r] = v /\ stage'[r] = stage[r]
               PROVE  JobSound(v)'
      OBVIOUS
  <2>1. JobSound(v) /\ (job[v] # NULL => job[v].run \in Runs)
      BY <1>1 DEF WorkflowInv, RunsTyped, JobRow
  <2>2. job[v] # NULL => stage[job[v].run] # "ABSENT"
      BY <2>1 DEF JobSound
  <2>3. job[v] # NULL => LET r == job[v].run IN holder'[r] = v => holder[r] = v /\ stage'[r] = stage[r]
      BY <2>1, <2>2
  <2> QED BY <1>1, <2>1, <2>3, OtherJobKept
<1>3. ASSUME NEW r \in Runs PROVE RunSound(r)' /\ EpisodeSound(r)'
  <2>1. RunSound(r) /\ EpisodeSound(r)
      BY DEF WorkflowInv
  <2> QED BY <1>1, <2>1, RunSoundKept, EpisodeSoundKept
<1>4. BlocksOfEpisodes'
    BY <1>1, BlocksKept
<1>5. LessonsDecided'
    BY <1>1 DEF LessonsKept, LessonsDecided, Monotone
<1>6. LineageInv'
    BY <1>1, LineageKept
<1> QED BY <1>2, <1>3, <1>4, <1>5, <1>6 DEF WorkflowInv

LEMMA JobFacts ==
    ASSUME WorkflowInv, NEW w \in Workers, job[w] # NULL
    PROVE  /\ job[w] \in JobRow /\ Run(w) \in Runs /\ job[w].stage \in Steps(OwnPath)
           /\ OwnPath \in {Path, AlgebraPath} /\ JobSound(w) /\ RunSound(Run(w)) /\ EpisodeSound(Run(w))
           /\ job[w].token \in Tokens \union {NULL} /\ token[Run(w)] \in Tokens \union {NULL}
           /\ NULL \notin Tokens
BY PathFacts, WorkflowAssumption DEF WorkflowInv, RunsTyped, JobRow, Run

LEMMA GotoFacts ==
    ASSUME WorkflowInv, NEW w \in Workers, job[w] # NULL, NEW at \in Ats, Goto(w, at), domain' = domain
    PROVE  /\ job' \in [Workers -> JobRow' \union {NULL}]
           /\ job'[w].run = job[w].run /\ job'[w].stage = job[w].stage
           /\ job'[w].token = job[w].token /\ job'[w].at = at
           /\ \A v \in Workers \ {w} : job'[v] = job[v]
<1>1. job \in [Workers -> JobRow \union {NULL}] /\ job[w] \in JobRow
    BY DEF WorkflowInv, RunsTyped
<1>2. JobRow' = JobRow
    BY DEF JobRow, OwnPath
<1>3. job' = [job EXCEPT ![w] = [job[w] EXCEPT !.at = at]]
    BY Zenon DEF Goto
<1>4. [job[w] EXCEPT !.at = at] \in JobRow
    BY <1>1 DEF JobRow
<1>5. /\ [job[w] EXCEPT !.at = at].run = job[w].run /\ [job[w] EXCEPT !.at = at].stage = job[w].stage
      /\ [job[w] EXCEPT !.at = at].token = job[w].token /\ [job[w] EXCEPT !.at = at].at = at
    BY <1>1 DEF JobRow
<1>6. /\ job'[w] = [job[w] EXCEPT !.at = at] /\ \A v \in Workers \ {w} : job'[v] = job[v]
      /\ job' \in [Workers -> JobRow \union {NULL}]
    BY <1>1, <1>3, <1>4
<1> QED BY <1>2, <1>5, <1>6

LEMMA DropsFacts ==
    ASSUME WorkflowInv, NEW w \in Workers, Drops(w), domain' = domain
    PROVE  /\ job' \in [Workers -> JobRow' \union {NULL}] /\ job'[w] = NULL
           /\ \A v \in Workers \ {w} : job'[v] = job[v]
<1>1. JobRow' = JobRow
    BY DEF JobRow, OwnPath
<1> QED BY <1>1 DEF Drops, WorkflowInv, RunsTyped

\* Nothing but the items and the jobs has changed.
LEMMA QuietMonotone ==
    ASSUME WorkflowInv, InventoryMonotone, domain' = domain, UNCHANGED <<taught, episode, runVars>>
    PROVE  Monotone
BY DEF Monotone, Ended, runVars

LEMMA MoveKeeps ==
    ASSUME WorkflowInv, NEW w \in Workers, Moves(w), domain' = domain
    PROVE  WorkflowInv'
<1>0. PICK r \in Runs, s \in Steps(OwnPath) :
          r = Run(w) /\ r = job[w].run /\ s = job[w].stage /\ JobSound(w)
    BY JobFacts DEF Moves, Run
<1>1. PICK at \in {"recalled", "half", "exposed", "made", "refused", "ready", "misnamed"} :
          /\ Goto(w, at)
          /\ at \in {"half", "exposed", "made"} => s \in Showing
          /\ at = "misnamed" => s \in Grading
          /\ at \in {"ready", "misnamed"} =>
                s \notin ({"CREATED"} \union Teaching \union Retiring \union Committing)
    BY <1>0 DEF Moves
<1>2. /\ job[w] # NULL /\ job[w].at \in {"enter", "recalled", "half", "exposed", "made"}
      /\ UNCHANGED <<status, lease, grant, taught, episode, promoted, stage, base, token, holder>>
      /\ exposures' = exposures \/ (s \in Showing /\ Shows(job[w].token))
    BY <1>0 DEF Moves, runVars
<1>3. PICK n : n = After(OwnPath, s)
    OBVIOUS
<1>4. /\ job' \in [Workers -> JobRow' \union {NULL}]
      /\ job'[w].run = r /\ job'[w].stage = s /\ job'[w].token = job[w].token /\ job'[w].at = at
      /\ \A v \in Workers \ {w} : job'[v] = job[v]
  <2>1. at \in Ats
      BY <1>1 DEF Ats
  <2> QED BY <1>0, <1>1, <1>2, <2>1, GotoFacts
<1>5. InventoryStep
  <2>1. s \in Showing => job[w].token \in Tokens
      BY <1>2, <1>0 DEF JobSound, Showing, Student
  <2> QED BY <1>2, <2>1 DEF InventoryStep
<1>6. InventoryInv' /\ Monotone
    BY <1>2, <1>5, InventoryKept, InventoryStepMonotone, QuietMonotone DEF WorkflowInv, runVars
<1>7. LessonsDecided' /\ lessons' \in [Runs -> Nat]
  <2>1. CASE LessonsKept
      BY <2>1 DEF LessonsKept, LessonsDecided, WorkflowInv, RunsTyped
  <2>2. CASE Decides(w)
    <3>1. lessons \in [Runs -> Nat] /\ LessonsDecided
        BY DEF WorkflowInv, RunsTyped
    <3>2. PICK accepted \in {0, 1} : lessons' = [lessons EXCEPT ![r] = @ + accepted]
        BY <1>0, <2>2 DEF Decides
    <3>3. \A q \in Runs : lessons'[q] = IF q = r THEN lessons[q] + accepted ELSE lessons[q]
        BY <3>1, <3>2
    <3>4. lessons' \in [Runs -> Nat]
        BY <3>1, <3>2
    <3>5. (domain = "general" => r \notin decided) /\ decided' = decided \union {r}
        BY <1>0, <2>2 DEF Decides
    <3> QED BY <3>1, <3>3, <3>4, <3>5 DEF LessonsDecided
  <2> QED BY <2>1, <2>2 DEF Moves
<1>8. OwnPath' = OwnPath
    BY DEF OwnPath
<1>9. RunsTyped'
    BY <1>2, <1>4, <1>7, <1>8 DEF WorkflowInv, RunsTyped
<1>10. at \in {"ready", "misnamed"} => Reached(r, n)
  <2>1. Reached(r, s)
      BY <1>2, <1>0 DEF JobSound
  <2>2. OwnPath \in {Path, AlgebraPath}
      BY PathFacts
  <2>3. ASSUME at \in {"ready", "misnamed"}
        PROVE  /\ n \in AfterTeaching => s \in AfterTeaching
               /\ n \in AfterRetiring => s \in AfterRetiring
               /\ n \in AfterCommitting => s \in AfterCommitting
      BY <1>1, <1>0, <1>3, <2>2, <2>3, AfterFacts
  <2> QED BY <2>1, <2>3 DEF Reached
<1>11. JobSound(w)'
  <2>1. Reached(r, s)' /\ (at \in {"ready", "misnamed"} => Reached(r, n)')
      BY <1>2, <1>0, <1>6, <1>10, ReachedStays DEF WorkflowInv, JobSound, Run
  <2>2. s = "CREATED" => job[w].token = NULL /\ at # "ready"
      BY <1>1, <1>2, <1>0 DEF JobSound
  <2> QED BY <1>1, <1>2, <1>0, <1>3, <1>4, <1>8, <2>1, <2>2 DEF JobSound, Run, Reached
<1>12. UNCHANGED <<stage, base, token, holder, episode, promoted, grant>>
    BY <1>2
<1> QED BY <1>4, <1>6, <1>7, <1>9, <1>11, <1>12, StepKeeps DEF Open

LEMMA LeaseKeeps ==
    ASSUME WorkflowInv, NEW w \in Workers, Leases(w), domain' = domain
    PROVE  WorkflowInv'
<1>1. PICK r \in Runs : r = Run(w) /\ r = job[w].run /\ job[w] # NULL /\ job[w] \in JobRow /\ JobSound(w)
                        /\ job[w].stage = "CREATED" /\ job[w].at = "enter"
    BY JobFacts DEF Leases, LeasesFor, Enters, At, Run
<1>2. PICK block \in Corpus!Blocks(StudentOf[r]), t \in Tokens :
          /\ episode[r] # NULL => episode[r].item = Cold(block)
          /\ Corpus!Grant(r, StudentOf[r], block, t)
          /\ episode' = [episode EXCEPT ![r] =
                IF @ = NULL THEN [status |-> "active", item |-> Cold(block)] ELSE @]
          /\ job' = [job EXCEPT ![w] = [run |-> r, stage |-> "CREATED", token |-> t, at |-> "ready"]]
  <2>1. LeasesFor(w, r)
      BY <1>1 DEF Leases
  <2> QED BY <2>1 DEF LeasesFor
<1>3. UNCHANGED <<taught, promoted, stage, base, token, holder, lessons, decided>>
    BY DEF Leases, LeasesFor, LessonsKept, runVars
<1>4. PICK n : n = After(OwnPath, "CREATED")
    OBVIOUS
<1>5. n \notin AfterTeaching /\ n \notin AfterRetiring /\ n \notin AfterCommitting
  <2>1. OwnPath \in {Path, AlgebraPath} /\ "CREATED" \in Steps(OwnPath)
      BY PathFacts
  <2>2. "CREATED" \notin AfterTeaching \union Teaching \union AfterRetiring \union Retiring
                         \union AfterCommitting \union Committing
      BY DEF AfterTeaching, Teaching, AfterRetiring, Retiring, AfterCommitting, Committing
  <2> QED BY <1>4, <2>1, <2>2, AfterFacts
<1>6. InventoryStep
    BY <1>2 DEF InventoryStep
<1>7. InventoryInv' /\ InventoryMonotone
    BY <1>6, InventoryKept, InventoryStepMonotone DEF WorkflowInv
<1>8. Cold(block) \in Items /\ block \subseteq Items
  <2>1. block \subseteq Items /\ Cardinality(block) = 3
      BY SameCardinality, WorkflowAssumption DEF Corpus!Blocks, Corpus!Leasable
  <2>2. Cardinality({}) = 0
      BY FS_EmptySet
  <2>3. block # {}
      BY <2>1, <2>2
  <2> QED BY <2>1, <2>3 DEF Cold
<1>9. OwnPath' = OwnPath /\ JobRow' = JobRow
    BY DEF OwnPath, JobRow
<1>10. /\ job' \in [Workers -> JobRow' \union {NULL}]
       /\ job'[w] = [run |-> r, stage |-> "CREATED", token |-> t, at |-> "ready"]
       /\ \A v \in Workers \ {w} : job'[v] = job[v]
  <2>1. [run |-> r, stage |-> "CREATED", token |-> t, at |-> "ready"] \in JobRow
      BY PathFacts DEF JobRow, Ats
  <2>4. job \in [Workers -> JobRow \union {NULL}]
      BY DEF WorkflowInv, RunsTyped
  <2> QED BY <1>2, <1>9, <2>1, <2>4
<1>11. /\ episode' \in [Runs -> EpisodeRow \union {NULL}]
       /\ \A q \in Runs : q # r => episode'[q] = episode[q]
       /\ episode'[r] # NULL /\ episode'[r].item = Cold(block)
       /\ episode[r] # NULL => episode'[r] = episode[r]
       /\ episode[r] = NULL => episode'[r].status = "active"
  <2>1. episode \in [Runs -> EpisodeRow \union {NULL}]
      BY DEF WorkflowInv, RunsTyped
  <2>2. [status |-> "active", item |-> Cold(block)] \in EpisodeRow /\ NULL \notin EpisodeRow
      BY <1>8, WorkflowAssumption DEF EpisodeRow
  <2> QED BY <1>2, <2>1, <2>2
<1>12. Monotone
    BY <1>3, <1>7, <1>11 DEF Monotone, Ended
<1>13. BlocksOfEpisodes'
  <2>1. /\ grant \in [Tokens -> Corpus!Grants \union {NULL}]
        /\ grant' = [grant EXCEPT ![t] = [owner |-> r, student |-> StudentOf[r], items |-> block]]
      BY <1>2 DEF Corpus!Grant, WorkflowInv, InventoryInv, InventoryTyped
  <2>2. grant'[t].owner = r /\ grant'[t].items = block
      BY <2>1
  <2>3. \A u \in Tokens : u # t => grant'[u] = grant[u] /\ (grant[u] # NULL => grant[u].owner \in Runs)
      BY <2>1 DEF Corpus!Grants
  <2>4. BlocksOfEpisodes
      BY DEF WorkflowInv
  <2> SUFFICES ASSUME NEW u \in Tokens, grant'[u] # NULL
               PROVE  /\ episode'[grant'[u].owner] # NULL
                      /\ episode'[grant'[u].owner].item = Cold(grant'[u].items)
      BY DEF BlocksOfEpisodes
  <2>5. CASE u = t BY <1>11, <2>2, <2>5
  <2>6. CASE u # t BY <1>11, <2>3, <2>4, <2>6 DEF BlocksOfEpisodes
  <2> QED BY <2>5, <2>6
<1>14. episode'[r] = episode[r] \/ EpisodeSound(r)'
    BY <1>11 DEF EpisodeSound, Ended
<1>15. RunsTyped'
    BY <1>3, <1>9, <1>10, <1>11 DEF WorkflowInv, RunsTyped
<1>16. JobSound(w)'
  <2>1. Reached(r, "CREATED")' /\ Reached(r, n)'
      BY <1>5 DEF Reached, AfterTeaching, AfterRetiring, AfterCommitting
  <2>2. grant'[t] # NULL /\ grant'[t].owner = r
    <3>1. /\ grant \in [Tokens -> Corpus!Grants \union {NULL}]
          /\ grant' = [grant EXCEPT ![t] = [owner |-> r, student |-> StudentOf[r], items |-> block]]
        BY <1>2 DEF Corpus!Grant, WorkflowInv, InventoryInv, InventoryTyped
    <3>2. NULL # [owner |-> r, student |-> StudentOf[r], items |-> block]
        BY <1>8, WorkflowAssumption
    <3> QED BY <3>1, <3>2
  <2>3. stage[r] # "ABSENT" /\ (holder[r] = w => stage[r] = "CREATED")
      BY <1>1 DEF JobSound
  <2> QED BY <1>3, <1>4, <1>9, <1>10, <2>1, <2>2, <2>3 DEF JobSound
<1>17. LessonsKept /\ UNCHANGED <<stage, base, token, holder, promoted>>
    BY <1>3 DEF LessonsKept
<1> QED BY <1>7, <1>10, <1>11, <1>12, <1>13, <1>14, <1>15, <1>16, <1>17, StepKeeps DEF Open

\* Once past CREATED, a job holds the token of its run's block.
LEMMA TokenFacts ==
    ASSUME WorkflowInv, NEW w \in Workers, job[w] # NULL, job[w].stage # "CREATED",
           NEW r \in Runs, r = job[w].run
    PROVE  /\ job[w].token \in Tokens /\ token[r] = job[w].token
           /\ grant[token[r]] # NULL /\ grant[token[r]].owner = r
           /\ episode[r] # NULL /\ episode[r] \in EpisodeRow /\ episode[r].item = Cold(grant[token[r]].items)
<1>1. job[w].token \in Tokens /\ token[r] = job[w].token /\ token[r] # NULL
    BY JobFacts DEF JobSound
<1>2. grant[token[r]] # NULL /\ grant[token[r]].owner = r
    BY <1>1 DEF WorkflowInv, RunSound
<1>3. episode[r] # NULL /\ episode[r].item = Cold(grant[token[r]].items)
    BY <1>1, <1>2 DEF WorkflowInv, BlocksOfEpisodes
<1> QED BY <1>1, <1>2, <1>3 DEF WorkflowInv, RunsTyped

LEMMA StatusFacts ==
    ASSUME WorkflowInv, NEW r \in Runs, episode[r] # NULL,
           NEW how \in {"active", "complete", "failed", "review_required"},
           episode' = [episode EXCEPT ![r].status = how]
    PROVE  /\ episode' \in [Runs -> EpisodeRow \union {NULL}]
           /\ episode'[r] # NULL /\ episode'[r].status = how /\ episode'[r].item = episode[r].item
           /\ \A q \in Runs \ {r} : episode'[q] = episode[q]
<1> DEFINE row == [episode[r] EXCEPT !.status = how]
<1>1. episode \in [Runs -> EpisodeRow \union {NULL}] /\ episode[r] \in EpisodeRow
    BY DEF WorkflowInv, RunsTyped
<1>2. episode' = [episode EXCEPT ![r] = row]
    BY Zenon
<1>3. row \in EpisodeRow /\ row.status = how /\ row.item = episode[r].item
    BY <1>1 DEF EpisodeRow
<1>4. NULL \notin EpisodeRow
    BY WorkflowAssumption DEF EpisodeRow
<1> HIDE DEF row
<1> QED BY <1>1, <1>2, <1>3, <1>4

LEMMA CloseFacts ==
    ASSUME WorkflowInv, NEW w \in Workers, job[w] # NULL, job[w].stage # "CREATED",
           NEW r \in Runs, r = job[w].run, OwnsBlock(w), CloseExposures(w)
    PROVE  /\ InventoryStep /\ InventoryInv' /\ InventoryMonotone /\ grant' = grant
           /\ \A i \in Corpus!Siblings(episode[r].item) : status'[i] = "retired"
           /\ \E i \in grant[token[r]].items : lease'[i].token # token[r]
<1> DEFINE t == job[w].token
           block == grant[t].items
<1>1. t \in Tokens /\ token[r] = t /\ grant[t] # NULL /\ episode[r].item = Cold(block)
    BY TokenFacts
<1>2. block \subseteq Items
    BY <1>1, BlockFacts DEF WorkflowInv
<1>3. grant' = grant
    BY DEF CloseExposures
<1>4. \A i \in block : Corpus!Owns(t, i)
    BY DEF OwnsBlock, BlockOf
<1>5. exposures' = exposures \union {Corpus!Exposed(t, i, i = Cold(block)) : i \in block}
    BY DEF CloseExposures, BlockOf
<1>6. Shows(t)
  <2>1. ASSUME NEW e \in exposures' \ exposures
        PROVE  \E i \in Items, answer \in BOOLEAN : Corpus!Owns(t, i) /\ e = Corpus!Exposed(t, i, answer)
    <3>1. PICK i \in block : e = Corpus!Exposed(t, i, i = Cold(block))
        BY <1>5
    <3> QED BY <1>2, <1>4, <3>1
  <2> QED BY <1>5, <2>1 DEF Shows
<1>7. \E ended \in SUBSET (Corpus!Siblings(Cold(block)) \ block) :
          Corpus!RetireRows(Found(t), (Found(t) \intersect block) \union ended)
    BY DEF CloseExposures, BlockOf, Found
<1>8. Retires(t)
    BY <1>3, <1>4, <1>6, <1>7 DEF Retires
<1>9. InventoryStep
    BY <1>1, <1>8 DEF InventoryStep
<1>10. /\ \A i \in Corpus!Siblings(Cold(block)) : status'[i] = "retired"
       /\ \E i \in block : lease'[i].token # t
    BY <1>1, <1>8, RetiringKeeps DEF WorkflowInv
<1> QED BY <1>1, <1>3, <1>9, <1>10, InventoryKept, InventoryStepMonotone DEF WorkflowInv

\* What a job carries once its handler has gone on to at.
LEMMA GoneOn ==
    ASSUME WorkflowInv, NEW w \in Workers, job[w] # NULL, job[w].stage # "CREATED",
           NEW r \in Runs, NEW s, r = job[w].run, s = job[w].stage, domain' = domain,
           NEW at \in {"ready", "review"}, Goto(w, at), Monotone, UNCHANGED runVars,
           at = "ready" => Reached(r, After(OwnPath, s))',
           at = "review" => s \in Teaching /\ Ended(r, "review_required")'
    PROVE  /\ JobSound(w)' /\ job' \in [Workers -> JobRow' \union {NULL}]
           /\ \A v \in Workers \ {w} : job'[v] = job[v]
<1>1. /\ job' \in [Workers -> JobRow' \union {NULL}]
      /\ job'[w].run = r /\ job'[w].stage = s /\ job'[w].token = job[w].token /\ job'[w].at = at
      /\ \A v \in Workers \ {w} : job'[v] = job[v]
  <2>1. at \in Ats
      BY DEF Ats
  <2> QED BY <2>1, GotoFacts
<1>2. Reached(r, s)'
    BY JobFacts, ReachedStays DEF WorkflowInv, JobSound
<1>3. OwnPath' = OwnPath /\ UNCHANGED <<stage, token, holder>>
    BY DEF OwnPath, runVars
<1>4. /\ stage[r] # "ABSENT" /\ (holder[r] = w => stage[r] = s)
      /\ job[w].token \in Tokens /\ job[w].token = token[r]
    BY JobFacts DEF JobSound
<1> QED BY <1>1, <1>2, <1>3, <1>4 DEF JobSound

LEMMA TeachKeeps ==
    ASSUME WorkflowInv, NEW w \in Workers, Teaches(w), domain' = domain
    PROVE  WorkflowInv'
<1>1. PICK r \in Runs, s \in Teaching : /\ r = Run(w) /\ r = job[w].run /\ s = job[w].stage /\ s \in Steps(OwnPath)
                                        /\ job[w] # NULL /\ s # "CREATED"
    BY JobFacts DEF Teaches, At, Run, Teaching
<1>2. PICK outcome \in {"accepted", "rejected"} :
          taught[r] \in {NULL, outcome} /\ taught' = [taught EXCEPT ![r] = outcome]
    BY <1>1 DEF Teaches, PersistTeaching
<1>3. /\ taught' \in [Runs -> {NULL, "accepted", "rejected"}] /\ taught'[r] = outcome
      /\ \A q \in Runs : taught[q] # NULL => taught'[q] = taught[q]
    BY <1>2 DEF WorkflowInv, RunsTyped
<1>4. UNCHANGED <<lessons, decided, promoted, stage, base, token, holder>> /\ UNCHANGED runVars
    BY DEF Teaches, PersistTeaching, runVars
<1>5. LessonsKept
    BY <1>4 DEF LessonsKept
<1>6. CASE outcome = "accepted"
  <2>1. Goto(w, "ready") /\ episode' = episode /\ UNCHANGED <<status, lease, grant, exposures>>
      BY <1>1, <1>3, <1>6 DEF Teaches, PersistTeaching, corpusVars
  <2>2. InventoryStep
      BY <2>1 DEF InventoryStep
  <2>3. InventoryInv' /\ InventoryMonotone
      BY <2>2, InventoryKept, InventoryStepMonotone DEF WorkflowInv
  <2>4. Monotone
      BY <1>3, <1>4, <2>1, <2>3 DEF Monotone, Ended
  <2>5. PICK n : n = After(OwnPath, s)
      OBVIOUS
  <2>6. n \notin AfterRetiring /\ n \notin AfterCommitting
    <3>1. s \notin AfterRetiring \union Retiring \union AfterCommitting \union Committing
        BY DEF Teaching, AfterRetiring, Retiring, AfterCommitting, Committing
    <3>2. OwnPath \in {Path, AlgebraPath}
        BY PathFacts
    <3> QED BY <1>1, <2>5, <3>1, <3>2, AfterFacts
  <2>7. Reached(r, n)' /\ OwnPath' = OwnPath
      BY <1>3, <1>6, <2>6 DEF Reached, OwnPath
  <2>8. Reached(r, After(OwnPath, s))'
      BY <2>5, <2>7
  <2>9. /\ JobSound(w)' /\ job' \in [Workers -> JobRow' \union {NULL}]
        /\ \A v \in Workers \ {w} : job'[v] = job[v]
      BY <1>1, <1>4, <2>1, <2>4, <2>8, GoneOn
  <2>10. RunsTyped'
      BY <1>3, <1>4, <2>1, <2>7, <2>9 DEF WorkflowInv, RunsTyped
  <2> QED BY <1>4, <1>5, <2>1, <2>3, <2>4, <2>9, <2>10, StepKeeps DEF Open
<1>7. CASE outcome = "rejected"
  <2> DEFINE t == job[w].token
  <2>1. /\ ReleaseBlock(t) /\ Goto(w, "review")
        /\ episode' = [episode EXCEPT ![r].status = "review_required"]
      BY <1>1, <1>3, <1>7 DEF Teaches, PersistTeaching
  <2>2. t \in Tokens /\ token[r] = t /\ episode[r] # NULL /\ grant' = grant
      BY <1>1, <2>1, TokenFacts DEF ReleaseBlock
  <2>3. InventoryStep
      BY <2>1, <2>2 DEF InventoryStep
  <2>4. /\ InventoryInv' /\ InventoryMonotone
        /\ \A i \in Items : lease'[i].token = t => status'[i] = "retired"
      BY <2>1, <2>2, <2>3, InventoryKept, InventoryStepMonotone, ReleaseKeeps DEF WorkflowInv
  <2>5. /\ episode' \in [Runs -> EpisodeRow \union {NULL}]
        /\ episode'[r] # NULL /\ episode'[r].status = "review_required" /\ episode'[r].item = episode[r].item
        /\ \A q \in Runs \ {r} : episode'[q] = episode[q]
      BY <2>1, <2>2, StatusFacts
  <2>6. ~Ended(r, "complete")
      BY <1>2, <1>7, WorkflowAssumption DEF WorkflowInv, EpisodeSound
  <2>7. Monotone
      BY <1>3, <1>4, <2>4, <2>5, <2>6 DEF Monotone, Ended
  <2>8. Ended(r, "review_required")' /\ ~Ended(r, "complete")' /\ ~Ended(r, "failed")'
      BY <2>5 DEF Ended
  <2>9. /\ JobSound(w)' /\ job' \in [Workers -> JobRow' \union {NULL}]
        /\ \A v \in Workers \ {w} : job'[v] = job[v]
      BY <1>1, <1>4, <2>1, <2>7, <2>8, GoneOn
  <2>10. EpisodeSound(r)'
      BY <1>3, <1>4, <1>7, <2>2, <2>4, <2>8, WorkflowAssumption DEF EpisodeSound
  <2>11. RunsTyped'
    <3>1. OwnPath' = OwnPath
        BY DEF OwnPath
    <3> QED BY <1>3, <1>4, <2>5, <2>9, <3>1 DEF WorkflowInv, RunsTyped
  <2> QED BY <1>4, <1>5, <2>2, <2>4, <2>5, <2>7, <2>9, <2>10, <2>11, StepKeeps DEF Open
<1> QED BY <1>6, <1>7

LEMMA RetireKeeps ==
    ASSUME WorkflowInv, NEW w \in Workers, RetiresItems(w), domain' = domain
    PROVE  WorkflowInv'
<1>1. PICK r \in Runs : r = Run(w) /\ r = job[w].run /\ job[w] # NULL
                        /\ job[w].stage = "MEMORY_DECIDED" /\ "MEMORY_DECIDED" \in Steps(OwnPath)
    BY JobFacts DEF RetiresItems, Enters, At, Run
<1>2. /\ OwnsBlock(w) /\ CloseExposures(w) /\ Goto(w, "ready") /\ LessonsKept /\ UNCHANGED runVars
      /\ UNCHANGED <<lessons, decided, taught, episode, promoted, stage, base, token, holder>>
    BY DEF RetiresItems, LessonsKept, runVars
<1>3. /\ InventoryStep /\ InventoryInv' /\ InventoryMonotone /\ grant' = grant
      /\ \A i \in Corpus!Siblings(episode[r].item) : status'[i] = "retired"
    BY <1>1, <1>2, CloseFacts
<1>4. Monotone
    BY <1>2, <1>3, QuietMonotone DEF runVars
<1>5. PICK n : n = After(OwnPath, "MEMORY_DECIDED")
    OBVIOUS
<1>6. n \notin AfterCommitting
  <2>1. "MEMORY_DECIDED" \notin AfterCommitting \union Committing
      BY DEF AfterCommitting, Committing
  <2> QED BY <1>1, <1>5, <2>1, PathFacts, AfterFacts
<1>7. taught[r] = "accepted"
    BY <1>1, JobFacts DEF JobSound, Reached, AfterTeaching, Run
<1>8. episode[r] # NULL
    BY <1>1, TokenFacts
<1>9. Reached(r, n)' /\ OwnPath' = OwnPath
    BY <1>2, <1>3, <1>6, <1>7, <1>8 DEF Reached, GroupRetired, OwnPath, Corpus!Siblings
<1>10. Reached(r, After(OwnPath, "MEMORY_DECIDED"))'
    BY <1>5, <1>9
<1>11. /\ JobSound(w)' /\ job' \in [Workers -> JobRow' \union {NULL}]
       /\ \A v \in Workers \ {w} : job'[v] = job[v]
    BY <1>1, <1>2, <1>4, <1>10, GoneOn
<1>12. RunsTyped'
    BY <1>2, <1>9, <1>11 DEF WorkflowInv, RunsTyped
<1> QED BY <1>2, <1>3, <1>4, <1>11, <1>12, StepKeeps DEF Open

\* The promoted state descends from the head, unless its run had failed.
LEMMA PromotionKeepsLineage ==
    ASSUME WorkflowInv, NEW r \in Runs, Open(r) \/ stage[r] = "FAILED_TERMINAL", ~Ended(r, "complete"),
           promoted' = [promoted EXCEPT ![StudentOf[r]] = Append(@, r)],
           Ended(r, "complete")', \A q \in Runs \ {r} : episode'[q] = episode[q],
           UNCHANGED <<stage, base>>
    PROVE  LineageInv' /\ promoted' \in [Students -> Seq(Runs)]
<1> DEFINE s == StudentOf[r]
           old == promoted[s]
           new == promoted'[s]
<1>1. s \in Students /\ promoted \in [Students -> Seq(Runs)] /\ old \in Seq(Runs)
    BY WorkflowAssumption DEF WorkflowInv, RunsTyped
<1>2. new = Append(old, r) /\ \A u \in Students \ {s} : promoted'[u] = promoted[u]
    BY <1>1
<1>3. /\ Append(old, r) \in Seq(Runs) /\ Len(Append(old, r)) = Len(old) + 1 /\ Len(old) \in Nat
      /\ \A k \in 1..Len(old) : Append(old, r)[k] = old[k]
      /\ Append(old, r)[Len(old) + 1] = r
    BY <1>1
<1>4. promoted' \in [Students -> Seq(Runs)]
    BY <1>1, <1>3
<1>5. stage' = stage /\ base' = base /\ \A q \in Runs : Open(q)' <=> Open(q)
    BY DEF Open
<1>6. /\ Len(new) = Len(old) + 1 /\ Len(old) \in Nat /\ new[Len(old) + 1] = r
      /\ \A k \in 1..Len(old) : new[k] = old[k]
    BY <1>2, <1>3
<1> HIDE DEF new, old
<1>7. SomeFailed(s)' <=> \E j \in 1..Len(new) : stage[new[j]] = "FAILED_TERMINAL"
    BY <1>5 DEF SomeFailed, new
<1>8. SomeFailed(s) <=> \E j \in 1..Len(old) : stage[old[j]] = "FAILED_TERMINAL"
    BY DEF SomeFailed, old
<1>9. OneOpenRun'
    BY <1>5 DEF WorkflowInv, LineageInv, OneOpenRun
<1>10. Open(r) => base[r] = Len(old) \/ SomeFailed(s)
    BY DEF WorkflowInv, LineageInv, HeadsCurrent, old
<1>11. stage[r] = "FAILED_TERMINAL" \/ SomeFailed(s) => SomeFailed(s)'
    BY <1>6, <1>7, <1>8
<1>12. HeadsCurrent'
  <2> SUFFICES ASSUME NEW q \in Runs, Open(q), ~Ended(q, "complete")'
               PROVE  base[q] = Len(promoted'[StudentOf[q]]) \/ SomeFailed(StudentOf[q])'
      BY <1>5 DEF HeadsCurrent
  <2>1. q # r /\ ~Ended(q, "complete") /\ StudentOf[q] \in Students
      BY WorkflowAssumption DEF Ended
  <2>2. base[q] = Len(promoted[StudentOf[q]]) \/ SomeFailed(StudentOf[q])
      BY <2>1 DEF WorkflowInv, LineageInv, HeadsCurrent
  <2>3. CASE StudentOf[q] = s
    <3>1. stage[r] = "FAILED_TERMINAL"
        BY <2>1, <2>3 DEF WorkflowInv, LineageInv, OneOpenRun
    <3> QED BY <1>11, <2>3, <3>1
  <2>4. CASE StudentOf[q] # s
    <3>1. promoted'[StudentOf[q]] = promoted[StudentOf[q]]
        BY <1>2, <2>1, <2>4
    <3>2. SomeFailed(StudentOf[q]) => SomeFailed(StudentOf[q])'
        BY <1>5, <3>1 DEF SomeFailed
    <3> QED BY <2>2, <3>1, <3>2
  <2> QED BY <2>3, <2>4
<1>13. CanonicalLineage'
  <2> SUFFICES ASSUME NEW u \in Students, NEW k \in 1..Len(promoted'[u])
               PROVE  \/ base[promoted'[u][k]] = k - 1
                      \/ \E j \in 1..k : stage[promoted'[u][j]] = "FAILED_TERMINAL"
      BY <1>5 DEF CanonicalLineage
  <2>1. CASE u # s
      BY <1>2, <2>1 DEF WorkflowInv, LineageInv, CanonicalLineage
  <2>2. CASE u = s /\ k \in 1..Len(old)
    <3>1. \/ base[old[k]] = k - 1
          \/ \E j \in 1..k : stage[old[j]] = "FAILED_TERMINAL"
        BY <1>1, <2>2 DEF WorkflowInv, LineageInv, CanonicalLineage, old
    <3>2. \A j \in 1..k : new[j] = old[j]
        BY <1>6, <2>2
    <3>3. promoted'[u] = new /\ k \in 1..k
        BY <1>6, <2>2 DEF new
    <3>4. \/ base[new[k]] = k - 1
          \/ \E j \in 1..k : stage[new[j]] = "FAILED_TERMINAL"
        BY <3>1, <3>2, <3>3
    <3> QED BY <3>3, <3>4
  <2>3. CASE u = s /\ k = Len(old) + 1
    <3>1. CASE stage[r] = "FAILED_TERMINAL"
        BY <1>6, <2>3, <3>1 DEF new
    <3>2. CASE SomeFailed(s)
      <4>1. PICK j \in 1..Len(old) : stage[old[j]] = "FAILED_TERMINAL"
          BY <1>8, <3>2
      <4> QED BY <1>6, <2>3, <4>1 DEF new
    <3>3. CASE base[r] = Len(old)
        BY <1>6, <2>3, <3>3 DEF new
    <3> QED BY <1>10, <3>1, <3>2, <3>3
  <2> QED BY <1>6, <2>1, <2>2, <2>3 DEF new
<1>14. PromotedRan'
  <2> SUFFICES ASSUME NEW u \in Students, NEW k \in 1..Len(promoted'[u])
               PROVE  stage[promoted'[u][k]] # "ABSENT"
      BY <1>5 DEF PromotedRan
  <2>1. CASE u # s
      BY <1>2, <2>1 DEF WorkflowInv, LineageInv, PromotedRan
  <2>2. CASE u = s /\ k \in 1..Len(old)
      BY <1>1, <1>6, <2>2 DEF WorkflowInv, LineageInv, PromotedRan, new, old
  <2>3. CASE u = s /\ k = Len(old) + 1
      BY <1>6, <2>3 DEF Open, new
  <2> QED BY <1>6, <2>1, <2>2, <2>3 DEF new
<1> QED BY <1>4, <1>9, <1>12, <1>13, <1>14 DEF LineageInv

LEMMA CompleteKeeps ==
    ASSUME WorkflowInv, NEW w \in Workers, CompletesEpisode(w), domain' = domain
    PROVE  WorkflowInv'
<1>1. PICK r \in Runs, s \in Committing : /\ r = Run(w) /\ r = job[w].run /\ job[w] # NULL
                                          /\ s = job[w].stage /\ s # "CREATED" /\ JobSound(w)
    BY JobFacts DEF CompletesEpisode, Enters, At, Run, Committing
<1>2. /\ Goto(w, "ready") /\ UNCHANGED runVars
      /\ promoted' = [promoted EXCEPT ![StudentOf[r]] = Append(@, r)]
      /\ episode' = [episode EXCEPT ![r].status = "complete"]
      /\ UNCHANGED <<lessons, decided, taught, stage, base, token, holder>>
    BY <1>1 DEF CompletesEpisode, Promote, runVars
<1>3. Reached(r, s) /\ stage[r] # "ABSENT"
    BY <1>1 DEF JobSound
<1>4. taught[r] = "accepted"
    BY <1>3 DEF Reached, Committing, AfterTeaching, AfterRetiring
<1>5. episode[r] # NULL /\ token[r] \in Tokens /\ grant[token[r]] # NULL
      /\ job[w].token = token[r] /\ episode[r].item = Cold(grant[token[r]].items)
    BY <1>1, TokenFacts
<1>6. /\ InventoryInv' /\ InventoryMonotone /\ grant' = grant
      /\ \A i \in Corpus!Siblings(episode[r].item) : status'[i] = "retired"
      /\ ~Ended(r, "complete")
      /\ domain = "general" => \E i \in grant[token[r]].items : lease'[i].token # token[r]
  <2>1. CASE domain = "general" /\ OwnsBlock(w) /\ CloseExposures(w)
    <3>1. \A i \in grant[token[r]].items : lease[i].token = token[r]
        BY <1>5, <2>1 DEF OwnsBlock, BlockOf, Corpus!Owns
    <3>2. ~Ended(r, "complete")
        BY <2>1, <3>1 DEF WorkflowInv, EpisodeSound
    <3> QED BY <1>1, <2>1, <3>2, CloseFacts DEF WorkflowInv
  <2>2. CASE domain = "algebra" /\ s = "ITEMS_RETIRED" /\ episode[r].status # "complete" /\ ItemsKept
    <3>1. InventoryStep
        BY <2>2 DEF ItemsKept, InventoryStep
    <3>2. GroupRetired(r)
        BY <1>3, <2>2 DEF Reached, AfterRetiring
    <3> QED BY <2>2, <3>1, <3>2, InventoryKept, InventoryStepMonotone
            DEF ItemsKept, WorkflowInv, GroupRetired, Ended
  <2> QED BY <1>1, <2>1, <2>2 DEF CompletesEpisode, Enters
<1>7. /\ episode' \in [Runs -> EpisodeRow \union {NULL}]
      /\ episode'[r] # NULL /\ episode'[r].status = "complete" /\ episode'[r].item = episode[r].item
      /\ \A q \in Runs \ {r} : episode'[q] = episode[q]
    BY <1>2, <1>5, StatusFacts
<1>8. ~Ended(r, "review_required")
    BY <1>4 DEF WorkflowInv, EpisodeSound
<1>9. Monotone
    BY <1>2, <1>6, <1>7, <1>8 DEF Monotone, Ended
<1>10. /\ Ended(r, "complete")' /\ ~Ended(r, "review_required")' /\ ~Ended(r, "failed")'
       /\ GroupRetired(r)'
    BY <1>6, <1>7 DEF Ended, GroupRetired, Corpus!Siblings
<1>11. EpisodeSound(r)'
    BY <1>2, <1>4, <1>5, <1>6, <1>10, WorkflowAssumption DEF EpisodeSound
<1>12. Reached(r, After(OwnPath, s))'
    BY <1>2, <1>4, <1>10 DEF Reached
<1>13. /\ JobSound(w)' /\ job' \in [Workers -> JobRow' \union {NULL}]
       /\ \A v \in Workers \ {w} : job'[v] = job[v]
    BY <1>1, <1>2, <1>9, <1>12, GoneOn
<1>14. Open(r) \/ stage[r] = "FAILED_TERMINAL"
  <2>1. stage[r] # "COMPLETE" /\ stage[r] # "REVIEW_REQUIRED"
      BY <1>6, <1>8 DEF WorkflowInv, RunSound, Reached, AfterCommitting
  <2> QED BY <1>3, <2>1 DEF Open, Terminal
<1>15. LineageInv' /\ promoted' \in [Students -> Seq(Runs)]
    BY <1>2, <1>6, <1>7, <1>10, <1>14, PromotionKeepsLineage
<1>16. RunsTyped'
  <2>1. OwnPath' = OwnPath
      BY DEF OwnPath
  <2> QED BY <1>2, <1>7, <1>13, <1>15, <2>1 DEF WorkflowInv, RunsTyped
<1>17. LessonsKept
    BY <1>2 DEF LessonsKept
<1> QED BY <1>2, <1>6, <1>7, <1>9, <1>11, <1>13, <1>15, <1>16, <1>17, StepKeeps

LEMMA CommitKeeps ==
    ASSUME WorkflowInv, NEW w \in Workers, Commits(w), domain' = domain
    PROVE  WorkflowInv'
<1>1. PICK r \in Runs, s \in Steps(OwnPath) :
          /\ r = Run(w) /\ r = job[w].run /\ job[w] # NULL /\ s = job[w].stage /\ JobSound(w) /\ RunSound(r)
    BY JobFacts DEF Commits, At, Run
<1>2. PICK next :
          /\ CommitTo(w, next)
          /\ \/ job[w].at \in {"ready", "misnamed"} /\ next = After(OwnPath, s)
             \/ job[w].at = "review" /\ next = "REVIEW_REQUIRED"
    BY <1>1 DEF Commits, At
<1>3. /\ holder[r] = w /\ stage' = [stage EXCEPT ![r] = next]
      /\ token' = [token EXCEPT ![r] = job[w].token] /\ holder' = [holder EXCEPT ![r] = NULL]
      /\ Drops(w)
      /\ UNCHANGED <<status, lease, grant, exposures, taught, episode, lessons, decided, promoted, base>>
    BY <1>1, <1>2 DEF CommitTo, Holds, corpusVars, storeVars
<1>4. stage[r] = s /\ s \notin Terminal \union {"ABSENT"}
    BY <1>1, <1>3, PathFacts, StepFacts DEF JobSound
<1>5. /\ next \in Steps(OwnPath) \union {"COMPLETE", "REVIEW_REQUIRED"} /\ next # "CREATED"
      /\ next \in Steps(OwnPath) \union {"COMPLETE"} => Reached(r, next)
      /\ next = "REVIEW_REQUIRED" => Ended(r, "review_required")
      /\ next # "FAILED_TERMINAL" /\ next # "ABSENT"
  <2>1. OwnPath \in {Path, AlgebraPath}
      BY PathFacts
  <2>2. \A n \in Steps(OwnPath) : n \notin Terminal \union {"ABSENT"}
      BY <2>1, StepFacts
  <2>3. CASE job[w].at \in {"ready", "misnamed"} /\ next = After(OwnPath, s)
    <3>1. next \in Steps(OwnPath) \union {"COMPLETE"} /\ next # "CREATED"
        BY <1>1, <2>1, <2>3, AfterFacts
    <3>2. Reached(r, next)
        BY <1>1, <2>3 DEF JobSound
    <3> QED BY <2>2, <3>1, <3>2 DEF Terminal
  <2>4. CASE job[w].at = "review" /\ next = "REVIEW_REQUIRED"
      BY <1>1, <1>4, <2>2, <2>4 DEF JobSound, Terminal
  <2> QED BY <1>2, <2>3, <2>4
<1>6. /\ job[w].token \in Tokens /\ grant[job[w].token] # NULL /\ grant[job[w].token].owner = r
      /\ token[r] # NULL => token[r] = job[w].token
  <2>1. CASE s = "CREATED"
    <3>1. job[w].at = "ready"
        BY <1>1, <1>2, <2>1 DEF JobSound, Grading, Teaching
    <3> QED BY <1>1, <1>4, <2>1, <3>1 DEF JobSound, RunSound
  <2>2. CASE s # "CREATED"
      BY <1>1, <2>2, TokenFacts
  <2> QED BY <2>1, <2>2
<1>7. /\ stage'[r] = next /\ token'[r] = job[w].token /\ holder'[r] = NULL
      /\ \A q \in Runs \ {r} : stage'[q] = stage[q] /\ token'[q] = token[q] /\ holder'[q] = holder[q]
    BY <1>3 DEF WorkflowInv, RunsTyped
<1>8. InventoryStep
    BY <1>3 DEF InventoryStep
<1>9. InventoryInv' /\ InventoryMonotone
    BY <1>8, InventoryKept, InventoryStepMonotone DEF WorkflowInv
<1>10. Monotone
    BY <1>3, <1>4, <1>5, <1>6, <1>7, <1>9 DEF Monotone, Ended, Terminal
<1>11. /\ job' \in [Workers -> JobRow' \union {NULL}] /\ job'[w] = NULL
       /\ \A v \in Workers \ {w} : job'[v] = job[v]
    BY <1>3, DropsFacts
<1>12. OwnPath' = OwnPath
    BY DEF OwnPath
<1>13. RunsTyped'
  <2>1. stage' \in [Runs -> Steps(OwnPath) \union Terminal \union {"ABSENT"}]
      BY <1>3, <1>5 DEF WorkflowInv, RunsTyped, Terminal
  <2>2. token' \in [Runs -> Tokens \union {NULL}] /\ holder' \in [Runs -> Workers \union {NULL}]
      BY <1>3, <1>6 DEF WorkflowInv, RunsTyped
  <2> QED BY <1>3, <1>11, <1>12, <2>1, <2>2 DEF WorkflowInv, RunsTyped
<1>14. RunSound(r)'
  <2>1. next \in Steps(OwnPath) \union {"COMPLETE"} => Reached(r, next)'
      BY <1>5, <1>10, ReachedStays DEF WorkflowInv
  <2>2. next = "REVIEW_REQUIRED" => Ended(r, "review_required")'
      BY <1>3, <1>5 DEF Ended
  <2> QED BY <1>3, <1>5, <1>6, <1>7, <1>12, <2>1, <2>2, WorkflowAssumption DEF RunSound
<1>15. \A q \in Runs : Open(q)' => Open(q)
    BY <1>4, <1>7 DEF Open, Terminal
<1>16. JobSound(w)' /\ NULL \notin Workers
    BY <1>11, WorkflowAssumption DEF JobSound
<1>17. LessonsKept
    BY <1>3 DEF LessonsKept
<1> QED BY <1>3, <1>7, <1>9, <1>10, <1>11, <1>13, <1>14, <1>15, <1>16, <1>17, StepKeeps

LEMMA FailKeeps ==
    ASSUME WorkflowInv, NEW w \in Workers, Fails(w), domain' = domain
    PROVE  WorkflowInv'
<1>1. PICK r \in Runs, s \in Steps(OwnPath) :
          /\ r = Run(w) /\ r = job[w].run /\ job[w] # NULL /\ s = job[w].stage /\ JobSound(w) /\ RunSound(r)
          /\ job[w].at \notin {"ready", "misnamed", "review", "record", "failing"}
    BY JobFacts DEF Fails, Run
<1>2. /\ holder[r] = w /\ holder' = [holder EXCEPT ![r] = NULL]
      /\ \/ Drops(w) /\ stage' = stage
         \/ stage' = [stage EXCEPT ![r] = "FAILED_TERMINAL"] /\ Goto(w, "record")
      /\ UNCHANGED <<status, lease, grant, exposures, taught, episode, lessons, decided, promoted, base, token>>
    BY <1>1 DEF Fails, FailOf, Holds, corpusVars, storeVars
<1>3. holder'[r] = NULL /\ (\A q \in Runs \ {r} : holder'[q] = holder[q])
      /\ holder' \in [Runs -> Workers \union {NULL}]
    BY <1>2 DEF WorkflowInv, RunsTyped
<1>4. InventoryStep
    BY <1>2 DEF InventoryStep
<1>5. InventoryInv' /\ InventoryMonotone
    BY <1>4, InventoryKept, InventoryStepMonotone DEF WorkflowInv
<1>6. OwnPath' = OwnPath /\ NULL \notin Workers /\ LessonsKept
    BY <1>2, WorkflowAssumption DEF OwnPath, LessonsKept
<1>7. CASE Drops(w) /\ stage' = stage
  <2>1. /\ job' \in [Workers -> JobRow' \union {NULL}] /\ job'[w] = NULL
        /\ \A v \in Workers \ {w} : job'[v] = job[v]
      BY <1>7, DropsFacts
  <2>2. Monotone
      BY <1>2, <1>5, <1>7 DEF Monotone, Ended
  <2>3. RunsTyped'
      BY <1>2, <1>3, <1>6, <1>7, <2>1 DEF WorkflowInv, RunsTyped
  <2>4. JobSound(w)'
      BY <2>1 DEF JobSound
  <2> QED BY <1>2, <1>3, <1>5, <1>6, <1>7, <2>1, <2>2, <2>3, <2>4, StepKeeps DEF Open
<1>8. CASE stage' = [stage EXCEPT ![r] = "FAILED_TERMINAL"] /\ Goto(w, "record")
  <2>1. /\ job' \in [Workers -> JobRow' \union {NULL}]
        /\ job'[w].run = r /\ job'[w].stage = s /\ job'[w].token = job[w].token /\ job'[w].at = "record"
        /\ \A v \in Workers \ {w} : job'[v] = job[v]
    <3>1. "record" \in Ats
        BY DEF Ats
    <3> QED BY <1>1, <1>8, <3>1, GotoFacts
  <2>2. /\ stage'[r] = "FAILED_TERMINAL" /\ \A q \in Runs \ {r} : stage'[q] = stage[q]
        /\ stage' \in [Runs -> Steps(OwnPath) \union Terminal \union {"ABSENT"}]
      BY <1>8 DEF WorkflowInv, RunsTyped, Terminal
  <2>3. Monotone
      BY <1>2, <1>5, <2>2 DEF Monotone, Ended
  <2>4. RunsTyped'
      BY <1>2, <1>3, <1>6, <2>1, <2>2 DEF WorkflowInv, RunsTyped
  <2>5. JobSound(w)'
    <3>1. Reached(r, s)'
        BY <1>1, <2>3, ReachedStays DEF JobSound, WorkflowInv
    <3>2. s # "CREATED" => job[w].token \in Tokens /\ job[w].token = token[r]
        BY <1>1 DEF JobSound
    <3>3. s = "CREATED" => job[w].token = NULL
        BY <1>1 DEF JobSound
    <3> QED BY <1>2, <1>3, <1>6, <2>1, <2>2, <3>1, <3>2, <3>3 DEF JobSound
  <2>6. RunSound(r)'
    <3>1. OwnPath \in {Path, AlgebraPath}
        BY PathFacts
    <3>2. "FAILED_TERMINAL" \notin Steps(OwnPath)
        BY <3>1, StepFacts DEF Terminal
    <3> QED BY <1>1, <1>2, <1>6, <2>2, <3>2 DEF RunSound
  <2>7. \A q \in Runs : Open(q)' => Open(q)
      BY <2>2 DEF Open, Terminal
  <2> QED BY <1>2, <1>3, <1>5, <1>6, <2>1, <2>2, <2>3, <2>4, <2>5, <2>6, <2>7, StepKeeps
<1> QED BY <1>2, <1>7, <1>8

LEMMA RecordKeeps ==
    ASSUME WorkflowInv, NEW w \in Workers, RecordFailure(w), domain' = domain
    PROVE  WorkflowInv'
<1>1. PICK r \in Runs : /\ r = Run(w) /\ r = job[w].run /\ job[w] # NULL /\ JobSound(w)
                        /\ job[w].at = "failing"
    BY JobFacts DEF RecordFailure, At, Run
<1>2. /\ Drops(w) /\ UNCHANGED <<taught, lessons, decided, promoted, stage, base, token, holder>>
      /\ ReleaseBlock(job[w].token) /\ episode' = [episode EXCEPT ![r].status = "failed"]
    BY <1>1 DEF RecordFailure, runVars
<1>3. /\ job' \in [Workers -> JobRow' \union {NULL}] /\ job'[w] = NULL
      /\ \A v \in Workers \ {w} : job'[v] = job[v]
    BY <1>2, DropsFacts
<1>4. JobSound(w)' /\ OwnPath' = OwnPath /\ LessonsKept
    BY <1>2, <1>3 DEF JobSound, OwnPath, LessonsKept
<1>5. job[w].stage # "CREATED" /\ stage[r] = "FAILED_TERMINAL" /\ episode[r] # NULL
    BY <1>1 DEF JobSound
<1>6. job[w].token \in Tokens /\ token[r] = job[w].token /\ grant' = grant /\ NULL \notin Tokens
    BY <1>1, <1>2, <1>5, TokenFacts, WorkflowAssumption DEF ReleaseBlock
<1>7. InventoryStep
    BY <1>2, <1>6 DEF InventoryStep
<1>8. /\ InventoryInv' /\ InventoryMonotone
      /\ \A i \in Items : lease'[i].token = job[w].token => status'[i] = "retired"
    BY <1>2, <1>6, <1>7, InventoryKept, InventoryStepMonotone, ReleaseKeeps DEF WorkflowInv
<1>9. /\ episode' \in [Runs -> EpisodeRow \union {NULL}]
      /\ episode'[r] # NULL /\ episode'[r].status = "failed" /\ episode'[r].item = episode[r].item
      /\ \A q \in Runs \ {r} : episode'[q] = episode[q]
    BY <1>2, <1>5, StatusFacts
\* What was complete may be overwritten, but only of a run that had failed.
<1>10. Monotone
    BY <1>2, <1>5, <1>8, <1>9 DEF Monotone, Ended
<1>11. EpisodeSound(r)'
  <2>1. ~Ended(r, "complete")' /\ ~Ended(r, "review_required")'
      BY <1>9 DEF Ended
  <2>2. token'[r] = job[w].token /\ token'[r] # NULL /\ stage'[r] = "FAILED_TERMINAL"
      BY <1>2, <1>5, <1>6
  <2> QED BY <1>2, <1>6, <1>8, <2>1, <2>2 DEF EpisodeSound
<1>12. RunsTyped'
    BY <1>2, <1>3, <1>4, <1>9 DEF WorkflowInv, RunsTyped
<1> QED BY <1>2, <1>3, <1>4, <1>6, <1>8, <1>9, <1>10, <1>11, <1>12, StepKeeps DEF Open

LEMMA BeginKeeps ==
    ASSUME WorkflowInv, NEW w \in Workers, BeginFailure(w), domain' = domain
    PROVE  WorkflowInv'
<1>1. PICK r \in Runs, s \in Steps(OwnPath) :
          /\ r = Run(w) /\ r = job[w].run /\ s = job[w].stage /\ job[w] # NULL /\ JobSound(w)
          /\ job[w].at = "record"
    BY JobFacts DEF BeginFailure, At, Run
<1>2. UNCHANGED <<status, lease, grant, exposures, episode, taught, lessons, decided, promoted,
                  stage, base, token, holder>>
    BY DEF BeginFailure, corpusVars, storeVars, runVars
<1>3. InventoryStep
    BY <1>2 DEF InventoryStep
<1>4. InventoryInv' /\ InventoryMonotone
    BY <1>3, InventoryKept, InventoryStepMonotone DEF WorkflowInv
<1>5. Monotone
    BY <1>2, <1>4, QuietMonotone DEF runVars
<1>6. /\ job' \in [Workers -> JobRow' \union {NULL}]
      /\ \A v \in Workers \ {w} : job'[v] = job[v]
      /\ \/ job'[w] = NULL
         \/ /\ job[w].token # NULL /\ episode[r] # NULL
            /\ job'[w].run = r /\ job'[w].stage = s
            /\ job'[w].token = job[w].token /\ job'[w].at = "failing"
  <2>1. CASE Drops(w)
      BY <2>1, DropsFacts
  <2>2. CASE job[w].token # NULL /\ episode[r] # NULL /\ Goto(w, "failing")
    <3>1. "failing" \in Ats
        BY DEF Ats
    <3> QED BY <1>1, <2>2, <3>1, GotoFacts
  <2> QED BY <1>1, <2>1, <2>2 DEF BeginFailure
<1>7. OwnPath' = OwnPath /\ LessonsKept
    BY <1>2 DEF OwnPath, LessonsKept
<1>8. JobSound(w)'
  <2>1. CASE job'[w] = NULL
      BY <2>1 DEF JobSound
  <2>2. CASE job'[w] # NULL
    <3>1. Reached(r, s)'
        BY <1>1, <1>5, ReachedStays DEF JobSound, WorkflowInv
    <3>2. /\ stage[r] = "FAILED_TERMINAL" /\ s # "CREATED"
          /\ job[w].token \in Tokens /\ job[w].token = token[r]
          /\ holder[r] = w => stage[r] = s
        BY <1>1, <1>6, <2>2 DEF JobSound
    <3> QED BY <1>2, <1>6, <1>7, <2>2, <3>1, <3>2 DEF JobSound
  <2> QED BY <2>1, <2>2
<1>9. RunsTyped'
    BY <1>2, <1>6, <1>7 DEF WorkflowInv, RunsTyped
<1> QED BY <1>2, <1>4, <1>5, <1>6, <1>7, <1>8, <1>9, StepKeeps DEF Open

LEMMA CrashKeeps ==
    ASSUME WorkflowInv, NEW w \in Workers, Crash(w), domain' = domain
    PROVE  WorkflowInv'
<1>1. /\ Drops(w)
      /\ UNCHANGED <<status, lease, grant, exposures, taught, episode, lessons, decided, promoted,
                     stage, base, token, holder>>
    BY DEF Crash, corpusVars, storeVars, runVars
<1>2. /\ job' \in [Workers -> JobRow' \union {NULL}] /\ job'[w] = NULL
      /\ \A v \in Workers \ {w} : job'[v] = job[v]
    BY <1>1, DropsFacts
<1>3. JobSound(w)' /\ OwnPath' = OwnPath /\ LessonsKept
    BY <1>1, <1>2 DEF JobSound, OwnPath, LessonsKept
<1>4. InventoryStep
    BY <1>1 DEF InventoryStep
<1>5. InventoryInv' /\ InventoryMonotone
    BY <1>4, InventoryKept, InventoryStepMonotone DEF WorkflowInv
<1>6. Monotone
    BY <1>1, <1>5 DEF Monotone, Ended
<1>7. RunsTyped'
    BY <1>1, <1>2, <1>3 DEF WorkflowInv, RunsTyped
<1> QED BY <1>1, <1>2, <1>3, <1>5, <1>6, <1>7, StepKeeps DEF Open

LEMMA ClaimKeeps ==
    ASSUME WorkflowInv, NEW w \in Workers, NEW r \in Runs, Claim(w, r), domain' = domain
    PROVE  WorkflowInv'
<1> DEFINE row == [run |-> r, stage |-> stage[r], token |-> token[r], at |-> "enter"]
<1>1. /\ Open(r) /\ holder' = [holder EXCEPT ![r] = w] /\ job' = [job EXCEPT ![w] = row]
      /\ UNCHANGED <<status, lease, grant, exposures, taught, episode, lessons, decided, promoted,
                     stage, base, token>>
    BY DEF Claim, corpusVars, storeVars
<1>2. stage[r] \in Steps(OwnPath) /\ OwnPath' = OwnPath
    BY <1>1 DEF Open, WorkflowInv, RunsTyped, OwnPath
<1>3. row \in JobRow /\ JobRow' = JobRow
    BY <1>2 DEF WorkflowInv, RunsTyped, JobRow, Ats
<1>4. /\ row.run = r /\ row.stage = stage[r] /\ row.token = token[r] /\ row.at = "enter"
    OBVIOUS
<1> HIDE DEF row
<1>5. /\ job' \in [Workers -> JobRow' \union {NULL}] /\ job'[w] = row
      /\ \A v \in Workers \ {w} : job'[v] = job[v]
    BY <1>1, <1>3 DEF WorkflowInv, RunsTyped
<1>6. /\ holder' \in [Runs -> Workers \union {NULL}]
      /\ \A q \in Runs : holder'[q] = IF q = r THEN w ELSE holder[q]
    BY <1>1 DEF WorkflowInv, RunsTyped
<1>7. InventoryStep
    BY <1>1 DEF InventoryStep
<1>8. InventoryInv' /\ InventoryMonotone
    BY <1>7, InventoryKept, InventoryStepMonotone DEF WorkflowInv
<1>9. Monotone
    BY <1>1, <1>8 DEF Monotone, Ended
<1>10. RunsTyped'
    BY <1>1, <1>2, <1>5, <1>6 DEF WorkflowInv, RunsTyped
<1>11. JobSound(w)'
  <2>1. RunSound(r) /\ token[r] \in Tokens \union {NULL}
      BY DEF WorkflowInv, RunsTyped
  <2>2. /\ stage[r] # "ABSENT" /\ Reached(r, stage[r])
        /\ stage[r] # "CREATED" => token[r] \in Tokens
        /\ stage[r] = "CREATED" => token[r] = NULL
      BY <1>1, <1>2, <2>1 DEF RunSound, Open, Terminal
  <2>3. /\ stage'[r] = stage[r] /\ token'[r] = token[r]
        /\ job'[w].run = r /\ job'[w].stage = stage[r] /\ job'[w].token = token[r] /\ job'[w].at = "enter"
      BY <1>1, <1>4, <1>5
  <2>4. PICK s : s = stage[r]
      OBVIOUS
  <2>5. Reached(r, s)'
      BY <1>9, <2>2, <2>4, ReachedStays DEF WorkflowInv
  <2> QED BY <2>2, <2>3, <2>4, <2>5 DEF JobSound
<1>12. LessonsKept
    BY <1>1 DEF LessonsKept
<1> QED BY <1>1, <1>5, <1>6, <1>8, <1>9, <1>10, <1>11, <1>12, StepKeeps DEF Open

LEMMA CreateKeeps ==
    ASSUME WorkflowInv, NEW r \in Runs, Create(r), domain' = domain
    PROVE  WorkflowInv'
<1> DEFINE s == StudentOf[r]
<1>1. /\ stage[r] = "ABSENT"
      /\ \A q \in Runs : StudentOf[q] = StudentOf[r] => ~Open(q)
      /\ stage' = [stage EXCEPT ![r] = "CREATED"]
      /\ base' = [base EXCEPT ![r] = Len(promoted[s])]
      /\ UNCHANGED <<status, lease, grant, exposures, taught, episode, lessons, decided, promoted,
                     token, holder, job>>
    BY PathFacts DEF Create, corpusVars, storeVars
<1>2. s \in Students /\ Len(promoted[s]) \in Nat
    BY WorkflowAssumption DEF WorkflowInv, RunsTyped
<1>3. /\ stage'[r] = "CREATED" /\ (\A q \in Runs \ {r} : stage'[q] = stage[q])
      /\ base'[r] = Len(promoted[s]) /\ (\A q \in Runs \ {r} : base'[q] = base[q])
      /\ base' \in [Runs -> Nat]
      /\ stage' \in [Runs -> Steps(OwnPath) \union Terminal \union {"ABSENT"}]
    BY <1>1, <1>2, PathFacts DEF WorkflowInv, RunsTyped
<1>4. InventoryStep
    BY <1>1 DEF InventoryStep
<1>5. InventoryInv' /\ InventoryMonotone
    BY <1>4, InventoryKept, InventoryStepMonotone DEF WorkflowInv
<1>6. Monotone
    BY <1>1, <1>3, <1>5 DEF Monotone, Ended
<1>7. OwnPath' = OwnPath /\ JobRow' = JobRow
    BY DEF OwnPath, JobRow
<1>8. RunsTyped'
    BY <1>1, <1>3, <1>7 DEF WorkflowInv, RunsTyped
<1>9. RunSound(r)'
  <2>1. RunSound(r)
      BY DEF WorkflowInv
  <2>2. Reached(r, "CREATED")'
      BY DEF Reached, AfterTeaching, AfterRetiring, AfterCommitting
  <2> QED BY <1>1, <1>3, <1>7, <2>1, <2>2 DEF RunSound
<1>10. \A q \in Runs : Open(q)' <=> q = r \/ Open(q)
    BY <1>1, <1>3 DEF Open, Terminal
<1>11. LineageInv'
  <2>1. OneOpenRun'
      BY <1>1, <1>10 DEF WorkflowInv, LineageInv, OneOpenRun
  <2>2. HeadsCurrent'
    <3> SUFFICES ASSUME NEW q \in Runs, Open(q)', ~Ended(q, "complete")'
                 PROVE  base'[q] = Len(promoted'[StudentOf[q]]) \/ SomeFailed(StudentOf[q])'
        BY DEF HeadsCurrent
    <3>1. CASE q = r
        BY <1>1, <1>3, <3>1
    <3>2. CASE q # r
      <4>1. base[q] = Len(promoted[StudentOf[q]]) \/ SomeFailed(StudentOf[q])
          BY <1>1, <1>10, <3>2 DEF WorkflowInv, LineageInv, HeadsCurrent, Ended
      <4>2. StudentOf[q] \in Students
          BY WorkflowAssumption
      <4> QED BY <1>1, <1>3, <1>6, <3>2, <4>1, <4>2, SomeFailedStays DEF WorkflowInv
    <3> QED BY <3>1, <3>2
  <2>3. \A u \in Students : \A k \in 1..Len(promoted[u]) :
            promoted[u][k] \in Runs /\ promoted[u][k] # r
      BY <1>1 DEF WorkflowInv, RunsTyped, LineageInv, PromotedRan
  <2>4. \A u \in Students : \A k \in 1..Len(promoted[u]) :
            stage'[promoted[u][k]] = stage[promoted[u][k]] /\ base'[promoted[u][k]] = base[promoted[u][k]]
      BY <1>3, <2>3
  <2>5. PromotedRan'
      BY <1>1, <2>4 DEF WorkflowInv, LineageInv, PromotedRan
  <2>6. CanonicalLineage'
    <3>1. ASSUME NEW u \in Students, NEW k \in 1..Len(promoted[u])
          PROVE  \A j \in 1..k : stage'[promoted[u][j]] = stage[promoted[u][j]]
      <4>1. \A j \in 1..k : j \in 1..Len(promoted[u])
          BY DEF WorkflowInv, RunsTyped
      <4> QED BY <2>4, <4>1
    <3> QED BY <1>1, <2>4, <3>1 DEF WorkflowInv, LineageInv, CanonicalLineage
  <2> QED BY <2>1, <2>2, <2>5, <2>6 DEF LineageInv
<1>12. LessonsKept
    BY <1>1 DEF LessonsKept
<1> QED BY <1>1, <1>3, <1>5, <1>6, <1>8, <1>9, <1>11, <1>12, StepKeeps

LEMMA TickStepKeeps ==
    ASSUME WorkflowInv, Tick \/ UNCHANGED vars, domain' = domain
    PROVE  WorkflowInv'
<1>1. /\ InventoryStep /\ grant' = grant
      /\ UNCHANGED <<taught, episode, lessons, decided, promoted, stage, base, token, holder, job>>
    BY DEF Tick, Corpus!Tick, InventoryStep, storeVars, runVars, corpusVars, vars
<1>2. InventoryInv' /\ InventoryMonotone
    BY <1>1, InventoryKept, InventoryStepMonotone DEF WorkflowInv
<1>3. Monotone
    BY <1>1, <1>2 DEF Monotone, Ended
<1>4. OwnPath' = OwnPath /\ JobRow' = JobRow /\ LessonsKept
    BY <1>1 DEF OwnPath, JobRow, LessonsKept
<1>5. RunsTyped'
    BY <1>1, <1>4 DEF WorkflowInv, RunsTyped
<1> QED BY <1>1, <1>2, <1>3, <1>4, <1>5, StepKeeps DEF Open

LEMMA StepOfKeeps ==
    ASSUME WorkflowInv, NEW w \in Workers, StepOf(w), domain' = domain
    PROVE  WorkflowInv'
BY ClaimKeeps, MoveKeeps, LeaseKeeps, TeachKeeps, RetireKeeps, CompleteKeeps, CommitKeeps, FailKeeps,
   BeginKeeps, RecordKeeps, CrashKeeps DEF StepOf

-----------------------------------------------------------------------------
(* Every action of the workflows is one of these steps.                    *)

Special == {"CREATED"} \union Teaching \union Retiring \union Committing

\* The three items of a block are in it.
LEMMA BlockMembers ==
    ASSUME InventoryInv, NEW t \in Tokens, grant[t] # NULL
    PROVE  LET block == grant[t].items IN
           block \subseteq Items /\ Cold(block) \in block /\ Treated(block) \in block /\ Control(block) \in block
<1> DEFINE block == grant[t].items
           b1 == block \ {Cold(block)}
           b2 == b1 \ {Treated(block)}
<1>1. block \subseteq Items /\ IsFiniteSet(block) /\ Cold(block) \in block /\ Cardinality(block) = 3
    BY BlockFacts, WorkflowAssumption DEF InventoryInv, GrantsAreBlocks
<1>2. Cardinality({}) = 0
    BY FS_EmptySet
<1> HIDE DEF block
<1>3. IsFiniteSet(b1) /\ Cardinality(b1) = 2
    BY <1>1, FS_RemoveElement
<1> HIDE DEF b1
<1>4. Treated(block) \in b1
    BY <1>2, <1>3 DEF Treated, b1
<1>5. IsFiniteSet(b2) /\ Cardinality(b2) = 1
    BY <1>3, <1>4, FS_RemoveElement
<1> HIDE DEF b2
<1>6. b2 # {} /\ b2 = block \ {Cold(block), Treated(block)}
    BY <1>2, <1>5 DEF b1, b2
<1>7. Control(block) \in b2
    BY <1>6 DEF Control
<1> QED BY <1>1, <1>4, <1>7 DEF b1, b2, block

LEMMA RefuseMoves ==
    ASSUME NEW w \in Workers, job[w] # NULL, job[w].at \in {"enter", "recalled", "half", "exposed", "made"},
           Refuse(w)
    PROVE  Moves(w)
BY DEF Refuse, Moves, corpusVars, storeVars, LessonsKept

LEMMA ForkMoves ==
    ASSUME NEW w \in Workers, At(w, "enter"), job[w].stage \notin Special, Fork(w)
    PROVE  Moves(w)
<1>1. CASE Refuse(w)
    BY <1>1, RefuseMoves DEF At
<1>2. CASE Goto(w, "ready") /\ UNCHANGED <<corpusVars, taught, episode, lessons, recalled, decided, stored,
                                           promoted, runVars>>
    BY <1>2 DEF At, Moves, Special, corpusVars, LessonsKept
<1> QED BY <1>1, <1>2 DEF Fork

LEMMA RetrieveMoves ==
    ASSUME NEW w \in Workers, NEW o, At(w, "enter"), Retrieve(w, o)
    PROVE  Moves(w)
<1>1. CASE Refuse(w)
    BY <1>1, RefuseMoves DEF At
<1>2. CASE Goto(w, "recalled") /\ UNCHANGED <<corpusVars, taught, episode, blocks, lessons, decided, stored,
                                              promoted, runVars>>
    BY <1>2 DEF At, Moves, corpusVars, LessonsKept
<1> QED BY <1>1, <1>2 DEF Retrieve

LEMMA StoreMoves ==
    ASSUME WorkflowInv, NEW w \in Workers, At(w, "exposed") \/ At(w, "made"), StoreAttempts(w)
    PROVE  Moves(w)
<1>1. job[w] # NULL /\ job[w].at \in {"exposed", "made"} /\ job[w].stage \in Showing
    BY DEF At, WorkflowInv, JobSound
<1>2. job[w].stage \notin Special
    BY <1>1 DEF Showing, Student, Special, Teaching, Retiring, Committing
<1>3. CASE Refuse(w)
    BY <1>1, <1>3, RefuseMoves
<1>4. CASE Goto(w, "ready") /\ UNCHANGED <<corpusVars, taught, episode, blocks, lessons, recalled, decided,
                                           promoted, runVars>>
    BY <1>1, <1>2, <1>4 DEF Moves, Special, corpusVars, LessonsKept
<1> QED BY <1>3, <1>4 DEF StoreAttempts

LEMMA ExposeMoves ==
    ASSUME WorkflowInv, NEW w \in Workers, At(w, "recalled") \/ At(w, "half"), job[w].stage \in Showing,
           NEW item \in Items, NEW answer \in BOOLEAN, NEW next \in {"half", "exposed"},
           Expose(w, item, answer, next)
    PROVE  Moves(w)
<1>1. job[w] # NULL /\ job[w].at \in {"recalled", "half"}
    BY DEF At
<1>2. CASE Refuse(w)
    BY <1>1, <1>2, RefuseMoves
<1>3. CASE Corpus!RecordExposure(job[w].token, item, answer) /\ Goto(w, next) /\ UNCHANGED <<storeVars, runVars>>
  <2>1. Shows(job[w].token) /\ UNCHANGED <<status, lease, grant>>
      BY <1>3 DEF Corpus!RecordExposure, Shows
  <2> QED BY <1>1, <1>3, <2>1 DEF Moves, storeVars, LessonsKept
<1> QED BY <1>2, <1>3 DEF Expose

\* The items that a job past CREATED may show.
LEMMA JobItems ==
    ASSUME WorkflowInv, NEW w \in Workers, job[w] # NULL, job[w].stage # "CREATED"
    PROVE  LET block == BlockOf(w) IN
           block \subseteq Items /\ Cold(block) \in Items /\ Treated(block) \in Items /\ Control(block) \in Items
<1>1. job[w].token \in Tokens /\ grant[job[w].token] # NULL
    BY JobFacts, TokenFacts DEF Run
<1> QED BY <1>1, BlockMembers DEF BlockOf, WorkflowInv

LEMMA LeaseItemsIsStep ==
    ASSUME WorkflowInv, NEW w \in Workers, LeaseItems(w)
    PROVE  Leases(w) \/ Moves(w)
<1>1. PICK r \in Runs : r = Run(w) /\ job[w] # NULL /\ job[w] \in JobRow /\ r = job[w].run
                        /\ job[w].at = "enter" /\ job[w].stage = "CREATED"
    BY JobFacts DEF LeaseItems, Enters, At, Run
<1>2. ASSUME NEW block \in Corpus!Blocks(StudentOf[Run(w)]), NEW t \in Tokens,
             episode[Run(w)] # NULL => episode[Run(w)].item = Cold(block),
             Corpus!Grant(Run(w), StudentOf[Run(w)], block, t),
             episode' = [episode EXCEPT ![Run(w)] =
                  IF @ = NULL THEN [status |-> "active", item |-> Cold(block)] ELSE @],
             job' = [job EXCEPT ![w].token = t, ![w].at = "ready"],
             UNCHANGED <<taught, blocks, lessons, recalled, decided, stored, promoted, runVars>>
      PROVE  Leases(w)
  <2> DEFINE granted == [job[w] EXCEPT !.token = t]
             row     == [granted EXCEPT !.at = "ready"]
             one     == [job EXCEPT ![w] = granted]
  <2>1. row = [run |-> r, stage |-> "CREATED", token |-> t, at |-> "ready"]
    <3>1. job[w] = [run |-> r, stage |-> "CREATED", token |-> job[w].token, at |-> "enter"]
        BY <1>1 DEF JobRow
    <3>2. granted = [run |-> r, stage |-> "CREATED", token |-> t, at |-> "enter"]
        BY <3>1
    <3> HIDE DEF granted
    <3> QED BY <3>2
  <2>2. job \in [Workers -> JobRow \union {NULL}]
      BY DEF WorkflowInv, RunsTyped
  <2>3. job' = [one EXCEPT ![w] = [one[w] EXCEPT !.at = "ready"]]
      BY <1>2, Zenon
  <2>4. one[w] = granted
      BY <2>2
  <2>5. job' = [one EXCEPT ![w] = row]
      BY <2>3, <2>4
  <2> HIDE DEF row, granted
  <2>6. job' = [job EXCEPT ![w] = row]
      BY <2>2, <2>5
  <2>7. job' = [job EXCEPT ![w] = [run |-> Run(w), stage |-> "CREATED", token |-> t, at |-> "ready"]]
      BY <1>1, <2>1, <2>6
  <2>8. Enters(w, "CREATED") /\ LessonsKept /\ UNCHANGED <<taught, promoted, runVars>>
    <3>1. UNCHANGED <<taught, blocks, lessons, recalled, decided, stored, promoted, runVars>>
        BY <1>2
    <3> QED BY <1>1, <3>1 DEF Enters, At, LessonsKept
  <2> QED BY <1>2, <2>7, <2>8, Zenon DEF Leases, LeasesFor
<1>3. CASE Refuse(w)
    BY <1>1, <1>3, RefuseMoves
<1>4. CASE \E block \in Corpus!Blocks(StudentOf[Run(w)]), t \in Tokens :
          /\ episode[Run(w)] # NULL => episode[Run(w)].item = Cold(block)
          /\ Corpus!Grant(Run(w), StudentOf[Run(w)], block, t)
          /\ episode' = [episode EXCEPT ![Run(w)] =
                IF @ = NULL THEN [status |-> "active", item |-> Cold(block)] ELSE @]
          /\ job' = [job EXCEPT ![w].token = t, ![w].at = "ready"]
          /\ UNCHANGED <<taught, blocks, lessons, recalled, decided, stored, promoted, runVars>>
    BY <1>2, <1>4, Zenon
<1> QED BY <1>3, <1>4, Zenon DEF LeaseItems

LEMMA GeneralSteps ==
    ASSUME WorkflowInv, NEW w \in Workers, domain = "general", Handle(w)
    PROVE  StepOf(w)
<1>1. CASE LeaseItems(w)
    BY <1>1, LeaseItemsIsStep DEF StepOf
<1>2. CASE ForkState(w)
  <2>1. "DOMAIN_ITEMS_LEASED" \notin Special
      BY DEF Special, Teaching, Retiring, Committing
  <2> QED BY <1>2, <2>1, ForkMoves DEF ForkState, Enters, StepOf
<1>3. CASE RetrieveLessons(w)
    BY <1>3, RetrieveMoves DEF RetrieveLessons, Enters, StepOf
<1>4. CASE ExposeCold(w)
  <2>1. At(w, "recalled") /\ job[w] # NULL /\ job[w].stage \in Showing /\ job[w].stage # "CREATED"
        /\ Expose(w, Cold(BlockOf(w)), FALSE, "exposed")
      BY <1>4 DEF ExposeCold, Recalls, Showing, At
  <2> QED BY <2>1, JobItems, ExposeMoves DEF StepOf
<1>5. CASE Teach(w)
    BY <1>5 DEF Teach, Recalls, Teaches, Teaching, StepOf
<1>6. CASE ExposeRevision(w)
  <2>1. At(w, "recalled") /\ job[w] # NULL /\ job[w].stage \in Showing /\ job[w].stage # "CREATED"
        /\ Expose(w, Cold(BlockOf(w)), TRUE, "exposed")
      BY <1>6 DEF ExposeRevision, Recalls, Showing, At
  <2> QED BY <2>1, JobItems, ExposeMoves DEF StepOf
<1>7. CASE ExposeTransfer(w)
  <2>1. job[w] # NULL /\ job[w].stage \in Showing /\ job[w].stage # "CREATED"
      BY <1>7 DEF ExposeTransfer, Recalls, Showing, Student, At, WorkflowInv, JobSound
  <2>2. CASE At(w, "recalled") /\ Expose(w, Treated(BlockOf(w)), FALSE, "half")
      BY <2>1, <2>2, JobItems, ExposeMoves DEF StepOf
  <2>3. CASE At(w, "half") /\ Expose(w, Control(BlockOf(w)), FALSE, "exposed")
      BY <2>1, <2>3, JobItems, ExposeMoves DEF StepOf
  <2> QED BY <1>7, <2>2, <2>3 DEF ExposeTransfer, Recalls
<1>8. CASE MakeAttempt(w)
  <2>1. job[w] # NULL /\ job[w].at = "exposed" /\ job[w].stage \in Showing
      BY <1>8 DEF MakeAttempt, At, WorkflowInv, JobSound
  <2>2. job[w].stage \notin Special
      BY <2>1 DEF Showing, Student, Special, Teaching, Retiring, Committing
  <2>3. Goto(w, "ready") \/ Goto(w, "made")
      BY <1>8 DEF MakeAttempt
  <2>4. UNCHANGED <<corpusVars, storeVars, runVars>>
      BY <1>8 DEF MakeAttempt
  <2> QED BY <2>1, <2>2, <2>3, <2>4 DEF Moves, Special, corpusVars, storeVars, LessonsKept, StepOf
<1>9. CASE StoreMade(w)
    BY <1>9, StoreMoves DEF StoreMade, StepOf
<1>10. CASE Verify(w)
  <2>1. At(w, "enter") /\ job[w].stage \notin Special
      BY <1>10 DEF Verify, Enters, Special, Teaching, Retiring, Committing
  <2> QED BY <1>10, <2>1 DEF Verify, At, Moves, Special, corpusVars, storeVars, LessonsKept, StepOf
<1>11. CASE DecideMemory(w)
  <2>1. At(w, "enter") /\ job[w].stage \notin Special
      BY <1>11 DEF DecideMemory, Enters, Special, Teaching, Retiring, Committing
  <2>2. CASE Refuse(w)
      BY <2>1, <2>2, RefuseMoves DEF At, StepOf
  <2>3. CASE Run(w) \notin decided /\ ~Refuse(w)
    <3>1. Decides(w) /\ Goto(w, "ready")
          /\ UNCHANGED <<corpusVars, taught, episode, blocks, recalled, stored, promoted, runVars>>
        BY <1>11, <2>3 DEF DecideMemory, Decides
    <3> QED BY <2>1, <3>1 DEF At, Moves, Special, corpusVars, StepOf
  <2> QED BY <1>11, <2>2, <2>3 DEF DecideMemory
<1>12. CASE CommitEpisode(w)
  <2>1. CASE Refuse(w)
      BY <1>12, <2>1, RefuseMoves DEF CommitEpisode, Enters, At, StepOf
  <2>2. CASE OwnsBlock(w) /\ CloseExposures(w) /\ Promote(w) /\ Goto(w, "ready")
      BY <1>12, <2>2 DEF CommitEpisode, CompletesEpisode, StepOf
  <2> QED BY <1>12, <2>1, <2>2 DEF CommitEpisode
<1>13. CASE CommitStage(w)
  <2>1. OwnPath = Path
      BY DEF OwnPath
  <2> QED BY <1>13, <2>1 DEF CommitStage, Commits, StepOf
<1> QED BY <1>1, <1>2, <1>3, <1>4, <1>5, <1>6, <1>7, <1>8, <1>9, <1>10, <1>11, <1>12, <1>13 DEF Handle

LEMMA ExposeAllMoves ==
    ASSUME WorkflowInv, NEW w \in Workers, At(w, "recalled"), job[w].stage \in Student,
           NEW items \in SUBSET Items, NEW answer \in BOOLEAN, ExposeAll(w, items, answer)
    PROVE  Moves(w)
<1>1. job[w] # NULL /\ job[w].at = "recalled" /\ job[w].stage \in Showing
    BY DEF At, Showing
<1>2. CASE Refuse(w)
    BY <1>1, <1>2, RefuseMoves
<1>3. CASE /\ \A i \in items : Corpus!Owns(job[w].token, i)
           /\ exposures' = exposures \union {Corpus!Exposed(job[w].token, i, answer) : i \in items}
           /\ Goto(w, "exposed")
           /\ UNCHANGED <<status, lease, grant, contaminated, storeVars, runVars>>
  <2>1. Shows(job[w].token) /\ UNCHANGED <<status, lease, grant>>
      BY <1>3 DEF Shows
  <2> QED BY <1>1, <1>3, <2>1 DEF Moves, storeVars, LessonsKept
<1> QED BY <1>2, <1>3 DEF ExposeAll

LEMMA StoreGradesMoves ==
    ASSUME NEW w \in Workers, At(w, "enter"), job[w].stage \in Grading, StoreGrades(w)
    PROVE  Moves(w)
<1>1. job[w].stage \notin Special
    BY DEF Grading, Special, Teaching, Retiring, Committing
<1>2. Goto(w, "misnamed") \/ Goto(w, "ready")
    BY DEF StoreGrades
<1>3. UNCHANGED <<corpusVars, taught, episode, blocks, lessons, recalled, decided, promoted, runVars>>
    BY DEF StoreGrades
<1> QED BY <1>1, <1>2, <1>3 DEF At, Moves, Special, corpusVars, LessonsKept

LEMMA AlgebraSteps ==
    ASSUME WorkflowInv, NEW w \in Workers, domain = "algebra", AlgebraHandle(w)
    PROVE  StepOf(w)
<1>1. CASE AlgebraLeaseItems(w)
    BY <1>1, LeaseItemsIsStep DEF AlgebraLeaseItems, StepOf
<1>2. CASE Mark(w)
  <2>1. At(w, "enter") /\ job[w].stage \notin Special
      BY <1>2 DEF Mark, Enters, Markers, Special, Teaching, Retiring, Committing
  <2> QED BY <1>2, <2>1 DEF Mark, At, Moves, Special, corpusVars, storeVars, LessonsKept, StepOf
<1>3. CASE CreateBranches(w)
  <2>1. "BASE_STATE_SNAPSHOTTED" \notin Special
      BY DEF Special, Teaching, Retiring, Committing
  <2> QED BY <1>3, <2>1, ForkMoves DEF CreateBranches, Enters, StepOf
<1>4. CASE AlgebraRetrieve(w)
  <2>1. PICK o \in Occasions : At(w, "enter") /\ (Refuse(w) \/ Retrieve(w, o))
      BY <1>4 DEF AlgebraRetrieve, Enters
  <2> QED BY <2>1, RefuseMoves, RetrieveMoves DEF At, StepOf
<1>5. CASE RunCold(w)
  <2>1. At(w, "recalled") /\ job[w] # NULL /\ job[w].stage \in Student /\ job[w].stage # "CREATED"
        /\ ExposeAll(w, {Cold(BlockOf(w))}, FALSE)
      BY <1>5 DEF RunCold, Recalls, Student, At
  <2>2. {Cold(BlockOf(w))} \in SUBSET Items
      BY <2>1, JobItems
  <2> QED BY <2>1, <2>2, ExposeAllMoves DEF StepOf
<1>6. CASE RunRevision(w)
  <2>1. At(w, "recalled") /\ job[w] # NULL /\ job[w].stage \in Student /\ job[w].stage # "CREATED"
        /\ ExposeAll(w, {Cold(BlockOf(w))}, TRUE)
      BY <1>6 DEF RunRevision, Recalls, Student, At
  <2>2. {Cold(BlockOf(w))} \in SUBSET Items
      BY <2>1, JobItems
  <2> QED BY <2>1, <2>2, ExposeAllMoves DEF StepOf
<1>7. CASE RunTransfer(w)
  <2>1. At(w, "recalled") /\ job[w] # NULL /\ job[w].stage \in Student /\ job[w].stage # "CREATED"
        /\ ExposeAll(w, {Treated(BlockOf(w)), Control(BlockOf(w))}, FALSE)
      BY <1>7 DEF RunTransfer, Recalls, Student, At
  <2>2. {Treated(BlockOf(w)), Control(BlockOf(w))} \in SUBSET Items
      BY <2>1, JobItems
  <2> QED BY <2>1, <2>2, ExposeAllMoves DEF StepOf
<1>8. CASE AlgebraStoreAttempts(w)
    BY <1>8, StoreMoves DEF AlgebraStoreAttempts, StepOf
<1>9. CASE GradeCold(w) \/ GradeRevision(w) \/ GradeTransfer(w)
    BY <1>9, StoreGradesMoves DEF GradeCold, GradeRevision, GradeTransfer, Enters, Grading, StepOf
<1>10. CASE AlgebraTeach(w)
    BY <1>10 DEF AlgebraTeach, Recalls, Teaches, Teaching, StepOf
<1>11. CASE AlgebraDecideMemory(w)
  <2>1. At(w, "enter") /\ job[w].stage \notin Special
      BY <1>11 DEF AlgebraDecideMemory, Enters, Special, Teaching, Retiring, Committing
  <2>2. CASE Refuse(w)
      BY <2>1, <2>2, RefuseMoves DEF At, StepOf
  <2>3. CASE ~Refuse(w)
    <3>1. Decides(w) /\ Goto(w, "ready")
          /\ UNCHANGED <<corpusVars, taught, episode, blocks, recalled, stored, promoted, runVars>>
        BY <1>11, <2>3 DEF AlgebraDecideMemory, Decides
    <3> QED BY <2>1, <3>1 DEF At, Moves, Special, corpusVars, StepOf
  <2> QED BY <2>2, <2>3
<1>12. CASE RecordExposuresAndRetire(w)
  <2>1. CASE Refuse(w)
      BY <1>12, <2>1, RefuseMoves DEF RecordExposuresAndRetire, Enters, At, StepOf
  <2>2. CASE OwnsBlock(w) /\ CloseExposures(w) /\ Goto(w, "ready") /\ UNCHANGED <<storeVars, runVars>>
      BY <1>12, <2>2 DEF RecordExposuresAndRetire, RetiresItems, storeVars, LessonsKept, StepOf
  <2> QED BY <1>12, <2>1, <2>2 DEF RecordExposuresAndRetire
<1>13. CASE AlgebraCommitEpisode(w)
  <2>1. CASE Refuse(w)
      BY <1>13, <2>1, RefuseMoves DEF AlgebraCommitEpisode, Enters, At, StepOf
  <2>2. CASE episode[Run(w)].status # "complete" /\ Promote(w) /\ Goto(w, "ready") /\ UNCHANGED corpusVars
      BY <1>13, <2>2 DEF AlgebraCommitEpisode, CompletesEpisode, ItemsKept, corpusVars, StepOf
  <2> QED BY <1>13, <2>1, <2>2 DEF AlgebraCommitEpisode
<1>14. CASE AlgebraCommitStage(w)
  <2>1. OwnPath = AlgebraPath
      BY DEF OwnPath
  <2> QED BY <1>14, <2>1 DEF AlgebraCommitStage, Commits, StepOf
<1> QED BY <1>1, <1>2, <1>3, <1>4, <1>5, <1>6, <1>7, <1>8, <1>9, <1>10, <1>11, <1>12, <1>13, <1>14 DEF AlgebraHandle

LEMMA FailIsStep ==
    ASSUME NEW w \in Workers, Fail(w)
    PROVE  StepOf(w)
<1>1. job[w] # NULL /\ job[w].at \in {"enter", "recalled", "half", "exposed", "made", "refused"}
    BY DEF Fail, At
<1>2. \E retryable \in BOOLEAN : FailOf(w, retryable)
    BY DEF Fail
<1> QED BY <1>1, <1>2 DEF Fails, StepOf

LEMMA WorkflowStepKeeps ==
    ASSUME WorkflowInv, [WorkflowNext]_algebraVars
    PROVE  WorkflowInv'
<1>1. CASE UNCHANGED algebraVars
    BY <1>1, TickStepKeeps DEF algebraVars
<1>2. CASE WorkflowNext
  <2>1. domain' = domain
      BY <1>2 DEF WorkflowNext
  <2>2. CASE Supervise
    <3>1. CASE \E r \in Runs : Create(r)
        BY <2>1, <3>1, CreateKeeps
    <3>2. ASSUME NEW w \in Workers, (\E r \in Runs : Claim(w, r)) \/ Fail(w) \/ BeginFailure(w)
                                 \/ RecordFailure(w) \/ Crash(w)
          PROVE  WorkflowInv'
      <4>1. StepOf(w)
          BY <3>2, FailIsStep DEF StepOf
      <4> QED BY <2>1, <4>1, StepOfKeeps
    <3>3. CASE Tick
        BY <2>1, <3>3, TickStepKeeps
    <3> QED BY <2>2, <3>1, <3>2, <3>3 DEF Supervise
  <2>3. ASSUME NEW w \in Workers,
               \/ domain = "general" /\ Handle(w)
               \/ domain = "algebra" /\ AlgebraHandle(w)
        PROVE  WorkflowInv'
    <3>1. StepOf(w)
        BY <2>3, GeneralSteps, AlgebraSteps
    <3> QED BY <2>1, <3>1, StepOfKeeps
  <2> QED BY <1>2, <2>2, <2>3 DEF WorkflowNext
<1> QED BY <1>1, <1>2

LEMMA WorkflowStarts ==
    ASSUME AlgebraInit
    PROVE  WorkflowInv
<1>1. /\ status = [i \in Items |-> "active"] /\ lease = [i \in Items |-> Corpus!NoLease]
      /\ grant = [t \in Tokens |-> NULL] /\ exposures = {}
      /\ stage = [r \in Runs |-> "ABSENT"] /\ base = [r \in Runs |-> 0]
      /\ token = [r \in Runs |-> NULL] /\ holder = [r \in Runs |-> NULL]
      /\ job = [w \in Workers |-> NULL] /\ taught = [r \in Runs |-> NULL]
      /\ episode = [r \in Runs |-> NULL] /\ lessons = [r \in Runs |-> 0]
      /\ promoted = [s \in Students |-> <<>>] /\ domain \in {"general", "algebra"}
    BY DomainAssumption DEF AlgebraInit, Init
<1>2. InventoryInv
    BY <1>1, NoLeaseRow DEF InventoryInv, InventoryTyped, GrantsAreBlocks, LeasedTogether, GroupsApart,
                            OneLeasePerGroup, RetiredUnleased, SeenByLessee, GroupSeenInOneRun
<1>3. RunsTyped
    BY <1>1 DEF RunsTyped
<1>4. \A w \in Workers : JobSound(w)
    BY <1>1 DEF JobSound
<1>5. \A r \in Runs : RunSound(r) /\ EpisodeSound(r)
  <2>1. OwnPath \in {Path, AlgebraPath}
      BY PathFacts
  <2>2. "ABSENT" \notin Steps(OwnPath)
      BY <2>1, StepFacts
  <2> QED BY <1>1, <2>2 DEF RunSound, EpisodeSound, Ended
<1>6. BlocksOfEpisodes /\ LessonsDecided
    BY <1>1 DEF BlocksOfEpisodes, LessonsDecided
<1>7. LineageInv
    BY <1>1 DEF LineageInv, OneOpenRun, HeadsCurrent, PromotedRan, CanonicalLineage, Open
<1> QED BY <1>2, <1>3, <1>4, <1>5, <1>6, <1>7 DEF WorkflowInv

\* In every behaviour of either workflow, whoever takes over, crashes, comes late
\* or records a failure by what it read before, WorkflowInv.
THEOREM WorkflowInvariance == WorkflowSpec => []WorkflowInv
<1>1. AlgebraInit => WorkflowInv
    BY WorkflowStarts
<1>2. WorkflowInv /\ [WorkflowNext]_algebraVars => WorkflowInv'
    BY WorkflowStepKeeps
<1> QED BY <1>1, <1>2, PTL DEF WorkflowSpec

-----------------------------------------------------------------------------
(* The properties.                                                         *)

\* "every experimental item must be unseen": whatever fails, runs out or is
\* taken over, a student meets the items of a group in one run only, if no
\* group has room for two blocks.
THEOREM SeenInOneRun == OneBlockPerGroup /\ WorkflowSpec => []GroupSeenInOneRun
<1>1. OneBlockPerGroup /\ WorkflowInv => GroupSeenInOneRun
    BY DEF WorkflowInv, InventoryInv, GroupsApart
<1>2. OneBlockPerGroup => OneBlockPerGroup'
    BY DEF OneBlockPerGroup
<1> QED BY <1>1, <1>2, WorkflowInvariance, PTL

\* A run that reports the end of its work has a completed episode, one that
\* went to review an episode under review, and an episode is closed as failed
\* only after its run was.
THEOREM OutcomesAgree == WorkflowSpec => []OutcomeMatchesEpisode
<1>1. WorkflowInv => OutcomeMatchesEpisode
  <2> SUFFICES ASSUME WorkflowInv, NEW r \in Runs
               PROVE  /\ stage[r] \in {"DOMAIN_EPISODE_COMMITTED", "EPISODE_COMMITTED", "COMPLETE"} =>
                            episode[r].status = "complete"
                      /\ stage[r] = "REVIEW_REQUIRED" => episode[r].status = "review_required"
                      /\ episode[r] # NULL /\ episode[r].status = "failed" => stage[r] = "FAILED_TERMINAL"
      BY DEF OutcomeMatchesEpisode
  <2>1. RunSound(r) /\ EpisodeSound(r) /\ stage[r] \in Steps(OwnPath) \union Terminal \union {"ABSENT"}
      BY DEF WorkflowInv, RunsTyped
  <2> QED BY <2>1 DEF RunSound, EpisodeSound, Ended, Reached, AfterCommitting, Terminal
<1> QED BY <1>1, WorkflowInvariance, PTL

\* Every canonical state of a student descends from the one before it, but
\* after a run that was failed for good and promoted all the same.
THEOREM LineageStands == WorkflowSpec => []CanonicalLineage
<1>1. WorkflowInv => CanonicalLineage
    BY DEF WorkflowInv, LineageInv
<1> QED BY <1>1, WorkflowInvariance, PTL

\* No item of a completed episode's group can be leased again.
THEOREM CompletedGroupsRetire == WorkflowSpec => []CompletedGroupRetired
<1>1. WorkflowInv => CompletedGroupRetired
    BY DEF WorkflowInv, EpisodeSound, Ended, GroupRetired, CompletedGroupRetired
<1> QED BY <1>1, WorkflowInvariance, PTL

\* The domain workflow, whose memory decision is repeated after a crash, writes
\* a run's lesson once at most.
THEOREM LessonsOnce == WorkflowSpec => []LessonWrittenOnce
<1>1. WorkflowInv => LessonWrittenOnce
    BY DEF WorkflowInv, LessonsDecided, LessonWrittenOnce
<1> QED BY <1>1, WorkflowInvariance, PTL

\* Every item of a block is leased under a token of its own, and still a run
\* that holds one of them holds them all, or the group was retired.
THEOREM BlocksWhole == WorkflowSpec => []BlocksStayWhole
<1>1. WorkflowInv => BlocksStayWhole
  <2> SUFFICES ASSUME WorkflowInv, NEW t \in Tokens, grant[t] # NULL,
                      NEW i \in grant[t].items, NEW j \in grant[t].items,
                      Corpus!Owns(t, i), ~Corpus!Owns(t, j)
               PROVE  status[j] = "retired"
      BY DEF BlocksStayWhole
  <2>1. InventoryInv /\ i \in Items /\ j \in Items
      BY BlockFacts DEF WorkflowInv
  <2>2. lease[i].token = t /\ lease[j].token # t /\ t # NULL
      BY <2>1, OwnsFacts, WorkflowAssumption
  <2>3. status[i] \in {"leased", "retired"} /\ status[j] = status[i] /\ status[i] # "leased"
      BY <2>1, <2>2 DEF InventoryInv, InventoryTyped, LeasedTogether
  <2> QED BY <2>3
<1> QED BY <1>1, WorkflowInvariance, PTL

\* What one step may do to the episode of r.
ClosedStays(r) ==
    episode[r] # NULL /\ episode[r].status # "active" =>
        /\ episode'[r].status # "active"
        /\ episode[r].status = "complete" =>
              \/ episode'[r].status = "complete"
              \/ \E w \in Workers : At(w, "failing") /\ Run(w) = r /\ job'[w] = NULL
        /\ episode'[r].status = "complete" =>
              \/ episode[r].status = "complete"
              \/ /\ domain = "algebra" \/ ~OneBlockPerGroup
                 /\ status[episode[r].item] = "retired"

\* Only an active episode's run still holds its block, unless the group was
\* retired around it.
LEMMA OwnerIsActive ==
    ASSUME WorkflowInv, NEW w \in Workers, job[w] # NULL, job[w].stage # "CREATED", OwnsBlock(w),
           NEW r \in Runs, r = job[w].run
    PROVE  \/ episode[r].status = "active"
           \/ ~OneBlockPerGroup /\ status[episode[r].item] = "retired"
<1>1. /\ job[w].token \in Tokens /\ token[r] = job[w].token /\ grant[token[r]] # NULL
      /\ episode[r] # NULL /\ episode[r] \in EpisodeRow /\ episode[r].item = Cold(grant[token[r]].items)
    BY TokenFacts
<1>2. /\ episode[r].item \in Items /\ episode[r].item \in grant[token[r]].items
    BY <1>1, BlockFacts DEF WorkflowInv
<1>3. /\ lease[episode[r].item].token = token[r] /\ token[r] # NULL
      /\ status[episode[r].item] \in {"leased", "retired"}
    BY <1>1, <1>2, WorkflowAssumption
       DEF OwnsBlock, BlockOf, Corpus!Owns, WorkflowInv, InventoryInv, InventoryTyped
<1>4. EpisodeSound(r)
    BY DEF WorkflowInv
<1>5. CASE status[episode[r].item] = "leased"
  <2>1. ~GroupRetired(r)
      BY <1>2, <1>5 DEF GroupRetired, Corpus!Siblings
  <2> QED BY <1>1, <1>2, <1>3, <1>4, <1>5, <2>1 DEF EpisodeSound, Ended, EpisodeRow
<1>6. CASE status[episode[r].item] = "retired"
    BY <1>2, <1>3, <1>6 DEF WorkflowInv, InventoryInv, GroupsApart, RetiredUnleased
<1> QED BY <1>3, <1>5, <1>6

\* A worker that will write "failed" has found the episode active.
LEMMA FailingFoundActive ==
    ASSUME WorkflowInv, domain' = domain, NEW w \in Workers, StepOf(w),
           NEW v \in Workers, At(v, "failing")', ~At(v, "failing")
    PROVE  episode[Run(v)].status = "active"
<1>1. CASE Drops(w)
    BY <1>1, DropsFacts DEF At
<1>2. ASSUME NEW at \in Ats \ {"failing"}, job[w] # NULL, Goto(w, at)
      PROVE  FALSE
    BY <1>2, GotoFacts DEF At
<1>3. ASSUME NEW row, job' = [job EXCEPT ![w] = row], row.at # "failing"
      PROVE  FALSE
    BY <1>3 DEF At, WorkflowInv, RunsTyped
<1>4. CASE BeginFailure(w)
  <2>1. CASE Drops(w)
      BY <1>1, <2>1
  <2>2. CASE episode[Run(w)].status = "active" /\ Goto(w, "failing")
    <3>1. job[w] # NULL /\ "failing" \in Ats
        BY <1>4 DEF BeginFailure, At, Ats
    <3>2. v = w
        BY <2>2, <3>1, GotoFacts DEF At
    <3> QED BY <2>2, <3>2
  <2> QED BY <1>4, <2>1, <2>2 DEF BeginFailure
<1>5. CASE \E r \in Runs : Claim(w, r)
  <2>1. PICK r \in Runs :
            job' = [job EXCEPT ![w] = [run |-> r, stage |-> stage[r], token |-> token[r], at |-> "enter"]]
      BY <1>5 DEF Claim
  <2>2. PICK row : row = [run |-> r, stage |-> stage[r], token |-> token[r], at |-> "enter"]
      OBVIOUS
  <2>3. job' = [job EXCEPT ![w] = row]
      BY <2>1, <2>2
  <2>4. row.at # "failing"
      BY <2>2
  <2> QED BY <1>3, <2>3, <2>4
<1>6. CASE Leases(w)
  <2>1. PICK t : job' = [job EXCEPT ![w] = [run |-> Run(w), stage |-> "CREATED", token |-> t, at |-> "ready"]]
      BY <1>6 DEF Leases, LeasesFor
  <2>2. PICK row : row = [run |-> Run(w), stage |-> "CREATED", token |-> t, at |-> "ready"]
      OBVIOUS
  <2>3. job' = [job EXCEPT ![w] = row]
      BY <2>1, <2>2
  <2>4. row.at # "failing"
      BY <2>2
  <2> QED BY <1>3, <2>3, <2>4
<1>7. CASE Moves(w)
  <2>1. PICK at \in {"recalled", "half", "exposed", "made", "refused", "ready", "misnamed"} : Goto(w, at)
      BY <1>7 DEF Moves
  <2>2. at \in Ats \ {"failing"} /\ job[w] # NULL
      BY <1>7 DEF Ats, Moves
  <2> QED BY <1>2, <2>1, <2>2
<1>8. CASE Teaches(w) \/ RetiresItems(w) \/ CompletesEpisode(w)
  <2>1. (Goto(w, "ready") \/ Goto(w, "review")) /\ job[w] # NULL
      BY <1>8 DEF Teaches, PersistTeaching, RetiresItems, CompletesEpisode, Enters, At
  <2>2. {"ready", "review"} \subseteq Ats \ {"failing"}
      BY DEF Ats
  <2> QED BY <1>2, <2>1, <2>2
<1>9. CASE Commits(w) \/ RecordFailure(w) \/ Crash(w)
    BY <1>1, <1>9 DEF Commits, CommitTo, RecordFailure, Crash
<1>10. CASE Fails(w)
  <2>1. job[w] # NULL /\ (Drops(w) \/ Goto(w, "record"))
      BY <1>10 DEF Fails, FailOf
  <2>2. "record" \in Ats \ {"failing"}
      BY DEF Ats
  <2> QED BY <1>1, <1>2, <2>1, <2>2
<1> QED BY <1>4, <1>5, <1>6, <1>7, <1>8, <1>9, <1>10 DEF StepOf

LEMMA StepOfKeepsClosed ==
    ASSUME WorkflowInv, NEW w \in Workers, StepOf(w), domain' = domain, NEW r \in Runs
    PROVE  ClosedStays(r)
<1>1. CASE episode' = episode
    BY <1>1 DEF ClosedStays
<1>2. CASE (\E q \in Runs : Claim(w, q)) \/ Moves(w) \/ RetiresItems(w) \/ Commits(w) \/ Fails(w)
           \/ BeginFailure(w) \/ Crash(w)
  <2>1. episode' = episode
      BY <1>2 DEF Claim, Moves, RetiresItems, Commits, CommitTo, Fails, FailOf, BeginFailure, Crash,
                  storeVars
  <2> QED BY <1>1, <2>1
<1>3. CASE Leases(w)
  <2>1. PICK q \in Runs : q = Run(w) /\ LeasesFor(w, q)
      BY <1>3, JobFacts DEF Leases, LeasesFor, Enters, At
  <2>2. PICK item : episode' = [episode EXCEPT ![q] = IF @ = NULL THEN [status |-> "active", item |-> item] ELSE @]
      BY <2>1 DEF LeasesFor
  <2> QED BY <2>2 DEF ClosedStays, WorkflowInv, RunsTyped
<1>4. CASE Teaches(w)
  <2>1. PICK q \in Runs : q = Run(w) /\ q = job[w].run /\ job[w] # NULL /\ job[w].stage # "CREATED"
      BY <1>4, JobFacts DEF Teaches, At, Run, Teaching
  <2>2. PICK outcome \in {"accepted", "rejected"} :
            taught[q] \in {NULL, outcome} /\ taught' = [taught EXCEPT ![q] = outcome]
      BY <1>4, <2>1 DEF Teaches, PersistTeaching
  <2>3. taught'[q] = outcome /\ episode[q] # NULL
      BY <2>1, <2>2, TokenFacts DEF WorkflowInv, RunsTyped
  <2>4. CASE outcome = "accepted"
      BY <1>1, <1>4, <2>1, <2>3, <2>4 DEF Teaches, PersistTeaching
  <2>5. CASE outcome = "rejected"
    <3>1. episode' = [episode EXCEPT ![q].status = "review_required"]
        BY <1>4, <2>1, <2>3, <2>5 DEF Teaches, PersistTeaching
    <3>2. episode'[q].status = "review_required" /\ \A p \in Runs \ {q} : episode'[p] = episode[p]
        BY <2>3, <3>1, StatusFacts
    <3>3. ~Ended(q, "complete")
        BY <2>2, <2>5, WorkflowAssumption DEF WorkflowInv, EpisodeSound
    <3> QED BY <3>2, <3>3 DEF ClosedStays, Ended
  <2> QED BY <2>4, <2>5
<1>5. CASE RecordFailure(w)
  <2>1. PICK q \in Runs : /\ q = Run(w) /\ At(w, "failing") /\ Drops(w) /\ episode[q] # NULL
                          /\ episode' = [episode EXCEPT ![q].status = "failed"]
      BY <1>5, JobFacts DEF RecordFailure, At, JobSound, Run
  <2>2. /\ episode'[q].status = "failed" /\ job'[w] = NULL
        /\ \A p \in Runs \ {q} : episode'[p] = episode[p]
      BY <2>1, StatusFacts, DropsFacts
  <2> QED BY <2>1, <2>2 DEF ClosedStays
<1>6. CASE CompletesEpisode(w)
  <2>1. PICK q \in Runs : /\ q = Run(w) /\ q = job[w].run /\ job[w] # NULL /\ job[w].stage # "CREATED"
                          /\ job[w].stage \in Committing /\ JobSound(w)
      BY <1>6, JobFacts DEF CompletesEpisode, Enters, At, Run, Committing
  <2>2. episode[q] # NULL /\ episode[q] \in EpisodeRow
      BY <2>1, TokenFacts
  <2>3. episode' = [episode EXCEPT ![q].status = "complete"]
      BY <1>6, <2>1 DEF CompletesEpisode, Promote
  <2>4. episode'[q].status = "complete" /\ \A p \in Runs \ {q} : episode'[p] = episode[p]
      BY <2>2, <2>3, StatusFacts
  <2>5. CASE domain = "general"
    <3>1. \/ episode[q].status = "active"
          \/ ~OneBlockPerGroup /\ status[episode[q].item] = "retired"
        BY <1>6, <2>1, <2>5, OwnerIsActive DEF CompletesEpisode
    <3> QED BY <2>4, <3>1 DEF ClosedStays
  <2>6. CASE domain = "algebra" /\ job[w].stage = "ITEMS_RETIRED"
    <3>1. GroupRetired(q)
        BY <2>1, <2>6 DEF JobSound, Reached, AfterRetiring
    <3>2. status[episode[q].item] = "retired"
        BY <2>2, <3>1 DEF GroupRetired, EpisodeRow, Corpus!Siblings
    <3> QED BY <2>4, <2>6, <3>2 DEF ClosedStays
  <2> QED BY <1>6, <2>5, <2>6 DEF CompletesEpisode, Enters
<1> QED BY <1>2, <1>3, <1>4, <1>5, <1>6 DEF StepOf

\* A late worker reopens no closed episode, and completes none that failed or
\* went to review, but for a block that was retired before; and only a failure
\* that was found before the completion overwrites a completed episode.
THEOREM ClosedEpisodesStay == WorkflowSpec => EpisodeStaysClosed
<1>1. ASSUME WorkflowInv, [WorkflowNext]_algebraVars
      PROVE  [/\ \A r \in Runs : ClosedStays(r)
              /\ \A w \in Workers : At(w, "failing")' /\ ~At(w, "failing") =>
                    episode[Run(w)].status = "active"]_algebraVars
  <2> DEFINE Stay == \A r \in Runs : ClosedStays(r)
             Find == \A w \in Workers : At(w, "failing")' /\ ~At(w, "failing") =>
                        episode[Run(w)].status = "active"
  <2>1. CASE UNCHANGED algebraVars
      BY <2>1
  <2>2. ASSUME episode' = episode, job' = job
        PROVE  Stay /\ Find
      BY <2>2 DEF ClosedStays, At
  <2>3. ASSUME NEW w \in Workers, StepOf(w), domain' = domain
        PROVE  Stay /\ Find
      BY <1>1, <2>3, StepOfKeepsClosed, FailingFoundActive
  <2>4. ASSUME Supervise, domain' = domain
        PROVE  Stay /\ Find
    <3>1. (\E r \in Runs : Create(r)) \/ Tick => episode' = episode /\ job' = job
        BY DEF Create, Tick, storeVars
    <3>2. ASSUME NEW w \in Workers, (\E r \in Runs : Claim(w, r)) \/ Fail(w) \/ BeginFailure(w)
                                 \/ RecordFailure(w) \/ Crash(w)
          PROVE  StepOf(w)
        BY <3>2, FailIsStep DEF StepOf
    <3> QED BY <2>2, <2>3, <2>4, <3>1, <3>2 DEF Supervise
  <2>5. ASSUME NEW w \in Workers,
               \/ domain = "general" /\ Handle(w)
               \/ domain = "algebra" /\ AlgebraHandle(w)
        PROVE  StepOf(w)
      BY <1>1, <2>5, GeneralSteps, AlgebraSteps
  <2> QED BY <1>1, <2>1, <2>3, <2>4, <2>5 DEF WorkflowNext
<1> QED BY <1>1, WorkflowInvariance, PTL DEF WorkflowSpec, EpisodeStaysClosed, ClosedStays
=============================================================================
