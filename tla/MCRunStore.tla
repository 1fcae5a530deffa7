---------------------------- MODULE MCRunStore ----------------------------
(***************************************************************************)
(* Instances of RunStore for TLC.                                          *)
(***************************************************************************)
EXTENDS RunStore, TLC

CONSTANTS r1, r2, s1, p1, p2, w1, w2

\* Two paths that part after CREATED and join in COMPLETE, as the program's do.
TwoPaths == {<<Created, "ITEMS_LEASED", Complete>>,
             <<Created, "DOMAIN_ITEMS_LEASED", Complete>>}
OnePath  == {<<Created, "DOMAIN_ITEMS_LEASED", Complete>>}

\* The program's own paths are of the kind the theorems speak about, and no
\* stage but the ends is on both.
ASSUME ProgramPathsAssumption ==
    /\ \A path \in {AlgebraPath, DomainGeneralPath} : IsPath(path)
    /\ {AlgebraPath[i] : i \in DOMAIN AlgebraPath}
       \intersect {DomainGeneralPath[i] : i \in DOMAIN DomainGeneralPath}
       = {Created, Complete}

NoStudent   == [r \in Runs |-> NULL]
SameStudent == [r \in Runs |-> s1]
Budget0     == [r \in Runs |-> 0]
BudgetFirst == (r1 :> 1) @@ (r2 :> 0)
OwnIds  == (p1 :> w1) @@ (p2 :> w2)
SameId  == [p \in Procs |-> w1]

TokenSymmetry == Permutations(Tokens)

\* The second run of the student is followed along one path only, while it has
\* neither failed nor ended.
SecondRunInBrief == state[r2] \in {Absent, Created, "DOMAIN_ITEMS_LEASED"}
=============================================================================
