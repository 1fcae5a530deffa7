----------------------- MODULE MCDevelopmentalWorkflow -----------------------
(***************************************************************************)
(* Instances of DevelopmentalWorkflow for TLC.                             *)
(***************************************************************************)
EXTENDS AlgebraWorkflow, TLC

CONSTANTS a1, a2, a3, b1, b2, b3, gA, gB, f1, r1, r2, s1, s2

TwoGroups == [i \in {a1, a2, a3} |-> gA] @@ [i \in {b1, b2, b3} |-> gB]
OneFamily == [g \in Groups |-> f1]

OneStudent  == [r \in Runs |-> s1]
TwoStudents == (r1 :> s1) @@ (r2 :> s2)
OneSeed     == [r \in Runs |-> 0]
OwnSeeds    == [r \in Runs |-> r]

\* Bound: a run that follows another is not taken over in its turn, and on the
\* algebra path, which is twice as long, is explored until it has its items.
SecondInBrief ==
    \A r, q \in Runs :
        r # q /\ stage[q] \in Terminal /\ Open(r) =>
            /\ Cardinality({w \in Workers : job[w] # NULL /\ job[w].run = r}) <= 1
            /\ domain = "algebra" => \E k \in 1..3 : AlgebraPath[k] = stage[r]

\* Bound: once both runs have ended, what slow workers of theirs still do is
\* not explored.
UntilBothEnd == \E r \in Runs : stage[r] \notin Terminal

Interchangeable ==
    Permutations(Tokens) \union Permutations(Workers) \union Permutations(Runs)
=============================================================================
