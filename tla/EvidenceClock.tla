---------------------------- MODULE EvidenceClock ----------------------------
(***************************************************************************)
(* The created_at stamps that a snapshot reads by (training/compiler.py,   *)
(* pprl.py): a row is in the snapshot "as of" t when its stamp is at most  *)
(* t.  A stamp is the number of compilations before the row was written,   *)
(* so the watermark of the k-th compilation, which is the latest stamp     *)
(* there is, lies before everything written later.                         *)
(***************************************************************************)
EXTENDS Integers

CONSTANT Never      \* no stamp yet; beyond every stamp

VARIABLE now        \* compilations so far

ASSUME ClockAssumption == Never \in Nat

\* A row is written once.
Stamp(stamps, x) == stamps[x] = Never /\ now < Never

\* Of rows in order, those a snapshot as of t reads, and the last of these.
AsOf(s, t) == [k \in {n \in DOMAIN s : s[n].at <= t} |-> s[k]]
LastOf(f)  == f[CHOOSE k \in DOMAIN f : \A n \in DOMAIN f : n <= k]

\* The best and the worst of S by value, if one is better.
Uneven(S, value) == \E x, y \in S : value[x] > value[y]
BestAndWorst(S, value) ==
    {CHOOSE x \in S : \A y \in S : value[x] >= value[y],
     CHOOSE x \in S : \A y \in S : value[x] <= value[y]}
=============================================================================
