---------------------------- MODULE MCMpesaPayments ----------------------------
(* An invoice whose history holds two ids.                                  *)
EXTENDS MpesaPayments, TLC

CONSTANTS p1, p2, p3, m1, m2, inv1

MCPayableOf == [p \in Pushes |-> inv1]

\* Three pushes with failures; three, an add-on and a deletion; or two with a
\* failure, and two add-ons at a time.
MCBudgets ==
    {[pushes |-> 3, mishaps |-> 2, merges |-> 0, deletes |-> 0],
     [pushes |-> 3, mishaps |-> 0, merges |-> 1, deletes |-> 1],
     [pushes |-> 2, mishaps |-> 1, merges |-> 2, deletes |-> 1]}

PushSymmetry == Permutations(Pushes) \cup Permutations(Merges)
=============================================================================
