---------------------------- MODULE MCJobDispatch ----------------------------
(* Instances of JobDispatch for TLC.                                       *)
EXTENDS JobDispatch

CONSTANTS c1, b1, h1, g1, w1, w2, timer, hand

\* A job for a container, and bench jobs: one queued, one held, one gated.
Lane == [j \in Jobs |-> IF j = c1 THEN "container" ELSE "bench"]
Birth == [j \in Jobs |-> CASE j \in {c1, b1} -> "queued" [] j = h1 -> "held" [] j = g1 -> "gated"]

\* A container job; the two sorts of bench jobs the host must tell apart; a job
\* that the capacity gate parked, with a run by hand beside the timer's.
Mixes == {[jobs |-> {c1}, hands |-> 0], [jobs |-> {b1, h1}, hands |-> 0], [jobs |-> {g1}, hands |-> 1]}
=============================================================================
