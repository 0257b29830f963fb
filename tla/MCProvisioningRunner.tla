------------------------ MODULE MCProvisioningRunner ------------------------
(* Instances of ProvisioningRunner for TLC.                                *)
EXTENDS ProvisioningRunner

CONSTANTS j1, j2, p1, p2, t1, t2

\* Two backend processes, one pass each.
TwoProcesses == [t \in {t1, t2} |-> IF t = t1 THEN p1 ELSE p2]

\* One pass at a time over two jobs; two processes at one job.
OnePassOrTwo ==
    {[ticks |-> {t1}, jobs |-> {j1, j2}, mishaps |-> 2],
     [ticks |-> {t1, t2}, jobs |-> {j1}, mishaps |-> 1]}
=============================================================================
