---------------------------- MODULE MCCoolifyBuilds ----------------------------
(* Instances of CoolifyBuilds for TLC.                                       *)
EXTENDS CoolifyBuilds, TLC

CONSTANTS u1, u2, u3, d1, d2, d3, a1, a2

\* Uuids and attempts are only compared.
UuidSymmetry == Permutations(Resources) \cup Permutations(Builds) \cup Permutations(Attempts)
=============================================================================
