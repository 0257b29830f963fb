---------------------------- MODULE MCTenantSlugs ----------------------------
(* Instances of TenantSlugs for TLC.                                       *)
EXTENDS TenantSlugs

CONSTANTS alice, bob, ca, cb, va, p1, p2, s1, w1

\* Account alice orders, views, prepares its payment twice and pays; bob is after the
\* same address.
Kind == [c \in Calls |->
    CASE c \in {ca, cb} -> "create" [] c = va -> "view" [] c \in {p1, p2} -> "prepare"
      [] c = s1 -> "settle" [] c = w1 -> "sweep"]

Account == [c \in Calls |-> IF c = cb THEN bob ELSE alice]

Invoice == [c \in Settles |-> p1]

\* With the heartbeat; with a second visit to the payment page; with a rail.
Visits == {{ca, cb, va, p1, w1}, {ca, p1, p2, w1}, {ca, cb, p1, s1, w1}}
=============================================================================
