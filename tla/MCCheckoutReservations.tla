----------------------- MODULE MCCheckoutReservations -----------------------
(* Instances of CheckoutReservations for TLC.                              *)
EXTENDS CheckoutReservations

CONSTANTS o1, o2, e1, v1, p1, x1, s1, small, large

\* o1 and o2 are two clicks of one buyer; o1 is edited, viewed, prepared,
\* cancelled and swept.
Kind == [r \in Requests |->
    CASE r \in {o1, o2} -> "create" [] r = e1 -> "companions" [] r = v1 -> "view"
      [] r = p1 -> "prepare" [] r = x1 -> "cancel" [] r = s1 -> "sweep"]

About == [r \in Requests |-> IF r \in {o1, o2} THEN r ELSE o1]

\* Two clicks with an edit, a heartbeat or a payment; one order to its end.
TwoClicksOrOneLife ==
    {{o1, o2, e1, v1}, {o1, o2, v1, p1}, {o1, o2, e1, p1},
     {o1, p1, x1, s1}, {o1, v1, p1, s1}, {o1, v1, x1, s1}}

Config == [r \in Requests |-> IF r = e1 THEN large ELSE small]

Ram == [c \in {Config[r] : r \in Requests} |-> IF c = large THEN 2 ELSE 1]
=============================================================================
