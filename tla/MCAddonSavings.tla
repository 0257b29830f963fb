--------------------------- MODULE MCAddonSavings ---------------------------
(* A shop order with two companions that have pairings and one that has not. *)
EXTENDS AddonSavings

CONSTANTS pos, dom, mail, b1, b2, b3, p1, p2, k, x, m

MCMonthly == [s \in Services |-> CASE s = pos -> 5 [] s = dom -> 3 [] s = mail -> 2]
MCSetup == [s \in Services |-> CASE s = pos -> 1 [] s = dom -> 0 [] s = mail -> 1]
MCSaving == [s \in Services |-> CASE s = pos -> 0 [] s = dom -> 2 [] s = mail -> 2]
MCCallKind == [c \in Calls |->
    CASE c \in {b1, b2, b3} -> "buy" [] c \in {p1, p2} -> "prepare" [] c = k -> "paid"
      [] c = x -> "delete" [] c = m -> "merge"]
MCWants == [c \in Calls |-> CASE c \in {b1, x} -> {dom} [] c = b2 -> {mail} [] c = b3 -> {dom, mail} [] OTHER -> {}]

Case(made, status, one) == [made |-> made, status |-> status, serial |-> one]
MCScenarios == {
    Case({b1, b2, b3, x}, "Paid", TRUE),         \* buy, merge, delete, buy again
    Case({b1, b3, x}, "Paid", FALSE),            \* two purchases of one pairing race, and a deletion
    Case({p1, p2, k, b1, m}, "Draft", TRUE)}     \* the order's life, then an add-on
=============================================================================
