-------------------------- MODULE MCDomainPurchases --------------------------
(* Two activations, two forms, two staff decisions and a backfill, four to a run.   *)
EXTENDS DomainPurchases

CONSTANTS f1, f2, form, staff1, staff2, backfill

MCKindOf ==
    [c \in Calls |-> CASE c \in {f1, f2} -> "fulfil" [] c = form -> "form"
                       [] c \in {staff1, staff2} -> "staff" [] c = backfill -> "backfill"]
MCWanted == [c \in Calls |-> IF c = staff1 THEN "cancelled" ELSE "failed"]

\* One call of each kind; two activations with a staff decision or a form;
\* two staff decisions after an activation.
MCScenarios ==
    {{f1, form, staff1, backfill}, {f1, f2, staff1, backfill}, {f1, f2, form, staff2}, {f1, form, staff1, staff2}}
=============================================================================
