------------------------- MODULE MCAccountActivation -------------------------
(* Instances of AccountActivation for TLC.                                 *)
EXTENDS AccountActivation

CONSTANTS i1, i2, s1, s2, capture, webhook, resync, callback, delete, refund, grace, flip

\* The callers of activateServicesForInvoice, on two invoices of an account.
Rails == {capture, webhook, resync, callback}

\* The other writers of the two records, with a rail.
Writers == {{capture, resync, delete, flip}, {capture, refund, grace, flip}}

MCScenarios == {Rails} \cup Writers

\* The light service is on both invoices.
Shared == [i \in Invoices |-> IF i = i1 THEN {s1, s2} ELSE {s2}]

MCInvoiceOf == [c \in Calls |-> IF c = callback THEN i2 ELSE i1]

MCKindOf ==
    [c \in Calls |->
       CASE c = capture -> "capture" [] c = webhook -> "webhook" [] c = resync -> "resync"
         [] c = callback -> "callback" [] c = delete -> "delete" [] c = refund -> "refund"
         [] c = grace -> "grace" [] c = flip -> "flip"]
=============================================================================
