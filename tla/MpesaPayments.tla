----------------------------- MODULE MpesaPayments -----------------------------
(* Paying a Portal Invoice by M-Pesa: the STK push (billingRoutes.js), the   *)
(* prompt on the customer's phone, and Safaricom's callback, which knows the *)
(* payment only by the prompt's CheckoutRequestID.  The invoice keeps the    *)
(* latest id and a capped history of ids (mpesaService.js).                  *)
(*                                                                           *)
(* A push is named after the id Daraja gives its prompt.  The activation the *)
(* callback ends in is one step here; AccountActivation has it in full.      *)
EXTENDS Naturals, SequencesExt

CONSTANTS
    Pushes, Payables, PayableOf,
    Merges,             \* add-on purchases that may be merged into one of the invoices
    HistoryMax,         \* CHECKOUT_ID_HISTORY_MAX
    Budgets,            \* bounds: how many pushes, failed requests or lost callbacks,
                        \* merged add-ons and deletions a behaviour may have
    None

ASSUME MpesaAssumption ==
    /\ PayableOf \in [Pushes -> Payables]
    /\ HistoryMax \in Nat \ {0}
    /\ Budgets \subseteq [pushes : Nat, mishaps : Nat, merges : Nat, deletes : Nat]
    /\ None \notin Pushes

VARIABLES
    payable,    \* the Portal Invoice rows
    push,       \* push[p]: the POST .../stk-push that sends prompt p, and the invoice as it read it
    prompt,     \* prompt[p]: the prompt on the phone, and the amount it asks for
    callback,   \* callback[p]: Safaricom's callback for p, the invoice as it found it,
                \* and whether p was stored when the lookup began (history)
    remove,     \* remove[i]: the POST /api/invoices/:no/delete of i
    merge,      \* merge[m]: the POST /api/addons/invoice/create m, the invoice it found open,
                \* and the amount it will write there
    left,       \* what is left of the scenario
    order,      \* the pushes in the order their ids were stored, by either PUT (history)
    alone,      \* pushes whose id only the second PUT stored, outside the history (history)
    crossed,    \* invoices where a push stored its id over one stored since it read (history)
    settling    \* invoices rewritten between a callback's check and its activation (history)

promptVars == <<payable, push, prompt, callback, remove, merge, left, order, alone, crossed, settling>>
idVars == <<order, alone, crossed>>

NewInvoice == [status |-> "Unpaid", amount |-> 1, current |-> None, ids |-> <<>>]

Spend(what) == left[what] > 0 /\ left' = [left EXCEPT ![what] = @ - 1]
Mishap == Spend("mishaps")

PromptsInit ==
    /\ payable = [i \in Payables |-> NewInvoice]
    /\ push = [p \in Pushes |-> [at |-> "start", doc |-> NewInvoice]]
    /\ prompt = [p \in Pushes |-> [at |-> "none", amount |-> 1]]
    /\ callback = [p \in Pushes |-> [at |-> "none", doc |-> NewInvoice, known |-> FALSE]]
    /\ remove = [i \in Payables |-> "start"]
    /\ merge = [m \in Merges |-> [at |-> "start", on |-> None, amount |-> 0]]
    /\ left \in Budgets
    /\ order = <<>> /\ alone = {} /\ crossed = {} /\ settling = {}

\* A handler that ends forgets what it read.
PushAt(p, at) == push' = [push EXCEPT ![p] = [at |-> at, doc |-> IF at = "done" THEN NewInvoice ELSE @.doc]]
CallbackAt(p, at) ==
    callback' = [callback EXCEPT ![p].at = at, ![p].doc = IF at = "activate" THEN @ ELSE NewInvoice]
Of(p) == payable[PayableOf[p]]

----------------------------------------------------------------------------
(* POST /api/billing/mpesa/stk-push *)

\* Only a paid invoice is refused: a deleted one can still be paid.
ReadInvoice(p) ==
    /\ push[p].at = "start" /\ Spend("pushes")
    /\ IF Of(p).status = "Paid"
       THEN PushAt(p, "done")
       ELSE push' = [push EXCEPT ![p] = [at |-> "prompt", doc |-> Of(p)]]
    /\ UNCHANGED <<payable, prompt, callback, remove, merge, idVars, settling>>

\* Daraja prompts the phone; or it refuses, or answers too late.
SendPrompt(p) ==
    LET out == [prompt EXCEPT ![p] = [at |-> "out", amount |-> push[p].doc.amount]]
    IN  /\ push[p].at = "prompt"
        /\ \/ PushAt(p, "store") /\ prompt' = out /\ UNCHANGED left
           \/ PushAt(p, "done") /\ prompt' \in {prompt, out} /\ Mishap
        /\ UNCHANGED <<payable, callback, remove, merge, idVars, settling>>

Capped(ids) == SubSeq(ids, IF Len(ids) > HistoryMax THEN Len(ids) - HistoryMax + 1 ELSE 1, Len(ids))

\* Mutant: a push replaces the id of the one before.
Replaced(doc, p) == <<p>>

\* An id is in a history once: the filter drops it where it is.
Without(ids, p) ==
    IF p \in ToSet(ids) THEN RemoveAt(ids, CHOOSE n \in 1 .. Len(ids) : ids[n] = p) ELSE ids

\* appendCheckoutRequestId, from the history or else the single id as read.
Appended(doc, p) ==
    LET prior == IF doc.ids = <<>> /\ doc.current # None THEN <<doc.current>> ELSE doc.ids
    IN  Capped(Append(Without(prior, p), p))

\* The ids stored for i since doc was read.
StoredSince(i, doc) == ToSet(payable[i].ids) \ ToSet(doc.ids)
Stored(p) == p \in ToSet(order)

\* One PUT stores both fields.
StoreBoth(p) ==
    LET i == PayableOf[p]
    IN  /\ payable' = [payable EXCEPT ![i].current = p, ![i].ids = Appended(push[p].doc, p)]
        /\ order' = Append(order, p)
        /\ crossed' = IF StoredSince(i, push[p].doc) = {} THEN crossed ELSE crossed \cup {i}
        /\ UNCHANGED alone

StoreId(p) ==
    /\ push[p].at = "store"
    /\ \/ PushAt(p, "done") /\ StoreBoth(p) /\ UNCHANGED left
       \/ /\ PushAt(p, "single") /\ Mishap
          /\ StoreBoth(p) \/ UNCHANGED <<payable, idVars>>
    /\ UNCHANGED <<prompt, callback, remove, merge, settling>>

\* p was stored before q was.
Before(p, q) == \E m, n \in 1 .. Len(order) : m < n /\ order[m] = p /\ order[n] = q

\* An id is written over the latest one, outside the history: first, or again
\* when only the answer to the first PUT was lost.
StoreAlone(p) ==
    LET i == PayableOf[p]
    IN  /\ payable' = [payable EXCEPT ![i].current = p]
        /\ IF Stored(p)
           THEN /\ crossed' = IF \E q \in Pushes : PayableOf[q] = i /\ Before(p, q) THEN crossed \cup {i} ELSE crossed
                /\ UNCHANGED <<order, alone>>
           ELSE order' = Append(order, p) /\ alone' = alone \cup {p} /\ UNCHANGED crossed

\* When that throws, a second PUT stores the latest id alone.
StoreSingle(p) ==
    /\ push[p].at = "single"
    /\ PushAt(p, "done")
    /\ \/ StoreAlone(p) /\ UNCHANGED left
       \/ UNCHANGED <<payable, idVars>> /\ Mishap
       \/ StoreAlone(p) /\ Mishap
    /\ UNCHANGED <<prompt, callback, remove, merge, settling>>

----------------------------------------------------------------------------
(* The phone, and POST /api/billing/mpesa/callback *)

EnterPin(p) ==
    /\ prompt[p].at = "out"
    /\ prompt' = [prompt EXCEPT ![p].at = "paid"]
    /\ \/ CallbackAt(p, "sent") /\ UNCHANGED left
       \/ Mishap /\ UNCHANGED callback
    /\ UNCHANGED <<payable, push, remove, merge, idVars, settling>>

Found(p, doc) == callback' = [callback EXCEPT ![p].at = "verify", ![p].doc = doc]

\* findInvoiceByCheckoutRequestId: the latest id first ...
MatchCurrent(p) ==
    /\ callback[p].at = "sent"
    /\ \/ /\ UNCHANGED left
          /\ IF Of(p).current = p
             THEN Found(p, Of(p))
             ELSE callback' = [callback EXCEPT ![p].at = "scan", ![p].known = Stored(p)]
       \/ Mishap /\ CallbackAt(p, "over")
    /\ UNCHANGED <<payable, push, prompt, remove, merge, idVars, settling>>

InHistory(p) == p \in ToSet(Of(p).ids)

\* ... then the history.
MatchHistory(p) ==
    /\ callback[p].at = "scan"
    /\ \/ /\ UNCHANGED left
          /\ IF InHistory(p) THEN Found(p, Of(p)) ELSE CallbackAt(p, "unmatched")
       \/ Mishap /\ CallbackAt(p, "over")
    /\ UNCHANGED <<payable, push, prompt, remove, merge, idVars, settling>>

\* Mutant: any amount will do.
AnyAmount(p) == prompt[p].amount > 0

Enough(p) == prompt[p].amount >= callback[p].doc.amount

\* The invoice as found decides; the receipt number is stored if it can be.
Verify(p) ==
    /\ callback[p].at = "verify"
    /\ CallbackAt(p, CASE callback[p].doc.status = "Paid" -> "over"
                       [] callback[p].doc.status # "Paid" /\ ~Enough(p) -> "underpaid"
                       [] OTHER -> "activate")
    /\ UNCHANGED <<payable, push, prompt, remove, merge, left, idVars, settling>>

\* activateServicesForInvoice, up to the PUT of the status.
Activate(p) ==
    /\ callback[p].at = "activate"
    /\ CallbackAt(p, "over")
    /\ \/ payable' = [payable EXCEPT ![PayableOf[p]].status = "Paid"] /\ UNCHANGED left
       \/ Mishap /\ UNCHANGED payable
    /\ UNCHANGED <<push, prompt, remove, merge, idVars, settling>>

----------------------------------------------------------------------------
(* What else happens to an invoice that is not paid *)

\* POST /api/addons/invoice/create: findOpenInvoice lists an open invoice ...
FindOpen(m) ==
    /\ merge[m].at = "start" /\ Spend("merges")
    /\ \E i \in Payables :
          /\ payable[i].status = "Unpaid"
          /\ merge' = [merge EXCEPT ![m].at = "read", ![m].on = i]
    /\ UNCHANGED <<payable, push, prompt, callback, remove, idVars, settling>>

\* ... createAddonInvoice reads the lines on it and adds its own ...
ReadLines(m) ==
    /\ merge[m].at = "read"
    /\ merge' = [merge EXCEPT ![m].at = "write", ![m].amount = payable[merge[m].on].amount + 1]
    /\ UNCHANGED <<payable, push, prompt, callback, remove, left, idVars, settling>>

\* ... and writes the sum, and the status it had when it was listed, over
\* whatever the invoice has become.
WriteLines(m) ==
    LET i == merge[m].on
    IN  /\ merge[m].at = "write"
        /\ merge' = [merge EXCEPT ![m].at = "done"]
        /\ payable' = [payable EXCEPT ![i].status = "Unpaid", ![i].amount = merge[m].amount]
        /\ settling' = IF \E p \in Pushes : PayableOf[p] = i /\ callback[p].at \in {"verify", "activate"}
                       THEN settling \cup {i} ELSE settling
        /\ UNCHANGED <<push, prompt, callback, remove, left, idVars>>

\* POST /api/invoices/:invoiceNo/delete reads the status ...
ReadStatus(i) ==
    /\ remove[i] = "start" /\ Spend("deletes")
    /\ remove' = [remove EXCEPT ![i] = IF payable[i].status = "Paid" THEN "done" ELSE "delete"]
    /\ UNCHANGED <<payable, push, prompt, callback, merge, idVars, settling>>

\* ... and overwrites whatever it has become.
MarkDeleted(i) ==
    /\ remove[i] = "delete"
    /\ remove' = [remove EXCEPT ![i] = "done"]
    /\ payable' = [payable EXCEPT ![i].status = "Deleted"]
    /\ UNCHANGED <<push, prompt, callback, merge, left, idVars, settling>>

----------------------------------------------------------------------------

PushStep(p) == SendPrompt(p) \/ StoreId(p) \/ StoreSingle(p)
CallbackStep(p) == MatchCurrent(p) \/ MatchHistory(p) \/ Verify(p) \/ Activate(p)

PromptsNext ==
    \/ \E p \in Pushes : ReadInvoice(p) \/ PushStep(p) \/ EnterPin(p) \/ CallbackStep(p)
    \/ \E m \in Merges : FindOpen(m) \/ ReadLines(m) \/ WriteLines(m)
    \/ \E i \in Payables : ReadStatus(i) \/ MarkDeleted(i)

\* Only safety is stated here; that an activation ends is AccountActivation's.
PromptsSpec == PromptsInit /\ [][PromptsNext]_promptVars

----------------------------------------------------------------------------
(* Properties *)

PromptsTypeOK ==
    /\ \A i \in Payables :
          /\ payable[i].status \in {"Unpaid", "Paid", "Deleted"} /\ payable[i].amount \in Nat
          /\ payable[i].current \in Pushes \cup {None}
          /\ payable[i].ids \in Seq(Pushes) /\ Len(payable[i].ids) <= HistoryMax /\ IsInjective(payable[i].ids)
    /\ \A p \in Pushes :
          /\ push[p].at \in {"start", "prompt", "store", "single", "done"}
          /\ prompt[p].at \in {"none", "out", "paid"}
          /\ callback[p].at \in {"none", "sent", "scan", "unmatched", "verify", "underpaid", "activate", "over"}
    /\ \A m \in Merges : merge[m].at \in {"start", "read", "write", "done"} /\ merge[m].amount \in Nat
    /\ alone \subseteq ToSet(order)

\* The places in order of the pushes of p's invoice stored since p was, p included.
Since(p) ==
    {n \in 1 .. Len(order) : PayableOf[order[n]] = PayableOf[p] /\ \E m \in 1 .. n : order[m] = p}

Superseded(p) == Cardinality(Since(p)) > IF p \in alone THEN 1 ELSE HistoryMax

\* The lookup of an id that either PUT stored comes up empty only when
\* HistoryMax later ids were stored; or a later one was, and this one is not in
\* the history because its first PUT failed; or pushes of the invoice
\* overlapped.  mpesaService.js asks for more, that "every id that could still
\* produce a callback has to remain findable"; of the ids this leaves aside
\* the money of a payment is taken and no invoice is marked.
StoredIdsMatch ==
    \A p \in Pushes :
        callback[p].at = "unmatched" /\ callback[p].known
          => Superseded(p) \/ PayableOf[p] \in crossed

\* An invoice is paid by a prompt that asked for all that is on it by then,
\* though add-ons are written over it from earlier reads, unless one lands
\* between a callback's check and its activation.
NoShortfall ==
    \A i \in Payables \ settling :
        payable[i].status = "Paid" =>
           \E p \in Pushes : PayableOf[p] = i /\ prompt[p].at = "paid" /\ prompt[p].amount >= payable[i].amount

----------------------------------------------------------------------------
(* Why StoredIdsMatch holds: a history is a piece of order, however stale.  *)

Finished(p) == push[p].at \in {"single", "done"}

\* The ids of an invoice, or of an earlier read of it, are of pushes of its own
\* in the order they were stored.
Chain(i, ids) ==
    /\ ids \in Seq(Pushes)
    /\ \A n \in 1 .. Len(ids) : PayableOf[ids[n]] = i /\ Stored(ids[n])
    /\ \A m, n \in 1 .. Len(ids) : m < n => Before(ids[m], ids[n])

LatestFits(i, p) == p # None => p \in Pushes /\ PayableOf[p] = i /\ Stored(p)

\* The lookup of the history finds p, or has one of the excuses not to ...
Kept(p) == p \in ToSet(Of(p).ids) \/ Superseded(p) \/ PayableOf[p] \in crossed

\* ... or p is the latest id, and nowhere else.
Findable(p) == Kept(p) \/ (p \in alone /\ Of(p).current = p)

Histories ==
    /\ order \in Seq(Pushes) /\ IsInjective(order) /\ alone \subseteq ToSet(order)
    /\ \A p \in Pushes : Stored(p) => Finished(p) /\ Findable(p)
    /\ \A i \in Payables : Chain(i, payable[i].ids) /\ LatestFits(i, payable[i].current)
    /\ \A p \in Pushes : push[p].at \in {"prompt", "store"} =>
         Chain(PayableOf[p], push[p].doc.ids) /\ LatestFits(PayableOf[p], push[p].doc.current)
    /\ \A p \in Pushes : callback[p].at \in {"scan", "unmatched"} /\ callback[p].known => Stored(p)
    /\ \A p \in Pushes : callback[p].at = "scan" /\ callback[p].known => Kept(p)
    /\ StoredIdsMatch
=============================================================================
