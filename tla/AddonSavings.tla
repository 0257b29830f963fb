---------------------------- MODULE AddonSavings ----------------------------
(* Bundle savings on one account with one order: the ledger of pairings in   *)
(* the order's config_json (bundles.js) and the invoices that carry the      *)
(* savings: add-on purchases (addonInvoiceService.js), the order's own       *)
(* invoice (prepare-payment), deletions of a service and payments.           *)
(*                                                                           *)
(* Every handler is a sequence of requests to Frappe; between two of them    *)
(* other handlers run.  The writers of bundles.js and markOrderPaid take     *)
(* their turn on the order's lock; mergeOrderConfig (shop setup, welcome     *)
(* mail, reconciler) rewrites the same config_json without it.               *)
EXTENDS Integers, FiniteSets, FiniteSetsExt, Functions

CONSTANTS
    Services,       \* the companions of one pairing each, and Primary
    Primary,        \* the service the order is for
    Companions,     \* the companions bought with the order
    Monthly, Setup, \* catalog prices
    Saving,         \* what the pairing of a service takes off; 0: no pairing
    Calls, Nobody,
    CallKind, Wants, \* what each call does, and to which services
    Scenarios,      \* [made, status, serial]: calls made, the order at the start, one at a time?
    MaxFailures     \* bound on failed requests

CallKinds == {"buy", "prepare", "paid", "delete", "merge"}

\* What is sold has a monthly price, and a purchase names something to buy.
ASSUME CatalogAssumption ==
    /\ IsFiniteSet(Services) /\ Primary \in Services /\ Companions \subseteq Services \ {Primary}
    /\ Monthly \in [Services -> Nat \ {0}] /\ Setup \in [Services -> Nat] /\ Saving \in [Services -> Nat]
    /\ Nobody \notin Calls
    /\ CallKind \in [Calls -> CallKinds] /\ Wants \in [Calls -> SUBSET Services]
    /\ \A c \in Calls : CallKind[c] = "buy" => Wants[c] # {}
    /\ \A s \in Scenarios : s.made \subseteq Calls /\ s.status \in {"Draft", "Paid"} /\ s.serial \in BOOLEAN
    /\ MaxFailures \in Nat

VARIABLES
    checkout,   \* the Checkout Order: status, linked invoice, ledger, other keys of config_json
    invoice,    \* invoice[i]: the Portal Invoice raised by call i
    owned,      \* the services on the Web Account
    lock,       \* the call inside the order's critical section
    pc, loc,    \* where each handler stands, and what it has read
    serial, failures,
    unsure,     \* invoices whose amount was stored though the answer was lost (history)
    trimmed     \* invoices a deletion repriced (history)

vars == <<checkout, invoice, owned, lock, pc, loc, serial, failures, unsure, trimmed>>

Pairings == {s \in Services : Saving[s] > 0}
Entry == [pairing : Pairings, invoice : Calls]
Config == [ledger : SUBSET Entry, marks : SUBSET Calls]

\* off: the pairings the last write of the amount took off (history)
Invoice == [status : {"none", "Unpaid", "Paid", "Deleted"}, rows : SUBSET Services, amount : Nat,
            off : SUBSET Pairings]
NoInvoice == [status |-> "none", rows |-> {}, amount |-> 0, off |-> {}]

Local == [inv : Calls \cup {Nobody}, rows : SUBSET Services, known : Nat, config : Config,
          fresh : SUBSET Pairings, todo : SUBSET Calls]
NoLocal == [inv |-> Nobody, rows |-> {}, known |-> 0, config |-> [ledger |-> {}, marks |-> {}],
            fresh |-> {}, todo |-> {}]

Stages == {"idle", "read", "raise", "windows", "owned", "claim", "claimed", "record", "recorded", "amount",
       "release", "released", "attach", "link", "pay", "paid", "list", "visit", "trim", "merge", "merged",
       "done"}

TypeOK ==
    /\ checkout \in [status : {"Draft", "Paid"}, invoice : Calls \cup {Nobody}, config : Config]
    /\ invoice \in [Calls -> Invoice]
    /\ owned \subseteq Services
    /\ lock \in Calls \cup {Nobody}
    /\ pc \in [Calls -> Stages]
    /\ loc \in [Calls -> Local]
    /\ serial \in BOOLEAN /\ failures \in 0 .. MaxFailures
    /\ unsure \subseteq Calls /\ trimmed \subseteq Calls

Init ==
    /\ \E s \in Scenarios :
          /\ pc = [c \in Calls |-> IF c \in s.made THEN "idle" ELSE "done"]
          /\ checkout = [status |-> s.status, invoice |-> Nobody, config |-> [ledger |-> {}, marks |-> {}]]
          /\ owned = IF s.status = "Paid" THEN {Primary} ELSE {}
          /\ serial = s.serial
    /\ invoice = [i \in Calls |-> NoInvoice]
    /\ lock = Nobody
    /\ loc = [c \in Calls |-> NoLocal]
    /\ failures = 0
    /\ unsure = {} /\ trimmed = {}

----------------------------------------------------------------------------
(* Prices *)

Recurring(rows) == SumFunctionOnSet(Monthly, rows)
Full(rows) == Recurring(rows) + SumFunctionOnSet(Setup, rows)
Savings(pairings) == SumFunctionOnSet(Saving, pairings)

Recorded(ledger, i) == {e.pairing : e \in {x \in ledger : x.invoice = i}}
Taken(ledger) == {e.pairing : e \in ledger}
Entries(pairings, i) == {[pairing |-> s, invoice |-> i] : s \in pairings}

\* The new savings of a purchase are skipped when they would bring the invoice below 1.
Affordable(known, prior, fresh) == known - Savings(prior) - Savings(fresh) >= 1
ReducedUncapped(known, off) == known - Savings(off) \* a fault, for TypeOK
Reduced(known, off) == Max({1, known - Savings(off)})

----------------------------------------------------------------------------
(* Handlers and requests *)

NoneRunning == \A c \in Calls : pc[c] \in {"idle", "done"}
MayStart(c) == pc[c] = "idle" /\ (serial => NoneRunning)

\* A request is answered, refused, or stored with its answer lost.
Answers == {"ok"} \cup (IF failures < MaxFailures THEN {"refused", "lost"} ELSE {})
Charge(answer) == failures' = IF answer = "ok" THEN failures ELSE failures + 1
Stored(answer) == answer # "refused"

MoveTo(c, at) == pc' = [pc EXCEPT ![c] = at]
Finish(c) == MoveTo(c, "done") /\ loc' = [loc EXCEPT ![c] = NoLocal]
Continue(c, at, l) == MoveTo(c, at) /\ loc' = [loc EXCEPT ![c] = l]

\* After a read that fails, the handler answers 500.
ReadOr(c, at, l) ==
    \/ Continue(c, at, l) /\ UNCHANGED failures
    \/ failures < MaxFailures /\ failures' = failures + 1 /\ Finish(c)

AfterClaims(c) == IF CallKind[c] = "prepare" THEN "link" ELSE "attach"

----------------------------------------------------------------------------
(* POST /api/addons/invoice/create *)

\* An open bundle order's own invoice is not merged into.
Mergeable(i) == ~(checkout.invoice = i /\ Companions # {})

\* findOpenInvoice takes one open invoice of the account, here any.
Buy(c) ==
    /\ CallKind[c] = "buy" /\ MayStart(c)
    /\ LET open == {i \in Calls : invoice[i].status = "Unpaid"}
       IN  \/ /\ open = {}
              /\ ReadOr(c, "raise", [loc[c] EXCEPT !.inv = c])
           \/ \E i \in open :
                ReadOr(c, IF Mergeable(i) THEN "read" ELSE "raise",
                       [loc[c] EXCEPT !.inv = IF Mergeable(i) THEN i ELSE c])
    /\ UNCHANGED <<checkout, invoice, owned, lock, serial, unsure, trimmed>>

ReadOpen(c) ==
    /\ pc[c] = "read"
    /\ ReadOr(c, "raise", [loc[c] EXCEPT !.rows = invoice[loc[c].inv].rows])
    /\ UNCHANGED <<checkout, invoice, owned, lock, serial, unsure, trimmed>>

Wanted(c) == IF CallKind[c] = "prepare" THEN {Primary} \cup Companions ELSE Wants[c]

\* The rows the invoice carries, at full price: a merge overwrites an earlier saving.
Raise(c) ==
    /\ pc[c] = "raise"
    /\ LET i == loc[c].inv
           rows == loc[c].rows \cup Wanted(c)
           l == [loc[c] EXCEPT !.rows = rows, !.known = Full(rows)]
       IN  \E answer \in Answers :
              /\ Charge(answer)
              /\ invoice' = IF Stored(answer)
                            THEN [invoice EXCEPT ![i] = [status |-> "Unpaid", rows |-> rows,
                                                         amount |-> Full(rows), off |-> {}]]
                            ELSE invoice
              /\ IF answer = "ok"
                 THEN Continue(c, IF CallKind[c] = "prepare" THEN "owned" ELSE "windows", l)
                 ELSE Finish(c)
    /\ trimmed' = IF invoice' = invoice THEN trimmed ELSE trimmed \ {loc[c].inv}
    /\ UNCHANGED <<checkout, owned, lock, serial, unsure>>

\* activeBundleWindows: a paid order's ledger; a draft has no window.
Windows(c) ==
    /\ pc[c] = "windows"
    /\ IF checkout.status = "Paid"
       THEN ReadOr(c, "owned", [loc[c] EXCEPT !.config = checkout.config])
       ELSE ReadOr(c, "attach", loc[c])
    /\ UNCHANGED <<checkout, invoice, owned, lock, serial, unsure, trimmed>>

\* applyAddOnSaving up to the claim, on the ledger just read.
Offer(c) ==
    /\ pc[c] = "owned" /\ CallKind[c] = "buy"
    /\ LET ledger == loc[c].config.ledger
           fresh == ((Wants[c] \cap Pairings) \ owned) \ Taken(ledger)
           prior == Recorded(ledger, loc[c].inv)
           l == [loc[c] EXCEPT !.fresh = fresh]
       IN  IF fresh # {} /\ Affordable(loc[c].known, prior, fresh)
           THEN ReadOr(c, "claim", l)
           ELSE ReadOr(c, IF prior = {} THEN "attach" ELSE "amount", [loc[c] EXCEPT !.fresh = {}])
    /\ UNCHANGED <<checkout, invoice, owned, lock, serial, unsure, trimmed>>

----------------------------------------------------------------------------
(* The ledger, under the order's lock *)

\* Read the order inside the critical section; a failed read leaves it.
Enter(c, at, l, failed) ==
    /\ lock = Nobody
    /\ \/ Continue(c, at, l) /\ lock' = c /\ UNCHANGED failures
       \/ failures < MaxFailures /\ failures' = failures + 1 /\ failed /\ UNCHANGED lock

LeaveIfStored(c, ledger, ok, failed) == \* a fault: an error skips the release
    \E answer \in Answers :
       /\ Charge(answer)
       /\ checkout' = IF Stored(answer)
                      THEN [checkout EXCEPT !.config = [loc[c].config EXCEPT !.ledger = ledger]]
                      ELSE checkout
       /\ lock' = IF answer = "ok" THEN Nobody ELSE lock
       /\ IF answer = "ok" THEN ok ELSE failed

\* Write the whole config_json back and leave.
Leave(c, ledger, ok, failed) ==
    \E answer \in Answers :
       /\ Charge(answer)
       /\ checkout' = IF Stored(answer)
                      THEN [checkout EXCEPT !.config = [loc[c].config EXCEPT !.ledger = ledger]]
                      ELSE checkout
       /\ lock' = Nobody
       /\ IF answer = "ok" THEN ok ELSE failed

StillFreeAsOffered(c, wanted, ledger) == wanted \* a fault: the list as offered, not re-read
\* claimPairings: the fresh read drops what another purchase claimed meanwhile.
StillFree(c, wanted, ledger) == wanted \ Taken(ledger)

PriorOfOrder(c) == Taken(loc[c].config.ledger) \* a fault: the savings of every invoice
PriorForgotten(c) == {} \* a fault: a merge drops the earlier saving
\* What was recorded on the invoice when the windows were read is taken off again.
Prior(c) == Recorded(loc[c].config.ledger, loc[c].inv)

\* rows, no longer needed, keeps the prior savings over the claim.
ClaimRead(c) ==
    /\ pc[c] = "claim" /\ lock = Nobody
    /\ LET prior == Prior(c)
           fresh == StillFree(c, loc[c].fresh, checkout.config.ledger)
       IN  IF fresh = {}
           THEN /\ ReadOr(c, IF prior = {} THEN "attach" ELSE "amount", [loc[c] EXCEPT !.fresh = {}])
                /\ UNCHANGED lock
           ELSE Enter(c, "claimed", [loc[c] EXCEPT !.fresh = fresh, !.rows = prior,
                                                   !.config = checkout.config], Finish(c))
    /\ UNCHANGED <<checkout, invoice, owned, serial, unsure, trimmed>>

ClaimWrite(c) ==
    /\ pc[c] = "claimed"
    /\ LET ledger == loc[c].config.ledger \cup Entries(loc[c].fresh, loc[c].inv)
           \* from here on, config keeps the prior savings only
           l == [loc[c] EXCEPT !.config.ledger = Entries(loc[c].rows, loc[c].inv)]
       IN  Leave(c, ledger, Continue(c, "amount", l), Finish(c))
    /\ UNCHANGED <<invoice, owned, serial, unsure, trimmed>>

\* prepare-payment: planCheckoutSaving, then recordCheckoutSaving replaces the
\* entries an earlier attempt left for the same pairings.
Plan(c) ==
    /\ pc[c] = "owned" /\ CallKind[c] = "prepare"
    /\ owned' = owned \cup loc[c].rows
    /\ LET savings == Companions \cap Pairings
       IN  IF savings # {} /\ Affordable(loc[c].known, {}, savings)
           THEN Continue(c, "record", [loc[c] EXCEPT !.fresh = savings]) /\ UNCHANGED failures
           ELSE Continue(c, "link", loc[c]) /\ UNCHANGED failures
    /\ UNCHANGED <<checkout, invoice, lock, serial, unsure, trimmed>>

RecordRead(c) ==
    /\ pc[c] = "record"
    /\ Enter(c, "recorded", [loc[c] EXCEPT !.config = checkout.config], Finish(c))
    /\ UNCHANGED <<checkout, invoice, owned, serial, unsure, trimmed>>

RecordWrite(c) ==
    /\ pc[c] = "recorded"
    /\ LET kept == {e \in loc[c].config.ledger : e.pairing \notin loc[c].fresh}
           l == [loc[c] EXCEPT !.config.ledger = {}]
       IN  Leave(c, kept \cup Entries(loc[c].fresh, loc[c].inv), Continue(c, "amount", l), Finish(c))
    /\ UNCHANGED <<invoice, owned, serial, unsure, trimmed>>

\* The PUT of the reduced amount; when it fails the claim is released.
Amount(c) ==
    /\ pc[c] = "amount"
    /\ LET i == loc[c].inv
           off == Prior(c) \cup loc[c].fresh
       IN  \E answer \in Answers :
              /\ Charge(answer)
              /\ invoice' = IF Stored(answer)
                            THEN [invoice EXCEPT ![i].amount = Reduced(loc[c].known, off), ![i].off = off]
                            ELSE invoice
              /\ unsure' = IF answer = "lost" THEN unsure \cup {i} ELSE unsure
              /\ IF answer = "ok" THEN MoveTo(c, AfterClaims(c)) /\ UNCHANGED loc
                 ELSE IF loc[c].fresh # {} THEN MoveTo(c, "release") /\ UNCHANGED loc
                 ELSE Finish(c)
    /\ UNCHANGED <<checkout, owned, lock, serial, trimmed>>

\* A release that fails is only logged.
ReleaseRead(c) ==
    /\ pc[c] = "release"
    /\ Enter(c, "released", [loc[c] EXCEPT !.config = checkout.config], Finish(c))
    /\ UNCHANGED <<checkout, invoice, owned, serial, unsure, trimmed>>

ReleaseWrite(c) ==
    /\ pc[c] = "released"
    /\ LET gone == Entries(loc[c].fresh, loc[c].inv)
       IN  Leave(c, loc[c].config.ledger \ gone, Finish(c), Finish(c))
    /\ UNCHANGED <<invoice, owned, serial, unsure, trimmed>>

----------------------------------------------------------------------------
(* The end of a purchase, the order's life, and the other writers *)

\* The new services are attached to the account; a failure is only logged.
Attach(c) ==
    /\ pc[c] = "attach"
    /\ Finish(c)
    /\ \E answer \in Answers :
          Charge(answer) /\ owned' = IF Stored(answer) THEN owned \cup Wants[c] ELSE owned
    /\ UNCHANGED <<checkout, invoice, lock, serial, unsure, trimmed>>

\* A call for an order that has its invoice returns it.
Prepare(c) ==
    /\ CallKind[c] = "prepare" /\ MayStart(c)
    /\ IF checkout.invoice # Nobody \/ checkout.status # "Draft"
       THEN Finish(c) /\ UNCHANGED failures
       ELSE ReadOr(c, "raise", [loc[c] EXCEPT !.inv = c])
    /\ UNCHANGED <<checkout, invoice, owned, lock, serial, unsure, trimmed>>

LinkToOrder(c) ==
    /\ pc[c] = "link"
    /\ Finish(c)
    /\ \E answer \in Answers :
          /\ Charge(answer)
          /\ checkout' = IF Stored(answer) THEN [checkout EXCEPT !.invoice = loc[c].inv] ELSE checkout
    /\ UNCHANGED <<invoice, owned, lock, serial, unsure, trimmed>>

\* The customer pays an open invoice.
PayInvoice(i) ==
    /\ invoice[i].status = "Unpaid" /\ (serial => NoneRunning)
    /\ invoice' = [invoice EXCEPT ![i].status = "Paid"]
    /\ UNCHANGED <<checkout, owned, lock, pc, loc, serial, failures, unsure, trimmed>>

\* markOrderPaid opens the window.
MarkPaid(c) ==
    /\ CallKind[c] = "paid" /\ MayStart(c)
    /\ checkout.invoice # Nobody
    /\ invoice[checkout.invoice].status = "Paid"
    /\ Enter(c, "paid", [loc[c] EXCEPT !.config = checkout.config], Finish(c))
    /\ UNCHANGED <<checkout, invoice, owned, serial, unsure, trimmed>>

WritePaid(c) ==
    /\ pc[c] = "paid"
    /\ \E answer \in Answers :
          /\ Charge(answer)
          /\ checkout' = IF Stored(answer) THEN [checkout EXCEPT !.status = "Paid", !.config = loc[c].config] ELSE checkout
    /\ lock' = Nobody
    /\ Finish(c)
    /\ UNCHANGED <<invoice, owned, serial, unsure, trimmed>>

\* Removing a service: from the account, then from each open invoice in turn.
Delete(c) ==
    /\ CallKind[c] = "delete" /\ MayStart(c)
    /\ \E answer \in Answers :
          /\ Charge(answer)
          /\ owned' = IF Stored(answer) THEN owned \ Wants[c] ELSE owned
          /\ MoveTo(c, IF Wants[c] \subseteq owned /\ answer = "ok" THEN "list" ELSE "done")
    /\ UNCHANGED <<checkout, invoice, lock, loc, serial, unsure, trimmed>>

ListOpen(c) ==
    /\ pc[c] = "list"
    /\ ReadOr(c, "visit", [loc[c] EXCEPT !.todo = {i \in Calls : invoice[i].status = "Unpaid"}])
    /\ UNCHANGED <<checkout, invoice, owned, lock, serial, unsure, trimmed>>

\* The saving a bundle order's invoice keeps: that of the pairings whose
\* companion, and the primary, are still on it.
KeptSaving(i, rows) ==
    IF checkout.invoice = i /\ Companions # {} /\ Primary \in rows
    THEN Recorded(checkout.config.ledger, i) \cap rows ELSE {}

Visit(c) ==
    /\ pc[c] = "visit"
    /\ \/ loc[c].todo = {} /\ Finish(c) /\ UNCHANGED failures
       \/ \E i \in loc[c].todo :
             LET rest == [loc[c] EXCEPT !.todo = @ \ {i}]
                 rows == invoice[i].rows \ Wants[c]
             IN  IF rows = invoice[i].rows THEN ReadOr(c, "visit", rest)
                 ELSE ReadOr(c, "trim", [rest EXCEPT !.inv = i, !.rows = rows, !.fresh = KeptSaving(i, rows)])
    /\ UNCHANGED <<checkout, invoice, owned, lock, serial, unsure, trimmed>>

\* The rows left are repriced at their monthly price less what is kept.
Trimmed(i, rows, kept) ==
    LET off == IF Recurring(rows) - Savings(kept) >= 1 THEN kept ELSE {}
    IN  IF rows = {} THEN [invoice[i] EXCEPT !.status = "Deleted"]
        ELSE [invoice[i] EXCEPT !.rows = rows, !.amount = Recurring(rows) - Savings(off), !.off = off]

Trim(c) ==
    /\ pc[c] = "trim"
    /\ LET i == loc[c].inv
       IN  \E answer \in Answers :
              /\ Charge(answer)
              /\ invoice' = IF Stored(answer) THEN [invoice EXCEPT ![i] = Trimmed(i, loc[c].rows, loc[c].fresh)]
                            ELSE invoice
              /\ trimmed' = IF Stored(answer) THEN trimmed \cup {i} ELSE trimmed
              /\ IF answer = "ok" THEN Continue(c, "visit", [NoLocal EXCEPT !.todo = loc[c].todo]) ELSE Finish(c)
    /\ UNCHANGED <<checkout, owned, lock, serial, unsure>>

\* mergeOrderConfig: its own key of config_json, read and written without the lock.
MergeRead(c) ==
    /\ CallKind[c] = "merge" /\ MayStart(c)
    /\ checkout.status = "Paid"
    /\ ReadOr(c, "merged", [loc[c] EXCEPT !.config = checkout.config])
    /\ UNCHANGED <<checkout, invoice, owned, lock, serial, unsure, trimmed>>

MergeWrite(c) ==
    /\ pc[c] = "merged"
    /\ \E answer \in Answers :
          /\ Charge(answer)
          /\ checkout' = IF Stored(answer)
                      THEN [checkout EXCEPT !.config = [loc[c].config EXCEPT !.marks = @ \cup {c}]]
                      ELSE checkout
    /\ Finish(c)
    /\ UNCHANGED <<invoice, owned, lock, serial, unsure, trimmed>>

----------------------------------------------------------------------------

BeginCall(c) == Buy(c) \/ Prepare(c) \/ MarkPaid(c) \/ Delete(c) \/ MergeRead(c)
Step(c) ==
    \/ ReadOpen(c) \/ Raise(c) \/ Windows(c) \/ Offer(c) \/ ClaimRead(c) \/ ClaimWrite(c)
    \/ Plan(c) \/ RecordRead(c) \/ RecordWrite(c) \/ Amount(c) \/ ReleaseRead(c) \/ ReleaseWrite(c)
    \/ Attach(c) \/ LinkToOrder(c) \/ WritePaid(c) \/ ListOpen(c) \/ Visit(c) \/ Trim(c) \/ MergeWrite(c)

Next == \E c \in Calls : BeginCall(c) \/ Step(c) \/ PayInvoice(c)

\* Requests are answered or time out; nobody has to make a call or pay.
RequestsAnswered == \A c \in Calls : WF_vars(Step(c))

Spec == Init /\ [][Next]_vars /\ RequestsAnswered

----------------------------------------------------------------------------
(* Properties *)

\* Two purchases that merge into one invoice while a request fails are left to
\* LockFreed: one may have taken off as prior what the other then releases.
Orderly == serial \/ failures = 0

\* Invoices the customer may owe or have paid.  Left out: an invoice of an
\* attempt to prepare the order that a later attempt replaced, and one whose
\* reduced amount was stored by a request that was reported failed.
Standing(i) ==
    /\ invoice[i].status \in {"Unpaid", "Paid"} /\ i \notin unsure
    /\ CallKind[i] = "prepare" => checkout.invoice = i

\* The saving of a pairing is taken off one invoice at most, however purchases,
\* deletions, failed requests and payments follow one another.
OneDiscountPerPairing ==
    Orderly => \A s \in Pairings : Cardinality({i \in Calls : Standing(i) /\ s \in invoice[i].off}) <= 1

\* A saving is recorded before it is given and kept as long: no invoice is
\* below its full price by a pairing the ledger does not record for it.
DiscountsRecorded ==
    Orderly => \A i \in Calls : Standing(i) => invoice[i].off \subseteq Recorded(checkout.config.ledger, i)

\* When requests do not fail and purchases come one at a time, each open
\* invoice that no deletion repriced is left at the price of its rows less
\* every saving recorded for it, and never at 0.
QuotedInFull ==
    serial /\ failures = 0 /\ NoneRunning =>
       \A i \in Calls \ trimmed :
          Standing(i) => invoice[i].amount = Reduced(Full(invoice[i].rows), Recorded(checkout.config.ledger, i))

\* A critical section is always left: a claim that fails lets the next call in.
LockFreed == []<>(lock = Nobody)
=============================================================================
