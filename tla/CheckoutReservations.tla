------------------------ MODULE CheckoutReservations ------------------------
(***************************************************************************)
(* The Checkout Orders of backend/services/checkout/orderStore.js, and the *)
(* routes and the sweep that read and write them: a Draft reserves RAM on  *)
(* the shared box until reservation_expires_at, and the checkout page      *)
(* renews it.                                                              *)
(*                                                                         *)
(* One backend process; Frappe has no transactions, so each GET, POST and  *)
(* PUT is an action of its own.  A request is one run of a handler:        *)
(*   create      POST /api/orders                                          *)
(*   companions  PUT  /api/orders/:id/companions                           *)
(*   view        GET  /api/orders/:id, the checkout page's heartbeat       *)
(*   prepare     POST /api/orders/:id/prepare-payment                      *)
(*   cancel      POST /api/orders/:id/cancel                               *)
(*   sweep       what one pass of reconcileDraftOrders does to one row     *)
(* An order is named after the request that creates it.  Its config stands *)
(* for its account, service and companions, which settle its RAM.  Payment *)
(* and provisioning (AccountActivation) are the actions Pay and QueueJob.  *)
(***************************************************************************)
EXTENDS Naturals, Sequences, FiniteSets, Functions

CONSTANTS
    Requests,      \* the handler runs
    Visits,        \* the sets of requests a behaviour may consist of
    KindOf,        \* the handler a request runs
    OrderOf,       \* the order it is about (a create: itself)
    ConfigOf,      \* the config a create or a companions request carries
    RamOf,         \* the RAM of a config
    Threshold,     \* thresholdMb(): the sellable RAM of the box
    Second,        \* the ticks of the clock in a second
    TTL,           \* RESERVATION_TTL_MS
    DedupWindow,   \* DEDUP_WINDOW_MS
    Grace,         \* CHECKOUT_ORDER_STALE_GRACE_MS
    LateRenewals,  \* may a reservation lapse while its renewal is under way?
    MaxTime,       \* bound: the clock
    MaxMishaps     \* bound: crashes and failed requests in a behaviour

Kinds == {"create", "companions", "view", "prepare", "cancel", "sweep"}

Orders == {r \in Requests : KindOf[r] = "create"}

\* The checkout page sends one prepare-payment per order; a reservation lasts 30
\* minutes, and a second click within 10 seconds is the same one.
ASSUME ConstantsAssumption ==
    /\ Visits \subseteq SUBSET Requests
    /\ KindOf \in [Requests -> Kinds]
    /\ OrderOf \in [Requests -> Orders] /\ \A o \in Orders : OrderOf[o] = o
    /\ DOMAIN ConfigOf = Requests
    /\ RamOf \in [{ConfigOf[r] : r \in Requests} -> Nat]
    /\ \A r, s \in Requests :
         KindOf[r] = "prepare" /\ KindOf[s] = "prepare" /\ OrderOf[r] = OrderOf[s] => r = s
    /\ {Threshold, Second, TTL, DedupWindow, Grace, MaxTime, MaxMishaps} \subseteq Nat
    /\ 0 < Second /\ Second <= DedupWindow /\ DedupWindow <= TTL
    /\ LateRenewals \in BOOLEAN

VARIABLES
    order,       \* the Checkout Order rows
    invoiceFor,  \* the Portal Invoice raised for each order, and what it lists
    jobs,        \* the orders whose Provisioning Job is queued
    req,         \* where each request is, and what it has read so far
    chain,       \* createChain: the requests waiting for their turn, its holder first
    now,         \* Date.now()
    born,        \* history: the nowMs of the request that created each order
    edited,      \* history: the orders whose companions were replaced
    mishaps      \* crashes and failed requests so far

ordersVars == <<order, invoiceFor, jobs, req, chain, now, born, edited, mishaps>>

Configs == {ConfigOf[r] : r \in Requests}

Row == [status : {"none", "Draft", "Paid", "Cancelled"}, config : Configs,
        expires : Nat, linked : BOOLEAN]

NoRow(o) == [status |-> "none", config |-> ConfigOf[o], expires |-> 0, linked |-> FALSE]

Pc == {"start", "fleet", "turn", "list", "write", "lookup", "renew", "invoice", "markPaid",
       "expire", "fetch", "cancel", "cancelInvoice", "deleteInvoice", "bill", "link", "done"}

\* A request with nothing in hand: nowMs, the fleet figure, the order as read.
At(r, pc) == [pc |-> pc, at |-> 0, fleet |-> 0, doc |-> NoRow(OrderOf[r])]

OrdersInit ==
    /\ order = [o \in Orders |-> NoRow(o)]
    /\ invoiceFor = [o \in Orders |-> [status |-> "none", config |-> ConfigOf[o]]]
    /\ jobs = {}
    /\ \E scenario \in Visits :
         req = [r \in Requests |-> At(r, IF r \in scenario THEN "start" ELSE "done")]
    /\ chain = <<>>
    /\ now = 0
    /\ born = [o \in Orders |-> 0]
    /\ edited = {}
    /\ mishaps = 0

-----------------------------------------------------------------------------
(* Requests to Frappe, and the mutex.                                      *)

Mishap == /\ mishaps < MaxMishaps
          /\ mishaps' = mishaps + 1

\* A write is acknowledged, or throws after or before Frappe stored it.
Outcomes == {"ok", "stored", "dropped"}

PutOrder(o, row, outcome) ==
    order' = IF outcome = "dropped" THEN order ELSE [order EXCEPT ![o] = row]

PutInvoice(o, inv, outcome) ==
    invoiceFor' = IF outcome = "dropped" THEN invoiceFor ELSE [invoiceFor EXCEPT ![o] = inv]

\* Mutant: no mutex.
WaitsTurn(r) == \E n \in 1 .. Len(chain) : chain[n] = r

HasTurn(r) == chain # <<>> /\ Head(chain) = r

\* serialize(): a request that goes to "turn" queues up; when it ends, normally
\* or not, the next one has its turn.
Serialize(r, pc) ==
    chain' = CASE pc = "turn" -> Append(chain, r)
               [] pc = "done" /\ HasTurn(r) -> Tail(chain)
               [] OTHER -> chain

Goto(r, pc) ==
    /\ req' = [req EXCEPT ![r] = IF pc = "done" THEN At(r, pc) ELSE [@ EXCEPT !.pc = pc]]
    /\ Serialize(r, pc)

\* The answer is sent; the sweep goes to the next row, and comes again.
Ended(r) == IF KindOf[r] = "sweep" THEN "start" ELSE "done"

End(r) ==
    /\ req' = [req EXCEPT ![r] = At(r, Ended(r))]
    /\ Serialize(r, Ended(r))

Throw(r) == End(r) /\ Mishap

\* After a write: on to pc once it is acknowledged.
Acknowledged(r, outcome, pc) ==
    IF outcome = "ok" THEN Goto(r, pc) /\ UNCHANGED mishaps ELSE Throw(r)

-----------------------------------------------------------------------------
(* What counts against the box.                                            *)

\* mysqlDatetime: a time is stored in whole seconds, what is over is cut off.
WholeSeconds(t) == t - (t % Second)

Live(row, t) == row.status = "Draft" /\ row.expires > t

\* reservedDraftRamMb, at time t and without the orders of S.
DraftRam(t, S) ==
    SumFunctionOnSet([o \in Orders |-> RamOf[order[o].config]], {o \in Orders \ S : Live(order[o], t)})

\* getReservedRamMb: the jobs, each as large as its invoice says.
JobRam == SumFunctionOnSet([o \in Orders |-> RamOf[invoiceFor[o].config]], jobs)

Fits(fleet, reserved, config) == fleet + reserved + RamOf[config] <= Threshold

\* Mutant: the tolerance is left out (a duplicate counts only in the same tick).
IsDuplicateAtOnce(o, r) ==
    /\ Live(order[o], req[r].at)
    /\ order[o].config = ConfigOf[r]
    /\ req[r].at = order[o].expires - TTL

\* findRecentDuplicateDraft: creation time is taken to be expires - TTL, which
\* is early by what was cut off.
IsDuplicate(o, r) ==
    /\ Live(order[o], req[r].at)
    /\ order[o].config = ConfigOf[r]
    /\ req[r].at + TTL < order[o].expires + DedupWindow

-----------------------------------------------------------------------------
(* create and companions.                                                  *)

\* The request comes in, and takes the time (companions: after the next read).
Begin(r) ==
    /\ req[r].pc = "start"
    /\ KindOf[r] # "create" => order[OrderOf[r]].status # "none"
    /\ req' = [req EXCEPT ![r] = [@ EXCEPT !.at = now,
                 !.pc = IF KindOf[r] \in {"create", "companions"} THEN "fleet" ELSE "lookup"]]
    /\ UNCHANGED <<order, invoiceFor, jobs, chain, now, born, edited, mishaps>>

\* The fleet figure is read before the turn is taken; unreadable, it is 0.
ReadFleet(r) ==
    /\ req[r].pc = "fleet"
    /\ \E fleet \in {JobRam, 0} :
         /\ req' = [req EXCEPT ![r] = [@ EXCEPT !.pc = "turn", !.fleet = fleet,
                      !.at = IF KindOf[r] = "companions" THEN now ELSE req[r].at]]
         /\ IF fleet = JobRam THEN UNCHANGED mishaps ELSE Mishap
    /\ Serialize(r, "turn")
    /\ UNCHANGED <<order, invoiceFor, jobs, now, born, edited>>

\* setCompanions reads its order first, and refuses one that is not an open Draft.
FetchToEdit(r) ==
    /\ req[r].pc = "turn" /\ KindOf[r] = "companions" /\ HasTurn(r)
    /\ LET row == order[OrderOf[r]]
       IN  \/ Goto(r, IF row.status = "Draft" /\ ~row.linked THEN "list" ELSE "done") /\ UNCHANGED mishaps
           \/ Throw(r)
    /\ UNCHANGED <<order, invoiceFor, jobs, now, born, edited>>

\* The Drafts are listed: a duplicate is the answer to a create, and there is a
\* 409 when the new reservation does not fit.
ListDrafts(r) ==
    /\ req[r].pc = (IF KindOf[r] = "create" THEN "turn" ELSE "list") /\ HasTurn(r)
    /\ LET duplicate == KindOf[r] = "create" /\ \E o \in Orders : IsDuplicate(o, r)
           fits == Fits(req[r].fleet, DraftRam(req[r].at, {OrderOf[r]}), ConfigOf[r])
       IN  \/ Goto(r, IF fits /\ ~duplicate THEN "write" ELSE "done") /\ UNCHANGED mishaps
           \/ Throw(r)
    /\ UNCHANGED <<order, invoiceFor, jobs, now, born, edited>>

WriteDraft(r) ==
    /\ req[r].pc = "write" /\ KindOf[r] = "create"
    /\ \E out \in Outcomes :
         /\ PutOrder(r, [NoRow(r) EXCEPT !.status = "Draft", !.expires = WholeSeconds(req[r].at + TTL)], out)
         /\ born' = IF out = "dropped" THEN born ELSE [born EXCEPT ![r] = req[r].at]
         /\ Acknowledged(r, out, "done")
    /\ UNCHANGED <<invoiceFor, jobs, now, edited>>

WriteCompanions(r) ==
    /\ req[r].pc = "write" /\ KindOf[r] = "companions"
    /\ LET o == OrderOf[r]
       IN  \E out \in Outcomes :
             /\ PutOrder(o, [order[o] EXCEPT !.config = ConfigOf[r]], out)
             /\ edited' = IF out = "dropped" THEN edited ELSE edited \cup {o}
             /\ Acknowledged(r, out, "done")
    /\ UNCHANGED <<invoiceFor, jobs, now, born>>

-----------------------------------------------------------------------------
(* getOrder, and what the routes and the sweep do with the order.          *)

Stale(doc, t) == t > doc.expires + Grace

\* With an order whose invoice is not paid (or that has none).
Unpaid(r, doc) ==
    CASE KindOf[r] = "view" -> Ended(r)
      [] KindOf[r] = "cancel" -> IF doc.status = "Paid" THEN "done" ELSE "fetch"
      [] KindOf[r] = "prepare" -> IF Live(doc, req[r].at) /\ ~doc.linked THEN "bill" ELSE "done"
      [] KindOf[r] = "sweep" -> IF doc.status = "Draft" /\ Stale(doc, req[r].at) THEN "expire" ELSE "start"

\* Mutant: the linked invoice is looked at only while the reservation stands.
ChecksInvoiceIfLive(r, doc) == doc.linked /\ Live(doc, req[r].at)

ChecksInvoice(r, doc) ==
    doc.linked /\ doc.status \in (IF KindOf[r] = "sweep" THEN {"Draft"} ELSE {"Draft", "Cancelled"})

\* Request r has read its order as doc.
GoOn(r, doc) ==
    LET pc == IF ChecksInvoice(r, doc) THEN "invoice" ELSE Unpaid(r, doc)
    IN  IF pc = Ended(r) THEN End(r)
        ELSE req' = [req EXCEPT ![r] = [@ EXCEPT !.pc = pc, !.doc = doc]] /\ UNCHANGED chain

Lookup(r) ==
    /\ req[r].pc = "lookup"
    /\ LET doc == order[OrderOf[r]]
       IN  \/ /\ IF KindOf[r] = "view" /\ Live(doc, req[r].at) THEN Goto(r, "renew") ELSE GoOn(r, doc)
              /\ UNCHANGED mishaps
           \/ Throw(r)
    /\ UNCHANGED <<order, invoiceFor, jobs, now, born, edited>>

\* The heartbeat: no turn is taken, and the order is not read again.
Renew(r) ==
    /\ req[r].pc = "renew"
    /\ LET o == OrderOf[r]
           row == [order[o] EXCEPT !.expires = WholeSeconds(req[r].at + TTL)]
       IN  \E out \in Outcomes :
             /\ PutOrder(o, row, out)
             /\ IF out = "ok" THEN GoOn(r, row) /\ UNCHANGED mishaps ELSE Throw(r)
    /\ UNCHANGED <<invoiceFor, jobs, now, born, edited>>

CheckInvoice(r) ==
    /\ req[r].pc = "invoice"
    /\ \/ /\ IF invoiceFor[OrderOf[r]].status = "Paid" THEN Goto(r, "markPaid")
             ELSE IF Unpaid(r, req[r].doc) = Ended(r) THEN End(r) ELSE Goto(r, Unpaid(r, req[r].doc))
          /\ UNCHANGED mishaps
       \/ Throw(r)
    /\ UNCHANGED <<order, invoiceFor, jobs, now, born, edited>>

\* Mutant: a status the doctype does not have.
PaidRowLower(row) == [row EXCEPT !.status = "paid"]

PaidRow(row) == [row EXCEPT !.status = "Paid"]

\* markOrderPaid, whatever the order is by now; the request ends here.  (With
\* BUNDLES_ENABLED it also stamps the add-on window on the config.)
MarkOrderPaid(r) ==
    /\ req[r].pc = "markPaid"
    /\ LET o == OrderOf[r]
       IN  \E out \in Outcomes :
             /\ PutOrder(o, PaidRow(order[o]), out)
             /\ IF out = "ok" THEN End(r) /\ UNCHANGED mishaps ELSE Throw(r)
    /\ UNCHANGED <<invoiceFor, jobs, now, born, edited>>

\* The sweep gives up a Draft that lapsed long ago.
Expire(r) ==
    /\ req[r].pc = "expire"
    /\ LET o == OrderOf[r]
       IN  \E out \in Outcomes :
             /\ PutOrder(o, [order[o] EXCEPT !.status = "Cancelled"], out)
             /\ IF out = "ok" THEN End(r) /\ UNCHANGED mishaps ELSE Throw(r)
    /\ UNCHANGED <<invoiceFor, jobs, now, born, edited>>

\* cancelOrder reads the order again, for its invoice only ...
FetchToCancel(r) ==
    /\ req[r].pc = "fetch"
    /\ \/ /\ req' = [req EXCEPT ![r] = [@ EXCEPT !.pc = "cancel", !.doc = order[OrderOf[r]]]]
          /\ UNCHANGED <<chain, mishaps>>
       \/ Throw(r)
    /\ UNCHANGED <<order, invoiceFor, jobs, now, born, edited>>

CancelOrder(r) ==
    /\ req[r].pc = "cancel"
    /\ LET o == OrderOf[r]
       IN  \E out \in Outcomes :
             /\ PutOrder(o, [order[o] EXCEPT !.status = "Cancelled"], out)
             /\ Acknowledged(r, out, IF req[r].doc.linked THEN "cancelInvoice" ELSE "done")
    /\ UNCHANGED <<invoiceFor, jobs, now, born, edited>>

\* ... and deletes that invoice if it is unpaid when read (one that bills other
\* services as well loses the order's line, and keeps its status).
ReadInvoiceToCancel(r) ==
    /\ req[r].pc = "cancelInvoice"
    /\ \/ /\ Goto(r, IF invoiceFor[OrderOf[r]].status = "Unpaid" THEN "deleteInvoice" ELSE "done")
          /\ UNCHANGED mishaps
       \/ Throw(r)
    /\ UNCHANGED <<order, invoiceFor, jobs, now, born, edited>>

DeleteInvoice(r) ==
    /\ req[r].pc = "deleteInvoice"
    /\ LET o == OrderOf[r]
       IN  \E out \in Outcomes, status \in {"Deleted", invoiceFor[o].status} :
             /\ PutInvoice(o, [invoiceFor[o] EXCEPT !.status = status], out)
             /\ Acknowledged(r, out, "done")
    /\ UNCHANGED <<order, jobs, now, born, edited>>

\* prepare-payment bills the order as it read it, and links the invoice last.
Bill(r) ==
    /\ req[r].pc = "bill"
    /\ \E out \in Outcomes :
         /\ PutInvoice(OrderOf[r], [status |-> "Unpaid", config |-> req[r].doc.config], out)
         /\ Acknowledged(r, out, "link")
    /\ UNCHANGED <<order, jobs, now, born, edited>>

LinkInvoice(r) ==
    /\ req[r].pc = "link"
    /\ LET o == OrderOf[r]
       IN  \E out \in Outcomes :
             /\ PutOrder(o, [order[o] EXCEPT !.linked = TRUE], out)
             /\ Acknowledged(r, out, "done")
    /\ UNCHANGED <<invoiceFor, jobs, now, born, edited>>

-----------------------------------------------------------------------------
(* The environment.                                                        *)

\* A payment rail marks the invoice, deleted or not, ...
Pay(o) ==
    /\ invoiceFor[o].status \in {"Unpaid", "Deleted"}
    /\ invoiceFor' = [invoiceFor EXCEPT ![o].status = "Paid"]
    /\ UNCHANGED <<order, jobs, req, chain, now, born, edited, mishaps>>

\* ... and its activation queues the job.
QueueJob(o) ==
    /\ invoiceFor[o].status = "Paid" /\ o \notin jobs
    /\ jobs' = jobs \cup {o}
    /\ UNCHANGED <<order, invoiceFor, req, chain, now, born, edited, mishaps>>

Renewing(r) == KindOf[r] = "view" /\ req[r].pc \in {"lookup", "renew"}

Pass ==
    /\ now < MaxTime
    /\ LateRenewals \/ \A r \in Requests : ~Renewing(r)
    /\ now' = now + 1
    /\ UNCHANGED <<order, invoiceFor, jobs, req, chain, born, edited, mishaps>>

Begun(r) == req[r].pc \notin {"start", "done"}

Crash ==
    /\ Mishap
    /\ req' = [r \in Requests |-> IF Begun(r) THEN At(r, Ended(r)) ELSE req[r]]
    /\ chain' = <<>>
    /\ UNCHANGED <<order, invoiceFor, jobs, now, born, edited>>

Proceed(r) ==
    \/ ReadFleet(r) \/ FetchToEdit(r) \/ ListDrafts(r) \/ WriteDraft(r) \/ WriteCompanions(r)
    \/ Lookup(r) \/ Renew(r) \/ CheckInvoice(r) \/ MarkOrderPaid(r) \/ Expire(r)
    \/ FetchToCancel(r) \/ CancelOrder(r) \/ ReadInvoiceToCancel(r) \/ DeleteInvoice(r)
    \/ Bill(r) \/ LinkInvoice(r)

\* No request is under way: none may come for ever.
Quiet == (\A r \in Requests : ~Begun(r)) /\ UNCHANGED ordersVars

OrdersNext ==
    \/ \E r \in Requests : Begin(r) \/ Proceed(r)
    \/ \E o \in Orders : Pay(o) \/ QueueJob(o)
    \/ Pass
    \/ Crash
    \/ Quiet

\* The sweep comes again and its passes go on; the other handlers may stop
\* anywhere, customers may stay away, and the clock may stand still.
Fairness ==
    /\ WF_ordersVars(\E r \in Requests : KindOf[r] = "sweep" /\ Proceed(r))
    /\ WF_ordersVars(\E r \in Requests : KindOf[r] = "sweep" /\ Begin(r))

OrdersSpec == OrdersInit /\ [][OrdersNext]_ordersVars /\ Fairness

-----------------------------------------------------------------------------
(* Properties.                                                             *)

OrdersTypeOK ==
    /\ order \in [Orders -> Row]
    /\ invoiceFor \in [Orders -> [status : {"none", "Unpaid", "Paid", "Deleted"}, config : Configs]]
    /\ jobs \subseteq Orders
    /\ req \in [Requests -> [pc : Pc, at : Nat, fleet : Nat, doc : Row]]
    /\ chain \in Seq(Requests)
    /\ {now, mishaps} \subseteq Nat
    /\ born \in [Orders -> Nat]
    /\ edited \subseteq Orders

\* "two concurrent createOrder calls in this process can't both read a stale
\* reserved figure": the live Drafts fit the box, however orders are created,
\* edited, renewed (in time), paid, cancelled and swept at once.
DraftsFit == DraftRam(now, {}) <= Threshold

\* Two requests of one click: the later one is in the window for as much as the
\* cut-off leaves of it, the window less all but a tick of a second.
OneClick(o, p) == born[o] <= born[p] /\ born[p] + Second <= born[o] + DedupWindow

\* "Two rapid clicks on the same product shouldn't reserve RAM twice": of two
\* requests for one config, nine seconds apart or less, one gets the other's
\* Draft, even when the first one's answer was lost or they are served out of
\* order.  (In the tenth second of DEDUP_WINDOW_MS it depends on what was cut
\* off the stored expiry, which does not hold creation time "exactly".)
OneDraftPerClick ==
    \A o, p \in Orders :
        Live(order[o], now) /\ Live(order[p], now) /\ order[o].config = order[p].config
          /\ o \notin edited /\ p \notin edited /\ OneClick(o, p)
        => o = p

\* The sweep is there for an invoice paid through a channel that never visits
\* the checkout page again: where it runs, its order does not stay a Draft.
Swept(o) == \E r \in Requests : KindOf[r] = "sweep" /\ OrderOf[r] = o /\ req[r].pc # "done"
PaidDraftsSettle ==
    \A o \in Orders :
        (order[o].status = "Draft" /\ order[o].linked /\ invoiceFor[o].status = "Paid" /\ Swept(o))
          ~> order[o].status # "Draft"

\* "two simultaneous buyers can't both be sold capacity that only exists once":
\* the jobs, and the live Drafts that have none, together fit the box.
NotOversold == JobRam + DraftRam(now, jobs) <= Threshold

\* "so a paid order is never silently flipped to Cancelled".
PaidOrderKept ==
    [][\A o \in Orders : order[o].status = "Paid" => order'[o].status # "Cancelled"]_ordersVars
-----------------------------------------------------------------------------
(* Why DraftsFit and OneDraftPerClick hold: an inductive strengthening.    *)

\* The createChain is a mutex: who lists or writes has its turn.  Writers of
\* Drafts do nothing else, all but a create are about an order that is there,
\* and only the heartbeat renews.
PlacesFit ==
    \A r \in Requests :
       /\ req[r].pc \in {"list", "write"} => HasTurn(r)
       /\ KindOf[r] \in {"create", "companions"}
             => req[r].pc \in {"start", "fleet", "turn", "list", "write", "done"}
       /\ KindOf[r] # "create" /\ Begun(r) => order[OrderOf[r]].status # "none"
       /\ req[r].pc = "renew" => KindOf[r] = "view"

\* A request took its time in the past, a heartbeat after its order was created,
\* and while the reservation stands unless renewals may be late.
TimesFit ==
    \A r \in Requests :
       /\ req[r].at <= now
       /\ Renewing(r) => req[r].at >= born[OrderOf[r]]
       /\ ~LateRenewals /\ Renewing(r) => req[r].at = now
       /\ ~LateRenewals /\ req[r].pc = "renew" => order[OrderOf[r]].expires > req[r].at

\* An order is written once, its reservation lasts for its time from creation
\* or a later moment, less what the stored value cuts off, and it is what it was
\* till its companions are replaced.
OrdersFit ==
    \A o \in Orders :
       /\ req[o].pc # "done" => order[o].status = "none"
       /\ order[o].status # "none" => born[o] <= now /\ order[o].expires + Second > born[o] + TTL
       /\ order[o].expires <= now + TTL
       /\ o \notin edited => order[o].config = ConfigOf[o]

\* The list is still right when the request that read it writes: the new
\* reservation repeats none of the Drafts, and it fits beside them.
StillNew ==
    \A r, o \in Orders :
       req[r].pc = "write" /\ order[o].status = "Draft" /\ o \notin edited /\ ConfigOf[o] = ConfigOf[r]
         => req[r].at + Second > born[o] + DedupWindow

StillFits ==
    \A r \in Requests :
       req[r].pc = "write" => Fits(req[r].fleet, DraftRam(req[r].at, {OrderOf[r]}), ConfigOf[r])

\* Two Drafts of one click there never are, live or lapsed.
NoTwins ==
    \A o, p \in Orders :
       order[o].status = "Draft" /\ order[p].status = "Draft" /\ ConfigOf[o] = ConfigOf[p]
         /\ o \notin edited /\ p \notin edited /\ OneClick(o, p)
       => o = p

Created == {o \in Orders : order[o].status # "none"}

DraftsInv ==
    /\ OrdersTypeOK /\ IsFiniteSet(jobs) /\ IsFiniteSet(Created)
    /\ PlacesFit /\ TimesFit /\ OrdersFit
    /\ StillNew /\ NoTwins
    /\ ~LateRenewals => StillFits /\ DraftsFit
=============================================================================
