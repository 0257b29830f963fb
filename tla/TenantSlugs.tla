----------------------------- MODULE TenantSlugs -----------------------------
(* Who holds a customer-chosen shop address, from the order that reserves   *)
(* it to the Provisioning Job built under it (tenantSlugStore.js, and the   *)
(* callers in ordersRoutes.js, provisioningService.js and                   *)
(* paidOrderReconciler.js).                                                 *)
(*                                                                          *)
(* One address, several accounts.  An operation on the address is a GET and *)
(* a write, made in its turn on a promise chain.  Each turn is timed: an    *)
(* operation that overruns is abandoned by its caller and by the chain, but *)
(* goes on, so its write may land while later operations are under way.     *)
EXTENDS Integers, Sequences

CONSTANTS
    Accounts,
    Nobody,          \* the account of an address that has no row
    Calls,           \* runs of handlers, one account each
    KindOf,          \* Calls -> Kinds
    AccountOf,       \* Calls -> Accounts
    InvoiceOf,       \* the prepare call whose invoice a settle is about
    TTL,             \* SLUG_RESERVATION_TTL_MS, in ticks
    PaymentGrace,    \* SLUG_PAYMENT_GRACE_MS, in ticks
    MaxSweeps,       \* the reconciler's MAX_ATTEMPTS
    Scenarios,       \* the sets of calls that may be made in one behaviour
    Overruns,        \* the calls whose operations may overrun their time
    MaxTime,         \* bound on the clock
    MaxMishaps       \* bound on failed requests and crashes

Kinds == {"create", "view", "prepare", "settle", "sweep"}
Prepares == {c \in Calls : KindOf[c] = "prepare"}
Settles == {c \in Calls : KindOf[c] = "settle"}

ASSUME ConstantsAssumption ==
    /\ Nobody \notin Accounts \cup Calls
    /\ KindOf \in [Calls -> Kinds]
    /\ AccountOf \in [Calls -> Accounts]
    /\ InvoiceOf \in [Settles -> Prepares]
    /\ \A c \in Settles : AccountOf[InvoiceOf[c]] = AccountOf[c]
    /\ TTL \in Nat /\ PaymentGrace \in Nat /\ MaxSweeps \in Nat
    /\ Scenarios \subseteq SUBSET Calls
    /\ Overruns \subseteq Calls
    /\ MaxTime \in Nat /\ MaxMishaps \in Nat

VARIABLES
    doc,        \* the Tenant Slug row
    chain,      \* the calls whose operation waits for its turn; the head has it
    op,         \* op[c]: the operation of c, its snapshot, and whether it overran
    pc,         \* pc[c]: where the handler stands
    since,      \* since[c]: nowMs of the handler, taken when it began
    order,      \* order[a]: the Checkout Order of an account: status, invoice, reconcile marker
    invoice,    \* invoice[p]: the Portal Invoice raised by a prepare call
    job,        \* job[p]: the Provisioning Job of that invoice
    about,      \* about[c]: the invoice a settle or a sweep activates
    plan,       \* plan[c]: the job it is about to create
    tries,      \* tries[c]: the attempts a sweep has read from the order
    now, mishaps,
    overran     \* has an operation overrun (history)

vars == <<doc, chain, op, pc, since, order, invoice, job, about, plan, tries, now, mishaps, overran>>

----------------------------------------------------------------------------

Row == [status : {"absent", "reserved", "active"}, account : Accounts \cup {Nobody},
        invoices : SUBSET Prepares, expires : Nat]
NoRow == [status |-> "absent", account |-> Nobody, invoices |-> {}, expires |-> 0]

Op == [at : {"none", "read", "write"}, late : BOOLEAN, kind : {"reserve", "touch", "link", "activate"},
       nowMs : Nat, read : Row]
NoOp == [at |-> "none", late |-> FALSE, kind |-> "touch", nowMs |-> 0, read |-> NoRow]

\* An order is old when nothing was written to it for DEFAULT_LOOKBACK_MS.
Order == [status : {"none", "Draft", "Paid", "Cancelled"}, invoice : Prepares \cup {Nobody}, old : BOOLEAN,
          attempts : Nat, marker : {"none", "activating", "done", "failed", "gave_up"}]
NoOrder == [status |-> "none", invoice |-> Nobody, old |-> FALSE, attempts |-> 0, marker |-> "none"]

\* A job is built under the chosen address, under a name derived from the
\* account, or held for staff.
Jobs == {"none", "chosen", "derived", "held"}

Pc == {"idle", "reserve", "touch", "raise", "link", "order", "mark", "activate", "adopt",
       "provenance", "job", "check", "flip", "done"}

TypeOK ==
    /\ doc \in Row
    /\ chain \in Seq(Calls)
    /\ op \in [Calls -> Op]
    /\ pc \in [Calls -> Pc]
    /\ since \in [Calls -> Nat]
    /\ order \in [Accounts -> Order]
    /\ invoice \in [Prepares -> {"none", "Unpaid", "Paid"}]
    /\ job \in [Prepares -> Jobs]
    /\ about \in [Calls -> Prepares \cup {Nobody}]
    /\ plan \in [Calls -> Jobs]
    /\ tries \in [Calls -> Nat]
    /\ now \in Nat /\ mishaps \in Nat
    /\ overran \in BOOLEAN

Init ==
    /\ doc = NoRow
    /\ chain = <<>>
    /\ op = [c \in Calls |-> NoOp]
    /\ \E made \in Scenarios : pc = [c \in Calls |-> IF c \in made THEN "idle" ELSE "done"]
    /\ since = [c \in Calls |-> 0]
    /\ order = [a \in Accounts |-> NoOrder]
    /\ invoice = [p \in Prepares |-> "none"]
    /\ job = [p \in Prepares |-> "none"]
    /\ about = [c \in Calls |-> IF KindOf[c] = "settle" THEN InvoiceOf[c] ELSE Nobody]
    /\ plan = [c \in Calls |-> "none"]
    /\ tries = [c \in Calls |-> 0]
    /\ now = 0 /\ mishaps = 0
    /\ overran = FALSE

----------------------------------------------------------------------------
(* The store *)

Fail == mishaps < MaxMishaps /\ mishaps' = mishaps + 1

\* The values a row may have after a PUT: one that fails may have been stored.
Outcomes(old, new) == {<<new, TRUE>>} \cup (IF mishaps < MaxMishaps THEN {<<old, FALSE>>, <<new, FALSE>>} ELSE {})

Charge(ok) == IF ok THEN UNCHANGED mishaps ELSE Fail

HasTurn(c) == chain # <<>> /\ Head(chain) = c

\* serialize: the operation takes its place on the chain.
Enqueue(c, kind, nowMs) ==
    /\ op' = [op EXCEPT ![c] = [at |-> "read", late |-> FALSE, kind |-> kind, nowMs |-> nowMs, read |-> NoRow]]
    /\ chain' = Append(chain, c)

\* Mutants: only what was paid is taken; only what is reserved is taken.
IsLiveIfPaid(d, t) == d.status = "active"
IsLiveIfReserved(d, t) == d.status = "reserved" /\ d.expires > t

IsLive(d, t) == d.status = "active" \/ (d.status = "reserved" /\ d.expires > t)

OwnReservation(d, a) == d.status = "reserved" /\ d.account = a

HeldByOther(d, a, t) == IsLive(d, t) /\ ~OwnReservation(d, a)

Later(t, u) == IF t > u THEN t ELSE u

\* The row an activation looks for has its invoice in the history.
Found(c, d) == d.status # "absent" /\ about[c] \in d.invoices

\* What the operation of c decides on the row it read: "write", or its result.
Decision(c, d) ==
    LET a == AccountOf[c] IN
    CASE op[c].kind = "reserve" -> IF HeldByOther(d, a, op[c].nowMs) THEN "taken" ELSE "write"
      [] op[c].kind = "touch" ->
            IF OwnReservation(d, a) /\ d.invoices = {} /\ d.expires > op[c].nowMs THEN "write" ELSE "ok"
      [] op[c].kind = "link" -> IF d.account # a THEN "taken" ELSE "write"
      [] op[c].kind = "activate" ->
            IF ~Found(c, d) THEN "nothing" ELSE IF d.status = "active" THEN "ok" ELSE "write"

\* Mutant: a buyer's second reservation starts the history afresh.
ReservedAfresh(c) ==
    [status |-> "reserved", account |-> AccountOf[c], invoices |-> {}, expires |-> op[c].nowMs + TTL]

\* The row after the write of c.  A PUT patches the fields it names, with values
\* computed from the snapshot; a POST is refused when the row exists by then.
Reserved(c) ==
    LET seen == op[c].read
        until == op[c].nowMs + TTL
        fresh == [status |-> "reserved", account |-> AccountOf[c], invoices |-> {}, expires |-> until]
    IN  CASE OwnReservation(seen, AccountOf[c]) -> [doc EXCEPT !.expires = Later(until, seen.expires)]
          [] seen.status = "absent" -> IF doc.status = "absent" THEN fresh ELSE doc
          [] OTHER -> fresh

Linked(c) ==
    [doc EXCEPT !.invoices = op[c].read.invoices \cup {c},
                !.expires = Later(op[c].nowMs + PaymentGrace, op[c].read.expires)]

Written(c) ==
    CASE op[c].kind = "reserve" -> Reserved(c)
      [] op[c].kind = "touch" -> [doc EXCEPT !.expires = op[c].nowMs + TTL]
      [] op[c].kind = "link" -> Linked(c)
      [] op[c].kind = "activate" -> [doc EXCEPT !.status = "active"]

\* What the write answers: another process may have inserted the row.
Answer(c) ==
    IF op[c].kind = "reserve" /\ op[c].read.status = "absent" /\ doc.status # "absent"
    THEN "taken" ELSE "ok"

----------------------------------------------------------------------------
(* The handlers, as they go on when their operation has answered *)

\* A handler takes nowMs once; it is of no use when it has ended.
Goto(c, where) ==
    /\ pc' = [pc EXCEPT ![c] = where]
    /\ since' = IF where \in {"done", "idle"} THEN [since EXCEPT ![c] = 0] ELSE since

\* A create that lost the address cancels its order; a cancel that fails is
\* swallowed.
AfterCreate(c, result) ==
    /\ pc[c] = "reserve" /\ KindOf[c] = "create"
    /\ Goto(c, "done")
    /\ \E s \in IF result = "ok" THEN {"Draft"} ELSE {"Draft", "Cancelled"} :
          order' = [order EXCEPT ![AccountOf[c]].status = s]
    /\ UNCHANGED plan

\* The heartbeat is best effort; prepare-payment gives up unless it holds the
\* address.
AfterHold(c, result) ==
    /\ \/ pc[c] = "touch" /\ Goto(c, "done")
       \/ pc[c] = "reserve" /\ KindOf[c] = "prepare" /\ Goto(c, IF result = "ok" THEN "raise" ELSE "done")
       \/ pc[c] = "link" /\ Goto(c, IF result = "ok" THEN "order" ELSE "done")
    /\ UNCHANGED <<order, plan>>

\* A job is built under the address that was found.  No address, or no answer,
\* are looked into.
AfterActivate(c, result) ==
    /\ pc[c] = "activate"
    /\ Goto(c, CASE result = "ok" -> "job" [] result = "nothing" -> "adopt" [] OTHER -> "provenance")
    /\ plan' = [plan EXCEPT ![c] = IF result = "ok" THEN "chosen" ELSE "none"]
    /\ UNCHANGED order

Resume(c, result) == AfterCreate(c, result) \/ AfterHold(c, result) \/ AfterActivate(c, result)

\* The operation of c is over.  In its turn, it gives way and its caller goes on;
\* if it had overrun, nobody listens any more.
Finish(c, result) ==
    /\ op' = [op EXCEPT ![c] = NoOp]
    /\ IF op[c].late
       THEN UNCHANGED <<chain, pc, since, order, plan>>
       ELSE chain' = Tail(chain) /\ Resume(c, result)

MayGo(c) == op[c].late \/ HasTurn(c)

\* getSlugDoc, or the list of activateSlugForInvoice.
Read(c) ==
    /\ op[c].at = "read" /\ MayGo(c)
    /\ \/ /\ Decision(c, doc) = "write"
          /\ op' = [op EXCEPT ![c] = [@ EXCEPT !.at = "write", !.read = doc]]
          /\ UNCHANGED <<chain, pc, since, order, plan, mishaps>>
       \/ Decision(c, doc) # "write" /\ Finish(c, Decision(c, doc)) /\ UNCHANGED mishaps
       \/ Fail /\ Finish(c, "failed")
    /\ UNCHANGED <<doc, invoice, job, about, tries, now, overran>>

\* The PUT or POST of the operation.
Write(c) ==
    /\ op[c].at = "write" /\ MayGo(c)
    /\ \E o \in Outcomes(doc, Written(c)) :
          /\ doc' = o[1]
          /\ Charge(o[2])
          /\ Finish(c, IF o[2] THEN Answer(c) ELSE "failed")
    /\ UNCHANGED <<invoice, job, about, tries, now, overran>>

\* withTimeout: the turn is over, the operation goes on.
TimeOut(c) ==
    /\ c \in Overruns
    /\ HasTurn(c) /\ op[c].at # "none"
    /\ op' = [op EXCEPT ![c].late = TRUE]
    /\ chain' = Tail(chain)
    /\ Resume(c, "timeout")
    /\ overran' = TRUE
    /\ UNCHANGED <<doc, invoice, job, about, tries, now, mishaps>>

----------------------------------------------------------------------------
(* Orders *)

Start(c, where, kind) ==
    /\ pc[c] = "idle"
    /\ pc' = [pc EXCEPT ![c] = where]
    /\ since' = [since EXCEPT ![c] = now]
    /\ Enqueue(c, kind, now)

\* POST /api/orders: the order is minted, then the address is reserved.
Create(c) ==
    /\ KindOf[c] = "create" /\ order[AccountOf[c]].status # "Draft"
    /\ Start(c, "reserve", "reserve")
    /\ order' = [order EXCEPT ![AccountOf[c]] = [NoOrder EXCEPT !.status = "Draft"]]
    /\ UNCHANGED <<doc, invoice, job, about, plan, tries, now, mishaps, overran>>

\* GET /api/orders/:id, the heartbeat of the checkout page.
View(c) ==
    /\ KindOf[c] = "view" /\ order[AccountOf[c]].status = "Draft"
    /\ Start(c, "touch", "touch")
    /\ UNCHANGED <<doc, order, invoice, job, about, plan, tries, now, mishaps, overran>>

\* prepare-payment, of a Draft that has no invoice: it holds on to the address
\* before anything is raised.
Prepare(c) ==
    /\ KindOf[c] = "prepare"
    /\ order[AccountOf[c]].status = "Draft" /\ order[AccountOf[c]].invoice = Nobody
    /\ Start(c, "reserve", "reserve")
    /\ UNCHANGED <<doc, order, invoice, job, about, plan, tries, now, mishaps, overran>>

\* The invoice is raised, and its link to the address asked for.
Raise(c) ==
    /\ pc[c] = "raise"
    /\ \E o \in Outcomes("none", "Unpaid") :
          /\ invoice' = [invoice EXCEPT ![c] = o[1]]
          /\ Charge(o[2])
          /\ IF o[2]
             THEN Goto(c, "link") /\ Enqueue(c, "link", since[c])
             ELSE Goto(c, "done") /\ UNCHANGED <<op, chain>>
    /\ UNCHANGED <<doc, order, job, about, plan, tries, now, overran>>

\* linkInvoice, after the address has been linked.
LinkOrder(c) ==
    /\ pc[c] = "order"
    /\ LET a == AccountOf[c] IN
       \E o \in Outcomes(order[a], [order[a] EXCEPT !.invoice = c, !.old = FALSE]) :
          /\ order' = [order EXCEPT ![a] = o[1]]
          /\ Charge(o[2])
    /\ Goto(c, "done")
    /\ UNCHANGED <<doc, chain, op, invoice, job, about, plan, tries, now, overran>>

ChangesOrder(a, changed) ==
    /\ order' = [order EXCEPT ![a] = changed]
    /\ UNCHANGED <<doc, chain, op, pc, since, invoice, job, about, plan, tries, now, mishaps, overran>>

\* The buyer, or reconcileDraftOrders when it is stale: what was read as a Draft
\* is cancelled, though it may be paid by now.
CancelOrder(a) ==
    /\ order[a].status \in {"Draft", "Paid"}
    /\ ChangesOrder(a, [order[a] EXCEPT !.status = "Cancelled", !.old = FALSE])

\* getOrder and reconcileDraftOrders: what was read as a Draft with a paid
\* invoice is paid, though it may be cancelled by now.
FlipPaid(a) ==
    /\ order[a].status \in {"Draft", "Cancelled"}
    /\ order[a].invoice # Nobody /\ invoice[order[a].invoice] = "Paid"
    /\ ChangesOrder(a, [order[a] EXCEPT !.status = "Paid", !.old = FALSE])

\* The reconciler looks back so far and no further.
GrowOld(a) ==
    /\ order[a].invoice # Nobody /\ ~order[a].old
    /\ ChangesOrder(a, [order[a] EXCEPT !.old = TRUE])

----------------------------------------------------------------------------
(* Payment *)

\* Staff mark an invoice Paid by hand: nothing is activated.
PayByHand(p) ==
    /\ invoice[p] = "Unpaid"
    /\ invoice' = [invoice EXCEPT ![p] = "Paid"]
    /\ UNCHANGED <<doc, chain, op, pc, since, order, job, about, plan, tries, now, mishaps, overran>>

\* A payment rail marks the invoice Paid and enqueues its job, which first
\* activates the address.
Settle(c) ==
    /\ KindOf[c] = "settle" /\ invoice[about[c]] # "none"
    /\ Start(c, "activate", "activate")
    /\ invoice' = [invoice EXCEPT ![about[c]] = "Paid"]
    /\ UNCHANGED <<doc, order, job, about, plan, tries, now, mishaps, overran>>

Planned(c, j) ==
    /\ plan' = [plan EXCEPT ![c] = j]
    /\ Goto(c, "job")

\* findActiveSlugForAccount: an address the account owns already is adopted; an
\* address nobody could look up means the job is held.
Adopt(c) ==
    /\ pc[c] = "adopt"
    /\ \/ /\ IF doc.status = "active" /\ doc.account = AccountOf[c]
             THEN Planned(c, "chosen")
             ELSE Goto(c, "provenance") /\ UNCHANGED plan
          /\ UNCHANGED mishaps
       \/ Fail /\ Planned(c, "held")
    /\ UNCHANGED <<doc, chain, op, order, invoice, job, about, tries, now, overran>>

\* resolveProvenance: only an invoice that no app order carries is built under a
\* name of its own.
Provenance(c) ==
    /\ pc[c] = "provenance"
    /\ \/ /\ Planned(c, IF order[AccountOf[c]].invoice = about[c] THEN "held" ELSE "derived")
          /\ UNCHANGED mishaps
       \/ Fail /\ Planned(c, "held")
    /\ UNCHANGED <<doc, chain, op, order, invoice, job, about, tries, now, overran>>

\* The job is inserted unless the invoice has one.
PostJob(c) ==
    /\ pc[c] = "job"
    /\ \E o \in Outcomes(job[about[c]], IF job[about[c]] = "none" THEN plan[c] ELSE job[about[c]]) :
          /\ job' = [job EXCEPT ![about[c]] = o[1]]
          /\ Charge(o[2])
    /\ Goto(c, IF KindOf[c] = "sweep" THEN "check" ELSE "done")
    /\ plan' = [plan EXCEPT ![c] = "none"]
    /\ UNCHANGED <<doc, chain, op, order, invoice, about, tries, now, overran>>

----------------------------------------------------------------------------
(* sweepPaidAppOrders *)

\* The query of the sweep, in a list long enough for all it finds.
Listed(o, p) == o.invoice = p /\ o.status \in {"Draft", "Paid"} /\ ~o.old

\* Mutant: an attempt that was begun counts as over.
MayReconcileOnce(o, p) == Listed(o, p) /\ o.marker = "none" /\ invoice[p] = "Paid" /\ job[p] = "none"

\* reconcileDecision and the checks after it: a paid invoice of a listed app
\* order, without a job, that has not been tried too often.
MayReconcile(o, p) ==
    /\ Listed(o, p)
    /\ o.marker \notin {"done", "gave_up"} /\ o.attempts < MaxSweeps
    /\ invoice[p] = "Paid"
    /\ job[p] = "none"

Sweep(c) ==
    /\ KindOf[c] = "sweep" /\ pc[c] = "idle" /\ op[c].at = "none"
    /\ \E p \in Prepares :
          MayReconcile(order[AccountOf[c]], p) /\ about' = [about EXCEPT ![c] = p]
    /\ tries' = [tries EXCEPT ![c] = order[AccountOf[c]].attempts]
    /\ Goto(c, "mark")
    /\ UNCHANGED <<doc, chain, op, order, invoice, job, plan, now, mishaps, overran>>

Tried(a, c) == [order[a] EXCEPT !.attempts = tries[c] + 1, !.old = FALSE]

\* The attempt is marked before it is made.
Mark(c) ==
    /\ pc[c] = "mark"
    /\ LET a == AccountOf[c] IN
       \E o \in Outcomes(order[a], [Tried(a, c) EXCEPT !.marker = "activating"]) :
          /\ order' = [order EXCEPT ![a] = o[1]]
          /\ Charge(o[2])
          /\ IF o[2]
             THEN Goto(c, "activate") /\ Enqueue(c, "activate", now)
             ELSE Goto(c, "idle") /\ UNCHANGED <<op, chain>>
    /\ UNCHANGED <<doc, invoice, job, about, plan, tries, now, overran>>

\* The result is marked by what can be seen of it.
MarkResult(c) ==
    /\ pc[c] = "check"
    /\ LET a == AccountOf[c]
           marker == IF job[about[c]] # "none" THEN "done"
                     ELSE IF tries[c] + 1 >= MaxSweeps THEN "gave_up" ELSE "failed"
       IN  \E o \in Outcomes(order[a], [Tried(a, c) EXCEPT !.marker = marker]) :
              /\ order' = [order EXCEPT ![a] = o[1]]
              /\ Charge(o[2])
              /\ Goto(c, IF o[2] /\ marker = "done" THEN "flip" ELSE "idle")
    /\ UNCHANGED <<doc, chain, op, invoice, job, about, plan, tries, now, overran>>

\* The buyer may never look at the order again, so it becomes Paid here.
FlipOrder(c) ==
    /\ pc[c] = "flip"
    /\ LET a == AccountOf[c] IN
       \E o \in Outcomes(order[a], [order[a] EXCEPT !.status = "Paid", !.old = FALSE]) :
          order' = [order EXCEPT ![a] = o[1]] /\ Charge(o[2])
    /\ Goto(c, "idle")
    /\ UNCHANGED <<doc, chain, op, invoice, job, about, plan, tries, now, overran>>

----------------------------------------------------------------------------

\* The process dies: the chain and every handler are gone, the rows stay.
Crash ==
    /\ Fail
    /\ \E c \in Calls : pc[c] \notin {"idle", "done"}
    /\ chain' = <<>>
    /\ op' = [c \in Calls |-> NoOp]
    /\ pc' = [c \in Calls |-> IF pc[c] = "idle" \/ KindOf[c] = "sweep" THEN "idle" ELSE "done"]
    /\ since' = [c \in Calls |-> 0]
    /\ UNCHANGED <<doc, order, invoice, job, about, plan, tries, now, overran>>

Pass ==
    /\ now < MaxTime
    /\ now' = now + 1
    /\ UNCHANGED <<doc, chain, op, pc, since, order, invoice, job, about, plan, tries, mishaps, overran>>

Operation(c) == Read(c) \/ Write(c) \/ TimeOut(c)
Handler(c) == Raise(c) \/ LinkOrder(c) \/ Adopt(c) \/ Provenance(c) \/ PostJob(c) \/ Mark(c) \/ MarkResult(c) \/ FlipOrder(c)
Begin(c) == Create(c) \/ View(c) \/ Prepare(c) \/ Settle(c) \/ Sweep(c)

\* Nobody calls, and nothing is under way.
Quiet ==
    /\ \A c \in Calls : pc[c] \in {"idle", "done"} /\ op[c].at = "none"
    /\ UNCHANGED vars

Next ==
    \/ \E c \in Calls : Begin(c) \/ Operation(c) \/ Handler(c)
    \/ \E p \in Prepares : PayByHand(p)
    \/ \E a \in Accounts : CancelOrder(a) \/ FlipPaid(a) \/ GrowOld(a)
    \/ Crash \/ Pass \/ Quiet

\* Every request is answered or times out, and the sweep's timer ticks.
Fairness ==
    /\ WF_vars(\E c \in Calls : Operation(c) \/ Handler(c))
    /\ WF_vars(\E c \in Calls : Sweep(c))

Spec == Init /\ [][Next]_vars /\ Fairness

----------------------------------------------------------------------------
(* Properties *)

AddressState ==
    CASE doc.status = "active" -> "owned"
      [] doc.status = "reserved" /\ doc.expires > now -> "held"
      [] OTHER -> "free"

Book == INSTANCE AddressBook WITH owner <- doc.account, state <- AddressState

\* Refinement: until an operation overruns its time, the store is an address
\* book.  Nobody takes a held address, nor one that was paid for, whatever the
\* order in which orders, heartbeats, prepared payments and payments are served
\* and whichever of their requests fail (reserveSlug's re-read in its turn).
BookUntilOverrun == Book!Init /\ [][overran' \/ Book!Next]_(Book!vars)

\* While an address stays with an account, no invoice ever leaves its history
\* and a hold that has an invoice never gets shorter: a late payment on any
\* invoice raised for it finds the address (reserveSlug's first branch,
\* linkSlugInvoice).
HistoryKept ==
    [][\/ overran' \/ doc'.account # doc.account
       \/ doc.invoices \subseteq doc'.invoices /\ (doc.invoices # {} => doc.expires <= doc'.expires)]_doc

\* A shop stands under an address only while the address is its account's for
\* good, so two customers never share a site.
ShopOwnsAddress ==
    overran \/ \A p \in Prepares : job[p] = "chosen" => doc.status = "active" /\ doc.account = AccountOf[p]

\* The job of an app order is never built under a name the buyer did not choose
\* (enqueueProvisioningForInvoice: "the job must NOT build under a guessed name").
NeverGuessed == \A p \in Prepares : job[p] # "derived"

\* An app order that the reconciler looks at and whose invoice was paid, by a rail
\* or by hand, brings its account a job, built or held for staff, unless the
\* reconciler has used up its attempts or does not look at the order any more,
\* which was cancelled, grew old, or was linked to another invoice.
PaidOrdersGetJob ==
    \A p \in Prepares :
        LET o == order[AccountOf[p]] IN
        (Listed(o, p) /\ invoice[p] = "Paid") ~>
            \/ \E q \in Prepares : AccountOf[q] = AccountOf[p] /\ job[q] # "none"
            \/ o.attempts >= MaxSweeps \/ ~Listed(o, p)
=============================================================================
