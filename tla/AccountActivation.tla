------------------------- MODULE AccountActivation -------------------------
(***************************************************************************)
(* What a payment sets in motion: a Portal Invoice becomes "Paid", the     *)
(* service rows of its Web Account are activated, and Provisioning Jobs    *)
(* are queued (backend/services/billingActivationService.js and the        *)
(* handlers that call it, or that write the same two records).             *)
(*                                                                         *)
(* One Web Account, one backend process.  Frappe has no transactions: each *)
(* GET and each PUT is an action of its own, and the service rows are      *)
(* always written as one array, from an earlier read of it.  A call is one *)
(* run of a handler on one invoice:                                        *)
(*   capture   POST /api/paypal/capture-order, which charges the buyer     *)
(*   webhook   PayPal's PAYMENT.CAPTURE.COMPLETED, sent until it gets a 200*)
(*   refund    PayPal's PAYMENT.CAPTURE.REFUNDED or .DENIED, likewise      *)
(*   callback  M-Pesa's callback, sent once and answered before any work   *)
(*   resync    POST /api/billing/activate-services and the sweep of paid   *)
(*             app orders: activation with paymentVerified false           *)
(*   delete    POST /api/invoices/:invoiceNo/delete                        *)
(*   grace     the renewal sweep suspends an account with an overdue bill  *)
(*   flip      the runner has built a job: its row goes live               *)
(* A captured amount is the billed one and no invoice is a trial's.  Domain*)
(* fulfilment, trial clocks and account_status are left out.               *)
(***************************************************************************)
EXTENDS Naturals, Sequences

CONSTANTS
    Invoices,    \* the Portal Invoices of the account
    Services,    \* the service rows of the account
    Premium,     \* services of capacity class "premium": set up by the team
    Lists,       \* the services an invoice lists
    Calls,       \* the handler runs
    Scenarios,   \* the sets of calls that may come in one behaviour
    KindOf,      \* the handler a call runs
    InvoiceOf,   \* the invoice it is about
    MaxMishaps   \* bound: crashes and failed requests in a behaviour

Activating == {"capture", "webhook", "callback", "resync"}

Kinds == Activating \cup {"refund", "delete", "grace", "flip"}

ASSUME ConstantsAssumption ==
    /\ Premium \subseteq Services
    /\ Lists \in [Invoices -> SUBSET Services]
    /\ Scenarios \subseteq SUBSET Calls
    /\ KindOf \in [Calls -> Kinds]
    /\ InvoiceOf \in [Calls -> Invoices]
    /\ MaxMishaps \in Nat

VARIABLES
    invoice,   \* the status of each invoice
    row,       \* the status of each service row of the account
    jobs,      \* how many Provisioning Jobs an invoice has for a service
    call,      \* where each call is, and the rows and jobs it has in hand
    queue,     \* accountLocks: the calls waiting for the account, its holder first
    captured,  \* history: invoices whose money was taken from the customer
    mishaps    \* crashes and failed requests so far

vars == <<invoice, row, jobs, call, queue, captured, mishaps>>

InvoiceStatus == {"Unpaid", "Paid", "Refunded", "Deleted"}
RowStatus == {"Awaiting Payment", "Setting up", "Active", "Suspended"}

\* "off": a call that never comes in this behaviour.
Pc == {"off", "start", "lookup", "charge", "putPaid", "wait", "markPaid", "readRows",
       "writeRows", "post", "putStatus", "done"}

\* A call with nothing in hand.
At(pc) == [pc |-> pc, rows |-> [s \in Services |-> "Awaiting Payment"], todo |-> {}]

Init ==
    /\ invoice = [i \in Invoices |-> "Unpaid"]
    /\ row = [s \in Services |-> "Awaiting Payment"]
    /\ jobs = [is \in Invoices \X Services |-> 0]
    /\ \E S \in Scenarios : call = [c \in Calls |-> At(IF c \in S THEN "start" ELSE "off")]
    /\ queue = <<>>
    /\ captured = {}
    /\ mishaps = 0

-----------------------------------------------------------------------------
(* Requests, the account lock and the end of a call.                       *)

Fail == /\ mishaps < MaxMishaps
        /\ mishaps' = mishaps + 1

\* A write is acknowledged ("ok"), or the request throws after Frappe stored
\* it ("stored") or before ("dropped").
Outcomes == {"ok", "stored", "dropped"}

\* Mutant: no lock, a call that waits may go on.
Waits(c) == \E n \in 1 .. Len(queue) : queue[n] = c

Holds(c) == queue # <<>> /\ Head(queue) = c

\* Mutant: a call that throws, and is to come again, keeps the account.
AccountLockKept(c, pc) ==
    queue' = CASE pc = "wait" -> Append(queue, c)
               [] pc = "done" /\ Holds(c) -> Tail(queue)
               [] OTHER -> queue

\* withAccountLock: a call that goes to "wait" queues up for the account, one
\* that ends, normally or not, lets the next in.
AccountLock(c, pc) ==
    queue' = CASE pc = "wait" -> Append(queue, c)
               [] pc \in {"start", "done"} /\ Holds(c) -> Tail(queue)
               [] OTHER -> queue

Goto(c, pc) ==
    /\ call' = [call EXCEPT ![c] = At(pc)]
    /\ AccountLock(c, pc)

\* The handler throws.  PayPal gets a 500 and sends its event again; the other
\* callers get an error, or had their answer long ago.
Throw(c) ==
    /\ Goto(c, IF KindOf[c] \in {"webhook", "refund"} THEN "start" ELSE "done")
    /\ Fail

Status(c) == invoice[InvoiceOf[c]]

-----------------------------------------------------------------------------
(* The handlers up to the activation.                                      *)

\* What brings the request about: PayPal reports captured money only, and the
\* runner flips a row when it has built a job for it.
Arrives(c) ==
    CASE KindOf[c] \in {"webhook", "refund"} -> InvoiceOf[c] \in captured
      [] KindOf[c] = "flip" -> \E s \in Lists[InvoiceOf[c]] : jobs[<<InvoiceOf[c], s>>] > 0
      [] OTHER -> TRUE

\* The request comes in; M-Pesa's tells that the customer paid.
Begin(c) ==
    /\ call[c].pc = "start" /\ Arrives(c)
    /\ Goto(c, CASE KindOf[c] = "resync" -> "wait"
                 [] KindOf[c] = "flip" -> "readRows"
                 [] OTHER -> "lookup")
    /\ captured' = IF KindOf[c] = "callback" THEN captured \cup {InvoiceOf[c]} ELSE captured
    /\ UNCHANGED <<invoice, row, jobs, mishaps>>

\* Where the first read of the invoice sends a handler.
AfterLookup(c) ==
    CASE KindOf[c] = "capture" ->
           (CASE Status(c) = "Paid" -> "wait" [] Status(c) = "Unpaid" -> "charge" [] OTHER -> "done")
      [] KindOf[c] \in {"webhook", "callback"} -> IF Status(c) = "Paid" THEN "done" ELSE "wait"
      [] KindOf[c] = "refund" -> IF Status(c) = "Paid" THEN "putStatus" ELSE "done"
      [] KindOf[c] = "delete" -> IF Status(c) = "Paid" THEN "done" ELSE "putStatus"
      [] KindOf[c] = "grace" -> IF Status(c) = "Unpaid" THEN "readRows" ELSE "done"

Lookup(c) ==
    /\ call[c].pc = "lookup"
    /\ \/ Goto(c, AfterLookup(c)) /\ UNCHANGED mishaps
       \/ Throw(c)
    /\ UNCHANGED <<invoice, row, jobs, captured>>

\* capturePayPalOrderForInvoice: PayPal moves the money, whether or not its
\* answer comes back ...
Charge(c) ==
    /\ call[c].pc = "charge"
    /\ \E o \in Outcomes :
         /\ captured' = IF o = "dropped" THEN captured ELSE captured \cup {InvoiceOf[c]}
         /\ IF o = "ok" THEN Goto(c, "putPaid") /\ UNCHANGED mishaps ELSE Throw(c)
    /\ UNCHANGED <<invoice, row, jobs>>

\* ... and the invoice is marked before any activation, without the lock.
PutPaid(c) ==
    /\ call[c].pc = "putPaid"
    /\ \E o \in Outcomes :
         /\ invoice' = IF o = "dropped" THEN invoice ELSE [invoice EXCEPT ![InvoiceOf[c]] = "Paid"]
         /\ IF o = "ok" THEN Goto(c, "wait") /\ UNCHANGED mishaps ELSE Throw(c)
    /\ UNCHANGED <<row, jobs, captured>>

\* A refund (or a denied capture) and a deletion write the status their first
\* read allowed.
PutStatus(c) ==
    /\ call[c].pc = "putStatus"
    /\ \E o \in Outcomes, status \in IF KindOf[c] = "refund" THEN {"Refunded", "Unpaid"} ELSE {"Deleted"} :
         /\ invoice' = IF o = "dropped" THEN invoice ELSE [invoice EXCEPT ![InvoiceOf[c]] = status]
         /\ IF o = "ok" THEN /\ Goto(c, IF KindOf[c] = "refund" THEN "readRows" ELSE "done")
                             /\ UNCHANGED mishaps
                        ELSE Throw(c)
    /\ UNCHANGED <<row, jobs, captured>>

-----------------------------------------------------------------------------
(* activateServicesForInvoiceLocked.                                       *)

\* Mutant: every caller passes the gate.
VerifiedAlways(c) == TRUE

\* paymentVerified: the caller is a payment rail.
Verified(c) == KindOf[c] # "resync"

\* Mutant: what is paid was activated when it was paid.
BugCheckPaid(c) ==
    /\ call[c].pc = "wait" /\ Holds(c)
    /\ \/ /\ Goto(c, IF Status(c) # "Paid" /\ Verified(c) THEN "markPaid" ELSE "done")
          /\ UNCHANGED mishaps
       \/ Throw(c)
    /\ UNCHANGED <<invoice, row, jobs, captured>>

\* It reads the invoice again; an unverified caller may not mark it paid.
CheckPaid(c) ==
    /\ call[c].pc = "wait" /\ Holds(c)
    /\ \/ /\ Goto(c, CASE Status(c) = "Paid" -> "readRows"
                       [] Status(c) # "Paid" /\ Verified(c) -> "markPaid"
                       [] OTHER -> "done")
          /\ UNCHANGED mishaps
       \/ Throw(c)
    /\ UNCHANGED <<invoice, row, jobs, captured>>

MarkPaid(c) ==
    /\ call[c].pc = "markPaid"
    /\ \E o \in Outcomes :
         /\ invoice' = IF o = "dropped" THEN invoice ELSE [invoice EXCEPT ![InvoiceOf[c]] = "Paid"]
         /\ IF o = "ok" THEN Goto(c, "readRows") /\ UNCHANGED mishaps ELSE Throw(c)
    /\ UNCHANGED <<row, jobs, captured>>

\* The sets of rows a call may go on to change, as it reads them: an activation
\* and a refund those of the invoice, the renewal sweep the active ones, and the
\* runner that of a job it has built, if it is being set up.
Touched(c) ==
    LET mine == Lists[InvoiceOf[c]]
        being(status) == {s \in Services : row[s] = status}
    IN  CASE KindOf[c] = "flip" -> {{s} \cap being("Setting up") : s \in {x \in mine : jobs[<<InvoiceOf[c], x>>] > 0}}
          [] KindOf[c] = "grace" -> {being("Active")}
          [] OTHER -> {mine}

ReadRows(c) ==
    /\ call[c].pc = "readRows"
    /\ \/ /\ \E T \in Touched(c) :
               IF KindOf[c] = "flip" /\ T = {}
               THEN Goto(c, "done")
               ELSE /\ call' = [call EXCEPT ![c] = [pc |-> "writeRows", rows |-> row, todo |-> T]]
                    /\ UNCHANGED queue
          /\ UNCHANGED mishaps
       \/ Throw(c)
    /\ UNCHANGED <<invoice, row, jobs, captured>>

\* Premium services are set up by the team, the others are live at once.
ActivatedStatusFor(s) == IF s \in Premium THEN "Setting up" ELSE "Active"

NewStatus(c, s) ==
    CASE KindOf[c] \in Activating -> ActivatedStatusFor(s)
      [] KindOf[c] = "flip" -> "Active"
      [] OTHER -> "Suspended"

\* The whole array goes back, the other rows as they were read.
WriteRows(c) ==
    /\ call[c].pc = "writeRows"
    /\ LET todo == call[c].todo
           rows == [s \in Services |-> IF s \in todo THEN NewStatus(c, s) ELSE call[c].rows[s]]
       IN  \E o \in Outcomes :
             /\ row' = IF o = "dropped" THEN row ELSE rows
             /\ CASE o # "ok" -> Throw(c)
                  [] o = "ok" /\ KindOf[c] \in Activating ->
                       /\ call' = [call EXCEPT ![c] = [At("post") EXCEPT !.todo = todo]]
                       /\ UNCHANGED <<queue, mishaps>>
                  [] OTHER -> Goto(c, "done") /\ UNCHANGED mishaps
    /\ UNCHANGED <<invoice, jobs, captured>>

\* The unique index on job_key: Frappe answers 409.
KeyTaken(i, s) == jobs[<<i, s>>] > 0

\* enqueueProvisioningForInvoice, for one service: look for a job (a lookup
\* that fails found none), insert one; a failed insert is logged and skipped.
Post(c) ==
    /\ call[c].pc = "post"
    /\ \E s \in call[c].todo, found \in BOOLEAN, o \in Outcomes :
         LET i == InvoiceOf[c]
         IN  /\ found => jobs[<<i, s>>] > 0 /\ o = "ok"
             /\ jobs' = IF found \/ KeyTaken(i, s) \/ o = "dropped"
                        THEN jobs ELSE [jobs EXCEPT ![<<i, s>>] = @ + 1]
             /\ IF o = "ok" /\ (found <=> jobs[<<i, s>>] > 0) THEN UNCHANGED mishaps ELSE Fail
             /\ call' = [call EXCEPT ![c].todo = @ \ {s}]
    /\ UNCHANGED <<invoice, row, queue, captured>>

\* The final reads for the user payload, which may throw as well.
Reply(c) ==
    /\ call[c].pc = "post" /\ call[c].todo = {}
    /\ \/ Goto(c, "done") /\ UNCHANGED mishaps
       \/ Throw(c)
    /\ UNCHANGED <<invoice, row, jobs, captured>>

-----------------------------------------------------------------------------

Begun(c) == call[c].pc \notin {"off", "start", "done"}

\* The backend dies: of the calls under way only PayPal's events come again.
Crash ==
    /\ Fail
    /\ call' = [c \in Calls |->
         CASE Begun(c) /\ KindOf[c] \in {"webhook", "refund"} -> At("start")
           [] Begun(c) /\ KindOf[c] \notin {"webhook", "refund"} -> At("done")
           [] OTHER -> call[c]]
    /\ queue' = <<>>
    /\ UNCHANGED <<invoice, row, jobs, captured>>

Proceed(c) ==
    \/ Lookup(c) \/ Charge(c) \/ PutPaid(c) \/ PutStatus(c)
    \/ CheckPaid(c) \/ MarkPaid(c) \/ ReadRows(c) \/ WriteRows(c) \/ Post(c) \/ Reply(c)

\* No request is under way: none may come for ever.
Quiet == (\A c \in Calls : ~Begun(c)) /\ UNCHANGED vars

Next ==
    \/ \E c \in Calls : Begin(c) \/ Proceed(c)
    \/ Crash
    \/ Quiet

\* Some request that has come in goes on; PayPal sends its events until they
\* are acknowledged.  Customers, staff, M-Pesa and the sweeps may never call.
Fairness ==
    /\ WF_vars(\E c \in Calls : Proceed(c))
    /\ WF_vars(\E c \in {x \in Calls : KindOf[x] \in {"webhook", "refund"}} : Begin(c))

Spec == Init /\ [][Next]_vars /\ Fairness

-----------------------------------------------------------------------------
(* Properties.                                                             *)

TypeOK ==
    /\ invoice \in [Invoices -> InvoiceStatus]
    /\ row \in [Services -> RowStatus]
    /\ jobs \in [Invoices \X Services -> Nat]
    /\ call \in [Calls -> [pc : Pc, rows : [Services -> RowStatus], todo : SUBSET Services]]
    /\ queue \in Seq(Calls)
    /\ captured \subseteq Invoices
    /\ mishaps \in Nat

\* The security gate: no invoice is marked paid, no service goes live and no
\* job is queued unless the money of an invoice that lists it was taken,
\* whatever unverified callers do and however a rail's request was repeated,
\* cut short or overtaken.
NothingWithoutPayment ==
    /\ \A i \in Invoices : invoice[i] = "Paid" => i \in captured
    /\ \A i \in Invoices, s \in Services : jobs[<<i, s>>] > 0 => i \in captured
    /\ \A s \in Services : row[s] # "Awaiting Payment" => \E i \in captured : s \in Lists[i]

\* A payment gets the customer his services: as long as no request fails, an
\* invoice that is Paid has, in the end, a job for each service it lists, unless
\* it is refunded or deleted before.  The calls that find it Paid leave the work
\* to the one that made it so, which may wait for the account behind others.
\* After a failed request nobody may come back to it.
PaidGetsJobs ==
    [](mishaps = 0) =>
       \A i \in Invoices : invoice[i] = "Paid" ~> (invoice[i] # "Paid" \/ \A s \in Lists[i] : jobs[<<i, s>>] > 0)

\* All who write rows in this behaviour take the lock.
LockRespected == \A c \in Calls : KindOf[c] \in {"flip", "refund", "grace"} => call[c].pc = "off"

\* "Serializing per account closes that": no activation loses what another one
\* wrote, so a service with a job never waits for its payment.  Of activations
\* only: the runner, a refund and the renewal sweep write the array without the
\* lock, and undo an activation that comes in between.
NoLostActivation ==
    LockRespected => \A i \in Invoices, s \in Services : jobs[<<i, s>>] > 0 => row[s] # "Awaiting Payment"

\* A failed activation "doesn't wedge every later call": whatever throws and
\* whatever queues up for the account, a call that has begun comes to an end.
CallsEnd == \A c \in Calls : Begun(c) ~> call[c].pc = "done"

-----------------------------------------------------------------------------
(* Why NothingWithoutPayment holds: an inductive strengthening of it, which *)
(* says what a call may assume about the money where it stands.             *)

Entitled(s) == \E i \in captured : s \in Lists[i]

\* The rows a call has read, and those it will change, were paid for.
RowsJustified(c) ==
    /\ \A s \in Services : call[c].rows[s] # "Awaiting Payment" => Entitled(s)
    /\ \A s \in call[c].todo : Entitled(s)

CallJustified(c) ==
    /\ call[c].pc = "lookup" => KindOf[c] \notin {"resync", "flip"}
    /\ KindOf[c] \in {"webhook", "refund", "callback"} /\ call[c].pc \notin {"off", "start"} => InvoiceOf[c] \in captured
    /\ call[c].pc \in {"putPaid", "markPaid", "post"} => InvoiceOf[c] \in captured
    /\ call[c].pc = "wait" /\ Verified(c) => InvoiceOf[c] \in captured
    /\ call[c].pc \in {"readRows", "writeRows"} /\ KindOf[c] \notin {"grace", "flip"} => InvoiceOf[c] \in captured
    /\ call[c].pc = "writeRows" => RowsJustified(c)

Justified == NothingWithoutPayment /\ \A c \in Calls : CallJustified(c)

-----------------------------------------------------------------------------
(* Why NoLostActivation holds: the account lock excludes, and under it the  *)
(* rows an activation has read are still the rows of the account.           *)

\* Where an activation waits for the account, or has it.
LockPc == {"wait", "markPaid", "readRows", "writeRows", "post"}

Queued(c, q) == \E n \in 1 .. Len(q) : q[n] = c

QueuedOncePerCall(q) == \A m, n \in 1 .. Len(q) : q[m] = q[n] => m = n

\* Which handlers come where.
Role(c, pc) ==
    /\ pc \in {"charge", "putPaid"} => KindOf[c] = "capture"
    /\ pc \in {"wait", "markPaid", "post"} => KindOf[c] \in Activating
    /\ pc = "putStatus" => KindOf[c] \in {"refund", "delete"}
    /\ pc \in {"readRows", "writeRows"} => KindOf[c] # "delete"

\* Exactly the activations under way queue for the account, each once, and
\* one that is past the queue is the one that holds it.
Locked ==
    /\ QueuedOncePerCall(queue)
    /\ \A c \in Calls :
         /\ Role(c, call[c].pc)
         /\ KindOf[c] \in Activating /\ call[c].pc \in LockPc <=> Queued(c, queue)
         /\ KindOf[c] \in Activating /\ call[c].pc \in LockPc \ {"wait"} => Holds(c)

RowsCurrent ==
    /\ \A i \in Invoices, s \in Services : jobs[<<i, s>>] > 0 => row[s] # "Awaiting Payment"
    /\ \A c \in Calls :
         /\ call[c].pc = "writeRows" => call[c].rows = row
         /\ call[c].pc = "post" => \A s \in call[c].todo : row[s] # "Awaiting Payment"

ActivationKept == Locked /\ (LockRespected => RowsCurrent)
=============================================================================
