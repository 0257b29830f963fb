-------------------------- MODULE SubscriptionBilling --------------------------
(* The subscription of one Web Account: its Subscription invoices, the plan  *)
(* and the service rows on the account, and the clock.  The handlers are     *)
(*   sweep    sweepRenewals (renewalService.js), a timer: a new invoice when *)
(*            the term of the latest paid one is over, and the services cut  *)
(*            off when an invoice stays unpaid past its grace window         *)
(*   order    POST /api/orders/:id/prepare-payment: invoices a first order   *)
(*   attach   POST /api/plan/attach-selection: services, or another plan     *)
(*   pay      a payment rail on one invoice (AccountActivation has it whole) *)
(*   delete   POST /api/invoices/:invoiceNo/delete                           *)
(* The account has no billing term of its own: it is the term of the invoice *)
(* dated last among the paid ones.  Amounts, savings and shop addresses are  *)
(* left out; services are of the volume class, so a paid row is Active.      *)
EXTENDS Naturals, Sequences

CONSTANTS
    Services,
    Renewable,      \* the services that are not domain registrations
    Calls, Ask,     \* the requests, and what each asks for
    Scenarios,      \* what a behaviour may have: requests, how the account begins, failures
    Cycle, Year,    \* RENEWAL_CYCLE_DAYS and ANNUAL_CYCLE_DAYS, in ticks
    Grace,          \* RENEWAL_GRACE_DAYS, in ticks
    MaxTime         \* bound on the clock

Plans == {"Starter", "Business"}
Terms == {"monthly", "annual"}
RowStatus == {"none", "Unpaid", "Active", "Suspended"}

ASSUME BillingAssumption ==
    /\ Renewable \subseteq Services
    /\ Ask \in [Calls -> [kind : {"order", "attach", "pay", "delete"}, plan : Plans, term : Terms,
                          services : SUBSET Services, mode : {"none", "retain", "replace"}]]
    /\ Scenarios \subseteq [calls : SUBSET Calls, begins : Terms \cup {"new"}, mishaps : Nat]
    /\ Cycle \in Nat /\ Year \in Nat /\ Cycle <= Year /\ Grace \in Nat /\ MaxTime \in Nat

VARIABLES
    invoices,   \* the Subscription invoices, in the order they were created
    account,    \* the Web Account: plan, account_status and selected_services
    call,       \* call[c]: where a request is and what it has read
    sweep,      \* the sweep: where it is and what it has read
    now,
    since,      \* what requests did to invoices since the sweep last listed them (history)
    mishaps     \* failed requests and crashes still to come

vars == <<invoices, account, call, sweep, now, since, mishaps>>

Ids == DOMAIN invoices
Invoice(plan, term, lists) ==
    [status |-> "Unpaid", plan |-> plan, term |-> term, date |-> now, lists |-> lists]

NoRows == [s \in Services |-> "none"]
OnAccount(rows) == {s \in Services : rows[s] # "none"}

At(at) == [at |-> at, found |-> 0, plan |-> "None", rows |-> NoRows, lists |-> {}, term |-> "monthly"]
Idle == [at |-> "idle", latest |-> 0, term |-> "monthly", plan |-> "None", rows |-> NoRows, todo |-> {}]

\* A new account, or one that paid for all services at time 0.
Init ==
    /\ now = 0 /\ since = {} /\ sweep = Idle
    /\ \E s \in Scenarios :
         /\ call = [c \in Calls |-> At(IF c \in s.calls THEN "start" ELSE "over")]
         /\ mishaps = s.mishaps
         /\ invoices = IF s.begins = "new" THEN <<>>
                       ELSE <<[Invoice("Starter", s.begins, Services) EXCEPT !.status = "Paid"]>>
         /\ account = IF s.begins = "new" THEN [plan |-> "None", suspended |-> FALSE, rows |-> NoRows]
                      ELSE [plan |-> "Starter", suspended |-> FALSE, rows |-> [x \in Services |-> "Active"]]

-----------------------------------------------------------------------------
(* Invoices and requests.                                                  *)

Paid == {i \in Ids : invoices[i].status = "Paid"}
Open == {i \in Ids : invoices[i].status = "Unpaid"}
OfPlan(S, plan) == {i \in S : invoices[i].plan = plan}

\* latestPaidByAccount and findLastPaidSubscriptionInvoice; names decide among
\* invoices of one day.
LatestPaid == {i \in Paid : \A k \in Paid : invoices[k].date <= invoices[i].date}

Fail == mishaps > 0 /\ mishaps' = mishaps - 1

\* A write is acknowledged, or the request throws after Frappe stored it or before.
Outcomes == {"ok", "stored", "dropped"}

\* A request that throws is over; a buyer may prepare the payment again.
Thrown(c) == At(IF Ask[c].kind = "order" THEN "start" ELSE "over")

\* A request forgets what it read when it is over.
On(r, at) == IF at = "over" THEN At("over") ELSE [r EXCEPT !.at = at]

\* Call c has read what it needs for r and goes on at at, or its GET throws.
Read(c, r, at) ==
    /\ \/ call' = [call EXCEPT ![c] = On(r, at)] /\ UNCHANGED mishaps
       \/ call' = [call EXCEPT ![c] = Thrown(c)] /\ Fail
    /\ UNCHANGED <<invoices, account, sweep, now, since>>

\* What becomes of call c after a write.
Answered(c, o, r, at) ==
    IF o = "ok" THEN call' = [call EXCEPT ![c] = On(r, at)] /\ UNCHANGED mishaps
    ELSE call' = [call EXCEPT ![c] = Thrown(c)] /\ Fail

\* Call c PUTs doc over invoice i, or POSTs it if i is new.
PutInvoice(c, i, doc, what, r, at) ==
    /\ \E o \in Outcomes :
         /\ Answered(c, o, r, at)
         /\ IF o = "dropped" THEN UNCHANGED <<invoices, since>>
            ELSE /\ invoices' = IF i \in Ids THEN [invoices EXCEPT ![i] = doc] ELSE Append(invoices, doc)
                 /\ since' = since \cup {what}
    /\ UNCHANGED <<account, sweep, now>>

PutAccount(c, doc, r, at) ==
    /\ \E o \in Outcomes :
         /\ Answered(c, o, r, at)
         /\ account' = IF o = "dropped" THEN account ELSE doc
    /\ UNCHANGED <<invoices, sweep, now, since>>

-----------------------------------------------------------------------------
(* POST /api/orders/:id/prepare-payment.                                   *)

\* getOrder found a Draft without an invoice; the account's plan is read next.
PrepareStart(c) ==
    /\ Ask[c].kind = "order" /\ call[c].at = "start"
    /\ Read(c, [call[c] EXCEPT !.plan = account.plan], "first")

\* A customer with a paid plan buys an add-on (AddonSavings), which is only
\* attached here; anyone else is billed a subscription.
PrepareKind(c) ==
    /\ call[c].at = "first"
    /\ Read(c, call[c], IF OfPlan(Paid, call[c].plan) # {} THEN "mergeRead" ELSE "term")

\* A year can be chosen by a customer who never paid a subscription.
PrepareTerm(c) ==
    /\ call[c].at = "term"
    /\ Read(c, [call[c] EXCEPT !.term = IF Paid = {} THEN Ask[c].term ELSE "monthly", !.lists = Ask[c].services],
            "apply")

\* After the invoice, or without one: the ordered services join the account.
MergeRead(c) ==
    /\ call[c].at = "mergeRead"
    /\ Read(c, [call[c] EXCEPT !.rows = account.rows], "mergeWrite")

Merged(rows, services) ==
    [s \in Services |-> IF s \in services /\ rows[s] = "none" THEN "Unpaid" ELSE rows[s]]

MergeWrite(c) ==
    /\ call[c].at = "mergeWrite"
    /\ PutAccount(c, [account EXCEPT !.rows = Merged(call[c].rows, Ask[c].services)], call[c],
                  IF call[c].found = 0 THEN "over" ELSE IF call[c].term = "annual" THEN "annual" ELSE "link")

\* The invoice the plan was applied to is turned into a year's.
Annual(c) ==
    /\ call[c].at = "annual"
    /\ PutInvoice(c, call[c].found, [invoices[call[c].found] EXCEPT !.term = "annual"], "term", call[c], "link")

\* linkInvoice: from here on the order is answered with its invoice.
Link(c) ==
    /\ call[c].at = "link"
    /\ Read(c, call[c], "over")

-----------------------------------------------------------------------------
(* applyPlanAndCreateInvoice.                                              *)

\* A first order forces the plan on the account; attach-selection has put it there.
ApplyRead(c) ==
    /\ call[c].at = "apply"
    /\ Read(c, call[c], IF Ask[c].kind = "order" \/ account.plan # Ask[c].plan THEN "applyPlan" ELSE "open")

ApplyPlan(c) ==
    /\ call[c].at = "applyPlan"
    /\ PutAccount(c, [account EXCEPT !.plan = Ask[c].plan, !.suspended = FALSE], call[c], "open")

\* findExistingUnpaidSubscriptionInvoice: an open invoice of the plan, if any.
FindOpen(c) ==
    /\ call[c].at = "open"
    /\ \E i \in IF OfPlan(Open, Ask[c].plan) = {} THEN {0} ELSE OfPlan(Open, Ask[c].plan) :
         Read(c, [call[c] EXCEPT !.found = i], "raise")

\* The open invoice is rewritten, with the status it was found in; the term it
\* had stays.  Or a new invoice is raised.
Raise(c) ==
    /\ call[c].at = "raise"
    /\ LET i == IF call[c].found # 0 THEN call[c].found ELSE Len(invoices) + 1
           old == IF call[c].found # 0 THEN invoices[i].term ELSE "monthly"
       IN  PutInvoice(c, i, Invoice(Ask[c].plan, old, call[c].lists), "raised", [call[c] EXCEPT !.found = i],
                      IF Ask[c].kind = "order" THEN "mergeRead" ELSE "over")

-----------------------------------------------------------------------------
(* POST /api/plan/attach-selection.                                        *)

AttachStart(c) ==
    /\ Ask[c].kind = "attach" /\ call[c].at = "start"
    /\ \E i \in IF LatestPaid = {} THEN {0} ELSE LatestPaid :
         Read(c, [call[c] EXCEPT !.found = i], IF i = 0 THEN "account" ELSE "locked")

\* assertNotAnnualBeforePlanChange.
AttachTerm(c) ==
    /\ call[c].at = "locked"
    /\ Read(c, [call[c] EXCEPT !.found = 0],
            IF invoices[call[c].found].term = "annual" THEN "over" ELSE "account")

\* Rows keep a paid status; the others begin unpaid.
Incoming(rows, services) ==
    [s \in Services |->
       IF s \notin services THEN "none" ELSE IF rows[s] \in {"Active", "Suspended"} THEN rows[s] ELSE "Unpaid"]

Over(rows, incoming) == [s \in Services |-> IF incoming[s] # "none" THEN incoming[s] ELSE rows[s]]

AttachAccount(c) ==
    /\ call[c].at = "account"
    /\ LET read == [call[c] EXCEPT !.plan = account.plan, !.rows = account.rows]
           change == account.plan # "None" /\ account.plan # Ask[c].plan
       IN  CASE ~change -> Read(c, [read EXCEPT !.rows = Over(@, Incoming(@, Ask[c].services))], "rows")
             [] change /\ Ask[c].mode = "none" -> Read(c, read, "over")
             [] OTHER -> Read(c, read, "oldPlan")

\* Services of a paid plan are retained or replaced, as asked.
AttachOldPlan(c) ==
    /\ call[c].at = "oldPlan"
    /\ LET new == Incoming(call[c].rows, Ask[c].services)
       IN  IF OfPlan(Paid, call[c].plan) = {} THEN Read(c, [call[c] EXCEPT !.rows = new], "oldOpen")
           ELSE Read(c, [call[c] EXCEPT !.rows = IF Ask[c].mode = "retain" THEN Over(@, new) ELSE new], "rows")

\* The open invoice of an unpaid plan goes.
AttachOldOpen(c) ==
    /\ call[c].at = "oldOpen"
    /\ \E i \in IF OfPlan(Open, call[c].plan) = {} THEN {0} ELSE OfPlan(Open, call[c].plan) :
         Read(c, [call[c] EXCEPT !.found = i], IF i = 0 THEN "rows" ELSE "retire")

Retire(c) ==
    /\ call[c].at = "retire"
    /\ PutInvoice(c, call[c].found, [invoices[call[c].found] EXCEPT !.status = "Deleted"], "deleted",
                  [call[c] EXCEPT !.found = 0], "rows")

AttachRows(c) ==
    /\ call[c].at = "rows"
    /\ PutAccount(c, [plan |-> Ask[c].plan, suspended |-> FALSE, rows |-> call[c].rows],
                  [call[c] EXCEPT !.lists = OnAccount(call[c].rows)], "apply")

-----------------------------------------------------------------------------
(* A payment, and the deletion of an invoice.                              *)

Activating == {"mark", "rowsRead", "rowsWrite"}

\* The rail's call reads the invoice, in its turn on the account.
PayStart(c) ==
    /\ Ask[c].kind = "pay" /\ call[c].at = "start"
    /\ \A d \in Calls : call[d].at \notin Activating
    /\ \E i \in Open : Read(c, [call[c] EXCEPT !.found = i, !.lists = invoices[i].lists], "mark")

MarkPaid(c) ==
    /\ call[c].at = "mark"
    /\ PutInvoice(c, call[c].found, [invoices[call[c].found] EXCEPT !.status = "Paid"], "paid", call[c], "rowsRead")

PayRead(c) ==
    /\ call[c].at = "rowsRead"
    /\ Read(c, [call[c] EXCEPT !.rows = account.rows], "rowsWrite")

Activated(rows, services) ==
    [s \in Services |-> IF s \in services /\ rows[s] # "none" THEN "Active" ELSE rows[s]]

PayWrite(c) ==
    /\ call[c].at = "rowsWrite"
    /\ PutAccount(c, [account EXCEPT !.rows = Activated(call[c].rows, call[c].lists), !.suspended = FALSE],
                  call[c], "over")

DeleteStart(c) ==
    /\ Ask[c].kind = "delete" /\ call[c].at = "start"
    /\ \E i \in Open : Read(c, [call[c] EXCEPT !.found = i], "delete")

Delete(c) ==
    /\ call[c].at = "delete"
    /\ PutInvoice(c, call[c].found, [invoices[call[c].found] EXCEPT !.status = "Deleted"], "deleted", call[c], "over")

-----------------------------------------------------------------------------
(* sweepRenewals.                                                          *)

\* Its second part starts over.
Go(r, at) == sweep' = [(IF at \in {"overdue", "idle"} THEN Idle ELSE r) EXCEPT !.at = at]

\* The sweep reads what it needs for r and goes on at at; a GET that throws
\* ends the part of the sweep it is in.
SweepRead(r, at, thrown) ==
    /\ \/ Go(r, at) /\ UNCHANGED mishaps
       \/ Go(sweep, thrown) /\ Fail
    /\ UNCHANGED <<invoices, account, call, now>>

\* Mutant: the cycle of a month for everyone.
MonthFor(term) == Cycle

\* cycleDaysForTerm.
CycleFor(term) == IF term = "annual" THEN Year ELSE Cycle

\* isDueForRenewal and isPastGrace.
IsDue(i, days) == now - invoices[i].date >= days

\* Mutant: on the last day of the grace window.
OnGrace(i) == now - invoices[i].date >= Grace

PastGrace(i) == now - invoices[i].date > Grace

ListPaid ==
    /\ sweep.at = "idle"
    /\ \/ \E i \in LatestPaid :
            /\ IsDue(i, Cycle)
            /\ SweepRead([sweep EXCEPT !.latest = i], "account", "overdue")
       \/ /\ LatestPaid = {} \/ \E i \in LatestPaid : ~IsDue(i, Cycle)
          /\ SweepRead(sweep, "overdue", "overdue")
    /\ since' = {}

RenewAccount ==
    /\ sweep.at = "account"
    /\ SweepRead([sweep EXCEPT !.plan = account.plan, !.rows = account.rows], "term", "overdue")
    /\ UNCHANGED since

RenewTerm ==
    /\ sweep.at = "term"
    /\ LET term == invoices[sweep.latest].term
       IN  SweepRead([sweep EXCEPT !.term = term], IF IsDue(sweep.latest, CycleFor(term)) THEN "open" ELSE "overdue",
                     "overdue")
    /\ UNCHANGED since

\* Mutant: a deleted invoice counts as an open one.
OpenOrDeleted == {i \in Ids : invoices[i].status # "Paid"}

\* The guard against stacking invoices.
Blocking == Open

\* Nothing is billed while an invoice is open, or when nothing renewable is left.
RenewOpen ==
    /\ sweep.at = "open"
    /\ SweepRead(sweep, IF Blocking = {} /\ OnAccount(sweep.rows) \cap Renewable # {} THEN "bill" ELSE "overdue",
                 "overdue")
    /\ UNCHANGED since

Bill ==
    /\ sweep.at = "bill"
    /\ \E o \in Outcomes :
         /\ invoices' = IF o = "dropped" THEN invoices
                        ELSE Append(invoices, Invoice(sweep.plan, sweep.term, OnAccount(sweep.rows) \cap Renewable))
         /\ IF o = "ok" THEN UNCHANGED mishaps ELSE Fail
    /\ Go(sweep, "overdue")
    /\ UNCHANGED <<account, call, now, since>>

\* The second part: every unpaid invoice.
ListOverdue ==
    /\ sweep.at = "overdue"
    /\ SweepRead([Idle EXCEPT !.todo = Open], "next", "idle")
    /\ since' = {}

\* An account that is suspended already is left alone.
NextOverdue ==
    /\ sweep.at = "next" /\ sweep.todo # {}
    /\ \E i \in sweep.todo :
         LET rest == [sweep EXCEPT !.todo = @ \ {i}]
         IN  IF PastGrace(i)
             THEN SweepRead([rest EXCEPT !.rows = account.rows], IF account.suspended THEN "next" ELSE "cut", "next")
             ELSE SweepRead(rest, "next", "next")
    /\ UNCHANGED since

CutOff(rows) == [s \in Services |-> IF rows[s] = "Active" THEN "Suspended" ELSE rows[s]]

Cut ==
    /\ sweep.at = "cut"
    /\ \E o \in Outcomes :
         /\ account' = IF o = "dropped" THEN account
                       ELSE [account EXCEPT !.suspended = TRUE, !.rows = CutOff(sweep.rows)]
         /\ IF o = "ok" THEN UNCHANGED mishaps ELSE Fail
    /\ Go(sweep, "next")
    /\ UNCHANGED <<invoices, call, now, since>>

EndSweep ==
    /\ sweep.at = "next" /\ sweep.todo = {}
    /\ sweep' = Idle
    /\ UNCHANGED <<invoices, account, call, now, since, mishaps>>

-----------------------------------------------------------------------------

Tick ==
    /\ now < MaxTime /\ now' = now + 1
    /\ UNCHANGED <<invoices, account, call, sweep, since, mishaps>>

\* The process dies: what it was doing is not resumed.
Crash ==
    /\ Fail
    /\ call' = [c \in Calls |-> IF call[c].at \in {"start", "over"} THEN call[c] ELSE Thrown(c)]
    /\ sweep' = Idle
    /\ UNCHANGED <<invoices, account, now, since>>

CallNext(c) ==
    \/ PrepareStart(c) \/ PrepareKind(c) \/ PrepareTerm(c) \/ MergeRead(c) \/ MergeWrite(c) \/ Annual(c) \/ Link(c)
    \/ ApplyRead(c) \/ ApplyPlan(c) \/ FindOpen(c) \/ Raise(c)
    \/ AttachStart(c) \/ AttachTerm(c) \/ AttachAccount(c) \/ AttachOldPlan(c) \/ AttachOldOpen(c) \/ Retire(c)
    \/ AttachRows(c)
    \/ PayStart(c) \/ MarkPaid(c) \/ PayRead(c) \/ PayWrite(c)
    \/ DeleteStart(c) \/ Delete(c)

SweepNext ==
    \/ ListPaid \/ RenewAccount \/ RenewTerm \/ RenewOpen \/ Bill
    \/ ListOverdue \/ NextOverdue \/ Cut \/ EndSweep

Next == (\E c \in Calls : CallNext(c)) \/ SweepNext \/ Tick \/ Crash

\* setInterval keeps starting sweeps, and their requests end.  Customers need
\* do nothing.
Spec == Init /\ [][Next]_vars /\ WF_vars(SweepNext)

-----------------------------------------------------------------------------
(* Properties.                                                             *)

Document == [status : {"Unpaid", "Paid", "Deleted"}, plan : Plans \cup {"None"}, term : Terms, date : Nat,
             lists : SUBSET Services]
Account == [plan : Plans \cup {"None"}, suspended : BOOLEAN, rows : [Services -> RowStatus]]
CallSteps ==
    {"start", "over", "first", "term", "mergeRead", "mergeWrite", "annual", "link", "apply", "applyPlan",
     "open", "raise", "locked", "account", "oldPlan", "oldOpen", "retire", "rows", "mark", "rowsRead",
     "rowsWrite", "delete"}
Local == [at : CallSteps, found : Nat, plan : Plans \cup {"None"}, rows : [Services -> RowStatus],
          lists : SUBSET Services, term : Terms]
SweepSteps == {"idle", "account", "term", "open", "bill", "overdue", "next", "cut"}
Reading == [at : SweepSteps, latest : Nat, term : Terms, plan : Plans \cup {"None"},
            rows : [Services -> RowStatus], todo : SUBSET Nat]

TypeOK ==
    /\ invoices \in Seq(Document)
    /\ account \in Account
    /\ call \in [Calls -> Local]
    /\ sweep \in Reading
    /\ now \in Nat /\ mishaps \in Nat
    /\ since \subseteq {"paid", "raised", "deleted", "term"}

\* The days invoice i pays for.
TermOf(i) == IF invoices[i].term = "annual" THEN Year ELSE Cycle

\* No period is billed twice: a renewal is issued only while no other invoice
\* is open, unless one was raised during this sweep, and only when the term the
\* customer last paid for is over, unless a request wrote an invoice meanwhile.
NeverBilledEarly ==
    [][Bill /\ invoices' # invoices =>
         /\ "raised" \in since \/ Open = {}
         /\ since # {} \/ \E i \in LatestPaid : now >= invoices[i].date + TermOf(i)]_vars

\* Services are cut off only while an invoice is past its grace window, unless
\* the last such invoice was paid, replaced or deleted since this sweep read them.
CutOnlyWhenOwing ==
    [][account'.suspended /\ ~account.suspended /\ since \cap {"paid", "raised", "deleted"} = {}
       => \E i \in Open : now > invoices[i].date + Grace]_vars

Due ==
    /\ Open = {} /\ LatestPaid # {} /\ OnAccount(account.rows) \cap Renewable # {}
    /\ \A i \in LatestPaid : now >= invoices[i].date + TermOf(i)

Overdue == ~account.suspended /\ \E i \in Open : now > invoices[i].date + Grace

\* The sweep catches up, whatever fails: nobody uses services for ever without
\* being billed for them, or without paying.
SweepCatchesUp == (Due ~> ~Due) /\ (Overdue ~> ~Overdue)
=============================================================================
