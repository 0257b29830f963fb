---------------------------- MODULE DomainPurchases ----------------------------
(* One domain name of one account: the intake rows that ask for it (Hosting  *)
(* Domain Purchase Request), the Customer Domain rows that record who owns   *)
(* it, and the registrar.  A call is one run of                              *)
(*   fulfil    fulfilPurchasedDomains, from an activation of the paid invoice *)
(*   form      POST /api/hosting/domain-purchase-requests, hosting dashboard  *)
(*   staff     POST /api/admin/domains/:id/status                            *)
(*   backfill  what scripts/backfill-customer-domains.js does to one intake  *)
(* Rows are named after the call that created them.  Each request to Frappe  *)
(* and to the registrar is a step of its own.                                *)
EXTENDS Naturals, FiniteSetsExt

CONSTANTS
    Calls, KindOf,
    Wanted,         \* Wanted[c]: the status a staff call sets
    Scenarios,      \* the sets of calls a behaviour may consist of
    MaxMishaps,     \* bound on requests that fail
    None

Kinds == {"fulfil", "form", "staff", "backfill"}
Statuses == {"pending", "active", "failed", "expired", "cancelled"}
IntakeStatuses == {"pending", "connected", "rejected"}

ASSUME DomainAssumption ==
    /\ KindOf \in [Calls -> Kinds] /\ Wanted \in [Calls -> Statuses]
    /\ Scenarios \subseteq SUBSET Calls /\ MaxMishaps \in Nat /\ None \notin Calls

VARIABLES
    intake,     \* intake[r]: the status of the purchase request r, or "none"
    domain,     \* domain[r]: the ownership record r
    owned,      \* the registrar has the name registered for us
    call,       \* call[c]: where a call is, the intake and the record it is about, the status it read
    overlaps,   \* the calls that ran beside another one (history)
    mishaps

vars == <<intake, domain, owned, call, overlaps, mishaps>>

NoRecord == [status |-> "none", source |-> None, attached |-> FALSE]
At(at) == [at |-> at, request |-> None, record |-> None, read |-> "none"]

Init ==
    /\ intake = [r \in Calls |-> "none"]
    /\ domain = [r \in Calls |-> NoRecord]
    /\ owned = FALSE
    /\ \E scenario \in Scenarios : call = [c \in Calls |-> At(IF c \in scenario THEN "start" ELSE "over")]
    /\ overlaps = {}
    /\ mishaps = 0

Intakes == {r \in Calls : intake[r] # "none"}
Records == {r \in Calls : domain[r].status # "none"}

Fail == mishaps < MaxMishaps /\ mishaps' = mishaps + 1
Goto(c, at) == call' = [call EXCEPT ![c].at = at]
Goes(c, at, request, record, read) ==
    call' = [call EXCEPT ![c] = [at |-> at, request |-> request, record |-> record, read |-> read]]
End(c) == call' = [call EXCEPT ![c] = At("over")]
Underway == {c \in Calls : call[c].at \notin {"start", "over"}}

\* A request throws, with or without its write done, and the call ends.
Throws(c, write, nothing) == Fail /\ End(c) /\ (write \/ nothing)

----------------------------------------------------------------------------
(* Coming in *)

\* Activations of one account wait for the account's lock.
MayBeginAtOnce(c) == TRUE \* mutant
MayBegin(c) == KindOf[c] = "fulfil" => \A d \in Underway : KindOf[d] # "fulfil"

First(c) == CASE KindOf[c] = "fulfil" -> "findRequest" [] KindOf[c] = "form" -> "request"
              [] KindOf[c] = "staff" -> "readRecord" [] KindOf[c] = "backfill" -> "readIntake"

Begin(c) ==
    /\ call[c].at = "start" /\ MayBegin(c)
    /\ Goto(c, First(c))
    /\ overlaps' = IF Underway = {} THEN overlaps ELSE overlaps \cup Underway \cup {c}
    /\ UNCHANGED <<intake, domain, owned, mishaps>>

----------------------------------------------------------------------------
(* Intake rows *)

\* findExistingPurchaseRequest: any row of the name will do.
FindRequest(c) ==
    /\ call[c].at = "findRequest"
    /\ \/ /\ UNCHANGED mishaps
          /\ \/ Intakes = {} /\ Goto(c, "request")
             \/ \E r \in Intakes : Goes(c, "ensure", r, None, "none")
       \/ Fail /\ End(c)
    /\ UNCHANGED <<intake, domain, owned, overlaps>>

\* The form makes a row every time.
MakeRequest(c) ==
    LET made == intake' = [intake EXCEPT ![c] = "pending"]
    IN  /\ call[c].at = "request"
        /\ \/ made /\ Goes(c, "ensure", c, None, "none") /\ UNCHANGED mishaps
           \/ Throws(c, made, UNCHANGED intake)
        /\ UNCHANGED <<domain, owned, overlaps>>

\* domainStatusForIntakeStatus
FromIntake(status) == CASE status = "connected" -> "active" [] status = "rejected" -> "failed" [] OTHER -> "pending"

\* The backfill goes through the intake rows as it listed them.
ReadIntake(c) ==
    /\ call[c].at = "readIntake"
    /\ UNCHANGED mishaps
    /\ \/ Intakes = {} /\ End(c)
       \/ \E r \in Intakes : Goes(c, "ensure", r, None, FromIntake(intake[r]))
    /\ UNCHANGED <<intake, domain, owned, overlaps>>

----------------------------------------------------------------------------
(* Ownership records *)

AfterEnsureUnlessActive(c, r, status) == \* mutant
    IF KindOf[c] = "fulfil" /\ status # "active"
    THEN Goes(c, "register", call[c].request, r, "none") ELSE End(c)

\* What comes after ensureCustomerDomain answered with record r.
AfterEnsure(c, r, status) ==
    CASE KindOf[c] = "fulfil" /\ status = "pending" ->
           Goes(c, "register", call[c].request, r, "none")
      [] KindOf[c] = "backfill" /\ r # c /\ status = "pending" /\ ~domain[r].attached ->
           Goes(c, "reconcile", call[c].request, r, call[c].read)
      [] OTHER -> End(c)

\* ensureCustomerDomain: look the name up ...
FindRecord(c) ==
    /\ call[c].at = "ensure"
    /\ \/ /\ UNCHANGED mishaps
          /\ \/ Records = {} /\ Goto(c, "record")
             \/ \E r \in Records : AfterEnsure(c, r, domain[r].status)
       \/ Fail /\ End(c)
    /\ UNCHANGED <<intake, domain, owned, overlaps>>

\* ... and create it.  The form attaches it to the hosting service.
MakeRecord(c) ==
    LET status == IF KindOf[c] = "backfill" THEN call[c].read ELSE "pending"
        made == domain' = [domain EXCEPT ![c] =
                   [status |-> status, source |-> call[c].request, attached |-> KindOf[c] # "fulfil"]]
    IN  /\ call[c].at = "record"
        /\ \/ made /\ AfterEnsure(c, c, status) /\ UNCHANGED mishaps
           \/ Throws(c, made, UNCHANGED domain)
        /\ UNCHANGED <<intake, owned, overlaps>>

\* A record found pending and unattached takes the intake's status, if that says
\* more, and its service.
Reconcile(c) ==
    LET r == call[c].record
        status == IF call[c].read = "pending" THEN domain[r].status ELSE call[c].read
        written == domain' = [domain EXCEPT ![r] = [status |-> status, source |-> @.source, attached |-> TRUE]]
    IN  /\ call[c].at = "reconcile"
        /\ \/ written /\ End(c) /\ UNCHANGED mishaps
           \/ Throws(c, written, UNCHANGED domain)
        /\ UNCHANGED <<intake, owned, overlaps>>

\* attemptLiveRegistration: the TLD is not sold, or a check before the purchase
\* fails; or the purchase is made, which the registrar refuses for a taken name.
Register(c) ==
    /\ call[c].at = "register"
    /\ \/ End(c) /\ UNCHANGED <<owned, mishaps>>
       \/ ~owned /\ owned' = TRUE /\ Goto(c, "activate") /\ UNCHANGED mishaps
       \/ ~owned /\ Throws(c, owned' = TRUE, UNCHANGED owned)
    /\ UNCHANGED <<intake, domain, overlaps>>

\* The record becomes active, whatever it has become meanwhile.
Activate(c) ==
    LET written == domain' = [domain EXCEPT ![call[c].record].status = "active"]
    IN  /\ call[c].at = "activate"
        /\ \/ written /\ Goes(c, "sync", call[c].request, call[c].record, "active") /\ UNCHANGED mishaps
           \/ Throws(c, written, UNCHANGED domain)
        /\ UNCHANGED <<intake, owned, overlaps>>

Transitions == [pending |-> {"active", "failed", "cancelled"}, failed |-> {"pending", "active", "cancelled"},
                active |-> {"expired", "cancelled"}, expired |-> {"active", "cancelled"}, cancelled |-> {}]
CanTransition(from, to) == to \in Transitions[from]

\* Staff act on the row they read ...
ReadRecord(c) ==
    /\ call[c].at = "readRecord"
    /\ UNCHANGED mishaps
    /\ \/ /\ \A r \in Records : ~CanTransition(domain[r].status, Wanted[c])
          /\ End(c)
       \/ \E r \in Records :
             /\ CanTransition(domain[r].status, Wanted[c])
             /\ Goes(c, "decide", domain[r].source, r, "none")
    /\ UNCHANGED <<intake, domain, owned, overlaps>>

\* ... and write the decision.
Decide(c) ==
    LET written == domain' = [domain EXCEPT ![call[c].record].status = Wanted[c]]
    IN  /\ call[c].at = "decide"
        /\ \/ written /\ Goes(c, "sync", call[c].request, call[c].record, Wanted[c]) /\ UNCHANGED mishaps
           \/ Throws(c, written, UNCHANGED domain)
        /\ UNCHANGED <<intake, owned, overlaps>>

\* intakeStatusForDomainStatus: an expired domain leaves its intake alone.
ToIntake(status) == CASE status = "active" -> "connected" [] status \in {"failed", "cancelled"} -> "rejected"
                      [] OTHER -> "pending"

\* The outcome is pushed back onto the intake, if that works.
SyncIntake(c) ==
    /\ call[c].at = "sync"
    /\ End(c)
    /\ \/ /\ UNCHANGED mishaps
          /\ intake' = IF call[c].read = "expired" \/ call[c].request = None THEN intake
                       ELSE [intake EXCEPT ![call[c].request] = ToIntake(call[c].read)]
       \/ Fail /\ UNCHANGED intake
    /\ UNCHANGED <<domain, owned, overlaps>>

----------------------------------------------------------------------------

Step(c) ==
    \/ FindRequest(c) \/ MakeRequest(c) \/ ReadIntake(c)
    \/ FindRecord(c) \/ MakeRecord(c) \/ Reconcile(c) \/ Register(c) \/ Activate(c)
    \/ ReadRecord(c) \/ Decide(c) \/ SyncIntake(c)

Next == \E c \in Calls : Begin(c) \/ Step(c)

Spec == Init /\ [][Next]_vars

----------------------------------------------------------------------------
(* Properties *)

CallSteps == {"start", "findRequest", "request", "readIntake", "ensure", "record", "reconcile",
              "register", "activate", "readRecord", "decide", "sync", "over"}
Local == [at : CallSteps, request : Calls \cup {None}, record : Calls \cup {None}, read : Statuses \cup {"none"}]
Record == [status : Statuses \cup {"none"}, source : Calls \cup {None}, attached : BOOLEAN]

\* Intake rows, ownership records and calls hold the values their DocTypes and
\* handlers allow, and a record's source is an intake row that exists.
TypeOK ==
    /\ intake \in [Calls -> IntakeStatuses \cup {"none"}]
    /\ domain \in [Calls -> Record]
    /\ owned \in BOOLEAN /\ overlaps \subseteq Calls /\ mishaps \in 0 .. MaxMishaps
    /\ call \in [Calls -> Local]
    /\ \A r \in Records : domain[r].source \in Intakes

\* However often the invoice of a domain is activated, from whichever rail and
\* after whichever failed request, the activations together make at most one
\* purchase request and at most one ownership record for the name.
FulfilledOnce ==
    \A c, d \in {e \in Calls : KindOf[e] = "fulfil"} :
        /\ intake[c] # "none" /\ intake[d] # "none" => c = d
        /\ domain[c].status # "none" /\ domain[d].status # "none" => c = d

StaffAlone == \A c \in overlaps : KindOf[c] # "staff"

\* A cancelled domain stays cancelled (allowedTransitions has nothing from it):
\* no later activation, form or backfill revives it, as long as no staff
\* decision ran beside another call.
CancelledFinal ==
    [][\A r \in Calls : domain[r].status = "cancelled" /\ StaffAlone => domain'[r].status = "cancelled"]_vars

=============================================================================
