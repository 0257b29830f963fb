----------------------- MODULE SubscriptionBillingProofs -----------------------
(* However many requests there are, whatever they ask for and whatever fails. *)
EXTENDS SubscriptionBilling, TLAPS

Needing == {"annual", "retire", "mark", "delete"}

\* A call holds on to an invoice that exists, and has one when it writes it.
FoundFit ==
    \A c \in Calls :
        /\ call[c].found \in Ids \cup {0}
        /\ call[c].at \in Needing => call[c].found # 0

Renewing == {"account", "term", "open", "bill"}

\* While requests keep off the invoices, what the sweep has read of them is so.
BillInv ==
    /\ sweep.at \in Renewing => sweep.latest \in Ids
    /\ sweep.at \in Renewing /\ since = {} => sweep.latest \in LatestPaid
    /\ sweep.at \in {"open", "bill"} /\ since = {} => now >= invoices[sweep.latest].date + TermOf(sweep.latest)
    /\ sweep.at = "bill" /\ "raised" \notin since => Open = {}

Quiet == since \cap {"paid", "raised", "deleted"} = {}
Owing == \E i \in Open : now > invoices[i].date + Grace

CutInv ==
    /\ sweep.at \in {"next", "cut"} /\ Quiet => sweep.todo \subseteq Open
    /\ sweep.at = "cut" /\ Quiet => Owing

IInv == TypeOK /\ FoundFit /\ BillInv /\ CutInv

\* What a step may do to the account.
FairCut == account'.suspended /\ ~account.suspended /\ Quiet => Owing

-----------------------------------------------------------------------------
(* The operators.                                                          *)

LEMMA AtLocal == \A at \in CallSteps : At(at) \in Local /\ At(at).at = at /\ At(at).found = 0
  BY DEF At, Local, NoRows, RowStatus, Terms

LEMMA OnLocal ==
  ASSUME NEW r \in Local, NEW at \in CallSteps
  PROVE  /\ On(r, at) \in Local /\ On(r, at).at = at
         /\ On(r, at).found \in {r.found, 0}
         /\ at # "over" => On(r, at).found = r.found
<1>1. CASE at = "over"
  BY <1>1, AtLocal DEF On
<1>2. CASE at # "over"
  <2>1. On(r, at) = [r EXCEPT !.at = at]
    BY <1>2 DEF On
  <2> QED
    BY <1>2, <2>1 DEF Local
<1> QED
  BY <1>1, <1>2

LEMMA ThrownLocal ==
  \A c \in Calls : Thrown(c) \in Local /\ Thrown(c).at \in {"start", "over"} /\ Thrown(c).found = 0
  BY AtLocal DEF Thrown, CallSteps

LEMMA IdleReading == Idle \in Reading /\ Idle.at = "idle" /\ Idle.todo = {}
  BY DEF Idle, Reading, SweepSteps, Terms, NoRows, RowStatus

LEMMA GoReading ==
  ASSUME NEW r \in Reading, NEW at \in SweepSteps, Go(r, at)
  PROVE  /\ sweep' \in Reading /\ sweep'.at = at
         /\ at \notin {"overdue", "idle"} =>
              /\ sweep'.latest = r.latest /\ sweep'.todo = r.todo /\ sweep'.term = r.term
<1>1. CASE at \in {"overdue", "idle"}
  <2>1. sweep' = [Idle EXCEPT !.at = at]
    BY <1>1 DEF Go
  <2> QED
    BY <1>1, <2>1, IdleReading DEF Reading
<1>2. CASE at \notin {"overdue", "idle"}
  <2>1. sweep' = [r EXCEPT !.at = at]
    BY <1>2 DEF Go
  <2> QED
    BY <2>1 DEF Reading
<1> QED
  BY <1>1, <1>2

LEMMA FailNat == mishaps \in Nat /\ (Fail \/ UNCHANGED mishaps) => mishaps' \in Nat
  BY DEF Fail

LEMMA IdsAre == invoices \in Seq(Document) => Ids = 1 .. Len(invoices) /\ Len(invoices) \in Nat
  BY DEF Ids

LEMMA Written ==
  ASSUME invoices \in Seq(Document), NEW i \in Ids, NEW doc \in Document,
         invoices' = [invoices EXCEPT ![i] = doc]
  PROVE  /\ invoices' \in Seq(Document) /\ Ids' = Ids /\ invoices'[i] = doc
         /\ \A k \in Ids : k # i => invoices'[k] = invoices[k]
  BY DEF Ids

LEMMA Added ==
  ASSUME invoices \in Seq(Document), NEW doc \in Document, invoices' = Append(invoices, doc)
  PROVE  /\ invoices' \in Seq(Document) /\ Ids' = Ids \cup {Len(invoices) + 1}
         /\ Len(invoices) + 1 \notin Ids
         /\ invoices'[Len(invoices) + 1] = doc
         /\ \A k \in Ids : invoices'[k] = invoices[k]
  BY DEF Ids

LEMMA InvoiceTyped ==
  ASSUME now \in Nat, NEW plan \in Plans \cup {"None"}, NEW term \in Terms, NEW lists \in SUBSET Services
  PROVE  Invoice(plan, term, lists) \in Document /\ Invoice(plan, term, lists).status = "Unpaid"
  BY DEF Invoice, Document

LEMMA DocumentIs ==
  ASSUME invoices \in Seq(Document), NEW i \in Ids
  PROVE  invoices[i] \in Document
  BY DEF Ids

LEMMA CallTyped == TypeOK => \A c \in Calls : call[c] \in Local /\ call[c].rows \in [Services -> RowStatus]
                                              /\ call[c].lists \in SUBSET Services /\ call[c].plan \in Plans \cup {"None"}
                                              /\ call[c].term \in Terms /\ call[c].at \in CallSteps
  BY DEF TypeOK, Local

-----------------------------------------------------------------------------
(* What the kinds of steps preserve.                                       *)

LEMMA ReadKeeps ==
  ASSUME IInv, NEW c \in Calls, NEW r \in Local, NEW at \in CallSteps, Read(c, r, at),
         r.found \in Ids \cup {0}, at \in Needing => r.found # 0
  PROVE  IInv' /\ FairCut
<1>1. UNCHANGED <<invoices, account, sweep, now, since>>
  BY DEF Read
<1>2. PICK next \in Local : /\ call' = [call EXCEPT ![c] = next] /\ next.found \in Ids \cup {0}
                            /\ next.at \in Needing => next.found # 0
  <2>0. /\ On(r, at) \in Local /\ On(r, at).at = at /\ On(r, at).found \in {r.found, 0}
        /\ at # "over" => On(r, at).found = r.found
    BY OnLocal
  <2>1. CASE call' = [call EXCEPT ![c] = On(r, at)]
    <3>1. On(r, at).found \in Ids \cup {0} /\ (at \in Needing => On(r, at).found # 0)
      BY <2>0 DEF Needing
    <3> QED
      BY <2>0, <2>1, <3>1
  <2>2. CASE call' = [call EXCEPT ![c] = Thrown(c)]
    BY <2>2, ThrownLocal DEF Needing
  <2> QED
    BY <2>1, <2>2 DEF Read
<1>3. mishaps' \in Nat
  BY FailNat DEF Read, IInv, TypeOK
<1>4. TypeOK'
  BY <1>1, <1>2, <1>3 DEF IInv, TypeOK
<1>5. FoundFit'
  BY <1>1, <1>2 DEF IInv, TypeOK, FoundFit, Ids
<1>6. BillInv'
  BY <1>1 DEF IInv, BillInv, Ids, LatestPaid, Paid, Open, TermOf
<1>7. CutInv'
  BY <1>1 DEF IInv, CutInv, Quiet, Owing, Ids, Open
<1>8. FairCut
  BY <1>1 DEF FairCut
<1> QED
  BY <1>4, <1>5, <1>6, <1>7, <1>8 DEF IInv

\* A write of the account that suspends nobody.
LEMMA PutAccountKeeps ==
  ASSUME IInv, NEW c \in Calls, NEW doc \in Account, NEW r \in Local, NEW at \in CallSteps,
         PutAccount(c, doc, r, at), doc.suspended => account.suspended,
         r.found \in Ids \cup {0}, at \in Needing => r.found # 0
  PROVE  IInv' /\ FairCut
<1>1. UNCHANGED <<invoices, sweep, now, since>>
  BY DEF PutAccount
<1>2. PICK o \in Outcomes : Answered(c, o, r, at) /\ account' = IF o = "dropped" THEN account ELSE doc
  BY DEF PutAccount
<1>3. PICK next \in Local : /\ call' = [call EXCEPT ![c] = next] /\ next.found \in Ids \cup {0}
                            /\ next.at \in Needing => next.found # 0
  <2>0. /\ On(r, at) \in Local /\ On(r, at).at = at /\ On(r, at).found \in {r.found, 0}
        /\ at # "over" => On(r, at).found = r.found
    BY OnLocal
  <2>1. CASE call' = [call EXCEPT ![c] = On(r, at)]
    <3>1. On(r, at).found \in Ids \cup {0} /\ (at \in Needing => On(r, at).found # 0)
      BY <2>0 DEF Needing
    <3> QED
      BY <2>0, <2>1, <3>1
  <2>2. CASE call' = [call EXCEPT ![c] = Thrown(c)]
    BY <2>2, ThrownLocal DEF Needing
  <2> QED
    BY <1>2, <2>1, <2>2 DEF Answered
<1>4. mishaps' \in Nat
  BY <1>2, FailNat DEF Answered, IInv, TypeOK
<1>5. account' \in Account /\ (account'.suspended => account.suspended)
  BY <1>2 DEF IInv, TypeOK
<1>6. TypeOK'
  BY <1>1, <1>3, <1>4, <1>5 DEF IInv, TypeOK
<1>7. FoundFit'
  BY <1>1, <1>3 DEF IInv, TypeOK, FoundFit, Ids
<1>8. BillInv'
  BY <1>1 DEF IInv, BillInv, Ids, LatestPaid, Paid, Open, TermOf
<1>9. CutInv'
  BY <1>1 DEF IInv, CutInv, Quiet, Owing, Ids, Open
<1>10. FairCut
  BY <1>5 DEF FairCut
<1> QED
  BY <1>6, <1>7, <1>8, <1>9, <1>10 DEF IInv

\* A write of an invoice that is told of in since, and does not open one
\* unless it says so.
LEMMA PutInvoiceKeeps ==
  ASSUME IInv, NEW c \in Calls, NEW i \in Ids \cup {Len(invoices) + 1}, NEW doc \in Document,
         NEW what \in {"paid", "raised", "deleted", "term"}, NEW r \in Local, NEW at \in CallSteps,
         PutInvoice(c, i, doc, what, r, at),
         what # "raised" => /\ i \in Ids /\ doc.date = invoices[i].date
                            /\ doc.status = "Unpaid" => invoices[i].status = "Unpaid",
         what = "term" => doc.status = invoices[i].status,
         r.found \in Ids \cup {0, i}, at \in Needing => r.found # 0
  PROVE  IInv' /\ FairCut
<1> USE DEF IInv
<1>0. invoices \in Seq(Document)
  BY DEF TypeOK
<1>1. UNCHANGED <<account, sweep, now>>
  BY DEF PutInvoice
<1>2. PICK o \in Outcomes :
        /\ Answered(c, o, r, at)
        /\ IF o = "dropped" THEN UNCHANGED <<invoices, since>>
           ELSE /\ invoices' = IF i \in Ids THEN [invoices EXCEPT ![i] = doc] ELSE Append(invoices, doc)
                /\ since' = since \cup {what}
  BY DEF PutInvoice
<1>3. invoices' # invoices \/ o = "ok" => o # "dropped"
  BY <1>2
<1>4. /\ invoices' \in Seq(Document) /\ Ids \subseteq Ids'
      /\ o = "ok" => i \in Ids'
      /\ \A k \in Ids : k # i => invoices'[k] = invoices[k]
      /\ o # "dropped" => invoices'[i] = doc
      /\ i \in Ids => Ids' = Ids
  <2>1. CASE o = "dropped"
    BY <1>0, <1>2, <2>1 DEF Ids
  <2>2. CASE o # "dropped" /\ i \in Ids
    <3>1. invoices' = [invoices EXCEPT ![i] = doc]
      BY <1>2, <2>2
    <3> QED
      BY <1>0, <2>2, <3>1, Written
  <2>3. CASE o # "dropped" /\ i \notin Ids
    <3>1. invoices' = Append(invoices, doc) /\ i = Len(invoices) + 1
      BY <1>2, <2>3
    <3> QED
      BY <1>0, <2>3, <3>1, Added
  <2> QED
    BY <2>1, <2>2, <2>3
<1>5. PICK next \in Local : /\ call' = [call EXCEPT ![c] = next] /\ next.found \in Ids' \cup {0}
                            /\ next.at \in Needing => next.found # 0
  <2>1. CASE o = "ok"
    <3>1. call' = [call EXCEPT ![c] = On(r, at)]
      BY <1>2, <2>1 DEF Answered
    <3>2. /\ On(r, at) \in Local /\ On(r, at).at = at /\ On(r, at).found \in {r.found, 0}
          /\ at # "over" => On(r, at).found = r.found
      BY OnLocal
    <3>3. On(r, at).found \in Ids' \cup {0} /\ (at \in Needing => On(r, at).found # 0)
      BY <1>4, <2>1, <3>2 DEF Needing
    <3> QED
      BY <3>1, <3>2, <3>3
  <2>2. CASE o # "ok"
    <3>1. call' = [call EXCEPT ![c] = Thrown(c)]
      BY <1>2, <2>2 DEF Answered
    <3> QED
      BY <3>1, ThrownLocal DEF Needing
  <2> QED
    BY <2>1, <2>2
<1>6. mishaps' \in Nat
  BY <1>2, FailNat DEF Answered, TypeOK
<1>7. since' \subseteq {"paid", "raised", "deleted", "term"}
  BY <1>2 DEF TypeOK
<1>8. TypeOK'
  BY <1>1, <1>4, <1>5, <1>6, <1>7 DEF TypeOK
<1>9. FoundFit'
  BY <1>4, <1>5 DEF TypeOK, FoundFit
<1>10. CASE o = "dropped"
  <2>1. UNCHANGED <<invoices, sweep, now, since>>
    BY <1>1, <1>2, <1>10
  <2>2. BillInv'
    BY <2>1 DEF BillInv, Ids, LatestPaid, Paid, Open, TermOf
  <2>3. CutInv'
    BY <2>1 DEF CutInv, Quiet, Owing, Ids, Open
  <2> QED
    BY <1>1, <1>8, <1>9, <2>2, <2>3 DEF FairCut
<1>11. CASE o # "dropped"
  <2>1. since' = since \cup {what}
    BY <1>2, <1>11
  <2>2. what # "raised" => Open' \subseteq Open
    BY <1>4, <1>11 DEF Open
  <2>3. BillInv'
    <3>1. sweep.at \in Renewing => sweep.latest \in Ids'
      BY <1>4 DEF BillInv
    <3>2. since' # {}
      BY <2>1
    <3>3. sweep.at = "bill" /\ "raised" \notin since' => Open' = {}
      BY <2>1, <2>2 DEF BillInv
    <3> QED
      BY <1>1, <3>1, <3>2, <3>3 DEF BillInv
  <2>4. CutInv'
    <3>1. CASE what = "term"
      <4>1. Open' = Open /\ Quiet' = Quiet
        <5>1. \A k \in Ids : (invoices'[k].status = "Unpaid") <=> (invoices[k].status = "Unpaid")
          BY <1>4, <1>11, <3>1
        <5> QED
          BY <1>4, <2>1, <3>1, <5>1 DEF Open, Quiet
      <4>2. \A k \in Open : invoices'[k].date = invoices[k].date
        BY <1>4, <1>11, <3>1 DEF Open
      <4> QED
        BY <1>1, <4>1, <4>2 DEF CutInv, Owing
    <3>2. CASE what # "term"
      BY <2>1, <3>2 DEF CutInv, Quiet
    <3> QED
      BY <3>1, <3>2
  <2> QED
    BY <1>1, <1>8, <1>9, <2>3, <2>4 DEF FairCut
<1> QED
  BY <1>10, <1>11

-----------------------------------------------------------------------------
(* The requests.                                                           *)

LEMMA AskTyped ==
  \A c \in Calls : /\ Ask[c].services \in SUBSET Services /\ Ask[c].term \in Terms
                   /\ Ask[c].plan \in Plans \cup {"None"}
  BY BillingAssumption

LEMMA AccountTyped ==
  TypeOK => /\ account \in Account
            /\ account.plan \in Plans \cup {"None"} /\ account.rows \in [Services -> RowStatus]
            /\ account.suspended \in BOOLEAN
  BY DEF TypeOK, Account

\* What a request holds of an invoice stays as it was.
LEMMA HeldFits ==
  ASSUME IInv, NEW c \in Calls
  PROVE  call[c].found \in Ids \cup {0} /\ call[c].found \in Nat
  BY DEF IInv, FoundFit, TypeOK, Local

LEMMA OrderKeeps ==
  ASSUME IInv, NEW c \in Calls,
         PrepareStart(c) \/ PrepareKind(c) \/ PrepareTerm(c) \/ MergeRead(c) \/ MergeWrite(c) \/ Annual(c) \/ Link(c)
  PROVE  IInv' /\ FairCut
<1> USE CallTyped, AskTyped, AccountTyped, HeldFits
<1>0. TypeOK
  BY DEF IInv
<1>1. CASE PrepareStart(c)
  <2> DEFINE r == [call[c] EXCEPT !.plan = account.plan]
  <2>1. r \in Local /\ r.found = call[c].found
    BY <1>0 DEF Local
  <2>2. Read(c, r, "first")
    BY <1>1 DEF PrepareStart
  <2> HIDE DEF r
  <2> QED
    BY <2>1, <2>2, ReadKeeps DEF CallSteps, Needing
<1>2. CASE PrepareKind(c)
  <2>1. PICK at \in {"mergeRead", "term"} : Read(c, call[c], at)
    BY <1>2 DEF PrepareKind
  <2> QED
    BY <1>0, <2>1, ReadKeeps DEF CallSteps, Needing
<1>3. CASE PrepareTerm(c)
  <2> DEFINE r == [call[c] EXCEPT !.term = IF Paid = {} THEN Ask[c].term ELSE "monthly", !.lists = Ask[c].services]
  <2>1. r \in Local /\ r.found = call[c].found
    BY <1>0 DEF Local, Terms
  <2>2. Read(c, r, "apply")
    BY <1>3 DEF PrepareTerm
  <2> HIDE DEF r
  <2> QED
    BY <2>1, <2>2, ReadKeeps DEF CallSteps, Needing
<1>4. CASE MergeRead(c)
  <2> DEFINE r == [call[c] EXCEPT !.rows = account.rows]
  <2>1. r \in Local /\ r.found = call[c].found
    BY <1>0 DEF Local
  <2>2. Read(c, r, "mergeWrite")
    BY <1>4 DEF MergeRead
  <2> HIDE DEF r
  <2> QED
    BY <2>1, <2>2, ReadKeeps DEF CallSteps, Needing
<1>5. CASE MergeWrite(c)
  <2> DEFINE doc == [account EXCEPT !.rows = Merged(call[c].rows, Ask[c].services)]
             at == IF call[c].found = 0 THEN "over" ELSE IF call[c].term = "annual" THEN "annual" ELSE "link"
  <2>1. Merged(call[c].rows, Ask[c].services) \in [Services -> RowStatus]
    BY <1>0 DEF Merged, RowStatus
  <2>2. doc \in Account /\ (doc.suspended => account.suspended)
    BY <1>0, <2>1 DEF Account
  <2>3. at \in CallSteps /\ (at \in Needing => call[c].found # 0)
    BY DEF CallSteps, Needing
  <2>4. PutAccount(c, doc, call[c], at)
    BY <1>5 DEF MergeWrite
  <2> HIDE DEF doc, at
  <2> QED
    BY <1>0, <2>2, <2>3, <2>4, PutAccountKeeps
<1>6. CASE Annual(c)
  <2> DEFINE i == call[c].found
             doc == [invoices[i] EXCEPT !.term = "annual"]
  <2>1. i \in Ids
    BY <1>6 DEF Annual, IInv, FoundFit, Needing
  <2>2. doc \in Document /\ doc.status = invoices[i].status /\ doc.date = invoices[i].date
    <3>1. invoices[i] \in Document
      BY <1>0, <2>1, DocumentIs DEF TypeOK
    <3> QED
      BY <3>1 DEF Document, Terms
  <2>3. PutInvoice(c, i, doc, "term", call[c], "link")
    BY <1>6 DEF Annual
  <2> HIDE DEF i, doc
  <2>4. call[c] \in Local /\ call[c].found \in Ids \cup {0, i}
    BY <1>0
  <2> QED
    BY <2>1, <2>2, <2>3, <2>4, PutInvoiceKeeps DEF CallSteps, Needing
<1>7. CASE Link(c)
  BY <1>0, <1>7, ReadKeeps DEF Link, CallSteps, Needing
<1> QED
  BY <1>1, <1>2, <1>3, <1>4, <1>5, <1>6, <1>7

LEMMA ApplyKeeps ==
  ASSUME IInv, NEW c \in Calls, ApplyRead(c) \/ ApplyPlan(c) \/ FindOpen(c) \/ Raise(c)
  PROVE  IInv' /\ FairCut
<1> USE CallTyped, AskTyped, AccountTyped, HeldFits
<1>0. TypeOK
  BY DEF IInv
<1>1. CASE ApplyRead(c)
  <2>1. PICK at \in {"applyPlan", "open"} : Read(c, call[c], at)
    BY <1>1 DEF ApplyRead
  <2> QED
    BY <1>0, <2>1, ReadKeeps DEF CallSteps, Needing
<1>2. CASE ApplyPlan(c)
  <2> DEFINE doc == [account EXCEPT !.plan = Ask[c].plan, !.suspended = FALSE]
  <2>1. doc \in Account /\ ~doc.suspended
    BY <1>0 DEF Account
  <2>2. PutAccount(c, doc, call[c], "open")
    BY <1>2 DEF ApplyPlan
  <2> HIDE DEF doc
  <2> QED
    BY <1>0, <2>1, <2>2, PutAccountKeeps DEF CallSteps, Needing
<1>3. CASE FindOpen(c)
  <2>1. PICK i \in Ids \cup {0} : Read(c, [call[c] EXCEPT !.found = i], "raise")
    BY <1>3 DEF FindOpen, OfPlan, Open
  <2> DEFINE r == [call[c] EXCEPT !.found = i]
  <2>2. r \in Local /\ r.found = i
    <3>1. i \in Nat
      BY <1>0, IdsAre DEF TypeOK
    <3> QED
      BY <1>0, <3>1 DEF Local
  <2>3. Read(c, r, "raise")
    BY <2>1
  <2> HIDE DEF r
  <2> QED
    BY <2>2, <2>3, ReadKeeps DEF CallSteps, Needing
<1>4. CASE Raise(c)
  <2> DEFINE i == IF call[c].found # 0 THEN call[c].found ELSE Len(invoices) + 1
             old == IF call[c].found # 0 THEN invoices[i].term ELSE "monthly"
             doc == Invoice(Ask[c].plan, old, call[c].lists)
             r == [call[c] EXCEPT !.found = i]
             at == IF Ask[c].kind = "order" THEN "mergeRead" ELSE "over"
  <2>1. i \in Ids \cup {Len(invoices) + 1} /\ i \in Nat
    BY <1>0, IdsAre DEF TypeOK
  <2>2. old \in Terms
    <3>1. CASE call[c].found # 0
      BY <1>0, <3>1, DocumentIs DEF TypeOK, Document
    <3>2. CASE call[c].found = 0
      BY <3>2 DEF Terms
    <3> QED
      BY <3>1, <3>2
  <2>3. doc \in Document
    BY <1>0, <2>2, InvoiceTyped DEF TypeOK
  <2>4. r \in Local /\ r.found = i
    BY <1>0, <2>1 DEF Local
  <2>5. at \in CallSteps /\ at \notin Needing
    BY DEF CallSteps, Needing
  <2>6. PutInvoice(c, i, doc, "raised", r, at)
    BY <1>4 DEF Raise
  <2> HIDE DEF i, old, doc, r, at
  <2> QED
    BY <2>1, <2>3, <2>4, <2>5, <2>6, PutInvoiceKeeps
<1> QED
  BY <1>1, <1>2, <1>3, <1>4

LEMMA RowsTyped ==
  ASSUME NEW rows \in [Services -> RowStatus], NEW services \in SUBSET Services
  PROVE  /\ Incoming(rows, services) \in [Services -> RowStatus]
         /\ \A incoming \in [Services -> RowStatus] : Over(rows, incoming) \in [Services -> RowStatus]
         /\ Activated(rows, services) \in [Services -> RowStatus]
         /\ CutOff(rows) \in [Services -> RowStatus]
         /\ OnAccount(rows) \in SUBSET Services
<1>1. Incoming(rows, services) \in [Services -> RowStatus]
  BY DEF Incoming, RowStatus
<1>2. \A incoming \in [Services -> RowStatus] : Over(rows, incoming) \in [Services -> RowStatus]
  BY DEF Over
<1>3. Activated(rows, services) \in [Services -> RowStatus]
  BY DEF Activated, RowStatus
<1>4. CutOff(rows) \in [Services -> RowStatus]
  BY DEF CutOff, RowStatus
<1>5. OnAccount(rows) \in SUBSET Services
  BY DEF OnAccount
<1> QED
  BY <1>1, <1>2, <1>3, <1>4, <1>5

LEMMA DeletedFits ==
  ASSUME TypeOK, NEW i \in Ids, NEW status \in {"Paid", "Deleted"}
  PROVE  /\ [invoices[i] EXCEPT !.status = status] \in Document
         /\ [invoices[i] EXCEPT !.status = status].status = status
         /\ [invoices[i] EXCEPT !.status = status].date = invoices[i].date
<1>1. invoices[i] \in Document
  BY DocumentIs DEF TypeOK
<1> QED
  BY <1>1 DEF Document

LEMMA AttachKeeps ==
  ASSUME IInv, NEW c \in Calls,
         \/ AttachStart(c) \/ AttachTerm(c) \/ AttachAccount(c) \/ AttachOldPlan(c) \/ AttachOldOpen(c)
         \/ Retire(c) \/ AttachRows(c)
  PROVE  IInv' /\ FairCut
<1> USE CallTyped, AskTyped, AccountTyped, HeldFits
<1>0. TypeOK
  BY DEF IInv
<1>1. CASE AttachStart(c)
  <2>1. PICK i \in Ids \cup {0} : \E at \in {"account", "locked"} : Read(c, [call[c] EXCEPT !.found = i], at)
    BY <1>1 DEF AttachStart, LatestPaid, Paid
  <2>2. PICK at \in {"account", "locked"} : Read(c, [call[c] EXCEPT !.found = i], at)
    BY <2>1
  <2> DEFINE r == [call[c] EXCEPT !.found = i]
  <2>3. r \in Local /\ r.found = i
    <3>1. i \in Nat
      BY <1>0, IdsAre DEF TypeOK
    <3> QED
      BY <1>0, <3>1 DEF Local
  <2>4. Read(c, r, at)
    BY <2>2
  <2> HIDE DEF r
  <2> QED
    BY <2>3, <2>4, ReadKeeps DEF CallSteps, Needing
<1>2. CASE AttachTerm(c)
  <2> DEFINE r == [call[c] EXCEPT !.found = 0]
  <2>1. PICK at \in {"over", "account"} : Read(c, r, at)
    BY <1>2 DEF AttachTerm
  <2>2. r \in Local /\ r.found = 0
    BY <1>0 DEF Local
  <2> HIDE DEF r
  <2> QED
    BY <2>1, <2>2, ReadKeeps DEF CallSteps, Needing
<1>3. CASE AttachAccount(c)
  <2> DEFINE read == [call[c] EXCEPT !.plan = account.plan, !.rows = account.rows]
             over == [read EXCEPT !.rows = Over(@, Incoming(@, Ask[c].services))]
  <2>1. read \in Local /\ read.found = call[c].found /\ read.rows = account.rows
    BY <1>0 DEF Local
  <2>2. over \in Local /\ over.found = call[c].found
    <3>1. Over(read.rows, Incoming(read.rows, Ask[c].services)) \in [Services -> RowStatus]
      BY <1>0, <2>1, RowsTyped
    <3> HIDE DEF read
    <3> QED
      BY <2>1, <3>1 DEF Local
  <2>3. Read(c, over, "rows") \/ Read(c, read, "over") \/ Read(c, read, "oldPlan")
    BY <1>3 DEF AttachAccount
  <2> HIDE DEF read, over
  <2>4. CASE Read(c, over, "rows")
    BY <2>2, <2>4, ReadKeeps DEF CallSteps, Needing
  <2>5. CASE Read(c, read, "over")
    BY <2>1, <2>5, ReadKeeps DEF CallSteps, Needing
  <2>6. CASE Read(c, read, "oldPlan")
    BY <2>1, <2>6, ReadKeeps DEF CallSteps, Needing
  <2> QED
    BY <2>3, <2>4, <2>5, <2>6
<1>4. CASE AttachOldPlan(c)
  <2> DEFINE new == Incoming(call[c].rows, Ask[c].services)
  <2>1. new \in [Services -> RowStatus] /\ Over(call[c].rows, new) \in [Services -> RowStatus]
    BY <1>0, RowsTyped
  <2>2. PICK rows \in [Services -> RowStatus], at \in {"oldOpen", "rows"} :
          Read(c, [call[c] EXCEPT !.rows = rows], at)
    <3>1. CASE OfPlan(Paid, call[c].plan) = {}
      BY <1>4, <2>1, <3>1 DEF AttachOldPlan
    <3>2. CASE OfPlan(Paid, call[c].plan) # {} /\ Ask[c].mode = "retain"
      <4>1. Read(c, [call[c] EXCEPT !.rows = Over(@, new)], "rows")
        BY <1>4, <3>2 DEF AttachOldPlan
      <4>2. Read(c, [call[c] EXCEPT !.rows = Over(call[c].rows, new)], "rows")
        BY <4>1
      <4> HIDE DEF new
      <4> QED
        BY <2>1, <4>2
    <3>3. CASE OfPlan(Paid, call[c].plan) # {} /\ Ask[c].mode # "retain"
      <4>1. Read(c, [call[c] EXCEPT !.rows = new], "rows")
        BY <1>4, <3>3 DEF AttachOldPlan
      <4> HIDE DEF new
      <4> QED
        BY <2>1, <4>1
    <3> QED
      BY <3>1, <3>2, <3>3
  <2> DEFINE r == [call[c] EXCEPT !.rows = rows]
  <2>3. r \in Local /\ r.found = call[c].found
    BY <1>0 DEF Local
  <2>4. Read(c, r, at)
    BY <2>2
  <2> HIDE DEF r
  <2> QED
    BY <2>3, <2>4, ReadKeeps DEF CallSteps, Needing
<1>5. CASE AttachOldOpen(c)
  <2>1. PICK i \in Ids \cup {0} : Read(c, [call[c] EXCEPT !.found = i], IF i = 0 THEN "rows" ELSE "retire")
    BY <1>5 DEF AttachOldOpen, OfPlan, Open
  <2> DEFINE r == [call[c] EXCEPT !.found = i]
             at == IF i = 0 THEN "rows" ELSE "retire"
  <2>2. r \in Local /\ r.found = i
    <3>1. i \in Nat
      BY <1>0, IdsAre DEF TypeOK
    <3> QED
      BY <1>0, <3>1 DEF Local
  <2>3. Read(c, r, at)
    BY <2>1
  <2>4. at \in CallSteps /\ (at \in Needing => i # 0)
    BY DEF CallSteps, Needing
  <2> HIDE DEF r, at
  <2> QED
    BY <2>2, <2>3, <2>4, ReadKeeps
<1>6. CASE Retire(c)
  <2> DEFINE i == call[c].found
             doc == [invoices[i] EXCEPT !.status = "Deleted"]
             r == [call[c] EXCEPT !.found = 0]
  <2>1. i \in Ids
    BY <1>6 DEF Retire, IInv, FoundFit, Needing
  <2>2. doc \in Document /\ doc.status = "Deleted" /\ doc.date = invoices[i].date
    BY <1>0, <2>1, DeletedFits
  <2>3. r \in Local /\ r.found = 0
    BY <1>0 DEF Local
  <2>4. PutInvoice(c, i, doc, "deleted", r, "rows")
    BY <1>6 DEF Retire
  <2> HIDE DEF i, doc, r
  <2> QED
    BY <2>1, <2>2, <2>3, <2>4, PutInvoiceKeeps DEF CallSteps, Needing
<1>7. CASE AttachRows(c)
  <2> DEFINE doc == [plan |-> Ask[c].plan, suspended |-> FALSE, rows |-> call[c].rows]
             r == [call[c] EXCEPT !.lists = OnAccount(call[c].rows)]
  <2>1. doc \in Account /\ ~doc.suspended
    BY <1>0 DEF Account
  <2>2. r \in Local /\ r.found = call[c].found
    BY <1>0 DEF Local, OnAccount
  <2>3. PutAccount(c, doc, r, "apply")
    BY <1>7 DEF AttachRows
  <2> HIDE DEF doc, r
  <2> QED
    BY <2>1, <2>2, <2>3, PutAccountKeeps DEF CallSteps, Needing
<1> QED
  BY <1>1, <1>2, <1>3, <1>4, <1>5, <1>6, <1>7

LEMMA PayKeeps ==
  ASSUME IInv, NEW c \in Calls,
         PayStart(c) \/ MarkPaid(c) \/ PayRead(c) \/ PayWrite(c) \/ DeleteStart(c) \/ Delete(c)
  PROVE  IInv' /\ FairCut
<1> USE CallTyped, AskTyped, AccountTyped, HeldFits
<1>0. TypeOK
  BY DEF IInv
<1>1. CASE PayStart(c)
  <2>1. PICK i \in Open : Read(c, [call[c] EXCEPT !.found = i, !.lists = invoices[i].lists], "mark")
    BY <1>1 DEF PayStart
  <2> DEFINE r == [call[c] EXCEPT !.found = i, !.lists = invoices[i].lists]
  <2>2. i \in Ids /\ i # 0 /\ i \in Nat
    BY <1>0, IdsAre DEF Open, TypeOK
  <2>3. invoices[i].lists \in SUBSET Services
    BY <1>0, <2>2, DocumentIs DEF TypeOK, Document
  <2>4. r \in Local /\ r.found = i
    BY <1>0, <2>2, <2>3 DEF Local
  <2>5. Read(c, r, "mark")
    BY <2>1
  <2> HIDE DEF r
  <2> QED
    BY <2>2, <2>4, <2>5, ReadKeeps DEF CallSteps, Needing
<1>2. CASE MarkPaid(c)
  <2> DEFINE i == call[c].found
             doc == [invoices[i] EXCEPT !.status = "Paid"]
  <2>1. i \in Ids
    BY <1>2 DEF MarkPaid, IInv, FoundFit, Needing
  <2>2. doc \in Document /\ doc.status = "Paid" /\ doc.date = invoices[i].date
    BY <1>0, <2>1, DeletedFits
  <2>3. PutInvoice(c, i, doc, "paid", call[c], "rowsRead")
    BY <1>2 DEF MarkPaid
  <2>4. call[c] \in Local /\ call[c].found \in Ids \cup {0, i}
    BY <1>0
  <2> HIDE DEF i, doc
  <2> QED
    BY <2>1, <2>2, <2>3, <2>4, PutInvoiceKeeps DEF CallSteps, Needing
<1>3. CASE PayRead(c)
  <2> DEFINE r == [call[c] EXCEPT !.rows = account.rows]
  <2>1. r \in Local /\ r.found = call[c].found
    BY <1>0 DEF Local
  <2>2. Read(c, r, "rowsWrite")
    BY <1>3 DEF PayRead
  <2> HIDE DEF r
  <2> QED
    BY <2>1, <2>2, ReadKeeps DEF CallSteps, Needing
<1>4. CASE PayWrite(c)
  <2> DEFINE doc == [account EXCEPT !.rows = Activated(call[c].rows, call[c].lists), !.suspended = FALSE]
  <2>1. Activated(call[c].rows, call[c].lists) \in [Services -> RowStatus]
    BY <1>0, RowsTyped
  <2>2. doc \in Account /\ ~doc.suspended
    BY <1>0, <2>1 DEF Account
  <2>3. PutAccount(c, doc, call[c], "over")
    BY <1>4 DEF PayWrite
  <2> HIDE DEF doc
  <2> QED
    BY <1>0, <2>2, <2>3, PutAccountKeeps DEF CallSteps, Needing
<1>5. CASE DeleteStart(c)
  <2>1. PICK i \in Open : Read(c, [call[c] EXCEPT !.found = i], "delete")
    BY <1>5 DEF DeleteStart
  <2> DEFINE r == [call[c] EXCEPT !.found = i]
  <2>2. i \in Ids /\ i # 0 /\ i \in Nat
    BY <1>0, IdsAre DEF Open, TypeOK
  <2>3. r \in Local /\ r.found = i
    BY <1>0, <2>2 DEF Local
  <2>4. Read(c, r, "delete")
    BY <2>1
  <2> HIDE DEF r
  <2> QED
    BY <2>2, <2>3, <2>4, ReadKeeps DEF CallSteps, Needing
<1>6. CASE Delete(c)
  <2> DEFINE i == call[c].found
             doc == [invoices[i] EXCEPT !.status = "Deleted"]
  <2>1. i \in Ids
    BY <1>6 DEF Delete, IInv, FoundFit, Needing
  <2>2. doc \in Document /\ doc.status = "Deleted" /\ doc.date = invoices[i].date
    BY <1>0, <2>1, DeletedFits
  <2>3. PutInvoice(c, i, doc, "deleted", call[c], "over")
    BY <1>6 DEF Delete
  <2>4. call[c] \in Local /\ call[c].found \in Ids \cup {0, i}
    BY <1>0
  <2> HIDE DEF i, doc
  <2> QED
    BY <2>1, <2>2, <2>3, <2>4, PutInvoiceKeeps DEF CallSteps, Needing
<1> QED
  BY <1>1, <1>2, <1>3, <1>4, <1>5, <1>6

-----------------------------------------------------------------------------
(* The sweep.                                                              *)

\* A sweep that reads goes on with what it read, or keeps what it had and is
\* in the second part.
LEMMA SweepReadIs ==
  ASSUME TypeOK, NEW r \in Reading, NEW at \in SweepSteps, NEW thrown \in SweepSteps,
         SweepRead(r, at, thrown), since' \in SUBSET since
  PROVE  /\ TypeOK' /\ UNCHANGED <<invoices, account, call, now>>
         /\ \/ /\ sweep'.at = at
               /\ at \notin {"overdue", "idle"} =>
                    /\ sweep'.latest = r.latest /\ sweep'.todo = r.todo /\ sweep'.term = r.term
            \/ /\ sweep'.at = thrown
               /\ thrown \notin {"overdue", "idle"} => sweep'.todo = sweep.todo
<1>1. UNCHANGED <<invoices, account, call, now>> /\ mishaps' \in Nat
  BY FailNat DEF SweepRead, TypeOK
<1>2. /\ sweep' \in Reading
      /\ \/ /\ sweep'.at = at
            /\ at \notin {"overdue", "idle"} =>
                 /\ sweep'.latest = r.latest /\ sweep'.todo = r.todo /\ sweep'.term = r.term
         \/ /\ sweep'.at = thrown
            /\ thrown \notin {"overdue", "idle"} => sweep'.todo = sweep.todo
  <2>1. CASE Go(r, at)
    BY <2>1, GoReading
  <2>2. CASE Go(sweep, thrown)
    BY <2>2, GoReading DEF TypeOK
  <2> QED
    BY <2>1, <2>2 DEF SweepRead
<1>3. TypeOK'
  BY <1>1, <1>2 DEF TypeOK
<1> QED
  BY <1>1, <1>2, <1>3

LEMMA FoundStays == FoundFit /\ UNCHANGED <<invoices, call>> => FoundFit'
  BY DEF FoundFit, Ids

\* The account is not read to be cut off.
LEMMA NoCut == UNCHANGED account => FairCut
  BY DEF FairCut

LEMMA ListPaidKeeps == ASSUME IInv, ListPaid PROVE IInv' /\ FairCut
<1>0. TypeOK /\ sweep \in Reading /\ since' = {}
  BY DEF IInv, TypeOK, ListPaid
<1>1. CASE \E i \in LatestPaid : SweepRead([sweep EXCEPT !.latest = i], "account", "overdue")
  <2>1. PICK i \in LatestPaid : SweepRead([sweep EXCEPT !.latest = i], "account", "overdue")
    BY <1>1
  <2> DEFINE r == [sweep EXCEPT !.latest = i]
  <2>2. i \in Ids /\ i \in Nat
    BY <1>0, IdsAre DEF LatestPaid, Paid, TypeOK
  <2>3. r \in Reading /\ r.latest = i
    BY <1>0, <2>2 DEF Reading
  <2>4. SweepRead(r, "account", "overdue")
    BY <2>1
  <2> HIDE DEF r
  <2>5. /\ TypeOK' /\ UNCHANGED <<invoices, account, call, now>>
        /\ \/ sweep'.at = "account" /\ sweep'.latest = i
           \/ sweep'.at = "overdue"
    BY <1>0, <2>3, <2>4, SweepReadIs DEF SweepSteps
  <2>6. BillInv'
    BY <1>0, <2>2, <2>5 DEF BillInv, Renewing, Ids, LatestPaid, Paid
  <2>7. CutInv'
    BY <2>5 DEF CutInv
  <2> QED
    BY <2>5, <2>6, <2>7, FoundStays, NoCut DEF IInv
<1>2. CASE SweepRead(sweep, "overdue", "overdue")
  <2>1. /\ TypeOK' /\ UNCHANGED <<invoices, account, call, now>>
        /\ sweep'.at = "overdue"
    BY <1>0, <1>2, SweepReadIs DEF SweepSteps
  <2>2. BillInv' /\ CutInv'
    BY <2>1 DEF BillInv, CutInv, Renewing
  <2> QED
    BY <2>1, <2>2, FoundStays, NoCut DEF IInv
<1> QED
  BY <1>1, <1>2 DEF ListPaid

LEMMA RenewKeeps == ASSUME IInv, RenewAccount \/ RenewTerm \/ RenewOpen PROVE IInv' /\ FairCut
<1>0. TypeOK /\ sweep \in Reading /\ since' = since
  BY DEF IInv, TypeOK, RenewAccount, RenewTerm, RenewOpen
<1>1. CASE RenewAccount
  <2> DEFINE r == [sweep EXCEPT !.plan = account.plan, !.rows = account.rows]
  <2>1. r \in Reading /\ r.latest = sweep.latest
    BY <1>0, AccountTyped DEF Reading
  <2>2. SweepRead(r, "term", "overdue")
    BY <1>1 DEF RenewAccount
  <2> HIDE DEF r
  <2>3. /\ TypeOK' /\ UNCHANGED <<invoices, account, call, now>>
        /\ \/ sweep'.at = "term" /\ sweep'.latest = sweep.latest
           \/ sweep'.at = "overdue"
    BY <1>0, <2>1, <2>2, SweepReadIs DEF SweepSteps
  <2>4. sweep.at = "account"
    BY <1>1 DEF RenewAccount
  <2>5. BillInv'
    BY <1>0, <2>3, <2>4 DEF IInv, BillInv, Renewing, Ids, LatestPaid, Paid
  <2>6. CutInv'
    BY <2>3 DEF CutInv
  <2> QED
    BY <2>3, <2>5, <2>6, FoundStays, NoCut DEF IInv
<1>2. CASE RenewTerm
  <2> DEFINE term == invoices[sweep.latest].term
             r == [sweep EXCEPT !.term = term]
             at == IF IsDue(sweep.latest, CycleFor(term)) THEN "open" ELSE "overdue"
  <2>0. sweep.at = "term"
    BY <1>2 DEF RenewTerm
  <2>1. sweep.latest \in Ids
    BY <2>0 DEF IInv, BillInv, Renewing
  <2>2. invoices[sweep.latest] \in Document
    BY <1>0, <2>1, DocumentIs DEF TypeOK
  <2>3. term \in Terms
    BY <2>2 DEF Document
  <2>4. r \in Reading /\ r.latest = sweep.latest
    BY <1>0, <2>3 DEF Reading
  <2>5. SweepRead(r, at, "overdue")
    BY <1>2 DEF RenewTerm
  <2>6. at \in {"open", "overdue"} /\ (at = "open" => now >= invoices[sweep.latest].date + TermOf(sweep.latest))
    <3>1. now \in Nat /\ invoices[sweep.latest].date \in Nat /\ CycleFor(term) \in Nat
      BY <1>0, <2>2, BillingAssumption DEF TypeOK, Document, CycleFor
    <3>2. CycleFor(term) = TermOf(sweep.latest)
      BY DEF CycleFor, TermOf
    <3> HIDE DEF term
    <3> QED
      BY <3>1, <3>2 DEF IsDue
  <2> HIDE DEF term, r, at
  <2>7. /\ TypeOK' /\ UNCHANGED <<invoices, account, call, now>>
        /\ \/ sweep'.at = "open" /\ at = "open" /\ sweep'.latest = sweep.latest
           \/ sweep'.at = "overdue"
    BY <1>0, <2>4, <2>5, <2>6, SweepReadIs DEF SweepSteps
  <2>8. BillInv'
    BY <1>0, <2>0, <2>6, <2>7 DEF IInv, BillInv, Renewing, Ids, LatestPaid, Paid, TermOf
  <2>9. CutInv'
    BY <2>7 DEF CutInv
  <2> QED
    BY <2>7, <2>8, <2>9, FoundStays, NoCut DEF IInv
<1>3. CASE RenewOpen
  <2>1. PICK at \in {"bill", "overdue"} : SweepRead(sweep, at, "overdue") /\ (at = "bill" => Open = {})
    BY <1>3 DEF RenewOpen, Blocking
  <2>2. /\ TypeOK' /\ UNCHANGED <<invoices, account, call, now>>
        /\ \/ sweep'.at = "bill" /\ at = "bill" /\ sweep'.latest = sweep.latest
           \/ sweep'.at = "overdue"
    BY <1>0, <2>1, SweepReadIs DEF SweepSteps
  <2>3. sweep.at = "open"
    BY <1>3 DEF RenewOpen
  <2>4. BillInv'
    BY <1>0, <2>1, <2>2, <2>3 DEF IInv, BillInv, Renewing, Ids, LatestPaid, Paid, TermOf, Open
  <2>5. CutInv'
    BY <2>2 DEF CutInv
  <2> QED
    BY <2>2, <2>4, <2>5, FoundStays, NoCut DEF IInv
<1> QED
  BY <1>1, <1>2, <1>3

LEMMA BillKeeps == ASSUME IInv, Bill PROVE IInv' /\ FairCut
<1> DEFINE doc == Invoice(sweep.plan, sweep.term, OnAccount(sweep.rows) \cap Renewable)
<1>0. TypeOK /\ sweep \in Reading
  BY DEF IInv, TypeOK
<1>1. UNCHANGED <<account, call, now, since>>
  BY DEF Bill
<1>2. mishaps' \in Nat
  BY <1>0, FailNat DEF Bill, TypeOK
<1>3. sweep' \in Reading /\ sweep'.at = "overdue"
  BY <1>0, GoReading DEF Bill, SweepSteps
<1>4. doc \in Document
  BY <1>0, InvoiceTyped DEF TypeOK, Reading, OnAccount
<1>5. invoices' \in Seq(Document) /\ Ids \subseteq Ids'
  <2>1. CASE invoices' = invoices
    BY <1>0, <2>1 DEF TypeOK, Ids
  <2>2. CASE invoices' = Append(invoices, doc)
    <3> HIDE DEF doc
    <3> QED
      BY <1>0, <1>4, <2>2, Added DEF TypeOK
  <2> QED
    BY <2>1, <2>2 DEF Bill
<1>6. TypeOK'
  BY <1>0, <1>1, <1>2, <1>3, <1>5 DEF TypeOK
<1>7. FoundFit'
  BY <1>1, <1>5 DEF IInv, FoundFit
<1>8. BillInv' /\ CutInv'
  BY <1>3 DEF BillInv, CutInv, Renewing
<1> QED
  BY <1>1, <1>6, <1>7, <1>8, NoCut DEF IInv

LEMMA OverdueKeeps == ASSUME IInv, ListOverdue \/ NextOverdue PROVE IInv' /\ FairCut
<1>0. TypeOK /\ sweep \in Reading
  BY DEF IInv, TypeOK
<1>1. CASE ListOverdue
  <2> DEFINE r == [Idle EXCEPT !.todo = Open]
  <2>1. r \in Reading /\ r.todo = Open
    <3>1. Open \in SUBSET Nat
      BY <1>0, IdsAre DEF Open, TypeOK
    <3> QED
      BY <3>1, IdleReading DEF Reading
  <2>2. SweepRead(r, "next", "idle") /\ since' = {}
    BY <1>1 DEF ListOverdue
  <2> HIDE DEF r
  <2>3. /\ TypeOK' /\ UNCHANGED <<invoices, account, call, now>>
        /\ \/ sweep'.at = "next" /\ sweep'.todo = Open
           \/ sweep'.at = "idle"
    BY <1>0, <2>1, <2>2, SweepReadIs DEF SweepSteps
  <2>4. BillInv' /\ CutInv'
    BY <2>3 DEF BillInv, CutInv, Renewing, Open, Ids
  <2> QED
    BY <2>3, <2>4, FoundStays, NoCut DEF IInv
<1>2. CASE NextOverdue
  <2>0. sweep.at = "next" /\ since' = since
    BY <1>2 DEF NextOverdue
  <2>1. PICK i \in sweep.todo :
          LET rest == [sweep EXCEPT !.todo = @ \ {i}]
          IN  IF PastGrace(i)
              THEN SweepRead([rest EXCEPT !.rows = account.rows], IF account.suspended THEN "next" ELSE "cut", "next")
              ELSE SweepRead(rest, "next", "next")
    BY <1>2 DEF NextOverdue
  <2> DEFINE rest == [sweep EXCEPT !.todo = @ \ {i}]
             read == [rest EXCEPT !.rows = account.rows]
  <2>2. rest \in Reading /\ rest.todo = sweep.todo \ {i}
    BY <1>0 DEF Reading
  <2>3. read \in Reading /\ read.todo = sweep.todo \ {i}
    <3> HIDE DEF rest
    <3> QED
      BY <1>0, <2>2, AccountTyped DEF Reading
  <2>4. PICK r \in {rest, read}, at \in {"next", "cut"} : SweepRead(r, at, "next") /\ (at = "cut" => PastGrace(i))
    <3> HIDE DEF rest, read
    <3>1. CASE PastGrace(i)
      <4>1. SweepRead(read, IF account.suspended THEN "next" ELSE "cut", "next")
        BY <2>1, <3>1 DEF rest, read
      <4> QED
        BY <3>1, <4>1
    <3>2. CASE ~PastGrace(i)
      <4>1. SweepRead(rest, "next", "next")
        BY <2>1, <3>2 DEF rest
      <4> QED
        BY <4>1
    <3> QED
      BY <3>1, <3>2
  <2> HIDE DEF rest, read
  <2>5. r \in Reading /\ r.todo \subseteq sweep.todo
    BY <2>2, <2>3
  <2>6. /\ TypeOK' /\ UNCHANGED <<invoices, account, call, now>>
        /\ sweep'.at \in {"next", "cut"} /\ sweep'.todo \subseteq sweep.todo
        /\ sweep'.at = "cut" => at = "cut"
    BY <1>0, <2>0, <2>4, <2>5, SweepReadIs DEF SweepSteps
  <2>7. BillInv'
    BY <2>6 DEF BillInv, Renewing
  <2>8. Quiet /\ at = "cut" => Owing
    <3>1. Quiet => i \in Open /\ i \in Ids
      BY <2>0, <2>1 DEF IInv, CutInv, Open
    <3>2. i \in Ids => now \in Nat /\ invoices[i].date \in Nat /\ Grace \in Nat
      <4>1. i \in Ids => invoices[i] \in Document
        BY <1>0, DocumentIs DEF TypeOK
      <4> QED
        BY <1>0, <4>1, BillingAssumption DEF TypeOK, Document
    <3>3. i \in Ids /\ PastGrace(i) => now > invoices[i].date + Grace
      BY <3>2 DEF PastGrace
    <3> QED
      BY <2>4, <3>1, <3>3 DEF Owing
  <2>9. CutInv'
    BY <2>0, <2>6, <2>8 DEF IInv, CutInv, Quiet, Owing, Open, Ids
  <2> QED
    BY <2>6, <2>7, <2>9, FoundStays, NoCut DEF IInv
<1> QED
  BY <1>1, <1>2

LEMMA CutKeeps == ASSUME IInv, Cut PROVE IInv' /\ FairCut
<1> DEFINE doc == [account EXCEPT !.suspended = TRUE, !.rows = CutOff(sweep.rows)]
<1>0. TypeOK /\ sweep \in Reading
  BY DEF IInv, TypeOK
<1>1. UNCHANGED <<invoices, call, now, since>> /\ sweep.at = "cut"
  BY DEF Cut
<1>2. mishaps' \in Nat
  BY <1>0, FailNat DEF Cut, TypeOK
<1>3. sweep' \in Reading /\ sweep'.at = "next" /\ sweep'.todo = sweep.todo
  BY <1>0, GoReading DEF Cut, SweepSteps
<1>4. doc \in Account
  <2>1. CutOff(sweep.rows) \in [Services -> RowStatus]
    BY <1>0, RowsTyped DEF Reading
  <2> QED
    BY <1>0, <2>1, AccountTyped DEF Account
<1>5. account' \in Account
  BY <1>0, <1>4, AccountTyped DEF Cut
<1>6. TypeOK'
  BY <1>0, <1>1, <1>2, <1>3, <1>5 DEF TypeOK
<1>7. BillInv'
  BY <1>3 DEF BillInv, Renewing
<1>8. CutInv'
  BY <1>1, <1>3 DEF IInv, CutInv, Quiet, Open, Ids
<1>9. FairCut
  BY <1>1 DEF IInv, CutInv, FairCut
<1> QED
  BY <1>1, <1>6, <1>7, <1>8, <1>9, FoundStays DEF IInv

LEMMA EndSweepKeeps == ASSUME IInv, EndSweep PROVE IInv' /\ FairCut
<1>1. UNCHANGED <<invoices, account, call, now, since, mishaps>> /\ sweep' = Idle
  BY DEF EndSweep
<1>2. TypeOK'
  BY <1>1, IdleReading DEF IInv, TypeOK
<1>3. BillInv' /\ CutInv'
  BY <1>1, IdleReading DEF BillInv, CutInv, Renewing
<1> QED
  BY <1>1, <1>2, <1>3, FoundStays, NoCut DEF IInv

-----------------------------------------------------------------------------

LEMMA TickKeeps == ASSUME IInv, Tick PROVE IInv' /\ FairCut
<1>1. UNCHANGED <<invoices, account, call, sweep, since, mishaps>> /\ now' = now + 1
  BY DEF Tick
<1>2. now \in Nat /\ Grace \in Nat
  BY BillingAssumption DEF IInv, TypeOK
<1>3. \A i \in Ids : invoices[i].date \in Nat /\ TermOf(i) \in Nat
  <2>1. \A i \in Ids : invoices[i] \in Document
    BY DocumentIs DEF IInv, TypeOK
  <2> QED
    BY <2>1, BillingAssumption DEF Document, TermOf
<1>4. TypeOK'
  BY <1>1, <1>2 DEF IInv, TypeOK
<1>5. BillInv'
  <2>1. sweep.at \in {"open", "bill"} /\ since = {} =>
          now' >= invoices[sweep.latest].date + TermOf(sweep.latest)
    BY <1>1, <1>2, <1>3 DEF IInv, BillInv, Renewing
  <2> QED
    BY <1>1, <2>1 DEF IInv, BillInv, Ids, LatestPaid, Paid, Open, TermOf
<1>6. CutInv'
  <2>1. Owing => Owing'
    BY <1>1, <1>2, <1>3 DEF Owing, Open, Ids
  <2> QED
    BY <1>1, <2>1 DEF IInv, CutInv, Quiet, Open, Ids
<1> QED
  BY <1>1, <1>4, <1>5, <1>6, FoundStays, NoCut DEF IInv

LEMMA CrashKeeps == ASSUME IInv, Crash PROVE IInv' /\ FairCut
<1>1. UNCHANGED <<invoices, account, now, since>> /\ sweep' = Idle
  BY DEF Crash
<1>2. mishaps' \in Nat
  BY FailNat DEF Crash, IInv, TypeOK
<1>3. /\ call' \in [Calls -> Local]
      /\ \A c \in Calls : call'[c] = call[c] \/ call'[c] = Thrown(c)
  BY ThrownLocal DEF Crash, IInv, TypeOK
<1>4. TypeOK'
  BY <1>1, <1>2, <1>3, IdleReading DEF IInv, TypeOK
<1>5. FoundFit'
  BY <1>1, <1>3, ThrownLocal DEF IInv, FoundFit, Ids, Needing
<1>6. BillInv' /\ CutInv'
  BY <1>1, IdleReading DEF BillInv, CutInv, Renewing
<1> QED
  BY <1>1, <1>4, <1>5, <1>6, NoCut DEF IInv

LEMMA InitIInv == Init => IInv
<1> SUFFICES ASSUME Init PROVE IInv
  OBVIOUS
<1>1. now = 0 /\ since = {} /\ sweep = Idle
  BY DEF Init
<1>2. PICK s \in Scenarios :
        /\ call = [c \in Calls |-> At(IF c \in s.calls THEN "start" ELSE "over")]
        /\ mishaps = s.mishaps
        /\ invoices = IF s.begins = "new" THEN <<>>
                      ELSE <<[Invoice("Starter", s.begins, Services) EXCEPT !.status = "Paid"]>>
        /\ account = IF s.begins = "new" THEN [plan |-> "None", suspended |-> FALSE, rows |-> NoRows]
                     ELSE [plan |-> "Starter", suspended |-> FALSE, rows |-> [x \in Services |-> "Active"]]
  BY DEF Init
<1>3. mishaps \in Nat /\ s.begins \in Terms \cup {"new"}
  BY <1>2, BillingAssumption
<1>4. /\ call \in [Calls -> Local]
      /\ \A c \in Calls : call[c].at \in {"start", "over"} /\ call[c].found = 0
  BY <1>2, AtLocal DEF CallSteps
<1>5. invoices \in Seq(Document)
  <2>1. CASE s.begins = "new"
    BY <1>2, <2>1
  <2>2. CASE s.begins # "new"
    <3> DEFINE paid == [Invoice("Starter", s.begins, Services) EXCEPT !.status = "Paid"]
    <3>1. Invoice("Starter", s.begins, Services) \in Document
      BY <1>1, <1>3, <2>2, InvoiceTyped DEF Plans
    <3>2. paid \in Document
      BY <3>1 DEF Document
    <3> HIDE DEF paid
    <3>3. invoices = <<paid>>
      BY <1>2, <2>2 DEF paid
    <3> QED
      BY <3>2, <3>3
  <2> QED
    BY <2>1, <2>2
<1>6. account \in Account
  BY <1>2 DEF Account, NoRows, RowStatus, Plans
<1>7. TypeOK
  BY <1>1, <1>3, <1>4, <1>5, <1>6, IdleReading DEF TypeOK
<1>8. FoundFit
  BY <1>4 DEF FoundFit, Needing
<1>9. BillInv /\ CutInv
  BY <1>1, IdleReading DEF BillInv, CutInv, Renewing
<1> QED
  BY <1>7, <1>8, <1>9 DEF IInv

LEMMA StillKeeps == ASSUME IInv, UNCHANGED vars PROVE IInv' /\ FairCut
<1>1. UNCHANGED <<invoices, account, call, sweep, now, since, mishaps>>
  BY DEF vars
<1>2. TypeOK'
  BY <1>1 DEF IInv, TypeOK
<1>3. BillInv'
  BY <1>1 DEF IInv, BillInv, Ids, LatestPaid, Paid, Open, TermOf
<1>4. CutInv'
  BY <1>1 DEF IInv, CutInv, Quiet, Owing, Ids, Open
<1> QED
  BY <1>1, <1>2, <1>3, <1>4, FoundStays, NoCut DEF IInv

LEMMA NextKeeps == ASSUME IInv, [Next]_vars PROVE IInv' /\ FairCut
<1>1. CASE \E c \in Calls : CallNext(c)
  <2>1. PICK c \in Calls : CallNext(c)
    BY <1>1
  <2>2. \/ PrepareStart(c) \/ PrepareKind(c) \/ PrepareTerm(c) \/ MergeRead(c) \/ MergeWrite(c) \/ Annual(c)
        \/ Link(c) \/ ApplyRead(c) \/ ApplyPlan(c) \/ FindOpen(c) \/ Raise(c)
        \/ AttachStart(c) \/ AttachTerm(c) \/ AttachAccount(c) \/ AttachOldPlan(c) \/ AttachOldOpen(c)
        \/ Retire(c) \/ AttachRows(c)
        \/ PayStart(c) \/ MarkPaid(c) \/ PayRead(c) \/ PayWrite(c) \/ DeleteStart(c) \/ Delete(c)
    BY <2>1 DEF CallNext
  <2> QED
    BY <2>2, OrderKeeps, ApplyKeeps, AttachKeeps, PayKeeps
<1>2. CASE SweepNext
  BY <1>2, ListPaidKeeps, RenewKeeps, BillKeeps, OverdueKeeps, CutKeeps, EndSweepKeeps DEF SweepNext
<1>3. CASE Tick
  BY <1>3, TickKeeps
<1>4. CASE Crash
  BY <1>4, CrashKeeps
<1>5. CASE UNCHANGED vars
  BY <1>5, StillKeeps
<1> QED
  BY <1>1, <1>2, <1>3, <1>4, <1>5 DEF Next

LEMMA Inductive == Spec => []IInv
<1>1. IInv /\ [Next]_vars => IInv'
  BY NextKeeps
<1> QED
  BY <1>1, InitIInv, PTL DEF Spec

\* Every variable keeps its type, whatever requests are made.
THEOREM TypeCorrect == Spec => []TypeOK
<1>1. IInv => TypeOK
  BY DEF IInv
<1> QED
  BY <1>1, Inductive, PTL

\* sweepRenewals issues no renewal early: for any requests, cycle lengths and
\* failures, no invoice is stacked on another and no term is billed before it
\* is over, unless a request wrote an invoice while the sweep was at it.
THEOREM RenewalsCorrect == Spec => NeverBilledEarly
<1>1. IInv /\ [Next]_vars =>
        [Bill /\ invoices' # invoices =>
           /\ "raised" \in since \/ Open = {}
           /\ since # {} \/ \E i \in LatestPaid : now >= invoices[i].date + TermOf(i)]_vars
  BY DEF IInv, BillInv, Renewing, Bill
<1> QED
  BY <1>1, Inductive, PTL DEF Spec, NeverBilledEarly

\* sweepRenewals cuts nobody off who owes nothing: whoever is suspended has an
\* invoice open past its grace window, unless a request paid, replaced or
\* deleted one while the sweep was at it.
THEOREM CutsCorrect == Spec => CutOnlyWhenOwing
<1>1. IInv /\ [Next]_vars =>
        [account'.suspended /\ ~account.suspended /\ since \cap {"paid", "raised", "deleted"} = {}
           => \E i \in Open : now > invoices[i].date + Grace]_vars
  BY NextKeeps DEF FairCut, Quiet, Owing
<1> QED
  BY <1>1, Inductive, PTL DEF Spec, CutOnlyWhenOwing
=============================================================================
