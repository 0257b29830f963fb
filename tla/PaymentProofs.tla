---------------------------- MODULE PaymentProofs ----------------------------
(* What holds of AccountActivation and of MpesaPayments for every value of   *)
(* their constants: an activation is not lost to another, and an invoice a   *)
(* callback marks Paid was paid in full.                                     *)
EXTENDS AccountActivation, MpesaPayments, SequenceTheorems, FiniteSetTheorems, TLAPS

\* The local state of a call.
Local == [pc : Pc, rows : [Services -> RowStatus], todo : SUBSET Services]

\* A handler without a lookup is never at one, so AfterLookup is defined.
Looks == \A c \in Calls : call[c].pc = "lookup" => KindOf[c] \notin {"resync", "flip"}

TypeInv == TypeOK /\ Looks

LEMMA InitTypeInv == Init => TypeInv
<1> SUFFICES ASSUME Init PROVE TypeInv
  OBVIOUS
<1> PICK S \in Scenarios : call = [c \in Calls |-> At(IF c \in S THEN "start" ELSE "off")]
  BY DEF Init
<1>1. queue \in Seq(Calls)
  BY EmptySeq DEF Init
<1>2. call \in [Calls -> [pc : Pc, rows : [Services -> RowStatus], todo : SUBSET Services]]
  BY DEF At, Pc, RowStatus
<1>3. Looks
  BY DEF Looks, At
<1> QED
  BY <1>1, <1>2, <1>3 DEF Init, TypeInv, TypeOK, InvoiceStatus, RowStatus

\* A call that goes on, waits or ends leaves the calls and the lock well typed.
LEMMA GotoType ==
  ASSUME TypeInv, NEW c \in Calls, NEW pc \in Pc, Goto(c, pc),
         pc = "lookup" => KindOf[c] \notin {"resync", "flip"}
  PROVE  call' \in [Calls -> Local] /\ queue' \in Seq(Calls) /\ Looks'
<1>1. At(pc) \in Local
  BY DEF At, Local, RowStatus
<1>2. call' = [call EXCEPT ![c] = At(pc)]
  BY DEF Goto
<1>3. call' \in [Calls -> Local]
  BY <1>1, <1>2 DEF TypeInv, TypeOK, Local
<1>4. Append(queue, c) \in Seq(Calls)
  BY AppendProperties DEF TypeInv, TypeOK
<1>5. Holds(c) => Tail(queue) \in Seq(Calls)
  BY HeadTailProperties DEF TypeInv, TypeOK, Holds
<1>6. queue' \in Seq(Calls)
  BY <1>4, <1>5 DEF Goto, AccountLock, TypeInv, TypeOK
<1>7. Looks'
  BY <1>2 DEF Looks, At, TypeInv, TypeOK
<1> QED
  BY <1>3, <1>6, <1>7

LEMMA ThrowType ==
  ASSUME TypeInv, NEW c \in Calls, Throw(c)
  PROVE  call' \in [Calls -> Local] /\ queue' \in Seq(Calls) /\ Looks' /\ mishaps' \in Nat
<1> DEFINE pc == IF KindOf[c] \in {"webhook", "refund"} THEN "start" ELSE "done"
<1>1. pc \in Pc /\ pc # "lookup" /\ Goto(c, pc)
  BY DEF Pc, Throw
<1>2. mishaps' \in Nat
  BY DEF Throw, Fail, TypeInv, TypeOK
<1> HIDE DEF pc
<1> QED
  BY <1>1, <1>2, GotoType

LEMMA KindIn == \A c \in Calls : KindOf[c] \in Kinds /\ InvoiceOf[c] \in Invoices
  BY ConstantsAssumption

\* The first read of the invoice sends a handler on, or to its end.
LEMMA AfterLookupType ==
  ASSUME TypeInv, NEW c \in Calls, call[c].pc = "lookup"
  PROVE  AfterLookup(c) \in {"wait", "charge", "done", "putStatus", "readRows"}
<1>1. KindOf[c] \in {"capture", "webhook", "callback", "refund", "delete", "grace"}
  BY KindIn DEF TypeInv, Looks, Kinds, Activating
<1> QED
  BY <1>1 DEF AfterLookup

-----------------------------------------------------------------------------

LEMMA BeginType ==
  ASSUME TypeInv, NEW c \in Calls, Begin(c)
  PROVE  TypeInv'
<1> DEFINE pc == CASE KindOf[c] = "resync" -> "wait" [] KindOf[c] = "flip" -> "readRows" [] OTHER -> "lookup"
<1>1. pc \in Pc /\ (pc = "lookup" => KindOf[c] \notin {"resync", "flip"}) /\ Goto(c, pc)
  BY DEF Begin, Pc
<1>2. captured' \subseteq Invoices
  BY KindIn DEF Begin, TypeInv, TypeOK
<1> HIDE DEF pc
<1>3. call' \in [Calls -> Local] /\ queue' \in Seq(Calls) /\ Looks'
  BY <1>1, GotoType
<1> QED
  BY <1>2, <1>3 DEF Begin, TypeInv, TypeOK, Local

LEMMA LookupType ==
  ASSUME TypeInv, NEW c \in Calls, Lookup(c)
  PROVE  TypeInv'
<1>1. AfterLookup(c) \in Pc /\ AfterLookup(c) # "lookup"
  BY AfterLookupType DEF Lookup, Pc
<1>2. CASE Goto(c, AfterLookup(c)) /\ UNCHANGED mishaps
  <2>1. call' \in [Calls -> Local] /\ queue' \in Seq(Calls) /\ Looks'
    BY <1>1, <1>2, GotoType
  <2> QED
    BY <1>2, <2>1 DEF Lookup, TypeInv, TypeOK, Local
<1>3. CASE Throw(c)
  BY <1>3, ThrowType DEF Lookup, TypeInv, TypeOK, Local
<1> QED
  BY <1>2, <1>3 DEF Lookup

\* The steps that end in Goto(c, pc) when all is well and in Throw(c) otherwise.
LEMMA StepType ==
  ASSUME TypeInv, NEW c \in Calls, NEW pc \in Pc \ {"lookup"}, NEW ok \in BOOLEAN,
         IF ok THEN Goto(c, pc) /\ UNCHANGED mishaps ELSE Throw(c)
  PROVE  call' \in [Calls -> Local] /\ queue' \in Seq(Calls) /\ Looks' /\ mishaps' \in Nat
<1>1. CASE ok
  <2>1. pc \in Pc /\ Goto(c, pc) /\ pc # "lookup"
    BY <1>1
  <2> QED
    BY <1>1, <2>1, GotoType DEF TypeInv, TypeOK
<1>2. CASE ~ok
  BY <1>2, ThrowType
<1> QED
  BY <1>1, <1>2

LEMMA ChargeType ==
  ASSUME TypeInv, NEW c \in Calls, Charge(c)
  PROVE  TypeInv'
<1>1. PICK o \in Outcomes :
        /\ captured' = IF o = "dropped" THEN captured ELSE captured \cup {InvoiceOf[c]}
        /\ IF o = "ok" THEN Goto(c, "putPaid") /\ UNCHANGED mishaps ELSE Throw(c)
  BY DEF Charge
<1>2. "putPaid" \in Pc \ {"lookup"} /\ (o = "ok") \in BOOLEAN
  BY DEF Pc
<1>3. call' \in [Calls -> Local] /\ queue' \in Seq(Calls) /\ Looks' /\ mishaps' \in Nat
  BY <1>1, <1>2, StepType
<1>4. captured' \subseteq Invoices
  BY <1>1, KindIn DEF TypeInv, TypeOK
<1> QED
  BY <1>3, <1>4 DEF Charge, TypeInv, TypeOK, Local

LEMMA PutPaidType ==
  ASSUME TypeInv, NEW c \in Calls, PutPaid(c)
  PROVE  TypeInv'
<1>1. PICK o \in Outcomes :
        /\ invoice' = IF o = "dropped" THEN invoice ELSE [invoice EXCEPT ![InvoiceOf[c]] = "Paid"]
        /\ IF o = "ok" THEN Goto(c, "wait") /\ UNCHANGED mishaps ELSE Throw(c)
  BY DEF PutPaid
<1>2. "wait" \in Pc \ {"lookup"} /\ (o = "ok") \in BOOLEAN
  BY DEF Pc
<1>3. call' \in [Calls -> Local] /\ queue' \in Seq(Calls) /\ Looks' /\ mishaps' \in Nat
  BY <1>1, <1>2, StepType
<1>4. invoice' \in [Invoices -> InvoiceStatus]
  BY <1>1 DEF TypeInv, TypeOK, InvoiceStatus
<1> QED
  BY <1>3, <1>4 DEF PutPaid, TypeInv, TypeOK, Local

LEMMA PutStatusType ==
  ASSUME TypeInv, NEW c \in Calls, PutStatus(c)
  PROVE  TypeInv'
<1> DEFINE pc == IF KindOf[c] = "refund" THEN "readRows" ELSE "done"
<1>1. PICK o \in Outcomes, status \in IF KindOf[c] = "refund" THEN {"Refunded", "Unpaid"} ELSE {"Deleted"} :
        /\ invoice' = IF o = "dropped" THEN invoice ELSE [invoice EXCEPT ![InvoiceOf[c]] = status]
        /\ IF o = "ok" THEN Goto(c, pc) /\ UNCHANGED mishaps ELSE Throw(c)
  BY DEF PutStatus
<1>2. pc \in Pc \ {"lookup"} /\ (o = "ok") \in BOOLEAN
  BY DEF Pc
<1>3. status \in InvoiceStatus
  BY DEF InvoiceStatus
<1> HIDE DEF pc
<1>4. call' \in [Calls -> Local] /\ queue' \in Seq(Calls) /\ Looks' /\ mishaps' \in Nat
  BY <1>1, <1>2, StepType
<1>5. invoice' \in [Invoices -> InvoiceStatus]
  BY <1>1, <1>3 DEF TypeInv, TypeOK
<1> QED
  BY <1>4, <1>5 DEF PutStatus, TypeInv, TypeOK, Local

LEMMA CheckPaidType ==
  ASSUME TypeInv, NEW c \in Calls, CheckPaid(c)
  PROVE  TypeInv'
<1> DEFINE pc == CASE Status(c) = "Paid" -> "readRows" [] Status(c) # "Paid" /\ Verified(c) -> "markPaid" [] OTHER -> "done"
<1>1. pc \in Pc \ {"lookup"}
  BY DEF Pc
<1>2. (Goto(c, pc) /\ UNCHANGED mishaps) \/ Throw(c)
  BY DEF CheckPaid
<1> HIDE DEF pc
<1>3. call' \in [Calls -> Local] /\ queue' \in Seq(Calls) /\ Looks' /\ mishaps' \in Nat
  BY <1>1, <1>2, ThrowType, GotoType DEF TypeInv, TypeOK
<1> QED
  BY <1>3 DEF CheckPaid, TypeInv, TypeOK, Local

LEMMA MarkPaidType ==
  ASSUME TypeInv, NEW c \in Calls, MarkPaid(c)
  PROVE  TypeInv'
<1>1. PICK o \in Outcomes :
        /\ invoice' = IF o = "dropped" THEN invoice ELSE [invoice EXCEPT ![InvoiceOf[c]] = "Paid"]
        /\ IF o = "ok" THEN Goto(c, "readRows") /\ UNCHANGED mishaps ELSE Throw(c)
  BY DEF MarkPaid
<1>2. "readRows" \in Pc \ {"lookup"} /\ (o = "ok") \in BOOLEAN
  BY DEF Pc
<1>3. call' \in [Calls -> Local] /\ queue' \in Seq(Calls) /\ Looks' /\ mishaps' \in Nat
  BY <1>1, <1>2, StepType
<1>4. invoice' \in [Invoices -> InvoiceStatus]
  BY <1>1 DEF TypeInv, TypeOK, InvoiceStatus
<1> QED
  BY <1>3, <1>4 DEF MarkPaid, TypeInv, TypeOK, Local

\* The rows a call may go on to change are rows of the account.
LEMMA TouchedType == \A c \in Calls : \A T \in Touched(c) : T \subseteq Services
  BY KindIn, ConstantsAssumption DEF Touched

LEMMA ReadRowsType ==
  ASSUME TypeInv, NEW c \in Calls, ReadRows(c)
  PROVE  TypeInv'
<1>1. CASE Throw(c)
  BY <1>1, ThrowType DEF ReadRows, TypeInv, TypeOK, Local
<1>2. CASE Goto(c, "done") /\ UNCHANGED mishaps
  <2>1. "done" \in Pc
    BY DEF Pc
  <2>2. call' \in [Calls -> Local] /\ queue' \in Seq(Calls) /\ Looks'
    BY <1>2, <2>1, GotoType
  <2> QED
    BY <1>2, <2>2 DEF ReadRows, TypeInv, TypeOK, Local
<1>3. CASE \E T \in Touched(c) :
             /\ call' = [call EXCEPT ![c] = [pc |-> "writeRows", rows |-> row, todo |-> T]]
             /\ UNCHANGED <<queue, mishaps>>
  <2>1. PICK T \in Touched(c) : call' = [call EXCEPT ![c] = [pc |-> "writeRows", rows |-> row, todo |-> T]]
    BY <1>3
  <2>2. [pc |-> "writeRows", rows |-> row, todo |-> T] \in Local
    BY TouchedType DEF Local, Pc, TypeInv, TypeOK
  <2>3. call' \in [Calls -> Local] /\ Looks'
    BY <2>1, <2>2 DEF TypeInv, TypeOK, Local, Looks
  <2> QED
    BY <1>3, <2>3 DEF ReadRows, TypeInv, TypeOK, Local
<1> QED
  BY <1>1, <1>2, <1>3 DEF ReadRows

LEMMA NewStatusType == \A c \in Calls, s \in Services : NewStatus(c, s) \in RowStatus
  BY DEF NewStatus, ActivatedStatusFor, RowStatus

\* The rows a call writes back.
Written(c) == [s \in Services |-> IF s \in call[c].todo THEN NewStatus(c, s) ELSE call[c].rows[s]]

\* The three ways a write of the rows ends.
LEMMA WriteRowsCases ==
  ASSUME NEW c \in Calls, WriteRows(c)
  PROVE  /\ row' \in {row, Written(c)}
         /\ \/ Throw(c)
            \/ /\ KindOf[c] \in Activating
               /\ call' = [call EXCEPT ![c] = [At("post") EXCEPT !.todo = call[c].todo]]
               /\ UNCHANGED <<queue, mishaps>>
            \/ Goto(c, "done") /\ UNCHANGED mishaps
  BY DEF WriteRows, Written

\* Changing what a call has still to do.
LEMMA LocalTodo ==
  ASSUME NEW l, NEW todo, l = [pc |-> l.pc, rows |-> l.rows, todo |-> l.todo]
  PROVE  [l EXCEPT !.todo = todo] = [pc |-> l.pc, rows |-> l.rows, todo |-> todo]
  OBVIOUS

LEMMA WriteRowsType ==
  ASSUME TypeInv, NEW c \in Calls, WriteRows(c)
  PROVE  TypeInv'
<1>1. row' \in [Services -> RowStatus]
  <2>1. Written(c) \in [Services -> RowStatus]
    BY NewStatusType DEF Written, TypeInv, TypeOK
  <2> QED
    BY <2>1, WriteRowsCases DEF TypeInv, TypeOK
<1>2. call' \in [Calls -> Local] /\ queue' \in Seq(Calls) /\ Looks' /\ mishaps' \in Nat
  <2>1. CASE Throw(c)
    BY <2>1, ThrowType
  <2>2. CASE Goto(c, "done") /\ UNCHANGED mishaps
    <3>1. "done" \in Pc
      BY DEF Pc
    <3> QED
      BY <2>2, <3>1, GotoType DEF TypeInv, TypeOK
  <2>3. CASE /\ call' = [call EXCEPT ![c] = [At("post") EXCEPT !.todo = call[c].todo]]
             /\ UNCHANGED <<queue, mishaps>>
    <3>1. [At("post") EXCEPT !.todo = call[c].todo] = [pc |-> "post", rows |-> At("post").rows, todo |-> call[c].todo]
      <4>1. At("post") = [pc |-> "post", rows |-> At("post").rows, todo |-> At("post").todo]
        BY DEF At
      <4>2. At("post").pc = "post"
        BY DEF At
      <4> QED
        BY <4>1, <4>2, LocalTodo
    <3> DEFINE next == [pc |-> "post", rows |-> At("post").rows, todo |-> call[c].todo]
    <3>2. next \in Local /\ next.pc # "lookup"
      BY DEF At, Local, Pc, RowStatus, TypeInv, TypeOK
    <3>3. call' = [call EXCEPT ![c] = next]
      BY <2>3, <3>1
    <3> HIDE DEF next
    <3>4. call' \in [Calls -> Local]
      BY <3>2, <3>3 DEF TypeInv, TypeOK, Local
    <3>5. Looks'
      BY <3>2, <3>3 DEF TypeInv, TypeOK, Looks
    <3> QED
      BY <2>3, <3>4, <3>5 DEF TypeInv, TypeOK
  <2> QED
    BY <2>1, <2>2, <2>3, WriteRowsCases
<1> QED
  BY <1>1, <1>2 DEF WriteRows, TypeInv, TypeOK, Local

\* One enqueued service, as Post states it.
LEMMA PostOne ==
  ASSUME TypeInv, NEW c \in Calls, Post(c)
  PROVE  \E s \in call[c].todo :
           /\ jobs' \in {jobs, [jobs EXCEPT ![<<InvoiceOf[c], s>>] = @ + 1]}
           /\ call' = [call EXCEPT ![c] = [pc |-> "post", rows |-> call[c].rows, todo |-> call[c].todo \ {s}]]
           /\ mishaps' \in Nat
<1>1. PICK s \in call[c].todo :
        /\ jobs' \in {jobs, [jobs EXCEPT ![<<InvoiceOf[c], s>>] = @ + 1]}
        /\ call' = [call EXCEPT ![c].todo = @ \ {s}]
        /\ mishaps' = mishaps \/ Fail
  BY DEF Post
<1>2. mishaps' \in Nat
  BY <1>1 DEF Fail, TypeInv, TypeOK
<1>3. call[c] = [pc |-> "post", rows |-> call[c].rows, todo |-> call[c].todo]
  BY DEF Post, TypeInv, TypeOK
<1>4. [call[c] EXCEPT !.todo = @ \ {s}] = [pc |-> "post", rows |-> call[c].rows, todo |-> call[c].todo \ {s}]
  BY <1>3
<1>5. call' = [call EXCEPT ![c] = [call[c] EXCEPT !.todo = @ \ {s}]]
  BY <1>1 DEF TypeInv, TypeOK
<1>6. call' = [call EXCEPT ![c] = [pc |-> "post", rows |-> call[c].rows, todo |-> call[c].todo \ {s}]]
  BY <1>4, <1>5
<1> QED
  BY <1>1, <1>2, <1>6

LEMMA PostType ==
  ASSUME TypeInv, NEW c \in Calls, Post(c)
  PROVE  TypeInv'
<1>1. PICK s \in call[c].todo :
        /\ jobs' \in {jobs, [jobs EXCEPT ![<<InvoiceOf[c], s>>] = @ + 1]}
        /\ call' = [call EXCEPT ![c] = [pc |-> "post", rows |-> call[c].rows, todo |-> call[c].todo \ {s}]]
        /\ mishaps' \in Nat
  BY PostOne
<1>2. [pc |-> "post", rows |-> call[c].rows, todo |-> call[c].todo \ {s}] \in Local
  BY DEF Local, Pc, TypeInv, TypeOK
<1>3. call' \in [Calls -> Local] /\ Looks'
  BY <1>1, <1>2 DEF TypeInv, TypeOK, Looks, Local
<1>4. jobs' \in [Invoices \X Services -> Nat]
  <2>1. s \in Services /\ <<InvoiceOf[c], s>> \in Invoices \X Services
    BY KindIn DEF TypeInv, TypeOK
  <2> DEFINE is == <<InvoiceOf[c], s>>
  <2>2. jobs' = jobs \/ jobs' = [jobs EXCEPT ![is] = @ + 1]
    BY <1>1
  <2> HIDE DEF is
  <2>3. jobs \in [Invoices \X Services -> Nat]
    BY DEF TypeInv, TypeOK
  <2> QED
    BY <2>2, <2>3
<1> QED
  BY <1>1, <1>3, <1>4 DEF Post, TypeInv, TypeOK, Local

LEMMA ReplyType ==
  ASSUME TypeInv, NEW c \in Calls, Reply(c)
  PROVE  TypeInv'
<1>1. "done" \in Pc
  BY DEF Pc
<1>2. CASE Goto(c, "done") /\ UNCHANGED mishaps
  BY <1>1, <1>2, GotoType DEF Reply, TypeInv, TypeOK, Local
<1>3. CASE Throw(c)
  BY <1>3, ThrowType DEF Reply, TypeInv, TypeOK, Local
<1> QED
  BY <1>2, <1>3 DEF Reply

\* After a crash a call is as it was, about to come again, or over.
LEMMA CrashCalls ==
  ASSUME TypeInv, Crash, NEW c \in Calls
  PROVE  \/ call'[c] = call[c]
         \/ KindOf[c] \in {"webhook", "refund"} /\ call'[c] = At("start")
         \/ KindOf[c] \notin {"webhook", "refund"} /\ Begun(c) /\ call'[c] = At("done")
  BY DEF Crash

LEMMA CrashType == ASSUME TypeInv, Crash PROVE TypeInv'
<1>1. At("start") \in Local /\ At("done") \in Local
  BY DEF At, Local, Pc, RowStatus
<1>2. \A c \in Calls : call'[c] \in Local
  BY <1>1, CrashCalls DEF TypeInv, TypeOK, Local
<1>3. call' \in [Calls -> Local]
  BY <1>2 DEF Crash
<1>4. At("start").pc # "lookup" /\ At("done").pc # "lookup"
  BY DEF At
<1>5. Looks'
  <2> SUFFICES ASSUME NEW c \in Calls, call'[c].pc = "lookup" PROVE KindOf[c] \notin {"resync", "flip"}
    BY DEF Looks
  <2> QED
    BY <1>4, CrashCalls DEF Looks, TypeInv
<1> QED
  BY <1>3, <1>5, EmptySeq DEF Crash, Fail, TypeInv, TypeOK, Local

LEMMA NextTypeInv == TypeInv /\ [Next]_vars => TypeInv'
<1> SUFFICES ASSUME TypeInv, [Next]_vars PROVE TypeInv'
  OBVIOUS
<1>1. CASE \E c \in Calls : Begin(c) \/ Proceed(c)
  BY <1>1, BeginType, LookupType, ChargeType, PutPaidType, PutStatusType, CheckPaidType, MarkPaidType,
     ReadRowsType, WriteRowsType, PostType, ReplyType DEF Proceed
<1>2. CASE Crash
  BY <1>2, CrashType
<1>3. CASE UNCHANGED vars
  BY <1>3 DEF vars, TypeInv, TypeOK, Looks
<1> QED
  BY <1>1, <1>2, <1>3 DEF Next, Quiet

\* Every state is well typed, for any invoices, services and calls.
THEOREM TypeCorrect == Spec => []TypeOK
<1>1. TypeInv => TypeOK
  BY DEF TypeInv
<1> QED
  BY <1>1, InitTypeInv, NextTypeInv, PTL DEF Spec

-----------------------------------------------------------------------------
(* NothingWithoutPayment.  A call is where only a captured payment, or a    *)
(* request that needs none, could have brought it.                          *)

\* What CallJustified asks of a call at pc when the money of cap was taken.
Funded(c, pc, cap) ==
    /\ pc = "lookup" => KindOf[c] \notin {"resync", "flip"}
    /\ KindOf[c] \in {"webhook", "refund", "callback"} /\ pc \notin {"off", "start"} => InvoiceOf[c] \in cap
    /\ pc \in {"putPaid", "markPaid", "post"} => InvoiceOf[c] \in cap
    /\ pc = "wait" /\ Verified(c) => InvoiceOf[c] \in cap
    /\ pc \in {"readRows", "writeRows"} /\ KindOf[c] \notin {"grace", "flip"} => InvoiceOf[c] \in cap

AllJustified == \A c \in Calls : CallJustified(c)

LEMMA InitJustified == Init => Justified
<1> SUFFICES ASSUME Init PROVE Justified
  OBVIOUS
<1> PICK S \in Scenarios : call = [c \in Calls |-> At(IF c \in S THEN "start" ELSE "off")]
  BY DEF Init
<1>1. \A c \in Calls : call[c].pc \in {"off", "start"}
  BY DEF At
<1>2. \A i \in Invoices, s \in Services : jobs[<<i, s>>] = 0
  BY DEF Init
<1>3. ASSUME NEW i \in Invoices, NEW s \in Services
      PROVE  ~(jobs[<<i, s>>] > 0)
  <2>1. jobs[<<i, s>>] = 0
    BY <1>2
  <2> QED
    BY <2>1, ~(0 > 0)
<1>4. /\ \A i \in Invoices : invoice[i] # "Paid"
      /\ \A s \in Services : row[s] = "Awaiting Payment"
  BY DEF Init
<1>5. NothingWithoutPayment
  BY <1>3, <1>4 DEF NothingWithoutPayment
<1> QED
  BY <1>1, <1>5 DEF Justified, CallJustified

\* A call that does not move stays justified: no captured payment is undone.
LEMMA CallKept ==
  ASSUME NEW c \in Calls, CallJustified(c), call'[c] = call[c], captured \subseteq captured'
  PROVE  CallJustified(c)'
  BY DEF CallJustified, RowsJustified, Entitled, Verified

LEMMA GotoJustified ==
  ASSUME TypeInv, AllJustified, NEW c \in Calls, NEW pc \in Pc, Goto(c, pc),
         captured \subseteq captured', pc # "writeRows", Funded(c, pc, captured')
  PROVE  AllJustified'
<1>1. call' = [call EXCEPT ![c] = At(pc)] /\ At(pc).pc = pc
  BY DEF Goto, At
<1> SUFFICES ASSUME NEW d \in Calls PROVE CallJustified(d)'
  BY DEF AllJustified
<1>2. CASE d = c
  <2>1. call'[d].pc = pc
    BY <1>1, <1>2 DEF TypeInv, TypeOK
  <2> QED
    BY <1>2, <2>1 DEF CallJustified, Funded, Verified
<1>3. CASE d # c
  BY <1>1, <1>3, CallKept DEF AllJustified, TypeInv, TypeOK
<1> QED
  BY <1>2, <1>3

\* A handler that throws had its payment, if its kind needs one.
LEMMA ThrowJustified ==
  ASSUME TypeInv, AllJustified, NEW c \in Calls, call[c].pc \notin {"off", "start"}, Throw(c), captured \subseteq captured'
  PROVE  AllJustified'
<1> DEFINE pc == IF KindOf[c] \in {"webhook", "refund"} THEN "start" ELSE "done"
<1>1. pc \in Pc /\ pc # "writeRows" /\ Goto(c, pc)
  BY DEF Throw, Pc
<1>2. Funded(c, pc, captured')
  BY DEF Funded, AllJustified, CallJustified
<1> HIDE DEF pc
<1> QED
  BY <1>1, <1>2, GotoJustified

\* The steps that leave rows and jobs alone, and mark captured invoices only.
LEMMA NothingKept ==
  ASSUME NothingWithoutPayment, UNCHANGED <<row, jobs>>, captured \subseteq captured',
         \A i \in Invoices : invoice'[i] = "Paid" => invoice[i] = "Paid" \/ i \in captured'
  PROVE  NothingWithoutPayment'
  BY DEF NothingWithoutPayment

\* Of an invoice that is marked paid the money was taken.
LEMMA PaidIsCaptured ==
  ASSUME NothingWithoutPayment, NEW c \in Calls, Status(c) = "Paid"
  PROVE  InvoiceOf[c] \in captured
  BY KindIn DEF NothingWithoutPayment, Status

\* The steps that end in Goto(c, pc) when all is well and in Throw(c) otherwise.
LEMMA StepJustified ==
  ASSUME TypeInv, AllJustified, NEW c \in Calls, call[c].pc \notin {"off", "start"}, NEW pc \in Pc, NEW ok \in BOOLEAN,
         IF ok THEN Goto(c, pc) /\ UNCHANGED mishaps ELSE Throw(c),
         captured \subseteq captured', pc # "writeRows", ok => Funded(c, pc, captured')
  PROVE  AllJustified'
<1>1. CASE ok
  BY <1>1, GotoJustified
<1>2. CASE ~ok
  BY <1>2, ThrowJustified
<1> QED
  BY <1>1, <1>2

LEMMA BeginJustified ==
  ASSUME TypeInv, Justified, NEW c \in Calls, Begin(c)
  PROVE  Justified'
<1> DEFINE pc == CASE KindOf[c] = "resync" -> "wait" [] KindOf[c] = "flip" -> "readRows" [] OTHER -> "lookup"
<1>1. pc \in Pc /\ pc # "writeRows" /\ Goto(c, pc)
  BY DEF Begin, Pc
<1>2. captured \subseteq captured'
  BY DEF Begin
<1>3. KindOf[c] \in {"webhook", "refund", "callback"} => InvoiceOf[c] \in captured'
  BY DEF Begin, Arrives
<1>4. Funded(c, pc, captured')
  BY <1>3 DEF Funded, Verified
<1> HIDE DEF pc
<1>5. AllJustified'
  BY <1>1, <1>2, <1>4, GotoJustified DEF Justified, AllJustified
<1>6. NothingWithoutPayment'
  BY <1>2, NothingKept DEF Begin, Justified
<1> QED
  BY <1>5, <1>6 DEF Justified, AllJustified

LEMMA LookupJustified ==
  ASSUME TypeInv, Justified, NEW c \in Calls, Lookup(c)
  PROVE  Justified'
<1>1. AfterLookup(c) \in {"wait", "charge", "done", "putStatus", "readRows"}
  BY AfterLookupType DEF Lookup
<1>2. KindOf[c] \in {"webhook", "refund", "callback"} => InvoiceOf[c] \in captured
  BY DEF Lookup, Justified, CallJustified
<1>3. AfterLookup(c) = "wait" => InvoiceOf[c] \in captured
  <2>1. KindOf[c] \in {"capture", "webhook", "callback", "refund", "delete", "grace"}
    BY KindIn DEF Lookup, TypeInv, Looks, Kinds, Activating
  <2> QED
    BY <1>2, <2>1, PaidIsCaptured DEF AfterLookup, Justified
<1>4. AfterLookup(c) = "readRows" => KindOf[c] = "grace"
  <2>1. KindOf[c] \in {"capture", "webhook", "callback", "refund", "delete", "grace"}
    BY KindIn DEF Lookup, TypeInv, Looks, Kinds, Activating
  <2> QED
    BY <2>1 DEF AfterLookup
<1>5. Funded(c, AfterLookup(c), captured') /\ AfterLookup(c) \in Pc
  BY <1>1, <1>2, <1>3, <1>4 DEF Funded, Lookup, Pc
<1>6. CASE Goto(c, AfterLookup(c)) /\ UNCHANGED mishaps
  BY <1>1, <1>5, <1>6, GotoJustified, NothingKept DEF Lookup, Justified, AllJustified
<1>7. CASE Throw(c)
  BY <1>7, ThrowJustified, NothingKept DEF Lookup, Justified, AllJustified
<1> QED
  BY <1>6, <1>7 DEF Lookup

LEMMA ChargeJustified ==
  ASSUME TypeInv, Justified, NEW c \in Calls, Charge(c)
  PROVE  Justified'
<1>1. PICK o \in Outcomes :
        /\ captured' = IF o = "dropped" THEN captured ELSE captured \cup {InvoiceOf[c]}
        /\ IF o = "ok" THEN Goto(c, "putPaid") /\ UNCHANGED mishaps ELSE Throw(c)
  BY DEF Charge
<1>2. captured \subseteq captured' /\ (o = "ok" => InvoiceOf[c] \in captured')
  BY <1>1
<1>3. o = "ok" => Funded(c, "putPaid", captured')
  BY <1>2 DEF Funded
<1>4. "putPaid" \in Pc /\ (o = "ok") \in BOOLEAN /\ call[c].pc \notin {"off", "start"}
  BY DEF Pc, Charge
<1>5. AllJustified'
  BY <1>1, <1>2, <1>3, <1>4, StepJustified DEF Justified, AllJustified
<1>6. NothingWithoutPayment'
  BY <1>2, NothingKept DEF Charge, Justified
<1> QED
  BY <1>5, <1>6 DEF Justified, AllJustified

\* Both places that mark an invoice paid hold its payment.
LEMMA PayJustified ==
  ASSUME TypeInv, Justified, NEW c \in Calls, call[c].pc \in {"putPaid", "markPaid"},
         NEW pc \in {"wait", "readRows"}, UNCHANGED <<row, jobs, captured>>,
         NEW o \in Outcomes,
         invoice' = IF o = "dropped" THEN invoice ELSE [invoice EXCEPT ![InvoiceOf[c]] = "Paid"],
         IF o = "ok" THEN Goto(c, pc) /\ UNCHANGED mishaps ELSE Throw(c)
  PROVE  Justified'
<1>1. InvoiceOf[c] \in captured
  BY DEF Justified, CallJustified
<1>2. Funded(c, pc, captured')
  BY <1>1 DEF Funded
<1>3. pc \in Pc /\ pc # "writeRows" /\ (o = "ok") \in BOOLEAN /\ call[c].pc \notin {"off", "start"}
  BY DEF Pc
<1>4. AllJustified'
  BY <1>2, <1>3, StepJustified DEF Justified, AllJustified
<1>5. \A i \in Invoices : invoice'[i] = "Paid" => invoice[i] = "Paid" \/ i \in captured'
  BY <1>1 DEF TypeInv, TypeOK
<1>6. NothingWithoutPayment'
  BY <1>5, NothingKept DEF Justified
<1> QED
  BY <1>4, <1>6 DEF Justified, AllJustified

LEMMA PutStatusJustified ==
  ASSUME TypeInv, Justified, NEW c \in Calls, PutStatus(c)
  PROVE  Justified'
<1> DEFINE pc == IF KindOf[c] = "refund" THEN "readRows" ELSE "done"
<1>1. PICK o \in Outcomes, status \in IF KindOf[c] = "refund" THEN {"Refunded", "Unpaid"} ELSE {"Deleted"} :
        /\ invoice' = IF o = "dropped" THEN invoice ELSE [invoice EXCEPT ![InvoiceOf[c]] = status]
        /\ IF o = "ok" THEN Goto(c, pc) /\ UNCHANGED mishaps ELSE Throw(c)
  BY DEF PutStatus
<1>2. status # "Paid"
  OBVIOUS
<1>3. Funded(c, pc, captured')
  BY DEF Funded, PutStatus, Justified, CallJustified
<1>4. pc \in Pc /\ pc # "writeRows" /\ (o = "ok") \in BOOLEAN /\ call[c].pc \notin {"off", "start"}
  BY DEF Pc, PutStatus
<1> HIDE DEF pc
<1>5. AllJustified'
  BY <1>1, <1>3, <1>4, StepJustified DEF Justified, AllJustified, PutStatus
<1>6. \A i \in Invoices : invoice'[i] = "Paid" => invoice[i] = "Paid"
  BY <1>1, <1>2 DEF TypeInv, TypeOK
<1>7. NothingWithoutPayment'
  BY <1>6, NothingKept DEF Justified, PutStatus
<1> QED
  BY <1>5, <1>7 DEF Justified, AllJustified

\* The gate: an activation goes on for a paid invoice, or for a verified rail.
LEMMA CheckPaidJustified ==
  ASSUME TypeInv, Justified, NEW c \in Calls, CheckPaid(c)
  PROVE  Justified'
<1> DEFINE pc == CASE Status(c) = "Paid" -> "readRows" [] Status(c) # "Paid" /\ Verified(c) -> "markPaid" [] OTHER -> "done"
<1>1. pc \in Pc /\ pc # "writeRows" /\ call[c].pc \notin {"off", "start"}
  BY DEF Pc, CheckPaid
<1>2. (Goto(c, pc) /\ UNCHANGED mishaps) \/ Throw(c)
  BY DEF CheckPaid
<1>3. Verified(c) \/ Status(c) = "Paid" => InvoiceOf[c] \in captured
  BY PaidIsCaptured DEF CheckPaid, Justified, CallJustified
<1>4. KindOf[c] \in {"webhook", "refund", "callback"} => InvoiceOf[c] \in captured
  BY DEF CheckPaid, Justified, CallJustified
<1>5. Funded(c, pc, captured')
  BY <1>3, <1>4 DEF Funded, CheckPaid
<1> HIDE DEF pc
<1>6. AllJustified'
  BY <1>1, <1>2, <1>5, GotoJustified, ThrowJustified DEF CheckPaid, Justified, AllJustified
<1>7. NothingWithoutPayment'
  BY NothingKept DEF CheckPaid, Justified
<1> QED
  BY <1>6, <1>7 DEF Justified, AllJustified

\* A refund suspends what the invoice paid for, the renewal sweep what is live
\* and the runner sets live what is being set up.
LEMMA TouchedEntitled ==
  ASSUME TypeInv, Justified, NEW c \in Calls, call[c].pc = "readRows", NEW T \in Touched(c), NEW s \in T
  PROVE  Entitled(s)
<1>1. s \in Services
  BY TouchedType
<1>2. CASE KindOf[c] \in {"flip", "grace"}
  <2>1. row[s] \in {"Setting up", "Active"}
    BY <1>1, <1>2 DEF Touched
  <2> QED
    BY <1>1, <2>1 DEF Justified, NothingWithoutPayment, Entitled
<1>3. CASE KindOf[c] \notin {"flip", "grace"}
  <2>1. T = Lists[InvoiceOf[c]]
    BY <1>3 DEF Touched
  <2>2. InvoiceOf[c] \in captured
    BY <1>3 DEF Justified, CallJustified
  <2> QED
    BY <2>1, <2>2 DEF Entitled
<1> QED
  BY <1>2, <1>3

LEMMA ReadRowsJustified ==
  ASSUME TypeInv, Justified, NEW c \in Calls, ReadRows(c)
  PROVE  Justified'
<1>1. NothingWithoutPayment'
  BY NothingKept DEF ReadRows, Justified
<1>2. KindOf[c] \in {"webhook", "refund", "callback"} => InvoiceOf[c] \in captured
  BY DEF ReadRows, Justified, CallJustified
<1>3. CASE Throw(c)
  BY <1>1, <1>3, ThrowJustified DEF ReadRows, Justified, AllJustified
<1>4. CASE Goto(c, "done") /\ UNCHANGED mishaps
  <2>1. Funded(c, "done", captured') /\ "done" \in Pc
    BY <1>2 DEF Funded, Pc, ReadRows
  <2> QED
    BY <1>1, <1>4, <2>1, GotoJustified DEF ReadRows, Justified, AllJustified
<1>5. CASE \E T \in Touched(c) : call' = [call EXCEPT ![c] = [pc |-> "writeRows", rows |-> row, todo |-> T]]
  <2>1. PICK T \in Touched(c) : call' = [call EXCEPT ![c] = [pc |-> "writeRows", rows |-> row, todo |-> T]]
    BY <1>5
  <2>2. captured' = captured /\ call[c].pc = "readRows"
    BY DEF ReadRows
  <2> SUFFICES ASSUME NEW d \in Calls PROVE CallJustified(d)'
    BY <1>1 DEF Justified
  <2>3. CASE d # c
    BY <2>1, <2>2, <2>3, CallKept DEF Justified, TypeInv, TypeOK
  <2>4. CASE d = c
    <3>1. call'[d].pc = "writeRows" /\ call'[d].rows = row /\ call'[d].todo = T
      BY <2>1, <2>4 DEF TypeInv, TypeOK
    <3>2. \A s \in T : Entitled(s)'
      BY <2>2, TouchedEntitled DEF Entitled
    <3>3. \A s \in Services : row[s] # "Awaiting Payment" => Entitled(s)'
      BY <2>2 DEF Justified, NothingWithoutPayment, Entitled
    <3>4. RowsJustified(d)'
      BY <3>1, <3>2, <3>3 DEF RowsJustified
    <3>5. KindOf[c] \notin {"grace", "flip"} => InvoiceOf[c] \in captured'
      BY <2>2 DEF Justified, CallJustified
    <3> QED
      BY <1>2, <2>2, <2>4, <3>1, <3>4, <3>5 DEF CallJustified
  <2> QED
    BY <2>3, <2>4
<1> QED
  BY <1>3, <1>4, <1>5 DEF ReadRows

LEMMA WriteRowsJustified ==
  ASSUME TypeInv, Justified, NEW c \in Calls, WriteRows(c)
  PROVE  Justified'
<1>1. captured' = captured /\ UNCHANGED <<invoice, jobs>> /\ call[c].pc = "writeRows"
  BY DEF WriteRows
<1>2. RowsJustified(c)
  BY <1>1 DEF Justified, CallJustified
<1>3. \A s \in Services : row'[s] # "Awaiting Payment" => Entitled(s)
  <2>1. CASE row' = row
    BY <2>1 DEF Justified, NothingWithoutPayment, Entitled
  <2>2. CASE row' = Written(c)
    BY <1>2, <2>2 DEF Written, RowsJustified
  <2> QED
    BY <2>1, <2>2, WriteRowsCases
<1>4. NothingWithoutPayment'
  BY <1>1, <1>3 DEF NothingWithoutPayment, Justified, Entitled
<1>5. KindOf[c] \in {"webhook", "refund", "callback"} => InvoiceOf[c] \in captured
  BY <1>1 DEF Justified, CallJustified
<1>6. CASE Throw(c)
  BY <1>1, <1>4, <1>6, ThrowJustified DEF Justified, AllJustified
<1>7. CASE Goto(c, "done") /\ UNCHANGED mishaps
  <2>1. Funded(c, "done", captured') /\ "done" \in Pc
    BY <1>1, <1>5 DEF Funded, Pc
  <2> QED
    BY <1>1, <1>4, <1>7, <2>1, GotoJustified DEF Justified, AllJustified
<1>8. CASE /\ KindOf[c] \in Activating
           /\ call' = [call EXCEPT ![c] = [At("post") EXCEPT !.todo = call[c].todo]]
  <2>1. InvoiceOf[c] \in captured
    BY <1>1, <1>8 DEF Activating, Justified, CallJustified
  <2>2. [At("post") EXCEPT !.todo = call[c].todo].pc = "post"
    BY DEF At
  <2> DEFINE next == [At("post") EXCEPT !.todo = call[c].todo]
  <2>3. call' = [call EXCEPT ![c] = next] /\ next.pc = "post"
    BY <1>8, <2>2
  <2> HIDE DEF next
  <2> SUFFICES ASSUME NEW d \in Calls PROVE CallJustified(d)'
    BY <1>4 DEF Justified
  <2>4. CASE d # c
    BY <1>1, <2>3, <2>4, CallKept DEF Justified, TypeInv, TypeOK
  <2>5. CASE d = c
    <3>1. call'[d].pc = "post"
      BY <2>3, <2>5 DEF TypeInv, TypeOK
    <3> QED
      BY <1>1, <2>1, <2>5, <3>1 DEF CallJustified
  <2> QED
    BY <2>4, <2>5
<1> QED
  BY <1>6, <1>7, <1>8, WriteRowsCases

LEMMA PostJustified ==
  ASSUME TypeInv, Justified, NEW c \in Calls, Post(c)
  PROVE  Justified'
<1>1. captured' = captured /\ UNCHANGED <<invoice, row>> /\ call[c].pc = "post"
  BY DEF Post
<1>2. PICK s \in call[c].todo :
        /\ jobs' \in {jobs, [jobs EXCEPT ![<<InvoiceOf[c], s>>] = @ + 1]}
        /\ call' = [call EXCEPT ![c] = [pc |-> "post", rows |-> call[c].rows, todo |-> call[c].todo \ {s}]]
  BY PostOne
<1>3. InvoiceOf[c] \in captured
  BY <1>1 DEF Justified, CallJustified
<1>4. ASSUME NEW i \in Invoices, NEW t \in Services, jobs'[<<i, t>>] > 0
      PROVE  i \in captured
  <2>1. CASE i = InvoiceOf[c]
    BY <1>3, <2>1
  <2>2. CASE i # InvoiceOf[c]
    <3>1. <<i, t>> # <<InvoiceOf[c], s>>
      BY <2>2
    <3>2. jobs'[<<i, t>>] = jobs[<<i, t>>]
      BY <1>2, <3>1 DEF TypeInv, TypeOK
    <3> QED
      BY <1>4, <3>2 DEF Justified, NothingWithoutPayment
  <2> QED
    BY <2>1, <2>2
<1>5. NothingWithoutPayment'
  BY <1>1, <1>4 DEF Justified, NothingWithoutPayment
<1> SUFFICES ASSUME NEW d \in Calls PROVE CallJustified(d)'
  BY <1>5 DEF Justified
<1>6. CASE d # c
  BY <1>1, <1>2, <1>6, CallKept DEF Justified, TypeInv, TypeOK
<1>7. CASE d = c
  <2>1. call'[d].pc = "post"
    BY <1>2, <1>7 DEF TypeInv, TypeOK
  <2> QED
    BY <1>1, <1>3, <1>7, <2>1 DEF CallJustified
<1> QED
  BY <1>6, <1>7

LEMMA ReplyJustified ==
  ASSUME TypeInv, Justified, NEW c \in Calls, Reply(c)
  PROVE  Justified'
<1>1. NothingWithoutPayment'
  BY NothingKept DEF Reply, Justified
<1>2. Funded(c, "done", captured') /\ "done" \in Pc
  BY DEF Funded, Pc, Reply, Justified, CallJustified
<1>3. CASE Goto(c, "done") /\ UNCHANGED mishaps
  BY <1>1, <1>2, <1>3, GotoJustified DEF Reply, Justified, AllJustified
<1>4. CASE Throw(c)
  BY <1>1, <1>4, ThrowJustified DEF Reply, Justified, AllJustified
<1> QED
  BY <1>3, <1>4 DEF Reply

LEMMA CrashJustified == ASSUME TypeInv, Justified, Crash PROVE Justified'
<1>1. captured' = captured /\ UNCHANGED <<invoice, row, jobs>>
  BY DEF Crash
<1>2. NothingWithoutPayment'
  BY <1>1, NothingKept DEF Justified
<1>3. At("start").pc = "start" /\ At("done").pc = "done"
  BY DEF At
<1> SUFFICES ASSUME NEW d \in Calls PROVE CallJustified(d)'
  BY <1>2 DEF Justified
<1>4. CASE call'[d] = call[d]
  BY <1>1, <1>4, CallKept DEF Justified
<1>5. CASE KindOf[d] \in {"webhook", "refund"} /\ call'[d] = At("start")
  <2>1. call'[d].pc = "start"
    BY <1>3, <1>5
  <2> QED
    BY <2>1 DEF CallJustified
<1>6. CASE KindOf[d] \notin {"webhook", "refund"} /\ Begun(d) /\ call'[d] = At("done")
  <2>1. call'[d].pc = "done"
    BY <1>3, <1>6
  <2>2. KindOf[d] = "callback" => InvoiceOf[d] \in captured'
    BY <1>1, <1>6 DEF Begun, Justified, CallJustified
  <2> QED
    BY <1>6, <2>1, <2>2 DEF CallJustified
<1> QED
  BY <1>4, <1>5, <1>6, CrashCalls

LEMMA NextJustified == TypeInv /\ Justified /\ [Next]_vars => Justified'
<1> SUFFICES ASSUME TypeInv, Justified, [Next]_vars PROVE Justified'
  OBVIOUS
<1>1. ASSUME NEW c \in Calls, PutPaid(c) PROVE Justified'
  BY <1>1, PayJustified DEF PutPaid
<1>2. ASSUME NEW c \in Calls, MarkPaid(c) PROVE Justified'
  BY <1>2, PayJustified DEF MarkPaid
<1>3. CASE \E c \in Calls : Begin(c) \/ Proceed(c)
  BY <1>1, <1>2, <1>3, BeginJustified, LookupJustified, ChargeJustified, PutStatusJustified, CheckPaidJustified,
     ReadRowsJustified, WriteRowsJustified, PostJustified, ReplyJustified DEF Proceed
<1>4. CASE Crash
  BY <1>4, CrashJustified
<1>5. CASE UNCHANGED vars
  BY <1>5 DEF vars, Justified, NothingWithoutPayment, CallJustified, RowsJustified, Entitled, Verified
<1> QED
  BY <1>3, <1>4, <1>5 DEF Next, Quiet

\* No invoice is marked paid, no service leaves "Awaiting Payment" and no job is
\* queued without the money of an invoice that lists it, whatever the calls, the
\* crashes and the failed requests.
THEOREM PaidFirst == Spec => []NothingWithoutPayment
<1>1. Justified => NothingWithoutPayment
  BY DEF Justified
<1> QED
  BY <1>1, InitTypeInv, NextTypeInv, InitJustified, NextJustified, PTL DEF Spec

-----------------------------------------------------------------------------
(* NoLostActivation.  First the queue for the account: what Append and Tail *)
(* do to the calls that are in it.                                          *)

LEMMA QueueAppend ==
  ASSUME NEW q \in Seq(Calls), NEW c \in Calls, QueuedOncePerCall(q), ~Queued(c, q)
  PROVE  /\ QueuedOncePerCall(Append(q, c))
         /\ \A d \in Calls : Queued(d, Append(q, c)) <=> d = c \/ Queued(d, q)
<1>1. /\ Append(q, c) \in Seq(Calls)
      /\ Len(Append(q, c)) = Len(q) + 1
      /\ \A n \in 1 .. Len(q) : Append(q, c)[n] = q[n]
      /\ Append(q, c)[Len(q) + 1] = c
  BY AppendProperties
<1>2. Len(q) \in Nat
  BY LenProperties
<1> DEFINE a == Append(q, c)
<1> HIDE DEF a
<1>3. \A n \in 1 .. Len(a) : (n \in 1 .. Len(q) /\ a[n] = q[n]) \/ (n = Len(q) + 1 /\ a[n] = c)
  BY <1>1, <1>2 DEF a
<1>4. QueuedOncePerCall(a)
  BY <1>3 DEF QueuedOncePerCall, Queued
<1>5. ASSUME NEW d \in Calls PROVE Queued(d, a) <=> d = c \/ Queued(d, q)
  <2>1. Queued(d, a) => d = c \/ Queued(d, q)
    BY <1>3 DEF Queued
  <2>2. Queued(d, q) => Queued(d, a)
    BY <1>1, <1>2 DEF Queued, a
  <2>3. Len(q) + 1 \in 1 .. Len(a) /\ a[Len(q) + 1] = c
    BY <1>1, <1>2 DEF a
  <2>4. d = c => Queued(d, a)
    BY <2>3 DEF Queued
  <2> QED
    BY <2>1, <2>2, <2>4
<1> QED
  BY <1>4, <1>5 DEF a

LEMMA QueueTail ==
  ASSUME NEW q \in Seq(Calls), q # <<>>, QueuedOncePerCall(q)
  PROVE  /\ QueuedOncePerCall(Tail(q))
         /\ \A d \in Calls : Queued(d, Tail(q)) <=> d # Head(q) /\ Queued(d, q)
<1>1. /\ Tail(q) \in Seq(Calls)
      /\ Len(Tail(q)) = Len(q) - 1
      /\ \A n \in 1 .. Len(Tail(q)) : Tail(q)[n] = q[n + 1]
  BY HeadTailProperties
<1>2. Len(q) \in Nat \ {0} /\ Head(q) = q[1]
  BY EmptySeq, LenProperties
<1> DEFINE t == Tail(q)
<1> HIDE DEF t
<1>3. \A n \in 1 .. Len(t) : n + 1 \in 2 .. Len(q) /\ t[n] = q[n + 1]
  BY <1>1, <1>2 DEF t
<1>4. \A n \in 2 .. Len(q) : n - 1 \in 1 .. Len(t) /\ t[n - 1] = q[n]
  BY <1>1, <1>2 DEF t
<1>5. QueuedOncePerCall(t)
  <2> SUFFICES ASSUME NEW m \in 1 .. Len(t), NEW n \in 1 .. Len(t), t[m] = t[n] PROVE m = n
    BY DEF QueuedOncePerCall
  <2>1. q[m + 1] = q[n + 1] /\ m + 1 \in 1 .. Len(q) /\ n + 1 \in 1 .. Len(q)
    BY <1>3
  <2>2. m + 1 = n + 1
    BY <2>1 DEF QueuedOncePerCall
  <2> QED
    BY <2>2
<1>6. ASSUME NEW d \in Calls PROVE Queued(d, t) <=> d # Head(q) /\ Queued(d, q)
  <2>1. ASSUME NEW n \in 1 .. Len(t), t[n] = d PROVE d # Head(q) /\ Queued(d, q)
    <3>1. n + 1 \in 1 .. Len(q) /\ q[n + 1] = d /\ n + 1 # 1
      BY <1>3, <2>1
    <3>2. q[n + 1] # q[1]
      BY <1>2, <3>1 DEF QueuedOncePerCall
    <3> QED
      BY <1>2, <3>1, <3>2 DEF Queued
  <2>2. ASSUME NEW n \in 1 .. Len(q), q[n] = d, d # Head(q) PROVE Queued(d, t)
    <3>1. n \in 2 .. Len(q)
      BY <1>2, <2>2
    <3> QED
      BY <1>4, <2>2, <3>1 DEF Queued
  <2> QED
    BY <2>1, <2>2 DEF Queued
<1> QED
  BY <1>5, <1>6 DEF t

\* Only the head of the queue holds the account, so two activations never do.
LEMMA OneHolder == \A c, d : Holds(c) /\ Holds(d) => c = d
  BY DEF Holds

InLock(c, pc) == KindOf[c] \in Activating /\ pc \in LockPc

LEMMA HolderQueued ==
  ASSUME TypeInv, NEW c \in Calls, Holds(c)
  PROVE  Queued(c, queue)
<1>1. Len(queue) \in Nat \ {0} /\ Head(queue) = queue[1]
  BY EmptySeq, LenProperties DEF TypeInv, TypeOK, Holds
<1> QED
  BY <1>1 DEF Holds, Queued

LEMMA InitLocked == Init => Locked
<1> SUFFICES ASSUME Init PROVE Locked
  OBVIOUS
<1> PICK S \in Scenarios : call = [c \in Calls |-> At(IF c \in S THEN "start" ELSE "off")]
  BY DEF Init
<1>1. \A c \in Calls : call[c].pc \in {"off", "start"}
  BY DEF At
<1>2. queue = <<>> /\ Len(queue) = 0
  BY EmptySeq DEF Init
<1>3. QueuedOncePerCall(queue) /\ \A c \in Calls : ~Queued(c, queue)
  BY <1>2 DEF QueuedOncePerCall, Queued
<1> QED
  BY <1>1, <1>3 DEF Locked, Role, LockPc

\* A call that moves on without the queue moving: it is as much in the lock as
\* it was, and if it goes past the wait it holds the account.
LEMMA StayLocked ==
  ASSUME TypeInv, Locked, NEW c \in Calls, NEW l \in Local,
         call' = [call EXCEPT ![c] = l], queue' = queue,
         Role(c, l.pc), InLock(c, l.pc) <=> InLock(c, call[c].pc),
         InLock(c, l.pc) /\ l.pc # "wait" => Holds(c)
  PROVE  Locked'
<1>1. call'[c] = l /\ \A d \in Calls : d # c => call'[d] = call[d]
  BY DEF TypeInv, TypeOK
<1>2. \A d \in Calls : Holds(d)' = Holds(d)
  BY DEF Holds
<1> SUFFICES ASSUME NEW d \in Calls
             PROVE  /\ Role(d, call'[d].pc)
                    /\ InLock(d, call'[d].pc) <=> Queued(d, queue)
                    /\ InLock(d, call'[d].pc) /\ call'[d].pc # "wait" => Holds(d)
  BY <1>2 DEF Locked, InLock, Role
<1>3. CASE d = c
  BY <1>1, <1>3 DEF Locked, InLock
<1>4. CASE d # c
  BY <1>1, <1>4 DEF Locked, InLock
<1> QED
  BY <1>3, <1>4

\* An activation lines up for the account ...
LEMMA WaitLocked ==
  ASSUME TypeInv, Locked, NEW c \in Calls, Goto(c, "wait"),
         KindOf[c] \in Activating, ~InLock(c, call[c].pc)
  PROVE  Locked'
<1>1. call'[c] = At("wait") /\ \A d \in Calls : d # c => call'[d] = call[d]
  BY DEF Goto, TypeInv, TypeOK
<1>2. queue' = Append(queue, c)
  BY DEF Goto, AccountLock
<1>3. QueuedOncePerCall(queue') /\ \A d \in Calls : Queued(d, queue') <=> d = c \/ Queued(d, queue)
  BY <1>2, QueueAppend DEF Locked, InLock, TypeInv, TypeOK
<1>4. ASSUME NEW d \in Calls, Holds(d) PROVE Holds(d)'
  <2>1. Head(Append(queue, c)) = Head(queue) /\ Append(queue, c) # <<>>
    BY <1>4, HeadTailAppend, AppendProperties DEF Holds, TypeInv, TypeOK
  <2> QED
    BY <1>2, <1>4, <2>1 DEF Holds
<1>5. At("wait").pc = "wait"
  BY DEF At
<1> SUFFICES ASSUME NEW d \in Calls
             PROVE  /\ Role(d, call'[d].pc)
                    /\ InLock(d, call'[d].pc) <=> Queued(d, queue')
                    /\ InLock(d, call'[d].pc) /\ call'[d].pc # "wait" => Holds(d)'
  BY <1>3 DEF Locked, InLock, Role
<1>6. CASE d = c
  BY <1>1, <1>3, <1>5, <1>6 DEF Role, InLock, LockPc
<1>7. CASE d # c
  BY <1>1, <1>3, <1>4, <1>7 DEF Locked, InLock
<1> QED
  BY <1>6, <1>7

\* ... and a call that throws or ends lets the next in, if it holds it.
LEMMA LeaveLocked ==
  ASSUME TypeInv, Locked, NEW c \in Calls, NEW pc \in {"start", "done"}, Goto(c, pc),
         InLock(c, call[c].pc) => Holds(c)
  PROVE  Locked'
<1>1. call'[c] = At(pc) /\ \A d \in Calls : d # c => call'[d] = call[d]
  BY DEF Goto, TypeInv, TypeOK
<1>2. At(pc).pc = pc /\ At(pc) \in Local
  BY DEF At, Local, Pc, RowStatus
<1>3. Role(c, pc) /\ ~InLock(c, pc)
  BY DEF Role, InLock, LockPc
<1>4. CASE ~Holds(c)
  <2>1. queue' = queue /\ call' = [call EXCEPT ![c] = At(pc)]
    BY <1>4 DEF Goto, AccountLock
  <2> QED
    BY <1>2, <1>3, <1>4, <2>1, StayLocked
<1>5. CASE Holds(c)
  <2>1. queue' = Tail(queue) /\ queue # <<>> /\ Head(queue) = c
    BY <1>5 DEF Goto, AccountLock, Holds
  <2>2. QueuedOncePerCall(queue') /\ \A d \in Calls : Queued(d, queue') <=> d # c /\ Queued(d, queue)
    BY <2>1, QueueTail DEF Locked, TypeInv, TypeOK
  <2> SUFFICES ASSUME NEW d \in Calls
               PROVE  /\ Role(d, call'[d].pc)
                      /\ InLock(d, call'[d].pc) <=> Queued(d, queue')
                      /\ InLock(d, call'[d].pc) /\ call'[d].pc # "wait" => Holds(d)'
    BY <2>2 DEF Locked, InLock, Role
  <2>3. CASE d = c
    BY <1>1, <1>2, <1>3, <2>2, <2>3
  <2>4. CASE d # c
    <3>1. ~Holds(d)
      BY <1>5, <2>4, OneHolder
    <3> QED
      BY <1>1, <2>2, <2>4, <3>1 DEF Locked, InLock
  <2> QED
    BY <2>3, <2>4
<1> QED
  BY <1>4, <1>5

\* A call throws before it queues up, or once it holds the account.
LEMMA ThrowLocked ==
  ASSUME TypeInv, Locked, NEW c \in Calls, Throw(c), InLock(c, call[c].pc) => Holds(c)
  PROVE  Locked'
<1> DEFINE pc == IF KindOf[c] \in {"webhook", "refund"} THEN "start" ELSE "done"
<1>1. pc \in {"start", "done"} /\ Goto(c, pc)
  BY DEF Throw
<1> HIDE DEF pc
<1> QED
  BY <1>1, LeaveLocked

\* Going on to a step where the lock is as it was.
LEMMA OnLocked ==
  ASSUME TypeInv, Locked, NEW c \in Calls, NEW pc \in Pc \ {"wait", "start", "done"}, Goto(c, pc),
         Role(c, pc), InLock(c, pc) <=> InLock(c, call[c].pc), InLock(c, pc) => Holds(c)
  PROVE  Locked'
<1>1. queue' = queue /\ call' = [call EXCEPT ![c] = At(pc)]
  BY DEF Goto, AccountLock
<1>2. At(pc) \in Local /\ At(pc).pc = pc
  BY DEF At, Local, RowStatus
<1> QED
  BY <1>1, <1>2, StayLocked

LEMMA BeginLocked == ASSUME TypeInv, Locked, NEW c \in Calls, Begin(c) PROVE Locked'
<1>1. ~InLock(c, call[c].pc)
  BY DEF Begin, InLock, LockPc
<1>2. CASE KindOf[c] = "resync"
  BY <1>1, <1>2, WaitLocked DEF Begin, Activating
<1>3. CASE KindOf[c] = "flip"
  <2>1. Goto(c, "readRows") /\ "readRows" \in Pc \ {"wait", "start", "done"}
    BY <1>3 DEF Begin, Pc
  <2>2. Role(c, "readRows") /\ ~InLock(c, "readRows")
    BY <1>3 DEF Role, InLock, Activating
  <2> QED
    BY <1>1, <2>1, <2>2, OnLocked
<1>4. CASE KindOf[c] \notin {"resync", "flip"}
  <2>1. Goto(c, "lookup") /\ "lookup" \in Pc \ {"wait", "start", "done"}
    BY <1>4 DEF Begin, Pc
  <2>2. Role(c, "lookup") /\ ~InLock(c, "lookup")
    BY DEF Role, InLock, LockPc
  <2> QED
    BY <1>1, <2>1, <2>2, OnLocked
<1> QED
  BY <1>2, <1>3, <1>4

LEMMA LookupLocked == ASSUME TypeInv, Locked, NEW c \in Calls, Lookup(c) PROVE Locked'
<1>1. ~InLock(c, call[c].pc)
  BY DEF Lookup, InLock, LockPc
<1> DEFINE pc == AfterLookup(c)
<1>2. KindOf[c] \in {"capture", "webhook", "callback", "refund", "delete", "grace"}
  BY KindIn DEF Lookup, TypeInv, Looks, Kinds, Activating
<1>3. /\ pc \in {"wait", "charge", "done", "putStatus", "readRows"}
      /\ pc = "wait" => KindOf[c] \in Activating
      /\ pc = "charge" => KindOf[c] = "capture"
      /\ pc = "putStatus" => KindOf[c] \in {"refund", "delete"}
      /\ pc = "readRows" => KindOf[c] = "grace"
  BY <1>2 DEF AfterLookup, Activating
<1>4. Goto(c, pc) \/ Throw(c)
  BY DEF Lookup
<1> HIDE DEF pc
<1>5. CASE Throw(c)
  BY <1>1, <1>5, ThrowLocked
<1>6. CASE Goto(c, pc) /\ pc = "wait"
  BY <1>1, <1>3, <1>6, WaitLocked
<1>7. CASE Goto(c, pc) /\ pc = "done"
  BY <1>1, <1>7, LeaveLocked
<1>8. CASE Goto(c, pc) /\ pc \in {"charge", "putStatus", "readRows"}
  <2>1. pc \in Pc \ {"wait", "start", "done"} /\ Role(c, pc) /\ ~InLock(c, pc)
    BY <1>3, <1>8 DEF Pc, Role, InLock, LockPc, Activating
  <2> QED
    BY <1>1, <1>8, <2>1, OnLocked
<1> QED
  BY <1>3, <1>4, <1>5, <1>6, <1>7, <1>8

LEMMA ChargeLocked == ASSUME TypeInv, Locked, NEW c \in Calls, Charge(c) PROVE Locked'
<1>1. Goto(c, "putPaid") \/ Throw(c)
  BY DEF Charge
<1>2. ~InLock(c, call[c].pc) /\ ~InLock(c, "putPaid") /\ "putPaid" \in Pc \ {"wait", "start", "done"}
  BY DEF Charge, InLock, LockPc, Pc
<1>3. Role(c, "putPaid")
  BY DEF Charge, Locked, Role
<1> QED
  BY <1>1, <1>2, <1>3, OnLocked, ThrowLocked

LEMMA PutPaidLocked == ASSUME TypeInv, Locked, NEW c \in Calls, PutPaid(c) PROVE Locked'
<1>1. Goto(c, "wait") \/ Throw(c)
  BY DEF PutPaid
<1>2. ~InLock(c, call[c].pc) /\ KindOf[c] \in Activating
  BY DEF PutPaid, InLock, LockPc, Locked, Role, Activating
<1> QED
  BY <1>1, <1>2, WaitLocked, ThrowLocked

LEMMA PutStatusLocked == ASSUME TypeInv, Locked, NEW c \in Calls, PutStatus(c) PROVE Locked'
<1>1. KindOf[c] \notin Activating /\ ~InLock(c, call[c].pc)
  BY DEF PutStatus, Locked, Role, InLock, Activating
<1>2. (Goto(c, "readRows") /\ KindOf[c] = "refund") \/ Goto(c, "done") \/ Throw(c)
  BY DEF PutStatus
<1>3. "readRows" \in Pc \ {"wait", "start", "done"} /\ ~InLock(c, "readRows")
  BY <1>1 DEF Pc, InLock
<1>4. KindOf[c] = "refund" => Role(c, "readRows")
  BY DEF Role
<1> QED
  BY <1>1, <1>2, <1>3, <1>4, OnLocked, LeaveLocked, ThrowLocked

\* The steps of an activation that has the account.
LEMMA InsideLocked ==
  ASSUME TypeInv, Locked, NEW c \in Calls, InLock(c, call[c].pc), Holds(c),
         NEW pc \in {"markPaid", "readRows", "done"}, Goto(c, pc) \/ Throw(c)
  PROVE  Locked'
<1>1. pc # "done" => pc \in Pc \ {"wait", "start", "done"} /\ Role(c, pc) /\ InLock(c, pc)
  BY DEF Pc, Role, InLock, LockPc, Activating
<1> QED
  BY <1>1, OnLocked, LeaveLocked, ThrowLocked

LEMMA CheckPaidLocked == ASSUME TypeInv, Locked, NEW c \in Calls, CheckPaid(c) PROVE Locked'
<1>1. Goto(c, "readRows") \/ Goto(c, "markPaid") \/ Goto(c, "done") \/ Throw(c)
  BY DEF CheckPaid
<1>2. InLock(c, call[c].pc) /\ Holds(c)
  BY DEF CheckPaid, Locked, Role, InLock, LockPc
<1> QED
  BY <1>1, <1>2, InsideLocked

LEMMA MarkPaidLocked == ASSUME TypeInv, Locked, NEW c \in Calls, MarkPaid(c) PROVE Locked'
<1>1. Goto(c, "readRows") \/ Throw(c)
  BY DEF MarkPaid
<1>2. InLock(c, call[c].pc) /\ Holds(c)
  BY DEF MarkPaid, Locked, Role, InLock, LockPc
<1> QED
  BY <1>1, <1>2, InsideLocked

\* Reading the rows, writing them and queueing the jobs: an activation has the
\* account, and the other writers are not in the queue.
LEMMA PastWait ==
  ASSUME Locked, NEW c \in Calls, call[c].pc \in {"readRows", "writeRows", "post"}
  PROVE  InLock(c, call[c].pc) => Holds(c)
  BY DEF Locked, InLock, LockPc

LEMMA ReadRowsCases ==
  ASSUME NEW c \in Calls, ReadRows(c)
  PROVE  \/ Throw(c)
         \/ Goto(c, "done")
         \/ \E T \in Touched(c) : /\ call' = [call EXCEPT ![c] = [pc |-> "writeRows", rows |-> row, todo |-> T]]
                                  /\ queue' = queue
  BY DEF ReadRows

LEMMA ReadRowsLocked == ASSUME TypeInv, Locked, NEW c \in Calls, ReadRows(c) PROVE Locked'
<1>1. call[c].pc = "readRows" /\ (InLock(c, call[c].pc) => Holds(c))
  BY PastWait DEF ReadRows
<1>2. CASE Throw(c) \/ Goto(c, "done")
  BY <1>1, <1>2, LeaveLocked, ThrowLocked
<1>3. ASSUME NEW T \in Touched(c), queue' = queue,
             call' = [call EXCEPT ![c] = [pc |-> "writeRows", rows |-> row, todo |-> T]]
      PROVE  Locked'
  <2> DEFINE l == [pc |-> "writeRows", rows |-> row, todo |-> T]
  <2>1. l \in Local /\ l.pc = "writeRows"
    BY TouchedType DEF Local, Pc, TypeInv, TypeOK
  <2>2. Role(c, "writeRows") /\ (InLock(c, "writeRows") <=> InLock(c, call[c].pc))
    BY <1>1 DEF Locked, Role, InLock, LockPc
  <2> HIDE DEF l
  <2>3. call' = [call EXCEPT ![c] = l]
    BY <1>3 DEF l
  <2> QED
    BY <1>1, <1>3, <2>1, <2>2, <2>3, StayLocked
<1> QED
  BY <1>2, <1>3, ReadRowsCases

\* What an activation has in hand once its rows are written.
LEMMA PostLocal ==
  ASSUME TypeInv, NEW c \in Calls, NEW todo \in SUBSET Services
  PROVE  LET l == [At("post") EXCEPT !.todo = todo]
         IN  l \in Local /\ l.pc = "post" /\ l.todo = todo
  BY DEF At, Local, Pc, RowStatus

LEMMA WriteRowsLocked == ASSUME TypeInv, Locked, NEW c \in Calls, WriteRows(c) PROVE Locked'
<1>1. call[c].pc = "writeRows" /\ (InLock(c, call[c].pc) => Holds(c))
  BY PastWait DEF WriteRows
<1>2. CASE Throw(c) \/ Goto(c, "done")
  BY <1>1, <1>2, LeaveLocked, ThrowLocked
<1>3. CASE /\ KindOf[c] \in Activating
           /\ call' = [call EXCEPT ![c] = [At("post") EXCEPT !.todo = call[c].todo]]
           /\ queue' = queue
  <2> DEFINE l == [At("post") EXCEPT !.todo = call[c].todo]
  <2>1. l \in Local /\ l.pc = "post"
    BY PostLocal DEF TypeInv, TypeOK
  <2>2. Role(c, "post") /\ InLock(c, "post") /\ InLock(c, call[c].pc)
    BY <1>1, <1>3 DEF Role, InLock, LockPc
  <2>3. call' = [call EXCEPT ![c] = l]
    BY <1>3
  <2> HIDE DEF l
  <2> QED
    BY <1>1, <1>3, <2>1, <2>2, <2>3, StayLocked
<1> QED
  BY <1>2, <1>3, WriteRowsCases

LEMMA PostLocked == ASSUME TypeInv, Locked, NEW c \in Calls, Post(c) PROVE Locked'
<1>1. call[c].pc = "post" /\ queue' = queue /\ (InLock(c, call[c].pc) => Holds(c))
  BY PastWait DEF Post
<1>2. PICK s \in call[c].todo :
        call' = [call EXCEPT ![c] = [pc |-> "post", rows |-> call[c].rows, todo |-> call[c].todo \ {s}]]
  BY PostOne
<1> DEFINE l == [pc |-> "post", rows |-> call[c].rows, todo |-> call[c].todo \ {s}]
<1>3. l \in Local /\ l.pc = "post"
  BY DEF Local, Pc, TypeInv, TypeOK
<1>4. Role(c, "post")
  BY <1>1 DEF Locked
<1>5. call' = [call EXCEPT ![c] = l]
  BY <1>2
<1> HIDE DEF l
<1> QED
  BY <1>1, <1>3, <1>4, <1>5, StayLocked

LEMMA ReplyLocked == ASSUME TypeInv, Locked, NEW c \in Calls, Reply(c) PROVE Locked'
<1>1. InLock(c, call[c].pc) => Holds(c)
  BY PastWait DEF Reply
<1> QED
  BY <1>1, LeaveLocked, ThrowLocked DEF Reply

\* A crash frees the account, and leaves nobody in its queue.
LEMMA CrashLocked == ASSUME TypeInv, Crash PROVE Locked'
<1>1. queue' = <<>> /\ Len(queue') = 0
  BY EmptySeq DEF Crash
<1>2. QueuedOncePerCall(queue') /\ \A c \in Calls : ~Queued(c, queue')
  BY <1>1 DEF QueuedOncePerCall, Queued
<1>3. \A c \in Calls : call'[c].pc \in {"off", "start", "done"}
  BY DEF Crash, Begun, At
<1> QED
  BY <1>2, <1>3 DEF Locked, Role, LockPc

LEMMA NextLocked == TypeInv /\ Locked /\ [Next]_vars => Locked'
<1> SUFFICES ASSUME TypeInv, Locked, [Next]_vars PROVE Locked'
  OBVIOUS
<1>1. CASE \E c \in Calls : Begin(c) \/ Proceed(c)
  BY <1>1, BeginLocked, LookupLocked, ChargeLocked, PutPaidLocked, PutStatusLocked, CheckPaidLocked, MarkPaidLocked,
     ReadRowsLocked, WriteRowsLocked, PostLocked, ReplyLocked DEF Proceed
<1>2. CASE Crash
  BY <1>2, CrashLocked
<1>3. CASE UNCHANGED vars
  BY <1>3 DEF vars, Locked, Role, Holds
<1> QED
  BY <1>1, <1>2, <1>3 DEF Next, Quiet
-----------------------------------------------------------------------------
(* Now the rows.  A step of call c leaves the others where they are, and    *)
(* takes c somewhere else than "off".                                       *)

MovesTo(c, l) == call' = [call EXCEPT ![c] = l]

LEMMA GotoMoves ==
  ASSUME NEW c \in Calls, NEW pc \in Pc \ {"off"}, Goto(c, pc)
  PROVE  \E l \in Local : l.pc = pc /\ MovesTo(c, l)
<1>1. At(pc) \in Local /\ At(pc).pc = pc
  BY DEF At, Local, RowStatus
<1> QED
  BY <1>1 DEF Goto, MovesTo

LEMMA ThrowMoves ==
  ASSUME NEW c \in Calls, Throw(c)
  PROVE  \E l \in Local : l.pc \in {"start", "done"} /\ MovesTo(c, l)
<1> DEFINE pc == IF KindOf[c] \in {"webhook", "refund"} THEN "start" ELSE "done"
<1>1. pc \in Pc \ {"off"} /\ Goto(c, pc) /\ pc \in {"start", "done"}
  BY DEF Throw, Pc
<1> HIDE DEF pc
<1> QED
  BY <1>1, GotoMoves

\* The steps that leave the rows and the jobs of the account alone.
LEMMA QuietMoves ==
  ASSUME TypeInv, NEW c \in Calls,
         \/ Begin(c) \/ Lookup(c) \/ Charge(c) \/ PutPaid(c) \/ PutStatus(c)
         \/ CheckPaid(c) \/ MarkPaid(c) \/ Reply(c)
  PROVE  /\ UNCHANGED <<row, jobs>>
         /\ \E l \in Local : l.pc \notin {"off", "writeRows", "post"} /\ MovesTo(c, l)
<1> DEFINE P == Pc \ {"off", "writeRows", "post"}
<1>1. UNCHANGED <<row, jobs>>
  BY DEF Begin, Lookup, Charge, PutPaid, PutStatus, CheckPaid, MarkPaid, Reply
<1>2. ASSUME NEW pc \in P, Goto(c, pc)
      PROVE  \E l \in Local : l.pc \notin {"off", "writeRows", "post"} /\ MovesTo(c, l)
  BY <1>2, GotoMoves
<1>3. Begin(c) => \E pc \in P : Goto(c, pc)
  <2>1. "wait" \in P /\ "readRows" \in P /\ "lookup" \in P
    BY DEF Pc
  <2> QED
    BY <2>1 DEF Begin
<1>4. Lookup(c) => Throw(c) \/ \E pc \in P : Goto(c, pc)
  BY AfterLookupType DEF Lookup, Pc
<1>5. Charge(c) \/ PutPaid(c) \/ PutStatus(c) \/ MarkPaid(c) \/ Reply(c) => Throw(c) \/ \E pc \in P : Goto(c, pc)
  <2>1. "putPaid" \in P /\ "wait" \in P /\ "readRows" \in P /\ "done" \in P
    BY DEF Pc
  <2> QED
    BY <2>1 DEF Charge, PutPaid, PutStatus, MarkPaid, Reply
<1>6. CheckPaid(c) => Throw(c) \/ \E pc \in P : Goto(c, pc)
  <2>1. "readRows" \in P /\ "markPaid" \in P /\ "done" \in P
    BY DEF Pc
  <2> QED
    BY <2>1 DEF CheckPaid
<1>7. Throw(c) \/ \E pc \in P : Goto(c, pc)
  BY <1>3, <1>4, <1>5, <1>6
<1> HIDE DEF P
<1> QED
  BY <1>1, <1>2, <1>7, ThrowMoves

\* The rows go back with their new statuses, or not at all; once they are
\* acknowledged an activation goes on to its jobs.
LEMMA WriteRowsMoves ==
  ASSUME TypeInv, NEW c \in Calls, WriteRows(c)
  PROVE  /\ row' \in {row, Written(c)}
         /\ jobs' = jobs
         /\ \E l \in Local :
              /\ MovesTo(c, l)
              /\ \/ l.pc \in {"start", "done"}
                 \/ l.pc = "post" /\ l.todo = call[c].todo /\ row' = Written(c)
<1>1. row' \in {row, Written(c)} /\ jobs' = jobs
  BY WriteRowsCases DEF WriteRows
<1>2. \/ Throw(c)
      \/ Goto(c, "done")
      \/ /\ call' = [call EXCEPT ![c] = [At("post") EXCEPT !.todo = call[c].todo]]
         /\ row' = Written(c)
  BY DEF WriteRows, Written
<1>3. "done" \in Pc \ {"off"}
  BY DEF Pc
<1>4. CASE /\ call' = [call EXCEPT ![c] = [At("post") EXCEPT !.todo = call[c].todo]]
           /\ row' = Written(c)
  <2> DEFINE l == [At("post") EXCEPT !.todo = call[c].todo]
  <2>1. l \in Local /\ l.pc = "post" /\ l.todo = call[c].todo
    BY PostLocal DEF TypeInv, TypeOK
  <2>2. MovesTo(c, l)
    BY <1>4 DEF MovesTo
  <2> HIDE DEF l
  <2> QED
    BY <1>1, <1>4, <2>1, <2>2
<1> QED
  BY <1>1, <1>2, <1>3, <1>4, ThrowMoves, GotoMoves

\* A call that never comes stays away, so a behaviour in which all who write
\* rows take the lock was one from its start.
LEMMA RespectedBefore ==
  ASSUME TypeInv, [Next]_vars, LockRespected'
  PROVE  LockRespected
<1>1. ASSUME NEW c \in Calls, Begin(c) \/ Proceed(c)
      PROVE  \E l : l.pc # "off" /\ MovesTo(c, l)
  <2>1. CASE ReadRows(c)
    <3>1. "done" \in Pc \ {"off"}
      BY DEF Pc
    <3>2. ASSUME NEW T \in Touched(c), call' = [call EXCEPT ![c] = [pc |-> "writeRows", rows |-> row, todo |-> T]]
          PROVE  \E l : l.pc # "off" /\ MovesTo(c, l)
      <4> DEFINE l == [pc |-> "writeRows", rows |-> row, todo |-> T]
      <4>1. l.pc # "off" /\ MovesTo(c, l)
        BY <3>2 DEF MovesTo
      <4> HIDE DEF l
      <4> QED
        BY <4>1
    <3> QED
      BY <2>1, <3>1, <3>2, ReadRowsCases, ThrowMoves, GotoMoves
  <2>2. CASE WriteRows(c)
    BY <2>2, WriteRowsMoves
  <2>3. CASE Post(c)
    <3>1. PICK s \in call[c].todo :
            call' = [call EXCEPT ![c] = [pc |-> "post", rows |-> call[c].rows, todo |-> call[c].todo \ {s}]]
      BY <2>3, PostOne
    <3> DEFINE l == [pc |-> "post", rows |-> call[c].rows, todo |-> call[c].todo \ {s}]
    <3>2. l.pc # "off" /\ MovesTo(c, l)
      BY <3>1 DEF MovesTo
    <3> HIDE DEF l
    <3> QED
      BY <3>2
  <2> QED
    BY <1>1, <2>1, <2>2, <2>3, QuietMoves DEF Proceed
<1> SUFFICES ASSUME NEW d \in Calls, KindOf[d] \in {"flip", "refund", "grace"} PROVE call[d].pc = "off"
  BY DEF LockRespected
<1>2. call'[d].pc = "off"
  BY DEF LockRespected
<1>3. ASSUME NEW c \in Calls, Begin(c) \/ Proceed(c) PROVE call[d].pc = "off"
  <2>1. PICK l : l.pc # "off" /\ MovesTo(c, l)
    BY <1>1, <1>3
  <2> QED
    BY <1>2, <2>1 DEF MovesTo, TypeInv, TypeOK
<1>4. CASE Crash
  <2>1. At("start").pc # "off" /\ At("done").pc # "off"
    BY DEF At
  <2> QED
    BY <1>2, <1>4, <2>1, CrashCalls
<1> QED
  BY <1>2, <1>3, <1>4 DEF Next, Quiet, vars

\* A step of c keeps RowsCurrent when it takes no row back to "Awaiting
\* Payment", changes no row that another call is about to write, and takes c
\* where it knows the rows as they are now.
LEMMA RowsStep ==
  ASSUME TypeInv, RowsCurrent, NEW c \in Calls, NEW l, MovesTo(c, l), jobs' = jobs,
         \A s \in Services : row[s] # "Awaiting Payment" => row'[s] # "Awaiting Payment",
         row' = row \/ \A d \in Calls \ {c} : call[d].pc # "writeRows",
         l.pc = "writeRows" => l.rows = row',
         l.pc = "post" => \A s \in l.todo : row'[s] # "Awaiting Payment"
  PROVE  RowsCurrent'
<1>1. call'[c] = l /\ \A d \in Calls : d # c => call'[d] = call[d]
  BY DEF MovesTo, TypeInv, TypeOK
<1>2. \A i \in Invoices, s \in Services : jobs'[<<i, s>>] > 0 => row'[s] # "Awaiting Payment"
  BY DEF RowsCurrent
<1>3. ASSUME NEW d \in Calls
      PROVE  /\ call'[d].pc = "writeRows" => call'[d].rows = row'
             /\ call'[d].pc = "post" => \A s \in call'[d].todo : row'[s] # "Awaiting Payment"
  <2>1. CASE d = c
    BY <1>1, <2>1
  <2>2. CASE d # c
    <3>1. call'[d] = call[d] /\ call[d].todo \subseteq Services
      BY <1>1, <2>2 DEF TypeInv, TypeOK
    <3> QED
      BY <2>2, <3>1 DEF RowsCurrent
  <2> QED
    BY <2>1, <2>2
<1> QED
  BY <1>2, <1>3 DEF RowsCurrent

\* What an activation writes: the account as it read it, which is as it is,
\* with its own services activated.
LEMMA WrittenActive ==
  ASSUME TypeInv, RowsCurrent, NEW c \in Calls, call[c].pc = "writeRows", KindOf[c] \in Activating
  PROVE  /\ \A s \in Services : row[s] # "Awaiting Payment" => Written(c)[s] # "Awaiting Payment"
         /\ \A s \in call[c].todo : Written(c)[s] # "Awaiting Payment"
<1>1. call[c].rows = row /\ call[c].todo \subseteq Services
  BY DEF RowsCurrent, TypeInv, TypeOK
<1>2. \A s : NewStatus(c, s) # "Awaiting Payment"
  BY DEF NewStatus, ActivatedStatusFor
<1> QED
  BY <1>1, <1>2 DEF Written

LEMMA WriteRowsCurrent ==
  ASSUME TypeInv, Locked, RowsCurrent, NEW c \in Calls, KindOf[c] \in Activating, WriteRows(c),
         \A d \in Calls : call[d].pc = "writeRows" => KindOf[d] \in Activating
  PROVE  RowsCurrent'
<1>1. PICK l \in Local :
        /\ MovesTo(c, l)
        /\ \/ l.pc \in {"start", "done"}
           \/ l.pc = "post" /\ l.todo = call[c].todo /\ row' = Written(c)
  BY WriteRowsMoves
<1>2. row' \in {row, Written(c)} /\ jobs' = jobs /\ call[c].pc = "writeRows"
  BY WriteRowsMoves DEF WriteRows
<1>3. \A d \in Calls \ {c} : call[d].pc # "writeRows"
  <2> SUFFICES ASSUME NEW d \in Calls, call[d].pc = "writeRows" PROVE d = c
    OBVIOUS
  <2>1. Holds(c) /\ Holds(d)
    BY <1>2 DEF Locked, LockPc
  <2> QED
    BY <2>1, OneHolder
<1>4. \A s \in Services : row[s] # "Awaiting Payment" => row'[s] # "Awaiting Payment"
  BY <1>2, WrittenActive
<1>5. l.pc = "post" => \A s \in l.todo : row'[s] # "Awaiting Payment"
  BY <1>1, <1>2, WrittenActive
<1>6. l.pc # "writeRows"
  BY <1>1
<1> QED
  BY <1>1, <1>2, <1>3, <1>4, <1>5, <1>6, RowsStep

LEMMA PostCurrent ==
  ASSUME TypeInv, RowsCurrent, NEW c \in Calls, Post(c)
  PROVE  RowsCurrent'
<1>1. PICK s \in call[c].todo :
        /\ jobs' \in {jobs, [jobs EXCEPT ![<<InvoiceOf[c], s>>] = @ + 1]}
        /\ call' = [call EXCEPT ![c] = [pc |-> "post", rows |-> call[c].rows, todo |-> call[c].todo \ {s}]]
  BY PostOne
<1>2. row' = row /\ call[c].pc = "post"
  BY DEF Post
<1>3. row[s] # "Awaiting Payment"
  BY <1>2 DEF RowsCurrent
<1>4. ASSUME NEW i \in Invoices, NEW t \in Services, jobs'[<<i, t>>] > 0
      PROVE  row'[t] # "Awaiting Payment"
  <2>1. CASE t = s
    BY <1>2, <1>3, <2>1
  <2>2. CASE t # s
    <3>1. jobs'[<<i, t>>] = jobs[<<i, t>>]
      BY <1>1, <2>2 DEF TypeInv, TypeOK
    <3> QED
      BY <1>2, <1>4, <3>1 DEF RowsCurrent
  <2> QED
    BY <2>1, <2>2
<1>5. ASSUME NEW d \in Calls
      PROVE  /\ call'[d].pc = "writeRows" => call'[d].rows = row'
             /\ call'[d].pc = "post" => \A t \in call'[d].todo : row'[t] # "Awaiting Payment"
  <2>1. CASE d # c
    <3>1. call'[d] = call[d]
      BY <1>1, <2>1 DEF TypeInv, TypeOK
    <3> QED
      BY <1>2, <3>1 DEF RowsCurrent
  <2>2. CASE d = c
    <3>1. call'[d].pc = "post" /\ call'[d].todo \subseteq call[c].todo
      BY <1>1, <2>2 DEF TypeInv, TypeOK
    <3> QED
      BY <1>2, <3>1 DEF RowsCurrent
  <2> QED
    BY <2>1, <2>2
<1> QED
  BY <1>4, <1>5 DEF RowsCurrent

LEMMA ReadRowsCurrent ==
  ASSUME TypeInv, RowsCurrent, NEW c \in Calls, ReadRows(c)
  PROVE  RowsCurrent'
<1>1. UNCHANGED <<row, jobs>>
  BY DEF ReadRows
<1>2. ASSUME NEW l \in Local, l.pc \in {"start", "done"}, MovesTo(c, l) PROVE RowsCurrent'
  BY <1>1, <1>2, RowsStep
<1>3. CASE Throw(c) \/ Goto(c, "done")
  <2>1. "done" \in Pc \ {"off"}
    BY DEF Pc
  <2> QED
    BY <1>2, <1>3, <2>1, ThrowMoves, GotoMoves
<1>4. ASSUME NEW T \in Touched(c), call' = [call EXCEPT ![c] = [pc |-> "writeRows", rows |-> row, todo |-> T]]
      PROVE  RowsCurrent'
  <2> DEFINE l == [pc |-> "writeRows", rows |-> row, todo |-> T]
  <2>1. l.pc = "writeRows" /\ l.rows = row /\ MovesTo(c, l)
    BY <1>4 DEF MovesTo
  <2> HIDE DEF l
  <2>2. l.pc # "post"
    BY <2>1
  <2> QED
    BY <1>1, <2>1, <2>2, RowsStep
<1> QED
  BY <1>3, <1>4, ReadRowsCases

LEMMA NextCurrent ==
  ASSUME TypeInv, Locked, RowsCurrent, LockRespected, [Next]_vars
  PROVE  RowsCurrent'
<1>1. ASSUME NEW d \in Calls, call[d].pc = "writeRows"
      PROVE  KindOf[d] \in Activating
  BY <1>1, KindIn DEF LockRespected, Kinds, Locked, Role
<1>2. ASSUME NEW c \in Calls, \/ Begin(c) \/ Lookup(c) \/ Charge(c) \/ PutPaid(c) \/ PutStatus(c)
                              \/ CheckPaid(c) \/ MarkPaid(c) \/ Reply(c)
      PROVE  RowsCurrent'
  <2>1. PICK l \in Local : l.pc \notin {"off", "writeRows", "post"} /\ MovesTo(c, l)
    BY <1>2, QuietMoves
  <2>2. UNCHANGED <<row, jobs>>
    BY <1>2, QuietMoves
  <2> QED
    BY <2>1, <2>2, RowsStep
<1>3. ASSUME NEW c \in Calls, WriteRows(c) PROVE RowsCurrent'
  <2>1. KindOf[c] \in Activating
    BY <1>1, <1>3 DEF WriteRows
  <2> QED
    BY <1>1, <1>3, <2>1, WriteRowsCurrent
<1>4. CASE \E c \in Calls : Begin(c) \/ Proceed(c)
  BY <1>2, <1>3, <1>4, ReadRowsCurrent, PostCurrent DEF Proceed
<1>5. CASE Crash
  <2>1. UNCHANGED <<row, jobs>>
    BY <1>5 DEF Crash
  <2>2. At("start").pc = "start" /\ At("done").pc = "done"
    BY DEF At
  <2>3. \A d \in Calls : call'[d] = call[d] \/ call'[d].pc \notin {"writeRows", "post"}
    BY <1>5, <2>2, CrashCalls
  <2> QED
    BY <2>1, <2>3 DEF RowsCurrent
<1>6. CASE UNCHANGED vars
  BY <1>6 DEF vars, RowsCurrent
<1> QED
  BY <1>4, <1>5, <1>6 DEF Next, Quiet

\* No activation undoes another: in a behaviour in which all who write rows take
\* the account lock, a service with a Provisioning Job never waits for payment,
\* however many rails, resyncs, crashes and failed requests there are.
THEOREM ActivationsNotLost == Spec => []NoLostActivation
<1>1. Init => ActivationKept
  <2> SUFFICES ASSUME Init PROVE ActivationKept
    OBVIOUS
  <2>1. Locked
    BY InitLocked
  <2> PICK S \in Scenarios : call = [c \in Calls |-> At(IF c \in S THEN "start" ELSE "off")]
    BY DEF Init
  <2>2. \A c \in Calls : call[c].pc \in {"off", "start"}
    BY DEF At
  <2>3. ASSUME NEW i \in Invoices, NEW s \in Services PROVE ~(jobs[<<i, s>>] > 0)
    <3>1. jobs[<<i, s>>] = 0
      BY DEF Init
    <3> QED
      BY <3>1, ~(0 > 0)
  <2> QED
    BY <2>1, <2>2, <2>3 DEF ActivationKept, RowsCurrent
<1>2. TypeInv /\ ActivationKept /\ [Next]_vars => ActivationKept'
  BY NextLocked, NextCurrent, RespectedBefore DEF ActivationKept
<1>3. ActivationKept => NoLostActivation
  BY DEF ActivationKept, RowsCurrent, NoLostActivation
<1> QED
  BY <1>1, <1>2, <1>3, InitTypeInv, NextTypeInv, PTL DEF Spec

-----------------------------------------------------------------------------
(* M-Pesa prompts: PaidInFull and IdsMatch                                     *)

Fields == {"status", "amount", "current", "ids"}

\* What the argument needs of the types; the ids play no part in it.
Shape ==
    /\ DOMAIN payable = Payables
    /\ \A i \in Payables : /\ DOMAIN payable[i] = Fields
                           /\ payable[i].status \in {"Unpaid", "Paid", "Deleted"} /\ payable[i].amount \in Nat
    /\ DOMAIN push = Pushes
    /\ \A p \in Pushes : DOMAIN push[p] = {"at", "doc"} /\ push[p].doc.amount \in Nat
    /\ prompt \in [Pushes -> [at : {"none", "out", "paid"}, amount : Nat]]
    /\ DOMAIN callback = Pushes
    /\ \A p \in Pushes : DOMAIN callback[p] = {"at", "doc", "known"} /\ callback[p].doc.amount \in Nat
    /\ DOMAIN merge = Merges
    /\ \A m \in Merges : /\ DOMAIN merge[m] = {"at", "on", "amount"} /\ merge[m].amount \in Nat
                         /\ merge[m].at \in {"read", "write"} => merge[m].on \in Payables

\* A prompt goes out once, so it stays paid when it is.
PromptsOnce ==
    \A p \in Pushes : push[p].at \in {"start", "prompt"} => prompt[p].at = "none"

\* There is a callback only for a prompt that was paid.
CallbacksPaid ==
    \A p \in Pushes : callback[p].at # "none" => prompt[p].at = "paid"

Deciding(p) == callback[p].at \in {"verify", "activate"}

\* What a callback has found is what the invoice asks for, unless it grew since.
FoundIsCurrent ==
    \A p \in Pushes :
        Deciding(p) /\ PayableOf[p] \notin settling => callback[p].doc.amount = payable[PayableOf[p]].amount

\* A callback about to activate has checked the amount.
Checked ==
    \A p \in Pushes : callback[p].at = "activate" => prompt[p].amount >= callback[p].doc.amount

IInv == Shape /\ PromptsOnce /\ CallbacksPaid /\ FoundIsCurrent /\ Checked /\ NoShortfall

LEMMA InitIInv == PromptsInit => IInv
BY MpesaAssumption DEF PromptsInit, IInv, Shape, PromptsOnce, CallbacksPaid, FoundIsCurrent, Checked, NoShortfall,
   Deciding, NewInvoice, Fields

\* A push moves its own record only.
LEMMA PushMoves ==
  ASSUME IInv, NEW p \in Pushes, NEW at, PushAt(p, at)
  PROVE  /\ DOMAIN push' = Pushes
         /\ \A q \in Pushes : DOMAIN push'[q] = {"at", "doc"} /\ push'[q].doc.amount \in Nat
         /\ \A q \in Pushes : q # p => push'[q] = push[q]
         /\ push'[p].at = at
BY DEF PushAt, IInv, Shape, NewInvoice

LEMMA CallbackMoves ==
  ASSUME IInv, NEW p \in Pushes, NEW at, CallbackAt(p, at)
  PROVE  /\ DOMAIN callback' = Pushes
         /\ \A q \in Pushes : DOMAIN callback'[q] = {"at", "doc", "known"} /\ callback'[q].doc.amount \in Nat
         /\ \A q \in Pushes : q # p => callback'[q] = callback[q]
         /\ callback'[p].at = at
         /\ at = "activate" => callback'[p].doc = callback[p].doc
BY DEF CallbackAt, IInv, Shape, NewInvoice

LEMMA ReadInvoiceStep == ASSUME IInv, NEW p \in Pushes, ReadInvoice(p) PROVE IInv'
<1>1. /\ DOMAIN push' = Pushes
      /\ \A q \in Pushes : DOMAIN push'[q] = {"at", "doc"} /\ push'[q].doc.amount \in Nat
      /\ \A q \in Pushes : q # p => push'[q] = push[q]
      /\ push[p].at = "start"
  <2>1. CASE Of(p).status = "Paid"
    BY <2>1, PushMoves DEF ReadInvoice
  <2>2. CASE Of(p).status # "Paid"
    <3> DEFINE read == [at |-> "prompt", doc |-> Of(p)]
    <3>1. push' = [push EXCEPT ![p] = read] /\ push[p].at = "start"
      BY <2>2 DEF ReadInvoice
    <3>2. DOMAIN read = {"at", "doc"} /\ read.doc.amount \in Nat
      BY MpesaAssumption DEF Of, IInv, Shape
    <3> HIDE DEF read
    <3> QED
      BY <3>1, <3>2 DEF IInv, Shape
  <2> QED
    BY <2>1, <2>2
<1> QED
  BY <1>1 DEF ReadInvoice, IInv, Shape, PromptsOnce, CallbacksPaid, FoundIsCurrent, Checked, NoShortfall, Deciding

LEMMA SendPromptStep == ASSUME IInv, NEW p \in Pushes, SendPrompt(p) PROVE IInv'
<1>1. /\ DOMAIN push' = Pushes
      /\ \A q \in Pushes : DOMAIN push'[q] = {"at", "doc"} /\ push'[q].doc.amount \in Nat
      /\ \A q \in Pushes : q # p => push'[q] = push[q]
      /\ push[p].at = "prompt" /\ push'[p].at \in {"store", "done"}
  BY PushMoves DEF SendPrompt
<1>2. /\ prompt' \in [Pushes -> [at : {"none", "out", "paid"}, amount : Nat]]
      /\ \A q \in Pushes : q # p => prompt'[q] = prompt[q]
  BY DEF SendPrompt, IInv, Shape
<1>3. prompt[p].at = "none" /\ callback[p].at = "none"
  BY <1>1 DEF IInv, PromptsOnce, CallbacksPaid
<1>4. UNCHANGED <<payable, callback, merge, settling>>
  BY DEF SendPrompt
<1>5. NoShortfall'
  BY <1>2, <1>3, <1>4 DEF IInv, NoShortfall
<1> QED
  BY <1>1, <1>2, <1>3, <1>4, <1>5 DEF IInv, Shape, PromptsOnce, CallbacksPaid, FoundIsCurrent, Checked, Deciding

\* A step that changes what an invoice holds of ids, and nothing else of it.
LEMMA IdsOnly ==
  ASSUME IInv, NEW p \in Pushes, push[p].at \notin {"start", "prompt"},
         NEW at \in {"single", "done"}, PushAt(p, at),
         DOMAIN payable' = Payables,
         \A i \in Payables : DOMAIN payable'[i] = Fields /\ payable'[i].status = payable[i].status
                             /\ payable'[i].amount = payable[i].amount,
         UNCHANGED <<prompt, callback, merge, settling>>
  PROVE  IInv'
<1>1. /\ DOMAIN push' = Pushes
      /\ \A q \in Pushes : DOMAIN push'[q] = {"at", "doc"} /\ push'[q].doc.amount \in Nat
      /\ \A q \in Pushes : q # p => push'[q] = push[q]
      /\ push'[p].at \in {"single", "done"}
  BY PushMoves
<1>2. NoShortfall'
  BY DEF IInv, NoShortfall
<1> QED
  BY <1>1, <1>2, MpesaAssumption
  DEF IInv, Shape, PromptsOnce, CallbacksPaid, FoundIsCurrent, Checked, Deciding

LEMMA IdsStored ==
  ASSUME IInv, NEW i \in Payables, NEW p, NEW ids,
         payable' = [payable EXCEPT ![i].current = p, ![i].ids = ids]
  PROVE  /\ DOMAIN payable' = Payables
         /\ \A j \in Payables : DOMAIN payable'[j] = Fields /\ payable'[j].status = payable[j].status
                                /\ payable'[j].amount = payable[j].amount
BY DEF IInv, Shape, Fields

LEMMA StoreIdStep == ASSUME IInv, NEW p \in Pushes, StoreId(p) PROVE IInv'
<1>1. PICK at \in {"single", "done"} : PushAt(p, at)
  BY DEF StoreId
<1>2. /\ DOMAIN payable' = Payables
      /\ \A i \in Payables : DOMAIN payable'[i] = Fields /\ payable'[i].status = payable[i].status
                             /\ payable'[i].amount = payable[i].amount
  <2>1. CASE StoreBoth(p)
    BY <2>1, MpesaAssumption, IdsStored DEF StoreBoth
  <2>2. CASE UNCHANGED payable
    BY <2>2 DEF IInv, Shape
  <2> QED
    BY <2>1, <2>2 DEF StoreId
<1>3. push[p].at \notin {"start", "prompt"} /\ UNCHANGED <<prompt, callback, merge, settling>>
  BY DEF StoreId
<1> QED
  BY <1>1, <1>2, <1>3, IdsOnly

LEMMA StoreSingleStep == ASSUME IInv, NEW p \in Pushes, StoreSingle(p) PROVE IInv'
<1>1. PushAt(p, "done")
  BY DEF StoreSingle
<1>2. /\ DOMAIN payable' = Payables
      /\ \A i \in Payables : DOMAIN payable'[i] = Fields /\ payable'[i].status = payable[i].status
                             /\ payable'[i].amount = payable[i].amount
  <2>1. CASE StoreAlone(p)
    <3>1. payable' = [payable EXCEPT ![PayableOf[p]].current = p]
      BY <2>1 DEF StoreAlone
    <3> QED
      BY <3>1, MpesaAssumption DEF IInv, Shape, Fields
  <2>2. CASE UNCHANGED payable
    BY <2>2 DEF IInv, Shape
  <2> QED
    BY <2>1, <2>2 DEF StoreSingle
<1>3. push[p].at \notin {"start", "prompt"} /\ UNCHANGED <<prompt, callback, merge, settling>>
  BY DEF StoreSingle
<1> QED
  BY <1>1, <1>2, <1>3, IdsOnly

LEMMA EnterPinStep == ASSUME IInv, NEW p \in Pushes, EnterPin(p) PROVE IInv'
<1>1. /\ DOMAIN callback' = Pushes
      /\ \A q \in Pushes : DOMAIN callback'[q] = {"at", "doc", "known"} /\ callback'[q].doc.amount \in Nat
      /\ \A q \in Pushes : q # p => callback'[q] = callback[q]
      /\ callback'[p].at \in {"sent", "none"}
  <2>1. callback[p].at = "none"
    BY DEF EnterPin, IInv, CallbacksPaid
  <2> QED
    BY <2>1, CallbackMoves DEF EnterPin, IInv, Shape
<1>2. /\ prompt' \in [Pushes -> [at : {"none", "out", "paid"}, amount : Nat]]
      /\ \A q \in Pushes : q # p => prompt'[q] = prompt[q]
      /\ prompt'[p].at = "paid" /\ prompt[p].at = "out"
  BY DEF EnterPin, IInv, Shape
<1>3. push[p].at \notin {"start", "prompt"}
  BY <1>2 DEF IInv, PromptsOnce
<1>4. UNCHANGED <<payable, push, merge, settling>>
  BY DEF EnterPin
<1>5. NoShortfall'
  BY <1>2, <1>4 DEF IInv, NoShortfall
<1>6. Shape' /\ PromptsOnce' /\ CallbacksPaid'
  BY <1>1, <1>2, <1>3, <1>4, SMTT(20) DEF IInv, Shape, PromptsOnce, CallbacksPaid
<1>7. FoundIsCurrent' /\ Checked'
  BY <1>1, <1>2, <1>4 DEF IInv, FoundIsCurrent, Checked, Deciding
<1> QED
  BY <1>5, <1>6, <1>7 DEF IInv

\* A step of the callback of p that leaves the invoices alone.
LEMMA CallbackOnly ==
  ASSUME IInv, NEW p \in Pushes, callback[p].at # "none",
         DOMAIN callback' = Pushes,
         \A q \in Pushes : DOMAIN callback'[q] = {"at", "doc", "known"} /\ callback'[q].doc.amount \in Nat,
         \A q \in Pushes : q # p => callback'[q] = callback[q],
         callback'[p].at \in {"verify", "activate"} => callback'[p].doc.amount = payable[PayableOf[p]].amount
                                                       \/ PayableOf[p] \in settling,
         callback'[p].at = "activate" => prompt[p].amount >= callback'[p].doc.amount,
         UNCHANGED <<payable, push, prompt, merge, settling>>
  PROVE  IInv'
<1>1. NoShortfall'
  BY DEF IInv, NoShortfall
<1> QED
  BY <1>1 DEF IInv, Shape, PromptsOnce, CallbacksPaid, FoundIsCurrent, Checked, Deciding

LEMMA MatchStep == ASSUME IInv, NEW p \in Pushes, MatchCurrent(p) \/ MatchHistory(p) PROVE IInv'
<1>1. /\ DOMAIN callback' = Pushes
      /\ \A q \in Pushes : DOMAIN callback'[q] = {"at", "doc", "known"} /\ callback'[q].doc.amount \in Nat
      /\ \A q \in Pushes : q # p => callback'[q] = callback[q]
      /\ callback'[p].at # "activate"
      /\ callback'[p].at = "verify" => callback'[p].doc.amount = payable[PayableOf[p]].amount
  <2>1. CASE \E at \in {"over", "unmatched"} : CallbackAt(p, at)
    BY <2>1, CallbackMoves
  <2>2. CASE Found(p, Of(p))
    BY <2>2, MpesaAssumption DEF Found, Of, IInv, Shape
  <2>3. CASE callback[p].at = "sent" /\ callback' = [callback EXCEPT ![p].at = "scan", ![p].known = Stored(p)]
    BY <2>3 DEF IInv, Shape
  <2> QED
    BY <2>1, <2>2, <2>3 DEF MatchCurrent, MatchHistory
<1>2. callback[p].at # "none" /\ UNCHANGED <<payable, push, prompt, merge, settling>>
  BY DEF MatchCurrent, MatchHistory
<1> QED
  BY <1>1, <1>2, CallbackOnly

LEMMA VerifyStep == ASSUME IInv, NEW p \in Pushes, Verify(p) PROVE IInv'
<1> DEFINE at == CASE callback[p].doc.status = "Paid" -> "over"
                   [] callback[p].doc.status # "Paid" /\ ~Enough(p) -> "underpaid"
                   [] OTHER -> "activate"
<1>1. CallbackAt(p, at) /\ callback[p].at = "verify" /\ UNCHANGED <<payable, push, prompt, merge, settling>>
  BY DEF Verify
<1>2. at \in {"over", "underpaid", "activate"} /\ (at = "activate" => Enough(p))
  OBVIOUS
<1> HIDE DEF at
<1>3. /\ DOMAIN callback' = Pushes
      /\ \A q \in Pushes : DOMAIN callback'[q] = {"at", "doc", "known"} /\ callback'[q].doc.amount \in Nat
      /\ \A q \in Pushes : q # p => callback'[q] = callback[q]
      /\ callback'[p].at = at
      /\ at = "activate" => callback'[p].doc = callback[p].doc
  BY <1>1, CallbackMoves
<1>4. at = "activate" =>
         /\ prompt[p].amount >= callback[p].doc.amount
         /\ callback[p].doc.amount = payable[PayableOf[p]].amount \/ PayableOf[p] \in settling
  BY <1>1, <1>2 DEF Enough, IInv, FoundIsCurrent, Deciding
<1> QED
  BY <1>1, <1>2, <1>3, <1>4, CallbackOnly

LEMMA ActivateStep == ASSUME IInv, NEW p \in Pushes, Activate(p) PROVE IInv'
<1>1. /\ DOMAIN callback' = Pushes
      /\ \A q \in Pushes : DOMAIN callback'[q] = {"at", "doc", "known"} /\ callback'[q].doc.amount \in Nat
      /\ \A q \in Pushes : q # p => callback'[q] = callback[q]
      /\ callback'[p].at = "over"
  BY CallbackMoves DEF Activate
<1>2. /\ DOMAIN payable' = Payables
      /\ \A i \in Payables : /\ DOMAIN payable'[i] = Fields /\ payable'[i].amount = payable[i].amount
                             /\ payable'[i].status \in {"Unpaid", "Paid", "Deleted"}
                             /\ i # PayableOf[p] => payable'[i].status = payable[i].status
  BY MpesaAssumption DEF Activate, IInv, Shape, Fields
<1>3. callback[p].at = "activate" /\ UNCHANGED <<push, prompt, merge, settling>>
  BY DEF Activate
<1>4. prompt[p].at = "paid" /\ prompt[p].amount >= callback[p].doc.amount
      /\ (PayableOf[p] \notin settling => callback[p].doc.amount = payable[PayableOf[p]].amount)
  BY <1>3 DEF IInv, CallbacksPaid, Checked, FoundIsCurrent, Deciding
<1>5. NoShortfall'
  BY <1>2, <1>3, <1>4 DEF IInv, NoShortfall
<1>6. Shape'
  BY <1>1, <1>2, <1>3, MpesaAssumption DEF IInv, Shape
<1>7. PromptsOnce'
  BY <1>3 DEF IInv, PromptsOnce
<1>8. CallbacksPaid'
  BY <1>1, <1>3, <1>4 DEF IInv, CallbacksPaid
<1>9. FoundIsCurrent'
  BY <1>1, <1>2, <1>3, MpesaAssumption DEF IInv, FoundIsCurrent, Deciding
<1>10. Checked'
  BY <1>1, <1>3 DEF IInv, Checked
<1> QED
  BY <1>5, <1>6, <1>7, <1>8, <1>9, <1>10 DEF IInv

\* A purchase of an add-on writes what it read plus its own, and "Unpaid".
LEMMA MergeStep ==
  ASSUME IInv, NEW m \in Merges, FindOpen(m) \/ ReadLines(m) \/ WriteLines(m)
  PROVE  IInv'
<1>1. CASE FindOpen(m) \/ ReadLines(m)
  <2>1. UNCHANGED <<payable, push, prompt, callback, settling>>
    BY <1>1 DEF FindOpen, ReadLines
  <2>2. /\ DOMAIN merge' = Merges
        /\ \A n \in Merges : /\ DOMAIN merge'[n] = {"at", "on", "amount"} /\ merge'[n].amount \in Nat
                             /\ merge'[n].at \in {"read", "write"} => merge'[n].on \in Payables
    <3>1. CASE FindOpen(m)
      <4>1. PICK i \in Payables : merge' = [merge EXCEPT ![m].at = "read", ![m].on = i]
        BY <3>1 DEF FindOpen
      <4> QED
        BY <4>1 DEF IInv, Shape
    <3>2. CASE ReadLines(m)
      BY <3>2 DEF ReadLines, IInv, Shape
    <3> QED
      BY <1>1, <3>1, <3>2
  <2> QED
    BY <2>1, <2>2 DEF IInv, Shape, PromptsOnce, CallbacksPaid, FoundIsCurrent, Checked, Deciding, NoShortfall
<1>2. CASE WriteLines(m)
  <2>1. \E i : i = merge[m].on
    OBVIOUS
  <2> PICK i : i = merge[m].on
    BY <2>1
  <2>2. i \in Payables /\ merge[m].amount \in Nat
    BY <1>2 DEF WriteLines, IInv, Shape
  <2>3. /\ DOMAIN payable' = Payables
        /\ payable'[i].status = "Unpaid"
        /\ \A j \in Payables : /\ DOMAIN payable'[j] = Fields /\ payable'[j].amount \in Nat
                               /\ payable'[j].status \in {"Unpaid", "Paid", "Deleted"}
                               /\ j # i => payable'[j] = payable[j]
    BY <1>2, <2>2 DEF WriteLines, IInv, Shape, Fields
  <2>4. /\ DOMAIN merge' = Merges
        /\ \A n \in Merges : /\ DOMAIN merge'[n] = {"at", "on", "amount"} /\ merge'[n].amount \in Nat
                             /\ merge'[n].at \in {"read", "write"} => merge'[n].on \in Payables
    BY <1>2 DEF WriteLines, IInv, Shape
  <2>5. /\ UNCHANGED <<push, prompt, callback>>
        /\ settling \subseteq settling'
        /\ \A p \in Pushes : PayableOf[p] = i /\ Deciding(p) => i \in settling'
    BY <1>2 DEF WriteLines, Deciding
  <2>6. NoShortfall'
    BY <2>3, <2>5 DEF IInv, NoShortfall
  <2>7. FoundIsCurrent'
    BY <2>3, <2>5, MpesaAssumption DEF IInv, FoundIsCurrent, Deciding
  <2> QED
    BY <2>3, <2>4, <2>5, <2>6, <2>7 DEF IInv, Shape, PromptsOnce, CallbacksPaid, Checked
<1> QED
  BY <1>1, <1>2

LEMMA DeleteStep == ASSUME IInv, NEW i \in Payables, ReadStatus(i) \/ MarkDeleted(i) PROVE IInv'
<1>1. /\ DOMAIN payable' = Payables
      /\ \A j \in Payables : /\ DOMAIN payable'[j] = Fields /\ payable'[j].amount = payable[j].amount
                             /\ payable'[j].status \in {payable[j].status, "Deleted"}
  BY DEF ReadStatus, MarkDeleted, IInv, Shape, Fields
<1>2. UNCHANGED <<push, prompt, callback, merge, settling>>
  BY DEF ReadStatus, MarkDeleted
<1>3. NoShortfall'
  BY <1>1, <1>2 DEF IInv, NoShortfall
<1>4. Shape'
  BY <1>1, <1>2, MpesaAssumption DEF IInv, Shape
<1>5. FoundIsCurrent'
  BY <1>1, <1>2, MpesaAssumption DEF IInv, FoundIsCurrent, Deciding
<1> QED
  BY <1>2, <1>3, <1>4, <1>5 DEF IInv, PromptsOnce, CallbacksPaid, Checked

LEMMA NextIInv == IInv /\ [PromptsNext]_promptVars => IInv'
<1> SUFFICES ASSUME IInv, [PromptsNext]_promptVars PROVE IInv'
  OBVIOUS
<1>1. CASE UNCHANGED promptVars
  BY <1>1 DEF promptVars, IInv, Shape, PromptsOnce, CallbacksPaid, FoundIsCurrent, Checked, NoShortfall, Deciding
<1>2. ASSUME NEW p \in Pushes, ReadInvoice(p) \/ PushStep(p) \/ EnterPin(p) PROVE IInv'
  BY <1>2, ReadInvoiceStep, SendPromptStep, StoreIdStep, StoreSingleStep, EnterPinStep DEF PushStep
<1>3. ASSUME NEW p \in Pushes, CallbackStep(p) PROVE IInv'
  BY <1>3, MatchStep, VerifyStep, ActivateStep DEF CallbackStep
<1>4. ASSUME NEW i \in Payables, ReadStatus(i) \/ MarkDeleted(i) PROVE IInv'
  BY <1>4, DeleteStep
<1>5. ASSUME NEW m \in Merges, FindOpen(m) \/ ReadLines(m) \/ WriteLines(m) PROVE IInv'
  BY <1>5, MergeStep
<1> QED
  BY <1>1, <1>2, <1>3, <1>4, <1>5 DEF PromptsNext

\* billingRoutes.js's callback marks an invoice Paid only on a prompt that asked
\* for all that is on it, for any number of pushes, overlapping or lost, and of
\* add-ons written over the invoice from earlier reads, as long as none is
\* written between a callback's check and its activation.
THEOREM PaidInFull == PromptsSpec => []NoShortfall
<1>1. IInv => NoShortfall
  BY DEF IInv
<1> QED
  BY <1>1, InitIInv, NextIInv, PTL DEF PromptsSpec
-----------------------------------------------------------------------------
(* StoredIdsMatch.  First what happens to sequences of ids.                 *)

LEMMA WithoutNothing ==
  ASSUME NEW ids, NEW p, p \notin ToSet(ids)
  PROVE  Without(ids, p) = ids
BY DEF Without

\* The cap drops ids at the front, and as few of them as it can.
LEMMA CappedKeepsTail ==
  ASSUME NEW ids \in Seq(Pushes)
  PROVE  /\ Capped(ids) \in Seq(Pushes)
         /\ \E off \in Nat :
              /\ off = 0 \/ off = Len(ids) - HistoryMax
              /\ Len(Capped(ids)) = Len(ids) - off /\ off <= Len(ids)
              /\ \A n \in 1 .. Len(ids) - off : Capped(ids)[n] = ids[n + off]
<1> DEFINE off == IF Len(ids) > HistoryMax THEN Len(ids) - HistoryMax ELSE 0
<1>1. Len(ids) \in Nat /\ HistoryMax \in Nat \ {0}
  BY LenProperties, MpesaAssumption
<1>2. off \in Nat /\ off <= Len(ids) /\ (off = 0 \/ off = Len(ids) - HistoryMax)
  BY <1>1
<1>3. Capped(ids) = SubSeq(ids, off + 1, Len(ids))
  BY <1>1 DEF Capped
<1> HIDE DEF off
<1>4. \A n \in off + 1 .. Len(ids) : ids[n] \in Pushes
  BY <1>1, <1>2, ElementOfSeq
<1>5. /\ SubSeq(ids, off + 1, Len(ids)) \in Seq(Pushes)
      /\ Len(SubSeq(ids, off + 1, Len(ids))) = Len(ids) - off
      /\ \A n \in 1 .. Len(ids) - off : SubSeq(ids, off + 1, Len(ids))[n] = ids[n + off]
  BY <1>1, <1>2, <1>4, SubSeqProperties
<1> QED
  BY <1>2, <1>3, <1>5

LEMMA ToSetOfSeq ==
  ASSUME NEW S, NEW s \in Seq(S)
  PROVE  \A x : x \in ToSet(s) <=> \E n \in 1 .. Len(s) : s[n] = x
<1>1. DOMAIN s = 1 .. Len(s)
  BY LenProperties
<1> QED
  BY <1>1 DEF ToSet

\* Another id in order.
LEMMA OrderGrows ==
  ASSUME order \in Seq(Pushes), IsInjective(order), NEW p \in Pushes, ~Stored(p), order' = Append(order, p)
  PROVE  /\ order' \in Seq(Pushes) /\ IsInjective(order')
         /\ \A q \in Pushes : Stored(q)' <=> q = p \/ Stored(q)
         /\ \A q, r \in Pushes : Before(q, r) => Before(q, r)'
         /\ \A q \in Pushes : Stored(q) => Before(q, p)'
         /\ \A q \in Pushes : Since(q) \subseteq Since(q)'
         /\ p \in ToSet(order')
<1>1. /\ order' \in Seq(Pushes)
      /\ Len(order') = Len(order) + 1
      /\ \A n \in 1 .. Len(order) : order'[n] = order[n]
      /\ order'[Len(order) + 1] = p
  BY AppendProperties
<1>2. Len(order) \in Nat /\ DOMAIN order = 1 .. Len(order) /\ DOMAIN order' = 1 .. Len(order')
  BY <1>1, LenProperties
<1>3. \A n \in 1 .. Len(order') : (n \in 1 .. Len(order) /\ order'[n] = order[n]) \/ (n = Len(order) + 1 /\ order'[n] = p)
  BY <1>1, <1>2
<1>4. \A n \in 1 .. Len(order) : n \in 1 .. Len(order') /\ order'[n] = order[n] /\ n < Len(order) + 1
  BY <1>1, <1>2
<1>5. Len(order) + 1 \in 1 .. Len(order') /\ order'[Len(order) + 1] = p
  BY <1>1, <1>2
<1>6. \A q \in Pushes : Stored(q) <=> \E n \in 1 .. Len(order) : order[n] = q
  BY ToSetOfSeq DEF Stored
<1>7. \A q \in Pushes : Stored(q)' <=> \E n \in 1 .. Len(order') : order'[n] = q
  <2>1. \A x : x \in ToSet(order') <=> \E n \in 1 .. Len(order') : order'[n] = x
    BY <1>1, ToSetOfSeq
  <2> QED
    BY <2>1 DEF Stored
<1>8. \A q \in Pushes : Stored(q)' <=> q = p \/ Stored(q)
  BY <1>3, <1>4, <1>5, <1>6, <1>7
<1>9. IsInjective(order')
  <2> SUFFICES ASSUME NEW m \in 1 .. Len(order'), NEW n \in 1 .. Len(order'), order'[m] = order'[n] PROVE m = n
    BY <1>2 DEF IsInjective
  <2> QED
    BY <1>2, <1>3, <1>6 DEF IsInjective
<1>10. \A q, r \in Pushes : Before(q, r) => Before(q, r)'
  BY <1>4 DEF Before
<1>11. \A q \in Pushes : Stored(q) => Before(q, p)'
  BY <1>4, <1>5, <1>6 DEF Before
<1>12. \A q \in Pushes : Since(q) \subseteq Since(q)'
  <2> SUFFICES ASSUME NEW q \in Pushes, NEW n \in Since(q) PROVE n \in Since(q)'
    OBVIOUS
  <2>1. PICK m \in 1 .. n : order[m] = q
    BY DEF Since
  <2>2. n \in 1 .. Len(order) /\ m \in 1 .. Len(order) /\ PayableOf[order[n]] = PayableOf[q]
    BY <1>2, <2>1 DEF Since
  <2>3. n \in 1 .. Len(order') /\ order'[n] = order[n] /\ order'[m] = order[m]
    BY <1>4, <2>2
  <2> QED
    BY <2>1, <2>2, <2>3 DEF Since
<1>13. p \in ToSet(order')
  BY <1>8 DEF Stored
<1> QED
  BY <1>1, <1>8, <1>9, <1>10, <1>11, <1>12, <1>13

LEMMA PlacesFinite ==
  ASSUME NEW s \in Seq(Pushes), NEW P \in SUBSET (1 .. Len(s))
  PROVE  IsFiniteSet(P) /\ Cardinality(P) \in Nat
<1>1. Len(s) \in Nat
  BY LenProperties
<1>2. IsFiniteSet(1 .. Len(s))
  BY <1>1, FS_Interval
<1>3. IsFiniteSet(P)
  BY <1>2, FS_Subset
<1> QED
  BY <1>3, FS_CardinalityType

\* A push that is superseded stays so, unless its id was not in the history.
LEMMA SupersededStays ==
  ASSUME order \in Seq(Pushes), order' \in Seq(Pushes), NEW p \in Pushes,
         Since(p) \subseteq Since(p)', p \in alone' <=> p \in alone, Superseded(p)
  PROVE  Superseded(p)'
<1> DEFINE later == Since(p)'
<1> DEFINE bound == IF p \in alone THEN 1 ELSE HistoryMax
<1>1. Since(p) \in SUBSET (1 .. Len(order)) /\ later \in SUBSET (1 .. Len(order'))
  BY DEF Since
<1>2. bound \in Nat /\ Cardinality(Since(p)) > bound
  BY MpesaAssumption DEF Superseded
<1> HIDE DEF later, bound
<1>3. IsFiniteSet(later) /\ Cardinality(later) \in Nat /\ Cardinality(Since(p)) \in Nat
  BY <1>1, PlacesFinite
<1>4. Cardinality(Since(p)) <= Cardinality(later)
  BY <1>3, FS_Subset DEF later
<1>5. Cardinality(later) > bound
  BY <1>2, <1>3, <1>4
<1> QED
  BY <1>5 DEF later, bound, Superseded

\* One more than one place.
LEMMA TwoPlaces ==
  ASSUME NEW o \in Seq(Pushes), NEW P \in SUBSET (1 .. Len(o)), NEW m \in P, NEW n \in P, m # n
  PROVE  Cardinality(P) > 1
<1>1. IsFiniteSet(P) /\ Cardinality(P) \in Nat
  BY PlacesFinite
<1> DEFINE two == {m} \cup {n}
<1>2. Cardinality(two) <= Cardinality(P)
  <2>1. two \subseteq P
    OBVIOUS
  <2> HIDE DEF two
  <2> QED
    BY <1>1, <2>1, FS_Subset
<1>3. Cardinality(two) = 1 + 1
  <2>1. IsFiniteSet({m}) /\ Cardinality({m}) = 1
    BY FS_Singleton
  <2>2. n \notin {m}
    OBVIOUS
  <2>3. Cardinality(two) = Cardinality({m}) + 1
    BY <2>1, <2>2, FS_AddElement
  <2> HIDE DEF two
  <2> QED
    BY <2>1, <2>3
<1> HIDE DEF two
<1> QED
  BY <1>1, <1>2, <1>3

\* An id outside the history is superseded by any later one.
LEMMA AloneSuperseded ==
  ASSUME order' \in Seq(Pushes), NEW q, q \in alone', NEW p, PayableOf[p] = PayableOf[q], Before(q, p)'
  PROVE  Superseded(q)'
<1> DEFINE o == order'
<1> DEFINE P == Since(q)'
<1>1. PICK m, n \in 1 .. Len(o) : m < n /\ o[m] = q /\ o[n] = p
  BY DEF Before
<1>2. m \in 1 .. m /\ m \in 1 .. n
  BY <1>1
<1>3. m \in P /\ n \in P /\ m # n
  BY <1>1, <1>2 DEF Since
<1>4. P \in SUBSET (1 .. Len(o)) /\ o \in Seq(Pushes)
  BY DEF Since
<1> HIDE DEF o, P
<1>5. Cardinality(P) > 1
  BY <1>3, <1>4, TwoPlaces
<1> QED
  BY <1>5 DEF P, Superseded

\* Ids that come one after the other in a history have as many places in order.
LEMMA PlacesCount ==
  ASSUME NEW o \in Seq(Pushes), NEW a \in Seq(Pushes), NEW k \in 1 .. Len(a), NEW P \in SUBSET (1 .. Len(o)),
         \A n \in k .. Len(a) : \E j \in P : o[j] = a[n],
         \A m, n \in k .. Len(a) : m < n => a[m] # a[n]
  PROVE  Len(a) - k + 1 <= Cardinality(P)
<1>1. Len(a) \in Nat /\ k \in Nat
  BY LenProperties
<1> DEFINE N == k .. Len(a)
<1> DEFINE f == [n \in N |-> CHOOSE j \in P : o[j] = a[n]]
<1>2. \A n \in N : f[n] \in P /\ o[f[n]] = a[n]
  OBVIOUS
<1>3. f \in [N -> P]
  BY <1>2
<1>4. ASSUME NEW m \in N, NEW n \in N, f[m] = f[n] PROVE m = n
  <2>1. a[m] = a[n]
    BY <1>2, <1>4
  <2>2. m \in Int /\ n \in Int
    BY <1>1
  <2> QED
    BY <2>1, <2>2
<1> HIDE DEF f
<1>5. f \in Injection(N, P)
  BY <1>3, <1>4 DEF Injection, IsInjective
<1>6. IsFiniteSet(P) /\ Cardinality(P) \in Nat
  BY PlacesFinite
<1>7. Cardinality(N) <= Cardinality(P)
  BY <1>5, <1>6, FS_Injection
<1>8. Cardinality(N) = Len(a) - k + 1
  BY <1>1, FS_Interval
<1> QED
  BY <1>7, <1>8

\* What the store of p does to order.
Extends(p) ==
    /\ \A q \in Pushes : Stored(q)' <=> q = p \/ Stored(q)
    /\ \A q, r \in Pushes : Before(q, r) => Before(q, r)'
    /\ \A q \in Pushes : Stored(q) => Before(q, p)'

\* A history that does not change is still a piece of order.
LEMMA ChainStays ==
  ASSUME \A q \in Pushes : Stored(q) => Stored(q)',
         \A q, r \in Pushes : Before(q, r) => Before(q, r)',
         NEW i, NEW ids, Chain(i, ids)
  PROVE  Chain(i, ids)'
<1>1. \A n \in 1 .. Len(ids) : ids[n] \in Pushes
  BY ElementOfSeq DEF Chain
<1> QED
  BY <1>1 DEF Chain

\* The history as p read it, or the single id it had then, with p at its end.
LEMMA ChainGrows ==
  ASSUME NEW p \in Pushes, Extends(p), NEW ids, Chain(PayableOf[p], ids)
  PROVE  Chain(PayableOf[p], Append(ids, p))'
<1>1. ids \in Seq(Pushes) /\ Len(ids) \in Nat
  BY LenProperties DEF Chain
<1> DEFINE a == Append(ids, p)
<1>2. /\ a \in Seq(Pushes)
      /\ Len(a) = Len(ids) + 1
      /\ \A n \in 1 .. Len(ids) : a[n] = ids[n]
      /\ a[Len(ids) + 1] = p
  BY <1>1, AppendProperties
<1> HIDE DEF a
<1>3. \A n \in 1 .. Len(a) : (n \in 1 .. Len(ids) /\ a[n] = ids[n]) \/ (n = Len(ids) + 1 /\ a[n] = p)
  BY <1>1, <1>2
<1>4. \A n \in 1 .. Len(ids) : ids[n] \in Pushes /\ Stored(ids[n])
  BY <1>1, ElementOfSeq DEF Chain
<1>5. Chain(PayableOf[p], ids)'
  BY ChainStays DEF Extends
<1>6. \A n \in 1 .. Len(a) : PayableOf[a[n]] = PayableOf[p] /\ Stored(a[n])'
  BY <1>3, <1>5 DEF Chain, Extends
<1>7. ASSUME NEW m \in 1 .. Len(a), NEW n \in 1 .. Len(a), m < n PROVE Before(a[m], a[n])'
  <2>1. m \in 1 .. Len(ids) /\ a[m] = ids[m]
    BY <1>1, <1>2, <1>3, <1>7
  <2>2. CASE n \in 1 .. Len(ids) /\ a[n] = ids[n]
    BY <1>5, <1>7, <2>1, <2>2 DEF Chain
  <2>3. CASE n = Len(ids) + 1 /\ a[n] = p
    BY <1>4, <2>1, <2>3 DEF Extends
  <2> QED
    BY <1>3, <2>2, <2>3
<1>8. Chain(PayableOf[p], a)'
  BY <1>2, <1>6, <1>7 DEF Chain
<1> QED
  BY <1>8 DEF a

\* The cap leaves the end of the history, which is a piece of order too.
LEMMA ChainCapped ==
  ASSUME NEW i, NEW ids, Chain(i, ids)'
  PROVE  Chain(i, Capped(ids))'
<1>1. ids \in Seq(Pushes) /\ Len(ids) \in Nat
  BY LenProperties DEF Chain
<1> DEFINE c == Capped(ids)
<1>2. PICK off \in Nat :
        /\ Len(c) = Len(ids) - off /\ off <= Len(ids)
        /\ \A n \in 1 .. Len(ids) - off : c[n] = ids[n + off]
  BY <1>1, CappedKeepsTail
<1>3. c \in Seq(Pushes)
  BY <1>1, CappedKeepsTail
<1> HIDE DEF c
<1>4. \A n \in 1 .. Len(c) : n + off \in 1 .. Len(ids) /\ c[n] = ids[n + off]
  BY <1>1, <1>2
<1>5. \A n \in 1 .. Len(c) : PayableOf[c[n]] = i /\ Stored(c[n])'
  BY <1>4 DEF Chain
<1>6. ASSUME NEW m \in 1 .. Len(c), NEW n \in 1 .. Len(c), m < n PROVE Before(c[m], c[n])'
  <2>1. m + off < n + off /\ m + off \in 1 .. Len(ids) /\ n + off \in 1 .. Len(ids)
    BY <1>4, <1>6
  <2> QED
    BY <1>4, <2>1 DEF Chain
<1>7. Chain(i, c)'
  BY <1>3, <1>5, <1>6 DEF Chain
<1> QED
  BY <1>7 DEF c

\* An id that the cap drops has HistoryMax later ones.
LEMMA DroppedIsOld ==
  ASSUME NEW i, NEW ids, Chain(i, ids)', order' \in Seq(Pushes), IsInjective(order'),
         NEW k \in 1 .. Len(ids), ids[k] \notin ToSet(Capped(ids))
  PROVE  Superseded(ids[k])'
<1>1. ids \in Seq(Pushes) /\ Len(ids) \in Nat /\ HistoryMax \in Nat
  BY LenProperties, MpesaAssumption DEF Chain
<1> DEFINE c == Capped(ids)
<1>2. PICK off \in Nat :
        /\ off = 0 \/ off = Len(ids) - HistoryMax
        /\ Len(c) = Len(ids) - off /\ off <= Len(ids)
        /\ \A n \in 1 .. Len(ids) - off : c[n] = ids[n + off]
  BY <1>1, CappedKeepsTail
<1>3. c \in Seq(Pushes)
  BY <1>1, CappedKeepsTail
<1>4. \A n \in 1 .. Len(c) : c[n] # ids[k]
  BY <1>3, ToSetOfSeq
<1> HIDE DEF c
<1>5. k <= off
  <2> SUFFICES ASSUME k > off PROVE FALSE
    BY <1>1, <1>2
  <2>1. k - off \in 1 .. Len(ids) - off
    BY <1>1, <1>2
  <2>2. c[k - off] = ids[k]
    BY <1>1, <1>2, <2>1
  <2> QED
    BY <1>2, <1>4, <2>1, <2>2
<1>6. Len(ids) - k >= HistoryMax
  BY <1>1, <1>2, <1>5
<1> DEFINE P == Since(ids[k])'
<1>7. P \in SUBSET (1 .. Len(order'))
  BY DEF Since
<1>8. ASSUME NEW n \in k .. Len(ids) PROVE \E j \in P : order'[j] = ids[n]
  <2>1. n \in 1 .. Len(ids) /\ PayableOf[ids[n]] = i /\ PayableOf[ids[k]] = i
    BY <1>1, <1>8 DEF Chain
  <2>2. CASE n = k
    <3>1. PICK j \in 1 .. Len(order') : order'[j] = ids[k]
      <4>1. ids[k] \in ToSet(order')
        BY DEF Stored, Chain
      <4> QED
        BY <4>1, ToSetOfSeq
    <3>2. j \in P
      BY <2>1, <3>1 DEF Since
    <3> QED
      BY <2>2, <3>1, <3>2
  <2>3. CASE n # k
    <3>1. k < n
      BY <1>1, <1>8, <2>3
    <3>2. Before(ids[k], ids[n])'
      BY <2>1, <3>1 DEF Chain
    <3>3. PICK m, j \in 1 .. Len(order') : m < j /\ order'[m] = ids[k] /\ order'[j] = ids[n]
      BY <3>2 DEF Before
    <3>4. m \in 1 .. j
      BY <3>3
    <3>5. j \in P
      BY <2>1, <3>3, <3>4 DEF Since
    <3> QED
      BY <3>3, <3>5
  <2> QED
    BY <2>2, <2>3
<1>9. ASSUME NEW m \in k .. Len(ids), NEW n \in k .. Len(ids), m < n PROVE ids[m] # ids[n]
  <2>1. m \in 1 .. Len(ids) /\ n \in 1 .. Len(ids)
    BY <1>1
  <2>2. Before(ids[m], ids[n])'
    BY <1>9, <2>1 DEF Chain
  <2>3. PICK j, l \in 1 .. Len(order') : j < l /\ order'[j] = ids[m] /\ order'[l] = ids[n]
    BY <2>2 DEF Before
  <2>4. DOMAIN order' = 1 .. Len(order') /\ Len(order') \in Nat
    BY LenProperties
  <2>5. j # l
    BY <2>3, <2>4
  <2> QED
    BY <2>3, <2>4, <2>5 DEF IsInjective
<1> HIDE DEF P
<1>10. Len(ids) - k + 1 <= Cardinality(P)
  BY <1>1, <1>7, <1>8, <1>9, PlacesCount
<1>11. Cardinality(P) > HistoryMax
  <2>1. Cardinality(P) \in Nat
    BY <1>7, PlacesFinite
  <2> QED
    BY <1>1, <1>6, <1>10, <2>1
<1>12. Cardinality(P) > 1 /\ Cardinality(P) > HistoryMax
  <2>1. Cardinality(P) \in Nat
    BY <1>7, PlacesFinite
  <2> QED
    BY <1>11, <2>1, MpesaAssumption
<1> QED
  BY <1>12 DEF P, Superseded
-----------------------------------------------------------------------------
(* Now the steps.  What each has to show.                                    *)

Frozen(p) == push[p].at \in {"prompt", "store"}

LEMMA HistoriesStep ==
  ASSUME Histories, order' \in Seq(Pushes), IsInjective(order'), alone' \subseteq ToSet(order'),
         \A p \in Pushes : Stored(p) => Stored(p)',
         \A p, q \in Pushes : Before(p, q) => Before(p, q)',
         \A p \in Pushes : Stored(p)' => Finished(p)' /\ Findable(p)',
         \A p \in Pushes : Stored(p) /\ Superseded(p) => Superseded(p)',
         \A p \in Pushes : Stored(p) /\ Kept(p) => Kept(p)',
         crossed \subseteq crossed',
         \A i \in Payables : Chain(i, payable[i].ids)' /\ LatestFits(i, payable[i].current)',
         \A p \in Pushes : Frozen(p)' => \/ Frozen(p) /\ push'[p].doc = push[p].doc
                                       \/ push'[p].doc = Of(p),
         \A p \in Pushes : callback'[p].at = "scan" /\ callback'[p].known => Stored(p) /\ Kept(p),
         \A p \in Pushes : callback'[p].at = "unmatched" /\ callback'[p].known =>
            \/ callback[p].at = "unmatched" /\ callback[p].known
            \/ Stored(p) /\ Kept(p) /\ p \notin ToSet(Of(p).ids)
  PROVE  Histories'
<1>1. \A p \in Pushes : PayableOf[p] \in Payables
  BY MpesaAssumption
<1>2. ASSUME NEW p \in Pushes, Frozen(p)'
      PROVE  Chain(PayableOf[p], push[p].doc.ids)' /\ LatestFits(PayableOf[p], push[p].doc.current)'
  <2>1. \E doc : doc = push'[p].doc
    OBVIOUS
  <2> PICK doc : doc = push'[p].doc
    BY <2>1
  <2>2. Chain(PayableOf[p], doc.ids) /\ LatestFits(PayableOf[p], doc.current)
    BY <1>1, <1>2 DEF Histories, Of, Frozen
  <2>3. Chain(PayableOf[p], doc.ids)'
    BY <2>2, ChainStays
  <2>4. LatestFits(PayableOf[p], doc.current)'
    BY <2>2 DEF LatestFits
  <2> QED
    BY <2>3, <2>4 DEF Chain, LatestFits
<1>3. \A p \in Pushes : callback'[p].at \in {"scan", "unmatched"} /\ callback'[p].known => Stored(p)'
  BY DEF Histories
<1>4. \A p \in Pushes : callback'[p].at = "scan" /\ callback'[p].known => Kept(p)'
  OBVIOUS
<1>5. StoredIdsMatch'
  <2> SUFFICES ASSUME NEW p \in Pushes, callback'[p].at = "unmatched", callback'[p].known
               PROVE  Superseded(p)' \/ PayableOf[p] \in crossed'
    BY DEF StoredIdsMatch
  <2>1. Stored(p) /\ (Superseded(p) \/ PayableOf[p] \in crossed)
    BY DEF Histories, StoredIdsMatch, Kept
  <2> QED
    BY <2>1
<1>6. \A p \in Pushes : Frozen(p)' => Chain(PayableOf[p], push[p].doc.ids)' /\ LatestFits(PayableOf[p], push[p].doc.current)'
  BY <1>2
<1> QED
  BY <1>3, <1>4, <1>5, <1>6 DEF Histories, Frozen

\* Callbacks that do not move.
LEMMA CallbacksKept ==
  ASSUME Histories, callback' = callback
  PROVE  /\ \A p \in Pushes : callback'[p].at = "scan" /\ callback'[p].known => Stored(p) /\ Kept(p)
         /\ \A p \in Pushes : callback'[p].at = "unmatched" /\ callback'[p].known =>
              callback[p].at = "unmatched" /\ callback[p].known
BY DEF Histories

\* A step that stores nothing.
LEMMA HistoriesKept ==
  ASSUME Histories, UNCHANGED idVars,
         \A i \in Payables : payable'[i].ids = payable[i].ids /\ payable'[i].current = payable[i].current,
         \A p \in Pushes : Finished(p) => Finished(p)',
         \A p \in Pushes : Frozen(p)' => \/ Frozen(p) /\ push'[p].doc = push[p].doc
                                       \/ push'[p].doc = Of(p),
         \A p \in Pushes : callback'[p].at = "scan" /\ callback'[p].known => Stored(p) /\ Kept(p),
         \A p \in Pushes : callback'[p].at = "unmatched" /\ callback'[p].known =>
            \/ callback[p].at = "unmatched" /\ callback[p].known
            \/ Stored(p) /\ Kept(p) /\ p \notin ToSet(Of(p).ids)
  PROVE  Histories'
<1>1. /\ \A p \in Pushes : Stored(p)' <=> Stored(p)
      /\ \A p \in Pushes : Superseded(p)' <=> Superseded(p)
      /\ \A p, q \in Pushes : Before(p, q)' <=> Before(p, q)
  BY DEF Stored, Superseded, Since, Before, idVars
<1>2. \A p \in Pushes : PayableOf[p] \in Payables
  BY MpesaAssumption
<1>3. \A p \in Pushes : (Kept(p)' <=> Kept(p)) /\ (Findable(p)' <=> Findable(p))
  BY <1>1, <1>2 DEF Kept, Findable, Of, idVars
<1>4. \A p \in Pushes : Stored(p)' => Finished(p)' /\ Findable(p)'
  BY <1>1, <1>3 DEF Histories
<1>5. ASSUME NEW i \in Payables PROVE Chain(i, payable[i].ids)' /\ LatestFits(i, payable[i].current)'
  <2>1. \E ids : ids = payable[i].ids
    OBVIOUS
  <2> PICK ids : ids = payable[i].ids
    BY <2>1
  <2>2. Chain(i, ids)' /\ payable'[i].ids = ids
    BY <1>1, ChainStays DEF Histories
  <2>3. LatestFits(i, payable[i].current)'
    BY <1>1 DEF LatestFits, Histories
  <2> QED
    BY <2>2, <2>3 DEF Chain
<1>6. order' \in Seq(Pushes) /\ IsInjective(order') /\ alone' \subseteq ToSet(order') /\ crossed \subseteq crossed'
  BY DEF Histories, idVars
<1> QED
  BY <1>1, <1>3, <1>4, <1>5, <1>6, HistoriesStep

\* A push that stores its id for the first time, by either PUT.
LEMMA AppendHistories ==
  ASSUME IInv, Histories, NEW p \in Pushes, ~Stored(p), order' = Append(order, p),
         NEW at \in {"single", "done"}, PushAt(p, at), callback' = callback,
         alone' \in {alone, alone \cup {p}}, crossed \subseteq crossed',
         \A i \in Payables : i # PayableOf[p] => payable'[i] = payable[i],
         payable'[PayableOf[p]].current = p,
         Chain(PayableOf[p], payable[PayableOf[p]].ids)',
         Findable(p)',
         \A q \in Pushes : q # p /\ PayableOf[q] = PayableOf[p] /\ Stored(q) /\ q \in ToSet(Of(q).ids) => Kept(q)'
  PROVE  Histories'
<1>1. /\ order' \in Seq(Pushes) /\ IsInjective(order')
      /\ Extends(p)
      /\ \A q \in Pushes : Since(q) \subseteq Since(q)'
      /\ p \in ToSet(order')
  BY OrderGrows DEF Extends, Histories
<1>2. \A q \in Pushes : Stored(q) => q # p /\ Stored(q)'
  BY <1>1 DEF Extends
<1>3. alone' \subseteq ToSet(order')
  <2>1. ASSUME NEW q \in alone PROVE q \in ToSet(order')
    <3>1. q \in ToSet(order) /\ q \in Pushes
      BY ToSetOfSeq, ElementOfSeq DEF Histories
    <3> QED
      BY <1>2, <3>1 DEF Stored
  <2> QED
    BY <1>1, <2>1
<1>4. ASSUME NEW q \in Pushes, Stored(q), Superseded(q) PROVE Superseded(q)'
  BY <1>1, <1>2, <1>4, SupersededStays DEF Histories
<1>5. ASSUME NEW q \in Pushes, Stored(q), Kept(q) PROVE Kept(q)'
  <2>1. q # p /\ PayableOf[q] \in Payables
    BY <1>2, <1>5, MpesaAssumption
  <2>2. CASE Superseded(q) \/ PayableOf[q] \in crossed
    BY <1>4, <1>5, <2>2 DEF Kept
  <2>3. CASE q \in ToSet(Of(q).ids) /\ PayableOf[q] # PayableOf[p]
    BY <2>1, <2>3 DEF Kept, Of
  <2>4. CASE q \in ToSet(Of(q).ids) /\ PayableOf[q] = PayableOf[p]
    BY <1>5, <2>1, <2>4
  <2> QED
    BY <1>5, <2>2, <2>3, <2>4 DEF Kept
<1>6. /\ \A q \in Pushes : q # p => push'[q] = push[q]
      /\ push'[p].at = at
  BY PushMoves
<1>7. ASSUME NEW q \in Pushes, Stored(q)' PROVE Finished(q)' /\ Findable(q)'
  <2>1. CASE q = p
    BY <1>6, <2>1 DEF Finished
  <2>2. CASE q # p
    <3>1. Stored(q) /\ Finished(q) /\ Findable(q) /\ PayableOf[q] \in Payables
      BY <1>1, <1>7, <2>2, MpesaAssumption DEF Extends, Histories
    <3>2. Finished(q)'
      BY <1>6, <2>2, <3>1 DEF Finished
    <3>3. CASE Kept(q)
      BY <1>5, <3>1, <3>2, <3>3 DEF Findable
    <3>4. CASE q \in alone /\ Of(q).current = q /\ PayableOf[q] # PayableOf[p]
      BY <3>1, <3>2, <3>4 DEF Findable, Of
    <3>5. CASE q \in alone /\ PayableOf[q] = PayableOf[p]
      <4>1. Before(q, p)' /\ q \in alone'
        BY <1>1, <3>1, <3>5 DEF Extends
      <4>2. Superseded(q)'
        BY <1>1, <3>5, <4>1, AloneSuperseded
      <4> QED
        BY <3>2, <4>2 DEF Findable, Kept
    <3> QED
      BY <3>1, <3>3, <3>4, <3>5 DEF Findable
  <2> QED
    BY <2>1, <2>2
<1>8. ASSUME NEW j \in Payables PROVE Chain(j, payable[j].ids)' /\ LatestFits(j, payable[j].current)'
  <2>1. CASE j = PayableOf[p]
    <3>1. Stored(p)'
      BY <1>1 DEF Extends
    <3> QED
      BY <2>1, <3>1 DEF LatestFits
  <2>2. CASE j # PayableOf[p]
    <3>1. \E ids : ids = payable[j].ids
      OBVIOUS
    <3> PICK ids : ids = payable[j].ids
      BY <3>1
    <3>2. Chain(j, ids)' /\ payable'[j] = payable[j]
      BY <1>1, <2>2, ChainStays DEF Histories, Extends
    <3>3. LatestFits(j, payable[j].current)'
      BY <1>2, <3>2 DEF LatestFits, Histories
    <3> QED
      BY <3>2, <3>3 DEF Chain
  <2> QED
    BY <2>1, <2>2
<1>9. \A q \in Pushes : Frozen(q)' => Frozen(q) /\ push'[q].doc = push[q].doc
  BY <1>6 DEF Frozen
<1>10. \A q, r \in Pushes : Before(q, r) => Before(q, r)'
  BY <1>1 DEF Extends
<1> QED
  BY <1>1, <1>2, <1>3, <1>4, <1>5, <1>7, <1>8, <1>9, <1>10, CallbacksKept, HistoriesStep

Prior(doc) == IF doc.ids = <<>> /\ doc.current # None THEN <<doc.current>> ELSE doc.ids

LEMMA PriorChain ==
  ASSUME NEW i, NEW doc, Chain(i, doc.ids), LatestFits(i, doc.current)
  PROVE  Chain(i, Prior(doc))
<1>1. CASE doc.ids = <<>> /\ doc.current # None
  <2> DEFINE one == <<doc.current>>
  <2>1. doc.current \in Pushes /\ PayableOf[doc.current] = i /\ Stored(doc.current)
    BY <1>1 DEF LatestFits
  <2>2. one \in Seq(Pushes) /\ Len(one) = 1 /\ one[1] = doc.current
    BY <2>1
  <2>3. Prior(doc) = one
    BY <1>1 DEF Prior
  <2> HIDE DEF one
  <2>4. \A n \in 1 .. Len(one) : n = 1 /\ PayableOf[one[n]] = i /\ Stored(one[n])
    BY <2>1, <2>2
  <2>5. \A m, n \in 1 .. Len(one) : ~(m < n)
    BY <2>4
  <2>6. Chain(i, one)
    BY <2>2, <2>4, <2>5 DEF Chain
  <2> QED
    BY <2>3, <2>6
<1>2. CASE ~(doc.ids = <<>> /\ doc.current # None)
  BY <1>2 DEF Prior
<1> QED
  BY <1>1, <1>2

\* The first PUT stores both fields ...
LEMMA StoreBothHistories ==
  ASSUME IInv, Histories, NEW p \in Pushes, push[p].at = "store", StoreBoth(p),
         NEW at \in {"single", "done"}, PushAt(p, at), callback' = callback
  PROVE  Histories'
<1> DEFINE i == PayableOf[p]
<1>1. i \in Payables
  BY MpesaAssumption
<1>2. ~Stored(p) /\ order' = Append(order, p) /\ alone' = alone
  BY DEF Finished, Histories, StoreBoth
<1>3. Extends(p) /\ order' \in Seq(Pushes) /\ IsInjective(order') /\ Stored(p)'
  BY <1>2, OrderGrows DEF Extends, Histories
<1>4. \E doc : doc = push[p].doc
  OBVIOUS
<1> PICK doc : doc = push[p].doc
  BY <1>4
<1> DEFINE prior == Prior(doc)
<1> DEFINE ids == Append(prior, p)
<1>5. Chain(i, prior)
  BY PriorChain DEF Histories
<1>6. prior \in Seq(Pushes) /\ Len(prior) \in Nat
  BY <1>5, LenProperties DEF Chain
<1>7. Appended(doc, p) = Capped(ids)
  <2>1. \A n \in 1 .. Len(prior) : prior[n] # p
    BY <1>2, <1>5 DEF Chain
  <2> HIDE DEF prior
  <2>2. p \notin ToSet(prior)
    BY <1>6, <2>1, ToSetOfSeq
  <2> QED
    BY <2>2, WithoutNothing DEF Appended, Prior, prior
<1>8. Chain(i, ids)'
  BY <1>3, <1>5, ChainGrows
<1>9. Chain(i, Capped(ids))'
  BY <1>8, ChainCapped
<1>10. /\ payable'[i].ids = Capped(ids) /\ payable'[i].current = p
       /\ \A j \in Payables : j # i => payable'[j] = payable[j]
  <2>1. payable' = [payable EXCEPT ![i].current = p, ![i].ids = Capped(ids)]
    BY <1>7 DEF StoreBoth
  <2> HIDE DEF ids
  <2> QED
    BY <1>1, <2>1 DEF IInv, Shape, Fields
<1>11. Len(ids) = Len(prior) + 1 /\ ids[Len(ids)] = p /\ \A n \in 1 .. Len(prior) : ids[n] = prior[n]
  <2> HIDE DEF prior
  <2> QED
    BY <1>6, AppendProperties
\* A push of the invoice is in the new history, or too old, or was crossed out.
<1>12. ASSUME NEW k \in 1 .. Len(ids) PROVE ids[k] \in ToSet(Capped(ids)) \/ Superseded(ids[k])'
  BY <1>3, <1>8, <1>12, DroppedIsOld
<1> HIDE DEF ids
<1>13. Chain(i, payable[i].ids)'
  BY <1>9, <1>10 DEF Chain
<1>14. crossed \subseteq crossed' /\ (i \notin crossed' => ToSet(payable[i].ids) \subseteq ToSet(doc.ids))
  BY DEF StoreBoth, StoredSince
<1>15. Findable(p)'
  <2>1. Len(ids) \in 1 .. Len(ids)
    BY <1>6, <1>11
  <2>2. p \in ToSet(Capped(ids)) \/ Superseded(p)'
    BY <1>11, <1>12, <2>1
  <2> QED
    BY <1>10, <2>2 DEF Findable, Kept, Of
<1>16. ASSUME NEW q \in Pushes, PayableOf[q] = i, q \in ToSet(Of(q).ids) PROVE Kept(q)'
  <2>1. CASE i \in crossed'
    BY <1>16, <2>1 DEF Kept
  <2>2. CASE i \notin crossed'
    <3>1. q \in ToSet(doc.ids)
      BY <1>14, <1>16, <2>2 DEF Of
    <3>2. doc.ids \in Seq(Pushes)
      BY DEF Histories, Chain
    <3>3. PICK n \in 1 .. Len(doc.ids) : doc.ids[n] = q
      BY <3>1, <3>2, ToSetOfSeq
    <3>4. prior = doc.ids
      <4>1. doc.ids # <<>>
        BY <3>2, <3>3, EmptySeq
      <4> QED
        BY <4>1 DEF Prior
    <3> HIDE DEF prior
    <3>5. n \in 1 .. Len(ids) /\ ids[n] = q
      BY <1>6, <1>11, <3>3, <3>4
    <3>6. q \in ToSet(Capped(ids)) \/ Superseded(q)'
      BY <1>12, <3>5
    <3> QED
      BY <1>10, <1>16, <3>6 DEF Kept, Of
  <2> QED
    BY <2>1, <2>2
<1> QED
  BY <1>2, <1>10, <1>13, <1>14, <1>15, <1>16, AppendHistories

\* ... and the second the latest id alone: for the first time, or again.
LEMMA StoreAloneHistories ==
  ASSUME IInv, Histories, NEW p \in Pushes, StoreAlone(p), PushAt(p, "done"), callback' = callback
  PROVE  Histories'
<1> DEFINE i == PayableOf[p]
<1>1. i \in Payables /\ \A q \in Pushes : PayableOf[q] \in Payables
  BY MpesaAssumption
<1>2. /\ payable'[i].current = p
      /\ \A j \in Payables : payable'[j].ids = payable[j].ids /\ (j # i => payable'[j] = payable[j])
  BY <1>1 DEF StoreAlone, IInv, Shape, Fields
<1>3. CASE ~Stored(p)
  <2>1. order' = Append(order, p) /\ alone' = alone \cup {p} /\ crossed' = crossed
    BY <1>3 DEF StoreAlone
  <2>2. Extends(p)
    BY <1>3, <2>1, OrderGrows DEF Extends, Histories
  <2>3. Chain(i, payable[i].ids)'
    <3>1. \E ids : ids = payable[i].ids
      OBVIOUS
    <3> PICK ids : ids = payable[i].ids
      BY <3>1
    <3>2. Chain(i, ids)' /\ payable'[i].ids = ids
      BY <1>1, <1>2, <2>2, ChainStays DEF Histories, Extends
    <3> QED
      BY <3>2 DEF Chain
  <2>4. Findable(p)'
    BY <1>2, <2>1 DEF Findable, Of
  <2>5. ASSUME NEW q \in Pushes, q \in ToSet(Of(q).ids) PROVE Kept(q)'
    BY <1>1, <1>2, <2>5 DEF Kept, Of
  <2> QED
    BY <1>2, <1>3, <2>1, <2>3, <2>4, <2>5, AppendHistories
<1>4. CASE Stored(p)
  <2>1. /\ UNCHANGED <<order, alone>> /\ crossed \subseteq crossed'
        /\ \A q \in Pushes : PayableOf[q] = i /\ Before(p, q) => i \in crossed'
    BY <1>4 DEF StoreAlone
  <2>2. /\ \A q \in Pushes : Stored(q)' <=> Stored(q)
        /\ \A q \in Pushes : Superseded(q)' <=> Superseded(q)
        /\ \A q, r \in Pushes : Before(q, r)' <=> Before(q, r)
    BY <2>1 DEF Stored, Superseded, Since, Before
  <2>3. \A q \in Pushes : q \in ToSet(Of(q).ids) => (q \in ToSet(Of(q).ids))'
    BY <1>1, <1>2 DEF Of
  <2>4. \A q \in Pushes : Kept(q) => Kept(q)'
    BY <2>1, <2>2, <2>3 DEF Kept
  <2>5. /\ \A q \in Pushes : q # p => push'[q] = push[q]
        /\ push'[p].at = "done"
    BY PushMoves
  <2>9. order' \in Seq(Pushes) /\ IsInjective(order') /\ alone' \subseteq ToSet(order')
    BY <2>1 DEF Histories
  <2>6. ASSUME NEW q \in Pushes, Stored(q) PROVE Finished(q)' /\ Findable(q)'
    <3>1. Finished(q)'
      BY <2>5, <2>6 DEF Finished, Histories
    <3>2. CASE Kept(q)
      BY <2>4, <3>1, <3>2 DEF Findable
    <3>3. CASE q = p /\ q \in alone
      BY <1>2, <2>1, <3>1, <3>3 DEF Findable, Of
    <3>4. CASE q # p /\ q \in alone /\ PayableOf[q] # i /\ Of(q).current = q
      BY <1>1, <1>2, <2>1, <3>1, <3>4 DEF Findable, Of
    <3>5. CASE q # p /\ q \in alone /\ PayableOf[q] = i
      <4>1. Before(p, q) \/ Before(q, p)
        <5>1. PICK m \in 1 .. Len(order) : order[m] = p
          BY <1>4, ToSetOfSeq DEF Stored, Histories
        <5>2. PICK n \in 1 .. Len(order) : order[n] = q
          BY <2>6, ToSetOfSeq DEF Stored, Histories
        <5>3. m < n \/ n < m
          BY <3>5, <5>1, <5>2
        <5> QED
          BY <5>1, <5>2, <5>3 DEF Before
      <4>2. CASE Before(p, q)
        BY <2>1, <3>1, <3>5, <4>2 DEF Findable, Kept
      <4>3. CASE Before(q, p)
        <5>1. Superseded(q)'
          BY <2>1, <2>2, <2>9, <3>5, <4>3, AloneSuperseded
        <5> QED
          BY <3>1, <5>1 DEF Findable, Kept
      <4> QED
        BY <4>1, <4>2, <4>3
    <3>6. Findable(q)
      BY <2>6 DEF Histories
    <3> QED
      BY <3>2, <3>3, <3>4, <3>5, <3>6 DEF Findable
  <2>7. ASSUME NEW j \in Payables PROVE Chain(j, payable[j].ids)' /\ LatestFits(j, payable[j].current)'
    <3>1. \E ids : ids = payable[j].ids
      OBVIOUS
    <3> PICK ids : ids = payable[j].ids
      BY <3>1
    <3>2. Chain(j, ids)' /\ payable'[j].ids = ids
      BY <1>2, <2>2, ChainStays DEF Histories
    <3>3. CASE j = i
      BY <1>2, <1>4, <2>2, <3>2, <3>3 DEF Chain, LatestFits
    <3>4. CASE j # i
      <4>1. LatestFits(j, payable[j].current)'
        BY <1>2, <2>2, <3>4 DEF LatestFits, Histories
      <4> QED
        BY <3>2, <4>1 DEF Chain
    <3> QED
      BY <3>3, <3>4
  <2>8. \A q \in Pushes : Frozen(q)' => Frozen(q) /\ push'[q].doc = push[q].doc
    BY <2>5 DEF Frozen
  <2>10. \A q \in Pushes : Stored(q)' => Finished(q)' /\ Findable(q)'
    BY <2>2, <2>6
  <2> QED
    BY <2>1, <2>2, <2>4, <2>7, <2>8, <2>9, <2>10, CallbacksKept, HistoriesStep
<1> QED
  BY <1>3, <1>4

LEMMA InitHistories == PromptsInit => Histories
<1> SUFFICES ASSUME PromptsInit PROVE Histories
  OBVIOUS
<1>1. <<>> \in Seq(Pushes) /\ Len(<<>>) = 0 /\ 1 .. Len(<<>>) = {} /\ DOMAIN <<>> = {}
  BY EmptySeq
<1>2. \A i : Chain(i, <<>>) /\ LatestFits(i, None)
  BY <1>1 DEF Chain, LatestFits
<1>3. order = <<>> /\ alone = {} /\ \A p \in Pushes : ~Stored(p)
  BY <1>1 DEF PromptsInit, Stored, ToSet
<1>4. IsInjective(order)
  BY <1>1, <1>3 DEF IsInjective
<1>5. /\ \A i \in Payables : payable[i].ids = <<>> /\ payable[i].current = None
      /\ \A p \in Pushes : push[p].at = "start" /\ callback[p].at = "none"
  BY DEF PromptsInit, NewInvoice
<1>6. StoredIdsMatch
  BY <1>5 DEF StoredIdsMatch
<1> QED
  BY <1>1, <1>2, <1>3, <1>4, <1>5, <1>6 DEF Histories

\* A push that does not store reads the invoice, or keeps what it read.
LEMMA PushHistories ==
  ASSUME IInv, Histories, NEW p \in Pushes,
         \A q \in Pushes : q # p => push'[q] = push[q],
         Finished(p) => Finished(p)',
         Frozen(p)' => \/ Frozen(p) /\ push'[p].doc = push[p].doc
                       \/ push'[p].doc = Of(p),
         UNCHANGED <<payable, callback, idVars>>
  PROVE  Histories'
<1>1. \A q \in Pushes : Finished(q) => Finished(q)'
  BY DEF Finished
<1>2. \A q \in Pushes : Frozen(q)' => \/ Frozen(q) /\ push'[q].doc = push[q].doc
                                     \/ push'[q].doc = Of(q)
  BY DEF Frozen
<1> QED
  BY <1>1, <1>2, CallbacksKept, HistoriesKept

LEMMA ReadInvoiceHistories == ASSUME IInv, Histories, NEW p \in Pushes, ReadInvoice(p) PROVE Histories'
<1>1. push[p].at = "start" /\ UNCHANGED <<payable, callback, idVars>>
  BY DEF ReadInvoice
<1>2. CASE PushAt(p, "done")
  BY <1>1, <1>2, PushMoves, PushHistories DEF Finished, Frozen
<1>3. CASE push' = [push EXCEPT ![p] = [at |-> "prompt", doc |-> Of(p)]]
  <2>1. push'[p].at = "prompt" /\ push'[p].doc = Of(p) /\ \A q \in Pushes : q # p => push'[q] = push[q]
    BY <1>3 DEF IInv, Shape
  <2> QED
    BY <1>1, <2>1, PushHistories DEF Finished
<1> QED
  BY <1>2, <1>3 DEF ReadInvoice

LEMMA SendPromptHistories == ASSUME IInv, Histories, NEW p \in Pushes, SendPrompt(p) PROVE Histories'
<1>1. push[p].at = "prompt" /\ UNCHANGED <<payable, callback, idVars>>
  BY DEF SendPrompt
<1>2. CASE PushAt(p, "done")
  BY <1>1, <1>2, PushMoves, PushHistories DEF Finished, Frozen
<1>3. CASE PushAt(p, "store")
  <2>1. push'[p].doc = push[p].doc
    BY <1>3 DEF PushAt, IInv, Shape
  <2> QED
    BY <1>1, <1>3, <2>1, PushMoves, PushHistories DEF Finished, Frozen
<1> QED
  BY <1>2, <1>3 DEF SendPrompt

LEMMA StoreIdHistories == ASSUME IInv, Histories, NEW p \in Pushes, StoreId(p) PROVE Histories'
<1>1. PICK at \in {"single", "done"} : PushAt(p, at)
  BY DEF StoreId
<1>2. push[p].at = "store" /\ callback' = callback
  BY DEF StoreId
<1>3. CASE StoreBoth(p)
  BY <1>1, <1>2, <1>3, StoreBothHistories
<1>4. CASE UNCHANGED <<payable, idVars>>
  <2>1. push'[p].at = at /\ \A q \in Pushes : q # p => push'[q] = push[q]
    BY <1>1, PushMoves
  <2> QED
    BY <1>1, <1>2, <1>4, <2>1, PushHistories DEF Finished, Frozen
<1> QED
  BY <1>3, <1>4 DEF StoreId

LEMMA StoreSingleHistories == ASSUME IInv, Histories, NEW p \in Pushes, StoreSingle(p) PROVE Histories'
<1>1. PushAt(p, "done") /\ UNCHANGED callback
  BY DEF StoreSingle
<1>2. CASE StoreAlone(p)
  BY <1>1, <1>2, StoreAloneHistories
<1>3. CASE UNCHANGED <<payable, idVars>>
  <2>1. push'[p].at = "done" /\ \A q \in Pushes : q # p => push'[q] = push[q]
    BY <1>1, PushMoves
  <2> QED
    BY <1>1, <1>3, <2>1, PushHistories DEF Finished, Frozen
<1> QED
  BY <1>2, <1>3 DEF StoreSingle

\* A step that moves a callback, and stores or reads no history.
LEMMA OtherHistories ==
  ASSUME IInv, Histories, UNCHANGED <<push, idVars>>,
         \A i \in Payables : payable'[i].ids = payable[i].ids /\ payable'[i].current = payable[i].current,
         \A p \in Pushes : callback'[p].at = "scan" /\ callback'[p].known => Stored(p) /\ Kept(p),
         \A p \in Pushes : callback'[p].at = "unmatched" /\ callback'[p].known =>
            \/ callback[p].at = "unmatched" /\ callback[p].known
            \/ Stored(p) /\ Kept(p) /\ p \notin ToSet(Of(p).ids)
  PROVE  Histories'
<1>1. \A p \in Pushes : (Finished(p)' <=> Finished(p)) /\ (Frozen(p)' <=> Frozen(p))
  BY DEF Finished, Frozen
<1> QED
  BY <1>1, HistoriesKept

LEMMA CallbackKnown ==
  ASSUME IInv, NEW p \in Pushes, NEW at, CallbackAt(p, at)
  PROVE  callback'[p].known = callback[p].known
BY DEF CallbackAt, IInv, Shape

\* The callback of p moves, and is neither scanning nor unmatched then.
LEMMA CallbackHistories ==
  ASSUME IInv, Histories, NEW p \in Pushes, UNCHANGED <<push, idVars>>,
         \A i \in Payables : payable'[i].ids = payable[i].ids /\ payable'[i].current = payable[i].current,
         \A q \in Pushes : q # p => callback'[q] = callback[q],
         callback'[p].at \notin {"scan", "unmatched"} \/ callback'[p] = callback[p]
  PROVE  Histories'
<1>1. \A q \in Pushes : callback'[q].at = "scan" /\ callback'[q].known => Stored(q) /\ Kept(q)
  BY DEF Histories
<1>2. \A q \in Pushes : callback'[q].at = "unmatched" /\ callback'[q].known => callback[q].at = "unmatched" /\ callback[q].known
  OBVIOUS
<1> QED
  BY <1>1, <1>2, OtherHistories

LEMMA MatchHistories ==
  ASSUME IInv, Histories, NEW p \in Pushes, MatchCurrent(p) \/ MatchHistory(p)
  PROVE  Histories'
<1>1. UNCHANGED <<payable, push, idVars>>
  BY DEF MatchCurrent, MatchHistory
<1>2. CASE CallbackAt(p, "over")
  BY <1>1, <1>2, CallbackMoves, CallbackHistories
<1>3. CASE Found(p, Of(p))
  <2>1. callback'[p].at = "verify" /\ \A q \in Pushes : q # p => callback'[q] = callback[q]
    BY <1>3 DEF Found, IInv, Shape
  <2> QED
    BY <1>1, <2>1, CallbackHistories
\* An id that is not the latest, and was stored, is kept in the history or excused.
<1>4. CASE Of(p).current # p /\ callback' = [callback EXCEPT ![p].at = "scan", ![p].known = Stored(p)]
  <2>1. /\ callback'[p].at = "scan" /\ callback'[p].known = Stored(p)
        /\ \A q \in Pushes : q # p => callback'[q] = callback[q]
    BY <1>4 DEF IInv, Shape
  <2>2. Stored(p) => Kept(p)
    BY <1>4 DEF Histories, Findable
  <2>3. \A q \in Pushes : callback'[q].at = "scan" /\ callback'[q].known => Stored(q) /\ Kept(q)
    BY <2>1, <2>2 DEF Histories
  <2>4. \A q \in Pushes : callback'[q].at = "unmatched" /\ callback'[q].known => callback[q].at = "unmatched" /\ callback[q].known
    BY <2>1
  <2> QED
    BY <1>1, <2>3, <2>4, OtherHistories
<1>5. CASE callback[p].at = "scan" /\ ~InHistory(p) /\ CallbackAt(p, "unmatched")
  <2>1. /\ callback'[p].at = "unmatched" /\ callback'[p].known = callback[p].known
        /\ \A q \in Pushes : q # p => callback'[q] = callback[q]
    BY <1>5, CallbackMoves, CallbackKnown
  <2>2. \A q \in Pushes : callback'[q].at = "scan" /\ callback'[q].known => Stored(q) /\ Kept(q)
    BY <2>1 DEF Histories
  <2>3. callback[p].known => Stored(p) /\ Kept(p) /\ p \notin ToSet(Of(p).ids)
    BY <1>5 DEF Histories, InHistory
  <2> QED
    BY <1>1, <2>1, <2>2, <2>3, OtherHistories
<1> QED
  BY <1>2, <1>3, <1>4, <1>5 DEF MatchCurrent, MatchHistory

LEMMA VerifyHistories == ASSUME IInv, Histories, NEW p \in Pushes, Verify(p) PROVE Histories'
<1>1. PICK at \in {"over", "underpaid", "activate"} : CallbackAt(p, at)
  BY DEF Verify
<1>2. UNCHANGED <<payable, push, idVars>>
  BY DEF Verify
<1> QED
  BY <1>1, <1>2, CallbackMoves, CallbackHistories

LEMMA ActivateHistories == ASSUME IInv, Histories, NEW p \in Pushes, Activate(p) PROVE Histories'
<1>1. CallbackAt(p, "over") /\ UNCHANGED <<push, idVars>>
  BY DEF Activate
<1>2. \A i \in Payables : payable'[i].ids = payable[i].ids /\ payable'[i].current = payable[i].current
  BY DEF Activate, IInv, Shape, Fields
<1> QED
  BY <1>1, <1>2, CallbackMoves, CallbackHistories

LEMMA EnterPinHistories == ASSUME IInv, Histories, NEW p \in Pushes, EnterPin(p) PROVE Histories'
<1>1. UNCHANGED <<payable, push, idVars>>
  BY DEF EnterPin
<1>2. CallbackAt(p, "sent") \/ callback' = callback
  BY DEF EnterPin
<1> QED
  BY <1>1, <1>2, CallbackMoves, CallbackHistories

LEMMA InvoiceHistories ==
  ASSUME IInv, Histories,
         \/ \E m \in Merges : FindOpen(m) \/ ReadLines(m) \/ WriteLines(m)
         \/ \E i \in Payables : ReadStatus(i) \/ MarkDeleted(i)
  PROVE  Histories'
<1>1. UNCHANGED <<push, callback, idVars>>
  BY DEF FindOpen, ReadLines, WriteLines, ReadStatus, MarkDeleted
<1>2. \A j \in Payables : payable'[j].ids = payable[j].ids /\ payable'[j].current = payable[j].current
  <2>1. CASE \E m \in Merges : FindOpen(m) \/ ReadLines(m)
    BY <2>1 DEF FindOpen, ReadLines
  <2>2. CASE \E m \in Merges : WriteLines(m)
    <3>1. PICK m \in Merges : WriteLines(m)
      BY <2>2
    <3>2. payable' = [payable EXCEPT ![merge[m].on].status = "Unpaid", ![merge[m].on].amount = merge[m].amount]
      BY <3>1 DEF WriteLines
    <3> QED
      BY <3>2 DEF IInv, Shape, Fields
  <2>3. CASE \E i \in Payables : ReadStatus(i) \/ MarkDeleted(i)
    BY <2>3 DEF ReadStatus, MarkDeleted, IInv, Shape, Fields
  <2> QED
    BY <2>1, <2>2, <2>3
<1> QED
  BY <1>1, <1>2, CallbacksKept, OtherHistories

LEMMA NextHistories == IInv /\ Histories /\ [PromptsNext]_promptVars => Histories'
<1> SUFFICES ASSUME IInv, Histories, [PromptsNext]_promptVars PROVE Histories'
  OBVIOUS
<1>1. CASE UNCHANGED promptVars
  BY <1>1, CallbacksKept, OtherHistories DEF promptVars, idVars
<1>2. ASSUME NEW p \in Pushes, ReadInvoice(p) \/ PushStep(p) \/ EnterPin(p) PROVE Histories'
  BY <1>2, ReadInvoiceHistories, SendPromptHistories, StoreIdHistories, StoreSingleHistories, EnterPinHistories DEF PushStep
<1>3. ASSUME NEW p \in Pushes, CallbackStep(p) PROVE Histories'
  BY <1>3, MatchHistories, VerifyHistories, ActivateHistories DEF CallbackStep
<1>4. CASE \/ \E m \in Merges : FindOpen(m) \/ ReadLines(m) \/ WriteLines(m)
           \/ \E i \in Payables : ReadStatus(i) \/ MarkDeleted(i)
  BY <1>4, InvoiceHistories
<1> QED
  BY <1>1, <1>2, <1>3, <1>4 DEF PromptsNext

\* What mpesaService.js's history achieves: the callback of a prompt whose id
\* either PUT stored finds no invoice only if HistoryMax later ids were stored,
\* or any later one when this id was stored outside the history, or a push of
\* the invoice stored over an id stored since it read, whatever requests fail
\* and however the two lookups fall between the pushes.
THEOREM IdsMatch == PromptsSpec => []StoredIdsMatch
<1>1. Histories => StoredIdsMatch
  BY DEF Histories
<1> QED
  BY <1>1, InitIInv, NextIInv, InitHistories, NextHistories, PTL DEF PromptsSpec
=============================================================================
