-------------------------- MODULE TenantSlugsProofs --------------------------
(* The store of shop addresses is an address book for any number of          *)
(* accounts, calls and failures.                                             *)
EXTENDS TenantSlugs, SequenceTheorems, TLAPS

Preparing == {"raise", "link", "order"}

\* Only a prepare-payment raises and links an invoice.
KindsFit ==
    \A c \in Calls :
        /\ pc[c] \in Preparing => c \in Prepares
        /\ op[c].at # "none" /\ op[c].kind = "link" => c \in Prepares

\* A handler's nowMs is in the past.
ClockFits ==
    \A c \in Calls : since[c] <= now /\ (op[c].at # "none" => op[c].nowMs <= now)

TypeInv == TypeOK /\ KindsFit /\ ClockFits

LEMMA PreparesAre == Prepares \subseteq Calls /\ \A c \in Calls : c \in Prepares <=> KindOf[c] = "prepare"
BY DEF Prepares

LEMMA AccountIs == \A c \in Calls : AccountOf[c] \in Accounts
BY ConstantsAssumption

LEMMA NoOpType == NoOp \in Op /\ NoOp.at = "none" /\ NoRow \in Row
BY DEF NoOp, Op, NoRow, Row

LEMMA NoOrderType == NoOrder \in Order
BY DEF NoOrder, Order

LEMMA InitTypeInv == Init => TypeInv
<1> SUFFICES ASSUME Init PROVE TypeInv
  OBVIOUS
<1>1. chain \in Seq(Calls)
  BY EmptySeq DEF Init
<1>2. doc \in Row /\ op \in [Calls -> Op] /\ order \in [Accounts -> Order] /\ \A c \in Calls : op[c].at = "none"
  BY NoOpType, NoOrderType DEF Init
<1>3. PICK made \in Scenarios : pc = [c \in Calls |-> IF c \in made THEN "idle" ELSE "done"]
  BY DEF Init
<1>4. pc \in [Calls -> Pc] /\ \A c \in Calls : pc[c] \in {"idle", "done"}
  BY <1>3 DEF Pc
<1>5. about \in [Calls -> Prepares \cup {Nobody}]
  BY ConstantsAssumption DEF Init, Settles
<1>6. since \in [Calls -> Nat] /\ tries \in [Calls -> Nat] /\ now \in Nat /\ mishaps \in Nat
      /\ now = 0 /\ \A c \in Calls : since[c] = 0
  BY DEF Init
<1>7. plan \in [Calls -> Jobs] /\ job \in [Prepares -> Jobs] /\ invoice \in [Prepares -> {"none", "Unpaid", "Paid"}]
  BY DEF Init, Jobs
<1>8. overran \in BOOLEAN
  BY DEF Init
<1>9. TypeOK
  BY <1>1, <1>2, <1>4, <1>5, <1>6, <1>7, <1>8 DEF TypeOK
<1>10. KindsFit
  BY <1>2, <1>4 DEF KindsFit, Preparing
<1>11. ClockFits
  BY <1>2, <1>6 DEF ClockFits
<1> QED
  BY <1>9, <1>10, <1>11 DEF TypeInv

----------------------------------------------------------------------------
(* The pieces of the actions *)

LEMMA GotoIs ==
  ASSUME TypeInv, NEW c \in Calls, NEW where \in Pc, Goto(c, where)
  PROVE  /\ pc' \in [Calls -> Pc] /\ since' \in [Calls -> Nat] /\ pc'[c] = where
         /\ \A d \in Calls : since'[d] \in {0, since[d]}
         /\ \A d \in Calls : d # c => pc'[d] = pc[d]
BY DEF Goto, TypeInv, TypeOK

LEMMA EnqueueIs ==
  ASSUME TypeInv, NEW c \in Calls, NEW kind \in {"reserve", "touch", "link", "activate"}, NEW nowMs \in Nat,
         Enqueue(c, kind, nowMs)
  PROVE  /\ op' \in [Calls -> Op] /\ chain' \in Seq(Calls)
         /\ op'[c].at = "read" /\ op'[c].kind = kind /\ op'[c].nowMs = nowMs /\ op'[c].late = FALSE
         /\ \A d \in Calls : d # c => op'[d] = op[d]
         /\ chain' = Append(chain, c)
<1> DEFINE new == [at |-> "read", late |-> FALSE, kind |-> kind, nowMs |-> nowMs, read |-> NoRow]
<1>1. /\ new \in Op /\ new.at = "read" /\ new.kind = kind /\ new.nowMs = nowMs /\ new.late = FALSE
      /\ op' = [op EXCEPT ![c] = new] /\ chain' = Append(chain, c)
  BY NoOpType DEF Op, Enqueue
<1>2. chain' \in Seq(Calls)
  BY <1>1, AppendProperties DEF TypeInv, TypeOK
<1> HIDE DEF new
<1> QED
  BY <1>1, <1>2 DEF TypeInv, TypeOK

\* What a handler does when its operation has answered.
LEMMA ResumeIs ==
  ASSUME TypeInv, NEW c \in Calls, NEW result, Resume(c, result)
  PROVE  /\ order' \in [Accounts -> Order] /\ plan' \in [Calls -> Jobs]
         /\ \A a \in Accounts : order'[a].invoice = order[a].invoice
         /\ \A d \in Calls : d # c => plan'[d] = plan[d]
         /\ plan'[c] = "chosen" => plan[c] = "chosen" \/ (pc[c] = "activate" /\ result = "ok")
         /\ \E where \in Pc : /\ Goto(c, where) /\ where # "activate" /\ (where \in Preparing => c \in Prepares)
<1>1. CASE AfterCreate(c, result)
  <2>1. PICK s \in {"Draft", "Cancelled"} : order' = [order EXCEPT ![AccountOf[c]].status = s]
    BY <1>1 DEF AfterCreate
  <2>2. order' \in [Accounts -> Order] /\ \A a \in Accounts : order'[a].invoice = order[a].invoice
    <3> DEFINE new == [order[AccountOf[c]] EXCEPT !.status = s]
    <3>1. new \in Order /\ new.invoice = order[AccountOf[c]].invoice
      <4>1. order[AccountOf[c]] \in Order
        BY AccountIs DEF TypeInv, TypeOK
      <4> QED
        BY <4>1 DEF Order
    <3>2. order' = [order EXCEPT ![AccountOf[c]] = new]
      BY <2>1
    <3> HIDE DEF new
    <3> QED
      BY <3>1, <3>2, AccountIs DEF TypeInv, TypeOK
  <2> QED
    BY <1>1, <2>2 DEF AfterCreate, TypeInv, TypeOK, Pc, Preparing
<1>2. CASE AfterHold(c, result)
  <2>1. \E where \in {"done", "raise", "order"} : Goto(c, where) /\ (where \in Preparing => c \in Prepares)
    <3>1. CASE pc[c] = "touch" /\ Goto(c, "done")
      BY <3>1 DEF Preparing
    <3>2. CASE /\ pc[c] = "reserve" /\ KindOf[c] = "prepare"
               /\ Goto(c, IF result = "ok" THEN "raise" ELSE "done")
      BY <3>2, PreparesAre DEF Preparing
    <3>3. CASE pc[c] = "link" /\ Goto(c, IF result = "ok" THEN "order" ELSE "done")
      BY <3>3 DEF Preparing, TypeInv, KindsFit
    <3> QED
      BY <1>2, <3>1, <3>2, <3>3 DEF AfterHold
  <2> QED
    BY <1>2, <2>1 DEF AfterHold, TypeInv, TypeOK, Pc
<1>3. CASE AfterActivate(c, result)
  <2>1. /\ plan' \in [Calls -> Jobs] /\ \A d \in Calls : d # c => plan'[d] = plan[d]
        /\ plan'[c] = "chosen" => result = "ok"
    BY <1>3 DEF AfterActivate, TypeInv, TypeOK, Jobs
  <2>2. \E where \in {"job", "adopt", "provenance"} : Goto(c, where)
    BY <1>3 DEF AfterActivate
  <2> QED
    BY <1>3, <2>1, <2>2 DEF AfterActivate, TypeInv, TypeOK, Pc, Preparing
<1> QED
  BY <1>1, <1>2, <1>3 DEF Resume

LEMMA FinishIs ==
  ASSUME TypeInv, NEW c \in Calls, NEW result, Finish(c, result), MayGo(c)
  PROVE  /\ op' \in [Calls -> Op] /\ op'[c] = NoOp /\ (\A d \in Calls : d # c => op'[d] = op[d])
         /\ chain' \in Seq(Calls)
         /\ pc' \in [Calls -> Pc] /\ (\A d \in Calls : pc'[d] \in Preparing => d \in Prepares)
         /\ since' \in [Calls -> Nat] /\ (\A d \in Calls : since'[d] <= now)
         /\ order' \in [Accounts -> Order] /\ (\A a \in Accounts : order'[a].invoice = order[a].invoice)
         /\ plan' \in [Calls -> Jobs]
<1>1. op' \in [Calls -> Op] /\ op'[c] = NoOp /\ (\A d \in Calls : d # c => op'[d] = op[d])
  BY NoOpType DEF Finish, TypeInv, TypeOK
<1>2. CASE op[c].late
  BY <1>1, <1>2 DEF Finish, TypeInv, TypeOK, KindsFit, ClockFits
<1>3. CASE ~op[c].late
  <2>1. chain # <<>> /\ chain' = Tail(chain) /\ Resume(c, result)
    BY <1>3 DEF Finish, MayGo, HasTurn
  <2>2. chain' \in Seq(Calls)
    BY <2>1, HeadTailProperties DEF TypeInv, TypeOK
  <2>3. /\ order' \in [Accounts -> Order] /\ plan' \in [Calls -> Jobs]
        /\ (\A a \in Accounts : order'[a].invoice = order[a].invoice)
        /\ \E where \in Pc : Goto(c, where) /\ (where \in Preparing => c \in Prepares)
    BY <2>1, ResumeIs
  <2>4. /\ pc' \in [Calls -> Pc] /\ (\A d \in Calls : pc'[d] \in Preparing => d \in Prepares)
        /\ since' \in [Calls -> Nat] /\ (\A d \in Calls : since'[d] \in {0, since[d]})
    BY <2>3, GotoIs DEF TypeInv, KindsFit
  <2>5. \A d \in Calls : since'[d] <= now
    <3>1. now \in Nat /\ \A d \in Calls : since[d] <= now
      BY DEF TypeInv, TypeOK, ClockFits
    <3>2. 0 <= now
      BY <3>1
    <3> QED
      BY <2>4, <3>1, <3>2
  <2> QED
    BY <1>1, <2>2, <2>3, <2>4, <2>5
<1> QED
  BY <1>2, <1>3

LEMMA WrittenType == ASSUME TypeInv, NEW c \in Calls, op[c].at # "none" PROVE Written(c) \in Row
<1>1. /\ doc \in Row /\ op[c] \in Op /\ op[c].read \in Row /\ op[c].nowMs \in Nat /\ op[c].read.expires \in Nat
      /\ op[c].read.invoices \in SUBSET Prepares
  BY DEF TypeInv, TypeOK, Op, Row
<1>2. TTL \in Nat /\ PaymentGrace \in Nat /\ AccountOf[c] \in Accounts
  BY ConstantsAssumption
<1>3. /\ op[c].nowMs + TTL \in Nat /\ Later(op[c].nowMs + TTL, op[c].read.expires) \in Nat
      /\ Later(op[c].nowMs + PaymentGrace, op[c].read.expires) \in Nat
  BY <1>1, <1>2 DEF Later
<1>4. CASE op[c].kind = "reserve"
  <2>1. [doc EXCEPT !.expires = Later(op[c].nowMs + TTL, op[c].read.expires)] \in Row
    BY <1>1, <1>3 DEF Row
  <2>2. [status |-> "reserved", account |-> AccountOf[c], invoices |-> {}, expires |-> op[c].nowMs + TTL] \in Row
    BY <1>2, <1>3 DEF Row
  <2>3. Reserved(c) \in Row
    BY <1>1, <2>1, <2>2 DEF Reserved
  <2> QED
    BY <1>4, <2>3 DEF Written
<1>5. CASE op[c].kind = "touch"
  <2>1. [doc EXCEPT !.expires = op[c].nowMs + TTL] \in Row
    BY <1>1, <1>3 DEF Row
  <2> QED
    BY <1>5, <2>1 DEF Written
<1>6. CASE op[c].kind = "link"
  <2>1. c \in Prepares
    BY <1>6 DEF TypeInv, KindsFit
  <2>2. op[c].read.invoices \cup {c} \in SUBSET Prepares
    BY <1>1, <2>1
  <2> DEFINE linked == op[c].read.invoices \cup {c}
             later == Later(op[c].nowMs + PaymentGrace, op[c].read.expires)
  <2>3. linked \in SUBSET Prepares /\ later \in Nat
    BY <1>3, <2>2
  <2>4. Linked(c) = [doc EXCEPT !.invoices = linked, !.expires = later]
    BY DEF Linked
  <2> HIDE DEF linked, later
  <2>5. [doc EXCEPT !.invoices = linked, !.expires = later] \in Row
    BY <1>1, <2>3 DEF Row
  <2> QED
    BY <1>6, <2>4, <2>5 DEF Written
<1>7. CASE op[c].kind = "activate"
  <2>1. [doc EXCEPT !.status = "active"] \in Row
    BY <1>1 DEF Row
  <2> QED
    BY <1>7, <2>1 DEF Written
<1> QED
  BY <1>1, <1>4, <1>5, <1>6, <1>7 DEF Op

LEMMA ChargeType == ASSUME TypeInv, NEW ok, Charge(ok) PROVE mishaps' \in Nat
BY DEF Charge, Fail, TypeInv, TypeOK

LEMMA FailType == ASSUME TypeInv, Fail PROVE mishaps' \in Nat
BY DEF Fail, TypeInv, TypeOK

LEMMA OutcomesAre ==
  ASSUME NEW old, NEW new, NEW o \in Outcomes(old, new)
  PROVE  o[1] \in {old, new} /\ (o[2] => o[1] = new)
<1>1. CASE o = <<new, TRUE>>
  BY <1>1
<1>2. CASE o = <<old, FALSE>>
  BY <1>2
<1>3. CASE o = <<new, FALSE>>
  BY <1>3
<1> QED
  BY <1>1, <1>2, <1>3 DEF Outcomes

\* What a step leaves alone keeps its type.
Typed ==
    /\ doc' \in Row /\ chain' \in Seq(Calls) /\ op' \in [Calls -> Op] /\ pc' \in [Calls -> Pc]
    /\ since' \in [Calls -> Nat] /\ order' \in [Accounts -> Order] /\ plan' \in [Calls -> Jobs]
    /\ \A d \in Calls : pc'[d] \in Preparing => d \in Prepares
    /\ \A d \in Calls : since'[d] <= now
    /\ \A d \in Calls : op'[d].at # "none" =>
          op'[d].nowMs <= now /\ (op'[d].kind = "link" => d \in Prepares)

LEMMA TypedIs ==
  ASSUME TypeInv, Typed, UNCHANGED <<invoice, job, about, tries, now>>, mishaps' \in Nat, overran' \in BOOLEAN
  PROVE  TypeInv'
<1>1. TypeOK'
  BY DEF TypeInv, TypeOK, Typed
<1>2. KindsFit' /\ ClockFits'
  BY DEF TypeInv, KindsFit, ClockFits, Typed
<1> QED
  BY <1>1, <1>2 DEF TypeInv

LEMMA FinishTyped ==
  ASSUME TypeInv, NEW c \in Calls, NEW result, Finish(c, result), MayGo(c), doc' \in Row
  PROVE  Typed
<1>1. op'[c].at = "none"
  BY FinishIs, NoOpType
<1>2. \A d \in Calls : op'[d].at # "none" => op'[d] = op[d]
  BY <1>1, FinishIs
<1> QED
  BY <1>2, FinishIs DEF Typed, TypeInv, KindsFit, ClockFits

\* The records a handler writes itself.
Kept ==
    /\ invoice' \in [Prepares -> {"none", "Unpaid", "Paid"}] /\ job' \in [Prepares -> Jobs]
    /\ about' \in [Calls -> Prepares \cup {Nobody}] /\ tries' \in [Calls -> Nat]
    /\ mishaps' \in Nat /\ overran' \in BOOLEAN

LEMMA KeptIs == ASSUME TypeInv, Typed, Kept, now' = now PROVE TypeInv'
<1>1. TypeOK'
  BY DEF TypeInv, TypeOK, Typed, Kept
<1>2. KindsFit' /\ ClockFits'
  BY DEF TypeInv, KindsFit, ClockFits, Typed
<1> QED
  BY <1>1, <1>2 DEF TypeInv

\* A handler that moves on, and whose operation is as it was.
LEMMA MovesOn ==
  ASSUME TypeInv, NEW c \in Calls, NEW where \in Pc, Goto(c, where), where \in Preparing => c \in Prepares,
         UNCHANGED <<doc, chain, op>>,
         order' \in [Accounts -> Order], plan' \in [Calls -> Jobs]
  PROVE  Typed
<1>1. /\ pc' \in [Calls -> Pc] /\ since' \in [Calls -> Nat]
      /\ \A d \in Calls : since'[d] \in {0, since[d]}
      /\ \A d \in Calls : pc'[d] \in Preparing => d \in Prepares
  BY GotoIs DEF TypeInv, KindsFit
<1>2. \A d \in Calls : since'[d] <= now
  <2>1. now \in Nat /\ \A d \in Calls : since[d] <= now
    BY DEF TypeInv, TypeOK, ClockFits
  <2>2. 0 <= now
    BY <2>1
  <2> QED
    BY <1>1, <2>1, <2>2
<1>3. /\ doc' \in Row /\ chain' \in Seq(Calls) /\ op' \in [Calls -> Op]
      /\ \A d \in Calls : op'[d].at # "none" =>
            op'[d].nowMs <= now /\ (op'[d].kind = "link" => d \in Prepares)
  BY DEF TypeInv, TypeOK, KindsFit, ClockFits
<1> QED
  BY <1>1, <1>2, <1>3 DEF Typed

\* A handler that moves on to an operation.
LEMMA MovesToOperation ==
  ASSUME TypeInv, NEW c \in Calls, NEW where \in Pc, where \in Preparing => c \in Prepares,
         NEW kind \in {"reserve", "touch", "link", "activate"}, kind = "link" => c \in Prepares,
         NEW nowMs \in Nat, nowMs <= now, Enqueue(c, kind, nowMs),
         pc' = [pc EXCEPT ![c] = where],
         since' \in [Calls -> Nat], \A d \in Calls : since'[d] <= now,
         doc' = doc, order' \in [Accounts -> Order], plan' \in [Calls -> Jobs]
  PROVE  Typed
<1>1. /\ op' \in [Calls -> Op] /\ chain' \in Seq(Calls)
      /\ op'[c].kind = kind /\ op'[c].nowMs = nowMs /\ \A d \in Calls : d # c => op'[d] = op[d]
  BY EnqueueIs, ZenonT(40)
<1>2. pc' \in [Calls -> Pc] /\ \A d \in Calls : pc'[d] \in Preparing => d \in Prepares
  BY DEF TypeInv, TypeOK, KindsFit
<1>3. \A d \in Calls : op'[d].at # "none" =>
         op'[d].nowMs <= now /\ (op'[d].kind = "link" => d \in Prepares)
  BY <1>1 DEF TypeInv, KindsFit, ClockFits
<1> QED
  BY <1>1, <1>2, <1>3 DEF Typed, TypeInv, TypeOK

LEMMA StartTyped ==
  ASSUME TypeInv, NEW c \in Calls, NEW where \in {"reserve", "touch", "activate"},
         NEW kind \in {"reserve", "touch", "activate"}, Start(c, where, kind),
         doc' = doc, order' \in [Accounts -> Order], plan' = plan
  PROVE  Typed
<1>1. since' \in [Calls -> Nat] /\ (\A d \in Calls : since'[d] <= now) /\ now \in Nat /\ now <= now
  BY DEF Start, TypeInv, TypeOK, ClockFits
<1>2. plan' \in [Calls -> Jobs]
  BY DEF TypeInv, TypeOK
<1> QED
  BY <1>1, <1>2, MovesToOperation DEF Start, Pc, Preparing

LEMMA BeginType ==
  ASSUME TypeInv, NEW c \in Calls, Create(c) \/ View(c) \/ Prepare(c) \/ Settle(c)
  PROVE  TypeInv'
<1>1. CASE Create(c)
  <2> DEFINE new == [NoOrder EXCEPT !.status = "Draft"]
  <2>1. new \in Order /\ order' = [order EXCEPT ![AccountOf[c]] = new]
    BY <1>1 DEF Create, NoOrder, Order
  <2> HIDE DEF new
  <2>2. order' \in [Accounts -> Order]
    BY <2>1, AccountIs DEF TypeInv, TypeOK
  <2>3. Typed /\ Kept /\ now' = now
    BY <1>1, <2>2, StartTyped DEF Create, Kept, TypeInv, TypeOK
  <2> QED
    BY <2>3, KeptIs
<1>2. CASE View(c) \/ Prepare(c)
  <2>1. Typed /\ Kept /\ now' = now
    BY <1>2, StartTyped DEF View, Prepare, Kept, TypeInv, TypeOK
  <2> QED
    BY <2>1, KeptIs
<1>3. CASE Settle(c)
  <2>1. invoice' \in [Prepares -> {"none", "Unpaid", "Paid"}]
    BY <1>3 DEF Settle, TypeInv, TypeOK
  <2>2. Typed /\ Kept /\ now' = now
    BY <1>3, <2>1, StartTyped DEF Settle, Kept, TypeInv, TypeOK
  <2> QED
    BY <2>2, KeptIs
<1> QED
  BY <1>1, <1>2, <1>3

LEMMA SweepType == ASSUME TypeInv, NEW c \in Calls, Sweep(c) PROVE TypeInv'
<1>1. /\ Goto(c, "mark") /\ UNCHANGED <<doc, chain, op, order, invoice, job, plan, now, mishaps, overran>>
      /\ tries' = [tries EXCEPT ![c] = order[AccountOf[c]].attempts]
      /\ \E p \in Prepares : about' = [about EXCEPT ![c] = p]
  BY DEF Sweep
<1>2. Typed
  BY <1>1, MovesOn DEF Pc, Preparing, TypeInv, TypeOK
<1>3. order[AccountOf[c]].attempts \in Nat
  BY AccountIs DEF TypeInv, TypeOK, Order
<1>4. tries' \in [Calls -> Nat]
  BY <1>1, <1>3 DEF TypeInv, TypeOK
<1>5. Kept
  BY <1>1, <1>4 DEF Kept, TypeInv, TypeOK
<1> QED
  BY <1>1, <1>2, <1>5, KeptIs

LEMMA RaiseType == ASSUME TypeInv, NEW c \in Calls, Raise(c) PROVE TypeInv'
<1>1. PICK o \in Outcomes("none", "Unpaid") :
         /\ invoice' = [invoice EXCEPT ![c] = o[1]] /\ Charge(o[2])
         /\ IF o[2]
            THEN Goto(c, "link") /\ Enqueue(c, "link", since[c])
            ELSE Goto(c, "done") /\ UNCHANGED <<op, chain>>
  BY DEF Raise
<1>2. /\ pc[c] = "raise" /\ c \in Prepares /\ UNCHANGED <<doc, order, job, about, plan, tries, now, overran>>
  BY DEF Raise, TypeInv, KindsFit, Preparing
<1>3. o[1] \in {"none", "Unpaid"}
  BY OutcomesAre
<1>4. Kept
  BY <1>1, <1>2, <1>3, ChargeType DEF Kept, TypeInv, TypeOK
<1>5. CASE Goto(c, "done") /\ UNCHANGED <<op, chain>>
  <2>1. Typed
    BY <1>2, <1>5, MovesOn DEF Pc, Preparing, TypeInv, TypeOK
  <2> QED
    BY <1>2, <1>4, <2>1, KeptIs
<1>6. CASE Goto(c, "link") /\ Enqueue(c, "link", since[c])
  <2>1. /\ since[c] \in Nat /\ since[c] <= now /\ since' = since /\ pc' = [pc EXCEPT ![c] = "link"]
        /\ since' \in [Calls -> Nat] /\ (\A d \in Calls : since'[d] <= now)
    BY <1>6 DEF Goto, TypeInv, TypeOK, ClockFits
  <2>2. order' \in [Accounts -> Order] /\ plan' \in [Calls -> Jobs]
    BY <1>2 DEF TypeInv, TypeOK
  <2>3. Typed
    BY <1>2, <1>6, <2>1, <2>2, MovesToOperation DEF Pc
  <2> QED
    BY <1>2, <1>4, <2>3, KeptIs
<1> QED
  BY <1>1, <1>5, <1>6

\* The snapshot an operation takes.
LEMMA SnapshotIs ==
  ASSUME TypeInv, NEW c \in Calls, op' = [op EXCEPT ![c] = [@ EXCEPT !.at = "write", !.read = doc]]
  PROVE  /\ op' \in [Calls -> Op] /\ op'[c].at = "write" /\ op'[c].read = doc
         /\ op'[c].nowMs = op[c].nowMs /\ op'[c].kind = op[c].kind /\ op'[c].late = op[c].late
         /\ \A d \in Calls : d # c => op'[d] = op[d]
<1> DEFINE new == [op[c] EXCEPT !.at = "write", !.read = doc]
<1>1. op[c] \in Op /\ doc \in Row
  BY DEF TypeInv, TypeOK
<1>2. /\ new \in Op /\ new.at = "write" /\ new.read = doc
      /\ new.nowMs = op[c].nowMs /\ new.kind = op[c].kind /\ new.late = op[c].late
  BY <1>1 DEF Op
<1>3. op' = [op EXCEPT ![c] = new]
  OBVIOUS
<1> HIDE DEF new
<1> QED
  BY <1>2, <1>3 DEF TypeInv, TypeOK

LEMMA ReadType == ASSUME TypeInv, NEW c \in Calls, Read(c) PROVE TypeInv'
<1>1. /\ op[c].at = "read" /\ MayGo(c) /\ UNCHANGED <<doc, invoice, job, about, tries, now, overran>>
      /\ doc' \in Row /\ overran' \in BOOLEAN
  BY DEF Read, TypeInv, TypeOK
<1>2. CASE /\ op' = [op EXCEPT ![c] = [@ EXCEPT !.at = "write", !.read = doc]]
           /\ UNCHANGED <<chain, pc, since, order, plan, mishaps>>
  <2>1. /\ op' \in [Calls -> Op] /\ op'[c].nowMs = op[c].nowMs /\ op'[c].kind = op[c].kind
        /\ \A d \in Calls : d # c => op'[d] = op[d]
    BY <1>2, SnapshotIs
  <2>2. Typed
    BY <1>1, <1>2, <2>1 DEF Typed, TypeInv, TypeOK, KindsFit, ClockFits
  <2> QED
    BY <1>1, <1>2, <2>2, TypedIs DEF TypeInv, TypeOK
<1>3. ASSUME NEW result, Finish(c, result), UNCHANGED mishaps \/ Fail PROVE TypeInv'
  <2>1. mishaps' \in Nat
    BY <1>3, FailType DEF TypeInv, TypeOK
  <2>2. Typed
    BY <1>1, <1>3, FinishTyped
  <2> QED
    BY <1>1, <2>1, <2>2, TypedIs
<1> QED
  BY <1>2, <1>3 DEF Read

LEMMA WriteType == ASSUME TypeInv, NEW c \in Calls, Write(c) PROVE TypeInv'
<1>1. /\ op[c].at = "write" /\ MayGo(c) /\ UNCHANGED <<invoice, job, about, tries, now, overran>>
      /\ overran' \in BOOLEAN
  BY DEF Write, TypeInv, TypeOK
<1>2. PICK o \in Outcomes(doc, Written(c)) :
         doc' = o[1] /\ Charge(o[2]) /\ Finish(c, IF o[2] THEN Answer(c) ELSE "failed")
  BY DEF Write
<1>3. doc' \in {doc, Written(c)}
  BY <1>2, OutcomesAre
<1>4. doc' \in Row
  BY <1>1, <1>3, WrittenType DEF TypeInv, TypeOK
<1>5. mishaps' \in Nat
  BY <1>2, ChargeType
<1>6. Typed
  BY <1>1, <1>2, <1>4, FinishTyped
<1> QED
  BY <1>1, <1>5, <1>6, TypedIs

LEMMA TimeOutType == ASSUME TypeInv, NEW c \in Calls, TimeOut(c) PROVE TypeInv'
<1>1. /\ chain # <<>> /\ op' = [op EXCEPT ![c].late = TRUE] /\ chain' = Tail(chain) /\ Resume(c, "timeout")
      /\ overran' = TRUE /\ UNCHANGED <<doc, invoice, job, about, tries, now, mishaps>>
  BY DEF TimeOut, HasTurn
<1>2. chain' \in Seq(Calls)
  BY <1>1, HeadTailProperties DEF TypeInv, TypeOK
<1>3. /\ order' \in [Accounts -> Order] /\ plan' \in [Calls -> Jobs]
      /\ \E where \in Pc : Goto(c, where) /\ (where \in Preparing => c \in Prepares)
  BY <1>1, ResumeIs
<1>4. /\ pc' \in [Calls -> Pc] /\ (\A d \in Calls : pc'[d] \in Preparing => d \in Prepares)
      /\ since' \in [Calls -> Nat] /\ (\A d \in Calls : since'[d] \in {0, since[d]})
  BY <1>3, GotoIs DEF TypeInv, KindsFit
<1>5. \A d \in Calls : since'[d] <= now
  <2>1. now \in Nat /\ \A d \in Calls : since[d] <= now
    BY DEF TypeInv, TypeOK, ClockFits
  <2>2. 0 <= now
    BY <2>1
  <2> QED
    BY <1>4, <2>1, <2>2
<1>6. /\ op' \in [Calls -> Op]
      /\ \A d \in Calls : op'[d].at = op[d].at /\ op'[d].nowMs = op[d].nowMs /\ op'[d].kind = op[d].kind
  <2>1. op \in [Calls -> Op] /\ op[c] \in Op
    BY DEF TypeInv, TypeOK
  <2>2. [op[c] EXCEPT !.late = TRUE] \in Op
    BY <2>1 DEF Op
  <2>3. op' = [op EXCEPT ![c] = [op[c] EXCEPT !.late = TRUE]]
    BY <1>1
  <2> QED
    BY <2>1, <2>2, <2>3
<1>7. Typed
  BY <1>1, <1>2, <1>3, <1>4, <1>5, <1>6 DEF Typed, TypeInv, TypeOK, KindsFit, ClockFits
<1> QED
  BY <1>1, <1>7, TypedIs DEF TypeInv, TypeOK

\* A write to an order that may fail.
LEMMA OrderPut ==
  ASSUME TypeInv, NEW a \in Accounts, NEW new \in Order, NEW o \in Outcomes(order[a], new),
         order' = [order EXCEPT ![a] = o[1]]
  PROVE  /\ order' \in [Accounts -> Order]
         /\ order'[a] \in {order[a], new} /\ \A d \in Accounts : d # a => order'[d] = order[d]
<1>1. o[1] \in {order[a], new} /\ order[a] \in Order
  BY OutcomesAre DEF TypeInv, TypeOK
<1> QED
  BY <1>1 DEF TypeInv, TypeOK

\* The sweep writes what it made of an order, and leaves its invoice alone.
LEMMA OrderSwept ==
  ASSUME TypeInv, NEW c \in Calls, Mark(c) \/ MarkResult(c) \/ FlipOrder(c)
  PROVE  order' \in [Accounts -> Order] /\ \A d \in Accounts : order'[d].invoice = order[d].invoice
<1> DEFINE a == AccountOf[c]
<1>1. a \in Accounts /\ tries[c] + 1 \in Nat
  BY AccountIs DEF TypeInv, TypeOK
<1>2. \E new \in Order : new.invoice = order[a].invoice /\ \E o \in Outcomes(order[a], new) : order' = [order EXCEPT ![a] = o[1]]
  <2>1. CASE Mark(c) \/ MarkResult(c)
    <3>1. PICK marker \in {"activating", "done", "failed", "gave_up"} :
             \E o \in Outcomes(order[a], [Tried(a, c) EXCEPT !.marker = marker]) : order' = [order EXCEPT ![a] = o[1]]
      BY <2>1 DEF Mark, MarkResult
    <3> DEFINE new == [Tried(a, c) EXCEPT !.marker = marker]
    <3>2. order[a] \in Order
      BY <1>1 DEF TypeInv, TypeOK
    <3>3. new \in Order /\ new.invoice = order[a].invoice
      BY <1>1, <3>2 DEF Order, Tried
    <3> HIDE DEF new
    <3> QED
      BY <3>1, <3>3 DEF new
  <2>2. CASE FlipOrder(c)
    <3> DEFINE new == [order[a] EXCEPT !.status = "Paid", !.old = FALSE]
    <3>1. \E o \in Outcomes(order[a], new) : order' = [order EXCEPT ![a] = o[1]]
      BY <2>2 DEF FlipOrder
    <3>2. order[a] \in Order
      BY <1>1 DEF TypeInv, TypeOK
    <3>3. new \in Order /\ new.invoice = order[a].invoice
      BY <3>2 DEF Order
    <3> HIDE DEF new
    <3> QED
      BY <3>1, <3>3
  <2> QED
    BY <2>1, <2>2
<1>3. PICK new \in Order : new.invoice = order[a].invoice /\ \E o \in Outcomes(order[a], new) : order' = [order EXCEPT ![a] = o[1]]
  BY <1>2
<1>4. PICK o \in Outcomes(order[a], new) : order' = [order EXCEPT ![a] = o[1]]
  BY <1>3
<1> HIDE DEF a
<1> QED
  BY <1>1, <1>3, <1>4, OrderPut

\* A prepare links its own invoice to the order of its account, or nothing.
LEMMA OrderLinked ==
  ASSUME TypeInv, NEW c \in Calls, LinkOrder(c)
  PROVE  /\ c \in Prepares /\ order' \in [Accounts -> Order]
         /\ \A d \in Accounts : order'[d].invoice = order[d].invoice \/ (d = AccountOf[c] /\ order'[d].invoice = c)
<1> DEFINE a == AccountOf[c]
<1>1. a \in Accounts /\ c \in Prepares
  BY AccountIs DEF LinkOrder, TypeInv, KindsFit, Preparing
<1> DEFINE new == [order[a] EXCEPT !.invoice = c, !.old = FALSE]
<1>2. new \in Order /\ new.invoice = c
  <2>1. order[a] \in Order
    BY <1>1 DEF TypeInv, TypeOK
  <2> QED
    BY <1>1, <2>1 DEF Order
<1>3. PICK o \in Outcomes(order[a], new) : order' = [order EXCEPT ![a] = o[1]]
  BY DEF LinkOrder
<1> HIDE DEF a, new
<1>4. /\ order' \in [Accounts -> Order]
      /\ order'[a] \in {order[a], new} /\ \A d \in Accounts : d # a => order'[d] = order[d]
  BY <1>1, <1>2, <1>3, OrderPut
<1> QED
  BY <1>1, <1>2, <1>4 DEF a

\* What happens to an order outside its handlers.
Moves(a) == CancelOrder(a) \/ FlipPaid(a) \/ GrowOld(a)

LEMMA OrderMoved ==
  ASSUME TypeInv, NEW a \in Accounts, Moves(a)
  PROVE  /\ order' \in [Accounts -> Order] /\ \A d \in Accounts : order'[d].invoice = order[d].invoice
         /\ UNCHANGED <<doc, chain, op, pc, since, invoice, job, about, plan, tries, now, mishaps, overran>>
<1>1. PICK s \in {"none", "Draft", "Paid", "Cancelled"}, b \in BOOLEAN :
         ChangesOrder(a, [order[a] EXCEPT !.status = s, !.old = b])
  <2>1. CASE CancelOrder(a)
    BY <2>1 DEF CancelOrder
  <2>2. CASE FlipPaid(a)
    BY <2>2 DEF FlipPaid
  <2>3. CASE GrowOld(a)
    <3>1. order[a] \in Order
      BY DEF TypeInv, TypeOK
    <3>2. [order[a] EXCEPT !.old = TRUE] = [order[a] EXCEPT !.status = order[a].status, !.old = TRUE]
      BY <3>1 DEF Order
    <3>3. order[a].status \in {"none", "Draft", "Paid", "Cancelled"}
      BY <3>1 DEF Order
    <3> QED
      BY <2>3, <3>2, <3>3 DEF GrowOld
  <2> QED
    BY <2>1, <2>2, <2>3 DEF Moves
<1>2. order[a] \in Order
  BY DEF TypeInv, TypeOK
<1> DEFINE new == [order[a] EXCEPT !.status = s, !.old = b]
<1>3. new \in Order /\ new.invoice = order[a].invoice
  BY <1>2 DEF Order
<1> HIDE DEF new
<1>4. order' = [order EXCEPT ![a] = new]
  BY <1>1 DEF ChangesOrder, new
<1> QED
  BY <1>1, <1>3, <1>4 DEF ChangesOrder, TypeInv, TypeOK

LEMMA MovesType == ASSUME TypeInv, NEW a \in Accounts, Moves(a) PROVE TypeInv'
<1>1. Typed
  BY OrderMoved DEF Typed, TypeInv, TypeOK, KindsFit, ClockFits
<1>2. Kept /\ UNCHANGED <<doc, now, tries, about>>
  BY OrderMoved DEF Kept, TypeInv, TypeOK
<1> QED
  BY <1>1, <1>2, KeptIs

LEMMA LinkOrderType == ASSUME TypeInv, NEW c \in Calls, LinkOrder(c) PROVE TypeInv'
<1>1. /\ Goto(c, "done") /\ order' \in [Accounts -> Order]
      /\ UNCHANGED <<doc, chain, op, invoice, job, about, plan, tries, now, overran>>
  BY OrderLinked DEF LinkOrder
<1>2. Typed
  BY <1>1, MovesOn DEF Pc, Preparing, TypeInv, TypeOK
<1>3. mishaps' \in Nat
  BY ChargeType DEF LinkOrder, TypeInv, TypeOK
<1>4. Kept
  BY <1>1, <1>3 DEF Kept, TypeInv, TypeOK
<1> QED
  BY <1>1, <1>2, <1>4, KeptIs

LEMMA PayByHandType == ASSUME TypeInv, NEW p \in Prepares, PayByHand(p) PROVE TypeInv'
<1>1. Typed
  BY DEF PayByHand, Typed, TypeInv, TypeOK, KindsFit, ClockFits
<1>2. Kept /\ now' = now
  BY DEF PayByHand, Kept, TypeInv, TypeOK
<1> QED
  BY <1>1, <1>2, KeptIs

LEMMA PlanType == ASSUME TypeInv, NEW c \in Calls, Adopt(c) \/ Provenance(c) PROVE TypeInv'
<1>1. /\ UNCHANGED <<doc, chain, op, order, invoice, job, about, tries, now, overran>>
      /\ mishaps' \in Nat
  BY FailType DEF Adopt, Provenance, TypeInv, TypeOK
<1>2. \E where \in {"job", "provenance"} : Goto(c, where)
  BY DEF Adopt, Provenance, Planned
<1>3. plan' \in [Calls -> Jobs]
  BY DEF Adopt, Provenance, Planned, TypeInv, TypeOK, Jobs
<1>4. order' \in [Accounts -> Order]
  BY <1>1 DEF TypeInv, TypeOK
<1>5. Typed
  BY <1>1, <1>2, <1>3, <1>4, MovesOn DEF Pc, Preparing
<1>6. Kept
  BY <1>1 DEF Kept, TypeInv, TypeOK
<1> QED
  BY <1>1, <1>5, <1>6, KeptIs

LEMMA PostJobType == ASSUME TypeInv, NEW c \in Calls, PostJob(c) PROVE TypeInv'
<1> DEFINE new == IF job[about[c]] = "none" THEN plan[c] ELSE job[about[c]]
<1>1. PICK o \in Outcomes(job[about[c]], new) : job' = [job EXCEPT ![about[c]] = o[1]] /\ Charge(o[2])
  BY DEF PostJob
<1>2. /\ Goto(c, IF KindOf[c] = "sweep" THEN "check" ELSE "done")
      /\ plan' = [plan EXCEPT ![c] = "none"]
      /\ UNCHANGED <<doc, chain, op, order, invoice, about, tries, now, overran>>
  BY DEF PostJob
<1>3. o[1] \in {job[about[c]], plan[c]}
  BY OutcomesAre
<1>4. job' \in [Prepares -> Jobs]
  BY <1>1, <1>3 DEF TypeInv, TypeOK
<1>5. plan' \in [Calls -> Jobs] /\ order' \in [Accounts -> Order]
  BY <1>2 DEF TypeInv, TypeOK, Jobs
<1>6. Typed
  BY <1>2, <1>5, MovesOn DEF Pc, Preparing
<1>7. Kept
  BY <1>1, <1>2, <1>4, ChargeType DEF Kept, TypeInv, TypeOK
<1> QED
  BY <1>2, <1>6, <1>7, KeptIs

LEMMA SweptType == ASSUME TypeInv, NEW c \in Calls, Mark(c) \/ MarkResult(c) \/ FlipOrder(c) PROVE TypeInv'
<1>1. order' \in [Accounts -> Order] /\ plan' \in [Calls -> Jobs]
  BY OrderSwept DEF Mark, MarkResult, FlipOrder, TypeInv, TypeOK
<1>2. UNCHANGED <<doc, plan, invoice, job, about, tries, now, overran>>
  BY DEF Mark, MarkResult, FlipOrder
<1>3. mishaps' \in Nat
  BY ChargeType DEF Mark, MarkResult, FlipOrder, TypeInv, TypeOK
<1>4. Kept
  BY <1>2, <1>3 DEF Kept, TypeInv, TypeOK
<1>5. CASE \E where \in {"idle", "flip"} : Goto(c, where) /\ UNCHANGED <<op, chain>>
  <2>1. Typed
    BY <1>1, <1>2, <1>5, MovesOn DEF Pc, Preparing
  <2> QED
    BY <1>2, <1>4, <2>1, KeptIs
<1>6. CASE Goto(c, "activate") /\ Enqueue(c, "activate", now)
  <2>1. /\ since' = since /\ pc' = [pc EXCEPT ![c] = "activate"] /\ now \in Nat
        /\ since' \in [Calls -> Nat] /\ (\A d \in Calls : since'[d] <= now)
    BY <1>6 DEF Goto, TypeInv, TypeOK, ClockFits
  <2>2. now <= now
    BY <2>1
  <2>3. Typed
    BY <1>1, <1>2, <1>6, <2>1, <2>2, MovesToOperation DEF Pc, Preparing
  <2> QED
    BY <1>2, <1>4, <2>3, KeptIs
<1> QED
  BY <1>5, <1>6 DEF Mark, MarkResult, FlipOrder

LEMMA CrashType == ASSUME TypeInv, Crash PROVE TypeInv'
<1>1. /\ chain' = <<>> /\ op' = [c \in Calls |-> NoOp] /\ since' = [c \in Calls |-> 0]
      /\ pc' = [c \in Calls |-> IF pc[c] = "idle" \/ KindOf[c] = "sweep" THEN "idle" ELSE "done"]
      /\ UNCHANGED <<doc, order, invoice, job, about, plan, tries, now, overran>> /\ Fail
  BY DEF Crash
<1>2. chain' \in Seq(Calls)
  BY <1>1, EmptySeq
<1>3. op' \in [Calls -> Op] /\ \A d \in Calls : op'[d].at = "none"
  BY <1>1, NoOpType
<1>4. pc' \in [Calls -> Pc] /\ \A d \in Calls : pc'[d] \notin Preparing
  BY <1>1 DEF Pc, Preparing
<1>5. since' \in [Calls -> Nat] /\ \A d \in Calls : since'[d] <= now
  BY <1>1 DEF TypeInv, TypeOK
<1>6. Typed
  BY <1>1, <1>2, <1>3, <1>4, <1>5 DEF Typed, TypeInv, TypeOK
<1>7. Kept
  BY <1>1, FailType DEF Kept, TypeInv, TypeOK
<1> QED
  BY <1>1, <1>6, <1>7, KeptIs

LEMMA PassType == ASSUME TypeInv, Pass PROVE TypeInv'
<1>1. now' = now + 1 /\ now \in Nat /\ now' \in Nat
  BY DEF Pass, TypeInv, TypeOK
<1>2. TypeOK'
  BY <1>1 DEF Pass, TypeInv, TypeOK
<1>3. KindsFit'
  BY DEF Pass, TypeInv, KindsFit
<1>4. ClockFits'
  <2>1. \A d \in Calls : since[d] \in Nat /\ op[d].nowMs \in Nat
    BY DEF TypeInv, TypeOK, Op
  <2> QED
    BY <1>1, <2>1 DEF Pass, TypeInv, ClockFits
<1> QED
  BY <1>2, <1>3, <1>4 DEF TypeInv

LEMMA StutterType == ASSUME TypeInv, UNCHANGED vars PROVE TypeInv'
BY DEF vars, TypeInv, TypeOK, KindsFit, ClockFits

LEMMA NextType == TypeInv /\ [Next]_vars => TypeInv'
<1> SUFFICES ASSUME TypeInv, [Next]_vars PROVE TypeInv'
  OBVIOUS
<1>1. ASSUME NEW c \in Calls, Begin(c) \/ Operation(c) \/ Handler(c) PROVE TypeInv'
  BY <1>1, BeginType, SweepType, ReadType, WriteType, TimeOutType, RaiseType, LinkOrderType, PlanType,
     PostJobType, SweptType DEF Begin, Operation, Handler
<1> QED
  BY <1>1, PayByHandType, MovesType, CrashType, PassType, StutterType DEF Next, Moves, Quiet

\* Type correctness: whatever overruns, fails or crashes, the address, its chain
\* of operations and the records of orders stay well formed.
THEOREM TypeCorrect == Spec => []TypeOK
<1>1. TypeInv => TypeOK
  BY DEF TypeInv
<1> QED
  BY <1>1, InitTypeInv, NextType, PTL DEF Spec

----------------------------------------------------------------------------
(* As long as nothing overruns, an operation that is about to write has its  *)
(* turn, and the row is as it read it.                                       *)

InTime == \A c \in Calls : op[c].at # "none" => ~op[c].late

SnapshotsFresh ==
    \A c \in Calls : op[c].at = "write" => HasTurn(c) /\ op[c].read = doc /\ Decision(c, doc) = "write"

RowFits == doc.status = "absent" <=> doc.account = Nobody

Calm == InTime /\ SnapshotsFresh /\ RowFits

BookInv == TypeInv /\ (overran \/ Calm)

\* The row after a write: as it was, taken over, or kept by its account.
TakenBy(c) ==
    /\ doc.status = "absent" \/ (doc.status = "reserved" /\ doc.account # AccountOf[c] /\ doc.expires <= now)
    /\ doc'.status = "reserved" /\ doc'.account = AccountOf[c] /\ doc'.invoices = {}

KeptByOwner ==
    /\ doc.status # "absent" /\ doc'.account = doc.account
    /\ doc'.status = doc.status \/ doc'.status = "active"
    /\ doc.invoices \subseteq doc'.invoices
    /\ \A p \in doc'.invoices \ doc.invoices : AccountOf[p] = doc.account
    /\ doc.invoices # {} => doc.expires <= doc'.expires

Moved(c) == doc' = doc \/ TakenBy(c) \/ KeptByOwner

LEMMA LaterIs == ASSUME NEW t \in Nat, NEW u \in Nat PROVE u <= Later(t, u)
BY DEF Later

\* The only step that changes the row takes a free address or keeps to its owner.
LEMMA WriteMoves == ASSUME TypeInv, Calm, NEW c \in Calls, Write(c) PROVE Moved(c)
<1>1. /\ op[c].at = "write" /\ op[c].read = doc /\ Decision(c, doc) = "write"
      /\ op[c] \in Op /\ doc \in Row /\ op[c].nowMs <= now
      /\ AccountOf[c] \in Accounts /\ AccountOf[c] # Nobody
  BY ConstantsAssumption DEF Write, Calm, SnapshotsFresh, TypeInv, TypeOK, ClockFits
<1>2. PICK o \in Outcomes(doc, Written(c)) : doc' = o[1]
  BY DEF Write
<1>3. doc' = doc \/ doc' = Written(c)
  BY <1>2, OutcomesAre
<1>4. /\ doc.expires \in Nat /\ op[c].nowMs \in Nat /\ now \in Nat
      /\ op[c].nowMs + TTL \in Nat /\ op[c].nowMs + PaymentGrace \in Nat
  BY <1>1, ConstantsAssumption DEF Op, Row, TypeInv, TypeOK
<1>5. CASE doc' = Written(c) /\ op[c].kind = "reserve"
  <2>1. ~HeldByOther(doc, AccountOf[c], op[c].nowMs)
    BY <1>1, <1>5 DEF Decision
  <2>2. CASE OwnReservation(doc, AccountOf[c])
    <3> DEFINE later == Later(op[c].nowMs + TTL, doc.expires)
    <3>1. doc.expires <= later
      BY <1>4, LaterIs
    <3>2. doc' = [doc EXCEPT !.expires = later]
      <4>1. OwnReservation(op[c].read, AccountOf[c]) /\ op[c].read.status # "absent"
        BY <1>1, <2>2 DEF OwnReservation
      <4>2. Reserved(c) = [doc EXCEPT !.expires = Later(op[c].nowMs + TTL, op[c].read.expires)]
        BY <4>1 DEF Reserved
      <4> QED
        BY <1>1, <1>5, <4>2 DEF Written
    <3> HIDE DEF later
    <3>3. KeptByOwner
      BY <1>1, <2>2, <3>1, <3>2 DEF KeptByOwner, OwnReservation, Row
    <3> QED
      BY <3>3 DEF Moved
  <2>3. CASE ~OwnReservation(doc, AccountOf[c])
    <3>1. ~IsLive(doc, op[c].nowMs)
      BY <2>1, <2>3 DEF HeldByOther
    <3>2. doc.status = "absent" \/ (doc.status = "reserved" /\ doc.account # AccountOf[c] /\ doc.expires <= now)
      BY <1>1, <1>4, <2>3, <3>1 DEF IsLive, OwnReservation, Row
    <3>3. doc' = [status |-> "reserved", account |-> AccountOf[c], invoices |-> {}, expires |-> op[c].nowMs + TTL]
      BY <1>1, <1>5, <2>3 DEF Written, Reserved
    <3> QED
      BY <3>2, <3>3 DEF Moved, TakenBy
  <2> QED
    BY <2>2, <2>3
<1>6. CASE doc' = Written(c) /\ op[c].kind = "touch"
  <2>1. OwnReservation(doc, AccountOf[c]) /\ doc.invoices = {}
    BY <1>1, <1>6 DEF Decision
  <2>2. doc' = [doc EXCEPT !.expires = op[c].nowMs + TTL]
    BY <1>6 DEF Written
  <2>3. KeptByOwner
    BY <1>1, <2>1, <2>2 DEF KeptByOwner, OwnReservation, Row
  <2> QED
    BY <2>3 DEF Moved
<1>7. CASE doc' = Written(c) /\ op[c].kind = "link"
  <2>1. doc.account = AccountOf[c] /\ doc.status # "absent"
    BY <1>1, <1>7 DEF Decision, Calm, RowFits
  <2> DEFINE later == Later(op[c].nowMs + PaymentGrace, doc.expires)
  <2>2. doc.expires <= later
    BY <1>4, LaterIs
  <2>3. doc' = [doc EXCEPT !.invoices = doc.invoices \cup {c}, !.expires = later]
    BY <1>1, <1>7 DEF Written, Linked
  <2> HIDE DEF later
  <2>4. KeptByOwner
    BY <1>1, <2>1, <2>2, <2>3 DEF KeptByOwner, Row
  <2> QED
    BY <2>4 DEF Moved
<1>8. CASE doc' = Written(c) /\ op[c].kind = "activate"
  <2>1. doc.status # "absent"
    BY <1>1, <1>8 DEF Decision, Found
  <2>2. doc' = [doc EXCEPT !.status = "active"]
    BY <1>8 DEF Written
  <2>3. KeptByOwner
    BY <1>1, <1>4, <2>1, <2>2 DEF KeptByOwner, Row
  <2> QED
    BY <2>3 DEF Moved
<1> QED
  BY <1>1, <1>3, <1>5, <1>6, <1>7, <1>8 DEF Moved, Op

LEMMA MovedFits == ASSUME NEW c \in Calls, RowFits, Moved(c) PROVE RowFits'
<1>1. AccountOf[c] # Nobody
  BY ConstantsAssumption
<1> QED
  BY <1>1 DEF Moved, TakenBy, KeptByOwner, RowFits

\* What an operation decides depends on the row, and on what it was asked.
LEMMA DecisionStays ==
  ASSUME NEW d \in Calls, op'[d].kind = op[d].kind, op'[d].nowMs = op[d].nowMs, about'[d] = about[d],
         doc' = doc, Decision(d, doc) = "write"
  PROVE  Decision(d, doc)' = "write"
BY DEF Decision, HeldByOther, IsLive, OwnReservation, Found

LEMMA FinishCalm ==
  ASSUME TypeInv, Calm, NEW c \in Calls, op[c].at # "none", MayGo(c), NEW result, Finish(c, result)
  PROVE  /\ ~op[c].late /\ Resume(c, result)
         /\ InTime' /\ \A d \in Calls : op'[d].at # "write"
<1>1. ~op[c].late /\ HasTurn(c) /\ Resume(c, result)
  BY DEF Calm, InTime, MayGo, Finish
<1>2. op'[c].at = "none" /\ \A d \in Calls : d # c => op'[d] = op[d]
  BY FinishIs, NoOpType
<1>3. ASSUME NEW d \in Calls PROVE op'[d].at # "write"
  BY <1>1, <1>2 DEF Calm, SnapshotsFresh, HasTurn
<1> QED
  BY <1>1, <1>2, <1>3 DEF Calm, InTime

\* A step in which no snapshot is taken or used.
LEMMA Undisturbed ==
  ASSUME TypeInv, Calm, doc' = doc,
         \A d \in Calls : op'[d].at = "write" =>
            op'[d] = op[d] /\ about'[d] = about[d] /\ (HasTurn(d) => HasTurn(d)'),
         \A d \in Calls : op'[d].at # "none" => ~op'[d].late
  PROVE  Calm'
<1>1. ASSUME NEW d \in Calls, op'[d].at = "write"
      PROVE  HasTurn(d)' /\ op'[d].read = doc' /\ Decision(d, doc)' = "write"
  BY <1>1, DecisionStays DEF Calm, SnapshotsFresh
<1> QED
  BY <1>1 DEF Calm, InTime, SnapshotsFresh, RowFits

LEMMA EnqueueCalm ==
  ASSUME TypeInv, Calm, NEW c \in Calls, NEW kind \in {"reserve", "touch", "link", "activate"}, NEW nowMs \in Nat,
         Enqueue(c, kind, nowMs), doc' = doc, about' = about
  PROVE  Calm'
<1>1. /\ op'[c].at = "read" /\ op'[c].late = FALSE /\ \A d \in Calls : d # c => op'[d] = op[d]
      /\ chain' = Append(chain, c)
  BY EnqueueIs
<1>2. chain # <<>> => chain' # <<>> /\ Head(chain') = Head(chain)
  <2>1. chain \in Seq(Calls)
    BY DEF TypeInv, TypeOK
  <2> QED
    BY <1>1, <2>1, AppendProperties
<1>3. \A d \in Calls : HasTurn(d) => HasTurn(d)'
  BY <1>2 DEF HasTurn
<1> QED
  BY <1>1, <1>3, Undisturbed DEF Calm, InTime

\* A step that leaves the operations alone.
LEMMA IdleCalm ==
  ASSUME TypeInv, Calm, UNCHANGED <<doc, op, chain>>,
         \A d \in Calls : op[d].at # "none" => about'[d] = about[d]
  PROVE  Calm'
<1>1. \A d \in Calls : HasTurn(d) => HasTurn(d)'
  BY DEF HasTurn
<1> QED
  BY <1>1, Undisturbed DEF Calm, InTime

LEMMA BeginCalm == ASSUME TypeInv, Calm, NEW c \in Calls, Begin(c) PROVE Calm'
<1>1. CASE Sweep(c)
  <2>1. UNCHANGED <<doc, op, chain>> /\ op[c].at = "none"
        /\ \A d \in Calls : d # c => about'[d] = about[d]
    BY <1>1 DEF Sweep, TypeInv, TypeOK
  <2> QED
    BY <2>1, IdleCalm
<1>2. CASE Create(c) \/ View(c) \/ Prepare(c) \/ Settle(c)
  <2>1. /\ \E kind \in {"reserve", "touch", "link", "activate"} : Enqueue(c, kind, now)
        /\ doc' = doc /\ about' = about /\ now \in Nat
    BY <1>2 DEF Create, View, Prepare, Settle, Start, TypeInv, TypeOK
  <2> QED
    BY <2>1, EnqueueCalm
<1> QED
  BY <1>1, <1>2 DEF Begin

LEMMA HandlerCalm == ASSUME TypeInv, Calm, NEW c \in Calls, Handler(c) PROVE Calm'
<1>1. CASE Raise(c)
  <2>1. since[c] \in Nat
    BY DEF TypeInv, TypeOK
  <2>2. doc' = doc /\ about' = about /\ (Enqueue(c, "link", since[c]) \/ UNCHANGED <<op, chain>>)
    BY <1>1 DEF Raise
  <2> QED
    BY <2>1, <2>2, EnqueueCalm, IdleCalm
<1>2. CASE Mark(c)
  <2>1. doc' = doc /\ about' = about /\ now \in Nat /\ (Enqueue(c, "activate", now) \/ UNCHANGED <<op, chain>>)
    BY <1>2 DEF Mark, TypeInv, TypeOK
  <2> QED
    BY <2>1, EnqueueCalm, IdleCalm
<1>3. CASE LinkOrder(c) \/ Adopt(c) \/ Provenance(c) \/ PostJob(c) \/ MarkResult(c) \/ FlipOrder(c)
  <2>1. UNCHANGED <<doc, op, chain, about>>
    BY <1>3 DEF LinkOrder, Adopt, Provenance, PostJob, MarkResult, FlipOrder
  <2> QED
    BY <2>1, IdleCalm
<1> QED
  BY <1>1, <1>2, <1>3 DEF Handler

LEMMA ReadCalm == ASSUME TypeInv, Calm, NEW c \in Calls, Read(c) PROVE Calm'
<1>1. op[c].at = "read" /\ MayGo(c) /\ doc' = doc /\ about' = about
  BY DEF Read
<1>2. CASE /\ Decision(c, doc) = "write"
           /\ op' = [op EXCEPT ![c] = [@ EXCEPT !.at = "write", !.read = doc]]
           /\ chain' = chain
  <2>1. ~op[c].late /\ HasTurn(c) /\ HasTurn(c)'
    BY <1>1, <1>2 DEF Calm, InTime, MayGo, HasTurn
  <2>2. /\ op'[c].read = doc /\ op'[c].nowMs = op[c].nowMs /\ op'[c].kind = op[c].kind
        /\ op'[c].late = op[c].late /\ \A d \in Calls : d # c => op'[d] = op[d]
    BY <1>2, SnapshotIs
  <2>3. Decision(c, doc)' = "write"
    BY <1>1, <1>2, <2>2, DecisionStays
  <2>4. \A d \in Calls : d # c => op'[d].at # "write"
    BY <2>1, <2>2 DEF Calm, SnapshotsFresh, HasTurn
  <2> QED
    BY <1>1, <2>1, <2>2, <2>3, <2>4 DEF Calm, InTime, SnapshotsFresh, RowFits
<1>3. ASSUME NEW result, Finish(c, result) PROVE Calm'
  BY <1>1, <1>3, FinishCalm DEF Calm, SnapshotsFresh, RowFits
<1> QED
  BY <1>2, <1>3 DEF Read

LEMMA WriteCalm == ASSUME TypeInv, Calm, NEW c \in Calls, Write(c) PROVE Calm'
<1>1. op[c].at = "write" /\ MayGo(c) /\ \E result : Finish(c, result)
  BY DEF Write
<1>2. InTime' /\ \A d \in Calls : op'[d].at # "write"
  BY <1>1, FinishCalm
<1>3. RowFits'
  BY WriteMoves, MovedFits DEF Calm
<1> QED
  BY <1>2, <1>3 DEF Calm, SnapshotsFresh

\* What has overrun stays so.
LEMMA OverrunStays == [Next]_vars => overran' \in {overran, TRUE}
BY DEF Next, Begin, Operation, Handler, Create, View, Prepare, Settle, Sweep, Read, Write, TimeOut, Raise,
       LinkOrder, Adopt, Provenance, PostJob, Mark, MarkResult, FlipOrder, CancelOrder, FlipPaid, GrowOld, ChangesOrder,
       PayByHand, Crash, Pass, Quiet, vars

LEMMA InitBook == Init => BookInv
<1> SUFFICES ASSUME Init PROVE BookInv
  OBVIOUS
<1>1. TypeInv /\ RowFits /\ \A c \in Calls : op[c].at = "none"
  BY InitTypeInv, NoOpType DEF Init, NoRow, RowFits
<1> QED
  BY <1>1 DEF BookInv, Calm, InTime, SnapshotsFresh

LEMMA NextBook == BookInv /\ [Next]_vars => BookInv'
<1> SUFFICES ASSUME BookInv, [Next]_vars, ~overran' PROVE Calm'
  BY NextType DEF BookInv
<1>1. ASSUME overran PROVE FALSE
  <2>1. overran' \in {overran, TRUE}
    BY OverrunStays
  <2> QED
    BY <1>1, <2>1
<1>2. TypeInv /\ Calm
  BY <1>1 DEF BookInv
<1>3. CASE \E c \in Calls : Begin(c) \/ Operation(c) \/ Handler(c)
  <2>1. PICK c \in Calls : Begin(c) \/ Operation(c) \/ Handler(c)
    BY <1>3
  <2>2. ~TimeOut(c)
    BY DEF TimeOut
  <2> QED
    BY <1>2, <2>1, <2>2, BeginCalm, HandlerCalm, ReadCalm, WriteCalm DEF Operation
<1>4. CASE Crash
  BY <1>2, <1>4, NoOpType DEF Crash, Calm, InTime, SnapshotsFresh, RowFits
<1>5. CASE Pass \/ UNCHANGED vars \/ (\E p \in Prepares : PayByHand(p)) \/ \E a \in Accounts : Moves(a)
  <2>1. UNCHANGED <<doc, op, chain, about>>
    BY <1>2, <1>5, OrderMoved DEF Pass, vars, PayByHand
  <2> QED
    BY <1>2, <2>1, IdleCalm
<1> QED
  BY <1>3, <1>4, <1>5 DEF Next, Moves, Quiet

----------------------------------------------------------------------------
(* The two facts about the row *)

\* A step that is not a write leaves the row and, but for Pass, the clock alone.
LEMMA RowStep ==
  ASSUME BookInv, [Next]_vars, ~overran'
  PROVE  \/ doc' = doc /\ now' = now
         \/ doc' = doc /\ now \in Nat /\ now' = now + 1
         \/ now' = now /\ \E c \in Calls : Moved(c)
<1>1. CASE \E c \in Calls : Write(c)
  <2>1. PICK c \in Calls : Write(c)
    BY <1>1
  <2>2. ~overran /\ now' = now
    BY <2>1 DEF Write
  <2>3. Moved(c)
    BY <2>1, <2>2, WriteMoves DEF BookInv
  <2> QED
    BY <2>2, <2>3
<1>2. CASE Pass
  BY <1>2 DEF Pass, BookInv, TypeInv, TypeOK
<1>3. CASE ~Pass /\ ~\E c \in Calls : Write(c)
  BY <1>3, ZenonT(40) DEF Next, Begin, Operation, Handler, Create, View, Prepare, Settle, Sweep, Read, TimeOut, Raise,
         LinkOrder, Adopt, Provenance, PostJob, Mark, MarkResult, FlipOrder, CancelOrder, FlipPaid, GrowOld, ChangesOrder,
         PayByHand, Crash, Quiet, vars
<1> QED
  BY <1>1, <1>2, <1>3

LEMMA StateIs == AddressState = IF doc.status = "active" THEN "owned"
                                ELSE IF doc.status = "reserved" /\ doc.expires > now THEN "held" ELSE "free"
BY DEF AddressState

LEMMA BookStep == BookInv /\ [Next]_vars => [overran' \/ Book!Next]_(Book!vars)
<1> SUFFICES ASSUME BookInv, [Next]_vars, ~overran' PROVE [Book!Next]_(Book!vars)
  OBVIOUS
<1>1. TypeInv /\ TypeInv' /\ Calm
  <2>1. BookInv'
    BY NextBook
  <2>2. ~overran
    <3>1. overran' \in {overran, TRUE}
      BY OverrunStays
    <3> QED
      BY <3>1
  <2> QED
    BY <2>1, <2>2 DEF BookInv
<1>2. /\ doc \in Row /\ doc' \in Row /\ now \in Nat /\ doc.expires \in Nat
      /\ doc.status \in {"absent", "reserved", "active"} /\ doc'.status \in {"absent", "reserved", "active"}
  BY <1>1 DEF TypeInv, TypeOK, Row
<1>3. /\ AddressState \in {"free", "held", "owned"} /\ AddressState' \in {"free", "held", "owned"}
      /\ AddressState = "owned" <=> doc.status = "active"
      /\ AddressState' = "owned" <=> doc'.status = "active"
      /\ AddressState = "free" <=> doc.status # "active" /\ ~(doc.status = "reserved" /\ doc.expires > now)
  BY DEF AddressState
<1>4. doc.account = Nobody <=> doc.status = "absent"
  BY <1>1 DEF Calm, RowFits
<1>5. CASE doc' = doc /\ now' = now
  BY <1>5 DEF Book!vars, AddressState
<1>6. CASE doc' = doc /\ now' = now + 1
  <2>1. CASE doc.status = "reserved"
    <3>1. Book!Keep
      BY <1>3, <1>4, <1>6, <2>1 DEF Book!Keep
    <3> QED
      BY <3>1 DEF Book!Next
  <2>2. CASE doc.status # "reserved"
    BY <1>6, <2>2 DEF Book!vars, AddressState
  <2> QED
    BY <2>1, <2>2
<1>7. ASSUME NEW c \in Calls, Moved(c), now' = now PROVE [Book!Next]_(Book!vars)
  <2>1. CASE TakenBy(c)
    <3>1. AddressState = "free" /\ AddressState' \in {"free", "held"} /\ AccountOf[c] \in Accounts
      BY <1>2, <1>3, <2>1, ConstantsAssumption DEF TakenBy
    <3>2. Book!Take(AccountOf[c])
      BY <2>1, <3>1 DEF Book!Take, TakenBy
    <3> QED
      BY <3>1, <3>2 DEF Book!Next
  <2>2. CASE KeptByOwner /\ doc'.status = "active"
    <3>1. Book!Buy
      BY <1>3, <1>4, <2>2 DEF Book!Buy, KeptByOwner
    <3> QED
      BY <3>1 DEF Book!Next
  <2>3. CASE KeptByOwner /\ doc'.status # "active"
    <3>1. Book!Keep
      BY <1>3, <1>4, <2>3 DEF Book!Keep, KeptByOwner
    <3> QED
      BY <3>1 DEF Book!Next
  <2>4. CASE doc' = doc
    BY <1>7, <2>4 DEF Book!vars, AddressState
  <2> QED
    BY <1>7, <2>1, <2>2, <2>3, <2>4 DEF Moved
<1> QED
  BY <1>5, <1>6, <1>7, RowStep

\* Until an operation overruns, the store implements the address book: a held
\* address is not lost and a bought one is its owner's for good, for any number
\* of accounts and handlers, and any failures and crashes between their steps.
THEOREM BookImplemented == Spec => BookUntilOverrun
<1>1. Init => Book!Init
  BY DEF Init, NoRow, Book!Init, AddressState
<1> QED
  BY <1>1, InitBook, NextBook, BookStep, PTL DEF Spec, BookUntilOverrun

LEMMA HistoryStep ==
  BookInv /\ [Next]_vars =>
    [\/ overran' \/ doc'.account # doc.account
     \/ doc.invoices \subseteq doc'.invoices /\ (doc.invoices # {} => doc.expires <= doc'.expires)]_doc
<1> SUFFICES ASSUME BookInv, [Next]_vars, ~overran', doc' # doc, doc'.account = doc.account
             PROVE  doc.invoices \subseteq doc'.invoices /\ (doc.invoices # {} => doc.expires <= doc'.expires)
  OBVIOUS
<1>1. PICK c \in Calls : Moved(c)
  BY RowStep
<1>2. RowFits \/ overran
  BY DEF BookInv, Calm
<1>3. RowFits
  <2>1. overran' \in {overran, TRUE}
    BY OverrunStays
  <2> QED
    BY <1>2, <2>1
<1>4. ~TakenBy(c)
  BY <1>3, ConstantsAssumption DEF TakenBy, RowFits
<1> QED
  BY <1>1, <1>4 DEF Moved, KeptByOwner

\* Until an operation overruns, no invoice leaves the history of an address its
\* account keeps, and a hold with an invoice never gets shorter.
THEOREM HistoryCorrect == Spec => HistoryKept
BY InitBook, NextBook, HistoryStep, PTL DEF Spec, HistoryKept

----------------------------------------------------------------------------
(* Whose address a shop is built under *)

\* An order carries an invoice of its own account, and so does an activation.
AboutFits ==
    /\ \A a \in Accounts : order[a].invoice \in Prepares => AccountOf[order[a].invoice] = a
    /\ \A c \in Calls : about[c] \in Prepares => AccountOf[about[c]] = AccountOf[c]

OwnedBy(a) == doc.status = "active" /\ doc.account = a

Owned ==
    /\ \A p \in doc.invoices : AccountOf[p] = doc.account
    /\ \A c \in Calls : op[c].at # "none" /\ pc[c] = "activate" => op[c].kind = "activate"
    /\ \A c \in Calls : plan[c] = "chosen" => OwnedBy(AccountOf[c])
    /\ \A p \in Prepares : job[p] = "chosen" => OwnedBy(AccountOf[p])

ShopInv == BookInv /\ AboutFits /\ (overran \/ Owned)

LEMMA AboutStep == TypeInv /\ AboutFits /\ [Next]_vars => AboutFits'
<1> SUFFICES ASSUME TypeInv, AboutFits, [Next]_vars PROVE AboutFits'
  OBVIOUS
<1> USE DEF AboutFits
<1>1. ASSUME NEW c \in Calls, Sweep(c) PROVE AboutFits'
  <2>1. PICK p \in Prepares : order[AccountOf[c]].invoice = p /\ about' = [about EXCEPT ![c] = p]
    BY <1>1 DEF Sweep, MayReconcile, Listed
  <2>2. AccountOf[p] = AccountOf[c] /\ order' = order
    BY <1>1, <2>1, AccountIs DEF Sweep
  <2> QED
    BY <2>1, <2>2 DEF TypeInv, TypeOK
<1>2. ASSUME about' = about, \A a \in Accounts : order'[a].invoice = order[a].invoice PROVE AboutFits'
  BY <1>2
<1>3. ASSUME NEW c \in Calls, Create(c) PROVE AboutFits'
  <2>1. about' = about /\ order' = [order EXCEPT ![AccountOf[c]] = [NoOrder EXCEPT !.status = "Draft"]]
        /\ [NoOrder EXCEPT !.status = "Draft"].invoice = Nobody /\ Nobody \notin Prepares
    BY <1>3, ConstantsAssumption, PreparesAre DEF Create, NoOrder
  <2> QED
    BY <2>1 DEF TypeInv, TypeOK
<1>4. ASSUME NEW c \in Calls, Read(c) \/ Write(c) PROVE AboutFits'
  <2>1. MayGo(c) /\ about' = about /\ (order' = order \/ \E result : Finish(c, result))
    BY <1>4 DEF Read, Write
  <2> QED
    BY <2>1, <1>2, FinishIs
<1>5. ASSUME NEW c \in Calls, TimeOut(c) PROVE AboutFits'
  BY <1>2, <1>5, ResumeIs DEF TimeOut
<1>6. ASSUME NEW c \in Calls, LinkOrder(c) PROVE AboutFits'
  <2>1. about' = about
    BY <1>6 DEF LinkOrder
  <2> QED
    BY <1>6, <2>1, OrderLinked
<1>7. ASSUME NEW c \in Calls, Mark(c) \/ MarkResult(c) \/ FlipOrder(c) PROVE AboutFits'
  <2>1. about' = about
    BY <1>7 DEF Mark, MarkResult, FlipOrder
  <2> QED
    BY <1>2, <1>7, <2>1, OrderSwept
<1>11. ASSUME NEW a \in Accounts, Moves(a) PROVE AboutFits'
  BY <1>2, <1>11, OrderMoved
<1>8. CASE UNCHANGED <<about, order>>
  BY <1>2, <1>8
<1>9. ASSUME NEW c \in Calls, View(c) \/ Prepare(c) \/ Settle(c) \/ Raise(c) \/ Adopt(c) \/ Provenance(c) \/ PostJob(c)
      PROVE  UNCHANGED <<about, order>>
  BY <1>9 DEF View, Prepare, Settle, Raise, Adopt, Provenance, PostJob
<1>10. ASSUME UNCHANGED vars \/ Crash \/ Pass \/ \E p \in Prepares : PayByHand(p) PROVE UNCHANGED <<about, order>>
  BY <1>10 DEF vars, Crash, Pass, PayByHand
<1> QED
  BY <1>1, <1>3, <1>4, <1>5, <1>6, <1>7, <1>8, <1>9, <1>10, <1>11 DEF Next, Moves, Begin, Operation, Handler, Quiet

\* The row and the plans of a step that is no write.
LEMMA OwnedStays ==
  ASSUME Owned, doc' = doc,
         \A c \in Calls : op'[c].at # "none" /\ pc'[c] = "activate" => op'[c].kind = "activate",
         \A c \in Calls : plan'[c] = "chosen" => plan[c] = "chosen" \/ OwnedBy(AccountOf[c]),
         \A p \in Prepares : job'[p] = "chosen" => job[p] = "chosen" \/ OwnedBy(AccountOf[p])
  PROVE  Owned'
BY DEF Owned, OwnedBy

\* An address that was bought stays with its owner.
LEMMA MovedOwned ==
  ASSUME RowFits, Owned, NEW c \in Calls, Moved(c)
  PROVE  /\ \A a \in Accounts : OwnedBy(a) => OwnedBy(a)'
         /\ (\A p \in doc.invoices : AccountOf[p] = doc.account)'
<1>1. CASE TakenBy(c)
  BY <1>1 DEF TakenBy, OwnedBy
<1>2. CASE KeptByOwner
  BY <1>2 DEF KeptByOwner, OwnedBy, Owned
<1>3. CASE doc' = doc
  BY <1>3 DEF OwnedBy, Owned
<1> QED
  BY <1>1, <1>2, <1>3 DEF Moved

\* The caller of an activation goes on with an address of its own.
LEMMA FinishOwned ==
  ASSUME TypeInv, Calm, Owned, NEW c \in Calls, op[c].at # "none", MayGo(c), NEW result, Finish(c, result)
  PROVE  /\ \A d \in Calls : op'[d].at # "none" /\ pc'[d] = "activate" => op'[d].kind = "activate"
         /\ \A d \in Calls : plan'[d] = "chosen" =>
               \/ plan[d] = "chosen"
               \/ d = c /\ result = "ok" /\ op[c].kind = "activate"
<1>1. ~op[c].late /\ Resume(c, result)
  BY FinishCalm
<1>2. op'[c].at = "none" /\ \A d \in Calls : d # c => op'[d] = op[d]
  BY FinishIs, NoOpType
<1>3. /\ \A d \in Calls : d # c => plan'[d] = plan[d] /\ pc'[d] = pc[d]
      /\ plan'[c] = "chosen" => plan[c] = "chosen" \/ (pc[c] = "activate" /\ result = "ok")
  BY <1>1, ResumeIs, GotoIs
<1> QED
  BY <1>2, <1>3 DEF Owned

LEMMA BeginOwned == ASSUME TypeInv, Owned, NEW c \in Calls, Begin(c) PROVE Owned'
<1>1. CASE Sweep(c)
  <2>1. UNCHANGED <<doc, op, plan, job>> /\ pc' = [pc EXCEPT ![c] = "mark"]
    BY <1>1 DEF Sweep, Goto
  <2> QED
    BY <2>1, OwnedStays DEF Owned, TypeInv, TypeOK
<1>2. CASE Create(c) \/ View(c) \/ Prepare(c) \/ Settle(c)
  <2>1. UNCHANGED <<doc, plan, job>>
        /\ \E where \in {"reserve", "touch", "activate"}, kind \in {"reserve", "touch", "activate"} :
              Start(c, where, kind) /\ (where = "activate" => kind = "activate")
    BY <1>2 DEF Create, View, Prepare, Settle
  <2>2. PICK where \in {"reserve", "touch", "activate"}, kind \in {"reserve", "touch", "activate"} :
           Start(c, where, kind) /\ (where = "activate" => kind = "activate")
    BY <2>1
  <2>3. now \in Nat /\ Enqueue(c, kind, now) /\ pc' = [pc EXCEPT ![c] = where]
    BY <2>2 DEF Start, TypeInv, TypeOK
  <2>4. op'[c].kind = kind /\ \A d \in Calls : d # c => op'[d] = op[d]
    BY <2>2, <2>3, EnqueueIs, ZenonT(40)
  <2>5. \A d \in Calls : op'[d].at # "none" /\ pc'[d] = "activate" => op'[d].kind = "activate"
    BY <2>2, <2>3, <2>4 DEF Owned, TypeInv, TypeOK
  <2> QED
    BY <2>1, <2>5, OwnedStays
<1> QED
  BY <1>1, <1>2 DEF Begin

LEMMA HandlerOwned == ASSUME TypeInv, AboutFits, Owned, NEW c \in Calls, Handler(c) PROVE Owned'
<1>1. CASE Raise(c) \/ Mark(c)
  <2>1. UNCHANGED <<doc, plan, job>>
    BY <1>1 DEF Raise, Mark
  <2>2. CASE op' = op /\ \E where \in {"done", "idle"} : Goto(c, where)
    <3>1. \A d \in Calls : pc'[d] = "activate" => pc[d] = "activate"
      BY <2>2 DEF Goto, TypeInv, TypeOK
    <3> QED
      BY <2>1, <2>2, <3>1, OwnedStays DEF Owned
  <2>3. CASE Enqueue(c, "link", since[c]) /\ Goto(c, "link")
    <3>1. since[c] \in Nat /\ pc'[c] = "link" /\ \A d \in Calls : d # c => pc'[d] = pc[d]
      BY <2>3 DEF Goto, TypeInv, TypeOK
    <3>2. \A d \in Calls : d # c => op'[d] = op[d]
      BY <2>3, <3>1, EnqueueIs
    <3>3. \A d \in Calls : op'[d].at # "none" /\ pc'[d] = "activate" => op'[d].kind = "activate"
      BY <3>1, <3>2 DEF Owned
    <3> QED
      BY <2>1, <3>3, OwnedStays
  <2>4. CASE Enqueue(c, "activate", now) /\ Goto(c, "activate")
    <3>1. now \in Nat /\ \A d \in Calls : d # c => pc'[d] = pc[d]
      BY <2>4 DEF Goto, TypeInv, TypeOK
    <3>2. op'[c].kind = "activate" /\ \A d \in Calls : d # c => op'[d] = op[d]
      BY <2>4, <3>1, EnqueueIs
    <3>3. \A d \in Calls : op'[d].at # "none" /\ pc'[d] = "activate" => op'[d].kind = "activate"
      BY <3>1, <3>2 DEF Owned
    <3> QED
      BY <2>1, <3>3, OwnedStays
  <2> QED
    BY <1>1, <2>2, <2>3, <2>4 DEF Raise, Mark
<1>2. CASE LinkOrder(c) \/ Adopt(c) \/ Provenance(c) \/ PostJob(c) \/ MarkResult(c) \/ FlipOrder(c)
  <2>1. UNCHANGED <<doc, op>> /\ \E where \in {"done", "idle", "job", "provenance", "check", "flip"} : Goto(c, where)
    BY <1>2 DEF LinkOrder, Adopt, Provenance, PostJob, MarkResult, FlipOrder, Planned
  <2>2. \A d \in Calls : op'[d].at # "none" /\ pc'[d] = "activate" => op'[d].kind = "activate"
    BY <2>1 DEF Goto, Owned, TypeInv, TypeOK
  <2>3. \A d \in Calls : plan'[d] = "chosen" => plan[d] = "chosen" \/ OwnedBy(AccountOf[d])
    BY <1>2 DEF LinkOrder, Adopt, Provenance, PostJob, MarkResult, FlipOrder, Planned, OwnedBy, TypeInv, TypeOK
  <2>4. \A p \in Prepares : job'[p] = "chosen" => job[p] = "chosen" \/ OwnedBy(AccountOf[p])
    <3>1. CASE PostJob(c)
      <4>1. PICK o \in Outcomes(job[about[c]], IF job[about[c]] = "none" THEN plan[c] ELSE job[about[c]]) :
               job' = [job EXCEPT ![about[c]] = o[1]]
        BY <3>1 DEF PostJob
      <4>2. o[1] \in {job[about[c]], plan[c]}
        BY <4>1, OutcomesAre
      <4>3. \A p \in Prepares : job'[p] = IF p = about[c] THEN o[1] ELSE job[p]
        BY <4>1 DEF TypeInv, TypeOK
      <4> QED
        BY <4>2, <4>3 DEF Owned, AboutFits
    <3>2. CASE ~PostJob(c)
      BY <1>2, <3>2 DEF LinkOrder, Adopt, Provenance, MarkResult, FlipOrder
    <3> QED
      BY <3>1, <3>2
  <2> QED
    BY <2>1, <2>2, <2>3, <2>4, OwnedStays
<1> QED
  BY <1>1, <1>2 DEF Handler

LEMMA ReadOwned == ASSUME TypeInv, Calm, AboutFits, Owned, NEW c \in Calls, Read(c) PROVE Owned'
<1>1. op[c].at = "read" /\ MayGo(c) /\ UNCHANGED <<doc, job>>
  BY DEF Read
<1>2. CASE /\ op' = [op EXCEPT ![c] = [@ EXCEPT !.at = "write", !.read = doc]]
           /\ UNCHANGED <<pc, plan>>
  <2>1. op'[c].kind = op[c].kind /\ \A d \in Calls : d # c => op'[d] = op[d]
    BY <1>2, SnapshotIs
  <2>2. \A d \in Calls : op'[d].at # "none" /\ pc'[d] = "activate" => op'[d].kind = "activate"
    BY <1>1, <1>2, <2>1 DEF Owned
  <2> QED
    BY <1>1, <1>2, <2>2, OwnedStays
<1>3. ASSUME NEW result, Finish(c, result), result = "failed" \/ result = Decision(c, doc) PROVE Owned'
  <2>1. result = "ok" /\ op[c].kind = "activate" => OwnedBy(AccountOf[c])
    <3>1. ASSUME Decision(c, doc) = "ok", op[c].kind = "activate" PROVE OwnedBy(AccountOf[c])
      <4>1. Found(c, doc) /\ doc.status = "active"
        BY <3>1 DEF Decision
      <4>2. about[c] \in doc.invoices /\ doc.invoices \subseteq Prepares
        BY <4>1 DEF Found, TypeInv, TypeOK, Row
      <4> QED
        BY <4>1, <4>2 DEF Owned, AboutFits, OwnedBy
    <3> QED
      BY <1>3, <3>1
  <2> QED
    BY <1>1, <1>3, <2>1, FinishOwned, OwnedStays
<1> QED
  BY <1>2, <1>3 DEF Read

LEMMA WriteOwned == ASSUME TypeInv, Calm, AboutFits, Owned, NEW c \in Calls, Write(c) PROVE Owned'
<1>1. op[c].at = "write" /\ MayGo(c) /\ job' = job /\ op[c].read = doc /\ Decision(c, doc) = "write"
      /\ doc \in Row /\ AccountOf[c] \in Accounts
  BY ConstantsAssumption DEF Write, Calm, SnapshotsFresh, TypeInv, TypeOK
<1>2. PICK o \in Outcomes(doc, Written(c)) : doc' = o[1] /\ Finish(c, IF o[2] THEN Answer(c) ELSE "failed")
  BY DEF Write
<1>3. /\ \A a \in Accounts : OwnedBy(a) => OwnedBy(a)'
      /\ (\A p \in doc.invoices : AccountOf[p] = doc.account)'
  BY WriteMoves, MovedOwned DEF Calm
<1>4. /\ \A d \in Calls : op'[d].at # "none" /\ pc'[d] = "activate" => op'[d].kind = "activate"
      /\ \A d \in Calls : plan'[d] = "chosen" =>
            plan[d] = "chosen" \/ (d = c /\ o[2] /\ op[c].kind = "activate")
  BY <1>1, <1>2, FinishOwned
<1>5. o[2] /\ op[c].kind = "activate" => OwnedBy(AccountOf[c])'
  <2> SUFFICES ASSUME o[2], op[c].kind = "activate" PROVE OwnedBy(AccountOf[c])'
    OBVIOUS
  <2>1. doc' = [doc EXCEPT !.status = "active"]
    BY <1>2, OutcomesAre DEF Written
  <2>2. about[c] \in doc.invoices /\ doc.invoices \subseteq Prepares
    BY <1>1 DEF Decision, Found, Row
  <2>3. doc.account = AccountOf[c]
    BY <2>2 DEF Owned, AboutFits
  <2> QED
    BY <1>1, <2>1, <2>3 DEF OwnedBy, Row
<1>6. /\ \A d \in Calls : plan'[d] = "chosen" => OwnedBy(AccountOf[d])'
      /\ \A p \in Prepares : job'[p] = "chosen" => OwnedBy(AccountOf[p])'
  BY <1>1, <1>3, <1>4, <1>5, AccountIs, PreparesAre DEF Owned
<1> QED
  BY <1>3, <1>4, <1>6 DEF Owned

LEMMA NextShop == ShopInv /\ [Next]_vars => ShopInv'
<1> SUFFICES ASSUME ShopInv, [Next]_vars, ~overran' PROVE Owned'
  BY NextBook, AboutStep DEF ShopInv, BookInv
<1>1. ~overran
  <2>1. overran' \in {overran, TRUE}
    BY OverrunStays
  <2> QED
    BY <2>1
<1>2. TypeInv /\ Calm /\ AboutFits /\ Owned
  BY <1>1 DEF ShopInv, BookInv
<1>3. CASE \E c \in Calls : Begin(c) \/ Operation(c) \/ Handler(c)
  <2>1. PICK c \in Calls : Begin(c) \/ Operation(c) \/ Handler(c)
    BY <1>3
  <2>2. ~TimeOut(c)
    BY DEF TimeOut
  <2> QED
    BY <1>2, <2>1, <2>2, BeginOwned, HandlerOwned, ReadOwned, WriteOwned DEF Operation
<1>4. CASE Crash
  <2>1. UNCHANGED <<doc, plan, job>> /\ \A c \in Calls : op'[c].at = "none"
    BY <1>4, NoOpType DEF Crash
  <2> QED
    BY <1>2, <2>1, OwnedStays
<1>5. CASE Pass \/ UNCHANGED vars \/ (\E p \in Prepares : PayByHand(p)) \/ \E a \in Accounts : Moves(a)
  <2>1. UNCHANGED <<doc, op, pc, plan, job>>
    BY <1>2, <1>5, OrderMoved DEF Pass, vars, PayByHand
  <2> QED
    BY <1>2, <2>1, OwnedStays DEF Owned
<1> QED
  BY <1>3, <1>4, <1>5 DEF Next, Moves, Quiet

LEMMA InitShop == Init => ShopInv
<1> SUFFICES ASSUME Init PROVE AboutFits /\ Owned
  BY InitBook DEF ShopInv
<1>1. AboutFits
  <2>1. \A c \in Settles : AccountOf[InvoiceOf[c]] = AccountOf[c]
    BY ConstantsAssumption
  <2>2. Nobody \notin Prepares /\ \A a \in Accounts : order[a].invoice = Nobody
    BY ConstantsAssumption, PreparesAre DEF Init, NoOrder
  <2>3. \A c \in Calls : about[c] = IF KindOf[c] = "settle" THEN InvoiceOf[c] ELSE Nobody
    BY DEF Init
  <2> QED
    BY <2>1, <2>2, <2>3 DEF AboutFits, Settles
<1>2. Owned
  <2>1. doc.invoices = {} /\ (\A c \in Calls : op[c].at = "none" /\ plan[c] = "none") /\ \A p \in Prepares : job[p] = "none"
    BY NoOpType DEF Init, NoRow
  <2> QED
    BY <2>1 DEF Owned
<1> QED
  BY <1>1, <1>2

\* A shop is built under a chosen address only when the address is its account's
\* for good, unless an operation has overrun: no two customers share a site.
THEOREM ShopsCorrect == Spec => []ShopOwnsAddress
<1>1. ShopInv => ShopOwnsAddress
  BY DEF ShopInv, Owned, OwnedBy, ShopOwnsAddress
<1> QED
  BY <1>1, InitShop, NextShop, PTL DEF Spec
=============================================================================
