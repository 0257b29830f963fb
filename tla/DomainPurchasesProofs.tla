-------------------------- MODULE DomainPurchasesProofs --------------------------
(* However many activations, forms, staff decisions and backfills there are. *)
EXTENDS DomainPurchases, TLAPS

\* A call holds on to rows that exist, and has one when it needs it.
RowsExist ==
    \A c \in Calls :
        /\ call[c].request # None => call[c].request \in Intakes
        /\ call[c].record # None => call[c].record \in Records
        /\ call[c].at \in {"ensure", "record"} => call[c].request # None
        /\ call[c].at \in {"reconcile", "register", "activate", "decide"} => call[c].record # None

\* The steps before a call may have made a record.
Early == {"start", "findRequest", "request", "readIntake", "ensure", "record"}
OwnRow == \A c \in Calls : call[c].at \in Early => c \notin Records

\* What a call is about to write is a status.
ReadsFit ==
    \A c \in Calls :
        /\ call[c].at \in {"ensure", "record", "reconcile"} /\ KindOf[c] = "backfill"
             => call[c].read \in {"pending", "active", "failed"}
        /\ call[c].at = "reconcile" => KindOf[c] = "backfill"
        /\ call[c].at = "sync" => call[c].read \in Statuses
        /\ call[c].at \in {"readRecord", "decide"} => KindOf[c] = "staff"
        /\ call[c].at = "readIntake" => KindOf[c] = "backfill"
        /\ call[c].at \in {"findRequest", "register", "activate"} => KindOf[c] = "fulfil"
        /\ call[c].at = "request" => KindOf[c] \in {"fulfil", "form"}

TypeInv == TypeOK /\ RowsExist /\ ReadsFit /\ OwnRow

Fulfils == {c \in Calls : KindOf[c] = "fulfil"}

\* The account's lock.
OneFulfil == \A c, d \in Fulfils \cap Underway : c = d

\* An activation about to create knows that none before it has.
NoneBefore ==
    \A c \in Fulfils :
        /\ call[c].at = "request" => \A d \in Fulfils : intake[d] = "none"
        /\ call[c].at = "record" => \A d \in Fulfils : domain[d].status = "none"

OnceInv == OneFulfil /\ NoneBefore /\ FulfilledOnce

\* Calls that are under way together are on record.
OverlapsKnown == \A c, d \in Underway : c # d => c \in overlaps /\ d \in overlaps

\* While no staff decision overlaps, nobody is about to write to a cancelled record.
WritesLive ==
    StaffAlone =>
        \A c \in Calls :
            /\ call[c].at \in {"reconcile", "register", "activate"} => domain[call[c].record].status # "cancelled"
            /\ call[c].at = "decide" => domain[call[c].record].status # "cancelled"

FinalInv == OverlapsKnown /\ WritesLive

IInv == TypeInv /\ OnceInv /\ FinalInv

----------------------------------------------------------------------------

LEMMA InitIInv == Init => IInv
<1> SUFFICES ASSUME Init PROVE IInv
  OBVIOUS
<1>1. PICK scenario \in Scenarios : call = [c \in Calls |-> At(IF c \in scenario THEN "start" ELSE "over")]
  BY DEF Init
<1>2. \A c \in Calls : /\ call[c].at \in {"start", "over"} /\ call[c].request = None
                       /\ call[c].record = None /\ call[c].read = "none"
  BY <1>1 DEF At
<1>3. call \in [Calls -> Local]
  BY <1>1 DEF At, Local, CallSteps
<1>4. TypeOK
  <2>1. intake \in [Calls -> IntakeStatuses \cup {"none"}] /\ domain \in [Calls -> Record]
    BY DEF Init, NoRecord, Record
  <2>2. MaxMishaps \in Nat
    BY DomainAssumption
  <2>3. Records = {}
    BY DEF Init, NoRecord, Records
  <2>4. overlaps \subseteq Calls /\ owned \in BOOLEAN
    BY DEF Init
  <2>5. mishaps \in 0 .. MaxMishaps
    BY <2>2 DEF Init
  <2> QED
    BY <1>3, <2>1, <2>3, <2>4, <2>5 DEF TypeOK
<1>5. RowsExist /\ ReadsFit
  BY <1>2 DEF RowsExist, ReadsFit
<1>6. Underway = {} /\ \A c \in Calls : intake[c] = "none" /\ domain[c].status = "none"
  BY <1>2 DEF Init, Underway, NoRecord
<1>7. OnceInv
  BY <1>2, <1>6 DEF OnceInv, OneFulfil, NoneBefore, FulfilledOnce, Fulfils
<1>8. FinalInv
  BY <1>2, <1>6 DEF FinalInv, OverlapsKnown, WritesLive
<1>9. OwnRow
  BY <1>6 DEF OwnRow, Records
<1> QED
  BY <1>4, <1>5, <1>7, <1>8, <1>9 DEF IInv, TypeInv

LEMMA KindIn == \A c \in Calls : KindOf[c] \in Kinds /\ Wanted[c] \in Statuses
  BY DomainAssumption

LEMMA MovedIs ==
  ASSUME TypeInv, NEW c \in Calls, NEW at \in CallSteps, NEW request \in Calls \cup {None},
         NEW record \in Calls \cup {None}, NEW read \in Statuses \cup {"none"},
         Goes(c, at, request, record, read)
  PROVE  /\ call' \in [Calls -> Local]
         /\ call'[c].at = at /\ call'[c].request = request /\ call'[c].record = record /\ call'[c].read = read
         /\ \A d \in Calls : d # c => call'[d] = call[d]
<1> DEFINE to == [at |-> at, request |-> request, record |-> record, read |-> read]
<1>1. to \in Local
  BY DEF Local
<1>2. call' = [call EXCEPT ![c] = to]
  BY DEF Goes
<1>3. to.at = at /\ to.request = request /\ to.record = record /\ to.read = read
  OBVIOUS
<1> HIDE DEF to
<1> QED
  BY <1>1, <1>2, <1>3 DEF TypeInv, TypeOK, Local

\* Its own step, its rows and what it read: the forms the actions use.
LEMMA GotoMoves ==
  ASSUME TypeInv, NEW c \in Calls, NEW at, Goto(c, at)
  PROVE  Goes(c, at, call[c].request, call[c].record, call[c].read)
<1>1. call[c] \in Local
  BY DEF TypeInv, TypeOK, Local
<1>2. [call[c] EXCEPT !.at = at] = [at |-> at, request |-> call[c].request, record |-> call[c].record, read |-> call[c].read]
  BY <1>1 DEF Local
<1>3. call' = [call EXCEPT ![c] = [call[c] EXCEPT !.at = at]]
  BY DEF Goto
<1> QED
  BY <1>2, <1>3 DEF Goes

LEMMA EndMoves ==
  ASSUME NEW c \in Calls, End(c)
  PROVE  Goes(c, "over", None, None, "none")
BY DEF End, Goes, At

----------------------------------------------------------------------------
(* A step of a call under way *)

\* All that a step of c other than Begin does, as the invariants see it.
Does(c, at, request, record, read) ==
    /\ call[c].at \notin {"start", "over"} /\ at # "start" /\ at \in CallSteps
    /\ request \in Intakes' \cup {None} /\ record \in Records' \cup {None} /\ read \in Statuses \cup {"none"}
    /\ Goes(c, at, request, record, read)
    /\ at \in {"ensure", "record"} => request # None
    /\ at \in {"reconcile", "register", "activate", "decide"} => record # None
    /\ at \in {"ensure", "record", "reconcile"} /\ KindOf[c] = "backfill" => read \in {"pending", "active", "failed"}
    /\ at = "reconcile" => KindOf[c] = "backfill"
    /\ at = "sync" => read \in Statuses
    /\ at \in {"readRecord", "decide"} => KindOf[c] = "staff"
    /\ at \notin {"readIntake", "findRequest"}
    /\ at \in Early => call[c].at \in Early /\ Records' = Records
    /\ Records' \subseteq Records \cup {c}
    /\ at \in {"register", "activate"} => KindOf[c] = "fulfil"
    /\ at = "request" => KindOf[c] \in {"fulfil", "form"}
    /\ owned' \in BOOLEAN /\ mishaps' \in 0 .. MaxMishaps /\ overlaps' = overlaps

\* The rows stay rows.
RowsStay ==
    /\ intake' \in [Calls -> IntakeStatuses \cup {"none"}] /\ domain' \in [Calls -> Record]
    /\ Intakes \subseteq Intakes' /\ Records \subseteq Records'
    /\ \A r \in Records' : domain'[r].source \in Intakes'

LEMMA DoesTypeInv ==
  ASSUME TypeInv, NEW c \in Calls, NEW at, NEW request, NEW record, NEW read,
         Does(c, at, request, record, read), RowsStay
  PROVE  /\ TypeInv' /\ \A d \in Calls : d # c => call'[d] = call[d]
         /\ call'[c].at = at /\ call'[c].request = request /\ call'[c].record = record /\ call'[c].read = read
<1>1. request \in Calls \cup {None} /\ record \in Calls \cup {None}
  BY DEF Does, Intakes, Records
<1>2. /\ call' \in [Calls -> Local]
      /\ call'[c].at = at /\ call'[c].request = request /\ call'[c].record = record /\ call'[c].read = read
      /\ \A d \in Calls : d # c => call'[d] = call[d]
  BY <1>1, MovedIs DEF Does
<1>3. TypeOK'
  BY <1>2 DEF TypeInv, TypeOK, Does, RowsStay, Local, Record
<1>4. RowsExist'
  BY <1>2 DEF TypeInv, RowsExist, Does, RowsStay
<1>5. ReadsFit'
  BY <1>2 DEF TypeInv, ReadsFit, Does
<1>6. OwnRow'
  BY <1>2 DEF TypeInv, OwnRow, Does
<1> QED
  BY <1>2, <1>3, <1>4, <1>5, <1>6 DEF TypeInv

\* The account's lock and what is known of the overlaps outlast every such step.
LEMMA DoesUnderway ==
  ASSUME IInv, NEW c \in Calls, NEW at, NEW request, NEW record, NEW read,
         Does(c, at, request, record, read), RowsStay
  PROVE  OneFulfil' /\ OverlapsKnown'
<1>1. Underway' \subseteq Underway
  BY DoesTypeInv DEF IInv, Underway, Does
<1> QED
  BY <1>1 DEF IInv, OnceInv, OneFulfil, FinalInv, OverlapsKnown, Does, Fulfils

\* A step of a call of another kind, or that creates nothing.
LEMMA CreatesNothing ==
  ASSUME IInv, NEW c \in Calls, NEW at, NEW request, NEW record, NEW read,
         Does(c, at, request, record, read), RowsStay,
         \A d \in Fulfils : (intake'[d] # "none" <=> intake[d] # "none")
                            /\ (domain'[d].status # "none" <=> domain[d].status # "none"),
         KindOf[c] = "fulfil" /\ at = "request" => \A d \in Fulfils : intake[d] = "none",
         KindOf[c] = "fulfil" /\ at = "record" => \A d \in Fulfils : domain[d].status = "none"
  PROVE  OnceInv'
<1>1. /\ \A d \in Calls : d # c => call'[d] = call[d]
      /\ call'[c].at = at
  BY DoesTypeInv DEF IInv
<1>2. NoneBefore'
  BY <1>1 DEF IInv, OnceInv, NoneBefore, Fulfils
<1>3. FulfilledOnce'
  BY DEF IInv, OnceInv, FulfilledOnce, Fulfils
<1> QED
  BY <1>2, <1>3, DoesUnderway DEF OnceInv

\* A step of c that writes nothing to a record but a status that is not
\* cancelled, or that is the step of a staff decision.
LEMMA WritesFinal ==
  ASSUME IInv, NEW c \in Calls, NEW at, NEW request, NEW record, NEW read,
         Does(c, at, request, record, read), RowsStay,
         \A r \in Records : domain'[r].status = "cancelled" => domain[r].status = "cancelled" \/ KindOf[c] = "staff",
         StaffAlone /\ at \in {"reconcile", "register", "activate", "decide"}
            => domain'[record].status # "cancelled"
  PROVE  FinalInv'
<1>1. /\ \A d \in Calls : d # c => call'[d] = call[d]
      /\ call'[c].at = at /\ call'[c].record = record
  BY DoesTypeInv DEF IInv
<1>2. ASSUME StaffAlone', NEW d \in Calls, call'[d].at \in {"reconcile", "register", "activate", "decide"}
      PROVE  domain'[call'[d].record].status # "cancelled"
  <2>1. StaffAlone
    BY <1>2 DEF StaffAlone, Does
  <2>2. CASE d = c
    BY <1>1, <1>2, <2>1, <2>2
  <2>3. CASE d # c
    <3>1. KindOf[c] # "staff"
      BY <1>1, <1>2, <2>1, <2>3 DEF IInv, FinalInv, OverlapsKnown, Underway, StaffAlone, Does
    <3>2. call[d].record \in Records /\ domain[call[d].record].status # "cancelled"
      BY <1>1, <1>2, <2>1, <2>3 DEF IInv, TypeInv, RowsExist, FinalInv, WritesLive
    <3> QED
      BY <1>1, <2>3, <3>1, <3>2
  <2> QED
    BY <2>2, <2>3
<1> QED
  BY <1>2, DoesUnderway DEF FinalInv, WritesLive

\* Rows nobody writes are as they were.
LEMMA NothingWritten ==
  ASSUME TypeInv, UNCHANGED <<intake, domain>>
  PROVE  /\ RowsStay /\ Intakes' = Intakes /\ Records' = Records
BY DEF TypeInv, TypeOK, RowsStay, Intakes, Records, Record

\* A call that reads and moves on.
LEMMA ReadsOnly ==
  ASSUME IInv, NEW c \in Calls, NEW at, NEW request, NEW record, NEW read,
         Does(c, at, request, record, read), UNCHANGED <<intake, domain>>,
         KindOf[c] = "fulfil" /\ at = "request" => \A d \in Fulfils : intake[d] = "none",
         KindOf[c] = "fulfil" /\ at = "record" => \A d \in Fulfils : domain[d].status = "none",
         StaffAlone /\ at \in {"reconcile", "register", "activate", "decide"}
            => domain[record].status # "cancelled"
  PROVE  IInv' /\ (\A r \in Calls : domain[r].status = "cancelled" => domain'[r].status = "cancelled")
<1>1. RowsStay /\ Records' = Records
  BY NothingWritten DEF IInv
<1>2. TypeInv'
  BY <1>1, DoesTypeInv DEF IInv
<1>3. OnceInv'
  BY <1>1, CreatesNothing
<1>4. FinalInv'
  BY <1>1, WritesFinal
<1> QED
  BY <1>2, <1>3, <1>4 DEF IInv

\* A call that ends without a write.
LEMMA EndsOnly ==
  ASSUME IInv, NEW c \in Calls, call[c].at \notin {"start", "over"}, End(c), UNCHANGED <<intake, domain, overlaps>>,
         owned' \in BOOLEAN, mishaps' \in 0 .. MaxMishaps
  PROVE  IInv' /\ (\A r \in Calls : domain[r].status = "cancelled" => domain'[r].status = "cancelled")
<1>1. Goes(c, "over", None, None, "none")
  BY EndMoves
<1>2. Records' = Records
  BY DEF Records
<1>3. Does(c, "over", None, None, "none")
  BY <1>1, <1>2 DEF Does, CallSteps, Early
<1> QED
  BY <1>3, ReadsOnly

Final == \A r \in Calls : domain[r].status = "cancelled" /\ StaffAlone => domain'[r].status = "cancelled"

LEMMA MishapsType == ASSUME TypeInv, UNCHANGED mishaps \/ Fail PROVE mishaps' \in 0 .. MaxMishaps
BY DomainAssumption DEF TypeInv, TypeOK, Fail

LEMMA BeginStep == ASSUME IInv, NEW c \in Calls, Begin(c) PROVE IInv' /\ Final
<1> DEFINE at == First(c)
<1>1. /\ at \in {"findRequest", "request", "readRecord", "readIntake"}
      /\ KindOf[c] = "fulfil" <=> at = "findRequest"
      /\ at = "readRecord" => KindOf[c] = "staff"
      /\ at = "readIntake" => KindOf[c] = "backfill"
      /\ at = "request" => KindOf[c] \in {"fulfil", "form"}
  BY KindIn DEF First, Kinds
<1>2. /\ call[c].at = "start" /\ MayBegin(c) /\ Goto(c, at)
      /\ overlaps' = IF Underway = {} THEN overlaps ELSE overlaps \cup Underway \cup {c}
      /\ UNCHANGED <<intake, domain, owned, mishaps>>
  BY DEF Begin
<1> HIDE DEF at
<1>3. /\ call' \in [Calls -> Local]
      /\ call'[c].at = at /\ call'[c].request = call[c].request /\ call'[c].record = call[c].record
      /\ call'[c].read = call[c].read
      /\ \A d \in Calls : d # c => call'[d] = call[d]
  <2>1. at \in CallSteps /\ call[c].request \in Calls \cup {None} /\ call[c].record \in Calls \cup {None}
        /\ call[c].read \in Statuses \cup {"none"}
    BY <1>1 DEF CallSteps, IInv, TypeInv, TypeOK, Local
  <2>2. Goes(c, at, call[c].request, call[c].record, call[c].read)
    BY <1>2, GotoMoves DEF IInv
  <2> QED
    BY <2>1, <2>2, MovedIs DEF IInv
<1>4. Intakes' = Intakes /\ Records' = Records
  BY <1>2, NothingWritten DEF IInv
<1>5. TypeOK'
  BY <1>2, <1>3, <1>4 DEF IInv, TypeInv, TypeOK, Local, Underway
<1>6. RowsExist'
  BY <1>1, <1>3, <1>4 DEF IInv, TypeInv, RowsExist
<1>11. ReadsFit'
  <2>1. \A d \in Calls : d = c \/ call'[d] = call[d]
    BY <1>3
  <2>2. call'[c].at = at
    BY <1>3
  <2> QED
    BY <1>1, <2>1, <2>2 DEF IInv, TypeInv, ReadsFit
<1>7. Underway' = Underway \cup {c} /\ c \notin Underway
  BY <1>1, <1>2, <1>3 DEF Underway
<1>8. OnceInv'
  <2>1. OneFulfil'
    BY <1>2, <1>7 DEF IInv, OnceInv, OneFulfil, MayBegin, Fulfils
  <2>2. NoneBefore'
    BY <1>1, <1>2, <1>3 DEF IInv, OnceInv, NoneBefore, Fulfils
  <2>3. FulfilledOnce'
    BY <1>2 DEF IInv, OnceInv, FulfilledOnce
  <2> QED
    BY <2>1, <2>2, <2>3 DEF OnceInv
<1>9. OverlapsKnown'
  BY <1>2, <1>7 DEF IInv, FinalInv, OverlapsKnown
<1>10. WritesLive'
  <2>1. overlaps \subseteq overlaps'
    BY <1>2
  <2>2. StaffAlone' => StaffAlone
    BY <2>1 DEF StaffAlone
  <2> QED
    <3>1. UNCHANGED domain
      BY <1>2
    <3>2. \A d \in Calls : call'[d].at \in {"reconcile", "register", "activate", "decide"} => call'[d] = call[d]
      BY <1>1, <1>3
    <3> QED
      BY <2>2, <3>1, <3>2 DEF IInv, FinalInv, WritesLive
<1>12. OwnRow'
  BY <1>2, <1>3, <1>4 DEF IInv, TypeInv, OwnRow, Early
<1> QED
  BY <1>2, <1>5, <1>6, <1>8, <1>9, <1>10, <1>11, <1>12 DEF IInv, TypeInv, FinalInv, Final

----------------------------------------------------------------------------
(* Intake rows *)

LEMMA FindRequestStep == ASSUME IInv, NEW c \in Calls, FindRequest(c) PROVE IInv' /\ Final
<1>1. call[c] \in Local /\ call[c].at = "findRequest" /\ mishaps' \in 0 .. MaxMishaps
      /\ UNCHANGED <<intake, domain, owned, overlaps>> /\ owned' \in BOOLEAN
  BY MishapsType DEF FindRequest, IInv, TypeInv, TypeOK, Local
<1>2. CASE End(c)
  BY <1>1, <1>2, EndsOnly DEF Final
<1>3. Intakes' = Intakes /\ Records' = Records
  BY <1>1, NothingWritten DEF IInv
<1>4. CASE Intakes = {} /\ Goto(c, "request")
  <2>1. Does(c, "request", call[c].request, call[c].record, call[c].read)
    BY <1>1, <1>3, <1>4, GotoMoves DEF Does, CallSteps, Early, IInv, TypeInv, RowsExist, ReadsFit, Local
  <2>2. \A d \in Fulfils : intake[d] = "none"
    BY <1>4 DEF Intakes, Fulfils
  <2> QED
    BY <1>1, <2>1, <2>2, ReadsOnly DEF Final
<1>5. ASSUME NEW r \in Intakes, Goes(c, "ensure", r, None, "none") PROVE IInv' /\ Final
  <2>1. r # None /\ KindOf[c] = "fulfil"
    BY <1>1, DomainAssumption DEF Intakes, IInv, TypeInv, ReadsFit
  <2>2. Does(c, "ensure", r, None, "none")
    BY <1>1, <1>3, <1>5, <2>1 DEF Does, CallSteps, Early
  <2> QED
    BY <1>1, <2>2, ReadsOnly DEF Final
<1> QED
  BY <1>2, <1>4, <1>5 DEF FindRequest

LEMMA ReadIntakeStep == ASSUME IInv, NEW c \in Calls, ReadIntake(c) PROVE IInv' /\ Final
<1>1. /\ call[c].at = "readIntake" /\ UNCHANGED <<intake, domain, owned, overlaps, mishaps>>
      /\ owned' \in BOOLEAN /\ mishaps' \in 0 .. MaxMishaps
  BY DEF ReadIntake, IInv, TypeInv, TypeOK
<1>2. CASE End(c)
  BY <1>1, <1>2, EndsOnly DEF Final
<1>3. ASSUME NEW r \in Intakes, Goes(c, "ensure", r, None, FromIntake(intake[r])) PROVE IInv' /\ Final
  <2>1. r # None /\ Intakes' = Intakes /\ Records' = Records /\ KindOf[c] # "fulfil"
    BY <1>1, DomainAssumption, NothingWritten DEF Intakes, IInv, TypeInv, ReadsFit
  <2>2. FromIntake(intake[r]) \in {"pending", "active", "failed"}
    BY DEF FromIntake
  <2>3. Does(c, "ensure", r, None, FromIntake(intake[r]))
    BY <1>1, <1>3, <2>1, <2>2 DEF Does, CallSteps, Early, Statuses
  <2> QED
    BY <1>1, <2>3, ReadsOnly DEF Final
<1> QED
  BY <1>2, <1>3 DEF ReadIntake

\* A row is added under the name of the call that makes it.
LEMMA MakeRequestStep == ASSUME IInv, NEW c \in Calls, MakeRequest(c) PROVE IInv' /\ Final
<1>1. /\ call[c].at = "request" /\ UNCHANGED <<domain, owned, overlaps>>
      /\ owned' \in BOOLEAN /\ mishaps' \in 0 .. MaxMishaps
  BY MishapsType DEF MakeRequest, Throws, IInv, TypeInv, TypeOK
<1>2. CASE End(c) /\ UNCHANGED intake
  BY <1>1, <1>2, EndsOnly DEF Final
<1>3. ASSUME intake' = [intake EXCEPT ![c] = "pending"],
             \/ Goes(c, "ensure", c, None, "none") /\ KindOf[c] # "backfill"
             \/ Goes(c, "over", None, None, "none")
      PROVE  IInv' /\ Final
  <2>1. RowsStay /\ c \in Intakes' /\ c # None /\ Records' = Records
    BY <1>1, <1>3, DomainAssumption DEF IInv, TypeInv, TypeOK, RowsStay, Intakes, Records, IntakeStatuses
  <2>2. PICK at \in {"ensure", "over"}, request \in {c, None} : Does(c, at, request, None, "none")
    BY <1>1, <1>3, <2>1 DEF Does, CallSteps, Early
  <2>3. TypeInv'
    BY <2>1, <2>2, DoesTypeInv DEF IInv
  <2>4. FinalInv'
    BY <1>1, <2>1, <2>2, WritesFinal
  <2>5. /\ \A d \in Calls : d # c => call'[d] = call[d]
        /\ call'[c].at = at
    BY <2>1, <2>2, DoesTypeInv DEF IInv
  <2>6. OneFulfil'
    BY <2>1, <2>2, DoesUnderway
  <2>7. \A d \in Calls : d # c => intake'[d] = intake[d]
    BY <1>3 DEF IInv, TypeInv, TypeOK
  <2>8. CASE KindOf[c] = "fulfil"
    <3>1. \A d \in Fulfils : intake[d] = "none"
      BY <1>1, <2>8 DEF IInv, OnceInv, NoneBefore, Fulfils
    <3>2. \A d \in Fulfils : call'[d].at # "request"
      <4>1. c \in Fulfils \cap Underway
        BY <1>1, <2>8 DEF Fulfils, Underway
      <4>2. ASSUME NEW d \in Fulfils, d # c PROVE call[d].at # "request"
        BY <4>1, <4>2 DEF IInv, OnceInv, OneFulfil, Fulfils, Underway
      <4> QED
        BY <2>5, <4>2 DEF Fulfils
    <3>3. NoneBefore'
      BY <1>1, <2>5, <3>2 DEF IInv, OnceInv, NoneBefore, Fulfils
    <3>4. FulfilledOnce'
      BY <1>1, <2>7, <3>1 DEF IInv, OnceInv, FulfilledOnce, Fulfils
    <3> QED
      BY <2>3, <2>4, <2>6, <3>3, <3>4, <1>1 DEF IInv, OnceInv, Final
  <2>9. CASE KindOf[c] # "fulfil"
    <3>1. \A d \in Fulfils : intake'[d] = intake[d]
      BY <2>7, <2>9 DEF Fulfils
    <3>2. OnceInv'
      BY <1>1, <2>1, <2>2, <2>9, <3>1, CreatesNothing
    <3> QED
      BY <1>1, <2>3, <2>4, <3>2 DEF IInv, Final
  <2> QED
    BY <2>8, <2>9
<1>4. End(c) => Goes(c, "over", None, None, "none")
  BY EndMoves
<1>5. KindOf[c] # "backfill"
  BY <1>1 DEF IInv, TypeInv, ReadsFit
<1> QED
  BY <1>2, <1>3, <1>4, <1>5 DEF MakeRequest, Throws

----------------------------------------------------------------------------
(* Ownership records *)

\* The ways on from ensureCustomerDomain; only a pending record is worked on.
LEMMA AfterEnsureDoes ==
  ASSUME TypeInv, NEW c \in Calls, NEW r \in Records', NEW status, AfterEnsure(c, r, status),
         call[c].at \in {"ensure", "record"}, Intakes \subseteq Intakes', Records' \subseteq Records \cup {c},
         overlaps' = overlaps, owned' \in BOOLEAN, mishaps' \in 0 .. MaxMishaps
  PROVE  \E at, request, record, read :
            /\ Does(c, at, request, record, read)
            /\ at \in {"register", "reconcile", "over"}
            /\ at # "over" => record = r /\ status = "pending"
<1>1. /\ call[c].request \in Intakes' \cup {None} /\ call[c].request # None
      /\ call[c].read \in Statuses \cup {"none"} /\ r # None
      /\ KindOf[c] = "backfill" => call[c].read \in {"pending", "active", "failed"}
  BY DomainAssumption DEF TypeInv, TypeOK, RowsExist, ReadsFit, Local, Records
<1>2. CASE KindOf[c] = "fulfil" /\ status = "pending" /\ Goes(c, "register", call[c].request, r, "none")
  <2>1. Does(c, "register", call[c].request, r, "none")
    BY <1>1, <1>2 DEF Does, CallSteps, Early
  <2> QED
    BY <1>2, <2>1
<1>3. CASE KindOf[c] = "backfill" /\ status = "pending" /\ Goes(c, "reconcile", call[c].request, r, call[c].read)
  <2>1. Does(c, "reconcile", call[c].request, r, call[c].read)
    BY <1>1, <1>3 DEF Does, CallSteps, Early
  <2> QED
    BY <1>3, <2>1
<1>4. CASE End(c)
  <2>1. Does(c, "over", None, None, "none")
    BY <1>1, <1>4, EndMoves DEF Does, CallSteps, Early
  <2> QED
    BY <2>1
<1> QED
  BY <1>2, <1>3, <1>4 DEF AfterEnsure

LEMMA FindRecordStep == ASSUME IInv, NEW c \in Calls, FindRecord(c) PROVE IInv' /\ Final
<1>1. /\ call[c].at = "ensure" /\ UNCHANGED <<intake, domain, owned, overlaps>>
      /\ owned' \in BOOLEAN /\ mishaps' \in 0 .. MaxMishaps
  BY MishapsType DEF FindRecord, IInv, TypeInv, TypeOK
<1>2. CASE End(c)
  BY <1>1, <1>2, EndsOnly DEF Final
<1>3. Intakes' = Intakes /\ Records' = Records
  BY <1>1, NothingWritten DEF IInv
<1>4. CASE Records = {} /\ Goto(c, "record")
  <2>1. call[c] \in Local /\ call[c].request \in Intakes /\ call[c].request # None
        /\ call[c].record \in Records \cup {None}
        /\ (KindOf[c] = "backfill" => call[c].read \in {"pending", "active", "failed"})
    BY <1>1 DEF IInv, TypeInv, TypeOK, RowsExist, ReadsFit
  <2>2. Does(c, "record", call[c].request, call[c].record, call[c].read)
    BY <1>1, <1>3, <1>4, <2>1, GotoMoves DEF Does, CallSteps, Early, IInv, Local
  <2>3. \A d \in Fulfils : domain[d].status = "none"
    BY <1>4 DEF Records, Fulfils
  <2> QED
    BY <1>1, <2>2, <2>3, ReadsOnly DEF Final
<1>5. ASSUME NEW r \in Records, AfterEnsure(c, r, domain[r].status) PROVE IInv' /\ Final
  <2>1. PICK at, request, record, read :
            /\ Does(c, at, request, record, read)
            /\ at \in {"register", "reconcile", "over"}
            /\ at # "over" => record = r /\ domain[r].status = "pending"
    BY <1>1, <1>3, <1>5, AfterEnsureDoes DEF IInv
  <2> QED
    BY <1>1, <2>1, ReadsOnly DEF Final
<1> QED
  BY <1>2, <1>4, <1>5 DEF FindRecord

LEMMA MakeRecordStep == ASSUME IInv, NEW c \in Calls, MakeRecord(c) PROVE IInv' /\ Final
<1> DEFINE status == IF KindOf[c] = "backfill" THEN call[c].read ELSE "pending"
           new == [status |-> status, source |-> call[c].request, attached |-> KindOf[c] # "fulfil"]
<1>1. /\ call[c].at = "record" /\ UNCHANGED <<intake, owned, overlaps>>
      /\ owned' \in BOOLEAN /\ mishaps' \in 0 .. MaxMishaps
  BY MishapsType DEF MakeRecord, Throws, IInv, TypeInv, TypeOK
<1>2. CASE End(c) /\ UNCHANGED domain
  BY <1>1, <1>2, EndsOnly DEF Final
<1>3. /\ call[c].request \in Intakes /\ call[c].request \in Calls
      /\ status \in {"pending", "active", "failed"}
  BY <1>1 DEF IInv, TypeInv, RowsExist, ReadsFit, Intakes
<1>4. new \in Record /\ new.status = status /\ new.source = call[c].request
  BY <1>3 DEF Record, Statuses
<1>5. \/ domain' = [domain EXCEPT ![c] = new] /\ (AfterEnsure(c, c, status) \/ End(c))
      \/ End(c) /\ UNCHANGED domain
  <2>1. CASE Throws(c, domain' = [domain EXCEPT ![c] = new], UNCHANGED domain)
    BY <2>1 DEF Throws
  <2>2. CASE domain' = [domain EXCEPT ![c] = new] /\ AfterEnsure(c, c, status)
    BY <2>2
  <2> QED
    BY <2>1, <2>2 DEF MakeRecord
<1> HIDE DEF new, status
<1>6. ASSUME domain' = [domain EXCEPT ![c] = new], AfterEnsure(c, c, status) \/ End(c) PROVE IInv' /\ Final
  <2>1. /\ domain' \in [Calls -> Record] /\ domain'[c] = new
        /\ \A d \in Calls : d # c => domain'[d] = domain[d]
    BY <1>4, <1>6 DEF IInv, TypeInv, TypeOK
  <2>2. Intakes' = Intakes /\ Records' = Records \cup {c} /\ c # None
    BY <1>1, <1>3, <1>4, <2>1, DomainAssumption DEF Intakes, Records
  <2>3. RowsStay
    <3>1. \A r \in Records' : domain'[r].source \in Intakes'
      BY <1>3, <1>4, <2>1, <2>2 DEF IInv, TypeInv, TypeOK, Records
    <3>2. intake' \in [Calls -> IntakeStatuses \cup {"none"}]
      BY <1>1 DEF IInv, TypeInv, TypeOK
    <3> QED
      BY <2>1, <2>2, <3>1, <3>2 DEF RowsStay
  <2>4. PICK at, request, record, read :
            /\ Does(c, at, request, record, read)
            /\ at \in {"register", "reconcile", "over"}
            /\ at # "over" => record = c /\ status = "pending"
    <3>1. CASE AfterEnsure(c, c, status)
      BY <1>1, <2>2, <3>1, AfterEnsureDoes DEF IInv
    <3>2. CASE End(c)
      <4>1. Does(c, "over", None, None, "none")
        BY <1>1, <2>2, <3>2, EndMoves DEF Does, CallSteps, Early
      <4> QED
        BY <4>1
    <3> QED
      BY <1>6, <3>1, <3>2
  <2>5. TypeInv' /\ (\A d \in Calls : d # c => call'[d] = call[d]) /\ call'[c].at = at
    BY <2>3, <2>4, DoesTypeInv DEF IInv
  <2>6. FinalInv'
    BY <1>3, <1>4, <2>1, <2>3, <2>4, WritesFinal DEF Records
  <2>7. OneFulfil'
    BY <2>3, <2>4, DoesUnderway
  <2>8. OnceInv'
    <3>1. CASE KindOf[c] = "fulfil"
      <4>1. \A d \in Fulfils : domain[d].status = "none"
        BY <1>1, <3>1 DEF IInv, OnceInv, NoneBefore, Fulfils
      <4>2. \A d \in Fulfils : call'[d].at # "record"
        <5>1. c \in Fulfils \cap Underway
          BY <1>1, <3>1 DEF Fulfils, Underway
        <5>2. ASSUME NEW d \in Fulfils, d # c PROVE call[d].at # "record"
          BY <5>1, <5>2 DEF IInv, OnceInv, OneFulfil, Fulfils, Underway
        <5> QED
          BY <2>4, <2>5, <5>2 DEF Fulfils
      <4>3. NoneBefore'
        BY <1>1, <2>4, <2>5, <4>2 DEF IInv, OnceInv, NoneBefore, Fulfils
      <4>4. FulfilledOnce'
        BY <1>1, <2>1, <4>1 DEF IInv, OnceInv, FulfilledOnce, Fulfils
      <4> QED
        BY <2>7, <4>3, <4>4 DEF OnceInv
    <3>2. CASE KindOf[c] # "fulfil"
      <4>1. \A d \in Fulfils : domain'[d] = domain[d]
        BY <2>1, <3>2 DEF Fulfils
      <4> QED
        BY <1>1, <2>3, <2>4, <3>2, <4>1, CreatesNothing
    <3> QED
      BY <3>1, <3>2
  <2>9. c \notin Records
    BY <1>1 DEF IInv, TypeInv, OwnRow, Early
  <2>10. Final
    BY <2>1, <2>9 DEF Final, Records
  <2> QED
    BY <2>5, <2>6, <2>8, <2>10 DEF IInv
<1> QED
  BY <1>2, <1>5, <1>6

\* A record takes a status and keeps its source.
LEMMA StatusWritten ==
  ASSUME IInv, NEW r \in Records, NEW new \in Record, new.status \in Statuses, new.source = domain[r].source,
         domain' = [domain EXCEPT ![r] = new], UNCHANGED intake
  PROVE  /\ RowsStay /\ Intakes' = Intakes /\ Records' = Records
         /\ domain'[r].status = new.status
         /\ \A d \in Calls : d # r => domain'[d] = domain[d]
<1>1. r \in Calls /\ new.status # "none"
  BY DEF Records, Statuses
<1>2. domain' \in [Calls -> Record] /\ domain'[r] = new /\ \A d \in Calls : d # r => domain'[d] = domain[d]
  BY <1>1 DEF IInv, TypeInv, TypeOK
<1>3. Intakes' = Intakes
  BY DEF Intakes
<1>4. Records' = Records
  BY <1>1, <1>2 DEF Records
<1>5. \A d \in Records' : domain'[d].source \in Intakes'
  BY <1>2, <1>3, <1>4 DEF IInv, TypeInv, TypeOK, Records
<1>6. intake' \in [Calls -> IntakeStatuses \cup {"none"}]
  BY DEF IInv, TypeInv, TypeOK
<1> QED
  BY <1>2, <1>3, <1>4, <1>5, <1>6 DEF RowsStay

\* ... which leaves all the rest in order if the writer is staff, or if the
\* status is not cancelled.
LEMMA WriteStep ==
  ASSUME IInv, NEW c \in Calls, call[c].at \in {"reconcile", "activate", "decide"},
         NEW new \in Record, new.status \in Statuses, new.source = domain[call[c].record].source,
         domain' = [domain EXCEPT ![call[c].record] = new], UNCHANGED intake,
         new.status = "cancelled" => KindOf[c] = "staff",
         overlaps' = overlaps, owned' \in BOOLEAN, mishaps' \in 0 .. MaxMishaps,
         NEW read \in Statuses,
         \/ End(c)
         \/ Goes(c, "sync", call[c].request, call[c].record, read)
  PROVE  IInv' /\ Final
<1> DEFINE r == call[c].record
<1>1. r \in Records /\ r \in Calls /\ call[c].request \in Intakes \cup {None}
  BY DEF IInv, TypeInv, RowsExist, Records
<1>2. /\ RowsStay /\ Intakes' = Intakes /\ Records' = Records
      /\ domain'[r].status = new.status /\ \A d \in Calls : d # r => domain'[d] = domain[d]
  BY <1>1, StatusWritten
<1>3. PICK at, request, record, to : at \in {"sync", "over"} /\ Does(c, at, request, record, to)
  <2>1. CASE End(c)
    <3>1. Does(c, "over", None, None, "none")
      BY <1>2, <2>1, EndMoves DEF Does, CallSteps, Early
    <3> QED
      BY <3>1
  <2>2. CASE Goes(c, "sync", call[c].request, call[c].record, read)
    <3>1. Does(c, "sync", call[c].request, call[c].record, read)
      BY <1>1, <1>2, <2>2 DEF Does, CallSteps, Early
    <3> QED
      BY <3>1
  <2> QED
    BY <2>1, <2>2
<1>4. TypeInv'
  BY <1>2, <1>3, DoesTypeInv DEF IInv
<1>5. OnceInv'
  <2>1. \A d \in Fulfils : domain'[d].status # "none" <=> domain[d].status # "none"
    BY <1>2 DEF Fulfils, Records
  <2> QED
    BY <1>2, <1>3, <2>1, CreatesNothing
<1>6. FinalInv'
  BY <1>1, <1>2, <1>3, WritesFinal DEF Records
<1>7. StaffAlone => domain[r].status # "cancelled"
  BY DEF IInv, FinalInv, WritesLive
<1>8. Final
  BY <1>2, <1>7 DEF Final
<1> QED
  BY <1>4, <1>5, <1>6, <1>8 DEF IInv

\* A call about to write a record that fails before it does.
LEMMA StatusRecord ==
  ASSUME TypeInv, NEW r \in Calls, NEW status \in Statuses
  PROVE  LET new == [domain[r] EXCEPT !.status = status]
         IN  /\ new \in Record /\ new.status = status /\ new.source = domain[r].source
             /\ [domain EXCEPT ![r].status = status] = [domain EXCEPT ![r] = new]
BY DEF TypeInv, TypeOK, Record

LEMMA ReconcileStep == ASSUME IInv, NEW c \in Calls, Reconcile(c) PROVE IInv' /\ Final
<1> DEFINE r == call[c].record
           status == IF call[c].read = "pending" THEN domain[r].status ELSE call[c].read
           new == [status |-> status, source |-> domain[r].source, attached |-> TRUE]
<1>1. /\ call[c].at = "reconcile" /\ UNCHANGED <<intake, owned, overlaps>>
      /\ owned' \in BOOLEAN /\ mishaps' \in 0 .. MaxMishaps
  BY MishapsType DEF Reconcile, Throws, IInv, TypeInv, TypeOK
<1>2. CASE End(c) /\ UNCHANGED domain
  BY <1>1, <1>2, EndsOnly DEF Final
<1>3. r \in Records /\ r \in Calls /\ call[c].read \in {"pending", "active", "failed"}
  BY <1>1 DEF IInv, TypeInv, RowsExist, ReadsFit, Records
<1>4. domain[r] \in Record /\ domain[r].status # "none"
  BY <1>3 DEF IInv, TypeInv, TypeOK, Records
<1>5. CASE End(c) /\ domain' = [domain EXCEPT ![r] = new]
  <2>1. new \in Record /\ new.status = status /\ new.source = domain[r].source /\ status \in Statuses
    BY <1>3, <1>4 DEF Record, Statuses
  <2>2. CASE call[c].read # "pending" \/ domain[r].status # "cancelled"
    <3>1. new.status # "cancelled"
      BY <1>3, <2>1, <2>2
    <3> HIDE DEF new, status
    <3> QED
      BY <1>1, <1>5, <2>1, <3>1, WriteStep
  <2>3. CASE call[c].read = "pending" /\ domain[r].status = "cancelled"
    <3>1. new.status = "cancelled"
      BY <2>1, <2>3
    <3> HIDE DEF new, status
    <3>2. /\ RowsStay /\ Intakes' = Intakes /\ Records' = Records
          /\ domain'[r].status = "cancelled" /\ \A d \in Calls : d # r => domain'[d] = domain[d]
      BY <1>1, <1>3, <1>5, <2>1, <3>1, StatusWritten
    <3>3. Does(c, "over", None, None, "none")
      BY <1>1, <1>5, <3>2, EndMoves DEF Does, CallSteps, Early
    <3>4. \A d \in Calls : domain'[d].status = domain[d].status
      BY <2>3, <3>2
    <3>5. TypeInv' /\ OnceInv' /\ FinalInv'
      <4>1. \A d \in Fulfils : domain'[d].status # "none" <=> domain[d].status # "none"
        BY <3>4 DEF Fulfils
      <4>2. \A d \in Records : domain'[d].status = "cancelled" => domain[d].status = "cancelled"
        BY <3>4 DEF Records
      <4> QED
        BY <1>1, <3>2, <3>3, <4>1, <4>2, DoesTypeInv, CreatesNothing, WritesFinal DEF IInv
    <3> QED
      BY <3>4, <3>5 DEF IInv, Final
  <2> QED
    BY <2>2, <2>3
<1>6. \/ End(c) /\ domain' = [domain EXCEPT ![r] = new]
      \/ End(c) /\ UNCHANGED domain
  BY DEF Reconcile, Throws
<1> QED
  BY <1>2, <1>5, <1>6

LEMMA RegisterStep == ASSUME IInv, NEW c \in Calls, Register(c) PROVE IInv' /\ Final
<1>1. /\ call[c].at = "register" /\ UNCHANGED <<intake, domain, overlaps>>
      /\ owned' \in BOOLEAN /\ mishaps' \in 0 .. MaxMishaps
  BY MishapsType DEF Register, Throws, IInv, TypeInv, TypeOK
<1>2. CASE End(c)
  BY <1>1, <1>2, EndsOnly DEF Final
<1>3. CASE Goto(c, "activate")
  <2>1. /\ call[c] \in Local /\ KindOf[c] = "fulfil" /\ call[c].record \in Records /\ call[c].record # None
        /\ call[c].request \in Intakes \cup {None} /\ call[c].read \in Statuses \cup {"none"}
    BY <1>1 DEF IInv, TypeInv, TypeOK, RowsExist, ReadsFit, Local
  <2>2. Intakes' = Intakes /\ Records' = Records
    BY <1>1, NothingWritten DEF IInv
  <2>3. Does(c, "activate", call[c].request, call[c].record, call[c].read)
    BY <1>1, <1>3, <2>1, <2>2, GotoMoves DEF Does, CallSteps, Early, IInv
  <2>4. StaffAlone => domain[call[c].record].status # "cancelled"
    BY <1>1 DEF IInv, FinalInv, WritesLive
  <2> QED
    BY <1>1, <2>3, <2>4, ReadsOnly DEF Final
<1> QED
  BY <1>2, <1>3 DEF Register, Throws

LEMMA ActivateStep == ASSUME IInv, NEW c \in Calls, Activate(c) PROVE IInv' /\ Final
<1> DEFINE new == [domain[call[c].record] EXCEPT !.status = "active"]
<1>1. /\ call[c].at = "activate" /\ UNCHANGED <<intake, owned, overlaps>>
      /\ owned' \in BOOLEAN /\ mishaps' \in 0 .. MaxMishaps
  BY MishapsType DEF Activate, Throws, IInv, TypeInv, TypeOK
<1>2. CASE End(c) /\ UNCHANGED domain
  BY <1>1, <1>2, EndsOnly DEF Final
<1>3. call[c].record \in Calls /\ "active" \in Statuses
  BY <1>1 DEF IInv, TypeInv, RowsExist, Records, Statuses
<1>4. /\ new \in Record /\ new.status = "active" /\ new.source = domain[call[c].record].source
      /\ [domain EXCEPT ![call[c].record].status = "active"] = [domain EXCEPT ![call[c].record] = new]
  BY <1>3, StatusRecord DEF IInv
<1> HIDE DEF new
<1>5. CASE /\ domain' = [domain EXCEPT ![call[c].record] = new]
           /\ End(c) \/ Goes(c, "sync", call[c].request, call[c].record, "active")
  BY <1>1, <1>3, <1>4, <1>5, WriteStep
<1> QED
  BY <1>2, <1>4, <1>5 DEF Activate, Throws

LEMMA ReadRecordStep == ASSUME IInv, NEW c \in Calls, ReadRecord(c) PROVE IInv' /\ Final
<1>1. /\ call[c].at = "readRecord" /\ UNCHANGED <<intake, domain, owned, overlaps, mishaps>>
      /\ owned' \in BOOLEAN /\ mishaps' \in 0 .. MaxMishaps
  BY DEF ReadRecord, IInv, TypeInv, TypeOK
<1>2. CASE End(c)
  BY <1>1, <1>2, EndsOnly DEF Final
<1>3. ASSUME NEW r \in Records, CanTransition(domain[r].status, Wanted[c]), Goes(c, "decide", domain[r].source, r, "none")
      PROVE  IInv' /\ Final
  <2>1. /\ domain[r].source \in Intakes /\ r # None /\ KindOf[c] = "staff"
        /\ Intakes' = Intakes /\ Records' = Records
    BY <1>1, DomainAssumption, NothingWritten DEF IInv, TypeInv, TypeOK, ReadsFit, Records
  <2>2. Does(c, "decide", domain[r].source, r, "none")
    BY <1>1, <1>3, <2>1 DEF Does, CallSteps, Early
  <2>3. domain[r].status # "cancelled"
    BY <1>3 DEF CanTransition, Transitions
  <2> QED
    BY <1>1, <2>2, <2>3, ReadsOnly DEF Final
<1> QED
  BY <1>2, <1>3 DEF ReadRecord

LEMMA DecideStep == ASSUME IInv, NEW c \in Calls, Decide(c) PROVE IInv' /\ Final
<1> DEFINE new == [domain[call[c].record] EXCEPT !.status = Wanted[c]]
<1>1. /\ call[c].at = "decide" /\ UNCHANGED <<intake, owned, overlaps>>
      /\ owned' \in BOOLEAN /\ mishaps' \in 0 .. MaxMishaps
  BY MishapsType DEF Decide, Throws, IInv, TypeInv, TypeOK
<1>2. CASE End(c) /\ UNCHANGED domain
  BY <1>1, <1>2, EndsOnly DEF Final
<1>3. call[c].record \in Calls /\ Wanted[c] \in Statuses /\ KindOf[c] = "staff"
  BY <1>1, KindIn DEF IInv, TypeInv, RowsExist, ReadsFit, Records
<1>4. /\ new \in Record /\ new.status = Wanted[c] /\ new.source = domain[call[c].record].source
      /\ [domain EXCEPT ![call[c].record].status = Wanted[c]] = [domain EXCEPT ![call[c].record] = new]
  BY <1>3, StatusRecord DEF IInv
<1> HIDE DEF new
<1>5. CASE /\ domain' = [domain EXCEPT ![call[c].record] = new]
           /\ End(c) \/ Goes(c, "sync", call[c].request, call[c].record, Wanted[c])
  BY <1>1, <1>3, <1>4, <1>5, WriteStep
<1> QED
  BY <1>2, <1>4, <1>5 DEF Decide, Throws

LEMMA SyncIntakeStep == ASSUME IInv, NEW c \in Calls, SyncIntake(c) PROVE IInv' /\ Final
<1>1. /\ call[c].at = "sync" /\ End(c) /\ UNCHANGED <<domain, owned, overlaps>>
      /\ owned' \in BOOLEAN /\ mishaps' \in 0 .. MaxMishaps
  BY MishapsType DEF SyncIntake, IInv, TypeInv, TypeOK
<1>2. CASE UNCHANGED intake
  BY <1>1, <1>2, EndsOnly DEF Final
<1>3. CASE call[c].request # None /\ intake' = [intake EXCEPT ![call[c].request] = ToIntake(call[c].read)]
  <2>1. call[c].request \in Intakes /\ ToIntake(call[c].read) \in IntakeStatuses
    BY <1>3 DEF IInv, TypeInv, RowsExist, ToIntake, IntakeStatuses
  <2>2. /\ intake' \in [Calls -> IntakeStatuses \cup {"none"}]
        /\ Intakes' = Intakes /\ Records' = Records
        /\ \A d \in Calls : intake'[d] # "none" <=> intake[d] # "none"
    BY <1>1, <1>3, <2>1 DEF IInv, TypeInv, TypeOK, Intakes, Records, IntakeStatuses
  <2>3. RowsStay
    BY <1>1, <2>2 DEF RowsStay, IInv, TypeInv, TypeOK
  <2>4. Does(c, "over", None, None, "none")
    BY <1>1, <2>2, EndMoves DEF Does, CallSteps, Early
  <2>5. TypeInv'
    BY <2>3, <2>4, DoesTypeInv DEF IInv
  <2>6. OnceInv'
    BY <1>1, <2>2, <2>3, <2>4, CreatesNothing DEF Fulfils
  <2>7. FinalInv'
    BY <1>1, <2>3, <2>4, WritesFinal
  <2> QED
    BY <1>1, <2>5, <2>6, <2>7 DEF IInv, Final
<1> QED
  BY <1>2, <1>3 DEF SyncIntake

----------------------------------------------------------------------------

LEMMA NextIInv == IInv /\ [Next]_vars => IInv' /\ Final
<1> SUFFICES ASSUME IInv, [Next]_vars PROVE IInv' /\ Final
  OBVIOUS
<1>1. CASE UNCHANGED vars
  <2>1. TypeInv'
    BY <1>1 DEF vars, IInv, TypeInv, TypeOK, RowsExist, ReadsFit, OwnRow, Records, Intakes
  <2>2. OnceInv'
    BY <1>1 DEF vars, IInv, OnceInv, OneFulfil, NoneBefore, FulfilledOnce, Underway
  <2>3. FinalInv'
    BY <1>1 DEF vars, IInv, FinalInv, OverlapsKnown, WritesLive, StaffAlone, Underway
  <2> QED
    BY <1>1, <2>1, <2>2, <2>3 DEF vars, IInv, Final
<1>2. ASSUME NEW c \in Calls, Begin(c) PROVE IInv' /\ Final
  BY <1>2, BeginStep
<1>3. ASSUME NEW c \in Calls, Step(c) PROVE IInv' /\ Final
  BY <1>3, FindRequestStep, MakeRequestStep, ReadIntakeStep, FindRecordStep, MakeRecordStep, ReconcileStep,
     RegisterStep, ActivateStep, ReadRecordStep, DecideStep, SyncIntakeStep DEF Step
<1> QED
  BY <1>1, <1>2, <1>3 DEF Next

\* Rows and calls are well formed, and the source of a record exists
\* (customerDomains.js, domainPurchaseFulfilment.js).
THEOREM TypeCorrect == Spec => []TypeOK
<1>1. IInv => TypeOK
  BY DEF IInv, TypeInv
<1> QED
  BY <1>1, InitIInv, NextIInv, PTL DEF Spec

\* Any number of activations of a paid invoice makes one purchase request and one
\* record of the name between them (fulfilPurchasedDomains under the account lock).
THEOREM FulfilmentCorrect == Spec => []FulfilledOnce
<1>1. IInv => FulfilledOnce
  BY DEF IInv, OnceInv
<1> QED
  BY <1>1, InitIInv, NextIInv, PTL DEF Spec

\* A cancelled domain stays cancelled while no staff decision overlaps
\* another call (DOMAIN_STATUS_TRANSITIONS).
THEOREM CancelledStays == Spec => CancelledFinal
<1>1. IInv /\ [Next]_vars => [Final]_vars
  BY NextIInv
<1> QED
  BY <1>1, InitIInv, NextIInv, PTL DEF Spec, CancelledFinal, Final
=============================================================================
