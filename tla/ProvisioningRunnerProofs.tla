---------------------- MODULE ProvisioningRunnerProofs ----------------------
(* What holds of ProvisioningRunner for every value of its constants.      *)
EXTENDS ProvisioningRunner, TLAPS

\* The steps of a pass that have a job in hand.
AtJobPc == {"place", "escalate", "claim", "write"} \cup InFlightPc

\* A tick past TakeNext has a job in hand.
HasJob == \A t \in Ticks : tick[t].pc \in AtJobPc => tick[t].job \in Jobs

TypeInv == TypeOK /\ HasJob

LEMMA InitTypeInv == Init => TypeInv
<1> SUFFICES ASSUME Init PROVE TypeInv
  OBVIOUS
<1> USE ConstantsAssumption
<1>1. PICK s \in Scenarios :
        /\ job = [j \in Jobs |-> IF j \in s.jobs THEN NewRow ELSE NoRow]
        /\ tick = [t \in Ticks |-> IF t \in s.ticks THEN IdleTick ELSE OffTick]
        /\ mishaps = MaxMishaps - s.mishaps
  BY DEF Init
<1>2. NewRow \in Row /\ NoRow \in Row
  BY DEF Row, NewRow, NoRow, Status
<1>3. job \in [Jobs -> Row]
  BY <1>1, <1>2
<1>4. IdleTick \in Pass /\ OffTick \in Pass /\ IdleTick.pc = "idle" /\ OffTick.pc = "off"
  BY DEF Pass, IdleTick, OffTick
<1>5. tick \in [Ticks -> Pass] /\ HasJob
  BY <1>1, <1>4 DEF HasJob, AtJobPc, InFlightPc
<1>6. mishaps \in Nat
  BY <1>1
<1> QED
  BY <1>3, <1>5, <1>6 DEF Init, TypeInv, TypeOK

\* What a PUT of a well-typed row leaves of the rows and the mishap counter.
LEMMA PutType ==
  ASSUME TypeOK, NEW j \in Jobs, NEW row \in Row, NEW o \in Outcomes, Put(j, row, o)
  PROVE  job' \in [Jobs -> Row] /\ mishaps' \in Nat
  BY DEF TypeOK, Put, Fail, Row

\* Goto and Done keep the passes well typed.
LEMMA GotoType ==
  ASSUME TypeInv, NEW t \in Ticks, NEW pc, Goto(t, pc),
         \/ pc \in {"idle", "reclaim", "fetch", "next"}
         \/ pc \in AtJobPc /\ tick[t].job \in Jobs
  PROVE  tick' \in [Ticks -> Pass] /\ HasJob'
  BY DEF TypeInv, TypeOK, Goto, Pass, HasJob, AtJobPc, InFlightPc

LEMMA ListType ==
  ASSUME TypeInv, NEW t \in Ticks, NEW S \in SUBSET Jobs, NEW pc \in {"reclaim", "next"}, List(t, S, pc)
  PROVE  tick' \in [Ticks -> Pass] /\ HasJob'
<1>1. {[job |-> j, attempts |-> job[j].attempts] : j \in S} \in SUBSET Snapshot
  BY DEF TypeInv, TypeOK, Row, Snapshot
<1> QED
  BY <1>1 DEF List, TypeInv, TypeOK, Pass, HasJob, AtJobPc, InFlightPc

LEMMA DoneType ==
  ASSUME TypeInv, NEW t \in Ticks, Done(t)
  PROVE  tick' \in [Ticks -> Pass] /\ HasJob'
  BY DEF TypeInv, TypeOK, Done, Pass, HasJob, AtJobPc, InFlightPc

\* Changing one field of a row leaves a row.
LEMMA RowPatch ==
  ASSUME NEW r \in Row
  PROVE  /\ \A x \in Status : [r EXCEPT !.status = x] \in Row
         /\ \A x \in (Processes \X Nat) \cup {None} : [r EXCEPT !.runner = x] \in Row
         /\ \A x \in Nat : [r EXCEPT !.attempts = x] \in Row
         /\ \A x \in BOOLEAN : [r EXCEPT !.backoff = x] \in Row /\ [r EXCEPT !.stale = x] \in Row
  BY DEF Row

LEMMA TickType ==
  ASSUME TypeInv, NEW t \in Ticks, TickNext(t)
  PROVE  TypeInv'
<1> USE ConstantsAssumption DEF TypeInv
<1>1. CASE ListStale(t)
  <2>1. CASE Goto(t, "fetch")
    BY <1>1, <2>1, GotoType DEF ListStale, TypeOK, Fail
  <2>2. CASE List(t, {j \in Jobs : IsStale(j)}, "reclaim")
    BY <1>1, <2>2, ListType DEF ListStale, TypeOK, Fail
  <2> QED
    BY <1>1, <2>1, <2>2 DEF ListStale
<1>2. CASE ReclaimOne(t)
  <2>1. PICK s \in tick[t].todo, o \in Outcomes :
          /\ Put(s.job, Reclaimed(s), o)
          /\ tick' = [tick EXCEPT ![t].todo = @ \ {s}]
    BY <1>2 DEF ReclaimOne
  <2>2. s.job \in Jobs /\ s.attempts \in Nat
    BY DEF TypeOK, Pass, Snapshot
  <2>3. Reclaimed(s) \in Row
    <3>1. job[s.job] \in Row /\ s.attempts + 1 \in Nat /\ {"queued", "needs_human"} \subseteq Status
      BY <2>2 DEF TypeOK, Status
    <3>2. [[job[s.job] EXCEPT !.status = "needs_human"] EXCEPT !.attempts = s.attempts + 1] \in Row
      BY <3>1, RowPatch
    <3>3. [[job[s.job] EXCEPT !.status = "queued"] EXCEPT !.attempts = s.attempts + 1] \in Row
      BY <3>1, RowPatch
    <3>4. [[[[job[s.job] EXCEPT !.status = "queued"] EXCEPT !.attempts = s.attempts + 1]
              EXCEPT !.backoff = FALSE] EXCEPT !.runner = None] \in Row
      BY <3>3, RowPatch
    <3> QED
      BY <3>2, <3>4 DEF Reclaimed
  <2>4. job' \in [Jobs -> Row] /\ mishaps' \in Nat
    BY <2>1, <2>2, <2>3, PutType
  <2> QED
    <3>1. tick' \in [Ticks -> Pass] /\ HasJob'
      BY <2>1 DEF TypeOK, Pass, HasJob
    <3> QED
      BY <1>2, <2>4, <3>1 DEF ReclaimOne, TypeOK
<1>3. CASE ReclaimDone(t)
  BY <1>3, GotoType DEF ReclaimDone, TypeOK
<1>4. CASE FetchClaimable(t)
  <2>1. CASE Goto(t, "idle")
    BY <1>4, <2>1, GotoType DEF FetchClaimable, TypeOK, Fail
  <2>2. CASE List(t, {j \in Jobs : IsClaimable(j)}, "next")
    BY <1>4, <2>2, ListType DEF FetchClaimable, TypeOK, Fail
  <2> QED
    BY <1>4, <2>1, <2>2 DEF FetchClaimable
<1>5. CASE TakeNext(t)
  <2>1. PICK s \in tick[t].todo :
          tick' = [tick EXCEPT ![t] = [pc |-> "place", todo |-> @.todo \ {s},
                                       job |-> s.job, attempts |-> s.attempts]]
    BY <1>5 DEF TakeNext
  <2>2. s.job \in Jobs /\ s.attempts \in Nat /\ tick[t].todo \ {s} \in SUBSET Snapshot
    BY DEF TypeOK, Pass, Snapshot
  <2>3. tick' \in [Ticks -> Pass] /\ HasJob'
    BY <2>1, <2>2 DEF TypeOK, Pass, HasJob
  <2> QED
    BY <1>5, <2>3 DEF TakeNext, TypeOK
<1>6. CASE EndPass(t)
  BY <1>6, GotoType DEF EndPass, TypeOK
<1>7. CASE Place(t)
  BY <1>7, GotoType, DoneType DEF Place, TypeOK, HasJob, AtJobPc, Fail
<1>8. CASE Escalate(t)
  <2>1. tick[t].job \in Jobs
    BY <1>8 DEF Escalate, HasJob, AtJobPc
  <2>2. [job[tick[t].job] EXCEPT !.status = "needs_human"] \in Row
    BY <2>1, RowPatch DEF TypeOK, Status
  <2>3. job' \in [Jobs -> Row] /\ mishaps' \in Nat
    BY <1>8, <2>1, <2>2, PutType DEF Escalate
  <2> QED
    BY <1>8, <2>3, DoneType DEF Escalate, TypeOK
<1>9. CASE ClaimRead(t)
  BY <1>9, GotoType, DoneType DEF ClaimRead, TypeOK, HasJob, Fail, AtJobPc
<1>10. CASE ClaimWrite(t)
  <2> DEFINE j == tick[t].job
             claimed == [job[j] EXCEPT !.status = "running", !.runner = RunnerId(t), !.stale = FALSE]
  <2>1. j \in Jobs
    BY <1>10 DEF ClaimWrite, HasJob, AtJobPc
  <2>2. claimed \in Row
    <3>1. job[j] \in Row /\ "running" \in Status /\ RunnerId(t) \in Processes \X Nat
      BY <2>1 DEF TypeOK, Status, RunnerId
    <3>2. [[job[j] EXCEPT !.status = "running"] EXCEPT !.runner = RunnerId(t)] \in Row
      BY <3>1, RowPatch
    <3> QED
      BY <3>2, RowPatch
  <2>3. PICK o \in Outcomes :
          /\ Put(j, claimed, o)
          /\ claims' = IF o = "dropped" THEN claims ELSE [claims EXCEPT ![j] = @ + 1]
          /\ IF o = "ok" THEN Goto(t, "verify") ELSE Done(t)
    BY <1>10 DEF ClaimWrite
  <2> HIDE DEF j, claimed
  <2>4. job' \in [Jobs -> Row] /\ mishaps' \in Nat
    BY <2>1, <2>2, <2>3, PutType
  <2>5. claims' \in [Jobs -> Nat]
    BY <2>1, <2>3 DEF TypeOK
  <2> QED
    BY <1>10, <2>1, <2>3, <2>4, <2>5, GotoType, DoneType DEF ClaimWrite, TypeOK, AtJobPc, InFlightPc, j
<1>11. CASE ClaimVerify(t)
  BY <1>11, GotoType, DoneType DEF ClaimVerify, TypeOK, HasJob, Fail, AtJobPc, InFlightPc
<1>12. CASE Build(t)
  BY <1>12, GotoType DEF Build, TypeOK, HasJob, AtJobPc, InFlightPc
<1>13. CASE Activate(t)
  <2>1. tick[t].job \in Jobs
    BY <1>13 DEF Activate, HasJob, AtJobPc, InFlightPc
  <2>2. [job[tick[t].job] EXCEPT !.status = "active"] \in Row
    BY <2>1, RowPatch DEF TypeOK, Status
  <2>3. job' \in [Jobs -> Row] /\ mishaps' \in Nat
    BY <1>13, <2>1, <2>2, PutType DEF Activate
  <2> QED
    BY <1>13, <2>1, <2>3, GotoType, DoneType DEF Activate, TypeOK, AtJobPc, InFlightPc
<1>14. CASE HandleFailure(t)
  <2> DEFINE j == tick[t].job
             n == tick[t].attempts + 1
             r == IF tick[t].pc = "giveUp" \/ n >= MaxAttempts
                  THEN [job[j] EXCEPT !.status = "needs_human", !.attempts = n]
                  ELSE [job[j] EXCEPT !.status = "queued", !.attempts = n, !.backoff = TRUE]
  <2>1. j \in Jobs
    BY <1>14 DEF HandleFailure, HasJob, AtJobPc, InFlightPc
  <2>2. r \in Row
    <3>1. job[j] \in Row /\ n \in Nat /\ {"queued", "needs_human"} \subseteq Status
      BY <2>1 DEF TypeOK, Status, Pass
    <3> HIDE DEF j, n
    <3>2. [[job[j] EXCEPT !.status = "needs_human"] EXCEPT !.attempts = n] \in Row
      BY <3>1, RowPatch
    <3>3. [[job[j] EXCEPT !.status = "queued"] EXCEPT !.attempts = n] \in Row
      BY <3>1, RowPatch
    <3>4. [[[job[j] EXCEPT !.status = "queued"] EXCEPT !.attempts = n] EXCEPT !.backoff = TRUE] \in Row
      BY <3>3, RowPatch
    <3> QED
      BY <3>2, <3>4
  <2>3. \E o \in Outcomes : Put(j, r, o)
    BY <1>14 DEF HandleFailure
  <2> HIDE DEF j, n, r
  <2>4. job' \in [Jobs -> Row] /\ mishaps' \in Nat
    BY <2>1, <2>2, <2>3, PutType
  <2> QED
    BY <1>14, <2>4, DoneType DEF HandleFailure, TypeOK
<1> QED
  BY <1>1, <1>2, <1>3, <1>4, <1>5, <1>6, <1>7, <1>8, <1>9, <1>10, <1>11, <1>12, <1>13, <1>14
  DEF TickNext

LEMMA NextTypeInv == TypeInv /\ [Next]_vars => TypeInv'
<1> SUFFICES ASSUME TypeInv, [Next]_vars PROVE TypeInv'
  OBVIOUS
<1> USE ConstantsAssumption DEF TypeInv
<1>1. ASSUME NEW t \in Ticks, TickNext(t) PROVE TypeInv'
  BY <1>1, TickType
<1>2. ASSUME NEW p \in Processes, Crash(p) PROVE TypeInv'
  <2>1. IdleTick \in Pass
    BY DEF IdleTick, Pass
  <2>2. tick' \in [Ticks -> Pass] /\ HasJob'
    BY <1>2, <2>1 DEF Crash, IdleTick, TypeOK, HasJob, AtJobPc, InFlightPc
  <2> QED
    BY <1>2, <2>2 DEF Crash, Fail, TypeOK
<1>3. ASSUME NEW j \in Jobs, BackoffElapses(j) PROVE TypeInv'
  BY <1>3, ZenonT(40) DEF BackoffElapses, TypeOK, Row, HasJob
<1>4. ASSUME NEW j \in Jobs, GrowsStale(j) PROVE TypeInv'
  BY <1>4, ZenonT(40) DEF GrowsStale, TypeOK, Row, HasJob
<1>5. ASSUME NEW j \in Jobs, AdminRetry(j) PROVE TypeInv'
  <2>1. [[[job[j] EXCEPT !.status = "queued"] EXCEPT !.attempts = 0] EXCEPT !.backoff = FALSE] \in Row
    BY RowPatch DEF TypeOK, Status
  <2>2. job' \in [Jobs -> Row]
    BY <1>5, <2>1 DEF AdminRetry, TypeOK
  <2> QED
    BY <1>5, <2>2 DEF AdminRetry, TypeOK, HasJob
<1>6. ASSUME NEW j \in Jobs, AdminResolve(j) PROVE TypeInv'
  <2>1. [job[j] EXCEPT !.status = "active"] \in Row
    BY RowPatch DEF TypeOK, Status
  <2>2. job' \in [Jobs -> Row] /\ admins' \in Nat
    BY <1>6, <2>1 DEF AdminResolve, TypeOK
  <2> QED
    BY <1>6, <2>2 DEF AdminResolve, TypeOK, HasJob
<1>7. CASE UNCHANGED vars
  BY <1>7 DEF vars, TypeOK, HasJob
<1> QED
  BY <1>1, <1>2, <1>3, <1>4, <1>5, <1>6, <1>7 DEF Next

\* Every state of the runner is well typed, and a pass beyond TakeNext has a
\* job in hand.
THEOREM TypeCorrect == Spec => []TypeOK
<1>1. Init => TypeInv
  BY InitTypeInv
<1>2. TypeInv /\ [Next]_vars => TypeInv'
  BY NextTypeInv
<1>3. TypeInv => TypeOK
  BY DEF TypeInv
<1> QED
  BY <1>1, <1>2, <1>3, PTL DEF Spec

-----------------------------------------------------------------------------

\* A PUT leaves each row as it was, or as the row that was put.
LEMMA PutRows ==
  ASSUME TypeOK, NEW j \in Jobs, NEW row, NEW o \in Outcomes, Put(j, row, o), NEW i \in Jobs
  PROVE  job'[i] = job[i] \/ (i = j /\ job'[i] = row)
  BY DEF Put, TypeOK

\* Which ticks a behaviour has is decided when it begins.
LEMMA NextAlone ==
  ASSUME TypeInv, Alone', [Next]_vars
  PROVE  Alone
<1>1. ASSUME NEW t \in Ticks, TickNext(t) PROVE \A u \in Ticks : tick[u].pc = "off" <=> tick'[u].pc = "off"
  <2>1. tick[t].pc # "off"
    BY <1>1 DEF TickNext, ListStale, ReclaimOne, ReclaimDone, FetchClaimable, TakeNext,
       EndPass, Place, Escalate, ClaimRead, ClaimWrite, ClaimVerify, Build, Activate, HandleFailure
  <2>2. tick \in [Ticks -> Pass]
    BY DEF TypeInv, TypeOK
  <2>3. SUFFICES (\A u \in Ticks : u # t => tick'[u].pc = tick[u].pc) /\ tick'[t].pc # "off"
    BY <2>1
  <2>4. CASE ListStale(t) \/ FetchClaimable(t)
    BY <2>2, <2>4 DEF ListStale, FetchClaimable, List, Goto, Pass
  <2>5. CASE ReclaimOne(t)
    BY <2>1, <2>2, <2>5 DEF ReclaimOne, Pass
  <2>6. CASE ReclaimDone(t) \/ EndPass(t) \/ Build(t)
    BY <2>2, <2>6 DEF ReclaimDone, EndPass, Build, Goto, Pass
  <2>7. CASE TakeNext(t) \/ Escalate(t) \/ HandleFailure(t)
    BY <2>2, <2>7 DEF TakeNext, Escalate, HandleFailure, Done, Pass
  <2>8. CASE Place(t) \/ ClaimRead(t)
    BY <2>2, <2>8 DEF Place, ClaimRead, Goto, Done, Pass
  <2>9. CASE ClaimWrite(t) \/ ClaimVerify(t) \/ Activate(t)
    BY <2>2, <2>9 DEF ClaimWrite, ClaimVerify, Activate, Goto, Done, Pass
  <2> QED
    BY <1>1, <2>4, <2>5, <2>6, <2>7, <2>8, <2>9 DEF TickNext
<1>2. ASSUME NEW p \in Processes, Crash(p) PROVE \A u \in Ticks : tick[u].pc = "off" <=> tick'[u].pc = "off"
  BY <1>2 DEF Crash, IdleTick
<1>3. ASSUME NEW j \in Jobs, BackoffElapses(j) \/ GrowsStale(j) \/ AdminRetry(j) \/ AdminResolve(j) PROVE tick' = tick
  BY <1>3 DEF BackoffElapses, GrowsStale, AdminRetry, AdminResolve
<1>4. UNCHANGED vars => tick' = tick
  BY DEF vars
<1> QED
  BY <1>1, <1>2, <1>3, <1>4 DEF Next, Alone

\* One pass at a time: each of its steps keeps every claim charged.
LEMMA TickCharged ==
  ASSUME TypeInv, Charged, Alone, NEW t \in Ticks, TickNext(t)
  PROVE  Charged'
<1> USE ConstantsAssumption DEF TypeInv
<1>a. tick[t].pc # "off"
  BY DEF TickNext, ListStale, ReclaimOne, ReclaimDone, FetchClaimable, TakeNext,
     EndPass, Place, Escalate, ClaimRead, ClaimWrite, ClaimVerify, Build, Activate, HandleFailure, InFlightPc
<1>b. \A u \in Ticks : u # t => tick'[u] = tick[u] /\ tick[u].pc = "off"
  <2>1. \A u \in Ticks : u # t => tick[u].pc = "off"
    BY <1>a DEF Alone
  <2>2. \A u \in Ticks : u # t => tick'[u] = tick[u]
    BY DEF TypeOK, TickNext, ListStale, ReclaimOne, ReclaimDone, FetchClaimable, TakeNext, EndPass, Place, Escalate,
       ClaimRead, ClaimWrite, ClaimVerify, Build, Activate, HandleFailure, List, Goto, Done
  <2> QED
    BY <2>1, <2>2
<1>c. \A u \in Ticks : u # t => PassCharged(u)'
  BY <1>b DEF PassCharged, InFlightPc
<1> SUFFICES (\A i \in Jobs : RowCharged(i)') /\ PassCharged(t)'
  BY <1>c DEF Charged
<1>0. PassCharged(t) /\ \A i \in Jobs : RowCharged(i)
  BY DEF Charged
<1>1. CASE ListStale(t)
  <2>1. \A i \in Jobs : RowCharged(i)'
    BY <1>0, <1>1 DEF ListStale, RowCharged
  <2>2. CASE Goto(t, "fetch")
    BY <2>1, <2>2 DEF Goto, PassCharged, TypeOK, Pass, InFlightPc
  <2>3. CASE List(t, {j \in Jobs : IsStale(j)}, "reclaim")
    <3>1. \A s \in tick'[t].todo : s.job \in Jobs /\ IsStale(s.job) /\ s.attempts = job[s.job].attempts
      BY <2>3 DEF List, TypeOK
    <3>2. tick'[t].pc = "reclaim"
      BY <2>3 DEF List, TypeOK
    <3> QED
      BY <1>0, <1>1, <2>1, <3>1, <3>2 DEF ListStale, IsStale, RowCharged, ReadRunning, PassCharged, InFlightPc
  <2> QED
    BY <1>1, <2>2, <2>3 DEF ListStale
<1>2. CASE ReclaimOne(t)
  <2>1. PICK s \in tick[t].todo, o \in Outcomes :
          /\ Put(s.job, Reclaimed(s), o)
          /\ tick' = [tick EXCEPT ![t].todo = @ \ {s}]
    BY <1>2 DEF ReclaimOne
  <2>2. s.job \in Jobs /\ s.attempts \in Nat /\ ReadRunning(s.job, s.attempts)
    BY <1>0, <1>2 DEF ReclaimOne, PassCharged, TypeOK, Pass, Snapshot
  <2>3. ASSUME NEW i \in Jobs PROVE RowCharged(i)'
    <3>1. job'[i] = job[i] \/ (i = s.job /\ job'[i] = Reclaimed(s))
      BY <2>1, <2>2, PutRows
    <3>2. CASE job'[i] = job[i]
      BY <1>0, <1>2, <3>2 DEF ReclaimOne, RowCharged
    <3>3. CASE i = s.job /\ job'[i] = Reclaimed(s)
      <4>1. claims'[i] <= s.attempts + 1 /\ claims'[i] <= MaxAttempts /\ claims[i] \in Nat
        BY <1>0, <1>2, <2>2, <3>3 DEF ReclaimOne, ReadRunning, RowCharged, TypeOK
      <4>2. job[i] \in Row
        BY DEF TypeOK
      <4> QED
        BY <2>2, <3>3, <4>1, <4>2 DEF Reclaimed, RowCharged, Row
    <3> QED
      BY <3>1, <3>2, <3>3
  <2>4. PassCharged(t)'
    BY <1>0, <1>2, <2>1 DEF ReclaimOne, PassCharged, ReadRunning, TypeOK, Pass, InFlightPc
  <2> QED
    BY <2>3, <2>4
<1>3. CASE ReclaimDone(t)
  BY <1>0, <1>3 DEF ReclaimDone, Goto, RowCharged, PassCharged, TypeOK, Pass, InFlightPc
<1>4. CASE FetchClaimable(t)
  <2>1. \A i \in Jobs : RowCharged(i)'
    BY <1>0, <1>4 DEF FetchClaimable, RowCharged
  <2>2. CASE Goto(t, "idle")
    BY <2>1, <2>2 DEF Goto, PassCharged, TypeOK, Pass, InFlightPc
  <2>3. CASE List(t, {j \in Jobs : IsClaimable(j)}, "next")
    <3>1. \A s \in tick'[t].todo :
            /\ s.job \in Jobs /\ IsClaimable(s.job)
            /\ s = [job |-> s.job, attempts |-> job[s.job].attempts]
      BY <2>3 DEF List, TypeOK
    <3>2. tick'[t].pc = "next" /\ tick'[t].job = None
      BY <2>3 DEF List, TypeOK
    <3>3. \A s \in tick'[t].todo : ReadQueued(s.job, s.attempts)'
      BY <1>0, <1>4, <3>1 DEF FetchClaimable, IsClaimable, RowCharged, ReadQueued, TypeOK, Row
    <3> QED
      BY <2>1, <3>1, <3>2, <3>3 DEF PassCharged, InFlightPc
  <2> QED
    BY <1>4, <2>2, <2>3 DEF FetchClaimable
<1>5. CASE TakeNext(t)
  BY <1>0, <1>5 DEF TakeNext, RowCharged, PassCharged, ReadQueued, TypeOK, Pass, Snapshot, InFlightPc
<1>6. CASE EndPass(t)
  BY <1>0, <1>6 DEF EndPass, Goto, RowCharged, PassCharged, TypeOK, Pass, InFlightPc
<1>7. CASE Place(t)
  BY <1>0, <1>7 DEF Place, Goto, Done, RowCharged, PassCharged, ReadQueued, TypeOK, Pass, Snapshot, InFlightPc
<1>8. CASE Escalate(t)
  <2> DEFINE j == tick[t].job
             r == [job[j] EXCEPT !.status = "needs_human"]
  <2>1. j \in Jobs /\ \E o \in Outcomes : Put(j, r, o)
    BY <1>8 DEF Escalate, HasJob, AtJobPc
  <2>2. r.status = "needs_human"
    BY <2>1 DEF TypeOK, Row
  <2>3. \A i \in Jobs : job'[i] = job[i] \/ (i = j /\ job'[i] = r)
    <3> HIDE DEF j, r
    <3> QED  BY <2>1, PutRows
  <2>4. \A i \in Jobs : RowCharged(i)'
    BY <1>0, <1>8, <2>2, <2>3 DEF Escalate, RowCharged
  <2>5. PassCharged(t)'
    BY <1>0, <1>8, <2>3 DEF Escalate, Done, PassCharged, ReadQueued, TypeOK, Pass, Snapshot, InFlightPc
  <2> QED
    BY <2>4, <2>5
<1>9. CASE ClaimRead(t)
  BY <1>0, <1>9 DEF ClaimRead, Goto, Done, RowCharged, PassCharged, ReadQueued, TypeOK, Pass, Snapshot, InFlightPc
<1>10. CASE ClaimWrite(t)
  <2> DEFINE j == tick[t].job
             claimed == [job[j] EXCEPT !.status = "running", !.runner = RunnerId(t), !.stale = FALSE]
  <2>1. j \in Jobs /\ ReadQueued(j, tick[t].attempts) /\ tick[t].attempts \in Nat
    BY <1>0, <1>10 DEF ClaimWrite, HasJob, AtJobPc, PassCharged, TypeOK, Pass
  <2>2. PICK o \in Outcomes :
          /\ Put(j, claimed, o)
          /\ claims' = IF o = "dropped" THEN claims ELSE [claims EXCEPT ![j] = @ + 1]
          /\ IF o = "ok" THEN Goto(t, "verify") ELSE Done(t)
    BY <1>10 DEF ClaimWrite
  <2>3. claimed.status = "running" /\ claimed.attempts = job[j].attempts /\ job[j].attempts \in Nat /\ claims[j] \in Nat
    BY <2>1 DEF TypeOK, Row
  <2>4. job' = IF o = "dropped" THEN job ELSE [job EXCEPT ![j] = claimed]
    BY <2>2 DEF Put
  <2>5. ASSUME NEW i \in Jobs PROVE RowCharged(i)'
    <3> HIDE DEF claimed
    <3>1. CASE o = "dropped" \/ i # j
      BY <1>0, <2>2, <2>4, <3>1 DEF RowCharged, TypeOK
    <3>2. CASE o # "dropped" /\ i = j
      <4>1. job'[i] = claimed /\ claims'[i] = claims[j] + 1
        BY <2>1, <2>2, <2>4, <3>2 DEF TypeOK
      <4> QED
        BY <2>1, <2>3, <3>2, <4>1 DEF RowCharged, ReadQueued
    <3> QED
      BY <3>1, <3>2
  <2>6. \A i \in Jobs : i # j => job'[i] = job[i] /\ claims'[i] = claims[i]
    <3> HIDE DEF claimed
    <3> QED  BY <2>2, <2>4 DEF TypeOK
  <2>7. claims'[j] <= claims[j] + 1
    BY <2>1, <2>2, <2>3 DEF TypeOK
  <2>8. \A s \in tick[t].todo : s.job \in Jobs /\ s.job # j /\ ReadQueued(s.job, s.attempts)
    BY <1>0, <1>10 DEF ClaimWrite, PassCharged, TypeOK, Pass, Snapshot
  <2>9. \A s \in tick[t].todo : ReadQueued(s.job, s.attempts)'
    BY <2>6, <2>8 DEF ReadQueued
  <2>10. claims'[j] <= tick[t].attempts + 1 /\ tick[t].attempts < MaxAttempts
    <3>1. claims'[j] \in Nat
      BY <2>1, <2>2, <2>3 DEF TypeOK
    <3> QED
      BY <2>1, <2>3, <2>7, <3>1 DEF ReadQueued
  <2>11. PassCharged(t)'
    <3> HIDE DEF claimed
    <3>1. CASE o = "ok"
      <4>1. tick'[t] = [pc |-> "verify", todo |-> tick[t].todo, job |-> j, attempts |-> tick[t].attempts]
        BY <2>2, <3>1 DEF Goto, TypeOK, Pass
      <4>2. ReadRunning(tick[t].job, tick[t].attempts)'
        BY <2>10, <4>1 DEF ReadRunning
      <4> HIDE DEF j
      <4> QED
        BY <1>0, <1>10, <2>8, <2>9, <4>1, <4>2 DEF ClaimWrite, PassCharged, InFlightPc
    <3>2. CASE o # "ok"
      <4>1. tick'[t] = [pc |-> "next", todo |-> tick[t].todo, job |-> None, attempts |-> 0]
        BY <2>2, <3>2 DEF Done, TypeOK, Pass
      <4> QED
        BY <1>0, <1>10, <2>8, <2>9, <4>1 DEF ClaimWrite, PassCharged, InFlightPc
    <3> QED
      BY <3>1, <3>2
  <2> QED
    BY <2>5, <2>11
<1>11. CASE ClaimVerify(t)
  BY <1>0, <1>11 DEF ClaimVerify, Goto, Done, RowCharged, PassCharged, ReadQueued, ReadRunning, TypeOK, Pass, Snapshot, InFlightPc
<1>12. CASE Build(t)
  BY <1>0, <1>12 DEF Build, Goto, RowCharged, PassCharged, ReadQueued, ReadRunning, TypeOK, Pass, Snapshot, InFlightPc
<1>13. CASE Activate(t)
  <2> DEFINE j == tick[t].job
             r == [job[j] EXCEPT !.status = "active"]
  <2>1. PICK o \in Outcomes : Put(j, r, o) /\ IF o = "ok" THEN Done(t) ELSE Goto(t, "retry")
    BY <1>13 DEF Activate
  <2>2. j \in Jobs /\ r.status = "active"
    BY <1>13 DEF Activate, HasJob, AtJobPc, InFlightPc, TypeOK, Row
  <2>3. \A i \in Jobs : job'[i] = job[i] \/ (i = j /\ job'[i] = r)
    <3> HIDE DEF j, r
    <3> QED  BY <2>1, <2>2, PutRows
  <2>4. \A i \in Jobs : RowCharged(i)'
    BY <1>0, <1>13, <2>2, <2>3 DEF Activate, RowCharged
  <2>5. PassCharged(t)'
    BY <1>0, <1>13, <2>1, <2>3 DEF Activate, Done, Goto, PassCharged, ReadQueued, ReadRunning, TypeOK, Pass, Snapshot, InFlightPc
  <2> QED
    BY <2>4, <2>5
<1>14. CASE HandleFailure(t)
  <2> DEFINE j == tick[t].job
             n == tick[t].attempts + 1
             r == IF tick[t].pc = "giveUp" \/ n >= MaxAttempts
                  THEN [job[j] EXCEPT !.status = "needs_human", !.attempts = n]
                  ELSE [job[j] EXCEPT !.status = "queued", !.attempts = n, !.backoff = TRUE]
  <2>1. j \in Jobs /\ n \in Nat /\ claims[j] \in Nat /\ ReadRunning(j, tick[t].attempts)
    BY <1>0, <1>14 DEF HandleFailure, HasJob, AtJobPc, InFlightPc, PassCharged, TypeOK, Pass
  <2>2. r.attempts = n /\ r.status \in {"queued", "needs_human"} /\ (r.status = "queued" => n < MaxAttempts)
    BY <2>1 DEF TypeOK, Row
  <2>3. \E o \in Outcomes : Put(j, r, o)
    BY <1>14 DEF HandleFailure
  <2>4. \A i \in Jobs : job'[i] = job[i] \/ (i = j /\ job'[i] = r)
    <3> HIDE DEF j, n, r
    <3> QED  BY <2>1, <2>3, PutRows
  <2>5. claims[j] <= n
    BY <2>1 DEF ReadRunning
  <2>6. \A i \in Jobs : RowCharged(i)'
    <3> HIDE DEF r
    <3> QED  BY <1>0, <1>14, <2>1, <2>2, <2>4, <2>5 DEF HandleFailure, RowCharged
  <2>7. PassCharged(t)'
    <3> HIDE DEF r
    <3> QED
      BY <1>0, <1>14, <2>4 DEF HandleFailure, Done, PassCharged, ReadQueued, TypeOK, Pass, Snapshot, InFlightPc
  <2> QED
    BY <2>6, <2>7
<1> QED
  BY <1>1, <1>2, <1>3, <1>4, <1>5, <1>6, <1>7, <1>8, <1>9, <1>10, <1>11, <1>12, <1>13, <1>14
  DEF TickNext

LEMMA NextCharged == TypeInv /\ Charged /\ Alone /\ [Next]_vars => Charged'
<1> SUFFICES ASSUME TypeInv, Charged, Alone, [Next]_vars PROVE Charged'
  OBVIOUS
<1> USE ConstantsAssumption DEF TypeInv
<1>1. ASSUME NEW t \in Ticks, TickNext(t) PROVE Charged'
  BY <1>1, TickCharged
<1>2. ASSUME NEW p \in Processes, Crash(p) PROVE Charged'
  <2>1. \A i \in Jobs : RowCharged(i)'
    BY <1>2 DEF Crash, Charged, RowCharged
  <2>2. \A t \in Ticks : PassCharged(t)'
    BY <1>2 DEF Crash, Charged, PassCharged, ReadQueued, ReadRunning, IdleTick, TypeOK, Pass, InFlightPc
  <2> QED
    BY <2>1, <2>2 DEF Charged
<1>3. ASSUME NEW j \in Jobs, BackoffElapses(j) \/ GrowsStale(j) \/ AdminResolve(j) PROVE Charged'
  <2>1. /\ tick' = tick /\ claims' = claims
        /\ \A i \in Jobs : /\ job'[i].attempts = job[i].attempts
                           /\ job'[i].status \in {job[i].status, "active"}
    BY <1>3 DEF BackoffElapses, GrowsStale, AdminResolve, TypeOK, Row
  <2>2. \A i \in Jobs : RowCharged(i)'
    BY <2>1 DEF Charged, RowCharged
  <2>3. \A t \in Ticks : PassCharged(t)'
    BY <2>1 DEF Charged, PassCharged, ReadQueued, ReadRunning, TypeOK, Pass, Snapshot, HasJob, AtJobPc
  <2> QED
    BY <2>2, <2>3 DEF Charged
<1>4. ASSUME NEW j \in Jobs, AdminRetry(j) PROVE Charged'
  <2>1. /\ tick' = tick
        /\ job'[j].status = "queued" /\ job'[j].attempts = 0 /\ claims'[j] = 0
        /\ \A i \in Jobs : i # j => job'[i] = job[i] /\ claims'[i] = claims[i]
    BY <1>4 DEF AdminRetry, TypeOK, Row
  <2>2. \A i \in Jobs : RowCharged(i)'
    BY <2>1 DEF Charged, RowCharged
  <2>3. ASSUME NEW i \in Jobs, NEW n \in Nat
        PROVE  (ReadQueued(i, n) => ReadQueued(i, n)') /\ (ReadRunning(i, n) => ReadRunning(i, n)')
    BY <2>1 DEF ReadQueued, ReadRunning
  <2>4. \A t \in Ticks : PassCharged(t)'
    <3> SUFFICES ASSUME NEW t \in Ticks PROVE PassCharged(t)'
      OBVIOUS
    <3>1. PassCharged(t) /\ tick'[t] = tick[t] /\ tick[t].attempts \in Nat
      BY <2>1 DEF Charged, TypeOK, Pass
    <3>2. \A s \in tick[t].todo : s.job \in Jobs /\ s.attempts \in Nat
      BY DEF TypeOK, Pass, Snapshot
    <3>3. \A s \in tick[t].todo : /\ ReadQueued(s.job, s.attempts) => ReadQueued(s.job, s.attempts)'
                                  /\ ReadRunning(s.job, s.attempts) => ReadRunning(s.job, s.attempts)'
      BY <2>3, <3>2
    <3>4. tick[t].pc \in AtJobPc => tick[t].job \in Jobs
      BY DEF HasJob
    <3> QED
      BY <2>1, <2>3, <3>1, <3>2, <3>3, <3>4 DEF PassCharged, AtJobPc, ReadQueued, ReadRunning
  <2> QED
    BY <2>2, <2>4 DEF Charged
<1>5. CASE UNCHANGED vars
  BY <1>5 DEF vars, Charged, RowCharged, PassCharged, ReadQueued, ReadRunning
<1> QED
  BY <1>1, <1>2, <1>3, <1>4, <1>5 DEF Next

\* When passes do not overlap, PROVISIONING_MAX_ATTEMPTS bounds the builds of a
\* job between two admin retries, whatever crashes and whatever requests fail.
THEOREM ClaimsCorrect == Spec => []ClaimsBounded
<1>1. Init => Charged
  BY ConstantsAssumption DEF Init, NewRow, NoRow, IdleTick, OffTick, Charged, RowCharged, PassCharged, InFlightPc
<1>2. Spec => []TypeInv
  <2>1. Init => TypeInv
    BY InitTypeInv
  <2>2. TypeInv /\ [Next]_vars => TypeInv'
    BY NextTypeInv
  <2> QED
    BY <2>1, <2>2, PTL DEF Spec
<1>3. TypeInv /\ (Alone => Charged) /\ [Next]_vars => (Alone => Charged)'
  BY NextCharged, NextAlone
<1>4. (Alone => Charged) => ClaimsBounded
  BY DEF Charged, RowCharged, ClaimsBounded
<1> QED
  BY <1>1, <1>2, <1>3, <1>4, PTL DEF Spec
-----------------------------------------------------------------------------

\* A pass whose list is unchanged, with the same job in hand or none, stays off
\* the jobs of humans if it writes its own job only, and no needs_human.
LEMMA SameInHand ==
  ASSUME TypeInv, NEW t \in Ticks, HandsOff(t),
         tick[t].pc \in {"reclaim", "next"} \cup AtJobPc,
         tick'[t].todo \subseteq tick[t].todo,
         tick'[t].job \in {tick[t].job, None},
         \A i \in Jobs : i # tick[t].job => job'[i] = job[i],
         tick'[t].job \in Jobs => job'[tick'[t].job].status # "needs_human"
  PROVE  HandsOff(t)'
<1> USE ConstantsAssumption DEF TypeInv
<1>1. /\ \A s \in tick[t].todo : /\ job[s.job].status # "needs_human"
                                 /\ s.job # tick[t].job
                                 /\ \A u \in tick[t].todo : u.job = s.job => u = s
  BY DEF HandsOff, AtJobPc
<1>2. \A s \in tick[t].todo : s.job \in Jobs
  BY DEF TypeOK, Pass, Snapshot
<1> QED
  BY <1>1, <1>2 DEF HandsOff

\* Each step of a pass keeps it off the jobs of humans, whose rows it leaves
\* as they are.
LEMMA TickHandsOff ==
  ASSUME TypeInv, NEW t \in Ticks, HandsOff(t), TickNext(t)
  PROVE  /\ HandsOff(t)'
         /\ \A i \in Jobs : job[i].status = "needs_human" => job'[i] = job[i]
<1> USE ConstantsAssumption DEF TypeInv
<1>0. /\ tick[t].pc \in AtJobPc => tick[t].job \in Jobs /\ job[tick[t].job].status # "needs_human"
      /\ tick[t] \in Pass /\ tick \in [Ticks -> Pass]
  BY DEF HandsOff, AtJobPc, HasJob, TypeOK
<1>1. CASE ListStale(t)
  <2>1. CASE Goto(t, "fetch")
    BY <1>0, <1>1, <2>1 DEF ListStale, Goto, HandsOff, Pass, InFlightPc
  <2>2. CASE List(t, {j \in Jobs : IsStale(j)}, "reclaim")
    <3>1. /\ \A s \in tick'[t].todo : s.job \in Jobs /\ IsStale(s.job) /\ s = [job |-> s.job, attempts |-> job[s.job].attempts]
          /\ tick'[t].job = None /\ job' = job
      BY <1>0, <1>1, <2>2 DEF List, ListStale
    <3> QED
      BY <3>1 DEF HandsOff, IsStale
  <2> QED
    BY <1>1, <2>1, <2>2 DEF ListStale
<1>2. CASE ReclaimOne(t)
  <2>1. PICK s \in tick[t].todo, o \in Outcomes :
          /\ Put(s.job, Reclaimed(s), o)
          /\ tick' = [tick EXCEPT ![t].todo = @ \ {s}]
    BY <1>2 DEF ReclaimOne
  <2>2. /\ s.job \in Jobs /\ s.job # tick[t].job /\ job[s.job].status # "needs_human"
        /\ \A u \in tick[t].todo : u.job \in Jobs /\ (u.job = s.job => u = s)
    BY <1>0, <1>2 DEF ReclaimOne, HandsOff, Pass, Snapshot
  <2>3. \A i \in Jobs : i # s.job => job'[i] = job[i]
    BY <2>1 DEF Put, TypeOK
  <2>4. tick'[t] = [tick[t] EXCEPT !.todo = @ \ {s}]
    BY <1>0, <2>1
  <2>5. tick'[t].todo = tick[t].todo \ {s} /\ tick'[t].job = tick[t].job /\ tick'[t].pc = "reclaim"
    BY <1>0, <1>2, <2>4 DEF ReclaimOne, Pass
  <2>6. HandsOff(t)'
    BY <1>2, <2>2, <2>3, <2>5 DEF ReclaimOne, HandsOff
  <2> QED
    BY <2>2, <2>3, <2>6
<1>3. CASE ReclaimDone(t)
  BY <1>0, <1>3 DEF ReclaimDone, Goto, HandsOff, Pass, InFlightPc
<1>4. CASE FetchClaimable(t)
  <2>1. CASE Goto(t, "idle")
    BY <1>0, <1>4, <2>1 DEF FetchClaimable, Goto, HandsOff, Pass, InFlightPc
  <2>2. CASE List(t, {j \in Jobs : IsClaimable(j)}, "next")
    <3>1. /\ \A s \in tick'[t].todo : s.job \in Jobs /\ IsClaimable(s.job) /\ s = [job |-> s.job, attempts |-> job[s.job].attempts]
          /\ tick'[t].job = None /\ job' = job
      BY <1>0, <1>4, <2>2 DEF List, FetchClaimable
    <3> QED
      BY <3>1 DEF HandsOff, IsClaimable
  <2> QED
    BY <1>4, <2>1, <2>2 DEF FetchClaimable
<1>5. CASE TakeNext(t)
  <2>1. PICK s \in tick[t].todo :
          tick' = [tick EXCEPT ![t] = [pc |-> "place", todo |-> @.todo \ {s},
                                       job |-> s.job, attempts |-> s.attempts]]
    BY <1>5 DEF TakeNext
  <2>2. tick'[t] = [pc |-> "place", todo |-> tick[t].todo \ {s}, job |-> s.job, attempts |-> s.attempts]
    BY <1>0, <2>1
  <2> QED
    BY <1>5, <2>2 DEF TakeNext, HandsOff
<1>6. CASE EndPass(t)
  BY <1>0, <1>6 DEF EndPass, Goto, HandsOff, Pass, InFlightPc
\* The steps that only move on, or let the job go.
<1>7. ASSUME tick[t].pc \in AtJobPc, job' = job, Done(t) \/ \E pc \in AtJobPc : Goto(t, pc)
      PROVE  HandsOff(t)'
  <2>1. tick'[t].todo = tick[t].todo /\ tick'[t].job \in {tick[t].job, None}
    BY <1>0, <1>7 DEF Done, Goto, Pass
  <2> QED
    BY <1>0, <1>7, <2>1, SameInHand
<1>8. CASE Place(t) \/ ClaimRead(t) \/ ClaimVerify(t) \/ Build(t)
  <2>1. tick[t].pc \in AtJobPc /\ job' = job /\ (Done(t) \/ \E pc \in AtJobPc : Goto(t, pc))
    BY <1>8 DEF Place, ClaimRead, ClaimVerify, Build, AtJobPc, InFlightPc
  <2> QED
    BY <1>7, <2>1
\* The steps that write the job in hand, and let it go or have left it running
\* or active.
<1>9. ASSUME NEW row, NEW o \in Outcomes, Put(tick[t].job, row, o), tick[t].pc \in AtJobPc,
             Done(t) \/ (row.status # "needs_human" /\ \E pc \in AtJobPc : Goto(t, pc))
      PROVE  HandsOff(t)' /\ \A i \in Jobs : job[i].status = "needs_human" => job'[i] = job[i]
  <2>1. tick'[t].todo = tick[t].todo /\ tick'[t].job \in {tick[t].job, None}
    BY <1>0, <1>9 DEF Done, Goto, Pass
  <2>2. \A i \in Jobs : job'[i] = job[i] \/ (i = tick[t].job /\ job'[i] = row)
    BY <1>0, <1>9, PutRows
  <2>3. tick'[t].job \in Jobs => job'[tick'[t].job].status # "needs_human"
    <3>1. CASE Done(t)
      BY <1>0, <3>1 DEF Done, Pass
    <3>2. CASE row.status # "needs_human"
      BY <1>0, <1>9, <2>1, <2>2, <3>2
    <3> QED
      BY <1>9, <3>1, <3>2
  <2> QED
    BY <1>0, <1>9, <2>1, <2>2, <2>3, SameInHand
<1>10. CASE Escalate(t)
  <2>1. \E o \in Outcomes : Put(tick[t].job, [job[tick[t].job] EXCEPT !.status = "needs_human"], o)
    BY <1>10 DEF Escalate
  <2> QED
    BY <1>9, <1>10, <2>1 DEF Escalate, AtJobPc
<1>11. CASE ClaimWrite(t)
  <2> DEFINE row == [job[tick[t].job] EXCEPT !.status = "running", !.runner = RunnerId(t), !.stale = FALSE]
  <2>1. PICK o \in Outcomes : Put(tick[t].job, row, o) /\ (IF o = "ok" THEN Goto(t, "verify") ELSE Done(t))
    BY <1>11 DEF ClaimWrite
  <2>2. row.status # "needs_human" /\ tick[t].pc \in AtJobPc /\ "verify" \in AtJobPc
    BY <1>0, <1>11 DEF ClaimWrite, AtJobPc, InFlightPc, TypeOK, Row
  <2> HIDE DEF row
  <2> QED
    BY <1>9, <2>1, <2>2
<1>12. CASE Activate(t)
  <2> DEFINE row == [job[tick[t].job] EXCEPT !.status = "active"]
  <2>1. PICK o \in Outcomes : Put(tick[t].job, row, o) /\ (IF o = "ok" THEN Done(t) ELSE Goto(t, "retry"))
    BY <1>12 DEF Activate
  <2>2. row.status # "needs_human" /\ tick[t].pc \in AtJobPc /\ "retry" \in AtJobPc
    BY <1>0, <1>12 DEF Activate, AtJobPc, InFlightPc, TypeOK, Row
  <2> HIDE DEF row
  <2> QED
    BY <1>9, <2>1, <2>2
<1>13. CASE HandleFailure(t)
  <2> DEFINE n == tick[t].attempts + 1
             row == IF tick[t].pc = "giveUp" \/ n >= MaxAttempts
                    THEN [job[tick[t].job] EXCEPT !.status = "needs_human", !.attempts = n]
                    ELSE [job[tick[t].job] EXCEPT !.status = "queued", !.attempts = n, !.backoff = TRUE]
  <2>1. PICK o \in Outcomes : Put(tick[t].job, row, o)
    BY <1>13 DEF HandleFailure
  <2>2. Done(t) /\ tick[t].pc \in AtJobPc
    BY <1>13 DEF HandleFailure, AtJobPc, InFlightPc
  <2> HIDE DEF n, row
  <2> QED
    BY <1>9, <2>1, <2>2
<1>14. ListStale(t) \/ ReclaimDone(t) \/ FetchClaimable(t) \/ TakeNext(t) \/ EndPass(t)
         \/ Place(t) \/ ClaimRead(t) \/ ClaimVerify(t) \/ Build(t) => job' = job
  BY DEF ListStale, ReclaimDone, FetchClaimable, TakeNext, EndPass, Place, ClaimRead, ClaimVerify, Build
<1> QED
  BY <1>1, <1>2, <1>3, <1>4, <1>5, <1>6, <1>8, <1>10, <1>11, <1>12, <1>13, <1>14 DEF TickNext

\* One pass at a time stays off the jobs of humans.
LEMMA NextHandsOff ==
  ASSUME TypeInv, Alone, \A t \in Ticks : HandsOff(t), [Next]_vars
  PROVE  \A t \in Ticks : HandsOff(t)'
<1> USE ConstantsAssumption DEF TypeInv
<1>1. ASSUME NEW t \in Ticks, TickNext(t) PROVE \A u \in Ticks : HandsOff(u)'
  <2>1. tick[t].pc # "off"
    BY <1>1 DEF TickNext, ListStale, ReclaimOne, ReclaimDone, FetchClaimable, TakeNext,
       EndPass, Place, Escalate, ClaimRead, ClaimWrite, ClaimVerify, Build, Activate, HandleFailure, InFlightPc
  <2>2. \A u \in Ticks : u # t => tick[u].pc = "off"
    BY <2>1 DEF Alone
  <2>3. \A u \in Ticks : u # t => tick'[u] = tick[u]
    BY <1>1 DEF TypeOK, TickNext, ListStale, ReclaimOne, ReclaimDone, FetchClaimable, TakeNext, EndPass, Place, Escalate,
       ClaimRead, ClaimWrite, ClaimVerify, Build, Activate, HandleFailure, List, Goto, Done
  <2>4. \A u \in Ticks : u # t => HandsOff(u)'
    BY <2>2, <2>3 DEF HandsOff, InFlightPc
  <2> QED
    BY <1>1, <2>4, TickHandsOff
<1>2. ASSUME NEW p \in Processes, Crash(p) PROVE \A t \in Ticks : HandsOff(t)'
  BY <1>2 DEF Crash, IdleTick, HandsOff, InFlightPc
<1>3. ASSUME NEW j \in Jobs, BackoffElapses(j) \/ GrowsStale(j) \/ AdminRetry(j) \/ AdminResolve(j)
      PROVE  \A t \in Ticks : HandsOff(t)'
  <2>1. tick' = tick /\ \A i \in Jobs : job'[i].status \in {job[i].status, "queued", "active"}
    BY <1>3 DEF BackoffElapses, GrowsStale, AdminRetry, AdminResolve, TypeOK, Row
  <2>2. \A t \in Ticks : \A s \in tick[t].todo : s.job \in Jobs
    BY DEF TypeOK, Pass, Snapshot
  <2> QED
    BY <2>1, <2>2 DEF HandsOff
<1>4. CASE UNCHANGED vars
  BY <1>4 DEF vars, HandsOff
<1> QED
  BY <1>1, <1>2, <1>3, <1>4 DEF Next

\* While passes do not overlap, a job that waits for a human leaves that state
\* only by an admin's retry or resolve: a pass never has such a job in hand or
\* on its list, and each job on its list at most once.
THEOREM HumansCorrect == Spec => HumanJobsStay
<1>1. Init => \A t \in Ticks : HandsOff(t)
  BY ConstantsAssumption DEF Init, IdleTick, OffTick, HandsOff, InFlightPc
<1>2. Spec => []TypeInv
  <2>1. Init => TypeInv
    BY InitTypeInv
  <2>2. TypeInv /\ [Next]_vars => TypeInv'
    BY NextTypeInv
  <2> QED
    BY <2>1, <2>2, PTL DEF Spec
<1> DEFINE Hands == Alone => \A t \in Ticks : HandsOff(t)
<1>3. TypeInv /\ Hands /\ [Next]_vars => Hands'
  BY NextHandsOff, NextAlone
<1>4. TypeInv /\ Hands /\ [Next]_vars
        => [\A j \in Jobs : Alone /\ job[j].status = "needs_human" /\ job'[j].status # "needs_human"
                            => admins' = admins + 1]_vars
  <2> SUFFICES ASSUME TypeInv, Hands, Next, Alone, NEW j \in Jobs,
                      job[j].status = "needs_human", job'[j].status # "needs_human"
               PROVE  admins' = admins + 1
    OBVIOUS
  <2>1. \A t \in Ticks : ~TickNext(t)
    BY TickHandsOff
  <2>2. \A p \in Processes : ~Crash(p)
    BY DEF Crash
  <2>3. \A i \in Jobs : ~BackoffElapses(i) /\ ~GrowsStale(i)
    BY DEF BackoffElapses, GrowsStale, TypeInv, TypeOK, Row
  <2> QED
    BY <2>1, <2>2, <2>3 DEF Next, AdminRetry, AdminResolve
<1>5. Init => Hands
  BY <1>1
<1> HIDE DEF Hands
<1> QED
  BY <1>2, <1>3, <1>4, <1>5, PTL DEF Spec, HumanJobsStay
=============================================================================
