--------------------------- MODULE JobDispatchProofs ---------------------------
(* However many jobs, workers and admin retries there are, whatever fails,  *)
(* and whatever Redis loses.                                                *)
EXTENDS JobDispatch, TLAPS

WorkerLocal == [pc : WorkerPc, job : Jobs \cup {None}, id : Retries, attempts : Nat]
HostLocal == [pc : HostPc, job : Jobs \cup {None}, attempts : 0 .. HeldAttempts, todo : SUBSET Snapshot]
Queue == [Jobs -> [Retries -> Message]]

\* An admin has had a hand in j, or j was not held from the beginning.
Free(j) == BirthOf[j] = "held" => admins > 0

\* A queued row has an attempt left.
QueuedFit == \A j \in Jobs : job[j].status = "queued" => job[j].attempts < MaxAttempts

\* A worker is at a job that had an attempt left; it builds containers only.
WorkerFit ==
    \A w \in Workers : worker[w].pc # "idle" =>
        /\ worker[w].job \in Jobs /\ worker[w].attempts < MaxAttempts /\ Free(worker[w].job)
        /\ worker[w].pc # "escalate" => LaneOf[worker[w].job] = "container"

AtJob == {"claim", "verify", "build", "active", "failed", "refused"}

\* A run of the host has bench jobs only, and had them listed while an attempt
\* was left.
RunFit(x) ==
    /\ x.pc \in AtJob => x.job \in Jobs /\ LaneOf[x.job] = "bench" /\ x.attempts < MaxAttempts /\ Free(x.job)
    /\ x.pc \notin AtJob => x.job = None
    /\ \A s \in x.todo : LaneOf[s.job] = "bench" /\ s.attempts < MaxAttempts /\ Free(s.job)

HostFit == \A h \in Hosts : RunFit(host[h])

\* Nobody has touched a held job.
HeldFit ==
    \A j \in Jobs : ~Free(j) =>
        /\ builds[j] = 0
        /\ job[j].status \in {"absent", "needs_human"}
        /\ job[j].status = "needs_human" => job[j].attempts = HeldAttempts

\* What is charged to a job is on the count a run x has read, unless it crossed
\* another run there; but for the failure x has yet to report.  A run lists a job
\* once.
Owed(x, c, k, m) ==
    /\ x.pc \in AtJob => k[x.job] \/ c[x.job] <= x.attempts + m + (IF x.pc = "failed" THEN 1 ELSE 0)
    /\ x.pc \notin {"off", "reclaim"} =>
         \A s \in x.todo : /\ k[s.job] \/ c[s.job] <= s.attempts + m
                           /\ s.job # x.job
                           /\ \A t \in x.todo : t.job = s.job => t = s

ChargeFit ==
    /\ HostBuildsCharged
    /\ \A j \in Jobs : charged[j] > 0 => LaneOf[j] = "bench"
    /\ \A h \in Hosts : Owed(host[h], charged, crossed, mishaps)

IInv == TypeOK /\ QueuedFit /\ WorkerFit /\ HostFit /\ HeldFit /\ ChargeFit

-----------------------------------------------------------------------------
(* The operators.                                                          *)

LEMMA TypeIs ==
  TypeOK <=> /\ job \in [Jobs -> Row] /\ redis \in Queue /\ worker \in [Workers -> WorkerLocal]
             /\ host \in [Hosts -> HostLocal] /\ builds \in [Jobs -> Nat] /\ charged \in [Jobs -> Nat]
             /\ crossed \in [Jobs -> BOOLEAN] /\ hands \in Nat /\ mishaps \in Nat /\ admins \in Nat
  BY DEF TypeOK, Queue, WorkerLocal, HostLocal

LEMMA ConstantsAre == /\ MaxAttempts \in Nat /\ MaxAttempts >= 1 /\ HeldAttempts \in Nat /\ MaxAttempts < HeldAttempts
                      /\ MaxMishaps \in Nat /\ 0 \in Retries /\ MaxAttempts \in 0 .. HeldAttempts
                      /\ \A n \in Nat : n < MaxAttempts => n \in Retries /\ n + 1 \in Retries /\ n + 1 \in 0 .. HeldAttempts
  BY ConstantsAssumption DEF Retries

\* The rows that PUTs write are patches.
LEMMA RowPatch ==
  ASSUME NEW r \in Row, NEW status \in {"absent", "queued", "running", "active", "needs_human"},
         NEW n \in 0 .. HeldAttempts, NEW b \in BOOLEAN, NEW x \in Runner, NEW f \in BOOLEAN
  PROVE  /\ [r EXCEPT !.status = status] \in Row
         /\ [r EXCEPT !.status = status, !.runner = x] \in Row
         /\ [r EXCEPT !.status = status, !.runner = x, !.stale = f] \in Row
         /\ [r EXCEPT !.status = status, !.runner = x, !.attempts = n] \in Row
         /\ [r EXCEPT !.status = status, !.attempts = n, !.backoff = b] \in Row
         /\ [r EXCEPT !.backoff = b] \in Row /\ [r EXCEPT !.stale = f] \in Row /\ [r EXCEPT !.runner = x] \in Row
  BY DEF Row

LEMMA FailIs == mishaps \in Nat /\ (Fail \/ UNCHANGED mishaps) => mishaps' \in Nat /\ mishaps' >= mishaps
  BY DEF Fail

\* A PUT stores the row, or leaves the old one and counts as a mishap.
LEMMA PutIs ==
  ASSUME TypeOK, NEW j \in Jobs, NEW row \in Row, NEW o \in Outcomes(j, row), Put(j, o)
  PROVE  /\ job' \in [Jobs -> Row]
         /\ \A k \in Jobs : k # j => job'[k] = job[k]
         /\ mishaps' \in Nat /\ mishaps' >= mishaps
         /\ \/ job'[j] = row
            \/ job'[j] = job[j] /\ mishaps' = mishaps + 1 /\ ~o[2]
         /\ o[2] => mishaps' = mishaps
<1>1. job \in [Jobs -> Row] /\ mishaps \in Nat
  BY TypeIs
<1>2. job' = [job EXCEPT ![j] = o[1]] /\ (IF o[2] THEN UNCHANGED mishaps ELSE Fail)
  BY DEF Put
<1>3. CASE o = <<row, TRUE>>
  <2>1. o[1] = row /\ o[2]
    BY <1>3
  <2> HIDE <1>3
  <2> QED
    BY <1>1, <1>2, <2>1
<1>4. CASE o = <<row, FALSE>>
  <2>1. o[1] = row /\ ~o[2]
    BY <1>4
  <2>2. mishaps' = mishaps + 1
    BY <1>2, <2>1 DEF Fail
  <2> HIDE <1>4
  <2> QED
    BY <1>1, <1>2, <2>1, <2>2
<1>5. CASE o = <<job[j], FALSE>>
  <2>1. o[1] = job[j] /\ ~o[2]
    BY <1>5
  <2>2. mishaps' = mishaps + 1
    BY <1>2, <2>1 DEF Fail
  <2> HIDE <1>5
  <2> QED
    BY <1>1, <1>2, <2>1, <2>2
<1> QED
  BY <1>3, <1>4, <1>5 DEF Outcomes

LEMMA IdleIs == IdleWorker \in WorkerLocal /\ IdleWorker.pc = "idle"
  BY ConstantsAre DEF IdleWorker, WorkerLocal, WorkerPc

LEMMA OffIs == /\ HostOff \in HostLocal /\ HostOff.pc = "off" /\ HostOff.job = None /\ HostOff.todo = {}
  BY ConstantsAre DEF HostOff, HostLocal, HostPc

\* A run owes nothing new when less is charged, more is crossed or lost, or the
\* job is not its own.
LEMMA OwedStays ==
  ASSUME NEW x \in HostLocal, x.pc \in AtJob => x.job \in Jobs,
         NEW c \in [Jobs -> Nat], NEW d \in [Jobs -> Nat], NEW k \in [Jobs -> BOOLEAN], NEW l \in [Jobs -> BOOLEAN],
         NEW m \in Nat, NEW n \in Nat, m <= n, Owed(x, c, k, m),
         \A j \in Jobs : \/ x.job # j /\ (x.pc \in {"off", "reclaim"} \/ \A s \in x.todo : s.job # j)
                         \/ l[j] \/ d[j] = 0 \/ (~k[j] /\ d[j] <= c[j])
  PROVE  Owed(x, d, l, n)
<1>1. x.pc \in AtJob => l[x.job] \/ d[x.job] <= x.attempts + n + (IF x.pc = "failed" THEN 1 ELSE 0)
  <2>1. SUFFICES ASSUME x.pc \in AtJob, ~l[x.job]
                 PROVE  d[x.job] <= x.attempts + n + (IF x.pc = "failed" THEN 1 ELSE 0)
    OBVIOUS
  <2>2. x.job \in Jobs /\ x.attempts \in Nat /\ c[x.job] \in Nat /\ d[x.job] \in Nat
    BY <2>1, ConstantsAre DEF HostLocal
  <2>3. d[x.job] = 0 \/ (d[x.job] <= c[x.job] /\ c[x.job] <= x.attempts + m + (IF x.pc = "failed" THEN 1 ELSE 0))
    BY <2>1, <2>2 DEF Owed
  <2> QED
    BY <2>2, <2>3
<1>2. ASSUME x.pc \notin {"off", "reclaim"}, NEW s \in x.todo
      PROVE  /\ l[s.job] \/ d[s.job] <= s.attempts + n
             /\ s.job # x.job /\ \A t \in x.todo : t.job = s.job => t = s
  <2>1. s.job \in Jobs /\ s.attempts \in Nat /\ c[s.job] \in Nat /\ d[s.job] \in Nat
    BY ConstantsAre DEF HostLocal, Snapshot
  <2>2. l[s.job] \/ d[s.job] = 0 \/ (d[s.job] <= c[s.job] /\ c[s.job] <= s.attempts + m)
    BY <1>2, <2>1 DEF Owed
  <2>3. l[s.job] \/ d[s.job] <= s.attempts + n
    BY <2>1, <2>2
  <2> QED
    BY <1>2, <2>3 DEF Owed
<1> QED
  BY <1>1, <1>2 DEF Owed

LEMMA CompletedIs ==
  ASSUME TypeOK, NEW w \in Workers, worker[w].job \in Jobs
  PROVE  Completed(w, redis) \in Queue
<1>1. redis \in Queue /\ worker[w].id \in Retries
  BY TypeIs DEF WorkerLocal
<1> QED
  BY <1>1 DEF Completed, Queue, Message

LEMMA MessageIs ==
  ASSUME NEW r \in Queue, NEW j \in Jobs, NEW n \in Retries, NEW m \in Message
  PROVE  [r EXCEPT ![j][n] = m] \in Queue
  BY DEF Queue

LEMMA AddIs ==
  ASSUME NEW r \in Queue, NEW j \in Jobs, NEW n \in Retries, NEW state \in {"delayed", "waiting"}
  PROVE  Add(r, j, n, state) \in Queue
  BY DEF Add, Queue, Message

-----------------------------------------------------------------------------
(* The steps of the backend.                                               *)

\* What a run of the host is at, when it is at a job, and what it has listed.
LEMMA HostAtJob ==
  ASSUME IInv
  PROVE  /\ host \in [Hosts -> HostLocal] /\ job \in [Jobs -> Row] /\ builds \in [Jobs -> Nat]
         /\ charged \in [Jobs -> Nat] /\ crossed \in [Jobs -> BOOLEAN] /\ mishaps \in Nat /\ hands \in Nat
         /\ \A h \in Hosts :
              /\ host[h] \in HostLocal /\ host[h].attempts \in Nat
              /\ host[h].pc \in AtJob => /\ host[h].job \in Jobs /\ LaneOf[host[h].job] = "bench" /\ Free(host[h].job)
                                         /\ host[h].attempts < MaxAttempts
              /\ \A s \in host[h].todo : s.job \in Jobs /\ s.job # None /\ s.attempts \in Nat
         /\ \A j \in Jobs : job[j] \in Row /\ job[j].attempts \in Nat
<1>1. /\ host \in [Hosts -> HostLocal] /\ job \in [Jobs -> Row] /\ builds \in [Jobs -> Nat]
      /\ charged \in [Jobs -> Nat] /\ crossed \in [Jobs -> BOOLEAN] /\ mishaps \in Nat /\ hands \in Nat
  BY TypeIs DEF IInv
<1>2. \A h \in Hosts : RunFit(host[h])
  BY DEF IInv, HostFit
<1>3. \A x \in HostLocal : x.attempts \in Nat /\ \A s \in x.todo : s.job \in Jobs /\ s.job # None /\ s.attempts \in Nat
  BY ConstantsAre, ConstantsAssumption DEF HostLocal, Snapshot
<1>4. \A j \in Jobs : job[j] \in Row /\ job[j].attempts \in Nat
  BY <1>1, ConstantsAre DEF Row
<1> QED
  BY <1>1, <1>2, <1>3, <1>4 DEF RunFit

\* What a run owes when it does nothing but lose time.
LEMMA RunOwes ==
  ASSUME IInv, NEW h \in Hosts, mishaps' \in Nat, mishaps' >= mishaps
  PROVE  Owed(host[h], charged, crossed, mishaps')
<1>1. PICK n \in Nat : n = mishaps'
  OBVIOUS
<1>2. PICK x \in HostLocal : x = host[h] /\ (x.pc \in AtJob => x.job \in Jobs) /\ Owed(x, charged, crossed, mishaps)
  BY HostAtJob DEF IInv, ChargeFit
<1>3. PICK c \in [Jobs -> Nat], k \in [Jobs -> BOOLEAN], m \in Nat : c = charged /\ k = crossed /\ m = mishaps
  BY HostAtJob
<1>4. m <= n /\ Owed(x, c, k, m) /\ \A j \in Jobs : k[j] \/ (~k[j] /\ c[j] <= c[j])
  BY <1>1, <1>2, <1>3
<1>5. Owed(x, c, k, n)
  BY <1>2, <1>4, OwedStays
<1> QED
  BY <1>1, <1>2, <1>3, <1>5

\* The host stands where it stood.  Only a container's row takes another number
\* of attempts.
LEMMA HostStays ==
  ASSUME IInv, UNCHANGED <<host, charged, crossed, admins>>, mishaps' \in Nat, mishaps' >= mishaps,
         job' \in [Jobs -> Row],
         \A j \in Jobs : job'[j].attempts = job[j].attempts \/ LaneOf[j] = "container"
  PROVE  HostFit' /\ ChargeFit'
<1>1. HostFit'
  BY DEF IInv, HostFit, RunFit, Free
<1>2. HostBuildsCharged'
  <2>1. \A j \in Jobs : job'[j].attempts \in Nat /\ charged[j] \in Nat
    BY HostAtJob, ConstantsAre DEF Row
  <2>2. \A j \in Jobs : charged[j] > 0 => job'[j].attempts = job[j].attempts
    BY DEF IInv, ChargeFit
  <2> QED
    BY <2>1, <2>2, HostAtJob DEF IInv, ChargeFit, HostBuildsCharged
<1>3. \A h \in Hosts : Owed(host[h], charged, crossed, mishaps')
  BY RunOwes
<1>4. \A j \in Jobs : charged'[j] > 0 => LaneOf[j] = "bench"
  BY DEF IInv, ChargeFit
<1> QED
  BY <1>1, <1>2, <1>3, <1>4 DEF ChargeFit

LEMMA BackendKeeps ==
  ASSUME IInv, UNCHANGED <<host, charged, crossed, hands, admins>>, mishaps' \in Nat, mishaps' >= mishaps,
         job' \in [Jobs -> Row], redis' \in Queue, worker' \in [Workers -> WorkerLocal], builds' \in [Jobs -> Nat],
         WorkerFit',
         \A j \in Jobs : job'[j].status = "queued" => job'[j].attempts < MaxAttempts,
         \A j \in Jobs : job'[j].attempts = job[j].attempts \/ LaneOf[j] = "container",
         \A j \in Jobs : ~Free(j) => job'[j].status = job[j].status /\ job'[j].attempts = job[j].attempts
                                     /\ builds'[j] = builds[j]
  PROVE  IInv'
<1>1. HostFit' /\ ChargeFit'
  BY HostStays
<1>2. QueuedFit'
  BY DEF QueuedFit
<1>3. HeldFit'
  BY DEF IInv, HeldFit, Free
<1>4. TypeOK'
  BY DEF IInv, TypeOK, Queue, WorkerLocal
<1> QED
  BY <1>1, <1>2, <1>3, <1>4 DEF IInv

\* A step of a worker at its job.
LEMMA WorkerKeeps ==
  ASSUME IInv, NEW w \in Workers, NEW v \in WorkerLocal, worker[w].pc # "idle",
         UNCHANGED <<host, charged, crossed, hands, admins>>, mishaps' \in Nat, mishaps' >= mishaps,
         job' \in [Jobs -> Row], redis' \in Queue, worker' = [worker EXCEPT ![w] = v],
         v.pc # "idle" => v.job = worker[w].job /\ v.attempts = worker[w].attempts
                          /\ worker[w].pc # "escalate" /\ v.pc # "escalate",
         builds' = builds \/ builds' = [builds EXCEPT ![worker[w].job] = @ + 1],
         \A j \in Jobs : j # worker[w].job => job'[j] = job[j],
         LET row == job'[worker[w].job]
         IN  /\ row.status = "queued" => row.attempts < MaxAttempts
             /\ row.attempts = job[worker[w].job].attempts \/ LaneOf[worker[w].job] = "container"
  PROVE  IInv'
<1>0. /\ worker \in [Workers -> WorkerLocal] /\ builds \in [Jobs -> Nat] /\ job \in [Jobs -> Row]
      /\ worker[w].job \in Jobs /\ Free(worker[w].job) /\ worker[w].attempts < MaxAttempts
      /\ worker[w].pc # "escalate" => LaneOf[worker[w].job] = "container"
  BY TypeIs DEF IInv, WorkerFit
<1>1. worker' \in [Workers -> WorkerLocal] /\ builds' \in [Jobs -> Nat]
  BY <1>0
<1>2. WorkerFit'
  BY <1>0 DEF IInv, WorkerFit, Free
<1>3. \A j \in Jobs : job'[j].status = "queued" => job'[j].attempts < MaxAttempts
  BY DEF IInv, QueuedFit
<1>4. \A j \in Jobs : job'[j].attempts = job[j].attempts \/ LaneOf[j] = "container"
  OBVIOUS
<1>5. \A j \in Jobs : ~Free(j) => job'[j].status = job[j].status /\ job'[j].attempts = job[j].attempts
                                  /\ builds'[j] = builds[j]
  BY <1>0
<1> QED
  BY <1>1, <1>2, <1>3, <1>4, <1>5, BackendKeeps

LEMMA LeaveIs ==
  ASSUME TypeOK, NEW w \in Workers, worker[w].job \in Jobs, Leave(w)
  PROVE  worker' = [worker EXCEPT ![w] = IdleWorker] /\ redis' \in Queue
  BY CompletedIs DEF Leave

LEMMA StepIs ==
  ASSUME TypeOK, NEW w \in Workers, NEW pc \in WorkerPc, Step(w, pc)
  PROVE  \E v \in WorkerLocal : /\ worker' = [worker EXCEPT ![w] = v]
                                /\ v.pc = pc /\ v.job = worker[w].job /\ v.attempts = worker[w].attempts
<1>1. worker \in [Workers -> WorkerLocal]
  BY TypeIs
<1>2. [worker[w] EXCEPT !.pc = pc] \in WorkerLocal
  BY <1>1 DEF WorkerLocal
<1>3. worker' = [worker EXCEPT ![w] = [worker[w] EXCEPT !.pc = pc]]
  BY DEF Step
<1> QED
  BY <1>1, <1>2, <1>3 DEF WorkerLocal

LEMMA LoadKeeps == ASSUME IInv, NEW w \in Workers, Load(w) PROVE IInv'
<1>0. /\ TypeOK /\ job \in [Jobs -> Row] /\ redis \in Queue /\ worker \in [Workers -> WorkerLocal]
      /\ UNCHANGED <<job, host, builds, charged, crossed, hands, admins>>
  BY TypeIs DEF IInv, Load
<1>1. PICK j \in Jobs, n \in Retries :
         \/ /\ Claimable(j)
            /\ redis' = [redis EXCEPT ![j][n] = w]
            /\ \E pc \in IF LaneOf[j] = "bench" THEN {"escalate"} ELSE {"escalate", "claim"} :
                  worker' = [worker EXCEPT ![w] = [pc |-> pc, job |-> j, id |-> n, attempts |-> job[j].attempts]]
            /\ UNCHANGED mishaps
         \/ /\ Fail \/ UNCHANGED mishaps
            /\ redis' = [redis EXCEPT ![j][n] = "none"]
            /\ UNCHANGED worker
  BY DEF Load
<1>2. mishaps' \in Nat /\ mishaps' >= mishaps
  BY <1>0, <1>1, FailIs DEF TypeOK
<1>3. redis' \in Queue
  <2>1. w \in Message /\ "none" \in Message
    BY DEF Message
  <2> QED
    BY <1>0, <1>1, <2>1, MessageIs
<1>4. worker' \in [Workers -> WorkerLocal] /\ WorkerFit'
  <2>1. CASE UNCHANGED worker
    BY <1>0, <2>1 DEF IInv, WorkerFit, Free
  <2>2. CASE /\ Claimable(j)
             /\ \E pc \in IF LaneOf[j] = "bench" THEN {"escalate"} ELSE {"escalate", "claim"} :
                   worker' = [worker EXCEPT ![w] = [pc |-> pc, job |-> j, id |-> n, attempts |-> job[j].attempts]]
    <3>1. PICK pc \in IF LaneOf[j] = "bench" THEN {"escalate"} ELSE {"escalate", "claim"} :
             worker' = [worker EXCEPT ![w] = [pc |-> pc, job |-> j, id |-> n, attempts |-> job[j].attempts]]
      BY <2>2
    <3>2. job[j].attempts \in Nat /\ job[j].attempts < MaxAttempts /\ job[j].status = "queued"
      BY <1>0, <2>2, ConstantsAre DEF Claimable, IInv, QueuedFit, Row
    <3>3. Free(j)
      BY <3>2 DEF IInv, HeldFit
    <3>4. LaneOf[j] \in {"container", "bench"} /\ pc \in {"escalate", "claim"} /\ (pc = "claim" => LaneOf[j] = "container")
      BY ConstantsAssumption
    <3>5. [pc |-> pc, job |-> j, id |-> n, attempts |-> job[j].attempts] \in WorkerLocal
      BY <3>2, <3>4 DEF WorkerLocal, WorkerPc
    <3> QED
      BY <1>0, <3>1, <3>2, <3>3, <3>4, <3>5 DEF IInv, WorkerFit, Free
  <2> QED
    BY <1>1, <2>1, <2>2
<1>5. builds' \in [Jobs -> Nat]
  BY <1>0 DEF TypeOK
<1> QED
  BY <1>0, <1>2, <1>3, <1>4, <1>5, BackendKeeps DEF IInv, QueuedFit

\* What a worker that is at a job may rely on.
LEMMA AtItsJob ==
  ASSUME IInv, NEW w \in Workers, worker[w].pc # "idle"
  PROVE  /\ worker[w].job \in Jobs /\ job[worker[w].job] \in Row /\ redis \in Queue
         /\ worker[w].attempts \in Nat /\ worker[w].attempts < MaxAttempts
         /\ worker[w].pc # "escalate" => LaneOf[worker[w].job] = "container"
  BY TypeIs DEF IInv, WorkerFit, WorkerLocal

LEMMA EscalateKeeps == ASSUME IInv, NEW w \in Workers, Escalate(w) PROVE IInv'
<1> DEFINE j == worker[w].job
           row == [job[j] EXCEPT !.status = "needs_human"]
<1>1. /\ TypeOK /\ worker[w].pc = "escalate" /\ j \in Jobs /\ job[j] \in Row
      /\ UNCHANGED <<host, builds, charged, crossed, hands, admins>> /\ Leave(w)
  BY AtItsJob DEF IInv, Escalate
<1>2. row \in Row /\ row.attempts = job[j].attempts /\ row.status = "needs_human"
  BY <1>1 DEF Row
<1>3. PICK o \in Outcomes(j, row) : Put(j, o)
  BY DEF Escalate
<1> HIDE DEF row
<1>4. /\ job' \in [Jobs -> Row] /\ (\A k \in Jobs : k # j => job'[k] = job[k])
      /\ mishaps' \in Nat /\ mishaps' >= mishaps /\ job'[j] \in {row, job[j]}
  BY <1>1, <1>2, <1>3, PutIs
<1>5. worker' = [worker EXCEPT ![w] = IdleWorker] /\ redis' \in Queue
  BY <1>1, LeaveIs
<1>6. job'[j].status = "queued" => job'[j].attempts < MaxAttempts
  BY <1>1, <1>2, <1>4 DEF IInv, QueuedFit
<1> QED
  BY <1>1, <1>2, <1>4, <1>5, <1>6, IdleIs, WorkerKeeps

LEMMA ClaimReadKeeps == ASSUME IInv, NEW w \in Workers, ClaimRead(w) PROVE IInv'
<1>1. /\ TypeOK /\ worker[w].pc = "claim" /\ worker[w].job \in Jobs /\ redis \in Queue
      /\ UNCHANGED <<job, host, builds, charged, crossed, hands, admins>>
      /\ \/ Step(w, "write") /\ UNCHANGED redis
         \/ Leave(w)
      /\ Fail \/ UNCHANGED mishaps
      /\ job \in [Jobs -> Row] /\ mishaps \in Nat
  BY AtItsJob, TypeIs DEF IInv, ClaimRead
<1>2. PICK v \in WorkerLocal : /\ worker' = [worker EXCEPT ![w] = v] /\ redis' \in Queue
                               /\ v.pc \in {"idle", "write"}
                               /\ v.pc = "write" => v.job = worker[w].job /\ v.attempts = worker[w].attempts
  BY <1>1, LeaveIs, IdleIs, StepIs DEF WorkerPc
<1>3. mishaps' \in Nat /\ mishaps' >= mishaps
  BY <1>1, FailIs
<1> QED
  BY <1>1, <1>2, <1>3, WorkerKeeps DEF IInv, QueuedFit

LEMMA ClaimWriteKeeps == ASSUME IInv, NEW w \in Workers, ClaimWrite(w) PROVE IInv'
<1> DEFINE j == worker[w].job
           row == [job[j] EXCEPT !.status = "running", !.runner = "app", !.stale = FALSE]
<1>1. /\ TypeOK /\ worker[w].pc = "write" /\ j \in Jobs /\ job[j] \in Row /\ redis \in Queue
      /\ UNCHANGED <<host, builds, charged, crossed, hands, admins>>
  BY AtItsJob DEF IInv, ClaimWrite
<1>2. row \in Row /\ row.attempts = job[j].attempts /\ row.status = "running"
  BY <1>1 DEF Row, Runner
<1>3. PICK o \in Outcomes(j, row) : Put(j, o) /\ ((Step(w, "verify") /\ UNCHANGED redis) \/ Leave(w))
  BY DEF ClaimWrite
<1> HIDE DEF row
<1>4. /\ job' \in [Jobs -> Row] /\ (\A k \in Jobs : k # j => job'[k] = job[k])
      /\ mishaps' \in Nat /\ mishaps' >= mishaps /\ job'[j] \in {row, job[j]}
  BY <1>1, <1>2, <1>3, PutIs
<1>5. PICK v \in WorkerLocal : /\ worker' = [worker EXCEPT ![w] = v] /\ redis' \in Queue
                               /\ v.pc \in {"idle", "verify"}
                               /\ v.pc = "verify" => v.job = worker[w].job /\ v.attempts = worker[w].attempts
  BY <1>1, <1>3, LeaveIs, IdleIs, StepIs DEF WorkerPc
<1>6. job'[j].status = "queued" => job'[j].attempts < MaxAttempts
  BY <1>1, <1>2, <1>4 DEF IInv, QueuedFit
<1> QED
  BY <1>1, <1>2, <1>4, <1>5, <1>6, WorkerKeeps

LEMMA ClaimVerifyKeeps == ASSUME IInv, NEW w \in Workers, ClaimVerify(w) PROVE IInv'
<1>1. /\ TypeOK /\ worker[w].pc = "verify" /\ worker[w].job \in Jobs /\ redis \in Queue
      /\ UNCHANGED <<job, host, charged, crossed, hands, admins>>
      /\ \/ Step(w, "build") /\ UNCHANGED redis
         \/ Leave(w)
      /\ builds' = builds \/ builds' = [builds EXCEPT ![worker[w].job] = @ + 1]
      /\ Fail \/ UNCHANGED mishaps
      /\ job \in [Jobs -> Row] /\ mishaps \in Nat
  BY AtItsJob, TypeIs DEF IInv, ClaimVerify
<1>2. PICK v \in WorkerLocal : /\ worker' = [worker EXCEPT ![w] = v] /\ redis' \in Queue
                               /\ v.pc \in {"idle", "build"}
                               /\ v.pc = "build" => v.job = worker[w].job /\ v.attempts = worker[w].attempts
  BY <1>1, LeaveIs, IdleIs, StepIs DEF WorkerPc
<1>3. mishaps' \in Nat /\ mishaps' >= mishaps
  BY <1>1, FailIs
<1> QED
  BY <1>1, <1>2, <1>3, WorkerKeeps DEF IInv, QueuedFit

LEMMA BuildKeeps == ASSUME IInv, NEW w \in Workers, Build(w) PROVE IInv'
<1>1. /\ TypeOK /\ worker[w].pc = "build" /\ worker[w].job \in Jobs /\ redis \in Queue /\ job \in [Jobs -> Row] /\ mishaps \in Nat
      /\ UNCHANGED <<job, redis, host, builds, charged, crossed, hands, mishaps, admins>>
  BY AtItsJob, TypeIs DEF IInv, Build
<1>2. PICK pc \in {"activate", "retry", "giveUp"} : Step(w, pc)
  BY DEF Build
<1>3. PICK v \in WorkerLocal : /\ worker' = [worker EXCEPT ![w] = v] /\ v.pc = pc
                               /\ v.job = worker[w].job /\ v.attempts = worker[w].attempts
  BY <1>1, <1>2, StepIs DEF WorkerPc
<1>4. /\ job' \in [Jobs -> Row] /\ redis' \in Queue /\ mishaps' \in Nat /\ mishaps' >= mishaps /\ builds' = builds
      /\ v.pc # "idle" /\ v.pc # "escalate"
  BY <1>1, <1>3
<1>5. /\ job'[worker[w].job].status = "queued" => job'[worker[w].job].attempts < MaxAttempts
      /\ \A k \in Jobs : job'[k] = job[k]
  BY <1>1 DEF IInv, QueuedFit
<1> QED
  BY <1>1, <1>3, <1>4, <1>5, WorkerKeeps

LEMMA ActivateKeeps == ASSUME IInv, NEW w \in Workers, Activate(w) PROVE IInv'
<1> DEFINE j == worker[w].job
           row == [job[j] EXCEPT !.status = "active"]
<1>1. /\ TypeOK /\ worker[w].pc = "activate" /\ j \in Jobs /\ job[j] \in Row /\ redis \in Queue
      /\ UNCHANGED <<host, builds, charged, crossed, hands, admins>>
  BY AtItsJob DEF IInv, Activate
<1>2. row \in Row /\ row.attempts = job[j].attempts /\ row.status = "active"
  BY <1>1 DEF Row
<1>3. PICK o \in Outcomes(j, row) : Put(j, o) /\ ((Step(w, "retry") /\ UNCHANGED redis) \/ Leave(w))
  BY DEF Activate
<1> HIDE DEF row
<1>4. /\ job' \in [Jobs -> Row] /\ (\A k \in Jobs : k # j => job'[k] = job[k])
      /\ mishaps' \in Nat /\ mishaps' >= mishaps /\ job'[j] \in {row, job[j]}
  BY <1>1, <1>2, <1>3, PutIs
<1>5. PICK v \in WorkerLocal : /\ worker' = [worker EXCEPT ![w] = v] /\ redis' \in Queue
                               /\ v.pc \in {"idle", "retry"}
                               /\ v.pc = "retry" => v.job = worker[w].job /\ v.attempts = worker[w].attempts
  BY <1>1, <1>3, LeaveIs, IdleIs, StepIs DEF WorkerPc
<1>6. job'[j].status = "queued" => job'[j].attempts < MaxAttempts
  BY <1>1, <1>2, <1>4 DEF IInv, QueuedFit
<1> QED
  BY <1>1, <1>2, <1>4, <1>5, <1>6, WorkerKeeps

LEMMA HandleFailureKeeps == ASSUME IInv, NEW w \in Workers, HandleFailure(w) PROVE IInv'
<1> DEFINE j == worker[w].job
           n == worker[w].attempts + 1
           again == worker[w].pc = "retry" /\ n < MaxAttempts
           row == [job[j] EXCEPT !.status = IF again THEN "queued" ELSE "needs_human",
                                 !.attempts = n, !.backoff = again]
<1>1. /\ TypeOK /\ worker[w].pc \in {"retry", "giveUp"} /\ j \in Jobs /\ job[j] \in Row /\ redis \in Queue
      /\ LaneOf[j] = "container"
      /\ UNCHANGED <<host, builds, charged, crossed, hands, admins>> /\ worker' = [worker EXCEPT ![w] = IdleWorker]
  BY AtItsJob DEF IInv, HandleFailure
<1>2. worker[w].attempts \in Nat /\ worker[w].attempts < MaxAttempts
  BY <1>1, AtItsJob
<1>3. n \in 0 .. HeldAttempts /\ n \in Retries
  BY <1>2, ConstantsAre
<1>4. again \in BOOLEAN /\ (again => n < MaxAttempts)
  OBVIOUS
<1>5. PICK o \in Outcomes(j, row) :
         /\ Put(j, o)
         /\ redis' = IF again /\ o[2] THEN Add(Completed(w, redis), j, n, "delayed") ELSE Completed(w, redis)
  BY DEF HandleFailure
<1>6. redis' \in Queue
  BY <1>1, <1>3, <1>5, CompletedIs, AddIs
<1> HIDE DEF again, n
<1>7. row \in Row /\ row.attempts = n /\ (row.status = "queued" => again)
  <2>1. (IF again THEN "queued" ELSE "needs_human") \in {"absent", "queued", "running", "active", "needs_human"}
    OBVIOUS
  <2>2. row \in Row
    BY <1>1, <1>3, <1>4, <2>1, RowPatch DEF Runner
  <2> QED
    BY <1>1, <2>2 DEF Row
<1> HIDE DEF row
<1>8. /\ job' \in [Jobs -> Row] /\ (\A k \in Jobs : k # j => job'[k] = job[k])
      /\ mishaps' \in Nat /\ mishaps' >= mishaps /\ job'[j] \in {row, job[j]}
  BY <1>1, <1>5, <1>7, PutIs
<1>9. job'[j].status = "queued" => job'[j].attempts < MaxAttempts
  BY <1>1, <1>4, <1>7, <1>8 DEF IInv, QueuedFit
<1> QED
  BY <1>1, <1>6, <1>8, <1>9, IdleIs, WorkerKeeps

-----------------------------------------------------------------------------
(* The environment.                                                        *)

LEMMA CrashAppKeeps == ASSUME IInv, CrashApp PROVE IInv'
<1>1. /\ TypeOK /\ job \in [Jobs -> Row] /\ redis \in Queue /\ UNCHANGED <<host, builds, charged, crossed, hands, admins>>
      /\ worker' = [w \in Workers |-> IdleWorker] /\ Fail /\ builds \in [Jobs -> Nat] /\ mishaps \in Nat
  BY TypeIs DEF IInv, CrashApp
<1>2. job' = [j \in Jobs |-> IF job[j].runner = "app" THEN [job[j] EXCEPT !.runner = "gone"] ELSE job[j]]
  BY DEF CrashApp
<1>3. \A j \in Jobs : /\ job'[j] \in Row /\ job'[j].status = job[j].status /\ job'[j].attempts = job[j].attempts
  BY <1>1, <1>2 DEF Row, Runner
<1>4. job' \in [Jobs -> Row]
  BY <1>2, <1>3
<1>5. redis' \in Queue
  <2>1. redis' = [j \in Jobs |-> [n \in Retries |-> IF redis[j][n] \in Workers THEN "waiting" ELSE redis[j][n]]]
    BY DEF CrashApp
  <2>2. \A j \in Jobs, n \in Retries : redis[j][n] \in Message /\ "waiting" \in Message
    BY <1>1 DEF Queue, Message
  <2> QED
    BY <2>1, <2>2 DEF Queue
<1>6. worker' \in [Workers -> WorkerLocal] /\ WorkerFit'
  BY <1>1, IdleIs DEF WorkerFit
<1>7. mishaps' \in Nat /\ mishaps' >= mishaps
  BY <1>1, FailIs
<1> QED
  BY <1>1, <1>3, <1>4, <1>5, <1>6, <1>7, BackendKeeps DEF IInv, QueuedFit

\* The rows keep their status and their attempts, and only Redis moves besides.
LEMMA TimersKeep ==
  ASSUME IInv,
         \/ \E j \in Jobs : Reconcile(j) \/ Elapse(j) \/ GrowStale(j) \/ \E n \in Retries : Promote(j, n)
         \/ LoseRedis
  PROVE  IInv'
<1>1. /\ TypeOK /\ job \in [Jobs -> Row] /\ redis \in Queue /\ worker \in [Workers -> WorkerLocal]
      /\ builds \in [Jobs -> Nat] /\ mishaps \in Nat
      /\ UNCHANGED <<worker, host, builds, charged, crossed, hands, admins>>
  BY TypeIs DEF IInv, Reconcile, Elapse, GrowStale, Promote, LoseRedis
<1>2. /\ job' \in [Jobs -> Row]
      /\ \A k \in Jobs : job'[k].status = job[k].status /\ job'[k].attempts = job[k].attempts
  <2>1. CASE \E j \in Jobs : Elapse(j) \/ GrowStale(j)
    <3>1. PICK j \in Jobs : Elapse(j) \/ GrowStale(j)
      BY <2>1
    <3>2. \A r \in {[job[j] EXCEPT !.backoff = FALSE], [job[j] EXCEPT !.stale = TRUE]} :
             r \in Row /\ r.status = job[j].status /\ r.attempts = job[j].attempts
      BY <1>1 DEF Row
    <3>3. \/ job' = [job EXCEPT ![j] = [job[j] EXCEPT !.backoff = FALSE]]
          \/ job' = [job EXCEPT ![j] = [job[j] EXCEPT !.stale = TRUE]]
      BY <3>1 DEF Elapse, GrowStale
    <3>4. PICK r \in Row : job' = [job EXCEPT ![j] = r] /\ r.status = job[j].status /\ r.attempts = job[j].attempts
      BY <3>2, <3>3
    <3> QED
      BY <1>1, <3>4
  <2>2. CASE UNCHANGED job
    BY <1>1, <2>2
  <2> QED
    BY <2>1, <2>2 DEF Reconcile, Promote, LoseRedis
<1>3. redis' \in Queue
  <2>1. CASE \E j \in Jobs : Reconcile(j)
    <3>1. PICK j \in Jobs : redis' = Add(redis, j, 0, "waiting")
      BY <2>1 DEF Reconcile
    <3> QED
      BY <1>1, <3>1, AddIs, ConstantsAre
  <2>2. CASE \E j \in Jobs : \E n \in Retries : Promote(j, n)
    <3>1. PICK j \in Jobs, n \in Retries : redis' = [redis EXCEPT ![j][n] = "waiting"]
      BY <2>2 DEF Promote
    <3>2. "waiting" \in Message
      BY DEF Message
    <3> QED
      BY <1>1, <3>1, <3>2, MessageIs
  <2>3. CASE LoseRedis
    BY <2>3 DEF LoseRedis, Queue, Message
  <2>4. CASE \E j \in Jobs : Elapse(j) \/ GrowStale(j)
    BY <1>1, <2>4 DEF Elapse, GrowStale
  <2> QED
    BY <2>1, <2>2, <2>3, <2>4
<1>4. mishaps' \in Nat /\ mishaps' >= mishaps
  BY <1>1, FailIs DEF Reconcile, Elapse, GrowStale, Promote, LoseRedis
<1>5. WorkerFit'
  BY <1>1 DEF IInv, WorkerFit, Free
<1> QED
  BY <1>1, <1>2, <1>3, <1>4, <1>5, BackendKeeps DEF IInv, QueuedFit

LEMMA AdminRetryKeeps == ASSUME IInv, NEW j \in Jobs, AdminRetry(j) PROVE IInv'
<1>1. /\ TypeOK /\ job \in [Jobs -> Row] /\ builds \in [Jobs -> Nat] /\ charged \in [Jobs -> Nat]
      /\ crossed \in [Jobs -> BOOLEAN] /\ mishaps \in Nat /\ admins \in Nat
      /\ UNCHANGED <<redis, worker, host, hands, mishaps>> /\ admins' = admins + 1
      /\ builds' = [builds EXCEPT ![j] = 0]
      /\ charged' = [charged EXCEPT ![j] = 0] /\ crossed' = [crossed EXCEPT ![j] = FALSE]
  BY TypeIs DEF IInv, AdminRetry
<1>2. /\ job' \in [Jobs -> Row] /\ (\A k \in Jobs : k # j => job'[k] = job[k])
      /\ job'[j].status = "queued" /\ job'[j].attempts = 0
  <2>1. [job[j] EXCEPT !.status = "queued", !.attempts = 0, !.backoff = FALSE] \in Row
    <3>1. job[j] \in Row /\ 0 \in 0 .. HeldAttempts
      BY <1>1, ConstantsAre
    <3> QED
      BY <3>1 DEF Row
  <2>2. job' = [job EXCEPT ![j] = [job[j] EXCEPT !.status = "queued", !.attempts = 0, !.backoff = FALSE]]
    BY DEF AdminRetry
  <2> QED
    BY <1>1, <2>1, <2>2 DEF Row
<1>3. charged' \in [Jobs -> Nat] /\ crossed' \in [Jobs -> BOOLEAN] /\ builds' \in [Jobs -> Nat] /\ admins' \in Nat
  BY <1>1
<1>4. TypeOK'
  BY <1>1, <1>2, <1>3 DEF TypeOK
<1>5. \A k \in Jobs : Free(k)'
  BY <1>1 DEF Free
<1>6. QueuedFit' /\ WorkerFit' /\ HostFit' /\ HeldFit'
  <2>1. QueuedFit'
    BY <1>2, ConstantsAre DEF IInv, QueuedFit
  <2>2. WorkerFit'
    BY <1>1, <1>5 DEF IInv, WorkerFit
  <2>3. HostFit'
    BY <1>1, <1>5, HostAtJob DEF IInv, HostFit, RunFit
  <2> QED
    BY <1>5, <2>1, <2>2, <2>3 DEF HeldFit
<1>7. ChargeFit'
  <2>1. HostBuildsCharged'
    BY <1>1, <1>2, HostAtJob DEF IInv, ChargeFit, HostBuildsCharged
  <2>2. \A k \in Jobs : charged'[k] > 0 => LaneOf[k] = "bench"
    BY <1>1 DEF IInv, ChargeFit
  <2>3. \A k \in Jobs : charged'[k] = 0 \/ (crossed'[k] = crossed[k] /\ charged'[k] = charged[k])
    BY <1>1
  <2>4. \A h \in Hosts : Owed(host[h], charged', crossed', mishaps)
    <3>1. SUFFICES ASSUME NEW h \in Hosts PROVE Owed(host[h], charged', crossed', mishaps)
      OBVIOUS
    <3>2. \A k \in Jobs : crossed'[k] \/ charged'[k] = 0 \/ (~crossed[k] /\ charged'[k] <= charged[k])
      BY <1>1, <1>3, <2>3
    <3>3. PICK x \in HostLocal : x = host[h] /\ (x.pc \in AtJob => x.job \in Jobs) /\ Owed(x, charged, crossed, mishaps)
      BY HostAtJob DEF IInv, ChargeFit
    <3>4. PICK d \in [Jobs -> Nat], l \in [Jobs -> BOOLEAN] : d = charged' /\ l = crossed'
      BY <1>3
    <3>5. PICK c \in [Jobs -> Nat], k \in [Jobs -> BOOLEAN], m \in Nat : c = charged /\ k = crossed /\ m = mishaps
      BY <1>1
    <3>6. m <= m /\ Owed(x, c, k, m) /\ \A i \in Jobs : l[i] \/ d[i] = 0 \/ (~k[i] /\ d[i] <= c[i])
      BY <3>2, <3>3, <3>4, <3>5
    <3>7. Owed(x, d, l, m)
      BY <3>3, <3>6, OwedStays
    <3> QED
      BY <3>3, <3>4, <3>5, <3>7
  <2> QED
    BY <1>1, <2>1, <2>2, <2>4 DEF ChargeFit
<1> QED
  BY <1>4, <1>6, <1>7 DEF IInv

-----------------------------------------------------------------------------
(* The steps of a run of the host.                                         *)

\* A run of h comes to stand at x.
LEMMA HostKeeps ==
  ASSUME IInv, NEW h \in Hosts, NEW x \in HostLocal, host' = [host EXCEPT ![h] = x],
         UNCHANGED <<redis, worker, admins>>, mishaps' \in Nat, mishaps' >= mishaps, hands' \in Nat,
         job' \in [Jobs -> Row], builds' \in [Jobs -> Nat], charged' \in [Jobs -> Nat], crossed' \in [Jobs -> BOOLEAN],
         \A j \in Jobs : job'[j].status = "queued" => job[j].status = "queued" /\ job'[j].attempts = job[j].attempts,
         \A j \in Jobs : ~Free(j) => job'[j].status = job[j].status /\ job'[j].attempts = job[j].attempts
                                     /\ builds'[j] = builds[j],
         RunFit(x), Owed(x, charged', crossed', mishaps'),
         \A g \in Hosts \ {h}, j \in Jobs :
            ~Holds(g, j) \/ crossed'[j] \/ (~crossed[j] /\ charged'[j] <= charged[j]),
         \A j \in Jobs : charged'[j] > 0 => LaneOf[j] = "bench",
         HostBuildsCharged'
  PROVE  IInv'
<1>1. QueuedFit'
  BY DEF IInv, QueuedFit
<1>2. WorkerFit'
  BY DEF IInv, WorkerFit, Free
<1>3. HeldFit'
  BY DEF IInv, HeldFit, Free
<1>4. host' \in [Hosts -> HostLocal] /\ \A g \in Hosts : host'[g] = IF g = h THEN x ELSE host[g]
  BY HostAtJob
<1>5. TypeOK'
  BY <1>4 DEF IInv, TypeOK, HostLocal
<1>6. HostFit'
  <2>1. \A g \in Hosts : RunFit(host[g])
    BY DEF IInv, HostFit
  <2> QED
    BY <1>4, <2>1 DEF HostFit, RunFit, Free
<1>7. ChargeFit'
  <2>1. ASSUME NEW g \in Hosts \ {h} PROVE Owed(host[g], charged', crossed', mishaps')
    <3>1. PICK y \in HostLocal : y = host[g] /\ (y.pc \in AtJob => y.job \in Jobs) /\ Owed(y, charged, crossed, mishaps)
      BY HostAtJob DEF IInv, ChargeFit
    <3>2. PICK d \in [Jobs -> Nat], l \in [Jobs -> BOOLEAN], n \in Nat : d = charged' /\ l = crossed' /\ n = mishaps'
      OBVIOUS
    <3>3. PICK c \in [Jobs -> Nat], k \in [Jobs -> BOOLEAN], m \in Nat : c = charged /\ k = crossed /\ m = mishaps
      BY HostAtJob
    <3>4. \A j \in Jobs : \/ y.job # j /\ (y.pc \in {"off", "reclaim"} \/ \A s \in y.todo : s.job # j)
                          \/ l[j] \/ (~k[j] /\ d[j] <= c[j])
      BY <3>1, <3>2, <3>3 DEF Holds
    <3>5. m <= n /\ Owed(y, c, k, m)
      BY <3>1, <3>2, <3>3
    <3>6. Owed(y, d, l, n)
      BY <3>1, <3>4, <3>5, OwedStays
    <3> QED
      BY <3>1, <3>2, <3>6
  <2> QED
    BY <1>4, <2>1 DEF ChargeFit
<1> QED
  BY <1>1, <1>2, <1>3, <1>5, <1>6, <1>7 DEF IInv

\* Nothing is charged, and no count of attempts changes: a run that gives a
\* failure of its own up takes a mishap for it.
LEMMA HostCalm ==
  ASSUME IInv, NEW h \in Hosts, NEW x \in HostLocal, host' = [host EXCEPT ![h] = x],
         UNCHANGED <<redis, worker, charged, admins>>, mishaps' \in Nat, mishaps' >= mishaps, hands' \in Nat,
         job' \in [Jobs -> Row], builds' \in [Jobs -> Nat], crossed' \in [Jobs -> BOOLEAN],
         \A j \in Jobs : job'[j].attempts = job[j].attempts,
         \A j \in Jobs : job'[j].status = "queued" => job[j].status = "queued",
         \A j \in Jobs : ~Free(j) => job'[j].status = job[j].status /\ builds'[j] = builds[j],
         \A j \in Jobs : crossed[j] => crossed'[j],
         host[h].pc = "failed" => mishaps' = mishaps + 1,
         RunFit(x), Owed(x, charged, crossed', mishaps')
  PROVE  IInv'
<1>1. \A g \in Hosts, j \in Jobs : crossed'[j] \/ (~crossed[j] /\ charged'[j] <= charged[j])
  BY HostAtJob
<1>2. \A j \in Jobs : charged'[j] > 0 => LaneOf[j] = "bench"
  BY DEF IInv, ChargeFit
<1>3. HostBuildsCharged'
  <2>1. SUFFICES ASSUME NEW j \in Jobs, ~crossed'[j]
                 PROVE  charged[j] <= job[j].attempts + mishaps'
                          + (IF \E g \in Hosts : host'[g].job = j /\ host'[g].pc = "failed" THEN 1 ELSE 0)
    BY DEF HostBuildsCharged
  <2>2. charged[j] <= job[j].attempts + mishaps
          + (IF \E g \in Hosts : host[g].job = j /\ host[g].pc = "failed" THEN 1 ELSE 0)
    BY <2>1 DEF IInv, ChargeFit, HostBuildsCharged
  <2>3. charged[j] \in Nat /\ job[j].attempts \in Nat /\ mishaps \in Nat
    BY HostAtJob
  <2>4. CASE \E g \in Hosts : host'[g].job = j /\ host'[g].pc = "failed"
    BY <2>2, <2>3, <2>4
  <2>5. CASE host[h].pc = "failed"
    BY <2>2, <2>3, <2>5
  <2>6. CASE ~\E g \in Hosts : host[g].job = j /\ host[g].pc = "failed"
    BY <2>2, <2>3, <2>6
  <2>7. CASE \E g \in Hosts \ {h} : host[g].job = j /\ host[g].pc = "failed"
    <3>1. \A g \in Hosts \ {h} : host'[g] = host[g]
      BY HostAtJob
    <3> QED
      BY <2>4, <2>7, <3>1
  <2> QED
    BY <2>4, <2>5, <2>6, <2>7
<1>4. charged' \in [Jobs -> Nat] /\ \A j \in Jobs : job'[j].status = "queued" => job'[j].attempts = job[j].attempts
  BY HostAtJob
<1> QED
  BY <1>1, <1>2, <1>3, <1>4, HostKeeps

LEMMA HostPutIs ==
  ASSUME IInv, NEW h \in Hosts, NEW row \in Row, NEW then, host[h].job \in Jobs, HostPut(h, row, then)
  PROVE  /\ job' \in [Jobs -> Row] /\ (\A k \in Jobs : k # host[h].job => job'[k] = job[k])
         /\ mishaps' \in Nat /\ mishaps' >= mishaps
         /\ \E x \in {then, HostOff} : host' = [host EXCEPT ![h] = x]
         /\ job'[host[h].job] = row \/ (job'[host[h].job] = job[host[h].job] /\ mishaps' = mishaps + 1)
<1>1. PICK o \in Outcomes(host[h].job, row) :
         Put(host[h].job, o) /\ \E x \in {then, HostOff} : host' = [host EXCEPT ![h] = x]
  BY DEF HostPut, At
<1>2. TypeOK
  BY DEF IInv
<1> QED
  BY <1>1, <1>2, PutIs

\* A run that is off, or that reclaims, owes nothing.
LEMMA OffOwes ==
  ASSUME NEW x \in HostLocal, x.pc \in {"off", "reclaim"}, NEW c, NEW k, NEW m
  PROVE  Owed(x, c, k, m)
  BY DEF Owed, AtJob

LEMMA OffFits == RunFit(HostOff)
  BY OffIs DEF RunFit, AtJob

LEMMA HostStartKeeps == ASSUME IInv, NEW h \in Hosts, HostStart(h) PROVE IInv'
<1> DEFINE stale == {[job |-> j, attempts |-> 0] : j \in {k \in Jobs : HostRow(k) /\ job[k].stale}}
<1>1. /\ host[h].pc = "off" /\ UNCHANGED <<redis, worker, builds, charged, crossed, admins>>
      /\ Fail \/ UNCHANGED mishaps
      /\ job' = [j \in Jobs |-> IF job[j].runner = h THEN [job[j] EXCEPT !.runner = "gone"] ELSE job[j]]
      /\ \/ At(h, [HostOff EXCEPT !.pc = "reclaim", !.todo = stale])
         \/ At(h, [HostOff EXCEPT !.pc = "reclaim"])
  BY DEF HostStart
<1>2. mishaps' \in Nat /\ mishaps' >= mishaps /\ hands' \in Nat
  <2>1. hands' = hands \/ (hands > 0 /\ hands' = hands - 1)
    BY DEF HostStart
  <2> QED
    BY <1>1, <2>1, FailIs, HostAtJob
<1>3. \A j \in Jobs : job'[j] \in Row /\ job'[j].status = job[j].status /\ job'[j].attempts = job[j].attempts
  BY <1>1, HostAtJob DEF Row, Runner
<1>4. job' \in [Jobs -> Row]
  BY <1>1, <1>3
<1>5. \A s \in stale : s \in Snapshot /\ LaneOf[s.job] = "bench" /\ s.attempts < MaxAttempts /\ Free(s.job)
  <2>1. SUFFICES ASSUME NEW j \in Jobs, HostRow(j)
                 PROVE  [job |-> j, attempts |-> 0] \in Snapshot /\ LaneOf[j] = "bench" /\ 0 < MaxAttempts /\ Free(j)
    OBVIOUS
  <2>2. LaneOf[j] = "bench" /\ Free(j)
    BY <2>1 DEF HostRow, IInv, HeldFit
  <2> QED
    BY <2>2, ConstantsAre DEF Snapshot
<1> HIDE DEF stale
<1>6. PICK x \in HostLocal : /\ host' = [host EXCEPT ![h] = x]
                             /\ x.pc = "reclaim" /\ x.job = None /\ x.todo \subseteq stale
  <2>1. CASE At(h, [HostOff EXCEPT !.pc = "reclaim", !.todo = stale])
    <3>1. [HostOff EXCEPT !.pc = "reclaim", !.todo = stale] \in HostLocal
      BY <1>5, OffIs DEF HostLocal, HostPc
    <3> QED
      BY <2>1, <3>1, OffIs DEF HostLocal, At
  <2>2. CASE At(h, [HostOff EXCEPT !.pc = "reclaim"])
    <3>1. [HostOff EXCEPT !.pc = "reclaim"] \in HostLocal
      BY OffIs DEF HostLocal, HostPc
    <3> QED
      BY <2>2, <3>1, OffIs DEF HostLocal, At
  <2> QED
    BY <1>1, <2>1, <2>2
<1>7. RunFit(x) /\ Owed(x, charged, crossed', mishaps')
  <2>1. RunFit(x)
    BY <1>5, <1>6 DEF RunFit, AtJob
  <2> QED
    BY <1>6, <2>1 DEF Owed, AtJob
<1> QED
  BY <1>1, <1>2, <1>3, <1>4, <1>6, <1>7, HostAtJob, HostCalm

LEMMA HostReclaimKeeps == ASSUME IInv, NEW h \in Hosts, HostReclaim(h) PROVE IInv'
<1>1. PICK s \in host[h].todo : \E o \in Outcomes(s.job, [job[s.job] EXCEPT !.status = "needs_human", !.runner = None]) :
         /\ Put(s.job, o)
         /\ host' = [host EXCEPT ![h] = [host[h] EXCEPT !.todo = @ \ {s}]]
  BY DEF HostReclaim, At
<1> DEFINE row == [job[s.job] EXCEPT !.status = "needs_human", !.runner = None]
<1>2. /\ TypeOK /\ s.job \in Jobs /\ job[s.job] \in Row /\ host[h].pc = "reclaim" /\ Free(s.job)
      /\ UNCHANGED <<redis, worker, builds, charged, crossed, hands, admins>>
  BY HostAtJob DEF IInv, HostReclaim, HostFit, RunFit
<1>3. row \in Row /\ row.status = "needs_human" /\ row.attempts = job[s.job].attempts
  BY <1>2 DEF Row, Runner
<1>4. PICK o \in Outcomes(s.job, row) : Put(s.job, o)
  BY <1>1
<1> HIDE DEF row
<1>5. /\ job' \in [Jobs -> Row] /\ (\A k \in Jobs : k # s.job => job'[k] = job[k])
      /\ mishaps' \in Nat /\ mishaps' >= mishaps /\ job'[s.job] \in {row, job[s.job]}
  BY <1>2, <1>3, <1>4, PutIs
<1>6. PICK x \in HostLocal : /\ host' = [host EXCEPT ![h] = x]
                             /\ x.pc = "reclaim" /\ x.job = host[h].job /\ x.todo \subseteq host[h].todo
  <2>1. host[h] \in HostLocal
    BY HostAtJob
  <2>2. [host[h] EXCEPT !.todo = @ \ {s}] \in HostLocal
    BY <2>1 DEF HostLocal
  <2> QED
    BY <1>1, <1>2, <2>1, <2>2 DEF HostLocal
<1>7. RunFit(x) /\ Owed(x, charged, crossed', mishaps')
  <2>1. RunFit(x)
    BY <1>2, <1>6 DEF IInv, HostFit, RunFit, AtJob
  <2> QED
    BY <1>6, <2>1 DEF Owed, AtJob
<1>8. \A j \in Jobs : job'[j].attempts = job[j].attempts /\ (job'[j].status = "queued" => job[j].status = "queued")
  BY <1>3, <1>5
<1>9. \A j \in Jobs : ~Free(j) => job'[j].status = job[j].status /\ builds'[j] = builds[j]
  BY <1>2, <1>5
<1>10. builds' \in [Jobs -> Nat] /\ crossed' \in [Jobs -> BOOLEAN] /\ hands' \in Nat /\ host[h].pc # "failed"
       /\ \A j \in Jobs : crossed[j] => crossed'[j]
  BY <1>2, HostAtJob
<1> QED
  BY <1>2, <1>5, <1>6, <1>7, <1>8, <1>9, <1>10, HostCalm

\* The run lists the rows that still have an attempt, as they are.  A job whose
\* failure some other run has yet to report crosses that run.
LEMMA HostFetchKeeps == ASSUME IInv, NEW h \in Hosts, HostFetch(h) PROVE IInv'
<1> DEFINE fetched == {[job |-> j, attempts |-> job[j].attempts] : j \in {k \in Jobs : Eligible(k)}}
<1>1. /\ host[h].pc = "reclaim" /\ UNCHANGED <<job, redis, worker, builds, charged, hands, admins>>
      /\ Fail \/ UNCHANGED mishaps
  BY DEF HostFetch
<1>2. \/ At(h, [HostOff EXCEPT !.pc = "next", !.todo = fetched])
      \/ At(h, HostOff)
  BY DEF HostFetch
<1>3. \/ UNCHANGED crossed /\ At(h, HostOff)
      \/ crossed' = [j \in Jobs |->
            crossed[j] \/ (Eligible(j) /\ \E g \in Hosts \ {h} : host[g].job = j /\ host[g].pc = "failed")]
  BY DEF HostFetch
<1>4. mishaps' \in Nat /\ mishaps' >= mishaps
  BY <1>1, FailIs, HostAtJob
<1>5. \A s \in fetched : /\ s \in Snapshot /\ LaneOf[s.job] = "bench" /\ s.attempts < MaxAttempts /\ Free(s.job)
                        /\ s.job \in Jobs /\ s.attempts = job[s.job].attempts /\ Eligible(s.job)
  <2>1. SUFFICES ASSUME NEW j \in Jobs, Eligible(j)
                 PROVE  /\ [job |-> j, attempts |-> job[j].attempts] \in Snapshot
                        /\ LaneOf[j] = "bench" /\ job[j].attempts < MaxAttempts /\ Free(j)
    OBVIOUS
  <2>2. job[j].attempts \in 0 .. HeldAttempts
    BY HostAtJob DEF Row
  <2>3. Free(j)
    BY <2>1, <2>2, ConstantsAre DEF Eligible, IInv, HeldFit
  <2> QED
    BY <2>1, <2>2, <2>3 DEF Eligible, Snapshot
<1>6. \A s, t \in fetched : s.job = t.job => s = t
  OBVIOUS
<1>7. PICK x \in HostLocal : /\ host' = [host EXCEPT ![h] = x]
                             /\ x.job = None /\ ((x.pc = "next" /\ x.todo = fetched) \/ x = HostOff)
  <2>1. fetched \in SUBSET Snapshot
    BY <1>5
  <2> HIDE DEF fetched
  <2>2. [HostOff EXCEPT !.pc = "next", !.todo = fetched] \in HostLocal
    BY <2>1, OffIs DEF HostLocal, HostPc
  <2>3. /\ [HostOff EXCEPT !.pc = "next", !.todo = fetched].pc = "next"
        /\ [HostOff EXCEPT !.pc = "next", !.todo = fetched].todo = fetched
        /\ [HostOff EXCEPT !.pc = "next", !.todo = fetched].job = None
    BY OffIs DEF HostLocal
  <2>4. CASE At(h, HostOff)
    BY <2>4, OffIs DEF At
  <2>5. CASE At(h, [HostOff EXCEPT !.pc = "next", !.todo = fetched])
    BY <2>2, <2>3, <2>5 DEF At
  <2> QED
    BY <1>2, <2>4, <2>5
<1> HIDE DEF fetched
<1>8. RunFit(x)
  BY <1>5, <1>7, OffFits DEF RunFit, AtJob
<1>9. crossed' \in [Jobs -> BOOLEAN] /\ (\A j \in Jobs : crossed[j] => crossed'[j])
  BY <1>3, HostAtJob
<1>10. Owed(x, charged, crossed', mishaps')
  <2>1. CASE x = HostOff
    BY <2>1, OffOwes, OffIs
  <2>2. CASE x.pc = "next" /\ x.todo = fetched /\ x # HostOff
    <3>1. \A j \in Jobs : crossed'[j] \/ ~Eligible(j) \/ (~crossed[j]
              /\ ~\E g \in Hosts \ {h} : host[g].job = j /\ host[g].pc = "failed")
      <4>1. ~At(h, HostOff)
        BY <1>7, <2>2, HostAtJob DEF At
      <4> QED
        BY <1>3, <4>1
    <3>2. ASSUME NEW s \in fetched, ~crossed'[s.job] PROVE charged[s.job] <= s.attempts + mishaps'
      <4>1. /\ s.job \in Jobs /\ ~crossed[s.job] /\ s.attempts = job[s.job].attempts
            /\ ~\E g \in Hosts : host[g].job = s.job /\ host[g].pc = "failed"
        BY <1>1, <1>5, <3>1, <3>2
      <4>2. charged[s.job] <= job[s.job].attempts + mishaps
        BY <4>1, HostAtJob DEF IInv, ChargeFit, HostBuildsCharged
      <4> QED
        BY <1>4, <4>1, <4>2, HostAtJob
    <3>3. \A s \in fetched : s.job # None
      BY <1>5, ConstantsAssumption
    <3> QED
      BY <1>6, <1>7, <2>2, <3>2, <3>3 DEF Owed, AtJob
  <2> QED
    BY <1>7, <2>1, <2>2
<1>11. /\ job' \in [Jobs -> Row] /\ builds' \in [Jobs -> Nat] /\ hands' \in Nat /\ host[h].pc # "failed"
       /\ \A j \in Jobs : job'[j] = job[j] /\ builds'[j] = builds[j]
  BY <1>1, HostAtJob
<1> QED
  BY <1>1, <1>4, <1>7, <1>8, <1>9, <1>10, <1>11, HostCalm

\* A step of a run that leaves the rows alone.
LEMMA HostOnly ==
  ASSUME IInv, NEW h \in Hosts, NEW x \in HostLocal, host' = [host EXCEPT ![h] = x],
         UNCHANGED <<job, redis, worker, charged, crossed, hands, admins>>,
         mishaps' \in Nat, mishaps' >= mishaps, builds' \in [Jobs -> Nat],
         \A j \in Jobs : ~Free(j) => builds'[j] = builds[j],
         host[h].pc = "failed" => mishaps' = mishaps + 1,
         RunFit(x), Owed(x, charged, crossed, mishaps')
  PROVE  IInv'
<1>1. job' \in [Jobs -> Row] /\ crossed' \in [Jobs -> BOOLEAN] /\ hands' \in Nat
  BY HostAtJob
<1> QED
  BY <1>1, HostCalm

\* The run is done with its job, or was at none, and has its list left.
LEMMA NextIs ==
  ASSUME IInv, NEW h \in Hosts, host[h].pc \notin {"off", "reclaim"}, mishaps' \in Nat, mishaps' >= mishaps
  PROVE  /\ NextHostJob(h) \in HostLocal /\ NextHostJob(h).pc = "next" /\ NextHostJob(h).job = None
         /\ NextHostJob(h).todo = host[h].todo
         /\ RunFit(NextHostJob(h)) /\ Owed(NextHostJob(h), charged, crossed, mishaps')
<1>1. /\ host[h].todo \in SUBSET Snapshot /\ \A s \in host[h].todo : s.job # None
  BY HostAtJob DEF HostLocal
<1>2. /\ NextHostJob(h) \in HostLocal /\ NextHostJob(h).pc = "next" /\ NextHostJob(h).job = None
      /\ NextHostJob(h).todo = host[h].todo
  BY <1>1, OffIs DEF NextHostJob, HostLocal, HostPc
<1>3. RunFit(NextHostJob(h))
  BY <1>2 DEF IInv, HostFit, RunFit, AtJob
<1>4. Owed(NextHostJob(h), charged, crossed, mishaps')
  <2>1. Owed(host[h], charged, crossed, mishaps')
    BY RunOwes
  <2> QED
    BY <1>1, <1>2, <2>1 DEF Owed, AtJob
<1> QED
  BY <1>2, <1>3, <1>4

\* The run goes on with its job.
LEMMA GoesOn ==
  ASSUME IInv, NEW h \in Hosts, host[h].pc \in AtJob \ {"failed"}, NEW pc \in AtJob \ {"failed"},
         mishaps' \in Nat, mishaps' >= mishaps
  PROVE  LET x == [host[h] EXCEPT !.pc = pc]
         IN  /\ x \in HostLocal /\ x.pc = pc /\ x.job = host[h].job /\ x.attempts = host[h].attempts /\ x.todo = host[h].todo
             /\ RunFit(x) /\ Owed(x, charged, crossed, mishaps')
<1> DEFINE x == [host[h] EXCEPT !.pc = pc]
<1>1. x \in HostLocal /\ x.pc = pc /\ x.job = host[h].job /\ x.attempts = host[h].attempts /\ x.todo = host[h].todo
  BY HostAtJob DEF HostLocal, HostPc, AtJob
<1> HIDE DEF x
<1>2. RunFit(x)
  BY <1>1 DEF IInv, HostFit, RunFit
<1>3. Owed(x, charged, crossed, mishaps')
  <2>1. Owed(host[h], charged, crossed, mishaps') /\ host[h].pc \notin {"off", "reclaim"}
    BY RunOwes DEF AtJob
  <2> QED
    BY <1>1, <2>1 DEF Owed, AtJob
<1> QED
  BY <1>1, <1>2, <1>3 DEF x

LEMMA HostCheckKeeps == ASSUME IInv, NEW h \in Hosts, HostCheck(h) PROVE IInv'
<1>1. PICK s \in host[h].todo :
         LET rest == [NextHostJob(h) EXCEPT !.todo = @ \ {s}] IN
         /\ At(h, rest) \/ At(h, [rest EXCEPT !.pc = "claim", !.job = s.job, !.attempts = s.attempts])
         /\ Fail \/ UNCHANGED mishaps
  BY DEF HostCheck
<1> DEFINE rest == [NextHostJob(h) EXCEPT !.todo = host[h].todo \ {s}]
           mine == [rest EXCEPT !.pc = "claim", !.job = s.job, !.attempts = s.attempts]
<1>2. /\ host[h].pc = "next" /\ UNCHANGED <<job, redis, worker, builds, charged, crossed, hands, admins>>
      /\ mishaps' \in Nat /\ mishaps' >= mishaps
  BY <1>1, FailIs, HostAtJob DEF HostCheck
<1>3. NextHostJob(h) \in HostLocal /\ NextHostJob(h).todo = host[h].todo /\ NextHostJob(h).pc = "next"
      /\ NextHostJob(h).job = None /\ RunFit(NextHostJob(h)) /\ Owed(NextHostJob(h), charged, crossed, mishaps')
  BY <1>2, NextIs
<1>4. /\ rest \in HostLocal /\ rest.pc = "next" /\ rest.job = None /\ rest.todo = host[h].todo \ {s}
      /\ [NextHostJob(h) EXCEPT !.todo = @ \ {s}] = rest
  <2>1. [NextHostJob(h) EXCEPT !.todo = @ \ {s}] = rest
    BY <1>3
  <2> QED
    BY <1>3, <2>1 DEF HostLocal
<1>5. /\ s \in Snapshot /\ s.job \in Jobs /\ LaneOf[s.job] = "bench" /\ s.attempts < MaxAttempts /\ Free(s.job)
      /\ crossed[s.job] \/ charged[s.job] <= s.attempts + mishaps'
      /\ \A t \in host[h].todo : t.job = s.job => t = s
  <2>1. s \in Snapshot /\ s.job \in Jobs
    BY HostAtJob DEF HostLocal
  <2> QED
    BY <1>3, <2>1 DEF RunFit, Owed
<1>6. /\ mine \in HostLocal /\ mine.pc = "claim" /\ mine.job = s.job /\ mine.attempts = s.attempts
      /\ mine.todo = host[h].todo \ {s}
  BY <1>4, <1>5 DEF HostLocal, HostPc, Snapshot
<1> HIDE DEF rest, mine
<1>7. At(h, rest) \/ At(h, mine)
  BY <1>1, <1>4 DEF mine
<1>8. RunFit(rest) /\ Owed(rest, charged, crossed, mishaps')
  <2>1. RunFit(rest)
    BY <1>3, <1>4 DEF RunFit, AtJob
  <2> QED
    BY <1>3, <1>4, <2>1 DEF Owed, AtJob
<1>9. RunFit(mine) /\ Owed(mine, charged, crossed, mishaps')
  <2>1. RunFit(mine)
    BY <1>3, <1>5, <1>6 DEF RunFit, AtJob
  <2>2. \A t \in mine.todo : /\ crossed[t.job] \/ charged[t.job] <= t.attempts + mishaps'
                             /\ t.job # mine.job /\ \A u \in mine.todo : u.job = t.job => u = t
    BY <1>3, <1>5, <1>6 DEF Owed
  <2>3. mine.pc # "failed" /\ mine.attempts \in Nat /\ charged[s.job] \in Nat
    BY <1>5, <1>6, HostAtJob, ConstantsAre DEF HostLocal
  <2>4. crossed[mine.job] \/ charged[mine.job] <= mine.attempts + mishaps' + (IF mine.pc = "failed" THEN 1 ELSE 0)
    BY <1>2, <1>5, <1>6, <2>3
  <2> QED
    BY <2>1, <2>2, <2>4 DEF Owed
<1>10. builds' \in [Jobs -> Nat] /\ \A j \in Jobs : builds'[j] = builds[j]
  BY <1>2, HostAtJob
<1>11. CASE At(h, rest)
  BY <1>2, <1>4, <1>8, <1>10, <1>11, HostOnly DEF At
<1>12. CASE At(h, mine)
  BY <1>2, <1>6, <1>9, <1>10, <1>12, HostOnly DEF At
<1> QED
  BY <1>7, <1>11, <1>12

LEMMA HostStopsKeeps == ASSUME IInv, NEW h \in Hosts, HostEnd(h) \/ CrashHost(h) PROVE IInv'
<1>1. /\ host' = [host EXCEPT ![h] = HostOff] /\ UNCHANGED <<job, redis, worker, builds, charged, crossed, hands, admins>>
      /\ \/ Fail
         \/ UNCHANGED mishaps /\ host[h].pc = "next"
  BY DEF HostEnd, CrashHost, At
<1>2. mishaps' \in Nat /\ mishaps' >= mishaps /\ (host[h].pc = "next" \/ mishaps' = mishaps + 1)
  BY <1>1, FailIs, HostAtJob DEF Fail
<1>3. builds' \in [Jobs -> Nat] /\ \A j \in Jobs : builds'[j] = builds[j]
  BY <1>1, HostAtJob
<1>4. Owed(HostOff, charged, crossed, mishaps')
  BY OffOwes, OffIs
<1> QED
  BY <1>1, <1>2, <1>3, <1>4, OffIs, OffFits, HostOnly

LEMMA HostClaimKeeps == ASSUME IInv, NEW h \in Hosts, HostClaim(h) PROVE IInv'
<1> DEFINE j == host[h].job
           row == [job[j] EXCEPT !.status = "running", !.runner = h, !.stale = FALSE]
           then == [host[h] EXCEPT !.pc = "verify"]
<1>1. /\ host[h].pc = "claim" /\ host[h].pc \in AtJob \ {"failed"} /\ "verify" \in AtJob \ {"failed"}
      /\ j \in Jobs /\ Free(j) /\ job[j] \in Row
      /\ UNCHANGED <<redis, worker, builds, charged, crossed, hands, admins>> /\ HostPut(h, row, then)
  BY HostAtJob DEF HostClaim, AtJob
<1>2. row \in Row /\ row.status = "running" /\ row.attempts = job[j].attempts
  BY <1>1 DEF Row, Runner
<1> HIDE DEF row, then
<1>3. /\ job' \in [Jobs -> Row] /\ (\A k \in Jobs : k # j => job'[k] = job[k])
      /\ mishaps' \in Nat /\ mishaps' >= mishaps /\ job'[j] \in {row, job[j]}
      /\ \E x \in {then, HostOff} : host' = [host EXCEPT ![h] = x]
  BY <1>1, <1>2, HostPutIs
<1>4. then \in HostLocal /\ RunFit(then) /\ Owed(then, charged, crossed, mishaps')
  BY <1>1, <1>3, GoesOn DEF then
<1>5. HostOff \in HostLocal /\ RunFit(HostOff) /\ Owed(HostOff, charged, crossed, mishaps')
  BY OffIs, OffFits, OffOwes
<1>6. PICK x \in HostLocal : host' = [host EXCEPT ![h] = x] /\ RunFit(x) /\ Owed(x, charged, crossed, mishaps')
  BY <1>3, <1>4, <1>5
<1>7. /\ \A k \in Jobs : job'[k].attempts = job[k].attempts
      /\ \A k \in Jobs : job'[k].status = "queued" => job[k].status = "queued"
      /\ \A k \in Jobs : ~Free(k) => job'[k].status = job[k].status /\ builds'[k] = builds[k]
  BY <1>1, <1>2, <1>3
<1>8. builds' \in [Jobs -> Nat] /\ crossed' \in [Jobs -> BOOLEAN] /\ hands' \in Nat /\ crossed' = crossed
  BY <1>1, HostAtJob
<1> QED
  BY <1>1, <1>3, <1>6, <1>7, <1>8, HostCalm

LEMMA HostVerifyKeeps == ASSUME IInv, NEW h \in Hosts, HostVerify(h) PROVE IInv'
<1>1. /\ host[h].pc = "verify" /\ host[h].pc \in AtJob \ {"failed"} /\ "build" \in AtJob \ {"failed"}
      /\ host[h].job \in Jobs /\ Free(host[h].job)
      /\ UNCHANGED <<job, redis, worker, charged, crossed, hands, admins>>
      /\ Fail \/ UNCHANGED mishaps
      /\ \/ host' = [host EXCEPT ![h] = [host[h] EXCEPT !.pc = "build"]] /\ builds' = [builds EXCEPT ![host[h].job] = @ + 1]
         \/ host' = [host EXCEPT ![h] = NextHostJob(h)] /\ UNCHANGED builds
  BY HostAtJob DEF HostVerify, AtJob, At
<1>2. mishaps' \in Nat /\ mishaps' >= mishaps
  BY <1>1, FailIs, HostAtJob
<1>3. builds' \in [Jobs -> Nat] /\ \A j \in Jobs : ~Free(j) => builds'[j] = builds[j]
  BY <1>1, HostAtJob
<1>4. CASE host' = [host EXCEPT ![h] = [host[h] EXCEPT !.pc = "build"]]
  <2>1. PICK x \in HostLocal : x = [host[h] EXCEPT !.pc = "build"] /\ RunFit(x) /\ Owed(x, charged, crossed, mishaps')
    BY <1>1, <1>2, GoesOn
  <2> QED
    BY <1>1, <1>2, <1>3, <1>4, <2>1, HostOnly
<1>5. CASE host' = [host EXCEPT ![h] = NextHostJob(h)]
  <2>1. PICK x \in HostLocal : x = NextHostJob(h) /\ RunFit(x) /\ Owed(x, charged, crossed, mishaps')
    BY <1>1, <1>2, NextIs
  <2> QED
    BY <1>1, <1>2, <1>3, <1>5, <2>1, HostOnly
<1> QED
  BY <1>1, <1>4, <1>5

\* A failed build is charged at once, and reported after; it crosses every other
\* run that has the job.
LEMMA HostBuildKeeps == ASSUME IInv, NEW h \in Hosts, HostBuild(h) PROVE IInv'
<1> DEFINE j == host[h].job
<1>1. PICK pc \in {"active", "failed", "refused"} :
         /\ host' = [host EXCEPT ![h] = [host[h] EXCEPT !.pc = pc]]
         /\ charged' = IF pc = "failed" THEN [charged EXCEPT ![j] = @ + 1] ELSE charged
         /\ crossed' = IF pc = "failed" THEN [crossed EXCEPT ![j] = @ \/ \E g \in Hosts \ {h} : Holds(g, j)] ELSE crossed
  BY DEF HostBuild, At
<1>2. /\ host[h].pc = "build" /\ host[h].pc \in AtJob \ {"failed"} /\ j \in Jobs /\ LaneOf[j] = "bench"
      /\ UNCHANGED <<job, redis, worker, builds, hands, mishaps, admins>>
  BY HostAtJob DEF HostBuild, AtJob
<1>3. mishaps' \in Nat /\ mishaps' >= mishaps /\ mishaps' = mishaps /\ builds' \in [Jobs -> Nat] /\ hands' \in Nat
      /\ job' \in [Jobs -> Row]
  BY <1>2, HostAtJob
<1>4. CASE pc # "failed"
  <2>1. UNCHANGED <<charged, crossed>>
    BY <1>1, <1>4
  <2>2. pc \in AtJob \ {"failed"}
    BY <1>4 DEF AtJob
  <2>3. PICK x \in HostLocal : x = [host[h] EXCEPT !.pc = pc] /\ RunFit(x) /\ Owed(x, charged, crossed, mishaps')
    BY <1>2, <1>3, <2>2, GoesOn
  <2> QED
    BY <1>1, <1>2, <1>3, <2>1, <2>3, HostOnly
<1>5. CASE pc = "failed"
  <2>1. PICK x \in HostLocal : /\ host' = [host EXCEPT ![h] = x] /\ x.pc = "failed" /\ x.job = j
                               /\ x.attempts = host[h].attempts /\ x.todo = host[h].todo
    <3>1. [host[h] EXCEPT !.pc = "failed"] \in HostLocal /\ host[h] \in HostLocal
      BY HostAtJob DEF HostLocal, HostPc
    <3> QED
      BY <1>1, <1>5, <3>1 DEF HostLocal
  <2>2. /\ charged' \in [Jobs -> Nat] /\ crossed' \in [Jobs -> BOOLEAN]
        /\ charged'[j] = charged[j] + 1 /\ crossed'[j] = (crossed[j] \/ \E g \in Hosts \ {h} : Holds(g, j))
        /\ \A k \in Jobs : k # j => charged'[k] = charged[k] /\ crossed'[k] = crossed[k]
    BY <1>1, <1>2, <1>5, HostAtJob
  <2>3. RunFit(x)
    BY <1>2, <2>1 DEF IInv, HostFit, RunFit, AtJob
  <2>4. Owed(x, charged', crossed', mishaps')
    <3>1. Owed(host[h], charged, crossed, mishaps)
      BY DEF IInv, ChargeFit
    <3>2. crossed[j] \/ charged[j] <= host[h].attempts + mishaps
      BY <1>2, <3>1, HostAtJob DEF Owed
    <3>3. crossed'[x.job] \/ charged'[x.job] <= x.attempts + mishaps' + (IF x.pc = "failed" THEN 1 ELSE 0)
      BY <1>2, <2>1, <2>2, <3>2, HostAtJob
    <3>4. \A s \in x.todo : /\ crossed'[s.job] \/ charged'[s.job] <= s.attempts + mishaps'
                            /\ s.job # x.job /\ \A t \in x.todo : t.job = s.job => t = s
      <4>1. \A s \in x.todo : /\ s.job \in Jobs /\ s.job # j
                              /\ crossed[s.job] \/ charged[s.job] <= s.attempts + mishaps
                              /\ \A t \in x.todo : t.job = s.job => t = s
        BY <1>2, <2>1, <3>1, HostAtJob DEF Owed
      <4> QED
        BY <1>3, <2>1, <2>2, <4>1
    <3> QED
      BY <3>3, <3>4 DEF Owed
  <2>5. \A g \in Hosts \ {h}, k \in Jobs : ~Holds(g, k) \/ crossed'[k] \/ (~crossed[k] /\ charged'[k] <= charged[k])
    <3>1. SUFFICES ASSUME NEW g \in Hosts \ {h}, NEW k \in Jobs, Holds(g, k), ~crossed'[k]
                   PROVE  ~crossed[k] /\ charged'[k] <= charged[k]
      OBVIOUS
    <3>2. k # j
      BY <2>2, <3>1
    <3> QED
      BY <2>2, <3>1, <3>2, HostAtJob
  <2>6. \A k \in Jobs : charged'[k] > 0 => LaneOf[k] = "bench"
    BY <1>2, <2>2 DEF IInv, ChargeFit
  <2>7. HostBuildsCharged'
    <3>1. SUFFICES ASSUME NEW k \in Jobs, ~crossed'[k]
                   PROVE  charged'[k] <= job[k].attempts + mishaps
                            + (IF \E g \in Hosts : host'[g].job = k /\ host'[g].pc = "failed" THEN 1 ELSE 0)
      BY <1>2 DEF HostBuildsCharged
    <3>2. charged[k] \in Nat /\ job[k].attempts \in Nat /\ mishaps \in Nat /\ host' \in [Hosts -> HostLocal]
          /\ host'[h] = x /\ \A g \in Hosts \ {h} : host'[g] = host[g]
      BY <2>1, HostAtJob
    <3>3. ~crossed[k]
      BY <2>2, <3>1
    <3>4. charged[k] <= job[k].attempts + mishaps
            + (IF \E g \in Hosts : host[g].job = k /\ host[g].pc = "failed" THEN 1 ELSE 0)
      BY <3>3 DEF IInv, ChargeFit, HostBuildsCharged
    <3>5. CASE k = j
      <4>1. ~\E g \in Hosts \ {h} : Holds(g, j)
        BY <2>2, <3>1, <3>5
      <4>2. ~\E g \in Hosts : host[g].job = j /\ host[g].pc = "failed"
        BY <1>2, <4>1 DEF Holds
      <4>3. host'[h].job = k /\ host'[h].pc = "failed"
        BY <2>1, <3>2, <3>5
      <4>4. charged[k] <= job[k].attempts + mishaps
        BY <3>2, <3>4, <3>5, <4>2
      <4> QED
        BY <2>2, <3>2, <3>5, <4>3, <4>4
    <3>6. CASE k # j
      <4>1. charged'[k] = charged[k]
        BY <2>2, <3>6
      <4>2. ASSUME NEW g \in Hosts, host[g].job = k, host[g].pc = "failed"
            PROVE  host'[g].job = k /\ host'[g].pc = "failed"
        BY <1>2, <3>2, <4>2
      <4>3. CASE \E g \in Hosts : host[g].job = k /\ host[g].pc = "failed"
        BY <3>4, <4>1, <4>2, <4>3
      <4>4. CASE ~\E g \in Hosts : host[g].job = k /\ host[g].pc = "failed"
        BY <3>2, <3>4, <4>1, <4>4
      <4> QED
        BY <4>3, <4>4
    <3> QED
      BY <3>5, <3>6
  <2> QED
    BY <1>2, <1>3, <2>1, <2>2, <2>3, <2>4, <2>5, <2>6, <2>7, HostKeeps
<1> QED
  BY <1>4, <1>5

\* What is charged is on the row afterwards, or the loss of the report is a mishap.
LEMMA HostReportKeeps == ASSUME IInv, NEW h \in Hosts, HostReport(h) PROVE IInv'
<1> DEFINE j == host[h].job
           row == IF host[h].pc = "active"
                  THEN [job[j] EXCEPT !.status = "active"]
                  ELSE [job[j] EXCEPT !.status = "needs_human", !.runner = None, !.attempts = AttemptsAfter(h)]
<1>1. /\ host[h].pc \in {"active", "failed", "refused"} /\ host[h].pc \in AtJob /\ j \in Jobs /\ Free(j) /\ job[j] \in Row
      /\ UNCHANGED <<redis, worker, builds, charged, crossed, hands, admins>> /\ HostPut(h, row, NextHostJob(h))
  BY HostAtJob DEF HostReport, AtJob
<1>2. /\ AttemptsAfter(h) \in 0 .. HeldAttempts
      /\ AttemptsAfter(h) = IF host[h].pc = "refused" THEN MaxAttempts ELSE host[h].attempts + 1
  BY <1>1, HostAtJob, ConstantsAre DEF AttemptsAfter
<1>3. /\ row \in Row /\ row.status \in {"active", "needs_human"}
      /\ row.attempts = IF host[h].pc = "active" THEN job[j].attempts ELSE AttemptsAfter(h)
  BY <1>1, <1>2 DEF Row, Runner
<1> HIDE DEF row
<1>4. /\ job' \in [Jobs -> Row] /\ (\A k \in Jobs : k # j => job'[k] = job[k])
      /\ mishaps' \in Nat /\ mishaps' >= mishaps
      /\ \E x \in {NextHostJob(h), HostOff} : host' = [host EXCEPT ![h] = x]
      /\ job'[j] = row \/ (job'[j] = job[j] /\ mishaps' = mishaps + 1)
  BY <1>1, <1>3, HostPutIs
<1>5. PICK x \in HostLocal : /\ host' = [host EXCEPT ![h] = x] /\ x.pc \in {"off", "next"}
                             /\ RunFit(x) /\ Owed(x, charged, crossed, mishaps')
  <2>1. host[h].pc \notin {"off", "reclaim"}
    BY <1>1
  <2>2. /\ NextHostJob(h) \in HostLocal /\ NextHostJob(h).pc = "next" /\ RunFit(NextHostJob(h))
        /\ Owed(NextHostJob(h), charged, crossed, mishaps')
    BY <1>4, <2>1, NextIs
  <2>3. HostOff \in HostLocal /\ HostOff.pc = "off" /\ RunFit(HostOff) /\ Owed(HostOff, charged, crossed, mishaps')
    BY OffIs, OffFits, OffOwes
  <2> QED
    BY <1>4, <2>2, <2>3
<1>6. HostBuildsCharged'
  <2>1. SUFFICES ASSUME NEW k \in Jobs, ~crossed[k]
                 PROVE  charged[k] <= job'[k].attempts + mishaps'
                          + (IF \E g \in Hosts : host'[g].job = k /\ host'[g].pc = "failed" THEN 1 ELSE 0)
    BY <1>1 DEF HostBuildsCharged
  <2>2. /\ charged[k] \in Nat /\ job[k].attempts \in Nat /\ job'[k].attempts \in Nat /\ mishaps \in Nat
        /\ \A g \in Hosts \ {h} : host'[g] = host[g]
    BY <1>4, <1>5, HostAtJob, ConstantsAre DEF Row
  <2>3. charged[k] <= job[k].attempts + mishaps
          + (IF \E g \in Hosts : host[g].job = k /\ host[g].pc = "failed" THEN 1 ELSE 0)
    BY <2>1 DEF IInv, ChargeFit, HostBuildsCharged
  <2>4. crossed[j] \/ charged[j] <= host[h].attempts + mishaps + (IF host[h].pc = "failed" THEN 1 ELSE 0)
    BY <1>1 DEF IInv, ChargeFit, Owed
  <2>5. CASE k # j \/ (job'[k] = job[k] /\ host[h].pc # "failed")
    <3>1. job'[k] = job[k]
      BY <1>4, <2>5
    <3>2. ASSUME NEW g \in Hosts, host[g].job = k, host[g].pc = "failed"
          PROVE  host'[g].job = k /\ host'[g].pc = "failed"
      BY <2>2, <2>5, <3>2
    <3>3. CASE \E g \in Hosts : host[g].job = k /\ host[g].pc = "failed"
      BY <1>4, <2>2, <2>3, <3>1, <3>2, <3>3
    <3>4. CASE ~\E g \in Hosts : host[g].job = k /\ host[g].pc = "failed"
      BY <1>4, <2>2, <2>3, <3>1, <3>4
    <3> QED
      BY <3>3, <3>4
  <2>6. CASE k = j /\ job'[j] = job[j] /\ mishaps' = mishaps + 1
    <3>1. charged[k] <= job[k].attempts + mishaps + 1
      BY <2>2, <2>3
    <3> QED
      BY <2>2, <2>6, <3>1
  <2>7. CASE k = j /\ job'[j] = row /\ host[h].pc = "active"
    <3>1. job'[k].attempts = job[k].attempts
      BY <1>3, <2>7
    <3>2. ASSUME NEW g \in Hosts, host[g].job = k, host[g].pc = "failed"
          PROVE  host'[g].job = k /\ host'[g].pc = "failed"
      BY <2>2, <2>7, <3>2
    <3>3. CASE \E g \in Hosts : host[g].job = k /\ host[g].pc = "failed"
      BY <1>4, <2>2, <2>3, <3>1, <3>2, <3>3
    <3>4. CASE ~\E g \in Hosts : host[g].job = k /\ host[g].pc = "failed"
      BY <1>4, <2>2, <2>3, <3>1, <3>4
    <3> QED
      BY <3>3, <3>4
  <2>8. CASE k = j /\ job'[j] = row /\ host[h].pc # "active"
    <3>1. host[h].attempts \in Nat /\ host[h].attempts < MaxAttempts /\ MaxAttempts \in Nat
      BY <1>1, HostAtJob, ConstantsAre
    <3>2. charged[k] <= host[h].attempts + mishaps + (IF host[h].pc = "failed" THEN 1 ELSE 0)
      BY <2>1, <2>4, <2>8
    <3>3. job'[k].attempts = IF host[h].pc = "refused" THEN MaxAttempts ELSE host[h].attempts + 1
      BY <1>2, <1>3, <2>8
    <3>4. charged[k] <= job'[k].attempts + mishaps
      BY <1>1, <2>2, <2>8, <3>1, <3>2, <3>3
    <3> QED
      BY <1>4, <2>2, <3>4
  <2> QED
    BY <1>4, <2>5, <2>6, <2>7, <2>8
<1>7. builds' \in [Jobs -> Nat] /\ charged' \in [Jobs -> Nat] /\ crossed' \in [Jobs -> BOOLEAN] /\ hands' \in Nat
  BY <1>1, HostAtJob
<1>8. \A k \in Jobs : job'[k].status = "queued" => job[k].status = "queued" /\ job'[k].attempts = job[k].attempts
  BY <1>3, <1>4
<1>9. \A k \in Jobs : ~Free(k) => job'[k] = job[k] /\ builds'[k] = builds[k]
  BY <1>1, <1>4
<1>10. \A g \in Hosts \ {h}, k \in Jobs : crossed'[k] \/ (~crossed[k] /\ charged'[k] <= charged[k])
  BY <1>1, HostAtJob
<1>11. \A k \in Jobs : charged'[k] > 0 => LaneOf[k] = "bench"
  BY <1>1 DEF IInv, ChargeFit
<1>12. Owed(x, charged', crossed', mishaps')
  BY <1>1, <1>5
<1> QED
  BY <1>1, <1>4, <1>5, <1>6, <1>7, <1>8, <1>9, <1>10, <1>11, <1>12, HostKeeps

-----------------------------------------------------------------------------
(* The specification.                                                      *)

LEMMA InitFits == Init => IInv
<1> SUFFICES ASSUME Init PROVE IInv
  OBVIOUS
<1>1. PICK made \in Scenarios : job = [j \in Jobs |-> IF j \in made.jobs THEN NewRow(j) ELSE NoRow] /\ hands = made.hands
  BY DEF Init
<1>2. \A j \in Jobs : BirthOf[j] \in {"queued", "gated", "held"}
  BY ConstantsAssumption
<1>3. \A j \in Jobs : /\ NewRow(j) \in Row /\ NoRow \in Row /\ NoRow.status = "absent"
                      /\ NewRow(j).status = IF BirthOf[j] = "queued" THEN "queued" ELSE "needs_human"
                      /\ NewRow(j).attempts = IF BirthOf[j] = "held" THEN HeldAttempts ELSE 0
  BY <1>2, ConstantsAre DEF NewRow, NoRow, Row, Runner
<1>4. \A j \in Jobs : /\ job[j] \in Row /\ job[j].status \in {"absent", "queued", "needs_human"}
                      /\ job[j].status = "queued" => BirthOf[j] = "queued" /\ job[j].attempts = 0
                      /\ job[j].status = "needs_human" /\ BirthOf[j] = "held" => job[j].attempts = HeldAttempts
  BY <1>1, <1>3
<1>5. job \in [Jobs -> Row]
  BY <1>1, <1>4
<1>6. /\ worker = [w \in Workers |-> IdleWorker] /\ host = [h \in Hosts |-> HostOff]
      /\ builds = [j \in Jobs |-> 0] /\ charged = [j \in Jobs |-> 0] /\ crossed = [j \in Jobs |-> FALSE] /\ mishaps = 0 /\ admins = 0
      /\ redis \in [Jobs -> [Retries -> {"none", "waiting"}]]
  BY DEF Init
<1>7. TypeOK
  <2>1. redis \in Queue
    BY <1>6 DEF Queue, Message
  <2>2. hands \in Nat
    BY <1>1, ConstantsAssumption
  <2> QED
    BY <1>5, <1>6, <2>1, <2>2, IdleIs, OffIs, TypeIs
<1>8. QueuedFit
  BY <1>4, ConstantsAre DEF QueuedFit
<1>9. WorkerFit
  BY <1>6, IdleIs DEF WorkerFit
<1>10. HostFit
  BY <1>6, OffFits DEF HostFit
<1>11. HeldFit
  BY <1>4, <1>6 DEF HeldFit, Free
<1>12. ChargeFit
  <2>1. HostBuildsCharged
    BY <1>4, <1>6, OffIs, ConstantsAre DEF HostBuildsCharged, Row
  <2> QED
    BY <1>6, <2>1, OffIs, OffOwes DEF ChargeFit
<1> QED
  BY <1>7, <1>8, <1>9, <1>10, <1>11, <1>12 DEF IInv

LEMMA NextKeeps == IInv /\ [Next]_vars => IInv'
<1> SUFFICES ASSUME IInv, [Next]_vars PROVE IInv'
  OBVIOUS
<1>1. ASSUME NEW w \in Workers, WorkerNext(w) PROVE IInv'
  BY <1>1, LoadKeeps, EscalateKeeps, ClaimReadKeeps, ClaimWriteKeeps, ClaimVerifyKeeps, BuildKeeps, ActivateKeeps,
     HandleFailureKeeps DEF WorkerNext
<1>2. ASSUME NEW h \in Hosts, HostStart(h) \/ HostNext(h) \/ CrashHost(h) PROVE IInv'
  BY <1>2, HostStartKeeps, HostReclaimKeeps, HostFetchKeeps, HostCheckKeeps, HostStopsKeeps, HostClaimKeeps,
     HostVerifyKeeps, HostBuildKeeps, HostReportKeeps DEF HostNext
<1>3. CASE Timers \/ LoseRedis
  BY <1>3, TimersKeep DEF Timers
<1>4. CASE CrashApp
  BY <1>4, CrashAppKeeps
<1>5. ASSUME NEW j \in Jobs, AdminRetry(j) PROVE IInv'
  BY <1>5, AdminRetryKeeps
<1>6. CASE UNCHANGED vars
  BY <1>6 DEF vars, IInv, TypeOK, QueuedFit, WorkerFit, HostFit, HeldFit, ChargeFit, HostBuildsCharged, RunFit, Free
<1> QED
  BY <1>1, <1>2, <1>3, <1>4, <1>5, <1>6 DEF Next

LEMMA Inductive == Spec => []IInv
  BY InitFits, NextKeeps, PTL DEF Spec

\* The rows, the messages, and what the workers and the host hold are always
\* well formed.
THEOREM TypeCorrect == Spec => []TypeOK
<1>1. IInv => TypeOK
  BY DEF IInv
<1> QED
  BY <1>1, Inductive, PTL

\* A job held for its address is built by neither runner before an admin has
\* released it: the attempts it is born with keep it from the host's list, and
\* its status from the workers (HELD_JOB_ATTEMPTS in queue.js).
THEOREM HeldCorrect == Spec => []HeldNeverBuilt
<1>1. IInv => HeldNeverBuilt
  BY DEF IInv, HeldFit, Free, HeldNeverBuilt
<1> QED
  BY <1>1, Inductive, PTL

\* Every failed build of the host is charged to its job, however the backend and
\* the host write over each other's rows and however many runs of the host there
\* are at once, unless the report of it was lost or the failure met another run
\* that had the job listed before it, or that had yet to report on it.
THEOREM ChargedCorrect == Spec => []HostBuildsCharged
<1>1. IInv => HostBuildsCharged
  BY DEF IInv, ChargeFit
<1> QED
  BY <1>1, Inductive, PTL
=============================================================================
