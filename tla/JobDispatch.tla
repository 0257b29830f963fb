----------------------------- MODULE JobDispatch -----------------------------
(* How Provisioning Jobs are dispatched when the queue is BullMQ, and       *)
(* finished by the host when they are for the bench lane (queue.js, the     *)
(* worker's half of runner.js, murzak-bench-runner).                        *)
(*                                                                          *)
(* Redis carries job names only; the Frappe row is the truth.  A name comes *)
(* from the order (enqueue), from the reconcile timer and from a retry, and *)
(* a name of each sort is in Redis at most once.  The workers of a backend  *)
(* read the row and process it; they cannot build a bench job, so they give *)
(* it to a human, which is where the host's own runner takes it from.  Runs  *)
(* of that one are started by its timer, and by hand; they may overlap.     *)
EXTENDS Integers, FiniteSets

CONSTANTS
    Jobs,
    LaneOf,       \* Jobs -> {"container", "bench"}
    BirthOf,      \* Jobs -> {"queued", "gated", "held"}: how its order created it
    Scenarios,    \* the jobs that may be there in one behaviour, and its runs by hand
    Workers,      \* the workers of one backend process (PROVISIONING_CONCURRENCY)
    Hosts,        \* the host runners: each is one run of murzak-bench-runner after another
    ByHand,       \* those that are started by hand, and not by the timer
    MaxAttempts,  \* PROVISIONING_MAX_ATTEMPTS
    HeldAttempts, \* HELD_JOB_ATTEMPTS
    None,
    MaxMishaps,   \* bound on failed requests, crashes and losses
    MaxAdmin      \* bound on admin retries

ASSUME ConstantsAssumption ==
    /\ LaneOf \in [Jobs -> {"container", "bench"}]
    /\ BirthOf \in [Jobs -> {"queued", "gated", "held"}]
    /\ Scenarios \subseteq [jobs : SUBSET Jobs, hands : Nat]
    /\ MaxAttempts \in Nat \ {0}
    /\ HeldAttempts \in Nat /\ HeldAttempts > MaxAttempts
    /\ None \notin Workers /\ None \notin Jobs
    /\ ByHand \subseteq Hosts /\ {None, "app", "gone"} \cap Hosts = {}
    /\ MaxMishaps \in Nat /\ MaxAdmin \in Nat

VARIABLES
    job,       \* job[j]: the Provisioning Job row
    redis,     \* redis[j][n]: the message about j; 0 is jobId = name, n the n-th retry
    worker,    \* worker[w]: what a worker is doing
    host,      \* host[h]: where a run of the host stands, its job, what it has listed
    builds,    \* builds[j]: builds begun since an admin last retried j (history)
    charged,   \* charged[j]: failed host builds since then (history)
    crossed,   \* crossed[j]: has one of these met another run that had j listed (history)
    hands,     \* runs by hand that are still to come
    mishaps, admins

vars == <<job, redis, worker, host, builds, charged, crossed, hands, mishaps, admins>>

-----------------------------------------------------------------------------

\* The runner_id of the backend, of the last run of a host, or of a process that
\* is no more.
Runner == {None, "app", "gone"} \cup Hosts

Row == [status : {"absent", "queued", "running", "active", "needs_human"}, attempts : 0 .. HeldAttempts,
        backoff : BOOLEAN, runner : Runner, stale : BOOLEAN]

\* The row an order creates: queued, parked by the capacity gate, or held
\* because the address its customer chose could not be looked up.
NewRow(j) ==
    [status |-> IF BirthOf[j] = "queued" THEN "queued" ELSE "needs_human",
     attempts |-> IF BirthOf[j] = "held" THEN HeldAttempts ELSE 0,
     backoff |-> FALSE, runner |-> None, stale |-> FALSE]
NoRow == [status |-> "absent", attempts |-> 0, backoff |-> FALSE, runner |-> None, stale |-> FALSE]

Retries == 0 .. MaxAttempts

\* A message waits, is delayed, or is held by the worker that has taken it.
Message == {"none", "delayed", "waiting"} \cup Workers

WorkerPc == {"idle", "escalate", "claim", "write", "verify", "build", "activate", "retry", "giveUp"}
IdleWorker == [pc |-> "idle", job |-> None, id |-> 0, attempts |-> 0]

Snapshot == [job : Jobs, attempts : 0 .. HeldAttempts]
HostPc == {"off", "reclaim", "next", "claim", "verify", "build", "active", "failed", "refused"}
HostOff == [pc |-> "off", job |-> None, attempts |-> 0, todo |-> {}]

TypeOK ==
    /\ job \in [Jobs -> Row]
    /\ redis \in [Jobs -> [Retries -> Message]]
    /\ worker \in [Workers -> [pc : WorkerPc, job : Jobs \cup {None}, id : Retries, attempts : Nat]]
    /\ host \in [Hosts -> [pc : HostPc, job : Jobs \cup {None}, attempts : 0 .. HeldAttempts, todo : SUBSET Snapshot]]
    /\ builds \in [Jobs -> Nat] /\ charged \in [Jobs -> Nat] /\ crossed \in [Jobs -> BOOLEAN]
    /\ hands \in Nat /\ mishaps \in Nat /\ admins \in Nat

\* A job that was just created has been enqueued, if Redis took it.
Init ==
    /\ \E made \in Scenarios :
          /\ job = [j \in Jobs |-> IF j \in made.jobs THEN NewRow(j) ELSE NoRow]
          /\ hands = made.hands
    /\ redis \in {r \in [Jobs -> [Retries -> {"none", "waiting"}]] :
                    \A j \in Jobs : \A n \in Retries :
                        r[j][n] = "waiting" => n = 0 /\ job[j].status = "queued"}
    /\ worker = [w \in Workers |-> IdleWorker]
    /\ host = [h \in Hosts |-> HostOff]
    /\ builds = [j \in Jobs |-> 0] /\ charged = [j \in Jobs |-> 0] /\ crossed = [j \in Jobs |-> FALSE]
    /\ mishaps = 0 /\ admins = 0

Fail == mishaps < MaxMishaps /\ mishaps' = mishaps + 1

\* The rows after a PUT, and whether it was acknowledged.
Outcomes(j, row) ==
    {<<row, TRUE>>} \cup (IF mishaps < MaxMishaps THEN {<<row, FALSE>>, <<job[j], FALSE>>} ELSE {})

\* A PUT of row over j; a failed one counts as a mishap.
Put(j, o) ==
    /\ job' = [job EXCEPT ![j] = o[1]]
    /\ IF o[2] THEN UNCHANGED mishaps ELSE Fail

-----------------------------------------------------------------------------
(* Redis *)

\* queue.add is idempotent by jobId.
Add(r, j, n, state) == IF r[j][n] = "none" THEN [r EXCEPT ![j][n] = state] ELSE r

\* Mutant: only a job that never failed is dispatched.
ClaimableAtFirst(j) == job[j].status = "queued" /\ ~job[j].backoff /\ job[j].attempts = 0

Claimable(j) == job[j].status = "queued" /\ ~job[j].backoff

\* The reconcile timer re-injects a row that fetchClaimable lists.  One that
\* changes after the listing gives a message that a worker skips.
Reconcile(j) ==
    /\ Claimable(j) /\ redis[j][0] = "none"
    /\ redis' = Add(redis, j, 0, "waiting")
    /\ UNCHANGED <<job, worker, host, builds, charged, crossed, hands, mishaps, admins>>

\* The delay of a retry began after its next_run_at was computed.
Promote(j, n) ==
    /\ redis[j][n] = "delayed"
    /\ ~job[j].backoff \/ job[j].attempts # n
    /\ redis' = [redis EXCEPT ![j][n] = "waiting"]
    /\ UNCHANGED <<job, worker, host, builds, charged, crossed, hands, mishaps, admins>>

\* next_run_at passes.
Elapse(j) ==
    /\ job[j].backoff
    /\ job' = [job EXCEPT ![j].backoff = FALSE]
    /\ UNCHANGED <<redis, worker, host, builds, charged, crossed, hands, mishaps, admins>>

\* Redis evicts the queue, or restarts without it.
LoseRedis ==
    /\ Fail
    /\ redis' = [j \in Jobs |-> [n \in Retries |-> "none"]]
    /\ UNCHANGED <<job, worker, host, builds, charged, crossed, hands, admins>>

-----------------------------------------------------------------------------
(* A worker *)

\* Mutant: completed messages stay (no removeOnComplete), and keep their jobId.
CompletedKept(w, r) ==
    LET j == worker[w].job  n == worker[w].id
    IN  IF r[j][n] = w THEN [r EXCEPT ![j][n] = "completed"] ELSE r

\* The message of w is completed (removeOnComplete), unless it was lost.
Completed(w, r) ==
    LET j == worker[w].job  n == worker[w].id
    IN  IF r[j][n] = w THEN [r EXCEPT ![j][n] = "none"] ELSE r

Step(w, pc) == worker' = [worker EXCEPT ![w].pc = pc]

Leave(w) ==
    /\ worker' = [worker EXCEPT ![w] = IdleWorker]
    /\ redis' = Completed(w, redis)

\* processJobByName: the row is read again.  A message about a row that is not
\* queued, or not yet due, is done with; so is one whose read, or whose PUT of
\* the capacity flag, fails.
Load(w) ==
    /\ worker[w].pc = "idle"
    /\ \E j \in Jobs, n \in Retries :
          /\ redis[j][n] = "waiting"
          /\ \/ /\ Claimable(j)
                /\ redis' = [redis EXCEPT ![j][n] = w]
                /\ \E pc \in IF LaneOf[j] = "bench" THEN {"escalate"} ELSE {"escalate", "claim"} :
                      worker' = [worker EXCEPT ![w] = [pc |-> pc, job |-> j, id |-> n, attempts |-> job[j].attempts]]
                /\ UNCHANGED mishaps
             \/ /\ \/ ~Claimable(j) /\ UNCHANGED mishaps
                   \/ Claimable(j) /\ Fail
                /\ redis' = [redis EXCEPT ![j][n] = "none"]
                /\ UNCHANGED worker
    /\ UNCHANGED <<job, host, builds, charged, crossed, hands, admins>>

\* escalate: no lane for it here, or no room; the row is not read again.
Escalate(w) ==
    /\ worker[w].pc = "escalate"
    /\ LET j == worker[w].job IN
       \E o \in Outcomes(j, [job[j] EXCEPT !.status = "needs_human"]) : Put(j, o)
    /\ Leave(w)
    /\ UNCHANGED <<host, builds, charged, crossed, hands, admins>>

\* claimJob: a first read that fails is ignored.
ClaimRead(w) ==
    /\ worker[w].pc = "claim"
    /\ LET r == job[worker[w].job] IN
       \/ /\ r.status = "queued" \/ r.runner = "app"
          /\ Step(w, "write")
          /\ UNCHANGED <<redis, mishaps>>
       \/ r.status # "queued" /\ r.runner # "app" /\ Leave(w) /\ UNCHANGED mishaps
       \/ Step(w, "write") /\ Fail /\ UNCHANGED redis
    /\ UNCHANGED <<job, host, builds, charged, crossed, hands, admins>>

ClaimWrite(w) ==
    /\ worker[w].pc = "write"
    /\ LET j == worker[w].job IN
       \E o \in Outcomes(j, [job[j] EXCEPT !.status = "running", !.runner = "app", !.stale = FALSE]) :
          /\ Put(j, o)
          /\ IF o[2] THEN Step(w, "verify") /\ UNCHANGED redis ELSE Leave(w)
    /\ UNCHANGED <<host, builds, charged, crossed, hands, admins>>

\* claimJob, second read; the lane starts building when the id is its own, or
\* could not be read.
ClaimVerify(w) ==
    /\ worker[w].pc = "verify"
    /\ LET j == worker[w].job IN
       \/ /\ \/ job[j].runner \in {None, "app"} /\ UNCHANGED mishaps
             \/ Fail
          /\ Step(w, "build") /\ UNCHANGED redis
          /\ builds' = [builds EXCEPT ![j] = @ + 1]
       \/ job[j].runner \notin {None, "app"} /\ Leave(w) /\ UNCHANGED <<builds, mishaps>>
    /\ UNCHANGED <<job, host, charged, crossed, hands, admins>>

Build(w) ==
    /\ worker[w].pc = "build"
    /\ \E pc \in {"activate", "retry", "giveUp"} : Step(w, pc)
    /\ UNCHANGED <<job, redis, host, builds, charged, crossed, hands, mishaps, admins>>

\* A PUT of active that throws is caught like a failed build.
Activate(w) ==
    /\ worker[w].pc = "activate"
    /\ LET j == worker[w].job IN
       \E o \in Outcomes(j, [job[j] EXCEPT !.status = "active"]) :
          /\ Put(j, o)
          /\ IF o[2] THEN Leave(w) ELSE Step(w, "retry") /\ UNCHANGED redis
    /\ UNCHANGED <<host, builds, charged, crossed, hands, admins>>

\* The catch block, and the processor's delayed message for a retry.  Redis may
\* refuse that one; the reconcile timer is the remedy.
HandleFailure(w) ==
    /\ worker[w].pc \in {"retry", "giveUp"}
    /\ LET j == worker[w].job
           n == worker[w].attempts + 1
           again == worker[w].pc = "retry" /\ n < MaxAttempts
           row == [job[j] EXCEPT !.status = IF again THEN "queued" ELSE "needs_human",
                                 !.attempts = n, !.backoff = again]
       IN  /\ \E o \in Outcomes(j, row) :
                 /\ Put(j, o)
                 /\ redis' = IF again /\ o[2] THEN Add(Completed(w, redis), j, n, "delayed") ELSE Completed(w, redis)
           /\ worker' = [worker EXCEPT ![w] = IdleWorker]
    /\ UNCHANGED <<host, builds, charged, crossed, hands, admins>>

\* The backend dies.  BullMQ gives the messages of its workers to the next
\* boot; the rows stay as they are.
CrashApp ==
    /\ Fail
    /\ \E w \in Workers : worker[w].pc # "idle"
    /\ worker' = [w \in Workers |-> IdleWorker]
    /\ redis' = [j \in Jobs |-> [n \in Retries |-> IF redis[j][n] \in Workers THEN "waiting" ELSE redis[j][n]]]
    /\ job' = [j \in Jobs |-> IF job[j].runner = "app" THEN [job[j] EXCEPT !.runner = "gone"] ELSE job[j]]
    /\ UNCHANGED <<host, builds, charged, crossed, hands, admins>>

-----------------------------------------------------------------------------
(* murzak-bench-runner, started by its timer when the run before it is over, *)
(* and by hand at any time                                                  *)

HostRow(j) == LaneOf[j] = "bench" /\ job[j].status = "running" /\ job[j].runner \in Hosts \cup {"gone"}

At(h, state) == host' = [host EXCEPT ![h] = state]

\* A run has j in hand, or on the list it works from.
Holds(h, j) ==
    \/ host[h].job = j
    \/ host[h].pc \notin {"off", "reclaim"} /\ \E s \in host[h].todo : s.job = j

\* Every run has an id of its own.  It first lists the bench rows that some run
\* left running, or has had running for too long; what it cannot list it leaves
\* to the next.  (The id of a dead backend is of another family, but never on a
\* bench row.)
HostStart(h) ==
    /\ host[h].pc = "off"
    /\ IF h \in ByHand THEN hands > 0 /\ hands' = hands - 1 ELSE UNCHANGED hands
    /\ \/ /\ At(h, [HostOff EXCEPT !.pc = "reclaim",
                                   !.todo = {[job |-> j, attempts |-> 0] : j \in {k \in Jobs : HostRow(k) /\ job[k].stale}}])
          /\ UNCHANGED mishaps
       \/ Fail /\ At(h, [HostOff EXCEPT !.pc = "reclaim"])
    /\ job' = [j \in Jobs |-> IF job[j].runner = h THEN [job[j] EXCEPT !.runner = "gone"] ELSE job[j]]
    /\ UNCHANGED <<redis, worker, builds, charged, crossed, admins>>

\* A stale row goes back to needs_human; no attempt is charged.
HostReclaim(h) ==
    /\ host[h].pc = "reclaim"
    /\ \E s \in host[h].todo :
          /\ \E o \in Outcomes(s.job, [job[s.job] EXCEPT !.status = "needs_human", !.runner = None]) : Put(s.job, o)
          /\ At(h, [host[h] EXCEPT !.todo = @ \ {s}])
    /\ UNCHANGED <<redis, worker, builds, charged, crossed, hands, admins>>

\* Mutant: every bench job with a human is taken.
EligibleAlways(j) == LaneOf[j] = "bench" /\ job[j].status = "needs_human"

Eligible(j) == LaneOf[j] = "bench" /\ job[j].status = "needs_human" /\ job[j].attempts < MaxAttempts

\* A query that fails ends the run.
HostFetch(h) ==
    /\ host[h].pc = "reclaim" /\ host[h].todo = {}
    /\ \/ /\ At(h, [HostOff EXCEPT !.pc = "next",
                                   !.todo = {[job |-> j, attempts |-> job[j].attempts] : j \in {k \in Jobs : Eligible(k)}}])
          /\ crossed' = [j \in Jobs |->
                crossed[j] \/ (Eligible(j) /\ \E g \in Hosts \ {h} : host[g].job = j /\ host[g].pc = "failed")]
          /\ UNCHANGED mishaps
       \/ Fail /\ At(h, HostOff) /\ UNCHANGED crossed
    /\ UNCHANGED <<job, redis, worker, builds, charged, hands, admins>>

NextHostJob(h) == [HostOff EXCEPT !.pc = "next", !.todo = host[h].todo]

\* The row is read again before it is claimed.
HostCheck(h) ==
    /\ host[h].pc = "next"
    /\ \E s \in host[h].todo :
          LET rest == [NextHostJob(h) EXCEPT !.todo = @ \ {s}] IN
          \/ /\ job[s.job].status = "needs_human"
             /\ At(h, [rest EXCEPT !.pc = "claim", !.job = s.job, !.attempts = s.attempts])
             /\ UNCHANGED mishaps
          \/ job[s.job].status # "needs_human" /\ At(h, rest) /\ UNCHANGED mishaps
          \/ Fail /\ At(h, rest)
    /\ UNCHANGED <<job, redis, worker, builds, charged, crossed, hands, admins>>

HostEnd(h) ==
    /\ host[h].pc = "next" /\ host[h].todo = {}
    /\ At(h, HostOff)
    /\ UNCHANGED <<job, redis, worker, builds, charged, crossed, hands, mishaps, admins>>

\* A PUT of the host's: an HTTP error passes unnoticed, a dead connection ends
\* the run (set -e).
HostPut(h, row, then) ==
    \E o \in Outcomes(host[h].job, row) :
        /\ Put(host[h].job, o)
        /\ \E after \in IF o[2] THEN {then} ELSE {then, HostOff} : At(h, after)

\* The claims of a run that has ended are a dead process's.
HostClaim(h) ==
    /\ host[h].pc = "claim"
    /\ HostPut(h, [job[host[h].job] EXCEPT !.status = "running", !.runner = h, !.stale = FALSE],
               [host[h] EXCEPT !.pc = "verify"])
    /\ UNCHANGED <<redis, worker, builds, charged, crossed, hands, admins>>

HostVerify(h) ==
    /\ host[h].pc = "verify"
    /\ \/ /\ job[host[h].job].runner = h
          /\ At(h, [host[h] EXCEPT !.pc = "build"])
          /\ builds' = [builds EXCEPT ![host[h].job] = @ + 1]
          /\ UNCHANGED mishaps
       \/ /\ (job[host[h].job].runner # h /\ UNCHANGED mishaps) \/ Fail
          /\ At(h, NextHostJob(h))
          /\ UNCHANGED builds
    /\ UNCHANGED <<job, redis, worker, charged, crossed, hands, admins>>

\* murzak-bench-provision: built, to be tried again, or never (exit code 2, or
\* no apps for the product).
HostBuild(h) ==
    /\ host[h].pc = "build"
    /\ LET j == host[h].job IN
       \E pc \in {"active", "failed", "refused"} :
          /\ At(h, [host[h] EXCEPT !.pc = pc])
          /\ charged' = IF pc = "failed" THEN [charged EXCEPT ![j] = @ + 1] ELSE charged
          /\ crossed' = IF pc = "failed" THEN [crossed EXCEPT ![j] = @ \/ \E g \in Hosts \ {h} : Holds(g, j)] ELSE crossed
    /\ UNCHANGED <<job, redis, worker, builds, hands, mishaps, admins>>

\* Mutant: the attempts of the row as they were are written back.
AttemptsUncharged(h) == IF host[h].pc = "refused" THEN MaxAttempts ELSE host[h].attempts

\* Attempts count from the row as listed.
AttemptsAfter(h) == IF host[h].pc = "refused" THEN MaxAttempts ELSE host[h].attempts + 1

HostReport(h) ==
    /\ host[h].pc \in {"active", "failed", "refused"}
    /\ HostPut(h, IF host[h].pc = "active"
                  THEN [job[host[h].job] EXCEPT !.status = "active"]
                  ELSE [job[host[h].job] EXCEPT !.status = "needs_human", !.runner = None, !.attempts = AttemptsAfter(h)],
               NextHostJob(h))
    /\ UNCHANGED <<redis, worker, builds, charged, crossed, hands, admins>>

\* The run is killed: out of memory, a reboot, a lost connection.
CrashHost(h) ==
    /\ Fail
    /\ host[h].pc # "off"
    /\ At(h, HostOff)
    /\ UNCHANGED <<job, redis, worker, builds, charged, crossed, hands, admins>>

\* started_at becomes older than the threshold, though the build may be going on.
GrowStale(j) ==
    /\ HostRow(j) /\ ~job[j].stale
    /\ job' = [job EXCEPT ![j].stale = TRUE]
    /\ UNCHANGED <<redis, worker, host, builds, charged, crossed, hands, mishaps, admins>>

\* POST /api/admin/provisioning/jobs/:id/retry, on a job in any state.
AdminRetry(j) ==
    /\ job[j].status # "absent"
    /\ admins < MaxAdmin /\ admins' = admins + 1
    /\ job' = [job EXCEPT ![j].status = "queued", ![j].attempts = 0, ![j].backoff = FALSE]
    /\ builds' = [builds EXCEPT ![j] = 0]
    /\ charged' = [charged EXCEPT ![j] = 0] /\ crossed' = [crossed EXCEPT ![j] = FALSE]
    /\ UNCHANGED <<redis, worker, host, hands, mishaps>>

-----------------------------------------------------------------------------

WorkerNext(w) ==
    \/ Load(w) \/ Escalate(w) \/ ClaimRead(w) \/ ClaimWrite(w) \/ ClaimVerify(w)
    \/ Build(w) \/ Activate(w) \/ HandleFailure(w)

\* What a run does once it has been started.
HostNext(h) ==
    \/ HostReclaim(h) \/ HostFetch(h) \/ HostCheck(h) \/ HostEnd(h)
    \/ HostClaim(h) \/ HostVerify(h) \/ HostBuild(h) \/ HostReport(h)

Timers == \E j \in Jobs : Reconcile(j) \/ Elapse(j) \/ GrowStale(j) \/ \E n \in Retries : Promote(j, n)

Next ==
    \/ \E w \in Workers : WorkerNext(w)
    \/ \E h \in Hosts : HostStart(h) \/ HostNext(h) \/ CrashHost(h)
    \/ Timers \/ LoseRedis \/ CrashApp
    \/ \E j \in Jobs : AdminRetry(j)

\* Workers, systemd and the timers go on.
Fairness ==
    /\ WF_vars(\E w \in Workers : WorkerNext(w))
    /\ \A h \in Hosts : WF_vars(HostNext(h))
    /\ \A h \in Hosts \ ByHand : WF_vars(HostStart(h))
    /\ \A j \in Jobs :
         WF_vars(Reconcile(j)) /\ WF_vars(Elapse(j)) /\ WF_vars(GrowStale(j))
         /\ \A n \in Retries : WF_vars(Promote(j, n))

Spec == Init /\ [][Next]_vars /\ Fairness

-----------------------------------------------------------------------------
(* Properties *)

\* Left running by a worker that died, or whose PUT failed: in this mode nobody
\* but an admin looks at it again (reclaimStaleRunning is the poll runner's).
Abandoned(j) ==
    job[j].status = "running" /\ job[j].runner \in {"app", "gone"} /\ \A w \in Workers : worker[w].job # j

Settled(j) ==
    IF LaneOf[j] = "bench"
    THEN \/ job[j].status \in {"absent", "active"}
         \/ job[j].status = "needs_human" /\ job[j].attempts >= MaxAttempts
    ELSE job[j].status \in {"absent", "active", "needs_human"} \/ Abandoned(j)

\* No job is forgotten, whatever Redis loses and whoever dies: in the end a
\* container job is active, with a human, or abandoned while running, and a
\* bench job is active or has used up its attempts ("a crash never strands a
\* job silently").
Delivered == \A j \in Jobs : <>[]Settled(j)

\* A job held for its address is built by no runner of the two, until an admin
\* releases it ("neither the container runner nor murzak-bench-runner builds it").
HeldNeverBuilt == \A j \in Jobs : BirthOf[j] = "held" /\ admins = 0 => builds[j] = 0

\* Every failed build of the host is on its job's account, unless the report of
\* it was lost, or another run of the host, which had listed the job before or
\* was yet to report on it, writes a count of its own: the attempts a report
\* writes are those of the row as the run listed it, plus one, and no worker of
\* the backend, reclaim or admin in between makes up new ones.
HostBuildsCharged ==
    \A j \in Jobs :
        \/ crossed[j]
        \/ charged[j] <= job[j].attempts + mishaps
                         + (IF \E h \in Hosts : host[h].job = j /\ host[h].pc = "failed" THEN 1 ELSE 0)

\* "BullMQ provides the atomic claim (one worker per job)".
OneWorkerPerJob ==
    \A v, w \in Workers : worker[v].pc = "build" /\ worker[w].pc = "build" /\ worker[v].job = worker[w].job => v = w

\* A job the capacity gate parked is not built before an admin retries it
\* ("Gated jobs park as needs_human; re-queue them (admin retry) once the new
\* box is added").
GatedParked == \A j \in Jobs : BirthOf[j] = "gated" /\ admins = 0 => builds[j] = 0
=============================================================================
