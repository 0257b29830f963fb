------------------------- MODULE ProvisioningRunner -------------------------
(***************************************************************************)
(* The provisioning runner of backend/services/provisioning/runner.js in   *)
(* poll mode, and the two admin endpoints that write the same rows.        *)
(*                                                                         *)
(* The rows of the "Provisioning Job" doctype live in Frappe, a record     *)
(* store with no transactions: every GET and every PUT below is an action  *)
(* of its own, and a PUT patches the fields it names, whatever the row     *)
(* holds by then.  A tick is one call of processQueue(): the poll timer,   *)
(* the admin "run" button and a BYOA deploy each start one, and nothing    *)
(* keeps two of them from overlapping.  A process gives all its ticks one  *)
(* runner id, new at every boot.  The workers of a tick take distinct rows *)
(* and share nothing else: what they do to one row is a tick with one      *)
(* worker.  The Web Account row that a finished build flips to "Active" is *)
(* in AccountActivation.                                                   *)
(***************************************************************************)
EXTENDS Integers

CONSTANTS
    Jobs,         \* the Provisioning Job rows
    Processes,    \* the backend processes (containers)
    Ticks,        \* processQueue() calls that may be under way together
    ProcessOf,    \* the process a tick runs in
    Buildable,    \* jobs whose lane is configured in this container
    Premium,      \* jobs of capacity class "premium": only they are placed
    MaxAttempts,  \* PROVISIONING_MAX_ATTEMPTS
    SlowBuilds,   \* may a live build outlast PROVISIONING_STALE_RUNNING_SEC?
    Scenarios,    \* bounds: the ticks, the new jobs and the number of mishaps that
                  \* a behaviour may have
    MaxMishaps,   \* the most mishaps of any scenario
    MaxAdmin,     \* bound: admin retries and resolves in a behaviour
    None          \* no runner (an empty runner_id), no job

ASSUME ConstantsAssumption ==
    /\ ProcessOf \in [Ticks -> Processes]
    /\ Buildable \subseteq Jobs
    /\ Premium \subseteq Jobs
    /\ MaxAttempts \in Nat \ {0}
    /\ SlowBuilds \in BOOLEAN
    /\ MaxMishaps \in Nat
    /\ Scenarios \subseteq [ticks : SUBSET Ticks, jobs : SUBSET Jobs, mishaps : 0 .. MaxMishaps]
    /\ MaxAdmin \in Nat
    /\ None \notin Jobs
    /\ None \notin Processes \X Nat

VARIABLES
    job,      \* the rows: status, runner_id, attempts, next_run_at, started_at
    tick,     \* the local state of each processQueue() call
    boot,     \* how often each process has booted: the random part of its id
    claims,   \* history: claims written on a job since it was last re-queued
    mishaps,  \* crashes and failed requests so far
    admins    \* admin writes so far

vars == <<job, tick, boot, claims, mishaps, admins>>

\* "absent": the scenario leaves the job out.
Status == {"absent", "queued", "running", "active", "needs_human"}

\* A Provisioning Job row: backoff says next_run_at is still to come, stale
\* that started_at is older than PROVISIONING_STALE_RUNNING_SEC.
Row == [status : Status, runner : (Processes \X Nat) \cup {None}, attempts : Nat,
        backoff : BOOLEAN, stale : BOOLEAN]

RunnerId(t) == <<ProcessOf[t], boot[ProcessOf[t]]>>

\* A row as a list query returns it: what the tick goes on to use of it.
Snapshot == [job : Jobs, attempts : Nat]

\* A row fresh from provisioningService.enqueueProvisioningForInvoice.
NewRow == [status |-> "queued", runner |-> None, attempts |-> 0,
           backoff |-> FALSE, stale |-> FALSE]

NoRow == [NewRow EXCEPT !.status = "absent"]

IdleTick == [pc |-> "idle", todo |-> {}, job |-> None, attempts |-> 0]

\* A tick the scenario leaves out.
OffTick == [IdleTick EXCEPT !.pc = "off"]

\* The steps of a tick between the claim it wrote and the end of that job.
InFlightPc == {"verify", "build", "activate", "retry", "giveUp"}

\* A pass: where it is, the listed rows it has still to treat, the row in hand.
Pass == [pc : {"off", "idle", "reclaim", "fetch", "next", "place", "escalate", "claim", "write"}
              \cup InFlightPc,
         todo : SUBSET Snapshot, job : Jobs \cup {None}, attempts : Nat]

Init ==
    /\ \E s \in Scenarios :
         /\ job = [j \in Jobs |-> IF j \in s.jobs THEN NewRow ELSE NoRow]
         /\ tick = [t \in Ticks |-> IF t \in s.ticks THEN IdleTick ELSE OffTick]
         /\ mishaps = MaxMishaps - s.mishaps
    /\ boot = [p \in Processes |-> 0]
    /\ claims = [j \in Jobs |-> 0]
    /\ admins = 0

-----------------------------------------------------------------------------
(* Requests to Frappe.                                                     *)

\* A request fails: a mishap.
Fail == /\ mishaps < MaxMishaps
        /\ mishaps' = mishaps + 1

\* Tick t lists the rows of S, and goes on at pc with them to treat.
List(t, S, pc) ==
    tick' = [tick EXCEPT ![t] = [pc |-> pc, todo |-> {[job |-> j, attempts |-> job[j].attempts] : j \in S},
                                 job |-> None, attempts |-> 0]]

\* Tick t goes on at pc, with the job it has in hand.
Goto(t, pc) == tick' = [tick EXCEPT ![t].pc = pc]

\* Tick t is done with its job, whatever the outcome record says.
Done(t) == tick' = [tick EXCEPT ![t] = [pc |-> "next", todo |-> @.todo, job |-> None, attempts |-> 0]]

\* updateJob PUTs row over j: acknowledged ("ok"), or the call throws after
\* Frappe stored the row ("stored") or before ("dropped").
Outcomes == {"ok", "stored", "dropped"}

Put(j, row, outcome) ==
    /\ job' = IF outcome = "dropped" THEN job ELSE [job EXCEPT ![j] = row]
    /\ IF outcome = "ok" THEN UNCHANGED mishaps ELSE Fail

-----------------------------------------------------------------------------
(* reclaimStaleRunning: the first half of a pass.                          *)

\* Mutant: a row with no failure yet is not seen (attempts is 0, hence falsy).
IsStaleOnceFailed(j) == job[j].status = "running" /\ job[j].stale /\ job[j].attempts > 0

IsStale(j) == job[j].status = "running" /\ job[j].stale

ListStale(t) ==
    /\ tick[t].pc = "idle"
    /\ \/ /\ List(t, {j \in Jobs : IsStale(j)}, "reclaim")
          /\ UNCHANGED mishaps
       \/ /\ Goto(t, "fetch")
          /\ Fail
    /\ UNCHANGED <<job, boot, claims, admins>>

\* Mutant: the row is re-queued without charging the dead build to it.
ReclaimedUncharged(s) ==
    [job[s.job] EXCEPT !.status = "queued", !.backoff = FALSE, !.runner = None]

\* The row a stale job gets: one more attempt, re-queued while any is left.
Reclaimed(s) ==
    IF s.attempts + 1 >= MaxAttempts
    THEN [job[s.job] EXCEPT !.status = "needs_human", !.attempts = s.attempts + 1]
    ELSE [job[s.job] EXCEPT !.status = "queued", !.attempts = s.attempts + 1,
                            !.backoff = FALSE, !.runner = None]

\* One PUT per listed row; a PUT that fails is left for the next pass.
ReclaimOne(t) ==
    /\ tick[t].pc = "reclaim"
    /\ \E s \in tick[t].todo :
         /\ \E o \in Outcomes : Put(s.job, Reclaimed(s), o)
         /\ tick' = [tick EXCEPT ![t].todo = @ \ {s}]
    /\ UNCHANGED <<boot, claims, admins>>

ReclaimDone(t) ==
    /\ tick[t].pc = "reclaim" /\ tick[t].todo = {}
    /\ Goto(t, "fetch")
    /\ UNCHANGED <<job, boot, claims, mishaps, admins>>

-----------------------------------------------------------------------------
(* fetchClaimable and the worker loop.                                     *)

\* Mutant: what a human was left with is tried again.
IsUnfinished(j) == job[j].status \in {"queued", "needs_human"} /\ ~job[j].backoff

IsClaimable(j) == job[j].status = "queued" /\ ~job[j].backoff

FetchClaimable(t) ==
    /\ tick[t].pc = "fetch"
    /\ \/ /\ List(t, {j \in Jobs : IsClaimable(j)}, "next")
          /\ UNCHANGED mishaps
       \/ /\ Goto(t, "idle")
          /\ Fail
    /\ UNCHANGED <<job, boot, claims, admins>>

\* The worker takes the next fetched row; it is not read again.
TakeNext(t) ==
    /\ tick[t].pc = "next"
    /\ \E s \in tick[t].todo :
         tick' = [tick EXCEPT ![t] = [pc |-> "place", todo |-> @.todo \ {s},
                                      job |-> s.job, attempts |-> s.attempts]]
    /\ UNCHANGED <<job, boot, claims, mishaps, admins>>

EndPass(t) ==
    /\ tick[t].pc = "next" /\ tick[t].todo = {}
    /\ Goto(t, "idle")
    /\ UNCHANGED <<job, boot, claims, mishaps, admins>>

-----------------------------------------------------------------------------
(* processJob.                                                             *)

\* No lane builds it here, or (premium only) no box has headroom; the PUT that
\* marks such a job as gated may throw, and then it stays as it is.
Place(t) ==
    /\ tick[t].pc = "place"
    /\ \/ /\ tick[t].job \in Buildable
          /\ Goto(t, "claim")
          /\ UNCHANGED mishaps
       \/ /\ tick[t].job \notin Buildable \/ tick[t].job \in Premium
          /\ Goto(t, "escalate")
          /\ UNCHANGED mishaps
       \/ /\ tick[t].job \in Premium
          /\ Done(t)
          /\ Fail
    /\ UNCHANGED <<job, boot, claims, admins>>

\* escalate() writes without claiming or reading the row.
Escalate(t) ==
    /\ tick[t].pc = "escalate"
    /\ LET j == tick[t].job
       IN  \E o \in Outcomes : Put(j, [job[j] EXCEPT !.status = "needs_human"], o)
    /\ Done(t)
    /\ UNCHANGED <<boot, claims, admins>>

\* claimJob, first read: refuse a job that is neither queued nor ours.  A read
\* that fails goes on to the write.
MayClaim(t) == LET r == job[tick[t].job] IN r.status = "queued" \/ r.runner = RunnerId(t)

ClaimRead(t) ==
    /\ tick[t].pc = "claim"
    /\ \/ /\ IF MayClaim(t) THEN Goto(t, "write") ELSE Done(t)
          /\ UNCHANGED mishaps
       \/ /\ Goto(t, "write")
          /\ Fail
    /\ UNCHANGED <<job, boot, claims, admins>>

ClaimWrite(t) ==
    /\ tick[t].pc = "write"
    /\ LET j == tick[t].job
           claimed == [job[j] EXCEPT !.status = "running", !.runner = RunnerId(t), !.stale = FALSE]
       IN  \E o \in Outcomes :
             /\ Put(j, claimed, o)
             /\ claims' = IF o = "dropped" THEN claims ELSE [claims EXCEPT ![j] = @ + 1]
             /\ IF o = "ok" THEN Goto(t, "verify") ELSE Done(t)
    /\ UNCHANGED <<boot, admins>>

\* claimJob, second read: another runner's id means the claim is lost.
ClaimVerify(t) ==
    /\ tick[t].pc = "verify"
    /\ \/ /\ IF job[tick[t].job].runner \in {None, RunnerId(t)} THEN Goto(t, "build") ELSE Done(t)
          /\ UNCHANGED mishaps
       \/ /\ Goto(t, "build")
          /\ Fail
    /\ UNCHANGED <<job, boot, claims, admins>>

\* adapter.provision() returns, throws, or throws with .permanent set.
Build(t) ==
    /\ tick[t].pc = "build"
    /\ \E outcome \in {"activate", "retry", "giveUp"} : Goto(t, outcome)
    /\ UNCHANGED <<job, boot, claims, mishaps, admins>>

\* The PUT that throws lands in the same catch block as a failed build.
Activate(t) ==
    /\ tick[t].pc = "activate"
    /\ LET j == tick[t].job
       IN  \E o \in Outcomes :
             /\ Put(j, [job[j] EXCEPT !.status = "active"], o)
             /\ IF o = "ok" THEN Done(t) ELSE Goto(t, "retry")
    /\ UNCHANGED <<boot, claims, admins>>

\* The catch block: attempts counts from the fetched row, and runner_id stays.
HandleFailure(t) ==
    /\ tick[t].pc \in {"retry", "giveUp"}
    /\ LET j == tick[t].job
           n == tick[t].attempts + 1
           r == IF tick[t].pc = "giveUp" \/ n >= MaxAttempts
                THEN [job[j] EXCEPT !.status = "needs_human", !.attempts = n]
                ELSE [job[j] EXCEPT !.status = "queued", !.attempts = n, !.backoff = TRUE]
       IN  \E o \in Outcomes : Put(j, r, o)
    /\ Done(t)
    /\ UNCHANGED <<boot, claims, admins>>

-----------------------------------------------------------------------------
(* The environment.                                                        *)

\* The process of p dies; its ticks are gone and its next boot has a new id.
Crash(p) ==
    /\ \E t \in Ticks : ProcessOf[t] = p /\ tick[t].pc # "off"
    /\ Fail
    /\ boot' = [boot EXCEPT ![p] = @ + 1]
    /\ tick' = [t \in Ticks |-> IF ProcessOf[t] = p /\ tick[t].pc # "off" THEN IdleTick ELSE tick[t]]
    /\ UNCHANGED <<job, claims, admins>>

\* next_run_at passes.
BackoffElapses(j) ==
    /\ job[j].backoff
    /\ job' = [job EXCEPT ![j].backoff = FALSE]
    /\ UNCHANGED <<tick, boot, claims, mishaps, admins>>

Builders(j) == {t \in Ticks : tick[t].job = j /\ tick[t].pc \in InFlightPc}

\* started_at becomes older than the threshold.
GrowsStale(j) ==
    /\ job[j].status = "running" /\ ~job[j].stale
    /\ SlowBuilds \/ Builders(j) = {}
    /\ job' = [job EXCEPT ![j].stale = TRUE]
    /\ UNCHANGED <<tick, boot, claims, mishaps, admins>>

\* POST /api/admin/provisioning/jobs/:id/retry, on a job in any state.
AdminRetry(j) ==
    /\ job[j].status # "absent"
    /\ admins < MaxAdmin /\ admins' = admins + 1
    /\ job' = [job EXCEPT ![j].status = "queued", ![j].attempts = 0, ![j].backoff = FALSE]
    /\ claims' = [claims EXCEPT ![j] = 0]
    /\ UNCHANGED <<tick, boot, mishaps>>

\* POST /api/admin/provisioning/jobs/:id/resolve, on a job in any state.
AdminResolve(j) ==
    /\ job[j].status # "absent"
    /\ admins < MaxAdmin /\ admins' = admins + 1
    /\ job' = [job EXCEPT ![j].status = "active"]
    /\ UNCHANGED <<tick, boot, claims, mishaps>>

-----------------------------------------------------------------------------

TickNext(t) ==
    \/ ListStale(t) \/ ReclaimOne(t) \/ ReclaimDone(t)
    \/ FetchClaimable(t) \/ TakeNext(t) \/ EndPass(t)
    \/ Place(t) \/ Escalate(t)
    \/ ClaimRead(t) \/ ClaimWrite(t) \/ ClaimVerify(t)
    \/ Build(t) \/ Activate(t) \/ HandleFailure(t)

Next ==
    \/ \E t \in Ticks : TickNext(t)
    \/ \E p \in Processes : Crash(p)
    \/ \E j \in Jobs : BackoffElapses(j) \/ GrowsStale(j) \/ AdminRetry(j) \/ AdminResolve(j)

\* setInterval keeps starting passes and every request, lane call and timer
\* ends; time passes.  Nothing obliges a crash, a failure or an admin to happen.
Fairness ==
    /\ \A t \in Ticks : WF_vars(TickNext(t))
    /\ \A j \in Jobs : WF_vars(BackoffElapses(j)) /\ WF_vars(GrowsStale(j))

Spec == Init /\ [][Next]_vars /\ Fairness

-----------------------------------------------------------------------------
(* Properties.                                                             *)

TypeOK ==
    /\ job \in [Jobs -> Row]
    /\ tick \in [Ticks -> Pass]
    /\ boot \in [Processes -> Nat]
    /\ claims \in [Jobs -> Nat]
    /\ mishaps \in Nat
    /\ admins \in Nat

\* Passes do not overlap.
Alone == \A t, u \in Ticks : tick[t].pc # "off" /\ tick[u].pc # "off" => t = u

\* PROVISIONING_MAX_ATTEMPTS bounds the builds: between two admin retries a
\* job is claimed at most MaxAttempts times, although a claim is charged to
\* attempts only later, by the catch block or by reclaimStaleRunning after a
\* crash.  Only for passes that do not overlap.
ClaimsBounded == Alone => \A j \in Jobs : claims[j] <= MaxAttempts

\* A job the runner has given up on stays with the human: while passes do not
\* overlap, no crash, lost answer, reclaim or backoff lets the runner build or
\* re-queue it, and only an admin's retry or resolve takes it back.  Overlapping
\* passes do: the failure of a build that was reclaimed meanwhile writes queued,
\* with the attempts of its own old read, over needs_human.
HumanJobsStay ==
    [][\A j \in Jobs : Alone /\ job[j].status = "needs_human" /\ job'[j].status # "needs_human"
                       => admins' = admins + 1]_vars

\* "Claim is verified (...) so two poll runners can't both build the same
\* job": at most one lane build of a job is under way.
OneBuilderPerJob ==
    \A j \in Jobs : \A t, u \in Ticks :
        (tick[t].job = j /\ tick[u].job = j /\ tick[t].pc = "build" /\ tick[u].pc = "build") => t = u

\* No job is stranded: whatever crashes and failed requests (finitely many)
\* and however passes overlap, in the end every job is active or with a human.
Settles == \A j \in Jobs : <>[](job[j].status \in {"active", "needs_human", "absent"})

-----------------------------------------------------------------------------
(* Why ClaimsBounded holds when passes do not overlap: an inductive        *)
(* strengthening of it.                                                    *)

\* A claim on a job is charged to its row, or will be when it stops running.
RowCharged(j) ==
    /\ claims[j] <= MaxAttempts
    /\ job[j].status = "queued" => job[j].attempts < MaxAttempts /\ claims[j] <= job[j].attempts
    /\ job[j].status = "running" => job[j].attempts < MaxAttempts /\ claims[j] <= job[j].attempts + 1

\* A row read while queued is charged in full, and the read is not behind it.
ReadQueued(j, n) ==
    /\ claims[j] <= job[j].attempts
    /\ job[j].attempts <= n
    /\ n < MaxAttempts

\* A row read while running, or claimed since, has one claim to charge.
ReadRunning(j, n) == claims[j] <= n + 1 /\ n < MaxAttempts

PassCharged(t) ==
    /\ tick[t].pc = "reclaim" => \A s \in tick[t].todo : ReadRunning(s.job, s.attempts)
    /\ tick[t].pc \in {"next", "place", "escalate", "claim", "write"} \cup InFlightPc =>
         \A s \in tick[t].todo :
           /\ ReadQueued(s.job, s.attempts)
           /\ s.job # tick[t].job
           /\ \A u \in tick[t].todo : u.job = s.job => u = s
    /\ tick[t].pc \in {"place", "escalate", "claim", "write"} => ReadQueued(tick[t].job, tick[t].attempts)
    /\ tick[t].pc \in InFlightPc => ReadRunning(tick[t].job, tick[t].attempts)

Charged == (\A j \in Jobs : RowCharged(j)) /\ (\A t \in Ticks : PassCharged(t))

-----------------------------------------------------------------------------
(* Why HumanJobsStay holds when passes do not overlap.                      *)

\* A pass has no job that waits for a human in hand or still to treat, and
\* each job at most once, so that what it writes for one spares the others.
HandsOff(t) ==
    tick[t].pc \in {"reclaim", "next", "place", "escalate", "claim", "write"} \cup InFlightPc =>
      /\ \A s \in tick[t].todo :
           /\ job[s.job].status # "needs_human"
           /\ s.job # tick[t].job
           /\ \A u \in tick[t].todo : u.job = s.job => u = s
      /\ tick[t].job \in Jobs => job[tick[t].job].status # "needs_human"
=============================================================================
