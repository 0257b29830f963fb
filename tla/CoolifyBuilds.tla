----------------------------- MODULE CoolifyBuilds -----------------------------
(* One Provisioning Job of the Coolify lane (lanes/coolify.js): what its     *)
(* attempts do to the platform, and what they report.  An attempt finds the  *)
(* job's resource by name or creates it, starts it and reads its status until *)
(* it is up, or, for a customer's own application, starts a build of it and  *)
(* waits.  The runner (ProvisioningRunner) puts the outcome in the row and   *)
(* tries again; staff re-queue the job; the customer deletes the service     *)
(* (destroyServiceInfrastructure in billingRoutes.js).                       *)
(*                                                                           *)
(* Attempts may overlap: a retry by staff, or the reclaim of a slow build,   *)
(* re-queues the row while its attempt is under way, the next pass of the    *)
(* same process takes it, and a claim does not refuse its own runner id.     *)
(* Attaching a hostname is left out where it changes nothing but the URL;    *)
(* backups and edge registration as well.                                    *)
EXTENDS Naturals, FiniteSets

CONSTANTS
    Resources,      \* the uuids Coolify may give to services and applications
    Builds,         \* the uuids it may give to deployments
    Attempts,       \* attempts that may be under way together, in one backend process
    None,
    MaxAttempts,    \* PROVISIONING_MAX_ATTEMPTS
    MaxMishaps,     \* bound: crashes and failed requests in a behaviour
    MaxOverlaps,    \* bound: attempts that begin beside another
    MaxCalls        \* bound: admin retries and deletions in a behaviour

ASSUME CoolifyAssumption ==
    /\ None \notin Resources \cup Builds
    /\ IsFiniteSet(Attempts)
    /\ MaxAttempts \in Nat \ {0}
    /\ MaxMishaps \in Nat /\ MaxOverlaps \in Nat /\ MaxCalls \in Nat

VARIABLES
    kind,       \* what the job delivers: an application built from the customer's
                \* repository, a web service, a database, or nothing the lane can deliver
    image,      \* what its container does once started: comes up, crashes over and over, dies
                \* (of an application only the build is watched)
    job,        \* the Provisioning Job row: status, attempts, deployment_uuid, external_ref;
                \* ours: runner_id is this process's
    box,        \* box[u]: the status Coolify last had for resource u
    build,      \* build[d]: how deployment d stands
    lane,       \* the attempts under way: the row as each listed it, and what it has in hand
    sweep,      \* reclaimStaleRunning: the row as it listed it
    remove,     \* the DELETE /api/account/services/:serviceId under way
    mishaps, calls,
    overlaps    \* history: attempts that began beside another

vars == <<kind, image, job, box, build, lane, sweep, remove, mishaps, calls, overlaps>>

Kinds == {"application", "web", "database", "nothing"}
Images == {"sound", "looping", "dead"}

\* "none": no such resource yet.  A created one has never been started.
BoxStatus == {"none", "created", "starting", "running", "restarting", "exited", "gone"}
BuildStatus == {"none", "pending", "finished", "failed"}
JobStatus == {"queued", "running", "active", "needs_human", "deleted"}
LanePc == {"idle", "claim", "list", "create", "look", "start", "poll", "attach", "restart", "again",
           "deploy", "watch", "report", "retry", "giveUp"}

Idle == [pc |-> "idle", attempts |-> 0, box |-> None, dep |-> None, new |-> FALSE, running |-> 0, exited |-> 0]

NoSweep == [at |-> "idle", attempts |-> 0]

Init ==
    /\ kind \in Kinds
    /\ image \in Images /\ (kind \notin {"web", "database"} => image = "sound")
    /\ job = [status |-> "queued", attempts |-> 0, dep |-> None, ref |-> None, ours |-> FALSE]
    /\ box = [u \in Resources |-> "none"]
    /\ build = [d \in Builds |-> "none"]
    /\ lane = [a \in Attempts |-> Idle]
    /\ sweep = NoSweep
    /\ remove = [at |-> "idle", ref |-> None]
    /\ mishaps = 0
    /\ calls = 0
    /\ overlaps = 0

Fail == mishaps < MaxMishaps /\ mishaps' = mishaps + 1

\* A request is answered ("ok"), or its answer is lost, before or after it did
\* its work.
Outcomes == {"ok", "stored", "dropped"}
Charge(o) == IF o = "ok" THEN UNCHANGED mishaps ELSE Fail

Live == {u \in Resources : box[u] \notin {"none", "gone"}}

Busy(a) == lane[a].pc # "idle"

Becomes(a, l) == lane' = [lane EXCEPT ![a] = l]
Goto(a, pc) == Becomes(a, [lane[a] EXCEPT !.pc = pc])

\* An error without a deployment_uuid in it: what the attempt knew is forgotten.
Throw(a, pc) == Becomes(a, [lane[a] EXCEPT !.pc = pc, !.dep = None])

-----------------------------------------------------------------------------
(* The attempt finds or creates the resource.                              *)

\* fetchClaimable lists the row; the pass comes to it later.
Fetch(a) ==
    /\ ~Busy(a) /\ job.status = "queued"
    /\ IF \E b \in Attempts : Busy(b)
       THEN overlaps < MaxOverlaps /\ overlaps' = overlaps + 1 ELSE UNCHANGED overlaps
    /\ Becomes(a, [Idle EXCEPT !.pc = "claim", !.attempts = job.attempts, !.dep = job.dep])
    /\ UNCHANGED <<kind, image, job, box, build, sweep, remove, mishaps, calls>>

\* claimJob refuses a row that is neither queued nor its own; a first read that
\* fails goes on to the write.
Claim(a) ==
    /\ lane[a].pc = "claim"
    /\ \/ /\ job.status # "queued" /\ ~job.ours
          /\ Becomes(a, Idle)
          /\ UNCHANGED <<job, mishaps>>
       \/ \E o \in Outcomes :
            /\ job.status = "queued" \/ job.ours
            /\ job' = IF o = "dropped" THEN job ELSE [job EXCEPT !.status = "running", !.ours = TRUE]
            /\ IF o = "ok" THEN Goto(a, "list") ELSE Becomes(a, Idle)
            /\ Charge(o)
       \/ /\ job' = [job EXCEPT !.status = "running", !.ours = TRUE]
          /\ Goto(a, "list")
          /\ Fail
    /\ UNCHANGED <<kind, image, box, build, sweep, remove, calls, overlaps>>

\* What an attempt does once it has the resource.
AfterFound == IF kind = "application" THEN "deploy" ELSE "look"

\* Mutant: a list that cannot be read is an empty one.
CreateBlind(a) == Goto(a, "create")

\* "A list we cannot read is NOT evidence of absence."
RefuseBlind(a) == Throw(a, "retry")

List(a) ==
    /\ lane[a].pc = "list"
    /\ \/ /\ \E u \in Live : Becomes(a, [lane[a] EXCEPT !.pc = AfterFound, !.box = u])
          /\ UNCHANGED mishaps
       \/ /\ Live = {}
          /\ IF kind = "nothing" THEN Throw(a, "giveUp") ELSE Goto(a, "create")
          /\ UNCHANGED mishaps
       \/ /\ RefuseBlind(a)
          /\ Fail
    /\ UNCHANGED <<kind, image, job, box, build, sweep, remove, calls, overlaps>>

\* The POST, whose answer has the uuid.
Create(a) ==
    /\ lane[a].pc = "create"
    /\ \E u \in Resources, o \in Outcomes :
         /\ box[u] = "none"
         /\ box' = IF o = "dropped" THEN box ELSE [box EXCEPT ![u] = "created"]
         /\ IF o = "ok"
            THEN Becomes(a, [lane[a] EXCEPT !.pc = AfterFound, !.box = u, !.new = TRUE])
            ELSE Throw(a, "retry")
         /\ Charge(o)
    /\ UNCHANGED <<kind, image, job, build, sweep, remove, calls, overlaps>>

-----------------------------------------------------------------------------
(* ensureServiceRunning.                                                   *)

\* What a resource may read as, some seconds after it read s: a sound container
\* comes up, and between two processes is seen as exited at most once; one that
\* crashes over and over is not up at two readings.
Readings(s) ==
    CASE s \in {"none", "created", "gone"} -> {s}
      [] s \notin {"none", "created", "gone"} /\ image = "dead" -> {"exited"}
      [] s \notin {"none", "created", "gone"} /\ image = "looping" ->
           {"running", "restarting", "exited"} \ (IF s = "running" THEN {s} ELSE {})
      [] s = "running" /\ image = "sound" -> {"running"}
      [] s = "exited" /\ image = "sound" -> {"starting", "running"}
      [] s \in {"starting", "restarting"} /\ image = "sound" -> {"starting", "exited", "running"}

\* GET the status of the resource; time has passed since the last reading.
Reads(a, s) ==
    /\ s \in Readings(box[lane[a].box])
    /\ box' = [box EXCEPT ![lane[a].box] = s]

\* A database gets its hostname, and with it a restart, only when it is recovered.
AfterUp(a) == IF kind = "web" \/ ~lane[a].new THEN "attach" ELSE "report"

\* Only a resource that is not up is started.
Look(a) ==
    /\ lane[a].pc = "look"
    /\ \/ /\ \E s \in BoxStatus :
               /\ Reads(a, s)
               /\ CASE s = "gone" -> Throw(a, "retry")
                    [] s = "running" -> Goto(a, AfterUp(a))
                    [] OTHER -> Goto(a, "start")
          /\ UNCHANGED mishaps
       \/ Throw(a, "retry") /\ Fail /\ UNCHANGED box
    /\ UNCHANGED <<kind, image, job, build, sweep, remove, calls, overlaps>>

\* GET .../start and GET .../restart.
Starts(a, o) ==
    box' = IF o = "dropped" \/ box[lane[a].box] = "gone" THEN box ELSE [box EXCEPT ![lane[a].box] = "starting"]

Start(a) ==
    /\ lane[a].pc = "start"
    /\ \E o \in Outcomes :
         /\ Starts(a, o)
         /\ IF o = "ok" /\ box[lane[a].box] # "gone"
            THEN Becomes(a, [lane[a] EXCEPT !.pc = "poll", !.running = 0, !.exited = 0])
            ELSE Throw(a, "retry")
         /\ Charge(o)
    /\ UNCHANGED <<kind, image, job, build, sweep, remove, calls, overlaps>>

\* Mutant: one reading decides.
EnoughAtOnce(n) == n >= 1

\* Two consecutive readings decide.
Enough(n) == n >= 2

Poll(a) ==
    /\ lane[a].pc = "poll"
    /\ \/ /\ \E s \in BoxStatus :
               /\ Reads(a, s)
               /\ LET running == IF s = "running" THEN lane[a].running + 1 ELSE 0
                      exited == IF s \in {"created", "exited"} THEN lane[a].exited + 1 ELSE 0
                  IN  CASE s = "gone" -> Throw(a, "retry")
                        [] Enough(running) -> Goto(a, AfterUp(a))
                        [] Enough(exited) -> Throw(a, "giveUp")
                        [] OTHER -> Becomes(a, [lane[a] EXCEPT !.running = running, !.exited = exited])
          /\ UNCHANGED mishaps
       \/ Throw(a, "retry") /\ Fail /\ UNCHANGED box
    /\ UNCHANGED <<kind, image, job, build, sweep, remove, calls, overlaps>>

\* attachServiceUrl: the PATCH may be refused, and then there is no restart; a
\* restart that fails, and the wait for the container afterwards, decide nothing.
Attach(a) ==
    /\ lane[a].pc = "attach"
    /\ \/ Goto(a, "restart") /\ box[lane[a].box] # "gone" /\ UNCHANGED mishaps
       \/ Goto(a, "report") /\ box[lane[a].box] = "gone" /\ UNCHANGED mishaps
       \/ Goto(a, "report") /\ Fail
    /\ UNCHANGED <<kind, image, job, box, build, sweep, remove, calls, overlaps>>

Restart(a) ==
    /\ lane[a].pc = "restart"
    /\ \E o \in Outcomes :
         /\ Starts(a, o)
         /\ IF o = "ok" /\ box[lane[a].box] # "gone"
            THEN Becomes(a, [lane[a] EXCEPT !.pc = "again", !.running = 0])
            ELSE Goto(a, "report")
         /\ Charge(o)
    /\ UNCHANGED <<kind, image, job, build, sweep, remove, calls, overlaps>>

Again(a) ==
    /\ lane[a].pc = "again"
    /\ \/ /\ \E s \in BoxStatus :
               /\ Reads(a, s)
               /\ LET running == IF s = "running" THEN lane[a].running + 1 ELSE 0
                  IN  IF s = "gone" \/ Enough(running)
                      THEN Goto(a, "report")
                      ELSE Becomes(a, [lane[a] EXCEPT !.running = running])
          /\ UNCHANGED mishaps
       \/ Goto(a, "report") /\ Fail /\ UNCHANGED box
    /\ UNCHANGED <<kind, image, job, build, sweep, remove, calls, overlaps>>

-----------------------------------------------------------------------------
(* deployAndWait.                                                          *)

\* Mutant: every attempt builds.
ResumesNothing(a) == FALSE

\* A build the row knows of is waited for; otherwise one is started.
Resumes(a) == lane[a].dep # None

Deploy(a) ==
    /\ lane[a].pc = "deploy"
    /\ \/ Resumes(a) /\ Goto(a, "watch") /\ UNCHANGED <<build, mishaps>>
       \/ /\ ~Resumes(a) /\ box[lane[a].box] # "gone"
          /\ \E d \in Builds, o \in Outcomes :
               /\ build[d] = "none"
               /\ build' = IF o = "dropped" THEN build ELSE [build EXCEPT ![d] = "pending"]
               /\ IF o = "ok" THEN Becomes(a, [lane[a] EXCEPT !.pc = "watch", !.dep = d]) ELSE Throw(a, "retry")
               /\ Charge(o)
       \/ ~Resumes(a) /\ box[lane[a].box] = "gone" /\ Throw(a, "retry") /\ UNCHANGED <<build, mishaps>>
    /\ UNCHANGED <<kind, image, job, box, sweep, remove, calls, overlaps>>

\* GET the deployment.  A failed build and a timeout hand its uuid back to the
\* runner; a GET that fails does not.
Watch(a) ==
    /\ lane[a].pc = "watch"
    /\ \/ /\ CASE build[lane[a].dep] = "finished" -> Goto(a, "report")
               [] build[lane[a].dep] = "failed" -> Goto(a, "giveUp")
               [] OTHER -> UNCHANGED lane
          /\ UNCHANGED mishaps
       \/ Throw(a, "retry") /\ Fail
    /\ UNCHANGED <<kind, image, job, box, build, sweep, remove, calls, overlaps>>

BuildEnds(d) ==
    /\ build[d] = "pending"
    /\ \E s \in {"finished", "failed"} : build' = [build EXCEPT ![d] = s]
    /\ UNCHANGED <<kind, image, job, box, lane, sweep, remove, mishaps, calls, overlaps>>

\* The deadline of a wait passes.
TimeOut(a) ==
    /\ \/ lane[a].pc = "poll" /\ Throw(a, "retry")
       \/ lane[a].pc = "again" /\ Goto(a, "report")
       \/ lane[a].pc = "watch" /\ Goto(a, "retry")
    /\ UNCHANGED <<kind, image, job, box, build, sweep, remove, mishaps, calls, overlaps>>

-----------------------------------------------------------------------------
(* The runner reports, or dies.                                            *)

\* The PUT of active; one that throws lands in the same catch block as a lane
\* that throws.
Report(a) ==
    /\ lane[a].pc = "report"
    /\ \E o \in Outcomes :
         /\ job' = IF o = "dropped" THEN job
                   ELSE [job EXCEPT !.status = "active", !.ref = lane[a].box,
                                    !.dep = IF kind = "application" THEN lane[a].dep ELSE @]
         /\ IF o = "ok" THEN Becomes(a, Idle) ELSE Throw(a, "retry")
         /\ Charge(o)
    /\ UNCHANGED <<kind, image, box, build, sweep, remove, calls, overlaps>>

\* The catch block saves a uuid it was handed.
KeptDep(a) == IF lane[a].dep # None THEN lane[a].dep ELSE job.dep

HandleFailure(a) ==
    /\ lane[a].pc \in {"retry", "giveUp"}
    /\ \E o \in Outcomes :
         /\ job' = IF o = "dropped" THEN job
                   ELSE [job EXCEPT !.attempts = lane[a].attempts + 1, !.dep = KeptDep(a),
                           !.status = IF lane[a].pc = "giveUp" \/ lane[a].attempts + 1 >= MaxAttempts
                                      THEN "needs_human" ELSE "queued"]
         /\ Charge(o)
    /\ Becomes(a, Idle)
    /\ UNCHANGED <<kind, image, box, build, sweep, remove, calls, overlaps>>

\* The process dies with its attempts and its sweep; the next boot has a new id.
Crash ==
    /\ Fail
    /\ lane' = [a \in Attempts |-> Idle]
    /\ sweep' = NoSweep
    /\ job' = [job EXCEPT !.ours = FALSE]
    /\ UNCHANGED <<kind, image, box, build, remove, calls, overlaps>>

\* reclaimStaleRunning lists a row that has been running for long, with or
\* without an attempt behind it ...
ListStale ==
    /\ sweep.at = "idle" /\ job.status = "running"
    /\ sweep' = [at |-> "write", attempts |-> job.attempts]
    /\ UNCHANGED <<kind, image, job, box, build, lane, remove, mishaps, calls, overlaps>>

\* ... and writes it, whatever it is by then; a PUT that fails is only skipped.
Reclaim ==
    /\ sweep.at = "write" /\ sweep' = NoSweep
    /\ LET n == sweep.attempts + 1
       IN  \E o \in Outcomes :
             /\ job' = CASE o = "dropped" -> job
                         [] o # "dropped" /\ n >= MaxAttempts -> [job EXCEPT !.attempts = n, !.status = "needs_human"]
                         [] OTHER -> [job EXCEPT !.attempts = n, !.status = "queued", !.ours = FALSE]
             /\ Charge(o)
    /\ UNCHANGED <<kind, image, box, build, lane, remove, calls, overlaps>>

-----------------------------------------------------------------------------
(* Staff and the customer.                                                 *)

\* POST /api/admin/provisioning/jobs/:id/retry, which leaves deployment_uuid.
AdminRetry ==
    /\ calls < MaxCalls /\ calls' = calls + 1
    /\ job' = [job EXCEPT !.status = "queued", !.attempts = 0]
    /\ UNCHANGED <<kind, image, box, build, lane, sweep, remove, mishaps, overlaps>>

\* destroyServiceInfrastructure reads the job ...
Remove ==
    /\ remove.at = "idle" /\ job.status # "deleted"
    /\ calls < MaxCalls /\ calls' = calls + 1
    /\ remove' = [at |-> IF job.ref = None THEN "mark" ELSE "destroy", ref |-> job.ref]
    /\ UNCHANGED <<kind, image, job, box, build, lane, sweep, mishaps, overlaps>>

\* ... destroys what it refers to; a 404 is as good ...
Destroy ==
    /\ remove.at = "destroy"
    /\ \E o \in Outcomes :
         /\ box' = IF o = "dropped" THEN box ELSE [box EXCEPT ![remove.ref] = "gone"]
         /\ remove' = [remove EXCEPT !.at = IF o = "ok" THEN "mark" ELSE "flag"]
         /\ Charge(o)
    /\ UNCHANGED <<kind, image, job, build, lane, sweep, calls, overlaps>>

\* ... and marks the job, best effort, whatever it is by then.
MarkRemoved ==
    /\ remove.at \in {"mark", "flag"}
    /\ \E o \in Outcomes :
         /\ job' = IF o = "dropped" THEN job
                   ELSE [job EXCEPT !.status = IF remove.at = "mark" THEN "deleted" ELSE "needs_human"]
         /\ Charge(o)
    /\ remove' = [at |-> "idle", ref |-> None]
    /\ UNCHANGED <<kind, image, box, build, lane, sweep, calls, overlaps>>

-----------------------------------------------------------------------------

LaneStep(a) ==
    \/ Fetch(a) \/ Claim(a)
    \/ List(a) \/ Create(a) \/ Look(a) \/ Start(a) \/ Poll(a) \/ Attach(a) \/ Restart(a) \/ Again(a)
    \/ Deploy(a) \/ Watch(a) \/ TimeOut(a) \/ Report(a) \/ HandleFailure(a)

Next ==
    \/ \E a \in Attempts : LaneStep(a)
    \/ Crash \/ ListStale \/ Reclaim
    \/ \E d \in Builds : BuildEnds(d)
    \/ AdminRetry \/ Remove \/ Destroy \/ MarkRemoved

Spec == Init /\ [][Next]_vars

-----------------------------------------------------------------------------
(* Properties.                                                             *)

TypeOK ==
    /\ kind \in Kinds /\ image \in Images
    /\ job \in [status : JobStatus, attempts : Nat, dep : Builds \cup {None}, ref : Resources \cup {None},
                ours : BOOLEAN]
    /\ box \in [Resources -> BoxStatus]
    /\ build \in [Builds -> BuildStatus]
    /\ lane \in [Attempts -> [pc : LanePc, attempts : Nat, box : Resources \cup {None}, dep : Builds \cup {None},
                             new : BOOLEAN, running : 0 .. 2, exited : 0 .. 2]]
    /\ sweep \in [at : {"idle", "write"}, attempts : Nat]
    /\ remove \in [at : {"idle", "destroy", "mark", "flag"}, ref : Resources \cup {None}]
    /\ mishaps \in Nat /\ calls \in Nat /\ overlaps \in Nat

\* "Every runner retry POSTed another container": a retry finds the container
\* by its name now.  Lost answers, crashes, retries by staff and deletions make
\* no second resource of a job; only attempts that overlap do, one each at most.
FewResources == Cardinality(Live) <= 1 + overlaps

Started == {d \in Builds : build[d] # "none"}

\* "The retry RESUMES polling that same deployment instead of triggering a
\* duplicate build": timeouts, backoff, reclaims and admin retries alone never
\* start a second build.  Each one beyond the first took a crash or a failed
\* request (a lost answer, a poll that failed, a PUT that did not arrive), or
\* an attempt that began beside another.
FewBuilds == Cardinality(Started) <= 1 + mishaps + overlaps

\* What an attempt makes of the readings is so: a resource it has started is
\* reported active only if it stays up, and a job is given up for good only if
\* its container does not come up or its build failed, never for one reading
\* between two processes.  A resource that is found up is believed.  Attempts
\* beside each other read, and restart, one container: only of builds does
\* this hold of them.
VerdictFits(a) ==
    /\ lane[a].pc = "report" =>
         CASE kind = "application" -> build[lane[a].dep] = "finished"
           [] OTHER -> overlaps = 0 => image # "dead" /\ (lane[a].new => image = "sound")
    /\ lane[a].pc = "giveUp" =>
         CASE kind = "application" -> build[lane[a].dep] = "failed"
           [] kind = "nothing" -> TRUE
           [] OTHER -> overlaps = 0 => image # "sound"
VerdictsFit == \A a \in Attempts : VerdictFits(a)

\* Deleting a service must not leave "the container running with no owning
\* record": once its job is deleted and no attempt is under way, nothing of it
\* is left on the platform.
NothingLeft == job.status = "deleted" /\ (\A a \in Attempts : ~Busy(a)) => Live = {}
=============================================================================
