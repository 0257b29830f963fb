--------------------------- MODULE ContainerProofs ---------------------------
(* Theorems about what happens to the customers' containers: the Coolify lane  *)
(* that creates and builds them (CoolifyBuilds), and the broker that opens     *)
(* shells in them, with what is kept of those (TerminalBroker).  The two       *)
(* components share no state; each part below is about one of them.            *)
EXTENDS CoolifyBuilds, TerminalBroker, FiniteSetTheorems, TLAPS

-----------------------------------------------------------------------------
(* CoolifyBuilds: attempts, their job and its builds are well typed            *)

Lanes ==
    [pc : LanePc, attempts : Nat, box : Resources \cup {None}, dep : Builds \cup {None},
     new : BOOLEAN, running : 0 .. 2, exited : 0 .. 2]

Jobs == [status : JobStatus, attempts : Nat, dep : Builds \cup {None}, ref : Resources \cup {None},
         ours : BOOLEAN]

Charged == mishaps' = mishaps + 1
Calm == mishaps' = mishaps

\* Only this attempt moves.
Only(a) == lane' \in [Attempts -> Lanes] /\ \A b \in Attempts \ {a} : lane'[b] = lane[b]

\* The attempt has the same resource in hand.
SameBox(a) == lane'[a].box = lane[a].box /\ lane'[a].new = lane[a].new

LEMMA LaneType ==
    ASSUME TypeOK
    PROVE  lane \in [Attempts -> Lanes] /\ job \in Jobs
  BY DEF TypeOK, Lanes, Jobs

LEMMA ChargeCounts ==
    ASSUME TypeOK, NEW o \in Outcomes, Charge(o)
    PROVE  (IF o = "ok" THEN Calm ELSE Charged) /\ mishaps' \in Nat
  BY DEF TypeOK, Charge, Fail, Charged, Calm

LEMMA FailCounts ==
    ASSUME TypeOK, Fail
    PROVE  Charged /\ mishaps' \in Nat
  BY DEF TypeOK, Fail, Charged

LEMMA BecomesFits ==
    ASSUME TypeOK, NEW a \in Attempts, NEW l \in Lanes, Becomes(a, l)
    PROVE  Only(a) /\ lane'[a] = l
  BY LaneType DEF Becomes, Only

LEMMA IdleFits ==
    Idle \in Lanes /\ Idle.pc = "idle" /\ Idle.dep = None /\ Idle.box = None /\ ~Idle.new
  <1> DEFINE zero == 0
  <1>1. zero \in Nat /\ zero \in 0 .. 2 /\ "idle" \in LanePc
    BY DEF LanePc
  <1>2. Idle = [pc |-> "idle", attempts |-> zero, box |-> None, dep |-> None, new |-> FALSE,
                running |-> zero, exited |-> zero]
    BY DEF Idle
  <1> HIDE DEF zero
  <1> QED BY <1>1, <1>2 DEF Lanes

LEMMA GotoFits ==
    ASSUME TypeOK, NEW a \in Attempts, NEW at \in LanePc, Goto(a, at)
    PROVE  Only(a) /\ lane'[a].pc = at /\ lane'[a].dep = lane[a].dep /\ SameBox(a)
  <1> DEFINE l == [lane[a] EXCEPT !.pc = at]
  <1>1. lane[a] \in Lanes
    BY LaneType
  <1>2. l \in Lanes /\ l.pc = at /\ l.dep = lane[a].dep /\ l.box = lane[a].box /\ l.new = lane[a].new
    BY <1>1 DEF Lanes
  <1>3. Becomes(a, l)
    BY DEF Goto
  <1> HIDE DEF l
  <1> QED BY <1>2, <1>3, BecomesFits DEF SameBox

LEMMA ThrowFits ==
    ASSUME TypeOK, NEW a \in Attempts, NEW at \in LanePc, Throw(a, at)
    PROVE  Only(a) /\ lane'[a].pc = at /\ lane'[a].dep = None /\ SameBox(a)
  <1> DEFINE l == [lane[a] EXCEPT !.pc = at, !.dep = None]
  <1>1. lane[a] \in Lanes
    BY LaneType
  <1>2. l \in Lanes /\ l.pc = at /\ l.dep = None /\ l.box = lane[a].box /\ l.new = lane[a].new
    BY <1>1 DEF Lanes
  <1>3. Becomes(a, l)
    BY DEF Throw
  <1> HIDE DEF l
  <1> QED BY <1>2, <1>3, BecomesFits DEF SameBox

\* A step that counts.
LEMMA CountFits ==
    ASSUME TypeOK, NEW a \in Attempts, NEW n \in 0 .. 2, NEW k \in 0 .. 2,
           Becomes(a, [lane[a] EXCEPT !.running = n, !.exited = k])
    PROVE  /\ Only(a) /\ lane'[a].pc = lane[a].pc /\ lane'[a].dep = lane[a].dep /\ SameBox(a)
           /\ lane'[a].running = n /\ lane'[a].exited = k
  <1>1. lane[a] \in Lanes
    BY LaneType
  <1>2. PICK l : Becomes(a, l) /\ l = [lane[a] EXCEPT !.running = n, !.exited = k]
    OBVIOUS
  <1>3. /\ l \in Lanes /\ l.pc = lane[a].pc /\ l.dep = lane[a].dep /\ l.box = lane[a].box
        /\ l.new = lane[a].new /\ l.running = n /\ l.exited = k
    BY <1>1, <1>2 DEF Lanes
  <1> QED BY <1>2, <1>3, BecomesFits DEF SameBox

LEMMA FromNothingFits ==
    ASSUME TypeOK, NEW a \in Attempts,
           Becomes(a, [lane[a] EXCEPT !.pc = "poll", !.running = 0, !.exited = 0])
    PROVE  /\ Only(a) /\ lane'[a].pc = "poll" /\ lane'[a].dep = lane[a].dep /\ SameBox(a)
           /\ lane'[a].running = 0 /\ lane'[a].exited = 0
  <1>1. lane[a] \in Lanes /\ "poll" \in LanePc
    BY LaneType DEF LanePc
  <1> DEFINE zero == 0
  <1>2. PICK l : Becomes(a, l) /\ l = [lane[a] EXCEPT !.pc = "poll", !.running = zero, !.exited = zero]
    OBVIOUS
  <1>3. zero \in 0 .. 2
    OBVIOUS
  <1> HIDE DEF zero
  <1>4. /\ l \in Lanes /\ l.pc = "poll" /\ l.dep = lane[a].dep /\ l.box = lane[a].box
        /\ l.new = lane[a].new /\ l.running = zero /\ l.exited = zero
    BY <1>1, <1>2, <1>3 DEF Lanes
  <1>5. Only(a) /\ lane'[a] = l
    BY <1>2, <1>4, BecomesFits
  <1> QED BY <1>4, <1>5 DEF SameBox, zero

LEMMA RunningFits ==
    ASSUME TypeOK, NEW a \in Attempts, NEW n \in 0 .. 2, Becomes(a, [lane[a] EXCEPT !.running = n])
    PROVE  Only(a) /\ lane'[a].pc = lane[a].pc /\ lane'[a].dep = lane[a].dep /\ SameBox(a)
  <1>1. lane[a] \in Lanes
    BY LaneType
  <1>2. PICK l : Becomes(a, l) /\ l = [lane[a] EXCEPT !.running = n]
    OBVIOUS
  <1>3. l \in Lanes /\ l.pc = lane[a].pc /\ l.dep = lane[a].dep /\ l.box = lane[a].box /\ l.new = lane[a].new
    BY <1>1, <1>2 DEF Lanes
  <1> QED BY <1>2, <1>3, BecomesFits DEF SameBox

LEMMA AnewFits ==
    ASSUME TypeOK, NEW a \in Attempts, Becomes(a, [lane[a] EXCEPT !.pc = "again", !.running = 0])
    PROVE  Only(a) /\ lane'[a].pc = "again" /\ lane'[a].dep = lane[a].dep /\ SameBox(a)
  <1>1. lane[a] \in Lanes /\ "again" \in LanePc
    BY LaneType DEF LanePc
  <1> DEFINE zero == 0
  <1>2. PICK l : Becomes(a, l) /\ l = [lane[a] EXCEPT !.pc = "again", !.running = zero]
    OBVIOUS
  <1>3. zero \in 0 .. 2
    OBVIOUS
  <1> HIDE DEF zero
  <1>4. l \in Lanes /\ l.pc = "again" /\ l.dep = lane[a].dep /\ l.box = lane[a].box /\ l.new = lane[a].new
    BY <1>1, <1>2, <1>3 DEF Lanes
  <1> QED BY <1>2, <1>4, BecomesFits DEF SameBox

\* A step that takes a resource, or a build, in hand.
LEMMA TakesFits ==
    ASSUME TypeOK, NEW a \in Attempts, NEW at \in LanePc, NEW u \in Resources,
           \/ Becomes(a, [lane[a] EXCEPT !.pc = at, !.box = u])
           \/ Becomes(a, [lane[a] EXCEPT !.pc = at, !.box = u, !.new = TRUE])
    PROVE  /\ Only(a) /\ lane'[a].pc = at /\ lane'[a].dep = lane[a].dep /\ lane'[a].box = u
           /\ Becomes(a, [lane[a] EXCEPT !.pc = at, !.box = u]) => lane'[a].new = lane[a].new
  <1>1. lane[a] \in Lanes
    BY LaneType
  <1>2. ASSUME NEW l, l = [lane[a] EXCEPT !.pc = at, !.box = u]
        PROVE  l \in Lanes /\ l.pc = at /\ l.dep = lane[a].dep /\ l.box = u /\ l.new = lane[a].new
    BY <1>1, <1>2 DEF Lanes
  <1>3. ASSUME NEW l, l = [lane[a] EXCEPT !.pc = at, !.box = u, !.new = TRUE]
        PROVE  l \in Lanes /\ l.pc = at /\ l.dep = lane[a].dep /\ l.box = u
    BY <1>1, <1>3 DEF Lanes
  <1> QED BY <1>2, <1>3, BecomesFits

LEMMA BuildsFits ==
    ASSUME TypeOK, NEW a \in Attempts, NEW at \in LanePc, NEW d \in Builds,
           Becomes(a, [lane[a] EXCEPT !.pc = at, !.dep = d])
    PROVE  Only(a) /\ lane'[a].pc = at /\ lane'[a].dep = d /\ SameBox(a)
  <1> DEFINE l == [lane[a] EXCEPT !.pc = at, !.dep = d]
  <1>1. lane[a] \in Lanes
    BY LaneType
  <1>2. l \in Lanes /\ l.pc = at /\ l.dep = d /\ l.box = lane[a].box /\ l.new = lane[a].new
    BY <1>1 DEF Lanes
  <1> HIDE DEF l
  <1> QED BY <1>2, BecomesFits DEF SameBox, l

\* No resource appears, and none comes back.
Settled ==
    \A u \in Resources :
      /\ box'[u] = "none" => box[u] = "none"
      /\ box[u] \in {"none", "gone"} => box'[u] \in {"none", "gone"}

\* A resource an attempt has in hand exists.
KnownBox == \A a \in Attempts : lane[a].box \in Resources => box[lane[a].box] # "none"

LEMMA BoxType ==
    ASSUME TypeOK, NEW u, NEW s \in BoxStatus, box' = [box EXCEPT ![u] = s] \/ box' = box
    PROVE  box' \in [Resources -> BoxStatus]
  BY DEF TypeOK

\* A status that is read is one the platform may give at that time.
LEMMA ReadingsFit ==
    ASSUME image \in Images, NEW x \in BoxStatus, NEW s \in Readings(x)
    PROVE  /\ x \in {"none", "created", "gone"} => s = x
           /\ x \notin {"none", "created", "gone"} => s \in {"starting", "running", "restarting", "exited"}
           /\ x \notin {"none", "created", "gone"} /\ image = "dead" => s = "exited"
           /\ x = "running" /\ image = "looping" => s # "running"
           /\ x = "exited" /\ image = "sound" => s # "exited"
  <1>1. CASE x \in {"none", "created", "gone"}
    BY <1>1 DEF Readings
  <1>2. CASE x \notin {"none", "created", "gone"} /\ image = "dead"
    BY <1>2 DEF Readings
  <1>3. CASE x \notin {"none", "created", "gone"} /\ image = "looping"
    BY <1>3 DEF Readings
  <1>4. CASE x \notin {"none", "created", "gone"} /\ image = "sound"
    BY <1>4 DEF Readings, BoxStatus
  <1> QED BY <1>1, <1>2, <1>3, <1>4 DEF Images

LEMMA ReadsSettled ==
    ASSUME TypeOK, NEW a \in Attempts, NEW s \in BoxStatus, Reads(a, s)
    PROVE  Settled /\ box' \in [Resources -> BoxStatus]
  <1>1. CASE lane[a].box \in Resources
    <2>1. box[lane[a].box] \in BoxStatus /\ s \in Readings(box[lane[a].box]) /\ image \in Images
      BY <1>1 DEF TypeOK, Reads
    <2>2. /\ s = "none" => box[lane[a].box] = "none"
          /\ box[lane[a].box] \in {"none", "gone"} => s \in {"none", "gone"}
      BY <2>1, ReadingsFit
    <2> QED BY <1>1, <2>2, BoxType DEF Reads, TypeOK, Settled
  <1>2. CASE lane[a].box \notin Resources
    BY <1>2, BoxType DEF Reads, TypeOK, Settled
  <1> QED BY <1>1, <1>2

LEMMA StartsSettled ==
    ASSUME TypeOK, KnownBox, NEW a \in Attempts, NEW o \in Outcomes, Starts(a, o)
    PROVE  Settled /\ box' \in [Resources -> BoxStatus]
  <1>0. box' \in [Resources -> BoxStatus]
    BY BoxType DEF Starts, BoxStatus
  <1>1. CASE lane[a].box \in Resources
    BY <1>0, <1>1 DEF Starts, TypeOK, Settled, KnownBox
  <1>2. CASE lane[a].box \notin Resources
    BY <1>0, <1>2 DEF Starts, TypeOK, Settled
  <1> QED BY <1>1, <1>2

-----------------------------------------------------------------------------
(* CoolifyBuilds: what each step does to the attempt that takes it            *)

\* What is none of an attempt's business.
Apart == UNCHANGED <<kind, image, remove, calls>>

LEMMA FetchDoes ==
    ASSUME TypeOK, NEW a \in Attempts, Fetch(a)
    PROVE  /\ TypeOK' /\ Apart /\ UNCHANGED <<box, build, job, mishaps>> /\ Only(a)
           /\ lane[a].pc = "idle" /\ lane'[a].pc = "claim" /\ lane'[a].dep = job.dep
           /\ lane'[a].box = None /\ ~lane'[a].new
           /\ \/ overlaps' = overlaps /\ \A b \in Attempts : ~Busy(b)
              \/ overlaps' = overlaps + 1
  <1>0. PICK l : l = [Idle EXCEPT !.pc = "claim", !.attempts = job.attempts, !.dep = job.dep]
    OBVIOUS
  <1>1. l \in Lanes /\ l.pc = "claim" /\ l.dep = job.dep /\ l.box = None /\ ~l.new
    <2>1. job.attempts \in Nat /\ job.dep \in Builds \cup {None} /\ "claim" \in LanePc
      BY DEF TypeOK, LanePc
    <2> QED BY <1>0, <2>1, IdleFits DEF Lanes
  <1>2. Becomes(a, l)
    BY <1>0 DEF Fetch
  <1>3. Only(a) /\ lane'[a] = l
    BY <1>1, <1>2, BecomesFits
  <1>4. \/ overlaps' = overlaps /\ \A b \in Attempts : ~Busy(b)
        \/ overlaps' = overlaps + 1
    BY DEF Fetch
  <1>5. UNCHANGED <<kind, image, job, box, build, sweep, remove, mishaps, calls>> /\ lane[a].pc = "idle"
    BY DEF Fetch, Busy
  <1>6. TypeOK'
    BY <1>3, <1>4, <1>5 DEF TypeOK, Only, Lanes
  <1> QED BY <1>1, <1>3, <1>4, <1>5, <1>6 DEF Apart

LEMMA ClaimDoes ==
    ASSUME TypeOK, NEW a \in Attempts, Claim(a)
    PROVE  /\ TypeOK' /\ Apart /\ UNCHANGED <<box, build, overlaps>> /\ Only(a)
           /\ job'.dep = job.dep /\ lane[a].pc = "claim"
           /\ \/ lane'[a] = Idle
              \/ lane'[a].pc = "list" /\ lane'[a].dep = lane[a].dep /\ SameBox(a)
           /\ Calm \/ Charged
  <1>0. UNCHANGED <<kind, image, box, build, sweep, remove, calls, overlaps>> /\ lane[a].pc = "claim"
    BY DEF Claim
  <1>1. Becomes(a, Idle) \/ Goto(a, "list")
    BY DEF Claim
  <1>2. job' \in Jobs /\ job'.dep = job.dep
    BY DEF Claim, TypeOK, Jobs, JobStatus
  <1>3. (Calm \/ Charged) /\ mishaps' \in Nat
    BY ChargeCounts, FailCounts DEF Claim, Calm, TypeOK
  <1>4. Only(a)
    BY <1>1, IdleFits, BecomesFits, GotoFits DEF LanePc
  <1>5. \/ lane'[a] = Idle
        \/ lane'[a].pc = "list" /\ lane'[a].dep = lane[a].dep /\ SameBox(a)
    <2>1. Becomes(a, Idle) => lane'[a] = Idle
      BY IdleFits, BecomesFits
    <2>2. Goto(a, "list") => lane'[a].pc = "list" /\ lane'[a].dep = lane[a].dep /\ SameBox(a)
      BY GotoFits DEF LanePc
    <2> QED BY <1>1, <2>1, <2>2
  <1>6. TypeOK'
    BY <1>0, <1>2, <1>3, <1>4 DEF TypeOK, Only, Lanes, Jobs
  <1> QED BY <1>0, <1>2, <1>3, <1>4, <1>5, <1>6 DEF Apart

LEMMA ListDoes ==
    ASSUME TypeOK, NEW a \in Attempts, List(a)
    PROVE  /\ TypeOK' /\ Apart /\ UNCHANGED <<box, build, job, overlaps>> /\ Only(a)
           /\ lane[a].pc = "list"
           /\ \/ /\ lane'[a].pc = AfterFound /\ lane'[a].box \in Live /\ Calm
                 /\ lane'[a].dep = lane[a].dep /\ lane'[a].new = lane[a].new
              \/ Live = {} /\ lane'[a].pc = "create" /\ lane'[a].dep = lane[a].dep /\ SameBox(a) /\ Calm
              \/ kind = "nothing" /\ lane'[a].pc = "giveUp" /\ lane'[a].dep = None /\ SameBox(a) /\ Calm
              \/ lane'[a].pc = "retry" /\ lane'[a].dep = None /\ SameBox(a) /\ Charged
  <1>0. UNCHANGED <<kind, image, job, box, build, sweep, remove, calls, overlaps>> /\ lane[a].pc = "list"
    BY DEF List
  <1>1. CASE \E u \in Live : Becomes(a, [lane[a] EXCEPT !.pc = AfterFound, !.box = u]) /\ UNCHANGED mishaps
    <2>1. PICK u \in Live : Becomes(a, [lane[a] EXCEPT !.pc = AfterFound, !.box = u])
      BY <1>1
    <2>2. Only(a) /\ lane'[a].pc = AfterFound /\ lane'[a].dep = lane[a].dep /\ lane'[a].box = u
          /\ lane'[a].new = lane[a].new
      BY <2>1, TakesFits DEF AfterFound, LanePc, Live
    <2> QED BY <1>0, <1>1, <2>2 DEF Calm, Apart, TypeOK, Only, Lanes
  <1>2. CASE Live = {} /\ (IF kind = "nothing" THEN Throw(a, "giveUp") ELSE Goto(a, "create")) /\ UNCHANGED mishaps
    <2>1. /\ Only(a) /\ SameBox(a)
          /\ \/ kind = "nothing" /\ lane'[a].pc = "giveUp" /\ lane'[a].dep = None
             \/ lane'[a].pc = "create" /\ lane'[a].dep = lane[a].dep
      BY <1>2, GotoFits, ThrowFits DEF LanePc
    <2> QED BY <1>0, <1>2, <2>1 DEF Calm, Apart, TypeOK, Only, Lanes
  <1>3. CASE RefuseBlind(a) /\ Fail
    <2>1. Only(a) /\ SameBox(a) /\ lane'[a].pc = "retry" /\ lane'[a].dep = None
      BY <1>3, ThrowFits DEF LanePc, RefuseBlind
    <2>2. Charged /\ mishaps' \in Nat
      BY <1>3, FailCounts
    <2> QED BY <1>0, <2>1, <2>2 DEF Apart, TypeOK, Only, Lanes
  <1> QED BY <1>1, <1>2, <1>3 DEF List

LEMMA CreateDoes ==
    ASSUME TypeOK, NEW a \in Attempts, Create(a)
    PROVE  /\ TypeOK' /\ Apart /\ UNCHANGED <<build, job, overlaps>> /\ Only(a)
           /\ lane[a].pc = "create"
           /\ \E u \in Resources :
                /\ box[u] = "none"
                /\ \/ /\ lane'[a].pc = AfterFound /\ lane'[a].box = u /\ lane'[a].dep = lane[a].dep /\ Calm
                      /\ box' = [box EXCEPT ![u] = "created"]
                   \/ /\ lane'[a].pc = "retry" /\ lane'[a].dep = None /\ SameBox(a) /\ Charged
                      /\ box' = box \/ box' = [box EXCEPT ![u] = "created"]
  <1>0. UNCHANGED <<kind, image, job, build, sweep, remove, calls, overlaps>> /\ lane[a].pc = "create"
    BY DEF Create
  <1>1. PICK u \in Resources, o \in Outcomes :
          /\ box[u] = "none"
          /\ box' = IF o = "dropped" THEN box ELSE [box EXCEPT ![u] = "created"]
          /\ IF o = "ok"
             THEN Becomes(a, [lane[a] EXCEPT !.pc = AfterFound, !.box = u, !.new = TRUE])
             ELSE Throw(a, "retry")
          /\ Charge(o)
    BY DEF Create
  <1>2. (IF o = "ok" THEN Calm ELSE Charged) /\ mishaps' \in Nat
    BY <1>1, ChargeCounts
  <1>3. box' \in [Resources -> BoxStatus]
    BY <1>1, BoxType DEF BoxStatus
  <1>4. CASE o = "ok"
    <2>1. Only(a) /\ lane'[a].pc = AfterFound /\ lane'[a].box = u /\ lane'[a].dep = lane[a].dep
      BY <1>1, <1>4, TakesFits DEF AfterFound, LanePc
    <2>2. TypeOK'
      BY <1>0, <1>2, <1>3, <2>1 DEF TypeOK, Only, Lanes
    <2> QED BY <1>0, <1>1, <1>2, <1>4, <2>1, <2>2 DEF Apart
  <1>5. CASE o # "ok"
    <2>1. Only(a) /\ lane'[a].pc = "retry" /\ lane'[a].dep = None /\ SameBox(a)
      BY <1>1, <1>5, ThrowFits DEF LanePc
    <2>2. TypeOK'
      BY <1>0, <1>2, <1>3, <2>1 DEF TypeOK, Only, Lanes
    <2> QED BY <1>0, <1>1, <1>2, <1>5, <2>1, <2>2 DEF Apart
  <1> QED BY <1>4, <1>5

\* What an attempt may be at while it starts a resource and reads it, and after.
Starting == {"look", "start", "poll", "attach", "restart", "again"}

\* The steps that start a resource and read it.
ServiceDoes(a) ==
    /\ TypeOK' /\ Apart /\ UNCHANGED <<build, job, overlaps>> /\ Only(a) /\ SameBox(a)
    /\ lane[a].pc \in Starting
    /\ lane'[a].pc \in (Starting \ {"look"}) \cup {"report", "retry", "giveUp"}
    /\ lane'[a].dep \in {lane[a].dep, None}
    /\ Calm \/ Charged
    /\ Settled

LEMMA UpDoes ==
    ASSUME TypeOK, KnownBox, NEW a \in Attempts, Look(a) \/ Start(a)
    PROVE  ServiceDoes(a)
  <1>1. CASE Look(a)
    <2>0. UNCHANGED <<kind, image, job, build, sweep, remove, calls, overlaps>> /\ lane[a].pc = "look"
      BY <1>1 DEF Look
    <2>1. Throw(a, "retry") \/ Goto(a, AfterUp(a)) \/ Goto(a, "start")
      BY <1>1 DEF Look
    <2>2. /\ Only(a) /\ SameBox(a) /\ lane'[a].dep \in {lane[a].dep, None}
          /\ lane'[a].pc \in {"retry", "attach", "report", "start"}
      BY <2>1, ThrowFits, GotoFits DEF AfterUp, LanePc
    <2>3. (Calm \/ Charged) /\ mishaps' \in Nat
      BY <1>1, FailCounts DEF Look, Calm, TypeOK
    <2>4. Settled /\ box' \in [Resources -> BoxStatus]
      <3>1. CASE UNCHANGED box
        BY <3>1 DEF Settled, TypeOK
      <3> QED BY <1>1, <3>1, ReadsSettled DEF Look
    <2>5. TypeOK'
      BY <2>0, <2>2, <2>3, <2>4 DEF TypeOK, Only, Lanes
    <2> QED BY <2>0, <2>2, <2>3, <2>4, <2>5 DEF ServiceDoes, Apart, Starting
  <1>2. CASE Start(a)
    <2>0. UNCHANGED <<kind, image, job, build, sweep, remove, calls, overlaps>> /\ lane[a].pc = "start"
      BY <1>2 DEF Start
    <2>1. PICK o \in Outcomes :
            /\ Starts(a, o)
            /\ IF o = "ok" /\ box[lane[a].box] # "gone"
               THEN Becomes(a, [lane[a] EXCEPT !.pc = "poll", !.running = 0, !.exited = 0])
               ELSE Throw(a, "retry")
            /\ Charge(o)
      BY <1>2 DEF Start
    <2>2. /\ Only(a) /\ SameBox(a) /\ lane'[a].dep \in {lane[a].dep, None}
          /\ lane'[a].pc \in {"retry", "poll"}
      <3>1. CASE Throw(a, "retry")
        BY <3>1, ThrowFits DEF LanePc
      <3>2. CASE Becomes(a, [lane[a] EXCEPT !.pc = "poll", !.running = 0, !.exited = 0])
        BY <3>2, FromNothingFits
      <3> QED BY <2>1, <3>1, <3>2
    <2>3. (Calm \/ Charged) /\ mishaps' \in Nat
      BY <2>1, ChargeCounts
    <2>4. Settled /\ box' \in [Resources -> BoxStatus]
      BY <2>1, StartsSettled
    <2>5. TypeOK'
      BY <2>0, <2>2, <2>3, <2>4 DEF TypeOK, Only, Lanes
    <2> QED BY <2>0, <2>2, <2>3, <2>4, <2>5 DEF ServiceDoes, Apart, Starting
  <1> QED BY <1>1, <1>2

\* A reading that the wait for a running container takes.
PollReads(a, s) ==
    LET running == IF s = "running" THEN lane[a].running + 1 ELSE 0
        exited == IF s \in {"created", "exited"} THEN lane[a].exited + 1 ELSE 0
    IN  \/ s = "gone" /\ lane'[a].pc = "retry"
        \/ Enough(running) /\ lane'[a].pc = AfterUp(a)
        \/ ~Enough(running) /\ Enough(exited) /\ lane'[a].pc = "giveUp"
        \/ /\ s # "gone" /\ ~Enough(running) /\ ~Enough(exited) /\ lane'[a].pc = "poll"
           /\ lane'[a].running = running /\ lane'[a].exited = exited

LEMMA PollDoes ==
    ASSUME TypeOK, KnownBox, NEW a \in Attempts, Poll(a)
    PROVE  /\ ServiceDoes(a)
           /\ lane'[a].pc = "retry" \/ \E s \in BoxStatus : Reads(a, s) /\ PollReads(a, s)
  <1>0. UNCHANGED <<kind, image, job, build, sweep, remove, calls, overlaps>> /\ lane[a].pc = "poll"
    BY DEF Poll
  <1>1. CASE Throw(a, "retry") /\ Fail /\ UNCHANGED box
    <2>1. Only(a) /\ SameBox(a) /\ lane'[a].dep = None /\ lane'[a].pc = "retry"
      BY <1>1, ThrowFits DEF LanePc
    <2>2. Charged /\ mishaps' \in Nat
      BY <1>1, FailCounts
    <2>3. Settled /\ box' \in [Resources -> BoxStatus]
      BY <1>1 DEF Settled, TypeOK
    <2>4. TypeOK'
      BY <1>0, <2>1, <2>2, <2>3 DEF TypeOK, Only, Lanes
    <2> QED BY <1>0, <2>1, <2>2, <2>3, <2>4 DEF ServiceDoes, Apart, Starting
  <1>2. CASE ~(Throw(a, "retry") /\ Fail /\ UNCHANGED box)
    <2> DEFINE up(s) == IF s = "running" THEN lane[a].running + 1 ELSE 0
               down(s) == IF s \in {"created", "exited"} THEN lane[a].exited + 1 ELSE 0
    <2>1. PICK s \in BoxStatus :
            /\ Reads(a, s) /\ UNCHANGED mishaps
            /\ CASE s = "gone" -> Throw(a, "retry")
                 [] Enough(up(s)) -> Goto(a, AfterUp(a))
                 [] Enough(down(s)) -> Throw(a, "giveUp")
                 [] OTHER -> Becomes(a, [lane[a] EXCEPT !.running = up(s), !.exited = down(s)])
      BY <1>2 DEF Poll
    <2>2. up(s) \in Nat /\ down(s) \in Nat
      BY DEF TypeOK
    <2>3. CASE s = "gone" /\ Throw(a, "retry")
      <3>1. Only(a) /\ SameBox(a) /\ lane'[a].dep = None /\ lane'[a].pc = "retry"
        BY <2>3, ThrowFits DEF LanePc
      <3>2. Settled /\ box' \in [Resources -> BoxStatus]
        BY <2>1, ReadsSettled
      <3>3. TypeOK'
        BY <1>0, <2>1, <3>1, <3>2 DEF TypeOK, Only, Lanes
      <3> QED BY <1>0, <2>1, <3>1, <3>2, <3>3 DEF ServiceDoes, Apart, Starting, Calm
    <2>4. CASE Enough(up(s)) /\ Goto(a, AfterUp(a))
      <3>1. Only(a) /\ SameBox(a) /\ lane'[a].dep = lane[a].dep /\ lane'[a].pc = AfterUp(a)
        BY <2>4, GotoFits DEF LanePc, AfterUp
      <3>2. Settled /\ box' \in [Resources -> BoxStatus]
        BY <2>1, ReadsSettled
      <3>3. TypeOK'
        BY <1>0, <2>1, <3>1, <3>2 DEF TypeOK, Only, Lanes
      <3>4. PollReads(a, s)
        BY <2>4, <3>1 DEF PollReads
      <3> QED BY <1>0, <2>1, <3>1, <3>2, <3>3, <3>4 DEF ServiceDoes, Apart, Starting, Calm, AfterUp
    <2>5. CASE ~Enough(up(s)) /\ Enough(down(s)) /\ Throw(a, "giveUp")
      <3>1. Only(a) /\ SameBox(a) /\ lane'[a].dep = None /\ lane'[a].pc = "giveUp"
        BY <2>5, ThrowFits DEF LanePc
      <3>2. Settled /\ box' \in [Resources -> BoxStatus]
        BY <2>1, ReadsSettled
      <3>3. TypeOK'
        BY <1>0, <2>1, <3>1, <3>2 DEF TypeOK, Only, Lanes
      <3>4. PollReads(a, s)
        BY <2>5, <3>1 DEF PollReads
      <3> QED BY <1>0, <2>1, <3>1, <3>2, <3>3, <3>4 DEF ServiceDoes, Apart, Starting, Calm
    <2>6. CASE /\ s # "gone" /\ ~Enough(up(s)) /\ ~Enough(down(s))
               /\ Becomes(a, [lane[a] EXCEPT !.running = up(s), !.exited = down(s)])
      <3>0. up(s) \in 0 .. 2 /\ down(s) \in 0 .. 2
        BY <2>2, <2>6 DEF Enough
      <3>1. /\ Only(a) /\ SameBox(a) /\ lane'[a].dep = lane[a].dep /\ lane'[a].pc = "poll"
            /\ lane'[a].running = up(s) /\ lane'[a].exited = down(s)
        <4> HIDE DEF up, down
        <4> QED BY <1>0, <2>6, <3>0, CountFits
      <3>2. Settled /\ box' \in [Resources -> BoxStatus]
        BY <2>1, ReadsSettled
      <3>3. TypeOK'
        BY <1>0, <2>1, <3>1, <3>2 DEF TypeOK, Only, Lanes
      <3>4. PollReads(a, s)
        BY <2>6, <3>1 DEF PollReads
      <3> QED BY <1>0, <2>1, <3>1, <3>2, <3>3, <3>4 DEF ServiceDoes, Apart, Starting, Calm
    <2>7. (s = "gone" => ~Enough(up(s)) /\ ~Enough(down(s))) /\ ~(Enough(up(s)) /\ Enough(down(s)))
      BY DEF Enough
    <2> HIDE DEF up, down
    <2> QED BY <2>1, <2>3, <2>4, <2>5, <2>6, <2>7
  <1> QED BY <1>1, <1>2

LEMMA UrlDoes ==
    ASSUME TypeOK, KnownBox, NEW a \in Attempts, Attach(a) \/ Restart(a) \/ Again(a)
    PROVE  ServiceDoes(a) /\ lane[a].pc \in {"attach", "restart", "again"}
           /\ lane'[a].pc \in {"restart", "again", "report"}
  <1>1. CASE Attach(a)
    <2>0. UNCHANGED <<kind, image, job, box, build, sweep, remove, calls, overlaps>> /\ lane[a].pc = "attach"
      BY <1>1 DEF Attach
    <2>1. Goto(a, "restart") \/ Goto(a, "report")
      BY <1>1 DEF Attach
    <2>2. Only(a) /\ SameBox(a) /\ lane'[a].dep = lane[a].dep /\ lane'[a].pc \in {"restart", "report"}
      BY <2>1, GotoFits DEF LanePc
    <2>3. (Calm \/ Charged) /\ mishaps' \in Nat
      BY <1>1, FailCounts DEF Attach, Calm, TypeOK
    <2>4. TypeOK'
      BY <2>0, <2>2, <2>3 DEF TypeOK, Only, Lanes
    <2> QED BY <2>0, <2>2, <2>3, <2>4 DEF ServiceDoes, Apart, Starting, Settled
  <1>2. CASE Restart(a)
    <2>0. UNCHANGED <<kind, image, job, build, sweep, remove, calls, overlaps>> /\ lane[a].pc = "restart"
      BY <1>2 DEF Restart
    <2>1. PICK o \in Outcomes :
            /\ Starts(a, o)
            /\ IF o = "ok" /\ box[lane[a].box] # "gone"
               THEN Becomes(a, [lane[a] EXCEPT !.pc = "again", !.running = 0])
               ELSE Goto(a, "report")
            /\ Charge(o)
      BY <1>2 DEF Restart
    <2>2. Only(a) /\ SameBox(a) /\ lane'[a].dep = lane[a].dep /\ lane'[a].pc \in {"again", "report"}
      <3>1. CASE Goto(a, "report")
        BY <3>1, GotoFits DEF LanePc
      <3>2. CASE Becomes(a, [lane[a] EXCEPT !.pc = "again", !.running = 0])
        BY <3>2, AnewFits
      <3> QED BY <2>1, <3>1, <3>2
    <2>3. (Calm \/ Charged) /\ mishaps' \in Nat
      BY <2>1, ChargeCounts
    <2>4. Settled /\ box' \in [Resources -> BoxStatus]
      BY <2>1, StartsSettled
    <2>5. TypeOK'
      BY <2>0, <2>2, <2>3, <2>4 DEF TypeOK, Only, Lanes
    <2> QED BY <2>0, <2>2, <2>3, <2>4, <2>5 DEF ServiceDoes, Apart, Starting
  <1>3. CASE Again(a)
    <2>0. UNCHANGED <<kind, image, job, build, sweep, remove, calls, overlaps>> /\ lane[a].pc = "again"
      BY <1>3 DEF Again
    <2> DEFINE up(s) == IF s = "running" THEN lane[a].running + 1 ELSE 0
    <2>1. \/ Goto(a, "report")
          \/ \E s \in BoxStatus : ~Enough(up(s)) /\ Becomes(a, [lane[a] EXCEPT !.running = up(s)])
      BY <1>3 DEF Again
    <2>2. Only(a) /\ SameBox(a) /\ lane'[a].dep = lane[a].dep /\ lane'[a].pc \in {"again", "report"}
      <3>1. CASE Goto(a, "report")
        BY <3>1, GotoFits DEF LanePc
      <3>2. CASE \E s \in BoxStatus : ~Enough(up(s)) /\ Becomes(a, [lane[a] EXCEPT !.running = up(s)])
        <4>1. PICK s \in BoxStatus : ~Enough(up(s)) /\ Becomes(a, [lane[a] EXCEPT !.running = up(s)])
          BY <3>2
        <4>2. up(s) \in 0 .. 2
          <5>1. up(s) \in Nat
            BY DEF TypeOK
          <5> QED BY <4>1, <5>1 DEF Enough
        <4> HIDE DEF up
        <4> QED BY <2>0, <4>1, <4>2, RunningFits
      <3> QED BY <2>1, <3>1, <3>2
    <2>3. (Calm \/ Charged) /\ mishaps' \in Nat
      BY <1>3, FailCounts DEF Again, Calm, TypeOK
    <2>4. Settled /\ box' \in [Resources -> BoxStatus]
      <3>1. CASE UNCHANGED box
        BY <3>1 DEF Settled, TypeOK
      <3> QED BY <1>3, <3>1, ReadsSettled DEF Again
    <2>5. TypeOK'
      BY <2>0, <2>2, <2>3, <2>4 DEF TypeOK, Only, Lanes
    <2> QED BY <2>0, <2>2, <2>3, <2>4, <2>5 DEF ServiceDoes, Apart, Starting
  <1> QED BY <1>1, <1>2, <1>3

LEMMA DeployDoes ==
    ASSUME TypeOK, NEW a \in Attempts, Deploy(a)
    PROVE  /\ TypeOK' /\ Apart /\ UNCHANGED <<box, job, overlaps>> /\ Only(a) /\ SameBox(a)
           /\ lane[a].pc = "deploy"
           /\ \/ /\ lane[a].dep # None /\ lane'[a].pc = "watch" /\ lane'[a].dep = lane[a].dep
                 /\ UNCHANGED build /\ Calm
              \/ /\ lane[a].dep = None /\ lane'[a].pc = "retry" /\ lane'[a].dep = None
                 /\ UNCHANGED build /\ Calm
              \/ /\ lane[a].dep = None
                 /\ \E d \in Builds :
                      /\ build[d] = "none" /\ (build' = build \/ build' = [build EXCEPT ![d] = "pending"])
                      /\ \/ lane'[a].pc = "watch" /\ lane'[a].dep = d /\ Calm
                         \/ lane'[a].pc = "retry" /\ lane'[a].dep = None /\ Charged
  <1>0. UNCHANGED <<kind, image, job, box, sweep, remove, calls, overlaps>> /\ lane[a].pc = "deploy"
    BY DEF Deploy
  <1>1. CASE Resumes(a)
    <2>1. Goto(a, "watch") /\ UNCHANGED <<build, mishaps>>
      BY <1>1 DEF Deploy
    <2>2. Only(a) /\ SameBox(a) /\ lane'[a].dep = lane[a].dep /\ lane'[a].pc = "watch"
      BY <2>1, GotoFits DEF LanePc
    <2>3. TypeOK'
      BY <1>0, <2>1, <2>2 DEF TypeOK, Only, Lanes
    <2> QED BY <1>0, <1>1, <2>1, <2>2, <2>3 DEF Apart, Calm, Resumes
  <1>2. CASE ~Resumes(a) /\ box[lane[a].box] = "gone"
    <2>1. Throw(a, "retry") /\ UNCHANGED <<build, mishaps>>
      BY <1>2 DEF Deploy
    <2>2. Only(a) /\ SameBox(a) /\ lane'[a].dep = None /\ lane'[a].pc = "retry"
      BY <2>1, ThrowFits DEF LanePc
    <2>3. TypeOK'
      BY <1>0, <2>1, <2>2 DEF TypeOK, Only, Lanes
    <2> QED BY <1>0, <1>2, <2>1, <2>2, <2>3 DEF Apart, Calm, Resumes
  <1>3. CASE ~Resumes(a) /\ box[lane[a].box] # "gone"
    <2>1. PICK d \in Builds, o \in Outcomes :
            /\ build[d] = "none"
            /\ build' = IF o = "dropped" THEN build ELSE [build EXCEPT ![d] = "pending"]
            /\ IF o = "ok" THEN Becomes(a, [lane[a] EXCEPT !.pc = "watch", !.dep = d]) ELSE Throw(a, "retry")
            /\ Charge(o)
      BY <1>3 DEF Deploy
    <2>2. (IF o = "ok" THEN Calm ELSE Charged) /\ mishaps' \in Nat
      BY <2>1, ChargeCounts
    <2>3. build' \in [Builds -> BuildStatus]
      BY <2>1 DEF TypeOK, BuildStatus
    <2>4. CASE o = "ok"
      <3>1. Only(a) /\ SameBox(a) /\ lane'[a].dep = d /\ lane'[a].pc = "watch"
        BY <2>1, <2>4, BuildsFits DEF LanePc
      <3>2. TypeOK'
        BY <1>0, <2>2, <2>3, <3>1 DEF TypeOK, Only, Lanes
      <3> QED BY <1>0, <1>3, <2>1, <2>2, <2>4, <3>1, <3>2 DEF Apart, Resumes
    <2>5. CASE o # "ok"
      <3>1. Only(a) /\ SameBox(a) /\ lane'[a].dep = None /\ lane'[a].pc = "retry"
        BY <2>1, <2>5, ThrowFits DEF LanePc
      <3>2. TypeOK'
        BY <1>0, <2>2, <2>3, <3>1 DEF TypeOK, Only, Lanes
      <3> QED BY <1>0, <1>3, <2>1, <2>2, <2>5, <3>1, <3>2 DEF Apart, Resumes
    <2> QED BY <2>4, <2>5
  <1> QED BY <1>1, <1>2, <1>3

LEMMA WatchDoes ==
    ASSUME TypeOK, NEW a \in Attempts, Watch(a)
    PROVE  /\ TypeOK' /\ Apart /\ UNCHANGED <<box, build, job, overlaps>> /\ Only(a) /\ SameBox(a)
           /\ lane[a].pc = "watch"
           /\ \/ /\ lane'[a].dep = lane[a].dep /\ Calm
                 /\ \/ build[lane[a].dep] = "finished" /\ lane'[a].pc = "report"
                    \/ build[lane[a].dep] = "failed" /\ lane'[a].pc = "giveUp"
                    \/ lane'[a].pc = "watch"
              \/ lane'[a].pc = "retry" /\ lane'[a].dep = None /\ Charged
  <1>0. UNCHANGED <<kind, image, job, box, build, sweep, remove, calls, overlaps>> /\ lane[a].pc = "watch"
    BY DEF Watch
  <1>1. CASE Throw(a, "retry") /\ Fail
    <2>1. Only(a) /\ SameBox(a) /\ lane'[a].dep = None /\ lane'[a].pc = "retry" /\ Charged /\ mishaps' \in Nat
      BY <1>1, ThrowFits, FailCounts DEF LanePc
    <2>2. TypeOK'
      BY <1>0, <2>1 DEF TypeOK, Only, Lanes
    <2> QED BY <1>0, <2>1, <2>2 DEF Apart
  <1>2. CASE ~(Throw(a, "retry") /\ Fail)
    <2>1. /\ \/ build[lane[a].dep] = "finished" /\ Goto(a, "report")
             \/ build[lane[a].dep] = "failed" /\ Goto(a, "giveUp")
             \/ UNCHANGED lane
          /\ UNCHANGED mishaps
      BY <1>2 DEF Watch
    <2>2. /\ Only(a) /\ SameBox(a) /\ lane'[a].dep = lane[a].dep
          /\ \/ build[lane[a].dep] = "finished" /\ lane'[a].pc = "report"
             \/ build[lane[a].dep] = "failed" /\ lane'[a].pc = "giveUp"
             \/ lane'[a].pc = "watch"
      <3>1. CASE UNCHANGED lane
        BY <1>0, <3>1, LaneType DEF Only, SameBox
      <3> QED BY <2>1, <3>1, GotoFits DEF LanePc
    <2>3. TypeOK'
      BY <1>0, <2>1, <2>2 DEF TypeOK, Only, Lanes
    <2> QED BY <1>0, <2>1, <2>2, <2>3 DEF Apart, Calm
  <1> QED BY <1>1, <1>2

LEMMA TimeOutDoes ==
    ASSUME TypeOK, NEW a \in Attempts, TimeOut(a)
    PROVE  \/ ServiceDoes(a) /\ lane[a].pc = "poll" /\ lane'[a].pc = "retry"
           \/ ServiceDoes(a) /\ lane[a].pc = "again" /\ lane'[a].pc = "report"
           \/ /\ TypeOK' /\ Apart /\ UNCHANGED <<box, build, job, overlaps>> /\ Only(a) /\ SameBox(a) /\ Calm
              /\ lane[a].pc = "watch" /\ lane'[a].pc = "retry" /\ lane'[a].dep = lane[a].dep
  <1>0. UNCHANGED <<kind, image, job, box, build, sweep, remove, mishaps, calls, overlaps>>
    BY DEF TimeOut
  <1>1. /\ Only(a) /\ SameBox(a)
        /\ \/ lane[a].pc = "poll" /\ lane'[a].pc = "retry" /\ lane'[a].dep = None
           \/ lane[a].pc = "again" /\ lane'[a].pc = "report" /\ lane'[a].dep = lane[a].dep
           \/ lane[a].pc = "watch" /\ lane'[a].pc = "retry" /\ lane'[a].dep = lane[a].dep
    BY GotoFits, ThrowFits DEF TimeOut, LanePc
  <1>2. TypeOK'
    BY <1>0, <1>1 DEF TypeOK, Only, Lanes
  <1> QED BY <1>0, <1>1, <1>2 DEF ServiceDoes, Apart, Calm, Starting, Settled

LEMMA ReportDoes ==
    ASSUME TypeOK, NEW a \in Attempts, Report(a)
    PROVE  /\ TypeOK' /\ Apart /\ UNCHANGED <<box, build, overlaps>> /\ Only(a)
           /\ lane[a].pc = "report"
           /\ \/ /\ lane'[a] = Idle /\ Calm
                 /\ job'.dep = IF kind = "application" THEN lane[a].dep ELSE job.dep
              \/ /\ lane'[a].pc = "retry" /\ lane'[a].dep = None /\ SameBox(a) /\ Charged
                 /\ job'.dep = job.dep \/ (kind = "application" /\ job'.dep = lane[a].dep)
  <1>0. UNCHANGED <<kind, image, box, build, sweep, remove, calls, overlaps>> /\ lane[a].pc = "report"
    BY DEF Report
  <1>1. PICK o \in Outcomes :
          /\ job' = IF o = "dropped" THEN job
                    ELSE [job EXCEPT !.status = "active", !.ref = lane[a].box,
                                     !.dep = IF kind = "application" THEN lane[a].dep ELSE @]
          /\ IF o = "ok" THEN Becomes(a, Idle) ELSE Throw(a, "retry")
          /\ Charge(o)
    BY DEF Report
  <1>2. (IF o = "ok" THEN Calm ELSE Charged) /\ mishaps' \in Nat
    BY <1>1, ChargeCounts
  <1>3. job' \in Jobs
    BY <1>1 DEF TypeOK, Jobs, JobStatus
  <1>4. job'.dep = IF o # "dropped" /\ kind = "application" THEN lane[a].dep ELSE job.dep
    BY <1>1 DEF TypeOK
  <1>5. CASE o = "ok"
    <2>1. Only(a) /\ lane'[a] = Idle
      BY <1>1, <1>5, IdleFits, BecomesFits
    <2>2. TypeOK'
      BY <1>0, <1>2, <1>3, <2>1 DEF TypeOK, Only, Lanes, Jobs
    <2> QED BY <1>0, <1>2, <1>4, <1>5, <2>1, <2>2 DEF Apart
  <1>6. CASE o # "ok"
    <2>1. Only(a) /\ lane'[a].pc = "retry" /\ lane'[a].dep = None /\ SameBox(a)
      BY <1>1, <1>6, ThrowFits DEF LanePc
    <2>2. TypeOK'
      BY <1>0, <1>2, <1>3, <2>1 DEF TypeOK, Only, Lanes, Jobs
    <2> QED BY <1>0, <1>2, <1>4, <1>6, <2>1, <2>2 DEF Apart
  <1> QED BY <1>5, <1>6

LEMMA HandleFailureDoes ==
    ASSUME TypeOK, NEW a \in Attempts, HandleFailure(a)
    PROVE  /\ TypeOK' /\ Apart /\ UNCHANGED <<box, build, overlaps>> /\ Only(a)
           /\ lane[a].pc \in {"retry", "giveUp"} /\ lane'[a] = Idle
           /\ \/ Calm /\ job'.dep = KeptDep(a)
              \/ Charged /\ job'.dep \in {job.dep, KeptDep(a)}
  <1>0. UNCHANGED <<kind, image, box, build, sweep, remove, calls, overlaps>> /\ lane[a].pc \in {"retry", "giveUp"}
    BY DEF HandleFailure
  <1> DEFINE next == IF lane[a].pc = "giveUp" \/ lane[a].attempts + 1 >= MaxAttempts
                     THEN "needs_human" ELSE "queued"
  <1>1. PICK o \in Outcomes :
          /\ job' = IF o = "dropped" THEN job
                    ELSE [job EXCEPT !.attempts = lane[a].attempts + 1, !.dep = KeptDep(a), !.status = next]
          /\ Charge(o)
    BY DEF HandleFailure
  <1>2. (IF o = "ok" THEN Calm ELSE Charged) /\ mishaps' \in Nat
    BY <1>1, ChargeCounts
  <1>3. next \in JobStatus /\ lane[a].attempts + 1 \in Nat /\ KeptDep(a) \in Builds \cup {None}
    BY DEF TypeOK, JobStatus, KeptDep
  <1> HIDE DEF next
  <1>4. job' \in Jobs /\ job'.dep = IF o = "dropped" THEN job.dep ELSE KeptDep(a)
    BY <1>1, <1>3, LaneType DEF Jobs
  <1>5. Only(a) /\ lane'[a] = Idle
    BY IdleFits, BecomesFits DEF HandleFailure
  <1>6. TypeOK'
    BY <1>0, <1>2, <1>4, <1>5 DEF TypeOK, Only, Lanes, Jobs
  <1> QED BY <1>0, <1>2, <1>4, <1>5, <1>6 DEF Apart

LEMMA CrashDoes ==
    ASSUME TypeOK, Crash
    PROVE  /\ TypeOK' /\ Apart /\ UNCHANGED <<box, build, overlaps>> /\ lane' = [a \in Attempts |-> Idle]
           /\ job'.dep = job.dep /\ Charged
  <1>1. UNCHANGED <<kind, image, box, build, remove, calls, overlaps>> /\ lane' = [a \in Attempts |-> Idle]
        /\ job' = [job EXCEPT !.ours = FALSE] /\ sweep' = NoSweep
    BY DEF Crash
  <1>2. Charged /\ mishaps' \in Nat
    BY FailCounts DEF Crash
  <1>3. TypeOK'
    BY <1>1, <1>2, IdleFits DEF TypeOK, Lanes, NoSweep
  <1> QED BY <1>1, <1>2, <1>3 DEF TypeOK, Apart

\* The steps of others: the attempts stay where they are, no build starts, and
\* a resource at most goes.
OtherStep ==
    ListStale \/ Reclaim \/ AdminRetry \/ Remove \/ Destroy \/ MarkRemoved \/ \E d \in Builds : BuildEnds(d)

LEMMA OthersDo ==
    ASSUME TypeOK, OtherStep
    PROVE  /\ TypeOK' /\ UNCHANGED <<kind, image, lane, overlaps>> /\ job'.dep = job.dep
           /\ Calm \/ Charged
           /\ \A u \in Resources : box'[u] \in {box[u], "gone"}
           /\ \A d \in Builds : build'[d] = build[d] \/ (build[d] = "pending" /\ build'[d] \in {"finished", "failed"})
  <1> USE CoolifyAssumption
  <1>1. CASE ListStale
    BY <1>1 DEF ListStale, TypeOK, Calm
  <1>2. CASE Reclaim
    <2>0. UNCHANGED <<kind, image, box, build, lane, remove, calls, overlaps>> /\ sweep' = NoSweep
      BY <1>2 DEF Reclaim
    <2> DEFINE n == sweep.attempts + 1
    <2>1. PICK o \in Outcomes :
            /\ job' = CASE o = "dropped" -> job
                        [] o # "dropped" /\ n >= MaxAttempts -> [job EXCEPT !.attempts = n, !.status = "needs_human"]
                        [] OTHER -> [job EXCEPT !.attempts = n, !.status = "queued", !.ours = FALSE]
            /\ Charge(o)
      BY <1>2 DEF Reclaim
    <2>2. (Calm \/ Charged) /\ mishaps' \in Nat
      BY <2>1, ChargeCounts
    <2>3. n \in Nat
      BY DEF TypeOK
    <2> HIDE DEF n
    <2>4. \/ job' = job
          \/ job' = [job EXCEPT !.attempts = n, !.status = "needs_human"]
          \/ job' = [job EXCEPT !.attempts = n, !.status = "queued", !.ours = FALSE]
      BY <2>1
    <2>5. job' \in Jobs /\ job'.dep = job.dep
      BY <2>3, <2>4, LaneType DEF Jobs, JobStatus
    <2> QED BY <2>0, <2>2, <2>5 DEF TypeOK, Jobs, NoSweep
  <1>3. CASE AdminRetry
    <2> DEFINE zero == 0
    <2>1. zero \in Nat
      OBVIOUS
    <2>2. job' = [job EXCEPT !.status = "queued", !.attempts = zero]
      BY <1>3 DEF AdminRetry
    <2> HIDE DEF zero
    <2>3. job' \in Jobs /\ job'.dep = job.dep
      BY <2>1, <2>2 DEF TypeOK, Jobs, JobStatus
    <2> QED BY <1>3, <2>3 DEF TypeOK, AdminRetry, Jobs, Calm
  <1>4. CASE Remove
    BY <1>4 DEF TypeOK, Remove, Calm
  <1>5. CASE Destroy
    <2>1. PICK o \in Outcomes :
            /\ box' = IF o = "dropped" THEN box ELSE [box EXCEPT ![remove.ref] = "gone"]
            /\ remove' = [remove EXCEPT !.at = IF o = "ok" THEN "mark" ELSE "flag"]
            /\ Charge(o)
      BY <1>5 DEF Destroy
    <2>2. (Calm \/ Charged) /\ mishaps' \in Nat
      BY <2>1, ChargeCounts
    <2>3. box' \in [Resources -> BoxStatus]
      BY <2>1, BoxType DEF BoxStatus
    <2>4. UNCHANGED <<kind, image, job, build, lane, sweep, calls, overlaps>>
      BY <1>5 DEF Destroy
    <2>5. TypeOK'
      BY <2>1, <2>2, <2>3, <2>4 DEF TypeOK
    <2> QED BY <2>1, <2>2, <2>4, <2>5 DEF TypeOK
  <1>6. CASE MarkRemoved
    <2>1. PICK o \in Outcomes :
            /\ job' = IF o = "dropped" THEN job
                      ELSE [job EXCEPT !.status = IF remove.at = "mark" THEN "deleted" ELSE "needs_human"]
            /\ Charge(o)
      BY <1>6 DEF MarkRemoved
    <2>2. (Calm \/ Charged) /\ mishaps' \in Nat
      BY <2>1, ChargeCounts
    <2>3. job' \in Jobs /\ job'.dep = job.dep
      BY <2>1 DEF TypeOK, JobStatus, Jobs
    <2> QED BY <1>6, <2>2, <2>3 DEF TypeOK, MarkRemoved, Jobs
  <1>7. CASE \E d \in Builds : BuildEnds(d)
    <2>1. PICK d \in Builds, s \in {"finished", "failed"} : build[d] = "pending" /\ build' = [build EXCEPT ![d] = s]
      BY <1>7 DEF BuildEnds
    <2>2. UNCHANGED <<kind, image, job, box, lane, sweep, remove, mishaps, calls, overlaps>>
      BY <1>7 DEF BuildEnds
    <2>3. build' \in [Builds -> BuildStatus]
      BY <2>1 DEF TypeOK, BuildStatus
    <2> QED BY <2>1, <2>2, <2>3 DEF TypeOK, Calm
  <1> QED BY <1>1, <1>2, <1>3, <1>4, <1>5, <1>6, <1>7 DEF OtherStep

\* No resource in hand goes back to none.
LEMMA KnownBoxStep ==
    ASSUME TypeOK, KnownBox, TypeOK', NEW a \in Attempts, Only(a),
           \A u \in Resources : box'[u] = "none" => box[u] = "none",
           \/ lane'[a].box \in {lane[a].box, None}
           \/ lane'[a].box \in Live
           \/ lane'[a].box \in Resources /\ box'[lane'[a].box] # "none"
    PROVE  KnownBox'
  <1> SUFFICES ASSUME NEW b \in Attempts, lane'[b].box \in Resources
               PROVE  box'[lane'[b].box] # "none"
    BY DEF KnownBox
  <1>1. CASE b # a
    BY <1>1 DEF Only, KnownBox
  <1>2. CASE b = a
    BY <1>2, CoolifyAssumption DEF KnownBox, Live
  <1> QED BY <1>1, <1>2

LEMMA NextTyped ==
    ASSUME TypeOK, KnownBox, [Next]_vars
    PROVE  TypeOK' /\ KnownBox'
  <1>1. CASE UNCHANGED vars
    BY <1>1 DEF vars, TypeOK, KnownBox
  <1>2. ASSUME NEW a \in Attempts, LaneStep(a) PROVE TypeOK' /\ KnownBox'
    <2> USE DEF SameBox
    <2>1. CASE Fetch(a)
      <3>1. TypeOK' /\ Only(a) /\ UNCHANGED box /\ lane'[a].box = None
        BY <2>1, FetchDoes
      <3> QED BY <3>1, KnownBoxStep
    <2>2. CASE Claim(a)
      <3>1. TypeOK' /\ Only(a) /\ UNCHANGED box /\ lane'[a].box \in {lane[a].box, None}
        BY <2>2, ClaimDoes, IdleFits
      <3> QED BY <3>1, KnownBoxStep
    <2>3. CASE List(a)
      <3>1. TypeOK' /\ Only(a) /\ UNCHANGED box /\ (lane'[a].box = lane[a].box \/ lane'[a].box \in Live)
        BY <2>3, ListDoes
      <3> QED BY <3>1, KnownBoxStep
    <2>4. CASE Create(a)
      <3>1. /\ TypeOK' /\ Only(a)
            /\ \E u \in Resources :
                 /\ box' = box \/ box' = [box EXCEPT ![u] = "created"]
                 /\ \/ lane'[a].box = lane[a].box
                    \/ lane'[a].box = u /\ box' = [box EXCEPT ![u] = "created"]
        BY <2>4, CreateDoes
      <3>2. PICK u \in Resources :
              /\ box' = box \/ box' = [box EXCEPT ![u] = "created"]
              /\ \/ lane'[a].box = lane[a].box
                 \/ lane'[a].box = u /\ box' = [box EXCEPT ![u] = "created"]
        BY <3>1
      <3>3. \A v \in Resources : box'[v] = "none" => box[v] = "none"
        BY <3>2 DEF TypeOK
      <3>4. lane'[a].box = lane[a].box \/ (lane'[a].box \in Resources /\ box'[lane'[a].box] # "none")
        BY <3>2 DEF TypeOK
      <3> QED BY <3>1, <3>3, <3>4, KnownBoxStep
    <2>5. CASE ServiceDoes(a)
      <3>1. TypeOK' /\ Only(a) /\ lane'[a].box = lane[a].box
        BY <2>5 DEF ServiceDoes
      <3>2. \A u \in Resources : box'[u] = "none" => box[u] = "none"
        BY <2>5 DEF ServiceDoes, Settled
      <3> QED BY <3>1, <3>2, KnownBoxStep
    <2>6. CASE Deploy(a) \/ Watch(a) \/ Report(a) \/ HandleFailure(a) \/ (TimeOut(a) /\ ~ServiceDoes(a))
      <3>1. TypeOK' /\ Only(a) /\ UNCHANGED box /\ lane'[a].box \in {lane[a].box, None}
        <4>1. CASE Deploy(a)
          BY <4>1, DeployDoes
        <4>2. CASE Watch(a)
          BY <4>2, WatchDoes
        <4>3. CASE Report(a)
          BY <4>3, ReportDoes, IdleFits
        <4>4. CASE HandleFailure(a)
          BY <4>4, HandleFailureDoes, IdleFits
        <4>5. CASE TimeOut(a) /\ ~ServiceDoes(a)
          BY <4>5, TimeOutDoes
        <4> QED BY <2>6, <4>1, <4>2, <4>3, <4>4, <4>5
      <3> QED BY <3>1, KnownBoxStep
    <2> QED BY <1>2, <2>1, <2>2, <2>3, <2>4, <2>5, <2>6, UpDoes, PollDoes, UrlDoes DEF LaneStep
  <1>3. CASE Crash
    <2>1. TypeOK' /\ UNCHANGED box /\ lane' = [a \in Attempts |-> Idle]
      BY <1>3, CrashDoes
    <2>2. \A a \in Attempts : lane'[a].box = None
      BY <2>1, IdleFits
    <2> QED BY <2>1, <2>2, CoolifyAssumption DEF KnownBox
  <1>4. CASE OtherStep
    <2>1. TypeOK' /\ UNCHANGED lane /\ \A u \in Resources : box'[u] \in {box[u], "gone"}
      BY <1>4, OthersDo
    <2> QED BY <2>1 DEF KnownBox
  <1> QED BY <1>1, <1>2, <1>3, <1>4 DEF Next, OtherStep

LEMMA InitTyped ==
    ASSUME Init
    PROVE  TypeOK /\ KnownBox /\ \A a \in Attempts : lane[a] = Idle
  <1>1. \A a \in Attempts : lane[a] = Idle /\ lane[a].box = None
    BY IdleFits DEF Init
  <1>2. TypeOK
    BY CoolifyAssumption, IdleFits
    DEF Init, TypeOK, Lanes, JobStatus, BoxStatus, BuildStatus, LanePc, NoSweep, Kinds, Images
  <1> QED BY <1>1, <1>2, CoolifyAssumption DEF KnownBox

\* Every reachable state of a job, its resources, its builds and its attempts
\* has the types TypeOK states.
THEOREM TypeCorrect == Spec => []TypeOK
  <1> DEFINE Inv == TypeOK /\ KnownBox
  <1>1. Init => Inv
    BY InitTyped
  <1>2. Inv /\ [Next]_vars => Inv'
    BY NextTyped
  <1> HIDE DEF Inv
  <1>3. Inv => TypeOK
    BY DEF Inv
  <1> QED BY <1>1, <1>2, <1>3, PTL DEF Spec

-----------------------------------------------------------------------------
(* CoolifyBuilds: few resources                                               *)

LEMMA GrowsByOne ==
    ASSUME NEW S, NEW T, NEW x, IsFiniteSet(S), T \subseteq S \cup {x}
    PROVE  IsFiniteSet(T) /\ Cardinality(T) <= Cardinality(S) + 1
  <1>1. IsFiniteSet(S \cup {x}) /\ Cardinality(S \cup {x}) \in Nat /\ Cardinality(S) \in Nat
        /\ Cardinality(S \cup {x}) <= Cardinality(S) + 1
    <2>1. IsFiniteSet(S) /\ Cardinality(S) \in Nat
      BY FS_CardinalityType
    <2>2. CASE x \in S
      <3>1. S \cup {x} = S
        BY <2>2
      <3>2. Cardinality(S) <= Cardinality(S) + 1
        BY <2>1
      <3> QED BY <2>1, <3>1, <3>2
    <2>3. CASE x \notin S
      <3>1. IsFiniteSet(S \cup {x}) /\ Cardinality(S \cup {x}) = Cardinality(S) + 1
        BY <2>1, <2>3, FS_AddElement
      <3> QED BY <2>1, <3>1
    <2> QED BY <2>2, <2>3
  <1>2. IsFiniteSet(T) /\ Cardinality(T) <= Cardinality(S \cup {x}) /\ Cardinality(T) \in Nat
    BY <1>1, FS_Subset, FS_CardinalityType
  <1> QED BY <1>1, <1>2

LEMMA ShrinksByOne ==
    ASSUME NEW S, NEW T, NEW x \in S, IsFiniteSet(S), T \subseteq S \ {x}
    PROVE  IsFiniteSet(T) /\ Cardinality(T) <= Cardinality(S) - 1
  <1>1. IsFiniteSet(S \ {x}) /\ Cardinality(S \ {x}) = Cardinality(S) - 1
    BY FS_RemoveElement
  <1> QED BY <1>1, FS_Subset

BusyOnes == {a \in Attempts : Busy(a)}
Creating == {a \in Attempts : lane[a].pc = "create"}

BoxInv ==
    /\ TypeOK /\ KnownBox
    /\ IsFiniteSet(Live)
    /\ Cardinality(BusyOnes) <= 1 + overlaps
    /\ Cardinality(Live) + Cardinality(Creating) <= 1 + overlaps

\* A step makes no resource, and no attempt sets out to, except as stated.
Quiet ==
    Live' \subseteq Live /\ Creating' \subseteq Creating /\ BusyOnes' \subseteq BusyOnes /\ overlaps' = overlaps

Begins ==
    /\ Live' \subseteq Live /\ Creating' \subseteq Creating
    /\ \E a \in Attempts : BusyOnes' \subseteq BusyOnes \cup {a}
    /\ (BusyOnes = {} /\ overlaps' = overlaps) \/ overlaps' = overlaps + 1

SetsOut ==
    Live' = {} /\ Creating' \subseteq BusyOnes /\ BusyOnes' \subseteq BusyOnes /\ overlaps' = overlaps

Makes ==
    /\ \E a \in Creating, u \in Resources : Creating' \subseteq Creating \ {a} /\ Live' \subseteq Live \cup {u}
    /\ BusyOnes' \subseteq BusyOnes /\ overlaps' = overlaps

LEMMA QuietStep ==
    ASSUME TypeOK, NEW a \in Attempts, Only(a), Settled \/ UNCHANGED box, UNCHANGED overlaps,
           lane[a].pc # "idle", lane'[a].pc # "create"
    PROVE  Quiet
  <1>1. Live' \subseteq Live
    BY DEF Settled, Live
  <1>2. Creating' \subseteq Creating /\ BusyOnes' \subseteq BusyOnes
    BY DEF Creating, BusyOnes, Busy, Only
  <1> QED BY <1>1, <1>2 DEF Quiet

LEMMA ResourceStep ==
    ASSUME TypeOK, KnownBox, [Next]_vars
    PROVE  Quiet \/ Begins \/ SetsOut \/ Makes
  <1>1. CASE UNCHANGED vars
    BY <1>1 DEF vars, Quiet, Live, Creating, BusyOnes, Busy
  <1>2. ASSUME NEW a \in Attempts, LaneStep(a) PROVE Quiet \/ Begins \/ SetsOut \/ Makes
    <2>1. CASE Fetch(a)
      <3>1. /\ UNCHANGED box /\ Only(a) /\ lane'[a].pc = "claim"
            /\ \/ overlaps' = overlaps /\ \A b \in Attempts : ~Busy(b)
               \/ overlaps' = overlaps + 1
        BY <2>1, FetchDoes
      <3>2. Live' = Live /\ Creating' \subseteq Creating /\ BusyOnes' \subseteq BusyOnes \cup {a}
        BY <3>1 DEF Live, Creating, BusyOnes, Busy, Only
      <3> QED BY <3>1, <3>2 DEF Begins, BusyOnes
    <2>2. CASE Claim(a)
      <3>1. UNCHANGED <<box, overlaps>> /\ Only(a) /\ lane[a].pc # "idle" /\ lane'[a].pc # "create"
        BY <2>2, ClaimDoes, IdleFits
      <3> QED BY <3>1, QuietStep
    <2>3. CASE List(a)
      <3>1. UNCHANGED <<box, overlaps>> /\ Only(a) /\ lane[a].pc = "list" /\ (lane'[a].pc = "create" => Live = {})
        BY <2>3, ListDoes DEF AfterFound
      <3>2. CASE lane'[a].pc = "create"
        <4>1. Live' = {}
          BY <3>1, <3>2 DEF Live
        <4>2. Creating' \subseteq BusyOnes /\ BusyOnes' \subseteq BusyOnes
          BY <3>1 DEF Creating, BusyOnes, Busy, Only
        <4> QED BY <3>1, <4>1, <4>2 DEF SetsOut
      <3> QED BY <3>1, <3>2, QuietStep
    <2>4. CASE Create(a)
      <3>1. /\ UNCHANGED overlaps /\ Only(a) /\ lane[a].pc = "create" /\ lane'[a].pc # "create"
            /\ \E u \in Resources : box' = box \/ box' = [box EXCEPT ![u] = "created"]
        BY <2>4, CreateDoes DEF AfterFound
      <3>2. PICK u \in Resources : box' = box \/ box' = [box EXCEPT ![u] = "created"]
        BY <3>1
      <3>3. Live' \subseteq Live \cup {u}
        BY <3>2 DEF Live, TypeOK
      <3>4. a \in Creating /\ Creating' \subseteq Creating \ {a} /\ BusyOnes' \subseteq BusyOnes
        BY <3>1 DEF Creating, BusyOnes, Busy, Only
      <3> QED BY <3>1, <3>3, <3>4 DEF Makes
    <2>5. CASE ServiceDoes(a)
      <3>1. UNCHANGED overlaps /\ Settled /\ Only(a) /\ lane[a].pc # "idle" /\ lane'[a].pc # "create"
        BY <2>5 DEF ServiceDoes, Starting
      <3> QED BY <3>1, QuietStep
    <2>6. CASE Deploy(a) \/ Watch(a) \/ Report(a) \/ HandleFailure(a) \/ (TimeOut(a) /\ ~ServiceDoes(a))
      <3>1. UNCHANGED <<box, overlaps>> /\ Only(a) /\ lane[a].pc # "idle" /\ lane'[a].pc # "create"
        <4>1. CASE Deploy(a)
          BY <4>1, DeployDoes
        <4>2. CASE Watch(a)
          BY <4>2, WatchDoes
        <4>3. CASE Report(a)
          BY <4>3, ReportDoes, IdleFits
        <4>4. CASE HandleFailure(a)
          BY <4>4, HandleFailureDoes, IdleFits
        <4>5. CASE TimeOut(a) /\ ~ServiceDoes(a)
          BY <4>5, TimeOutDoes
        <4> QED BY <2>6, <4>1, <4>2, <4>3, <4>4, <4>5
      <3> QED BY <3>1, QuietStep
    <2> QED BY <1>2, <2>1, <2>2, <2>3, <2>4, <2>5, <2>6, UpDoes, PollDoes, UrlDoes DEF LaneStep
  <1>3. CASE Crash
    <2>1. UNCHANGED <<box, overlaps>> /\ lane' = [a \in Attempts |-> Idle]
      BY <1>3, CrashDoes
    <2>2. \A a \in Attempts : lane'[a].pc = "idle"
      BY <2>1, IdleFits
    <2> QED BY <2>1, <2>2 DEF Quiet, Live, Creating, BusyOnes, Busy
  <1>4. CASE OtherStep
    <2>1. UNCHANGED <<lane, overlaps>> /\ \A u \in Resources : box'[u] \in {box[u], "gone"}
      BY <1>4, OthersDo
    <2> QED BY <2>1 DEF Quiet, Live, Creating, BusyOnes, Busy
  <1> QED BY <1>1, <1>2, <1>3, <1>4 DEF Next, OtherStep

LEMMA BoxInvStep ==
    ASSUME BoxInv, [Next]_vars
    PROVE  BoxInv'
  <1> USE DEF BoxInv
  <1>1. TypeOK' /\ KnownBox'
    BY NextTyped
  <1>2. IsFiniteSet(BusyOnes) /\ IsFiniteSet(Creating) /\ IsFiniteSet(BusyOnes') /\ IsFiniteSet(Creating')
    BY CoolifyAssumption, FS_Subset DEF BusyOnes, Creating
  <1>3. /\ Cardinality(BusyOnes) \in Nat /\ Cardinality(BusyOnes') \in Nat
        /\ Cardinality(Creating) \in Nat /\ Cardinality(Creating') \in Nat
        /\ Cardinality(Live) \in Nat /\ overlaps \in Nat
    BY <1>2, FS_CardinalityType DEF TypeOK
  <1>4. CASE Quiet
    <2>1. /\ IsFiniteSet(Live') /\ Cardinality(Live') <= Cardinality(Live)
          /\ Cardinality(Creating') <= Cardinality(Creating) /\ Cardinality(BusyOnes') <= Cardinality(BusyOnes)
      BY <1>2, <1>4, FS_Subset DEF Quiet
    <2>2. Cardinality(Live') \in Nat
      BY <2>1, FS_CardinalityType
    <2>3. overlaps' = overlaps
      BY <1>4 DEF Quiet
    <2> QED BY <1>1, <1>3, <2>1, <2>2, <2>3
  <1>5. CASE Begins
    <2>1. /\ IsFiniteSet(Live') /\ Cardinality(Live') <= Cardinality(Live)
          /\ Cardinality(Creating') <= Cardinality(Creating)
      BY <1>2, <1>5, FS_Subset DEF Begins
    <2>2. Cardinality(Live') \in Nat
      BY <2>1, FS_CardinalityType
    <2>3. PICK a \in Attempts : BusyOnes' \subseteq BusyOnes \cup {a}
      BY <1>5 DEF Begins
    <2>4. Cardinality(BusyOnes') <= Cardinality(BusyOnes) + 1
      BY <1>2, <2>3, GrowsByOne
    <2>5. BusyOnes = {} => Cardinality(BusyOnes) = 0
      BY FS_EmptySet
    <2>6. (BusyOnes = {} /\ overlaps' = overlaps) \/ overlaps' = overlaps + 1
      BY <1>5 DEF Begins
    <2> QED BY <1>1, <1>3, <2>1, <2>2, <2>4, <2>5, <2>6
  <1>6. CASE SetsOut
    <2>1. /\ Live' = {} /\ IsFiniteSet(Live') /\ Cardinality(Live') = 0
          /\ Cardinality(Creating') <= Cardinality(BusyOnes) /\ Cardinality(BusyOnes') <= Cardinality(BusyOnes)
      BY <1>2, <1>6, FS_Subset, FS_EmptySet DEF SetsOut
    <2>2. overlaps' = overlaps
      BY <1>6 DEF SetsOut
    <2> QED BY <1>1, <1>3, <2>1, <2>2
  <1>7. CASE Makes
    <2>1. PICK a \in Creating, u \in Resources : Creating' \subseteq Creating \ {a} /\ Live' \subseteq Live \cup {u}
      BY <1>7 DEF Makes
    <2>2. Cardinality(Creating') <= Cardinality(Creating) - 1
      BY <1>2, <2>1, ShrinksByOne
    <2>3. IsFiniteSet(Live') /\ Cardinality(Live') <= Cardinality(Live) + 1
      BY <2>1, GrowsByOne
    <2>4. Cardinality(Live') \in Nat
      BY <2>3, FS_CardinalityType
    <2>5. Cardinality(BusyOnes') <= Cardinality(BusyOnes) /\ overlaps' = overlaps
      BY <1>2, <1>7, FS_Subset DEF Makes
    <2> QED BY <1>1, <1>3, <2>2, <2>3, <2>4, <2>5
  <1> QED BY <1>4, <1>5, <1>6, <1>7, ResourceStep

\* Over any number of attempts, lost answers, crashes, reclaims, retries by
\* staff and deletions, a job's second container takes attempts that overlap,
\* and each overlap adds one at most: only a list that shows none leads to a
\* creation, so what is created at once is bounded by who is under way at once.
THEOREM ResourcesCorrect == Spec => []FewResources
  <1>1. Init => BoxInv
    <2> SUFFICES ASSUME Init PROVE BoxInv
      OBVIOUS
    <2>1. TypeOK /\ KnownBox /\ \A a \in Attempts : lane[a].pc = "idle"
      BY InitTyped, IdleFits
    <2>2. Live = {} /\ BusyOnes = {} /\ Creating = {} /\ overlaps = 0
      BY <2>1 DEF Init, Live, BusyOnes, Creating, Busy
    <2>3. IsFiniteSet({}) /\ Cardinality({}) = 0
      BY FS_EmptySet
    <2> QED BY <2>1, <2>2, <2>3 DEF BoxInv
  <1>2. BoxInv => FewResources
    <2> SUFFICES ASSUME BoxInv PROVE FewResources
      OBVIOUS
    <2>1. IsFiniteSet(Creating)
      BY CoolifyAssumption, FS_Subset DEF Creating
    <2>2. Cardinality(Creating) \in Nat /\ Cardinality(Live) \in Nat /\ overlaps \in Nat
      BY <2>1, FS_CardinalityType DEF BoxInv, TypeOK
    <2> QED BY <2>2 DEF BoxInv, FewResources
  <1> QED BY <1>1, <1>2, BoxInvStep, PTL DEF Spec

-----------------------------------------------------------------------------
(* CoolifyBuilds: few builds                                                  *)

\* What the row and an attempt know of builds.  An attempt knows of one that the
\* row does not only after it has started it, and until it reports.
DepFits(a) ==
    /\ lane[a].pc \in {"deploy", "watch"} => kind = "application"
    /\ lane[a].pc \in Starting => kind # "application"
    /\ kind = "application" /\ lane[a].pc \in {"watch", "report"} => lane[a].dep \in Builds
    /\ job.dep = None /\ lane[a].dep # None =>
         kind = "application" /\ lane[a].pc \in {"watch", "report", "retry", "giveUp"}

DepInv == TypeOK /\ KnownBox /\ \A a \in Attempts : DepFits(a)

\* The attempts that know of no build, as long as they may still start one or
\* nobody else knows of one.
Debt ==
    {a \in Attempts : /\ Busy(a) /\ lane[a].dep = None
                      /\ job.dep # None => lane[a].pc \in {"claim", "list", "create", "deploy"}}

\* The row knows of a build, or an attempt is under way that may.
Sure == job.dep # None \/ BusyOnes # {}

Bound == (IF Sure THEN 1 ELSE 0) + mishaps + overlaps

Grows(S, S1) == \E x : S1 \subseteq S \cup {x}
Loses(S, S1) == \E x \in S : S1 \subseteq S \ {x}

\* What a step may do to the builds started, to the debt and to their bound.
Keeps == Started' \subseteq Started /\ Debt' \subseteq Debt /\ Bound' >= Bound
Builds1 == Grows(Started, Started') /\ Loses(Debt, Debt') /\ Bound' >= Bound
Leaves == Started' \subseteq Started /\ Loses(Debt, Debt') /\ Bound' >= Bound - 1
Forgets == Started' \subseteq Started /\ Grows(Debt, Debt') /\ Bound' >= Bound + 1
Strays == Grows(Started, Started') /\ Debt' \subseteq Debt /\ Bound' >= Bound + 1
Fair == Keeps \/ Builds1 \/ Leaves \/ Forgets \/ Strays

LEMMA BoundMoves ==
    ASSUME TypeOK, TypeOK', job.dep # None => job'.dep # None
    PROVE  /\ Calm /\ overlaps' = overlaps /\ (Sure => Sure') => Bound' >= Bound
           /\ Calm /\ overlaps' = overlaps => Bound' >= Bound - 1
           /\ Calm /\ overlaps' = overlaps + 1 /\ (Sure => Sure') => Bound' >= Bound + 1
           /\ Calm /\ overlaps' = overlaps /\ ~Sure /\ Sure' => Bound' >= Bound + 1
           /\ Charged /\ overlaps' = overlaps => Bound' >= Bound
           /\ Charged /\ overlaps' = overlaps /\ (Sure => Sure') => Bound' >= Bound + 1
  <1>1. mishaps \in Nat /\ overlaps \in Nat /\ mishaps' \in Nat /\ overlaps' \in Nat
    BY DEF TypeOK
  <1>2. Bound = IF Sure THEN 1 + mishaps + overlaps ELSE mishaps + overlaps
    BY <1>1 DEF Bound
  <1>3. Bound' = IF Sure' THEN 1 + mishaps' + overlaps' ELSE mishaps' + overlaps'
    BY <1>1 DEF Bound
  <1>4. CASE Sure /\ Sure'
    <2>1. Bound = 1 + mishaps + overlaps
      BY <1>2, <1>4
    <2>2. Bound' = 1 + mishaps' + overlaps'
      BY <1>3, <1>4
    <2>3. ASSUME Calm, overlaps' = overlaps PROVE Bound' >= Bound /\ Bound' >= Bound - 1
      BY <1>1, <2>1, <2>2, <2>3 DEF Calm, Charged
    <2>4. ASSUME Calm, overlaps' = overlaps + 1 PROVE Bound' >= Bound + 1
      BY <1>1, <2>1, <2>2, <2>4 DEF Calm, Charged
    <2>5. ASSUME Charged, overlaps' = overlaps PROVE Bound' >= Bound /\ Bound' >= Bound + 1
      BY <1>1, <2>1, <2>2, <2>5 DEF Calm, Charged
    <2> QED BY <1>4, <2>3, <2>4, <2>5, Zenon
  <1>5. CASE Sure /\ ~Sure'
    <2>1. Bound = 1 + mishaps + overlaps
      BY <1>2, <1>5
    <2>2. Bound' = mishaps' + overlaps'
      BY <1>3, <1>5
    <2>3. ASSUME Calm, overlaps' = overlaps PROVE Bound' >= Bound - 1
      BY <1>1, <2>1, <2>2, <2>3 DEF Calm, Charged
    <2>4. ASSUME Charged, overlaps' = overlaps PROVE Bound' >= Bound
      BY <1>1, <2>1, <2>2, <2>4 DEF Calm, Charged
    <2> QED BY <1>5, <2>3, <2>4, Zenon
  <1>6. CASE ~Sure /\ Sure'
    <2>1. Bound = mishaps + overlaps
      BY <1>2, <1>6
    <2>2. Bound' = 1 + mishaps' + overlaps'
      BY <1>3, <1>6
    <2>3. ASSUME Calm, overlaps' = overlaps PROVE Bound' >= Bound /\ Bound' >= Bound - 1 /\ Bound' >= Bound + 1
      BY <1>1, <2>1, <2>2, <2>3 DEF Calm, Charged
    <2>4. ASSUME Calm, overlaps' = overlaps + 1 PROVE Bound' >= Bound + 1
      BY <1>1, <2>1, <2>2, <2>4 DEF Calm, Charged
    <2>5. ASSUME Charged, overlaps' = overlaps PROVE Bound' >= Bound /\ Bound' >= Bound + 1
      BY <1>1, <2>1, <2>2, <2>5 DEF Calm, Charged
    <2> QED BY <1>6, <2>3, <2>4, <2>5, Zenon
  <1>7. CASE ~Sure /\ ~Sure'
    <2>1. Bound = mishaps + overlaps
      BY <1>2, <1>7
    <2>2. Bound' = mishaps' + overlaps'
      BY <1>3, <1>7
    <2>3. ASSUME Calm, overlaps' = overlaps PROVE Bound' >= Bound /\ Bound' >= Bound - 1
      BY <1>1, <2>1, <2>2, <2>3 DEF Calm, Charged
    <2>4. ASSUME Calm, overlaps' = overlaps + 1 PROVE Bound' >= Bound + 1
      BY <1>1, <2>1, <2>2, <2>4 DEF Calm, Charged
    <2>5. ASSUME Charged, overlaps' = overlaps PROVE Bound' >= Bound /\ Bound' >= Bound + 1
      BY <1>1, <2>1, <2>2, <2>5 DEF Calm, Charged
    <2> QED BY <1>7, <2>3, <2>4, <2>5, Zenon
  <1> QED BY <1>4, <1>5, <1>6, <1>7, Zenon

\* The debt of the other attempts does not grow.
LEMMA DebtMoves ==
    ASSUME TypeOK, NEW a \in Attempts, Only(a), job.dep # None => job'.dep # None
    PROVE  /\ Debt' \subseteq Debt \cup {a}
           /\ a \notin Debt' => Debt' \subseteq Debt \ {a}
           /\ a \in Debt => Debt' \subseteq Debt
           /\ lane'[a].pc # "idle" => Sure'
           /\ lane[a].pc # "idle" => Sure
           /\ Sure /\ job.dep = None => Sure' \/ lane'[a].pc = "idle"
  BY DEF Debt, Busy, Only, Sure, BusyOnes

LEMMA DepsFit ==
    ASSUME DepInv, NEW a \in Attempts, Only(a), UNCHANGED kind, TypeOK', KnownBox', DepFits(a)',
           job.dep # None => job'.dep # None
    PROVE  DepInv'
  BY DEF DepInv, DepFits, Only

LEMMA FetchFair ==
    ASSUME DepInv, NEW a \in Attempts, Fetch(a)
    PROVE  DepInv' /\ Fair
  <1> USE DEF DepInv
  <1>1. /\ TypeOK' /\ UNCHANGED <<kind, build, job>> /\ Calm /\ Only(a)
        /\ lane[a].pc = "idle" /\ lane'[a].pc = "claim" /\ lane'[a].dep = job.dep
        /\ \/ overlaps' = overlaps /\ \A b \in Attempts : ~Busy(b)
           \/ overlaps' = overlaps + 1
    BY FetchDoes DEF Calm, Apart
  <1>2. KnownBox' /\ job'.dep = job.dep
    BY <1>1, NextTyped DEF Next, LaneStep
  <1>3. DepFits(a)'
    BY <1>1, <1>2 DEF DepFits, Starting
  <1>4. DepInv'
    BY <1>1, <1>2, <1>3, DepsFit
  <1>5. Started' = Started
    BY <1>1 DEF Started
  <1>6. Sure' /\ Debt' \subseteq Debt \cup {a}
    BY <1>1, <1>2, DebtMoves
  <1>7. CASE job.dep = None
    <2>1. overlaps' = overlaps => ~Sure
      BY <1>1, <1>7, CoolifyAssumption DEF Sure, BusyOnes, TypeOK
    <2>2. Bound' >= Bound + 1
      BY <1>1, <1>2, <1>6, <2>1, BoundMoves
    <2> QED BY <1>4, <1>5, <1>6, <2>2 DEF Fair, Forgets, Grows
  <1>8. CASE job.dep # None
    <2>1. a \notin Debt'
      BY <1>1, <1>8 DEF Debt
    <2>2. Debt' \subseteq Debt
      BY <1>6, <2>1
    <2>3. Bound' >= Bound
      <3>1. Bound' >= Bound \/ Bound' >= Bound + 1
        BY <1>1, <1>2, <1>6, BoundMoves
      <3>2. Bound \in Int /\ Bound' \in Int
        BY <1>1 DEF Bound, TypeOK
      <3> QED BY <3>1, <3>2
    <2> QED BY <1>4, <1>5, <2>2, <2>3 DEF Fair, Keeps
  <1> QED BY <1>7, <1>8

LEMMA TakeFair ==
    ASSUME DepInv, NEW a \in Attempts, Claim(a) \/ List(a) \/ Create(a)
    PROVE  DepInv' /\ Fair
  <1> USE DEF DepInv
  <1>0. TypeOK' /\ KnownBox'
    BY NextTyped DEF Next, LaneStep
  <1>1. /\ UNCHANGED <<kind, build, overlaps>> /\ Only(a) /\ job'.dep = job.dep /\ (Calm \/ Charged)
        /\ lane[a].pc \in {"claim", "list", "create"}
        /\ \/ lane'[a] = Idle
           \/ lane'[a].pc \in {"list", "create", AfterFound} /\ lane'[a].dep = lane[a].dep
           \/ lane'[a].pc \in {"retry", "giveUp"} /\ lane'[a].dep = None
    <2>1. CASE Claim(a)
      BY <2>1, ClaimDoes DEF Apart
    <2>2. CASE List(a)
      BY <2>2, ListDoes DEF Apart
    <2>3. CASE Create(a)
      BY <2>3, CreateDoes DEF Apart
    <2> QED BY <2>1, <2>2, <2>3
  <1>2. job.dep = None => lane[a].dep = None
    BY <1>1 DEF DepFits
  <1>3. DepFits(a)'
    BY <1>1, <1>2, IdleFits DEF DepFits, AfterFound, Starting
  <1>4. DepInv'
    BY <1>0, <1>1, <1>3, DepsFit
  <1>5. Started' = Started
    BY <1>1 DEF Started
  <1>6. CASE lane'[a] = Idle
    <2>1. a \notin Debt'
      BY <1>6, IdleFits DEF Debt, Busy
    <2>2. Debt' \subseteq Debt \ {a}
      BY <1>1, <2>1, DebtMoves
    <2>3. CASE a \in Debt
      <3>1. Bound' >= Bound - 1
        <4>1. Bound' >= Bound - 1 \/ Bound' >= Bound
          BY <1>0, <1>1, BoundMoves
        <4>2. Bound \in Int /\ Bound' \in Int
          BY <1>0 DEF Bound, TypeOK
        <4> QED BY <4>1, <4>2
      <3> QED BY <1>4, <1>5, <2>2, <2>3, <3>1 DEF Fair, Leaves, Loses
    <2>4. CASE a \notin Debt
      <3>1. job.dep # None
        BY <1>1, <1>2, <2>4 DEF Debt, Busy
      <3>2. Sure /\ Sure'
        BY <1>1, <3>1 DEF Sure
      <3>3. Bound' >= Bound
        BY <1>0, <1>1, <3>2, BoundMoves
      <3> QED BY <1>4, <1>5, <2>2, <3>3 DEF Fair, Keeps
    <2> QED BY <2>3, <2>4
  <1>7. CASE lane'[a] # Idle
    <2>1. lane'[a].pc # "idle"
      BY <1>1, <1>7 DEF AfterFound
    <2>2. Sure'
      BY <1>1, <2>1, DebtMoves
    <2>3. a \in Debt' => a \in Debt
      BY <1>1, <1>2, <1>7 DEF Debt, Busy, AfterFound
    <2>4. Debt' \subseteq Debt
      BY <1>1, <2>3, DebtMoves
    <2>5. Bound' >= Bound
      BY <1>0, <1>1, <2>2, BoundMoves
    <2> QED BY <1>4, <1>5, <2>4, <2>5 DEF Fair, Keeps
  <1> QED BY <1>6, <1>7

LEMMA ServiceFair ==
    ASSUME DepInv, NEW a \in Attempts, ServiceDoes(a), KnownBox'
    PROVE  DepInv' /\ Fair
  <1> USE DEF DepInv
  <1>1. /\ UNCHANGED <<kind, build, overlaps, job>> /\ Only(a) /\ (Calm \/ Charged) /\ TypeOK'
        /\ lane[a].pc \in Starting /\ lane'[a].dep \in {lane[a].dep, None}
        /\ lane'[a].pc \in (Starting \ {"look"}) \cup {"report", "retry", "giveUp"}
    BY DEF ServiceDoes, Apart
  <1>2. kind # "application" /\ (job.dep = None => lane[a].dep = None) /\ job'.dep = job.dep
    BY <1>1 DEF DepFits, Starting
  <1>3. DepFits(a)'
    BY <1>1, <1>2 DEF DepFits, Starting
  <1>4. DepInv'
    BY <1>1, <1>2, <1>3, DepsFit
  <1>5. Started' = Started
    BY <1>1 DEF Started
  <1>6. Sure' /\ (a \in Debt' => a \in Debt)
    BY <1>1, <1>2, DebtMoves DEF Debt, Busy, Starting
  <1>7. Debt' \subseteq Debt
    BY <1>1, <1>2, <1>6, DebtMoves
  <1>8. Bound' >= Bound
    BY <1>1, <1>2, <1>6, BoundMoves
  <1> QED BY <1>4, <1>5, <1>7, <1>8 DEF Fair, Keeps

LEMMA DeployFair ==
    ASSUME DepInv, NEW a \in Attempts, Deploy(a)
    PROVE  DepInv' /\ Fair
  <1> USE DEF DepInv
  <1>0. TypeOK' /\ KnownBox'
    BY NextTyped DEF Next, LaneStep
  <1>1. UNCHANGED <<kind, overlaps, job>> /\ Only(a) /\ lane[a].pc = "deploy" /\ job'.dep = job.dep
    BY DeployDoes DEF Apart
  <1>2. kind = "application" /\ (job.dep = None => lane[a].dep = None)
    BY <1>1 DEF DepFits
  <1>3. CASE UNCHANGED build /\ Calm /\ (\/ lane[a].dep # None /\ lane'[a].pc = "watch" /\ lane'[a].dep = lane[a].dep
                                         \/ lane[a].dep = None /\ lane'[a].pc = "retry" /\ lane'[a].dep = None)
    <2>1. lane'[a].dep \in Builds \/ lane'[a].pc = "retry"
      BY <1>3 DEF TypeOK
    <2>2. DepFits(a)'
      BY <1>1, <1>2, <1>3, <2>1 DEF DepFits, Starting
    <2>3. DepInv'
      BY <1>0, <1>1, <2>2, DepsFit
    <2>4. Sure' /\ (a \in Debt' => a \in Debt)
      BY <1>1, <1>3, DebtMoves DEF Debt, Busy
    <2>5. Debt' \subseteq Debt /\ Started' = Started
      BY <1>1, <1>3, <2>4, DebtMoves DEF Started
    <2>6. Bound' >= Bound
      BY <1>0, <1>1, <1>3, <2>4, BoundMoves
    <2> QED BY <2>3, <2>5, <2>6 DEF Fair, Keeps
  <1>4. CASE /\ lane[a].dep = None
             /\ \E d \in Builds :
                  /\ build[d] = "none" /\ (build' = build \/ build' = [build EXCEPT ![d] = "pending"])
                  /\ \/ lane'[a].pc = "watch" /\ lane'[a].dep = d /\ Calm
                     \/ lane'[a].pc = "retry" /\ lane'[a].dep = None /\ Charged
    <2>1. PICK d \in Builds :
            /\ build' = build \/ build' = [build EXCEPT ![d] = "pending"]
            /\ \/ lane'[a].pc = "watch" /\ lane'[a].dep = d /\ Calm
               \/ lane'[a].pc = "retry" /\ lane'[a].dep = None /\ Charged
      BY <1>4
    <2>2. DepFits(a)'
      BY <1>1, <1>2, <2>1 DEF DepFits, Starting
    <2>3. DepInv'
      BY <1>0, <1>1, <2>2, DepsFit
    <2>4. Started' \subseteq Started \cup {d}
      BY <2>1 DEF Started, TypeOK
    <2>5. a \in Debt /\ Sure'
      BY <1>1, <1>4, <2>1, DebtMoves DEF Debt, Busy
    <2>6. CASE lane'[a].pc = "watch" /\ lane'[a].dep = d /\ Calm
      <3>1. a \notin Debt'
        BY <2>6, CoolifyAssumption DEF Debt
      <3>2. Debt' \subseteq Debt \ {a}
        BY <1>1, <3>1, DebtMoves
      <3>3. Bound' >= Bound
        BY <1>0, <1>1, <2>5, <2>6, BoundMoves
      <3> QED BY <2>3, <2>4, <2>5, <3>2, <3>3 DEF Fair, Builds1, Grows, Loses
    <2>7. CASE lane'[a].pc = "retry" /\ lane'[a].dep = None /\ Charged
      <3>1. Debt' \subseteq Debt
        BY <1>1, <2>5, DebtMoves
      <3>2. Bound' >= Bound + 1
        BY <1>0, <1>1, <2>5, <2>7, BoundMoves
      <3> QED BY <2>3, <2>4, <3>1, <3>2 DEF Fair, Strays, Grows
    <2> QED BY <2>1, <2>6, <2>7
  <1> QED BY <1>3, <1>4, DeployDoes

LEMMA WaitFair ==
    ASSUME DepInv, NEW a \in Attempts, Watch(a) \/ (TimeOut(a) /\ ~ServiceDoes(a))
    PROVE  DepInv' /\ Fair
  <1> USE DEF DepInv
  <1>0. TypeOK' /\ KnownBox'
    BY NextTyped DEF Next, LaneStep
  <1>1. /\ UNCHANGED <<kind, build, overlaps, job>> /\ Only(a) /\ lane[a].pc = "watch" /\ job'.dep = job.dep
        /\ \/ lane'[a].pc \in {"watch", "report", "giveUp", "retry"} /\ lane'[a].dep = lane[a].dep /\ Calm
           \/ lane'[a].pc = "retry" /\ lane'[a].dep = None /\ Charged
    <2>1. CASE Watch(a)
      BY <2>1, WatchDoes DEF Apart
    <2>2. CASE TimeOut(a) /\ ~ServiceDoes(a)
      BY <2>2, TimeOutDoes DEF Apart
    <2> QED BY <2>1, <2>2
  <1>2. kind = "application" /\ lane[a].dep \in Builds
    BY <1>1 DEF DepFits
  <1>3. DepFits(a)'
    BY <1>1, <1>2 DEF DepFits, Starting
  <1>4. DepInv'
    BY <1>0, <1>1, <1>3, DepsFit
  <1>5. Started' = Started /\ Sure'
    BY <1>1, DebtMoves DEF Started
  <1>6. CASE lane'[a].dep = lane[a].dep /\ Calm
    <2>1. a \notin Debt'
      BY <1>2, <1>6, CoolifyAssumption DEF Debt
    <2>2. Debt' \subseteq Debt
      BY <1>1, <2>1, DebtMoves
    <2>3. Bound' >= Bound
      BY <1>0, <1>1, <1>5, <1>6, BoundMoves
    <2> QED BY <1>4, <1>5, <2>2, <2>3 DEF Fair, Keeps
  <1>7. CASE Charged
    <2>1. Debt' \subseteq Debt \cup {a}
      BY <1>1, DebtMoves
    <2>2. Bound' >= Bound + 1
      BY <1>0, <1>1, <1>5, <1>7, BoundMoves
    <2> QED BY <1>4, <1>5, <2>1, <2>2 DEF Fair, Forgets, Grows
  <1> QED BY <1>1, <1>6, <1>7

LEMMA ReportFair ==
    ASSUME DepInv, NEW a \in Attempts, Report(a)
    PROVE  DepInv' /\ Fair
  <1> USE DEF DepInv
  <1>0. TypeOK' /\ KnownBox'
    BY NextTyped DEF Next, LaneStep
  <1>1. UNCHANGED <<kind, build, overlaps>> /\ Only(a) /\ lane[a].pc = "report"
    BY ReportDoes DEF Apart
  <1>2. /\ kind = "application" => lane[a].dep \in Builds
        /\ kind # "application" /\ job.dep = None => lane[a].dep = None
    BY <1>1 DEF DepFits
  <1>3. /\ job'.dep = job.dep \/ (kind = "application" /\ job'.dep = lane[a].dep)
        /\ lane'[a].pc \in {"idle", "retry"} /\ lane'[a].dep = None
        /\ \/ /\ lane'[a] = Idle /\ Calm
              /\ job'.dep = IF kind = "application" THEN lane[a].dep ELSE job.dep
           \/ lane'[a].pc = "retry" /\ Charged
    BY ReportDoes, IdleFits
  <1>4. job.dep # None => job'.dep # None
    BY <1>2, <1>3, CoolifyAssumption
  <1>5. DepFits(a)'
    BY <1>1, <1>3 DEF DepFits, Starting
  <1>6. DepInv'
    BY <1>0, <1>1, <1>4, <1>5, DepsFit
  <1>7. Started' = Started
    BY <1>1 DEF Started
  <1>8. CASE lane'[a] = Idle /\ Calm /\ job'.dep = IF kind = "application" THEN lane[a].dep ELSE job.dep
    <2>1. a \notin Debt'
      BY <1>8, IdleFits DEF Debt, Busy
    <2>2. Debt' \subseteq Debt \ {a}
      BY <1>1, <1>4, <2>1, DebtMoves
    <2>3. CASE job'.dep # None
      <3>1. Bound' >= Bound
        BY <1>0, <1>1, <1>4, <1>8, <2>3, BoundMoves DEF Sure
      <3> QED BY <1>6, <1>7, <2>2, <3>1 DEF Fair, Keeps
    <2>4. CASE job'.dep = None
      <3>1. job.dep = None /\ lane[a].dep = None
        BY <1>2, <1>4, <1>8, <2>4, CoolifyAssumption
      <3>2. a \in Debt
        BY <1>1, <3>1 DEF Debt, Busy
      <3>3. Bound' >= Bound - 1
        BY <1>0, <1>1, <1>4, <1>8, BoundMoves
      <3> QED BY <1>6, <1>7, <2>2, <3>2, <3>3 DEF Fair, Leaves, Loses
    <2> QED BY <2>3, <2>4
  <1>9. CASE lane'[a].pc = "retry" /\ Charged
    <2>1. Sure' /\ Debt' \subseteq Debt \cup {a}
      BY <1>1, <1>4, <1>9, DebtMoves
    <2>2. Bound' >= Bound + 1
      BY <1>0, <1>1, <1>4, <1>9, <2>1, BoundMoves
    <2> QED BY <1>6, <1>7, <2>1, <2>2 DEF Fair, Forgets, Grows
  <1> QED BY <1>3, <1>8, <1>9

LEMMA FailureFair ==
    ASSUME DepInv, NEW a \in Attempts, HandleFailure(a)
    PROVE  DepInv' /\ Fair
  <1> USE DEF DepInv
  <1>0. TypeOK' /\ KnownBox'
    BY NextTyped DEF Next, LaneStep
  <1>1. /\ UNCHANGED <<kind, build, overlaps>> /\ Only(a) /\ lane[a].pc \in {"retry", "giveUp"} /\ lane'[a] = Idle
        /\ \/ Calm /\ job'.dep = KeptDep(a)
           \/ Charged /\ job'.dep \in {job.dep, KeptDep(a)}
    BY HandleFailureDoes DEF Apart
  <1>2. job.dep # None => job'.dep # None
    BY <1>1 DEF KeptDep
  <1>3. DepFits(a)'
    BY <1>1, IdleFits DEF DepFits, Starting
  <1>4. DepInv'
    BY <1>0, <1>1, <1>2, <1>3, DepsFit
  <1>5. Started' = Started
    BY <1>1 DEF Started
  <1>6. a \notin Debt'
    BY <1>1, IdleFits DEF Debt, Busy
  <1>7. Debt' \subseteq Debt \ {a}
    BY <1>1, <1>2, <1>6, DebtMoves
  <1>8. CASE Charged
    <2>1. Bound' >= Bound
      BY <1>0, <1>1, <1>2, <1>8, BoundMoves
    <2> QED BY <1>4, <1>5, <1>7, <2>1 DEF Fair, Keeps
  <1>9. CASE Calm /\ KeptDep(a) # None /\ job'.dep = KeptDep(a)
    <2>1. Bound' >= Bound
      BY <1>0, <1>1, <1>2, <1>9, BoundMoves DEF Sure
    <2> QED BY <1>4, <1>5, <1>7, <2>1 DEF Fair, Keeps
  <1>10. CASE Calm /\ KeptDep(a) = None
    <2>1. a \in Debt
      BY <1>1, <1>10 DEF KeptDep, Debt, Busy
    <2>2. Bound' >= Bound - 1
      BY <1>0, <1>1, <1>2, <1>10, BoundMoves
    <2> QED BY <1>4, <1>5, <1>7, <2>1, <2>2 DEF Fair, Leaves, Loses
  <1> QED BY <1>1, <1>8, <1>9, <1>10

LEMMA CrashFair ==
    ASSUME DepInv, Crash
    PROVE  DepInv' /\ Fair
  <1> USE DEF DepInv
  <1>0. TypeOK' /\ KnownBox'
    BY NextTyped DEF Next
  <1>1. UNCHANGED <<kind, build, overlaps>> /\ job'.dep = job.dep /\ Charged
        /\ \A a \in Attempts : lane'[a].pc = "idle" /\ lane'[a].dep = None
    BY CrashDoes, IdleFits DEF Apart
  <1>2. DepInv'
    BY <1>0, <1>1 DEF DepFits, Starting
  <1>3. Started' = Started /\ Debt' = {}
    BY <1>1 DEF Started, Debt, Busy
  <1>4. Bound' >= Bound
    BY <1>0, <1>1, BoundMoves
  <1> QED BY <1>2, <1>3, <1>4 DEF Fair, Keeps

LEMMA StillFair ==
    ASSUME DepInv, TypeOK', KnownBox', UNCHANGED <<kind, lane, overlaps>>, job'.dep = job.dep, Calm \/ Charged,
           \A d \in Builds : build'[d] = "none" <=> build[d] = "none"
    PROVE  DepInv' /\ Fair
  <1> USE DEF DepInv
  <1>1. DepInv'
    BY DEF DepFits
  <1>2. Started' = Started /\ Debt' = Debt /\ (Sure' <=> Sure)
    BY DEF Started, Debt, Busy, Sure, BusyOnes
  <1>3. Bound' >= Bound
    BY <1>2, BoundMoves
  <1> QED BY <1>1, <1>2, <1>3 DEF Fair, Keeps

LEMMA FairStep ==
    ASSUME DepInv, [Next]_vars
    PROVE  DepInv' /\ Fair
  <1>0. TypeOK' /\ KnownBox'
    BY NextTyped DEF DepInv
  <1>1. CASE UNCHANGED vars
    BY <1>0, <1>1, StillFair DEF vars, Calm
  <1>2. ASSUME NEW a \in Attempts, LaneStep(a) PROVE DepInv' /\ Fair
    <2>1. Look(a) \/ Start(a) \/ Poll(a) \/ Attach(a) \/ Restart(a) \/ Again(a) => ServiceDoes(a)
      BY UpDoes, PollDoes, UrlDoes DEF DepInv
    <2> QED BY <1>0, <1>2, <2>1, FetchFair, TakeFair, ServiceFair, DeployFair, WaitFair, ReportFair, FailureFair
            DEF LaneStep
  <1>3. CASE OtherStep
    <2>1. /\ UNCHANGED <<kind, lane, overlaps>> /\ job'.dep = job.dep /\ (Calm \/ Charged)
          /\ \A d \in Builds : build'[d] = build[d] \/ (build[d] = "pending" /\ build'[d] \in {"finished", "failed"})
      BY <1>3, OthersDo DEF DepInv
    <2>2. \A d \in Builds : build'[d] = "none" <=> build[d] = "none"
      BY <2>1
    <2> QED BY <1>0, <2>1, <2>2, StillFair
  <1> QED BY <1>1, <1>2, <1>3, CrashFair DEF Next, OtherStep

BuildInv == DepInv /\ IsFiniteSet(Started) /\ Cardinality(Started) + Cardinality(Debt) <= Bound

LEMMA BuildInvStep ==
    ASSUME BuildInv, [Next]_vars
    PROVE  BuildInv'
  <1>1. DepInv' /\ Fair
    BY FairStep DEF BuildInv
  <1>2. IsFiniteSet(Debt) /\ IsFiniteSet(Debt') /\ IsFiniteSet(Started)
    BY CoolifyAssumption, FS_Subset DEF Debt, BuildInv
  <1>3. /\ Cardinality(Started) \in Nat /\ Cardinality(Debt) \in Nat /\ Cardinality(Debt') \in Nat
        /\ Bound \in Int /\ Bound' \in Int /\ Cardinality(Started) + Cardinality(Debt) <= Bound
    BY <1>1, <1>2, FS_CardinalityType DEF Bound, BuildInv, DepInv, TypeOK
  <1>4. Started' \subseteq Started => IsFiniteSet(Started') /\ Cardinality(Started') <= Cardinality(Started)
    BY <1>2, FS_Subset
  <1>5. Grows(Started, Started') => IsFiniteSet(Started') /\ Cardinality(Started') <= Cardinality(Started) + 1
    <2> SUFFICES ASSUME NEW x, Started' \subseteq Started \cup {x}
                 PROVE  IsFiniteSet(Started') /\ Cardinality(Started') <= Cardinality(Started) + 1
      BY DEF Grows
    <2> QED BY <1>2, GrowsByOne
  <1>6. Debt' \subseteq Debt => Cardinality(Debt') <= Cardinality(Debt)
    BY <1>2, FS_Subset
  <1>7. Grows(Debt, Debt') => Cardinality(Debt') <= Cardinality(Debt) + 1
    <2> SUFFICES ASSUME NEW x, Debt' \subseteq Debt \cup {x}
                 PROVE  Cardinality(Debt') <= Cardinality(Debt) + 1
      BY DEF Grows
    <2> QED BY <1>2, GrowsByOne
  <1>8. Loses(Debt, Debt') => Cardinality(Debt') <= Cardinality(Debt) - 1
    <2> SUFFICES ASSUME NEW x \in Debt, Debt' \subseteq Debt \ {x}
                 PROVE  Cardinality(Debt') <= Cardinality(Debt) - 1
      BY DEF Loses
    <2> QED BY <1>2, ShrinksByOne
  <1>9. IsFiniteSet(Started')
    BY <1>1, <1>4, <1>5 DEF Fair, Keeps, Builds1, Leaves, Forgets, Strays
  <1>10. Cardinality(Started') \in Nat
    BY <1>9, FS_CardinalityType
  <1>11. Cardinality(Started') + Cardinality(Debt') <= Bound'
    <2>1. CASE Keeps
      BY <1>3, <1>4, <1>6, <1>10, <2>1 DEF Keeps
    <2>2. CASE Builds1
      BY <1>3, <1>5, <1>8, <1>10, <2>2 DEF Builds1
    <2>3. CASE Leaves
      BY <1>3, <1>4, <1>8, <1>10, <2>3 DEF Leaves
    <2>4. CASE Forgets
      BY <1>3, <1>4, <1>7, <1>10, <2>4 DEF Forgets
    <2>5. CASE Strays
      BY <1>3, <1>5, <1>6, <1>10, <2>5 DEF Strays
    <2> QED BY <1>1, <2>1, <2>2, <2>3, <2>4, <2>5 DEF Fair
  <1> QED BY <1>1, <1>9, <1>11 DEF BuildInv

\* Timeouts, backoff, reclaims and admin retries never start a second build of
\* a job: each build beyond the first took a crash or a failed request of its
\* own, or an attempt that began beside another.
THEOREM BuildsCorrect == Spec => []FewBuilds
  <1>1. Init => BuildInv
    <2> SUFFICES ASSUME Init PROVE BuildInv
      OBVIOUS
    <2>1. TypeOK /\ KnownBox /\ \A a \in Attempts : lane[a].pc = "idle" /\ lane[a].dep = None
      BY InitTyped, IdleFits
    <2>2. Started = {} /\ Debt = {} /\ job.dep = None /\ mishaps = 0 /\ overlaps = 0 /\ Bound \in Nat
      BY <2>1 DEF Init, Started, Debt, Busy, Bound
    <2>3. IsFiniteSet({}) /\ Cardinality({}) = 0
      BY FS_EmptySet
    <2>4. DepInv
      BY <2>1 DEF DepInv, DepFits, Starting
    <2> QED BY <2>2, <2>3, <2>4 DEF BuildInv
  <1>2. BuildInv => FewBuilds
    <2> SUFFICES ASSUME BuildInv PROVE FewBuilds
      OBVIOUS
    <2>1. IsFiniteSet(Debt)
      BY CoolifyAssumption, FS_Subset DEF Debt
    <2>2. Cardinality(Debt) \in Nat /\ Cardinality(Started) \in Nat /\ mishaps \in Nat /\ overlaps \in Nat
      BY <2>1, FS_CardinalityType DEF BuildInv, DepInv, TypeOK
    <2> QED BY <2>2 DEF BuildInv, FewBuilds, Bound
  <1> QED BY <1>1, <1>2, BuildInvStep, PTL DEF Spec

-----------------------------------------------------------------------------
(* CoolifyBuilds: the verdicts                                                *)

HasBox(a) == lane[a].pc \in Starting => lane[a].box \in Resources

\* What an attempt makes of its build.
BuildFits(a) ==
    /\ lane[a].pc = "report" /\ kind = "application" => build[lane[a].dep] = "finished"
    /\ lane[a].pc = "giveUp" /\ kind = "application" => lane[a].dep \in Builds /\ build[lane[a].dep] = "failed"

\* What it makes of its container: only a creation makes the resource the
\* attempt's own; such a one is not up before it is started; what has been
\* counted is still so, unless the service has been deleted; once the resource
\* is up, what follows decides nothing any more.
BoxFits(a) ==
    /\ lane[a].pc \in {"claim", "list", "create"} => ~lane[a].new
    /\ lane[a].pc = "look" /\ lane[a].new => box[lane[a].box] \in {"created", "gone"}
    /\ lane[a].pc = "poll" =>
         /\ box[lane[a].box] \notin {"none", "created"}
         /\ lane[a].running >= 1 => box[lane[a].box] \in {"running", "gone"}
         /\ lane[a].exited >= 1 => box[lane[a].box] \in {"exited", "gone"}
    /\ lane[a].pc \in {"attach", "restart", "again", "report"} /\ kind # "application" =>
         image # "dead" /\ (lane[a].new => image = "sound")
    /\ lane[a].pc = "giveUp" /\ kind \notin {"application", "nothing"} => image # "sound"

\* Nobody is under way beside another.
Apiece == \A a, b \in Attempts : Busy(a) /\ Busy(b) => a = b

VerdictInv ==
    /\ DepInv
    /\ \A a \in Attempts : HasBox(a) /\ BuildFits(a)
    /\ overlaps = 0 => Apiece /\ \A a \in Attempts : BoxFits(a)

\* What a reading of the resource says of its container.
LEMMA ReadsFit ==
    ASSUME TypeOK, NEW a \in Attempts, lane[a].box \in Resources, NEW s \in BoxStatus, Reads(a, s)
    PROVE  /\ box'[lane[a].box] = s
           /\ box[lane[a].box] \in {"none", "created", "gone"} => s = box[lane[a].box]
           /\ box[lane[a].box] \notin {"none", "created", "gone"} =>
                s \in {"starting", "running", "restarting", "exited"} /\ (image = "dead" => s = "exited")
           /\ box[lane[a].box] = "running" /\ image = "looping" => s # "running"
           /\ box[lane[a].box] = "exited" /\ image = "sound" => s # "exited"
  <1>1. box[lane[a].box] \in BoxStatus /\ s \in Readings(box[lane[a].box]) /\ image \in Images
    BY DEF TypeOK, Reads
  <1> QED BY <1>1, ReadingsFit DEF Reads, TypeOK

\* One attempt's step: what it makes of its own build and resource is all there
\* is to show.
LEMMA OwnVerdict ==
    ASSUME VerdictInv, DepInv', NEW a \in Attempts, Only(a), UNCHANGED kind,
           overlaps' \in {overlaps, overlaps + 1},
           overlaps' = overlaps => lane[a].pc # "idle" \/ \A b \in Attempts : ~Busy(b),
           \A d \in Builds : build[d] \in {"finished", "failed"} => build'[d] = build[d],
           HasBox(a)', BuildFits(a)',
           overlaps' = 0 /\ overlaps = 0 /\ BoxFits(a) => BoxFits(a)'
    PROVE  VerdictInv'
  <1> USE DEF VerdictInv, DepInv
  <1>1. ASSUME NEW b \in Attempts PROVE HasBox(b)' /\ BuildFits(b)'
    <2>1. CASE b = a
      BY <2>1
    <2>2. CASE b # a
      <3>1. lane'[b] = lane[b]
        BY <2>2 DEF Only
      <3>2. HasBox(b)'
        BY <3>1 DEF HasBox
      <3>3. BuildFits(b)'
        BY <3>1 DEF BuildFits, DepFits
      <3> QED BY <3>2, <3>3
    <2> QED BY <2>1, <2>2
  <1>2. ASSUME overlaps' = 0 PROVE Apiece' /\ \A b \in Attempts : BoxFits(b)'
    <2>1. overlaps = 0 /\ overlaps \in Nat
      <3>1. overlaps \in Nat /\ overlaps' \in Nat
        BY DEF TypeOK
      <3>2. overlaps' = overlaps + 1 => FALSE
        BY <1>2, <3>1
      <3> QED BY <1>2, <3>1, <3>2
    <2>2. \A b \in Attempts \ {a} : lane[b].pc = "idle"
      <3>1. overlaps' = overlaps
        BY <1>2, <2>1
      <3>2. lane[a].pc # "idle" \/ \A b \in Attempts : ~Busy(b)
        BY <3>1
      <3> QED BY <2>1, <3>2 DEF Apiece, Busy
    <2>3. \A b \in Attempts \ {a} : lane'[b].pc = "idle"
      BY <2>2 DEF Only
    <2>4. Apiece'
      BY <2>3 DEF Apiece, Busy
    <2>5. ASSUME NEW b \in Attempts PROVE BoxFits(b)'
      <3>1. CASE b = a
        BY <1>2, <2>1, <3>1
      <3>2. CASE b # a
        BY <2>3, <3>2 DEF BoxFits
      <3> QED BY <3>1, <3>2
    <2> QED BY <2>4, <2>5
  <1> QED BY <1>1, <1>2

LEMMA FindVerdict ==
    ASSUME VerdictInv, DepInv', NEW a \in Attempts, Fetch(a) \/ Claim(a) \/ List(a) \/ Create(a)
    PROVE  VerdictInv'
  <1> USE DEF VerdictInv, DepInv
  <1>1. CASE Fetch(a)
    <2>1. /\ Only(a) /\ UNCHANGED <<kind, build>> /\ lane'[a].pc = "claim" /\ ~lane'[a].new
          /\ overlaps' \in {overlaps, overlaps + 1}
          /\ overlaps' = overlaps => lane[a].pc # "idle" \/ \A b \in Attempts : ~Busy(b)
      BY <1>1, FetchDoes, CoolifyAssumption DEF Apart, TypeOK
    <2>2. HasBox(a)' /\ BuildFits(a)' /\ BoxFits(a)'
      BY <2>1 DEF HasBox, BuildFits, BoxFits, Starting
    <2> QED BY <2>1, <2>2, OwnVerdict
  <1>2. CASE Claim(a)
    <2>1. /\ Only(a) /\ UNCHANGED <<kind, build, overlaps>> /\ lane[a].pc = "claim"
          /\ lane'[a].pc = "idle" \/ (lane'[a].pc = "list" /\ lane'[a].new = lane[a].new)
      BY <1>2, ClaimDoes, IdleFits DEF Apart, SameBox
    <2>2. HasBox(a)' /\ BuildFits(a)' /\ (BoxFits(a) => BoxFits(a)')
      BY <2>1 DEF HasBox, BuildFits, BoxFits, Starting
    <2> QED BY <2>1, <2>2, OwnVerdict
  <1>3. CASE List(a)
    <2>1. /\ Only(a) /\ UNCHANGED <<kind, build, box, overlaps>> /\ lane[a].pc = "list"
          /\ \/ lane'[a].pc = AfterFound /\ lane'[a].box \in Resources /\ lane'[a].new = lane[a].new
             \/ kind = "nothing" /\ lane'[a].pc = "giveUp"
             \/ lane'[a].pc \in {"create", "retry"} /\ lane'[a].new = lane[a].new
      BY <1>3, ListDoes DEF Apart, SameBox, Live
    <2>2. HasBox(a)' /\ BuildFits(a)' /\ (BoxFits(a) => BoxFits(a)')
      BY <2>1 DEF HasBox, BuildFits, BoxFits, Starting, AfterFound
    <2> QED BY <2>1, <2>2, OwnVerdict
  <1>4. CASE Create(a)
    <2>1. /\ Only(a) /\ UNCHANGED <<kind, build, overlaps>> /\ lane[a].pc = "create"
          /\ \E u \in Resources :
               \/ lane'[a].pc = AfterFound /\ lane'[a].box = u /\ box' = [box EXCEPT ![u] = "created"]
               \/ lane'[a].pc = "retry"
      BY <1>4, CreateDoes DEF Apart
    <2>2. PICK u \in Resources :
            \/ lane'[a].pc = AfterFound /\ lane'[a].box = u /\ box' = [box EXCEPT ![u] = "created"]
            \/ lane'[a].pc = "retry"
      BY <2>1
    <2>3. lane'[a].pc = "retry" \/ (lane'[a].pc = AfterFound /\ lane'[a].box = u /\ box'[u] = "created")
      BY <2>2 DEF TypeOK
    <2>4. HasBox(a)' /\ BuildFits(a)' /\ BoxFits(a)'
      BY <2>3 DEF HasBox, BuildFits, BoxFits, Starting, AfterFound
    <2> QED BY <2>1, <2>4, OwnVerdict
  <1> QED BY <1>1, <1>2, <1>3, <1>4

\* The steps that start the resource and read it leave builds alone.
LEMMA ServiceVerdict ==
    ASSUME VerdictInv, DepInv', NEW a \in Attempts, ServiceDoes(a),
           overlaps = 0 /\ BoxFits(a) => BoxFits(a)'
    PROVE  VerdictInv'
  <1> USE DEF VerdictInv, DepInv
  <1>1. /\ Only(a) /\ UNCHANGED <<kind, build, overlaps>> /\ lane[a].pc \in Starting
        /\ lane'[a].box = lane[a].box
    BY DEF ServiceDoes, Apart, SameBox
  <1>2. kind # "application" /\ lane[a].box \in Resources /\ lane[a].pc # "idle"
    BY <1>1 DEF DepFits, HasBox, Starting
  <1>3. HasBox(a)' /\ BuildFits(a)'
    BY <1>1, <1>2 DEF HasBox, BuildFits
  <1> QED BY <1>1, <1>2, <1>3, OwnVerdict

LEMMA UpVerdict ==
    ASSUME VerdictInv, DepInv', NEW a \in Attempts, Look(a) \/ Start(a)
    PROVE  VerdictInv'
  <1> USE DEF VerdictInv, DepInv
  <1>0. ServiceDoes(a)
    BY UpDoes
  <1>1. /\ lane[a].pc \in Starting /\ lane[a].box \in Resources /\ kind # "application"
        /\ UNCHANGED <<kind, image>> /\ lane'[a].box = lane[a].box /\ lane'[a].new = lane[a].new
    BY <1>0 DEF ServiceDoes, HasBox, DepFits, Apart, SameBox
  <1>2. CASE lane'[a].pc = "retry"
    <2>1. BoxFits(a)'
      BY <1>2 DEF BoxFits
    <2> QED BY <1>0, <2>1, ServiceVerdict
  <1>3. CASE Look(a) /\ lane'[a].pc # "retry"
    <2>0. lane[a].pc = "look"
      BY <1>3 DEF Look
    <2>1. ~Throw(a, "retry")
      BY <1>3, ThrowFits DEF LanePc
    <2>2. PICK s \in BoxStatus : Reads(a, s) /\ (IF s = "running" THEN Goto(a, AfterUp(a)) ELSE Goto(a, "start"))
      BY <1>3, <2>1 DEF Look
    <2>3. lane'[a].pc = (IF s = "running" THEN AfterUp(a) ELSE "start")
      BY <2>2, GotoFits DEF AfterUp, LanePc
    <2>4. ASSUME BoxFits(a), s = "running" PROVE image # "dead" /\ ~lane[a].new
      <3>1. box[lane[a].box] \notin {"none", "created", "gone"}
        BY <1>1, <2>2, <2>4, ReadsFit
      <3> QED BY <1>1, <2>0, <2>2, <2>4, <3>1, ReadsFit DEF BoxFits
    <2>5. BoxFits(a) => BoxFits(a)'
      BY <1>1, <2>3, <2>4 DEF BoxFits, AfterUp
    <2> QED BY <1>0, <2>5, ServiceVerdict
  <1>4. CASE Start(a) /\ lane'[a].pc # "retry"
    <2>1. ~Throw(a, "retry")
      BY <1>4, ThrowFits DEF LanePc
    <2>2. PICK o \in Outcomes :
            /\ Starts(a, o) /\ o = "ok" /\ box[lane[a].box] # "gone"
            /\ Becomes(a, [lane[a] EXCEPT !.pc = "poll", !.running = 0, !.exited = 0])
      BY <1>4, <2>1 DEF Start
    <2>3. lane'[a].pc = "poll" /\ lane'[a].running = 0 /\ lane'[a].exited = 0
      BY <2>2, FromNothingFits
    <2>4. box'[lane[a].box] = "starting"
      BY <1>1, <2>2 DEF Starts, TypeOK
    <2>5. BoxFits(a)'
      BY <1>1, <2>3, <2>4 DEF BoxFits
    <2> QED BY <1>0, <2>5, ServiceVerdict
  <1> QED BY <1>2, <1>3, <1>4

LEMMA PollVerdict ==
    ASSUME VerdictInv, DepInv', NEW a \in Attempts, Poll(a)
    PROVE  VerdictInv'
  <1> USE DEF VerdictInv, DepInv
  <1>0. ServiceDoes(a) /\ lane[a].pc = "poll"
    BY PollDoes DEF Poll
  <1>1. /\ lane[a].box \in Resources /\ kind # "application"
        /\ UNCHANGED <<kind, image>> /\ lane'[a].box = lane[a].box /\ lane'[a].new = lane[a].new
    BY <1>0 DEF ServiceDoes, HasBox, DepFits, Apart, SameBox, Starting
  <1>2. CASE lane'[a].pc = "retry"
    <2>1. BoxFits(a)'
      BY <1>2 DEF BoxFits
    <2> QED BY <1>0, <2>1, ServiceVerdict
  <1>3. CASE \E s \in BoxStatus : Reads(a, s) /\ PollReads(a, s)
    <2>1. PICK s \in BoxStatus : Reads(a, s) /\ PollReads(a, s)
      BY <1>3
    <2> SUFFICES ASSUME BoxFits(a) PROVE BoxFits(a)'
      BY <1>0, ServiceVerdict
    <2>2. /\ box[lane[a].box] \notin {"none", "created"}
          /\ lane[a].running >= 1 => box[lane[a].box] \in {"running", "gone"}
          /\ lane[a].exited >= 1 => box[lane[a].box] \in {"exited", "gone"}
          /\ image \in {"sound", "looping", "dead"}
      BY <1>0 DEF BoxFits, TypeOK, Images
    <2>3. /\ box'[lane[a].box] = s
          /\ box[lane[a].box] = "gone" <=> s = "gone"
          /\ s \in {"starting", "running", "restarting", "exited", "gone"}
          /\ s = "running" => image # "dead"
          /\ s = "running" /\ lane[a].running >= 1 => image = "sound"
          /\ s = "exited" /\ lane[a].exited >= 1 => image # "sound"
      BY <1>1, <2>1, <2>2, ReadsFit
    <2>4. lane[a].running \in Nat /\ lane[a].exited \in Nat
      BY DEF TypeOK
    <2> DEFINE up == IF s = "running" THEN lane[a].running + 1 ELSE 0
               down == IF s \in {"created", "exited"} THEN lane[a].exited + 1 ELSE 0
    <2>5. CASE s = "gone" /\ lane'[a].pc = "retry"
      BY <2>5 DEF BoxFits
    <2>6. CASE Enough(up) /\ lane'[a].pc = AfterUp(a)
      <3>1. s = "running" /\ lane[a].running >= 1
        BY <2>4, <2>6 DEF Enough
      <3>2. image = "sound"
        BY <2>3, <3>1
      <3> QED BY <1>1, <2>6, <3>2 DEF AfterUp, BoxFits
    <2>7. CASE ~Enough(up) /\ Enough(down) /\ lane'[a].pc = "giveUp"
      <3>1. s = "exited" /\ lane[a].exited >= 1
        BY <2>3, <2>4, <2>7 DEF Enough
      <3>2. image # "sound"
        BY <2>3, <3>1
      <3> QED BY <1>1, <2>7, <3>2 DEF BoxFits
    <2>8. CASE /\ s # "gone" /\ ~Enough(up) /\ ~Enough(down) /\ lane'[a].pc = "poll"
               /\ lane'[a].running = up /\ lane'[a].exited = down
      <3>1. /\ lane'[a].running >= 1 => s = "running"
            /\ lane'[a].exited >= 1 => s = "exited"
        BY <2>3, <2>8
      <3> QED BY <1>1, <2>3, <2>8, <3>1 DEF BoxFits
    <2>9. \/ s = "gone" /\ lane'[a].pc = "retry"
          \/ Enough(up) /\ lane'[a].pc = AfterUp(a)
          \/ ~Enough(up) /\ Enough(down) /\ lane'[a].pc = "giveUp"
          \/ /\ s # "gone" /\ ~Enough(up) /\ ~Enough(down) /\ lane'[a].pc = "poll"
             /\ lane'[a].running = up /\ lane'[a].exited = down
      BY <2>1 DEF PollReads
    <2> HIDE DEF up, down
    <2> QED BY <2>5, <2>6, <2>7, <2>8, <2>9
  <1> QED BY <1>2, <1>3, PollDoes

LEMMA UrlVerdict ==
    ASSUME VerdictInv, DepInv', NEW a \in Attempts,
           \/ Attach(a) \/ Restart(a) \/ Again(a)
           \/ TimeOut(a) /\ ServiceDoes(a)
    PROVE  VerdictInv'
  <1> USE DEF VerdictInv, DepInv
  <1>0. /\ ServiceDoes(a)
        /\ \/ lane[a].pc \in {"attach", "restart", "again"} /\ lane'[a].pc \in {"restart", "again", "report"}
           \/ lane'[a].pc = "retry"
    BY UrlDoes, TimeOutDoes DEF ServiceDoes, Starting
  <1>1. lane[a].pc \in Starting /\ kind # "application" /\ UNCHANGED <<kind, image>> /\ lane'[a].new = lane[a].new
    BY <1>0 DEF ServiceDoes, DepFits, Apart, SameBox
  <1>2. BoxFits(a) => BoxFits(a)'
    BY <1>0, <1>1 DEF BoxFits
  <1> QED BY <1>0, <1>2, ServiceVerdict

LEMMA BuildVerdict ==
    ASSUME VerdictInv, DepInv', NEW a \in Attempts,
           \/ Deploy(a) \/ Watch(a)
           \/ TimeOut(a) /\ ~ServiceDoes(a)
    PROVE  VerdictInv'
  <1> USE DEF VerdictInv, DepInv
  <1>1. CASE Deploy(a)
    <2>1. /\ Only(a) /\ UNCHANGED <<kind, overlaps>> /\ lane[a].pc = "deploy" /\ lane'[a].pc \in {"watch", "retry"}
          /\ \/ UNCHANGED build
             \/ \E d \in Builds : build[d] = "none" /\ build' = [build EXCEPT ![d] = "pending"]
      BY <1>1, DeployDoes DEF Apart
    <2>2. \A d \in Builds : build[d] \in {"finished", "failed"} => build'[d] = build[d]
      BY <2>1 DEF TypeOK
    <2>3. HasBox(a)' /\ BuildFits(a)' /\ BoxFits(a)'
      BY <2>1 DEF HasBox, BuildFits, BoxFits, Starting
    <2> QED BY <2>1, <2>2, <2>3, OwnVerdict
  <1>2. CASE Watch(a)
    <2>1. /\ Only(a) /\ UNCHANGED <<kind, overlaps, build>> /\ lane[a].pc = "watch"
          /\ \/ build[lane[a].dep] = "finished" /\ lane'[a].pc = "report" /\ lane'[a].dep = lane[a].dep
             \/ build[lane[a].dep] = "failed" /\ lane'[a].pc = "giveUp" /\ lane'[a].dep = lane[a].dep
             \/ lane'[a].pc \in {"watch", "retry"}
      BY <1>2, WatchDoes DEF Apart
    <2>2. kind = "application" /\ lane[a].dep \in Builds
      BY <2>1 DEF DepFits
    <2>3. HasBox(a)' /\ BuildFits(a)' /\ BoxFits(a)'
      BY <2>1, <2>2 DEF HasBox, BuildFits, BoxFits, Starting
    <2> QED BY <2>1, <2>3, OwnVerdict
  <1>3. CASE TimeOut(a) /\ ~ServiceDoes(a)
    <2>1. Only(a) /\ UNCHANGED <<kind, overlaps, build>> /\ lane[a].pc = "watch" /\ lane'[a].pc = "retry"
      BY <1>3, TimeOutDoes DEF Apart
    <2>2. HasBox(a)' /\ BuildFits(a)' /\ BoxFits(a)'
      BY <2>1 DEF HasBox, BuildFits, BoxFits, Starting
    <2> QED BY <2>1, <2>2, OwnVerdict
  <1> QED BY <1>1, <1>2, <1>3

LEMMA RunnerVerdict ==
    ASSUME VerdictInv, DepInv', NEW a \in Attempts, Report(a) \/ HandleFailure(a)
    PROVE  VerdictInv'
  <1> USE DEF VerdictInv, DepInv
  <1>1. Only(a) /\ UNCHANGED <<kind, build, overlaps>> /\ lane[a].pc # "idle" /\ lane'[a].pc \in {"idle", "retry"}
    BY ReportDoes, HandleFailureDoes, IdleFits DEF Apart
  <1>2. HasBox(a)' /\ BuildFits(a)' /\ BoxFits(a)'
    BY <1>1 DEF HasBox, BuildFits, BoxFits, Starting
  <1> QED BY <1>1, <1>2, OwnVerdict

\* Steps that leave the attempts alone: a resource goes, a build ends, the row
\* changes.
LEMMA QuietVerdict ==
    ASSUME VerdictInv, DepInv', UNCHANGED <<lane, kind, image, overlaps>>,
           \A u \in Resources : box'[u] \in {box[u], "gone"},
           \A d \in Builds : build[d] \in {"finished", "failed"} => build'[d] = build[d]
    PROVE  VerdictInv'
  <1> USE DEF VerdictInv, DepInv
  <1>1. \A a \in Attempts : HasBox(a)'
    BY DEF HasBox
  <1>2. \A a \in Attempts : BuildFits(a)'
    BY DEF BuildFits, DepFits
  <1>3. Apiece => Apiece'
    BY DEF Apiece, Busy
  <1>4. ASSUME NEW a \in Attempts, BoxFits(a) PROVE BoxFits(a)'
    <2>1. lane[a].pc \in {"look", "poll"} => lane[a].box \in Resources
      BY DEF HasBox, Starting
    <2> QED BY <1>4, <2>1 DEF BoxFits
  <1> QED BY <1>1, <1>2, <1>3, <1>4

LEMMA VerdictInvStep ==
    ASSUME VerdictInv, [Next]_vars
    PROVE  VerdictInv'
  <1>0. DepInv'
    BY FairStep DEF VerdictInv
  <1>1. CASE UNCHANGED vars
    BY <1>0, <1>1, QuietVerdict DEF vars
  <1>2. ASSUME NEW a \in Attempts, LaneStep(a) PROVE VerdictInv'
    BY <1>0, <1>2, FindVerdict, UpVerdict, PollVerdict, UrlVerdict, BuildVerdict, RunnerVerdict DEF LaneStep
  <1>3. CASE Crash
    <2>1. UNCHANGED <<kind, build, overlaps>> /\ \A a \in Attempts : lane'[a].pc = "idle"
      BY <1>3, CrashDoes, IdleFits DEF Apart, VerdictInv, DepInv
    <2> QED BY <1>0, <2>1 DEF VerdictInv, HasBox, BuildFits, BoxFits, Apiece, Busy, Starting
  <1>4. CASE OtherStep
    <2>1. /\ UNCHANGED <<lane, kind, image, overlaps>>
          /\ \A u \in Resources : box'[u] \in {box[u], "gone"}
          /\ \A d \in Builds : build'[d] = build[d] \/ (build[d] = "pending" /\ build'[d] \in {"finished", "failed"})
      BY <1>4, OthersDo DEF VerdictInv, DepInv
    <2>2. \A d \in Builds : build[d] \in {"finished", "failed"} => build'[d] = build[d]
      BY <2>1
    <2> QED BY <1>0, <2>1, <2>2, QuietVerdict
  <1> QED BY <1>1, <1>2, <1>3, <1>4 DEF Next, OtherStep

\* A job is reported active only with a build that finished or, of attempts that
\* do not overlap, a container that stays up; and given up for good only when
\* its build failed or its container does not come up: no single reading
\* between two processes decides.
THEOREM VerdictsCorrect == Spec => []VerdictsFit
  <1>1. Init => VerdictInv
    <2> SUFFICES ASSUME Init PROVE VerdictInv
      OBVIOUS
    <2>1. TypeOK /\ KnownBox /\ \A a \in Attempts : lane[a].pc = "idle" /\ lane[a].dep = None
      BY InitTyped, IdleFits
    <2>2. DepInv
      BY <2>1 DEF DepInv, DepFits, Starting
    <2> QED BY <2>1, <2>2 DEF VerdictInv, HasBox, BuildFits, BoxFits, Apiece, Busy, Starting
  <1>2. VerdictInv => VerdictsFit
    BY DEF VerdictInv, BuildFits, BoxFits, VerdictsFit, VerdictFits
  <1> QED BY <1>1, <1>2, VerdictInvStep, PTL DEF Spec

----------------------------------------------------------------------------
(* TerminalBroker: the broker and its records are well typed                   *)

Lefts == [who : SUBSET Sessions, mishaps : Nat, aged : Nat, holds : Nat, storage : SUBSET {"broker", "backend"}]
Ends == [at : {"none", "upload", "sent", "found", "over"}, reason : Reasons, key : BOOLEAN]

\* A request that fails is one fewer to come.
LEMMA MishapTyped ==
    ASSUME left \in Lefts, Mishap
    PROVE  left' \in Lefts
  BY DEF Mishap, Lefts

\* A report moves one session's report, row and recording, well typed.
LEMMA ReportTyped ==
    ASSUME RecordsTypeOK, NEW s \in Sessions, ReportStep(s)
    PROVE  RecordsTypeOK'
<1>1. /\ row \in [Sessions -> Row] /\ bucket \subseteq Sessions
      /\ started \in [Sessions -> {"none", "sent", "over"}] /\ ended \in [Sessions -> Ends]
      /\ purge \in [at : {"idle", "next"} \cup Sessions, todo : SUBSET Sessions] /\ left \in Lefts
  BY DEF RecordsTypeOK, Ends, Lefts
<1>2. UNCHANGED left \/ Mishap => left' \in Lefts
  BY <1>1, MishapTyped
<1> SUFFICES
      /\ row' \in [Sessions -> Row] /\ bucket' \subseteq Sessions
      /\ started' \in [Sessions -> {"none", "sent", "over"}] /\ ended' \in [Sessions -> Ends]
      /\ purge' \in [at : {"idle", "next"} \cup Sessions, todo : SUBSET Sessions] /\ left' \in Lefts
  BY DEF RecordsTypeOK, Ends, Lefts
<1>3. CASE RecordStart(s)
  <2>1. [NoRow EXCEPT !.at = "open"] \in Row
    BY DEF NoRow, Row, Tiers
  <2>2. QED BY <1>1, <1>2, <1>3, <2>1 DEF RecordStart
<1>4. CASE Upload(s)
  <2>1. ended' \in [Sessions -> Ends]
    BY <1>1, <1>4 DEF Upload, Ends
  <2>2. QED BY <1>1, <1>2, <1>4, <2>1 DEF Upload
<1>5. CASE FindRow(s)
  <2>1. \A at \in {"over", "found"} : [ended EXCEPT ![s].at = at] \in [Sessions -> Ends]
    BY <1>1 DEF Ends
  <2>2. QED BY <1>1, <1>2, <1>5, <2>1 DEF FindRow
<1>6. CASE RecordEnd(s)
  <2>1. ended' \in [Sessions -> Ends]
    BY <1>1, <1>6 DEF RecordEnd, Ends
  <2>2. ended[s].key \in BOOLEAN /\ TierOf(ended[s].reason) \in Tiers
    BY <1>1 DEF Ends, TierOf, Tiers
  <2>3. row' \in [Sessions -> Row]
    BY <1>1, <1>6, <2>2 DEF RecordEnd, Row
  <2>4. QED BY <1>1, <1>2, <1>6, <2>1, <2>3 DEF RecordEnd
<1>7. QED BY <1>3, <1>4, <1>5, <1>6 DEF ReportStep

\* So do ageing, a hold, and each step of the retention sweep.
LEMMA RetentionTyped ==
    ASSUME RecordsTypeOK, (\E s \in Sessions : Age(s) \/ Hold(s)) \/ PurgeStep
    PROVE  RecordsTypeOK'
<1>1. /\ row \in [Sessions -> Row] /\ bucket \subseteq Sessions
      /\ started \in [Sessions -> {"none", "sent", "over"}] /\ ended \in [Sessions -> Ends]
      /\ purge \in [at : {"idle", "next"} \cup Sessions, todo : SUBSET Sessions] /\ left \in Lefts
  BY DEF RecordsTypeOK, Ends, Lefts
<1>2. UNCHANGED left \/ Mishap => left' \in Lefts
  BY <1>1, MishapTyped
<1>3. ASSUME NEW s \in Sessions, Age(s)
      PROVE  RecordsTypeOK'
  <2>1. left' \in Lefts
    BY <1>1, <1>3 DEF Age, Lefts
  <2>2. row' \in [Sessions -> Row]
    BY <1>1, <1>3 DEF Age, Row
  <2>3. QED BY <1>1, <1>3, <2>1, <2>2 DEF Age, RecordsTypeOK, Ends, Lefts
<1>4. ASSUME NEW s \in Sessions, Hold(s)
      PROVE  RecordsTypeOK'
  <2>1. left' \in Lefts
    BY <1>1, <1>4 DEF Hold, Lefts
  <2>2. row' \in [Sessions -> Row]
    BY <1>1, <1>4 DEF Hold, Row, Tiers
  <2>3. QED BY <1>1, <1>4, <2>1, <2>2 DEF Hold, RecordsTypeOK, Ends, Lefts
<1>5. CASE ListExpired
  BY <1>1, <1>5 DEF ListExpired, Unpurged, RecordsTypeOK, Ends, Lefts
<1>6. CASE DeleteObject
  BY <1>1, <1>2, <1>6 DEF DeleteObject, NoPurge, RecordsTypeOK, Ends, Lefts
<1>7. CASE MarkPurged
  <2>1. PICK s \in Sessions : s = purge.at
    BY <1>7 DEF MarkPurged
  <2>2. [row EXCEPT ![s].purged = TRUE, ![s].key = FALSE] \in [Sessions -> Row]
    <3>1. \A r \in Row : [r EXCEPT !.purged = TRUE, !.key = FALSE] \in Row
      BY DEF Row
    <3>2. [row EXCEPT ![s].purged = TRUE, ![s].key = FALSE]
             = [row EXCEPT ![s] = [row[s] EXCEPT !.purged = TRUE, !.key = FALSE]]
      BY <1>1 DEF Row
    <3>3. QED BY <1>1, <3>1, <3>2
  <2>3. row' \in [Sessions -> Row]
    BY <1>1, <1>7, <2>1, <2>2 DEF MarkPurged
  <2>4. QED BY <1>1, <1>2, <1>7, <2>3 DEF MarkPurged, RecordsTypeOK, Ends, Lefts
<1>8. QED BY <1>3, <1>4, <1>5, <1>6, <1>7 DEF PurgeStep
\* The end of a session, whatever brings it: it was live and is reported for
\* the first time, or only its slot is given back.
LEMMA TeardownTyped ==
    ASSUME BrokerTypeOK, SessionsFit, NEW s \in Sessions, NEW reason \in Reasons, Teardown(s, reason),
           UNCHANGED <<row, bucket, started, purge, shell, used, reaper>>,
           left' \in Lefts, late' \subseteq Sessions
    PROVE  BrokerTypeOK'
<1>1. ended \in [Sessions -> Ends]
  BY DEF BrokerTypeOK, RecordsTypeOK, Ends
<1>2. ended' \in [Sessions -> Ends]
  <2>1. [at |-> "upload", reason |-> reason, key |-> FALSE] \in Ends
    BY DEF Ends
  <2>2. QED BY <1>1, <2>1 DEF Teardown, SendEnd
<1>3. ends' \in [Sessions -> 0 .. 2]
  <2>1. s \in live => ends[s] = 0
    BY DEF SessionsFit
  <2>2. QED BY <2>1 DEF Teardown, BrokerTypeOK
<1>4. RecordsTypeOK'
  BY <1>2 DEF BrokerTypeOK, RecordsTypeOK, Ends, Lefts
<1>5. QED BY <1>3, <1>4 DEF BrokerTypeOK, Teardown, Forget, Moves

LEMMA EndTyped ==
    ASSUME BrokerTypeOK, SessionsFit, NEW s \in Sessions, EndEvent(s)
    PROVE  BrokerTypeOK'
<1>1. left \in Lefts /\ late \subseteq Sessions
  BY DEF BrokerTypeOK, RecordsTypeOK, Lefts
<1>2. UNCHANGED left \/ Mishap => left' \in Lefts
  BY <1>1, MishapTyped
<1>3. {"client_closed", "shell_exited", "stream_error", "timeout", "admin_killed"} \subseteq Reasons
  BY DEF Reasons
<1>4. CASE ClientCloses(s)
  BY <1>1, <1>2, <1>3, <1>4, TeardownTyped DEF ClientCloses
<1>5. CASE StreamCloses(s)
  BY <1>1, <1>2, <1>3, <1>5, TeardownTyped DEF StreamCloses
<1>6. CASE Expire(s)
  BY <1>1, <1>2, <1>3, <1>6, TeardownTyped DEF Expire
<1>7. CASE Kill(s)
  BY <1>1, <1>2, <1>3, <1>7, TeardownTyped DEF Kill
<1>8. QED BY <1>4, <1>5, <1>6, <1>7 DEF EndEvent

LEMMA OpeningTyped ==
    ASSUME BrokerTypeOK, NEW s \in Sessions, Open(s) \/ OpenStep(s) \/ ShellExits(s)
    PROVE  BrokerTypeOK'
<1>1. left \in Lefts
  BY DEF BrokerTypeOK, RecordsTypeOK, Lefts
<1>2. UNCHANGED left \/ Mishap => left' \in Lefts
  BY <1>1, MishapTyped
<1>3. UNCHANGED recordVars /\ left' \in Lefts => RecordsTypeOK'
  BY DEF BrokerTypeOK, RecordsTypeOK, recordVars, Lefts
<1>4. CASE Open(s)
  BY <1>2, <1>3, <1>4 DEF BrokerTypeOK, Open, Moves
<1>5. CASE StartExec(s)
  BY <1>2, <1>3, <1>5 DEF BrokerTypeOK, StartExec, Moves
<1>6. CASE BecomeLive(s)
  <2>1. RecordsTypeOK'
    BY <1>6 DEF BrokerTypeOK, RecordsTypeOK, BecomeLive, SendStart
  <2>2. ContainerOf[s] \in Containers
    BY BrokerAssumption
  <2>3. QED BY <1>6, <2>1, <2>2 DEF BrokerTypeOK, BecomeLive, Moves
<1>7. CASE ShellExits(s)
  BY <1>2, <1>3, <1>7 DEF BrokerTypeOK, ShellExits
<1>8. QED BY <1>4, <1>5, <1>6, <1>7 DEF OpenStep

LEMMA ReaperTyped ==
    ASSUME BrokerTypeOK, StartSweep \/ (\E c \in Containers : SweepContainer(c)) \/ BrokerRestarts
    PROVE  BrokerTypeOK'
<1>1. left \in Lefts /\ ended \in [Sessions -> Ends]
  BY DEF BrokerTypeOK, RecordsTypeOK, Lefts, Ends
<1>2. UNCHANGED left \/ Mishap => left' \in Lefts
  BY <1>1, MishapTyped
<1>3. UNCHANGED recordVars /\ left' \in Lefts => RecordsTypeOK'
  BY DEF BrokerTypeOK, RecordsTypeOK, recordVars, Lefts
<1>4. CASE StartSweep
  BY <1>2, <1>3, <1>4 DEF BrokerTypeOK, StartSweep
<1>5. ASSUME NEW c \in Containers, SweepContainer(c)
      PROVE  BrokerTypeOK'
  <2>1. recordVars' = recordVars /\ left' \in Lefts
    BY <1>2, <1>5 DEF SweepContainer
  <2>2. shell' \in [Sessions -> {"none", "running", "dead"}]
    BY <1>5 DEF SweepContainer, BrokerTypeOK
  <2>3. reaper' \in [todo : SUBSET Containers, alive : SUBSET Sessions]
    BY <1>5 DEF SweepContainer, BrokerTypeOK, NoReaper
  <2>4. QED BY <1>3, <1>5, <2>1, <2>2, <2>3 DEF BrokerTypeOK, SweepContainer
<1>6. CASE BrokerRestarts
  <2>1. ended' \in [Sessions -> Ends]
    BY <1>1, <1>6 DEF BrokerRestarts, Ends
  <2>2. RecordsTypeOK'
    BY <1>2, <1>6, <2>1 DEF BrokerRestarts, BrokerTypeOK, RecordsTypeOK, Lefts, Ends
  <2>3. QED BY <1>6, <2>2 DEF BrokerRestarts, BrokerTypeOK, NoReaper
<1>7. QED BY <1>4, <1>5, <1>6
LEMMA RecordsStepTyped ==
    ASSUME BrokerTypeOK, UNCHANGED brokerVars,
           (\E s \in Sessions : ReportStep(s) \/ Age(s) \/ Hold(s)) \/ PurgeStep
    PROVE  BrokerTypeOK'
<1>1. RecordsTypeOK'
  BY ReportTyped, RetentionTyped DEF BrokerTypeOK
<1>2. QED BY <1>1 DEF BrokerTypeOK, brokerVars

LEMMA BrokerNextTyped ==
    ASSUME BrokerTypeOK, SessionsFit, [BrokerNext]_terminalVars
    PROVE  BrokerTypeOK'
<1>1. CASE UNCHANGED terminalVars
  BY <1>1 DEF terminalVars, recordVars, brokerVars, BrokerTypeOK, RecordsTypeOK
<1>2. CASE \E s \in Sessions : Open(s) \/ OpenStep(s) \/ ShellExits(s)
  BY <1>2, OpeningTyped
<1>3. CASE \E s \in Sessions : EndEvent(s)
  BY <1>3, EndTyped
<1>4. CASE StartSweep \/ (\E c \in Containers : SweepContainer(c)) \/ BrokerRestarts
  BY <1>4, ReaperTyped
<1>5. CASE ((\E s \in Sessions : ReportStep(s) \/ Age(s) \/ Hold(s)) \/ PurgeStep) /\ UNCHANGED brokerVars
  BY <1>5, RecordsStepTyped
<1>6. QED BY <1>1, <1>2, <1>3, <1>4, <1>5 DEF BrokerNext

----------------------------------------------------------------------------
(* TerminalBroker: a session ends once                                         *)

\* An end event that finds the session live reports it and takes it out of
\* liveSockets; one that does not changes no report.
LEMMA EndOnce ==
    ASSUME BrokerTypeOK, SessionsFit, NEW s \in Sessions, EndEvent(s)
    PROVE  SessionsFit'
<1>1. \E reason \in Reasons : Teardown(s, reason)
  BY DEF EndEvent, ClientCloses, StreamCloses, Expire, Kill, Reasons
<1>2. UNCHANGED started
  BY DEF EndEvent, ClientCloses, StreamCloses, Expire, Kill
<1>3. CASE s \in live
  <2>1. /\ live' = live \ {s} /\ pc' = [pc EXCEPT ![s] = "done"]
        /\ ends' = [ends EXCEPT ![s] = @ + 1]
        /\ \A t \in Sessions \ {s} : ended'[t] = ended[t]
    BY <1>1, <1>3 DEF Teardown, Forget, Moves, SendEnd, BrokerTypeOK, RecordsTypeOK
  <2>2. ends[s] = 0
    BY <1>3 DEF SessionsFit
  <2>3. QED BY <1>2, <2>1, <2>2 DEF SessionsFit, BrokerTypeOK
<1>4. CASE s \notin live
  BY <1>1, <1>2, <1>4 DEF Teardown, SessionsFit
<1>5. QED BY <1>3, <1>4

\* Reports move on only once they were sent.
LEMMA ReportsOnce ==
    ASSUME BrokerTypeOK, SessionsFit, UNCHANGED brokerVars,
           (\E s \in Sessions : ReportStep(s) \/ Age(s) \/ Hold(s)) \/ PurgeStep
    PROVE  SessionsFit'
<1>1. \A t \in Sessions : /\ ended[t].at = "none" => ended'[t].at = "none"
                          /\ started[t] = "none" => started'[t] = "none"
  <2>1. ASSUME NEW s \in Sessions, ReportStep(s) \/ Age(s) \/ Hold(s), NEW t \in Sessions
        PROVE  /\ ended[t].at = "none" => ended'[t].at = "none"
               /\ started[t] = "none" => started'[t] = "none"
    BY <2>1 DEF ReportStep, RecordStart, Upload, FindRow, RecordEnd, Age, Hold, BrokerTypeOK, RecordsTypeOK
  <2>2. CASE PurgeStep
    BY <2>2 DEF PurgeStep, ListExpired, DeleteObject, MarkPurged
  <2>3. QED BY <2>1, <2>2
<1>2. QED BY <1>1 DEF SessionsFit, brokerVars

LEMMA SessionsFitStep ==
    ASSUME BrokerTypeOK, SessionsFit, [BrokerNext]_terminalVars
    PROVE  SessionsFit'
<1>1. CASE UNCHANGED terminalVars
  BY <1>1 DEF terminalVars, recordVars, brokerVars, SessionsFit
<1>2. ASSUME NEW s \in Sessions, Open(s) \/ StartExec(s) \/ ShellExits(s)
      PROVE  SessionsFit'
  BY <1>2 DEF Open, StartExec, ShellExits, Moves, SessionsFit, BrokerTypeOK, recordVars
<1>3. ASSUME NEW s \in Sessions, BecomeLive(s)
      PROVE  SessionsFit'
  BY <1>3 DEF BecomeLive, SendStart, Moves, SessionsFit, BrokerTypeOK, RecordsTypeOK
<1>4. CASE \E s \in Sessions : EndEvent(s)
  BY <1>4, EndOnce
<1>5. CASE StartSweep \/ \E c \in Containers : SweepContainer(c)
  BY <1>5 DEF StartSweep, SweepContainer, SessionsFit, recordVars
<1>6. CASE BrokerRestarts
  BY <1>6 DEF BrokerRestarts, SessionsFit, BrokerTypeOK, RecordsTypeOK
<1>7. CASE ((\E s \in Sessions : ReportStep(s) \/ Age(s) \/ Hold(s)) \/ PurgeStep) /\ UNCHANGED brokerVars
  BY <1>7, ReportsOnce
<1>8. QED BY <1>1, <1>2, <1>3, <1>4, <1>5, <1>6, <1>7 DEF BrokerNext, OpenStep

LEMMA BrokerInitFits == BrokerInit => BrokerTypeOK /\ SessionsFit
<1> SUFFICES ASSUME BrokerInit PROVE BrokerTypeOK /\ SessionsFit
  OBVIOUS
<1>1. RecordsTypeOK
  BY ScenariosAssumption DEF BrokerInit, RecordsInit, RecordsTypeOK, Row, NoRow, Tiers, NoEnd, Reasons, NoPurge
<1>2. QED BY <1>1 DEF BrokerInit, BrokerTypeOK, SessionsFit, NoReaper, RecordsInit, NoEnd

\* The broker and its records are well typed in every reachable state.
THEOREM BrokerTypeCorrect == BrokerSpec => []BrokerTypeOK
<1>1. BrokerTypeOK /\ SessionsFit /\ [BrokerNext]_terminalVars => (BrokerTypeOK /\ SessionsFit)'
  BY BrokerNextTyped, SessionsFitStep
<1>2. QED BY BrokerInitFits, <1>1, PTL DEF BrokerSpec

\* A session's end is reported at most once, for any number of sessions: the
\* event that comes first takes it out of liveSockets, and it never comes back.
THEOREM EndsOnce == BrokerSpec => []OneEnd
<1>1. BrokerTypeOK /\ SessionsFit /\ [BrokerNext]_terminalVars => (BrokerTypeOK /\ SessionsFit)'
  BY BrokerNextTyped, SessionsFitStep
<1>2. SessionsFit => OneEnd
  BY DEF SessionsFit, OneEnd
<1>3. QED BY BrokerInitFits, <1>1, <1>2, PTL DEF BrokerSpec
----------------------------------------------------------------------------
(* TerminalBroker: the caps hold                                               *)

\* Sessions that are fewer than before are within the caps if those were.
LEMMA FewerWithin ==
    ASSUME SlotsFit, NEW S, S \subseteq slot
    PROVE  /\ IsFiniteSet(S) /\ Cardinality(S) <= GlobalMax
           /\ \A a \in Accounts : Cardinality({s \in S : AccountOf[s] = a}) <= PerAccount
<1>1. IsFiniteSet(S) /\ Cardinality(S) <= Cardinality(slot) /\ Cardinality(slot) \in Nat /\ Cardinality(S) \in Nat
  BY FS_Subset, FS_CardinalityType DEF SlotsFit
<1>2. ASSUME NEW a \in Accounts
      PROVE  Cardinality({s \in S : AccountOf[s] = a}) <= PerAccount
  <2>1. {s \in S : AccountOf[s] = a} \subseteq Held(a) /\ Held(a) \subseteq slot
    BY DEF Held
  <2>2. IsFiniteSet(Held(a))
    BY <2>1, FS_Subset DEF SlotsFit
  <2>3. /\ Cardinality({s \in S : AccountOf[s] = a}) <= Cardinality(Held(a))
        /\ Cardinality({s \in S : AccountOf[s] = a}) \in Nat /\ Cardinality(Held(a)) \in Nat
    BY <2>1, <2>2, FS_Subset, FS_CardinalityType
  <2>4. QED BY <2>3, BrokerAssumption DEF SlotsFit
<1>3. QED BY <1>1, <1>2, BrokerAssumption DEF SlotsFit

\* A session that takes a slot is counted against both caps.
LEMMA OpenWithin ==
    ASSUME BrokerTypeOK, SlotsFit, NEW s \in Sessions, MayOpen(s), slot' = slot \cup {s}
    PROVE  SlotsFit'
<1>1. IsFiniteSet(slot') /\ Cardinality(slot') <= GlobalMax
  <2>1. /\ IsFiniteSet(slot') /\ Cardinality(slot) \in Nat
        /\ Cardinality(slot') = Cardinality(slot) \/ Cardinality(slot') = Cardinality(slot) + 1
    BY FS_AddElement, FS_CardinalityType DEF SlotsFit
  <2>2. QED BY <2>1, BrokerAssumption DEF MayOpen
<1>2. ASSUME NEW a \in Accounts
      PROVE  Cardinality(Held(a)') <= PerAccount
  <2>1. CASE a # AccountOf[s]
    <3>1. Held(a)' = Held(a)
      BY <2>1 DEF Held
    <3>2. QED BY <3>1 DEF SlotsFit
  <2>2. CASE a = AccountOf[s]
    <3>1. Held(a)' = Held(a) \cup {s}
      BY <2>2 DEF Held
    <3>2. Held(a) \subseteq slot
      BY DEF Held
    <3>3. IsFiniteSet(Held(a)) /\ Cardinality(Held(a)) \in Nat
      BY <3>2, FS_Subset, FS_CardinalityType DEF SlotsFit
    <3>4. Cardinality(Held(a) \cup {s}) = Cardinality(Held(a)) \/ Cardinality(Held(a) \cup {s}) = Cardinality(Held(a)) + 1
      BY <3>3, FS_AddElement
    <3>5. Cardinality(Held(a)) < PerAccount
      BY <2>2 DEF MayOpen
    <3>6. QED BY <3>1, <3>3, <3>4, <3>5, BrokerAssumption
  <2>3. QED BY <2>1, <2>2
<1>3. QED BY <1>1, <1>2 DEF SlotsFit

\* The slots of one step are those of before, fewer, or one more that MayOpen
\* let in.
LEMMA SlotSteps ==
    ASSUME [BrokerNext]_terminalVars
    PROVE  slot' \subseteq slot \/ \E s \in Sessions : MayOpen(s) /\ slot' = slot \cup {s}
<1>1. CASE UNCHANGED terminalVars
  BY <1>1 DEF terminalVars, brokerVars
<1>2. ASSUME NEW s \in Sessions, Open(s) \/ OpenStep(s) \/ ShellExits(s)
      PROVE  slot' \subseteq slot \/ (MayOpen(s) /\ slot' = slot \cup {s})
  BY <1>2 DEF Open, OpenStep, StartExec, BecomeLive, ShellExits
<1>3. CASE \E s \in Sessions : EndEvent(s)
  BY <1>3 DEF EndEvent, ClientCloses, StreamCloses, Expire, Kill, Teardown
<1>4. CASE StartSweep \/ (\E c \in Containers : SweepContainer(c)) \/ BrokerRestarts
  BY <1>4 DEF StartSweep, SweepContainer, BrokerRestarts
<1>5. CASE UNCHANGED brokerVars
  BY <1>5 DEF brokerVars
<1>6. QED BY <1>1, <1>2, <1>3, <1>4, <1>5 DEF BrokerNext

LEMMA SlotsFitStep ==
    ASSUME BrokerTypeOK, SlotsFit, [BrokerNext]_terminalVars
    PROVE  SlotsFit'
<1>1. CASE slot' \subseteq slot
  BY <1>1, FewerWithin DEF SlotsFit, Held
<1>2. CASE \E s \in Sessions : MayOpen(s) /\ slot' = slot \cup {s}
  BY <1>2, OpenWithin
<1>3. QED BY <1>1, <1>2, SlotSteps

LEMMA SlotsKeptStep ==
    ASSUME BrokerTypeOK, SessionsFit, SlotsKept, [BrokerNext]_terminalVars
    PROVE  SlotsKept'
<1>1. CASE UNCHANGED terminalVars
  BY <1>1 DEF terminalVars, brokerVars, SlotsKept
<1>2. ASSUME NEW s \in Sessions, Open(s) \/ OpenStep(s) \/ ShellExits(s)
      PROVE  SlotsKept'
  BY <1>2 DEF Open, OpenStep, StartExec, BecomeLive, ShellExits, Moves, SlotsKept, BrokerTypeOK
<1>3. ASSUME NEW s \in Sessions, EndEvent(s)
      PROVE  SlotsKept'
  <2>1. CASE s \in live
    <3>1. slot' = slot \ {s} /\ pc' = [pc EXCEPT ![s] = "done"] /\ late' = late
      BY <1>3, <2>1 DEF EndEvent, ClientCloses, StreamCloses, Expire, Kill, Teardown, Moves
    <3>2. QED BY <3>1 DEF SlotsKept, BrokerTypeOK
  <2>2. CASE s \notin live
    <3>1. Expire(s)
      BY <1>3, <2>2 DEF EndEvent, ClientCloses, StreamCloses, Kill
    <3>2. slot' = slot \ {s} /\ pc' = pc
      BY <2>2, <3>1 DEF Expire, Teardown
    <3>3. CASE pc[s] = "aborted"
      BY <2>2, <3>1, <3>2, <3>3 DEF Expire, SlotsKept
    <3>4. CASE pc[s] # "aborted"
      BY <2>2, <3>1, <3>4 DEF Expire, SlotsKept
    <3>5. QED BY <3>3, <3>4
  <2>3. QED BY <2>1, <2>2
<1>4. CASE StartSweep \/ \E c \in Containers : SweepContainer(c)
  BY <1>4 DEF StartSweep, SweepContainer, SlotsKept
<1>5. CASE BrokerRestarts
  BY <1>5 DEF BrokerRestarts, SlotsKept
<1>6. CASE UNCHANGED brokerVars
  BY <1>6 DEF brokerVars, SlotsKept
<1>7. QED BY <1>1, <1>2, <1>3, <1>4, <1>5, <1>6 DEF BrokerNext

\* However many sessions are opened, closed, timed out and killed, the shells
\* bridged at one time respect both caps, as long as no timer ran out on a
\* session that was still being opened.
THEOREM CapsAreHeld == BrokerSpec => []CapsHeld
<1>1. BrokerInit => CapsInv
  <2> SUFFICES ASSUME BrokerInit PROVE SlotsFit /\ SlotsKept
    BY BrokerInitFits DEF CapsInv
  <2>1. \A a \in Accounts : Held(a) = {}
    BY DEF BrokerInit, Held
  <2>2. QED BY <2>1, FS_EmptySet, BrokerAssumption DEF BrokerInit, SlotsFit, SlotsKept
<1>2. CapsInv /\ [BrokerNext]_terminalVars => CapsInv'
  BY BrokerNextTyped, SessionsFitStep, SlotsFitStep, SlotsKeptStep DEF CapsInv
<1>3. CapsInv => CapsHeld
  <2> SUFFICES ASSUME CapsInv, late = {} PROVE CapsHeld
    BY DEF CapsHeld
  <2>1. live \subseteq slot
    BY DEF CapsInv, SessionsFit, SlotsKept, BrokerTypeOK
  <2>2. QED BY <2>1, FewerWithin DEF CapsInv, CapsHeld
<1>4. QED BY <1>1, <1>2, <1>3, PTL DEF BrokerSpec
----------------------------------------------------------------------------
(* TerminalBroker: a row keeps the key of its recording till it is gone         *)

\* Failures, age and holds are used up; what storage there is stays.
LEMMA StorageStays ==
    ASSUME BrokerTypeOK, [BrokerNext]_terminalVars
    PROVE  left'.storage = left.storage
<1>1. left \in Lefts
  BY DEF BrokerTypeOK, RecordsTypeOK, Lefts
<1>2. Mishap => left'.storage = left.storage
  BY <1>1 DEF Mishap, Lefts
<1>3. CASE UNCHANGED terminalVars
  BY <1>3 DEF terminalVars
<1>4. ASSUME NEW s \in Sessions, Open(s) \/ OpenStep(s) \/ EndEvent(s) \/ ShellExits(s)
      PROVE  left' = left \/ Mishap
  BY <1>4 DEF Open, OpenStep, StartExec, BecomeLive, EndEvent, ClientCloses, StreamCloses, Expire, Kill, ShellExits
<1>5. ASSUME NEW s \in Sessions, ReportStep(s)
      PROVE  left' = left \/ Mishap
  BY <1>5 DEF ReportStep, RecordStart, Upload, FindRow, RecordEnd
<1>6. ASSUME NEW s \in Sessions, Age(s) \/ Hold(s)
      PROVE  left'.storage = left.storage
  BY <1>1, <1>6 DEF Age, Hold, Lefts
<1>7. CASE StartSweep \/ (\E c \in Containers : SweepContainer(c)) \/ BrokerRestarts \/ PurgeStep
  <2>1. left' = left \/ Mishap
    BY <1>7 DEF StartSweep, SweepContainer, BrokerRestarts, PurgeStep, ListExpired, DeleteObject, MarkPurged
  <2>2. QED BY <1>2, <2>1
<1>8. QED BY <1>2, <1>3, <1>4, <1>5, <1>6, <1>7 DEF BrokerNext

\* A report writes the row in its order: the start opens it, the end closes it,
\* each once; and it leaves the sweep alone.
LEMMA ReportFits ==
    ASSUME RecordsInv, UNCHANGED brokerVars, NEW s \in Sessions, ReportStep(s),
           left'.storage = left.storage
    PROVE  RowsFit' /\ ObjectsGone'
<1>1. /\ row \in [Sessions -> Row] /\ ended \in [Sessions -> Ends]
      /\ started \in [Sessions -> {"none", "sent", "over"}] /\ purge' = purge
  BY DEF RecordsInv, BrokerTypeOK, RecordsTypeOK, Ends, ReportStep, RecordStart, Upload, FindRow, RecordEnd
<1>2. RowsFit /\ ObjectsGone
  BY DEF RecordsInv
<1>3. CASE RecordStart(s)
  <2>1. row[s].at = "absent"
    BY <1>1, <1>2, <1>3 DEF RecordStart, RowsFit, Row
  <2>2. /\ \A t \in Sessions \ {s} : row'[t] = row[t] /\ started'[t] = started[t]
        /\ row'[s] = row[s] \/ row'[s] = [NoRow EXCEPT !.at = "open"]
        /\ started'[s] = "over" /\ UNCHANGED <<ended, bucket>>
    BY <1>1, <1>3 DEF RecordStart
  <2>3. ended[s].at # "found"
    BY <1>2, <2>1 DEF RowsFit
  <2>4. QED BY <1>1, <1>2, <2>1, <2>2, <2>3 DEF RowsFit, ObjectsGone, NoRow
<1>4. CASE Upload(s)
  <2>1. /\ \A t \in Sessions \ {s} : ended'[t] = ended[t] /\ (t \in bucket' => t \in bucket)
        /\ ended'[s].at = "sent" /\ UNCHANGED <<row, started>>
    BY <1>1, <1>4 DEF Upload, Ends
  <2>2. row[s].at # "closed"
    BY <1>2, <1>4 DEF Upload, RowsFit
  <2>3. QED BY <1>1, <1>2, <2>1, <2>2 DEF RowsFit, ObjectsGone
<1>5. CASE FindRow(s)
  <2>1. /\ \A t \in Sessions \ {s} : ended'[t] = ended[t]
        /\ ended'[s].at = "over" \/ (ended'[s].at = "found" /\ row[s].at # "absent")
        /\ UNCHANGED <<row, started, bucket>>
    BY <1>1, <1>5 DEF FindRow, Ends
  <2>2. row[s].at # "closed"
    BY <1>2, <1>5 DEF FindRow, RowsFit
  <2>3. row[s].at \in {"absent", "open", "closed"}
    BY <1>1 DEF Row
  <2>4. QED BY <1>1, <1>2, <2>1, <2>2, <2>3 DEF RowsFit, ObjectsGone
<1>6. CASE RecordEnd(s)
  <2>1. row[s].at = "open" /\ row[s].key = FALSE /\ row[s].aged = FALSE
    BY <1>1, <1>2, <1>6 DEF RecordEnd, RowsFit, Row
  <2>2. /\ \A t \in Sessions \ {s} : ended'[t] = ended[t] /\ row'[t] = row[t]
        /\ ended'[s].at = "over"
        /\ row'[s] = row[s] \/ row'[s].at = "closed"
        /\ UNCHANGED <<started, bucket>>
    BY <1>1, <1>6 DEF RecordEnd, Ends, Row
  <2>3. started[s] = "over" /\ s \notin purge.todo /\ purge.at # s
    BY <1>2, <2>1 DEF RowsFit
  <2>4. QED BY <1>1, <1>2, <2>1, <2>2, <2>3 DEF RowsFit, ObjectsGone
<1>7. QED BY <1>3, <1>4, <1>5, <1>6 DEF ReportStep

\* Time and staff touch neither key nor object; the sweep deletes the object
\* of a row before it turns to the row.
LEMMA RetentionFits ==
    ASSUME RecordsInv, UNCHANGED brokerVars,
           (\E s \in Sessions : Age(s) \/ Hold(s)) \/ PurgeStep,
           left'.storage = left.storage
    PROVE  RowsFit' /\ ObjectsGone'
<1>1. /\ row \in [Sessions -> Row]
      /\ purge \in [at : {"idle", "next"} \cup Sessions, todo : SUBSET Sessions]
      /\ UNCHANGED <<started, ended>>
  BY DEF RecordsInv, BrokerTypeOK, RecordsTypeOK, Age, Hold, PurgeStep, ListExpired, DeleteObject, MarkPurged
<1>2. RowsFit /\ ObjectsGone
  BY DEF RecordsInv
<1>3. ASSUME NEW s \in Sessions, Age(s) \/ Hold(s)
      PROVE  RowsFit' /\ ObjectsGone'
  <2>1. /\ \A t \in Sessions : row'[t].at = row[t].at /\ row'[t].key = row[t].key
        /\ \A t \in Sessions : row'[t].aged => row[t].aged \/ row[t].at = "closed"
        /\ UNCHANGED <<bucket, purge>>
    BY <1>1, <1>3 DEF Age, Hold, Row
  <2>2. QED BY <1>1, <1>2, <2>1 DEF RowsFit, ObjectsGone
<1>4. CASE ListExpired
  <2>1. /\ UNCHANGED <<row, bucket>> /\ purge'.at = "next"
        /\ \A t \in purge'.todo : t \in Sessions /\ row[t].aged
    BY <1>4 DEF ListExpired, Unpurged, IsExpired
  <2>2. QED BY <1>1, <1>2, <2>1, SessionsAssumption DEF RowsFit, ObjectsGone
<1>5. CASE DeleteObject
  <2>1. UNCHANGED row /\ purge.at = "next"
    BY <1>5 DEF DeleteObject
  <2>2. CASE purge' = NoPurge
    BY <1>1, <1>2, <2>1, <2>2, SessionsAssumption DEF NoPurge, RowsFit, ObjectsGone
  <2>3. ASSUME NEW s \in purge.todo, purge' = [at |-> s, todo |-> purge.todo \ {s}],
               bucket' = IF Deletes(s) THEN bucket \ {s} ELSE bucket
        PROVE  RowsFit' /\ ObjectsGone'
    BY <1>1, <1>2, <2>1, <2>3 DEF RowsFit, ObjectsGone, Deletes
  <2>4. ASSUME NEW s \in purge.todo, purge' = [purge EXCEPT !.todo = @ \ {s}]
        PROVE  RowsFit' /\ ObjectsGone'
    BY <1>1, <1>2, <2>1, <2>4, SessionsAssumption DEF RowsFit, ObjectsGone
  <2>5. QED BY <1>5, <2>2, <2>3, <2>4 DEF DeleteObject
<1>6. CASE MarkPurged
  <2>1. purge' = [purge EXCEPT !.at = "next"] /\ UNCHANGED bucket
    BY <1>6 DEF MarkPurged
  <2>2. \A t \in Sessions : /\ row'[t].at = row[t].at /\ row'[t].aged = row[t].aged
                            /\ row'[t].key => row[t].key
    BY <1>1, <1>6 DEF MarkPurged, Row
  <2>3. QED BY <1>1, <1>2, <2>1, <2>2, SessionsAssumption DEF RowsFit, ObjectsGone
<1>7. QED BY <1>3, <1>4, <1>5, <1>6 DEF PurgeStep

\* The broker reports a start and an end once, and never goes back on them.
LEMMA BrokerFits ==
    ASSUME RecordsInv, left'.storage = left.storage,
           \/ UNCHANGED terminalVars
           \/ \E s \in Sessions : Open(s) \/ OpenStep(s) \/ EndEvent(s) \/ ShellExits(s)
           \/ StartSweep \/ (\E c \in Containers : SweepContainer(c)) \/ BrokerRestarts
    PROVE  RowsFit' /\ ObjectsGone'
<1>1. RowsFit /\ ObjectsGone /\ SessionsFit
  BY DEF RecordsInv
<1>2. /\ ended \in [Sessions -> Ends]
      /\ started \in [Sessions -> {"none", "sent", "over"}]
      /\ row \in [Sessions -> Row] /\ pc \in [Sessions -> {"idle", "opening", "aborted", "attach", "live", "done"}]
  BY DEF RecordsInv, BrokerTypeOK, RecordsTypeOK, Ends
<1>3. SUFFICES
      /\ UNCHANGED <<row, bucket, purge>>
      /\ \A t \in Sessions : started'[t] = started[t] \/ started[t] = "none"
      /\ \A t \in Sessions : ended'[t].at = ended[t].at \/ (ended[t].at \in {"none", "upload"} /\ ended'[t].at # "found")
  BY <1>1, <1>2 DEF RowsFit, ObjectsGone
<1>4. CASE UNCHANGED terminalVars
  BY <1>4 DEF terminalVars, recordVars
<1>5. ASSUME NEW s \in Sessions, Open(s) \/ StartExec(s) \/ ShellExits(s)
      PROVE  UNCHANGED recordVars
  BY <1>5 DEF Open, StartExec, ShellExits
<1>6. ASSUME NEW s \in Sessions, BecomeLive(s)
      PROVE  /\ UNCHANGED <<row, bucket, purge, ended>> /\ started[s] = "none"
             /\ \A t \in Sessions \ {s} : started'[t] = started[t]
  BY <1>1, <1>2, <1>6 DEF BecomeLive, SendStart, SessionsFit
<1>7. ASSUME NEW s \in Sessions, EndEvent(s)
      PROVE  /\ UNCHANGED <<row, bucket, purge, started>>
             /\ \A t \in Sessions : ended'[t].at = ended[t].at \/ (ended[t].at = "none" /\ ended'[t].at = "upload")
  <2>1. /\ UNCHANGED <<row, bucket, purge, started>>
        /\ \E reason \in Reasons : Teardown(s, reason)
    BY <1>7 DEF EndEvent, ClientCloses, StreamCloses, Expire, Kill, Reasons
  <2>2. s \in live => ended[s].at = "none"
    BY <1>1 DEF SessionsFit
  <2>3. QED BY <1>2, <2>1, <2>2 DEF Teardown, SendEnd
<1>8. CASE StartSweep \/ \E c \in Containers : SweepContainer(c)
  BY <1>8 DEF StartSweep, SweepContainer, recordVars
<1>9. CASE BrokerRestarts
  BY <1>2, <1>9 DEF BrokerRestarts, Ends
<1>10. QED BY <1>4, <1>5, <1>6, <1>7, <1>8, <1>9 DEF OpenStep, recordVars

LEMMA RecordsInvStep ==
    ASSUME RecordsInv, [BrokerNext]_terminalVars
    PROVE  RecordsInv'
<1>1. (BrokerTypeOK /\ SessionsFit)'
  BY BrokerNextTyped, SessionsFitStep DEF RecordsInv
<1>2. RowsFit' /\ ObjectsGone'
  <2>1. left'.storage = left.storage
    BY StorageStays DEF RecordsInv
  <2>2. QED BY <2>1, BrokerFits, ReportFits, RetentionFits DEF BrokerNext
<1>3. QED BY <1>1, <1>2 DEF RecordsInv

\* For any sessions and any failures, and with a storage configured on the
\* backend, a row gives the key of its recording up only when the object is
\* gone: nothing but the sweep takes a key back, the sweep deleted the object
\* before, and no late upload brings it back.
THEOREM PointersLast == BrokerSpec => PointerLast
<1>1. BrokerInit => RecordsInv
  <2> SUFFICES ASSUME BrokerInit PROVE RowsFit /\ ObjectsGone
    BY BrokerInitFits DEF RecordsInv
  <2>1. QED BY SessionsAssumption DEF BrokerInit, RecordsInit, RowsFit, ObjectsGone, NoRow, NoEnd, NoPurge
<1>2. RecordsInv /\ [BrokerNext]_terminalVars => RecordsInv'
  BY RecordsInvStep
<1>3. ASSUME RecordsInv, BrokerNext, NEW s \in Sessions, "backend" \in left.storage, row[s].key, ~row'[s].key
      PROVE  s \notin bucket'
  <2>1. row[s].at = "closed" /\ started[s] = "over" /\ ended[s].at = "over"
    BY <1>3 DEF RecordsInv, RowsFit
  <2>2. row \in [Sessions -> Row]
    BY <1>3 DEF RecordsInv, BrokerTypeOK, RecordsTypeOK
  <2>3. row' # row
    BY <1>3
  <2>4. \A t \in Sessions : ~ReportStep(t)
    BY <1>3, <2>1, <2>2 DEF ReportStep, RecordStart, Upload, FindRow, RecordEnd
  <2>5. \A t \in Sessions : ~Age(t) /\ ~Hold(t)
    BY <1>3, <2>2 DEF Age, Hold, Row
  <2>6. MarkPurged
    BY <1>3, <2>3, <2>4, <2>5 DEF BrokerNext, Open, OpenStep, StartExec, BecomeLive, EndEvent, ClientCloses,
       StreamCloses, Expire, Kill, ShellExits, StartSweep, SweepContainer, BrokerRestarts,
       PurgeStep, ListExpired, DeleteObject, recordVars
  <2>7. purge.at = s /\ bucket' = bucket
    BY <1>3, <2>2, <2>6 DEF MarkPurged
  <2>8. QED BY <1>3, <2>7 DEF RecordsInv, ObjectsGone
<1>4. RecordsInv /\ [BrokerNext]_terminalVars
         => [\A s \in Sessions :
                "backend" \in left.storage /\ row[s].key /\ ~row'[s].key => s \notin bucket']_terminalVars
  BY <1>3 DEF terminalVars, recordVars
<1>5. QED BY <1>1, <1>2, <1>4, PTL DEF BrokerSpec, PointerLast
=============================================================================
