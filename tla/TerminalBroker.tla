---------------------------- MODULE TerminalBroker ----------------------------
(* The terminal broker (broker/index.js, lib/exec.js, lib/reaper.js): the    *)
(* slots of the SessionManager with their timers, the opening of a shell in  *)
(* a container, the end of a session by whichever event comes first, and the *)
(* reaper of shells that outlive their session.  Its reports feed            *)
(* TerminalRecords.                                                          *)
EXTENDS TerminalRecords

CONSTANTS
    Accounts, AccountOf,
    Containers, ContainerOf,
    PerAccount, GlobalMax       \* TERMINAL_MAX_PER_ACCOUNT, TERMINAL_MAX_GLOBAL

ASSUME BrokerAssumption ==
    /\ AccountOf \in [Sessions -> Accounts]
    /\ ContainerOf \in [Sessions -> Containers]
    /\ PerAccount \in Nat \ {0} /\ GlobalMax \in Nat \ {0}

VARIABLES
    pc,         \* pc[s]: how far the opening of a session is
    slot,       \* SessionManager.sessions: the sessions that count, with their timers
    live,       \* liveSockets
    shell,      \* shell[s]: the marked process in the container
    used,       \* containersEverUsed
    reaper,     \* the sweep under way: containers left, live sessions when it began
    late,       \* sessions whose timer ran out before they were live (history)
    ends        \* ends[s]: end reports sent for a session (history)

brokerVars == <<pc, slot, live, shell, used, reaper, late, ends>>
terminalVars == <<recordVars, left, brokerVars>>

NoReaper == [todo |-> {}, alive |-> {}]

BrokerTypeOK ==
    /\ RecordsTypeOK
    /\ pc \in [Sessions -> {"idle", "opening", "aborted", "attach", "live", "done"}]
    /\ slot \subseteq Sessions /\ live \subseteq Sessions /\ late \subseteq Sessions
    /\ shell \in [Sessions -> {"none", "running", "dead"}]
    /\ used \subseteq Containers
    /\ reaper \in [todo : SUBSET Containers, alive : SUBSET Sessions]
    /\ ends \in [Sessions -> 0 .. 2]

BrokerInit ==
    /\ RecordsInit
    /\ pc = [s \in Sessions |-> "idle"]
    /\ slot = {} /\ live = {} /\ late = {}
    /\ shell = [s \in Sessions |-> "none"]
    /\ used = {}
    /\ reaper = NoReaper
    /\ ends = [s \in Sessions |-> 0]

Moves(s, at) == pc' = [pc EXCEPT ![s] = at]
Held(a) == {s \in slot : AccountOf[s] = a}

----------------------------------------------------------------------------
(* Opening a session *)

\* Mutant: the account's sessions are counted once they are live.
BugMayOpen(s) ==
    Cardinality(slot) < GlobalMax /\ Cardinality({t \in live : AccountOf[t] = AccountOf[s]}) < PerAccount

MayOpen(s) == Cardinality(slot) < GlobalMax /\ Cardinality(Held(AccountOf[s])) < PerAccount

\* A ticket is consumed, the backend connects to /exec, the broker resolves the
\* container and SessionManager.open arms the timers.  The handshake of a
\* connection that is gone by then never calls back.
Open(s) ==
    /\ pc[s] = "idle" /\ s \in left.who
    /\ IF MayOpen(s)
       THEN slot' = slot \cup {s} /\ \E at \in {"opening", "aborted"} : Moves(s, at)
       ELSE slot' = slot /\ Moves(s, "done")
    /\ UNCHANGED <<recordVars, left, live, shell, used, reaper, late, ends>>

\* The exec is created and started: Docker runs the shell, then answers.  When
\* a request fails, or its answer is lost with the shell running, the slot is
\* given back; the container is not noted in either case.
StartExec(s) ==
    /\ pc[s] = "opening"
    /\ \/ Moves(s, "attach") /\ shell' = [shell EXCEPT ![s] = "running"] /\ UNCHANGED <<slot, left>>
       \/ /\ Mishap /\ slot' = slot \ {s} /\ Moves(s, "done")
          /\ \E after \in {"none", "running"} : shell' = [shell EXCEPT ![s] = after]
    /\ UNCHANGED <<recordVars, live, used, reaper, late, ends>>

\* The session becomes live, whether or not it still has its slot.
BecomeLive(s) ==
    /\ pc[s] = "attach"
    /\ Moves(s, "live")
    /\ live' = live \cup {s}
    /\ used' = used \cup {ContainerOf[s]}
    /\ SendStart(s)
    /\ UNCHANGED <<row, bucket, ended, purge, left, slot, shell, reaper, late, ends>>

----------------------------------------------------------------------------
(* The end of a session *)

\* Mutant: an ended session is left in liveSockets.
BugForget(s) == live' = live

Forget(s) == live' = live \ {s}

\* Whichever event comes first reports the end; for the others the session is
\* no longer in liveSockets.  The stream is cut, the shell may go on.
Teardown(s, reason) ==
    /\ slot' = slot \ {s}
    /\ IF s \in live
       THEN /\ Forget(s)
            /\ SendEnd(s, reason)
            /\ ends' = [ends EXCEPT ![s] = @ + 1]
            /\ Moves(s, "done")
       ELSE UNCHANGED <<live, ended, ends, pc>>

\* A close event that fires before the session is live has no listener, and
\* the session goes on without its client.
ClientCloses(s) ==
    /\ s \in live
    /\ Teardown(s, "client_closed")
    /\ UNCHANGED <<row, bucket, started, purge, left, shell, used, reaper, late>>

ShellExits(s) ==
    /\ shell[s] = "running"
    /\ shell' = [shell EXCEPT ![s] = "dead"]
    /\ UNCHANGED <<recordVars, left, pc, slot, live, used, reaper, late, ends>>

\* The stream ends with its shell, or breaks while the shell goes on.
StreamCloses(s) ==
    /\ s \in live
    /\ \/ shell[s] = "dead" /\ Teardown(s, "shell_exited") /\ UNCHANGED left
       \/ shell[s] = "running" /\ Mishap /\ Teardown(s, "stream_error")
    /\ UNCHANGED <<row, bucket, started, purge, shell, used, reaper, late>>

\* Mutant: a timer that finds no live session does nothing.
BugExpire(s) ==
    /\ s \in slot /\ s \in live
    /\ Teardown(s, "timeout")
    /\ UNCHANGED <<row, bucket, started, purge, left, shell, used, reaper, late>>

\* The idle or the absolute timer runs out.
Expire(s) ==
    /\ s \in slot
    /\ Teardown(s, "timeout")
    /\ late' = IF s \in live \/ pc[s] = "aborted" THEN late ELSE late \cup {s}
    /\ UNCHANGED <<row, bucket, started, purge, left, shell, used, reaper>>

\* POST /api/admin/terminal/:sessionId/kill, for a session with an open row.
Kill(s) ==
    /\ row[s].at = "open" /\ s \in live
    /\ Teardown(s, "admin_killed")
    /\ UNCHANGED <<row, bucket, started, purge, left, shell, used, reaper, late>>

----------------------------------------------------------------------------
(* The reaper, and a crash *)

\* A sweep notes the live sessions once, then visits container after container.
StartSweep ==
    /\ reaper.todo = {} /\ used # {}
    /\ \E s \in Sessions : shell[s] = "running"
    /\ reaper' = [todo |-> used, alive |-> live]
    /\ UNCHANGED <<recordVars, left, pc, slot, live, shell, used, late, ends>>

\* Mutant: the sweep spares every session that once was live.
BugSpared(s) == started[s] # "none"

Spared(s) == s \in reaper.alive

SweepContainer(c) ==
    /\ c \in reaper.todo
    /\ \/ /\ shell' = [s \in Sessions |->
                IF shell[s] = "running" /\ ContainerOf[s] = c /\ ~Spared(s) THEN "dead" ELSE shell[s]]
          /\ UNCHANGED left
       \/ Mishap /\ UNCHANGED shell
    /\ reaper' = IF reaper.todo = {c} THEN NoReaper ELSE [reaper EXCEPT !.todo = @ \ {c}]
    /\ UNCHANGED <<recordVars, pc, slot, live, used, late, ends>>

\* The broker restarts with empty memory; the shells are the containers'.
\* Uploads and reports it had not sent are lost.
BrokerRestarts ==
    /\ Mishap
    /\ pc' = [s \in Sessions |-> IF pc[s] = "idle" THEN "idle" ELSE "done"]
    /\ slot' = {} /\ live' = {} /\ used' = {}
    /\ reaper' = NoReaper
    /\ ended' = [s \in Sessions |-> IF ended[s].at = "upload" THEN [ended[s] EXCEPT !.at = "over"] ELSE ended[s]]
    /\ UNCHANGED <<row, bucket, started, purge, shell, late, ends>>

----------------------------------------------------------------------------

OpenStep(s) == StartExec(s) \/ BecomeLive(s)
EndEvent(s) == ClientCloses(s) \/ StreamCloses(s) \/ Expire(s) \/ Kill(s)

BrokerNext ==
    \/ \E s \in Sessions :
          \/ Open(s) \/ OpenStep(s) \/ EndEvent(s) \/ ShellExits(s)
          \/ (ReportStep(s) \/ Age(s) \/ Hold(s)) /\ UNCHANGED brokerVars
    \/ StartSweep \/ \E c \in Containers : SweepContainer(c)
    \/ PurgeStep /\ UNCHANGED brokerVars
    \/ BrokerRestarts

\* Docker answers; timers run out; the reaper's and the retention sweep's
\* intervals come round.  Nobody has to connect, close or exit.
Fairness ==
    /\ \A s \in Sessions : WF_terminalVars(OpenStep(s)) /\ WF_terminalVars(Expire(s)) /\ WF_terminalVars(StreamCloses(s))
    /\ \A s \in Sessions : WF_terminalVars(ReportStep(s) /\ UNCHANGED brokerVars)
    /\ WF_terminalVars(StartSweep) /\ \A c \in Containers : WF_terminalVars(SweepContainer(c))
    /\ WF_terminalVars(PurgeStep /\ UNCHANGED brokerVars)

BrokerSpec == BrokerInit /\ [][BrokerNext]_terminalVars /\ Fairness

----------------------------------------------------------------------------
(* Properties *)

\* The shells bridged at one time respect both caps, as long as no opening
\* outlasts the timers that were armed before it.
CapsHeld ==
    late = {} =>
       /\ Cardinality(live) <= GlobalMax
       /\ \A a \in Accounts : Cardinality({s \in live : AccountOf[s] = a}) <= PerAccount

\* A session's end is reported once, whatever mixture of close events, timers
\* and kills it meets.
OneEnd == \A s \in Sessions : ends[s] <= 1

\* A slot is always given back: also that of a client that left during the
\* handshake or the opening, whose close event nobody hears.
SlotsReturn == \A s \in Sessions : (s \in slot) ~> (s \notin slot)

\* A shell that outlives its session, or whose start was answered by an error,
\* is killed once a session was live in its container, unless the broker
\* restarts and no longer knows the container.  A shell in a container where
\* none was live since the start stays.
OrphansReaped ==
    \A s \in Sessions :
       (pc[s] = "done" /\ shell[s] = "running" /\ ContainerOf[s] \in used)
          ~> (shell[s] = "dead" \/ ContainerOf[s] \notin used)

\* The row of a session whose retention is over is marked purged, whatever
\* requests failed in between, unless it is put on hold: as long as the rows
\* waiting for it, open ones included, fit in the page a sweep lists.  Of more,
\* the sweep takes any page and may never see the expired row.
ExpiredPurged ==
    <>[](Cardinality(Unpurged) <= PageSize) =>
       \A s \in Sessions : row[s].aged ~> (row[s].purged \/ row[s].tier = "legal_hold")

\* A row gives its recording's key up only once the object is gone, whichever
\* of the sweep's requests fail and whatever else is written to the row: if
\* the backend has a storage configured.  Without one it clears the key of an
\* object it has not deleted.  An object stored by an upload that was reported
\* failed never had a key.
PointerLast ==
    [][\A s \in Sessions :
          "backend" \in left.storage /\ row[s].key /\ ~row'[s].key => s \notin bucket']_terminalVars

\* reaper.js: a marked process whose session is not live is "left over from a
\* session that has already ended".  The set of live sessions the sweep goes by
\* is the one it began with, and a session on its way in is not in it.
ReapsOnlyEnded ==
    [][\A s \in Sessions, c \in Containers :
          SweepContainer(c) /\ shell[s] = "running" /\ pc[s] # "done" => shell'[s] = "running"]_terminalVars
-----------------------------------------------------------------------------
(* Why CapsHeld, OneEnd and PointerLast hold: inductive strengthenings       *)

\* A session is live once and ends once: before it is live nothing was
\* reported, and an end report takes it out of liveSockets for good.
SessionsFit ==
    \A s \in Sessions :
       /\ s \in live <=> pc[s] = "live"
       /\ pc[s] # "done" => ends[s] = 0 /\ ended[s].at = "none"
       /\ ends[s] <= 1
       /\ pc[s] \notin {"live", "done"} => started[s] = "none"

\* Every slot was within the caps when it was taken.
SlotsFit ==
    /\ IsFiniteSet(slot)
    /\ Cardinality(slot) <= GlobalMax
    /\ \A a \in Accounts : Cardinality(Held(a)) <= PerAccount

\* A session keeps its slot till it is over, unless its timer came too early.
SlotsKept == late = {} => \A s \in Sessions : pc[s] \in {"opening", "attach", "live"} => s \in slot

\* The row follows the reports: open after the start, closed after the end,
\* and only a closed one has a recording or is ever purged.
RowsFit ==
    \A s \in Sessions :
       /\ row[s].at # "absent" => started[s] = "over"
       /\ ended[s].at = "found" => row[s].at = "open"
       /\ row[s].at = "closed" => ended[s].at = "over"
       /\ row[s].key \/ row[s].aged => row[s].at = "closed"
       /\ s \in purge.todo \/ purge.at = s => row[s].at = "closed"

\* The row whose pointer the sweep gives up next has no object any more, if
\* the backend has a storage.
ObjectsGone == \A s \in Sessions : "backend" \in left.storage /\ purge.at = s /\ row[s].key => s \notin bucket

CapsInv == BrokerTypeOK /\ SessionsFit /\ SlotsFit /\ SlotsKept
RecordsInv == BrokerTypeOK /\ SessionsFit /\ RowsFit /\ ObjectsGone
=============================================================================
