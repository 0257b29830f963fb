--------------------------- MODULE TerminalRecords ---------------------------
(* What is kept of developer terminal sessions: the Terminal Session rows    *)
(* the backend writes from the broker's reports (internalRoutes.js), the     *)
(* recordings in the bucket, and the sweep that purges the expired ones      *)
(* (terminal/retention.js, retentionSweep.js).                               *)
(*                                                                           *)
(* A session's start and its end are reported by two independent requests    *)
(* that nobody awaits: either may fail, and the end may overtake the start.  *)
EXTENDS Integers, FiniteSets

CONSTANTS
    Sessions,
    PageSize,       \* how many rows one sweep lists
    Scenarios       \* what may happen in one behaviour: who connects, how many
                    \* requests fail, rows age and rows are put on hold, and
                    \* which of the two processes has a storage configured

ASSUME PageAssumption == PageSize \in Nat \ {0}

ASSUME SessionsAssumption == "idle" \notin Sessions /\ "next" \notin Sessions

ASSUME ScenariosAssumption ==
    Scenarios \subseteq
        [who : SUBSET Sessions, mishaps : Nat, aged : Nat, holds : Nat, storage : SUBSET {"broker", "backend"}]

VARIABLES
    row,        \* row[s]: the Terminal Session row
    bucket,     \* the sessions with a recording in off-box storage
    started,    \* started[s]: the start report
    ended,      \* ended[s]: the end report, with the exit reason and whether it has a recording
    purge,      \* the retention sweep: the rows it listed, and the one it is on
    left        \* what is left of the scenario

recordVars == <<row, bucket, started, ended, purge>>

Tiers == {"none", "routine", "flagged", "legal_hold"}
Reasons == {"none", "client_closed", "shell_exited", "stream_error", "timeout", "admin_killed"}
AutoFlagged == {"stream_error", "admin_killed"}

Row == [at : {"absent", "open", "closed"}, tier : Tiers, aged : BOOLEAN, key : BOOLEAN, purged : BOOLEAN]
NoRow == [at |-> "absent", tier |-> "none", aged |-> FALSE, key |-> FALSE, purged |-> FALSE]

NoEnd == [at |-> "none", reason |-> "none", key |-> FALSE]
NoPurge == [at |-> "idle", todo |-> {}]

RecordsTypeOK ==
    /\ row \in [Sessions -> Row]
    /\ bucket \subseteq Sessions
    /\ started \in [Sessions -> {"none", "sent", "over"}]
    /\ ended \in [Sessions -> [at : {"none", "upload", "sent", "found", "over"}, reason : Reasons, key : BOOLEAN]]
    /\ purge \in [at : {"idle", "next"} \cup Sessions, todo : SUBSET Sessions]
    /\ left \in [who : SUBSET Sessions, mishaps : Nat, aged : Nat, holds : Nat,
                 storage : SUBSET {"broker", "backend"}]

RecordsInit ==
    /\ row = [s \in Sessions |-> NoRow]
    /\ bucket = {}
    /\ started = [s \in Sessions |-> "none"]
    /\ ended = [s \in Sessions |-> NoEnd]
    /\ purge = NoPurge
    /\ left \in Scenarios

\* A request fails, or the broker crashes.
Mishap == left.mishaps > 0 /\ left' = [left EXCEPT !.mishaps = @ - 1]

----------------------------------------------------------------------------
(* Reports *)

SendStart(s) == started' = [started EXCEPT ![s] = "sent"]
SendEnd(s, reason) == ended' = [ended EXCEPT ![s] = [at |-> "upload", reason |-> reason, key |-> FALSE]]

\* POST /api/internal/terminal/sessions/start
RecordStart(s) ==
    /\ started[s] = "sent"
    /\ started' = [started EXCEPT ![s] = "over"]
    /\ \/ row' = [row EXCEPT ![s] = [NoRow EXCEPT !.at = "open"]] /\ UNCHANGED left
       \/ Mishap /\ UNCHANGED row
    /\ UNCHANGED <<bucket, ended, purge>>

\* The recording (a shell at least prompts) is uploaded first, if the broker
\* has a storage.  When that throws, with or without the object stored, the
\* report carries no key.
Upload(s) ==
    /\ ended[s].at = "upload"
    /\ \/ /\ "broker" \notin left.storage
          /\ ended' = [ended EXCEPT ![s].at = "sent"]
          /\ UNCHANGED <<bucket, left>>
       \/ /\ "broker" \in left.storage
          /\ bucket' = bucket \cup {s}
          /\ ended' = [ended EXCEPT ![s].at = "sent", ![s].key = TRUE]
          /\ UNCHANGED left
       \/ /\ "broker" \in left.storage /\ Mishap
          /\ ended' = [ended EXCEPT ![s].at = "sent"]
          /\ bucket' \in {bucket, bucket \cup {s}}
    /\ UNCHANGED <<row, started, purge>>

\* POST /api/internal/terminal/sessions/end looks the row up ...
FindRow(s) ==
    /\ ended[s].at = "sent"
    /\ \/ ended' = [ended EXCEPT ![s].at = IF row[s].at = "absent" THEN "over" ELSE "found"] /\ UNCHANGED left
       \/ Mishap /\ ended' = [ended EXCEPT ![s].at = "over"]
    /\ UNCHANGED <<row, bucket, started, purge>>

TierOf(reason) == IF reason \in AutoFlagged THEN "flagged" ELSE "routine"

\* ... and writes the outcome, with the retention tier of the exit reason.
RecordEnd(s) ==
    /\ ended[s].at = "found"
    /\ ended' = [ended EXCEPT ![s].at = "over"]
    /\ \/ /\ row' = [row EXCEPT ![s].at = "closed", ![s].tier = TierOf(ended[s].reason), ![s].key = ended[s].key]
          /\ UNCHANGED left
       \/ Mishap /\ UNCHANGED row
    /\ UNCHANGED <<bucket, started, purge>>

----------------------------------------------------------------------------
(* Retention *)

\* The 30 or 90 days counted from the session's start are over.
Age(s) ==
    /\ left.aged > 0 /\ left' = [left EXCEPT !.aged = @ - 1]
    /\ row[s].at = "closed" /\ ~row[s].aged
    /\ row' = [row EXCEPT ![s].aged = TRUE]
    /\ UNCHANGED <<bucket, started, ended, purge>>

\* Staff put a row on legal hold.
Hold(s) ==
    /\ left.holds > 0 /\ left' = [left EXCEPT !.holds = @ - 1]
    /\ row[s].at # "absent" /\ row[s].tier # "legal_hold"
    /\ row' = [row EXCEPT ![s].tier = "legal_hold"]
    /\ UNCHANGED <<bucket, started, ended, purge>>

\* Mutant: flagged recordings are never listed.
BugIsExpired(s) == row[s].aged /\ ~row[s].purged /\ row[s].tier = "routine"
IsExpired(s) == row[s].aged /\ ~row[s].purged /\ row[s].tier # "legal_hold"

\* What the sweep asks for: open rows too, in no order.
Unpurged == {s \in Sessions : row[s].at # "absent" /\ ~row[s].purged /\ row[s].tier # "legal_hold"}

\* One page of them; which of the listed rows are expired is asked afterwards.
ListExpired ==
    /\ purge.at = "idle" /\ Unpurged # {}
    /\ \E page \in SUBSET Unpurged :
          /\ Cardinality(page) <= PageSize
          /\ page = Unpurged \/ Cardinality(page) = PageSize
          /\ purge' = [at |-> "next", todo |-> {s \in page : IsExpired(s)}]
    /\ UNCHANGED <<row, bucket, started, ended, left>>

\* Without a storage of its own the backend deletes nothing.
Deletes(s) == row[s].key /\ "backend" \in left.storage

\* Mutant: an object that could not be deleted is marked all the same.
BugDeleteObject ==
    /\ purge.at = "next"
    /\ \/ purge.todo = {} /\ purge' = NoPurge /\ UNCHANGED <<bucket, left>>
       \/ \E s \in purge.todo :
             /\ purge' = [at |-> s, todo |-> purge.todo \ {s}]
             /\ \/ bucket' = (IF Deletes(s) THEN bucket \ {s} ELSE bucket) /\ UNCHANGED left
                \/ Deletes(s) /\ Mishap /\ bucket' \in {bucket, bucket \ {s}}
    /\ UNCHANGED <<row, started, ended>>

\* First the object, then the pointer to it.
DeleteObject ==
    /\ purge.at = "next"
    /\ \/ purge.todo = {} /\ purge' = NoPurge /\ UNCHANGED <<bucket, left>>
       \/ \E s \in purge.todo :
             \/ /\ bucket' = IF Deletes(s) THEN bucket \ {s} ELSE bucket
                /\ purge' = [at |-> s, todo |-> purge.todo \ {s}]
                /\ UNCHANGED left
             \/ /\ Deletes(s) /\ Mishap
                /\ bucket' \in {bucket, bucket \ {s}}
                /\ purge' = [purge EXCEPT !.todo = @ \ {s}]
    /\ UNCHANGED <<row, started, ended>>

MarkPurged ==
    /\ purge.at \in Sessions
    /\ purge' = [purge EXCEPT !.at = "next"]
    /\ \/ row' = [row EXCEPT ![purge.at].purged = TRUE, ![purge.at].key = FALSE] /\ UNCHANGED left
       \/ Mishap /\ UNCHANGED row
    /\ UNCHANGED <<bucket, started, ended>>

ReportStep(s) == RecordStart(s) \/ Upload(s) \/ FindRow(s) \/ RecordEnd(s)
PurgeStep == ListExpired \/ DeleteObject \/ MarkPurged
=============================================================================
