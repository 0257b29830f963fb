-------------------------- MODULE MCTerminalBroker --------------------------
(* Two sessions of one account, in one container. *)
EXTENDS TerminalBroker

CONSTANTS s1, s2, a, c

MCAccountOf == [s \in Sessions |-> a]
\* Two sessions race for slots and end as they may, and one row ages; or one
\* session meets failures, retention and a hold, with both storages, or with
\* the backend's missing.
MCScenarios ==
    {[who |-> {s1, s2}, mishaps |-> 0, aged |-> 1, holds |-> 0, storage |-> {"broker", "backend"}],
     [who |-> {s1}, mishaps |-> 1, aged |-> 1, holds |-> 1, storage |-> {"broker", "backend"}],
     [who |-> {s1}, mishaps |-> 0, aged |-> 1, holds |-> 0, storage |-> {"broker"}],
     [who |-> {s1}, mishaps |-> 0, aged |-> 1, holds |-> 0, storage |-> {"backend"}]}
MCContainerOf == [s \in Sessions |-> c]
=============================================================================
