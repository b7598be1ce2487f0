----------------------------- MODULE HourlyFeed -----------------------------
(***************************************************************************)
(* What a worker promises of the costs it simulates, with no cycles, tasks,  *)
(* failures or processes in sight.                                          *)
(*                                                                         *)
(* A collector's records grow by whole intervals of hours that are over.    *)
(* Each interval begins at the hour the one before it ended with, so that   *)
(* none is skipped, is entered for every profile at once, and covers no     *)
(* more hours than a cycle may. Nothing entered is ever removed and the     *)
(* watermark, the last hour entered, never moves back. Worker.tla is the    *)
(* program's way of keeping that promise.                                   *)
(***************************************************************************)
EXTENDS Integers

CONSTANTS Collectors, Profiles,
          Hour,          \* parts of an hour
          Instants,      \* the instants there are, in the same unit
          MostHours,     \* hours one report may cover
          NoMark         \* nothing has been reported yet

VARIABLES now, stored, mark

vars == <<now, stored, mark>>

\* The hours of an interval, the last one included.
Interval(from, to) == {b \in from..to : b % Hour = 0}

Init ==
    /\ now = 0
    /\ stored = [c \in Collectors |-> {}]
    /\ mark = [c \in Collectors |-> NoMark]

Tick ==
    /\ now' = now + 1
    /\ UNCHANGED <<stored, mark>>

Report(c, from, to) ==
    /\ mark[c] \in {from, NoMark}
    /\ {from, to} \subseteq Interval(from, to) /\ to + Hour <= now
    /\ to - from < MostHours * Hour
    /\ stored' = [stored EXCEPT ![c] = @ \cup (Profiles \X Interval(from, to))]
    /\ mark' = [mark EXCEPT ![c] = to]
    /\ UNCHANGED now

Next == Tick \/ \E c \in Collectors : \E from, to \in Instants : Report(c, from, to)

Spec == Init /\ [][Next]_vars
=============================================================================
