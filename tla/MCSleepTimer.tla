---------------------------- MODULE MCSleepTimer ----------------------------
(***************************************************************************)
(* SleepTimer for TLC: a timer that expires once, and a periodic one that  *)
(* is started with a short period or with a long one in milliseconds.      *)
(***************************************************************************)
EXTENDS SleepTimer

CONSTANTS alarm, beat

AllTimers == {alarm, beat}
Priorities == [t \in AllTimers |-> IF t = alarm THEN 0 ELSE 1]
SomeRequests ==
  [t \in AllTimers |->
     IF t = alarm THEN [timeout : {1, 5}, period : {0}, error : {0}]
     ELSE {[timeout |-> 2, period |-> 2, error |-> 0],
           [timeout |-> 7, period |-> 7, error |-> 500]}]

OnlyBeat == {beat}
ShortRequests == [t \in OnlyBeat |-> {[timeout |-> 4, period |-> 4, error |-> 500]}]
BeatPriority == [t \in OnlyBeat |-> 0]
=============================================================================
