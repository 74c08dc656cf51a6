--------------------------- MODULE MCGroupProcessor ---------------------------
(***************************************************************************)
(* Small instances of GroupProcessor: two channels, captures of up to two  *)
(* packets with ties between the channels, and auto-pause files in and out *)
(* of order, dated and undated.                                            *)
(***************************************************************************)
EXTENDS GroupRefinement

(* A capture stamps every packet, but never with a year. *)
CaptureTime(min) == [NoTime EXCEPT !.m = 3, !.d = 1, !.hh = 9, !.mm = min, !.ss = 0, !.ms = 0]

(* A line "09:min" of the auto-pause file; seconds left out are read as 0. *)
PauseTime(min) == [NoTime EXCEPT !.hh = 9, !.mm = min, !.ss = 0, !.ms = 0]

(* A line "2012/month/1 09:min". *)
DatedPause(month, min) == [PauseTime(min) EXCEPT !.y = 2012, !.m = month, !.d = 1]

Pkt(min, size) == [time |-> CaptureTime(min), size |-> size]

Capture(packets, end) == [packets |-> packets, end |-> end]

ScenarioOf(first, second, pauseList) == [files |-> <<first, second>>, pauses |-> pauseList]

(* Packets that tie within and across channels, and one that is alone. *)
CaptureA == Capture(<<Pkt(2, 1), Pkt(3, 2)>>, "eof")
CaptureB == Capture(<<Pkt(1, 1), Pkt(3, 1)>>, "eof")
CaptureC == Capture(<<Pkt(3, 2), Pkt(3, 1)>>, "eof")

(* Captures over several days, and a pause that is dated to none of them: the *)
(* packet of the second day is earlier in the day than the pause.             *)
OnDay(d, hour) == [time |-> [CaptureTime(0) EXCEPT !.d = d, !.hh = hour], size |-> 1]

SeveralDays ==
    ScenarioOf(Capture(<<OnDay(1, 12), OnDay(3, 12)>>, "eof"),
               Capture(<<OnDay(2, 8)>>, "eof"), <<PauseTime(1)>>)

SoundScenarios ==
    {ScenarioOf(CaptureA, CaptureB, p) :
        p \in {<<>>, <<PauseTime(1)>>, <<PauseTime(2), PauseTime(1)>>}}
    \cup {ScenarioOf(CaptureC, CaptureA, <<PauseTime(2), PauseTime(2)>>),
          ScenarioOf(CaptureB, CaptureC, <<DatedPause(3, 2), DatedPause(2, 5)>>),
          SeveralDays}

(* Faults: a capture damaged at its end, an empty one, an empty packet, a     *)
(* missing file, and options without a channel.                               *)
FaultyScenarios ==
    {ScenarioOf(CaptureA, f, <<PauseTime(2)>>) :
        f \in {Capture(<<Pkt(1, 1)>>, "error"),
               Capture(<<>>, "eof"),
               Capture(<<Pkt(1, 1), Pkt(1, 0)>>, "eof"),
               Capture(<<Pkt(1, 1)>>, "missing")}}
    \cup {ScenarioOf(Capture(<<>>, "none"), Capture(<<>>, "none"), <<>>)}

AllScenarios == SoundScenarios \cup FaultyScenarios

(* Dated and undated pauses in one file, which README 1.3 allows. *)
MixedScenarios == {ScenarioOf(CaptureA, CaptureB, <<DatedPause(4, 1), PauseTime(2)>>)}

ClockScenarios == {ScenarioOf(CaptureA, Capture(<<Pkt(1, 1)>>, "eof"), <<PauseTime(2)>>)}

PlaybackScenarios == AllScenarios \cup ClockScenarios

(* The messages the App really sends to a group. *)
AppMessages == {"TogglePause", "ThreadDie", "Restart", "RequestBoth"}

(* Where the clock moves, all the messages a group handles. *)
SomeMessages == [s \in Scenarios |-> IF s \in ClockScenarios THEN OobMessage ELSE AppMessages]

ThreePushes == [s \in Scenarios |-> IF s \in ClockScenarios THEN 2 ELSE 3]

TwoPushes == [s \in Scenarios |-> 2]

ThreeTicks == [s \in Scenarios |-> IF s \in ClockScenarios THEN 3 ELSE 0]

NoTicks == [s \in Scenarios |-> 0]
=============================================================================
