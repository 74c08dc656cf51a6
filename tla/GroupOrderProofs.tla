--------------------------- MODULE GroupOrderProofs ---------------------------
(***************************************************************************)
(* The order of what a playback thread sends, for any number of channels,  *)
(* any captures and pauses, and any messages of the App: packets by time,  *)
(* no pause passed by, no announcement that turns out to be wrong, and the *)
(* pauses of a sorted file in the order of the file.                       *)
(***************************************************************************)
EXTENDS GroupProcessorProofs

USE ConstantsAssumption

-----------------------------------------------------------------------------
LEMMA NoLessSelf == ASSUME NEW a PROVE ~Less(a, a)
BY DEF Less, Decides

(* Stamps of captures, and those of pauses.  A comparison that looks at the  *)
(* members F only is the comparison of what F leaves of the stamps.          *)
Project(t, F) == [f \in Field |-> IF f \in F THEN t[f] ELSE Missing]

LEMMA ProjectLess ==
    ASSUME NEW a \in PacketTimes, NEW b \in PacketTimes, NEW F \in SUBSET Field,
           \A f \in F : Has(a, f) /\ Has(b, f),
           \A f \in Field \ F : ~Decides(f, a, b)
    PROVE  Less(a, b) <=> Less(Project(a, F), Project(b, F))
<1> DEFINE p == Project(a, F)
           q == Project(b, F)
<1>1. \A f \in Field : /\ Decides(f, p, q) <=> Decides(f, a, b)
                       /\ Decides(f, a, b) => p[f] = a[f] /\ q[f] = b[f]
  BY DEF Project, Decides, Has, Missing
<1> HIDE DEF p, q
<1> QED BY <1>1 DEF Less, p, q

LEMMA ProjectType ==
    ASSUME NEW a \in PacketTimes, NEW F \in SUBSET Field, \A f \in F : Has(a, f)
    PROVE  Project(a, F) \in PacketTimes /\ Shape(Project(a, F)) = F \cap Optional
BY DEF Project, PacketTimes, Shape, Stamp, Has, Missing, Optional, Field

(* On stamps compared by the same members "not before" is transitive. *)
LEMMA NotLessTransitive ==
    ASSUME NEW a \in PacketTimes, NEW b \in PacketTimes, NEW c \in PacketTimes,
           NEW F \in SUBSET Field,
           \A f \in F : Has(a, f) /\ Has(b, f) /\ Has(c, f),
           \A f \in Field \ F : ~Decides(f, a, b) /\ ~Decides(f, b, c) /\ ~Decides(f, a, c),
           ~Less(a, b), ~Less(b, c)
    PROVE  ~Less(a, c)
<1>1. \A t \in {a, b, c} : /\ Project(t, F) \in PacketTimes
                           /\ Shape(Project(t, F)) = F \cap Optional
  BY ProjectType
<1>2. ~Less(Project(a, F), Project(b, F)) /\ ~Less(Project(b, F), Project(c, F))
  BY ProjectLess
<1>3. ~Less(Project(a, F), Project(c, F))
  BY <1>1, <1>2, SameShapeOrdered
<1> QED BY <1>3, ProjectLess

LEMMA NoTimeType == NoTime \in PacketTimes
BY DEF NoTime, PacketTimes, Stamp, Field, Missing

(* Every stamp with a time of day is after the one nobody filled in. *)
LEMMA NoTimeFirst ==
    ASSUME NEW t \in PacketTimes
    PROVE  /\ ~Less(t, NoTime)
           /\ t \in CaptureTimes => Less(NoTime, t)
<1>1. \A f \in Field : NoTime[f] = -1
  BY DEF NoTime, Field
<1>2. \A f \in Field : t[f] \in Nat \cup {-1}
  BY DEF PacketTimes, Stamp, Missing
<1>3. ~Less(t, NoTime)
  BY <1>1, <1>2 DEF Less
<1>4. ASSUME t \in CaptureTimes PROVE Less(NoTime, t)
  <2>1. t["hh"] > -1 /\ "hh" \in Field
    BY <1>4 DEF CaptureTimes, Has, Field, Missing
  <2>2. \A g \in Field : Rank[g] < Rank["hh"] => ~Decides(g, NoTime, t)
    BY <1>1 DEF Rank, Decides, Optional, Has, Field, Missing
  <2>3. Decides("hh", NoTime, t) /\ NoTime["hh"] < t["hh"]
    BY <1>1, <2>1 DEF Decides, Optional
  <2> QED BY <2>1, <2>2, <2>3 DEF Less
<1> QED BY <1>3, <1>4

(* What a channel may hold: the stamp of a packet, or none at all. *)
Held == CaptureTimes \cup {NoTime}

LEMMA HeldOrdered ==
    ASSUME NEW a \in Held, NEW b \in Held, NEW c \in Held, ~Less(a, b), ~Less(b, c)
    PROVE  ~Less(a, c)
<1>0. {a, b, c} \subseteq PacketTimes
  BY NoTimeType DEF Held, CaptureTimes
<1>1. CASE c = NoTime
  BY <1>0, <1>1, NoTimeFirst
<1>2. CASE c # NoTime /\ b = NoTime
  BY <1>0, <1>2, NoTimeFirst DEF Held
<1>3. CASE c # NoTime /\ b # NoTime /\ a = NoTime
  BY <1>0, <1>3, NoTimeFirst DEF Held
<1>4. CASE a # NoTime /\ b # NoTime /\ c # NoTime
  <2> DEFINE F == Field \ {"y"}
  <2>1. \A t \in {a, b, c} : ~Has(t, "y") /\ \A f \in F : Has(t, f)
    BY <1>4 DEF Held, CaptureTimes
  <2>2. \A f \in Field \ F : ~Decides(f, a, b) /\ ~Decides(f, b, c) /\ ~Decides(f, a, c)
    BY <2>1 DEF Decides, Optional
  <2> HIDE DEF F
  <2>3. F \in SUBSET Field
    BY DEF F
  <2> QED BY <1>0, <2>1, <2>2, <2>3, NotLessTransitive
<1> QED BY <1>1, <1>2, <1>3, <1>4

(* Pauses of one year, or without a year, among each other ... *)
LEMMA PausesOrdered ==
    ASSUME NEW a \in PauseTimes, NEW b \in PauseTimes, NEW c \in PauseTimes,
           a.y = b.y, b.y = c.y, ~Less(a, b), ~Less(b, c)
    PROVE  ~Less(a, c)
<1>1. Shape(a) = Shape(b) /\ Shape(b) = Shape(c)
  BY DEF PauseTimes, Shape, Has, Optional
<1> QED BY <1>1, SameShapeOrdered DEF PauseTimes

(* ... and against the stamp of a packet. *)
LEMMA PausesBeforePacket ==
    ASSUME NEW a \in PauseTimes, NEW b \in PauseTimes, NEW c \in CaptureTimes,
           a.y = b.y, ~Less(a, b), ~Less(b, c)
    PROVE  ~Less(a, c)
<1> DEFINE F == IF Has(a, "y") THEN {"m", "d", "hh", "mm", "ss", "ms"} ELSE {"hh", "mm", "ss", "ms"}
<1>1. F \in SUBSET Field /\ \A f \in F : Has(a, f) /\ Has(b, f) /\ Has(c, f)
  BY DEF PauseTimes, CaptureTimes, Has, Field
<1>2. \A f \in Field \ F : ~Decides(f, a, b) /\ ~Decides(f, b, c) /\ ~Decides(f, a, c)
  BY DEF PauseTimes, CaptureTimes, Has, Field, Decides, Optional
<1> HIDE DEF F
<1> QED BY <1>1, <1>2, NotLessTransitive DEF PauseTimes, CaptureTimes

-----------------------------------------------------------------------------
(* What a step does to the history.  Chatter is an event that is neither a   *)
(* packet nor an announcement of one, nor a restart.                         *)
Chatter(o, p) ==
    \/ p = o
    \/ \E e \in Event : /\ p = o \o <<e>>
                       /\ e.type \notin {"Packet", "AutoPaused", "Restarted", "GroupProgress"}

Same == channels' = channels /\ pauses' = pauses

Speaks == Same /\ Chatter(out, out')

Reports ==
    /\ Same
    /\ \E o \in Seq(Event) : Chatter(out, o) /\ out' = o \o <<GroupReport>>

Restarts ==
    /\ channels' = [n \in DOMAIN channels |-> RestartSource(n, channels[n])]
    /\ pauses' = pauses
    /\ \E o \in Seq(Event), e \in Event :
          Chatter(out, o) /\ e.type = "Restarted" /\ out' = o \o <<e>>

NextEvent(type) == EventOf(type, {NextChannel}, channels[NextChannel].pos)

Announces ==
    /\ channels # <<>>
    /\ PauseDue
    /\ channels' = channels
    /\ NextPause \in 1..Len(pauses)
    /\ pauses' = RemoveAt(pauses, NextPause)
    /\ out' = out \o <<NextEvent("AutoPaused")>>

(* The channel that has sent is as before, reads on, or is erased. *)
MovesOn ==
    \/ channels' = channels
    \/ EraseChannel(NextChannel)
    \/ channels' = [channels EXCEPT ![NextChannel] =
           ReadNext(NextChannel, [channels[NextChannel] EXCEPT !.sent = @ + channels[NextChannel].size])]

(* The packet is out and the channel is ready for the next, or erased. *)
PacketDone ==
    LET n == NextChannel
        s == [channels[n] EXCEPT !.sent = @ + channels[n].size]
    IN  /\ channels[n].size > 0
        /\ out' = out \o <<NextEvent("Packet")>>
        /\ \/ /\ ReadCode(n, s.pos) = "success"
              /\ channels' = [channels EXCEPT ![n] = ReadNext(n, s)]
           \/ /\ ReadCode(n, s.pos) = "eof"
              /\ EraseChannel(n)

SendsNext ==
    /\ pc' = "failed" \/ PacketDone
    /\ channels # <<>>
    /\ ~PauseDue
    /\ pauses' = pauses
    /\ channels' = channels \/ (channels[NextChannel].size > 0 /\ MovesOn)
    /\ Chatter(out \o <<NextEvent("Packet")>>, out')

Begins ==
    /\ pc = "init"
    /\ channels' = [n \in Described |-> ReadNext(n, NewSource)]
    /\ pauses' = pauses
    /\ out' = out

LEMMA NoticeChatter ==
    ASSUME NEW t \in EventType \ {"Packet", "AutoPaused", "Restarted", "GroupProgress"}, TypeOK,
           NEW o
    PROVE  Chatter(o, o \o <<Notice(t)>>)
<1>1. Notice(t) \in Event /\ Notice(t).type = t
  BY EventTypes DEF Notice, EventOf
<1> QED BY <1>1 DEF Chatter

(* A logged exception is chatter after what came before it. *)
LEMMA ThrowChatter ==
    ASSUME TypeOK, NEW events \in Seq(Event), Throw(events)
    PROVE  Chatter(out \o events, out') /\ pauses' = pauses
<1>1. Notice("LogMessage") \in Event
  BY EventTypes DEF EventType
<1>2. out' = (out \o events) \o <<Notice("LogMessage")>>
  <2> DEFINE l == Notice("LogMessage")
  <2>1. out' = out \o (events \o <<l>>) /\ l \in Event /\ out \in Seq(Event)
    BY <1>1 DEF Throw, Emit, TypeOK
  <2> HIDE DEF l
  <2>2. out' = (out \o events) \o <<l>>
    BY <2>1
  <2> QED BY <2>2 DEF l
<1>3. Chatter(out \o events, (out \o events) \o <<Notice("LogMessage")>>)
  BY NoticeChatter DEF EventType
<1> QED BY <1>2, <1>3 DEF Throw

LEMMA ThrowNothingChatter ==
    ASSUME TypeOK, Throw(<<>>)
    PROVE  Chatter(out, out') /\ pauses' = pauses
<1>1. <<>> \in Seq(Event) /\ out \o <<>> = out
  BY DEF TypeOK
<1> QED BY <1>1, ThrowChatter

LEMMA StepKinds ==
    ASSUME TypeOK, [Next]_vars
    PROVE  Speaks \/ Reports \/ Restarts \/ Announces \/ SendsNext \/ Begins
<1>0. out \in Seq(Event) /\ Chatter(out, out)
  BY DEF TypeOK, Chatter
<1>1. CASE HandleTogglePause \/ HandleSetPauseState
  <2>1. PICK t \in {"Paused", "Resumed"} : Emit(<<Notice(t)>>)
    BY <1>1 DEF HandleTogglePause, HandleSetPauseState
  <2>2. Chatter(out, out')
    BY <2>1, NoticeChatter DEF Emit, EventType
  <2> QED BY <1>1, <2>2 DEF HandleTogglePause, HandleSetPauseState, Speaks, Same
<1>2. CASE HandleRestart
  <2>1. PerChannel("Restarted") \in Event /\ PerChannel("Restarted").type = "Restarted"
    BY EventTypes DEF EventType, PerChannel, EventOf
  <2>2. Notice("Paused") \in Event /\ Chatter(out, out \o <<Notice("Paused")>>)
    BY EventTypes, NoticeChatter DEF EventType
  <2>3. \E o \in Seq(Event) : Chatter(out, o) /\ out' = o \o <<PerChannel("Restarted")>>
    <3> DEFINE r == PerChannel("Restarted")
               p == Notice("Paused")
    <3>1. Emit((IF state = "play" THEN <<p>> ELSE <<>>) \o <<r>>)
      BY <1>2 DEF HandleRestart
    <3>2. r \in Event /\ p \in Event /\ Chatter(out, out \o <<p>>)
      BY <2>1, <2>2
    <3> HIDE DEF r, p
    <3>3. CASE state = "play"
      <4>1. out \o <<p>> \in Seq(Event) /\ out' = (out \o <<p>>) \o <<r>>
        BY <1>0, <3>1, <3>2, <3>3, TwoEvents DEF Emit
      <4> QED BY <3>2, <4>1 DEF r
    <3>4. CASE state # "play"
      <4>1. out' = out \o <<r>>
        BY <1>0, <3>1, <3>2, <3>4 DEF Emit
      <4> QED BY <1>0, <4>1 DEF r
    <3> QED BY <3>3, <3>4
  <2> QED BY <1>2, <2>1, <2>3 DEF HandleRestart, Restarts
<1>3. CASE HandleRequestProgress
  <2> DEFINE c == PerChannel("ChannelProgress")
             g == GroupReport
  <2>1. /\ c \in Event /\ c.type = "ChannelProgress"
        /\ g \in Event
    BY EventTypes, ReportType DEF EventType, PerChannel, EventOf
  <2>2. PICK m \in {"RequestChannels", "RequestGroups", "RequestBoth"} :
            out' = out \o ((IF m # "RequestGroups" THEN <<c>> ELSE <<>>)
                              \o (IF m # "RequestChannels" THEN <<g>> ELSE <<>>))
    BY <1>3 DEF HandleRequestProgress, Emit
  <2>3. Same
    BY <1>3 DEF HandleRequestProgress, Same
  <2> HIDE DEF c, g
  <2>4. Chatter(out, out \o <<c>>) /\ out \o <<c>> \in Seq(Event)
    <3>1. out \o <<c>> \in Seq(Event)
      BY <1>0, <2>1
    <3>2. c.type \notin {"Packet", "AutoPaused", "Restarted", "GroupProgress"}
      BY <2>1
    <3> QED BY <2>1, <3>1, <3>2 DEF Chatter
  <2>5. \/ out' = out \o <<c>>
        \/ out' = out \o <<g>>
        \/ out' = (out \o <<c>>) \o <<g>>
    BY <1>0, <2>1, <2>2, TwoEvents
  <2> QED BY <1>0, <2>3, <2>4, <2>5 DEF Speaks, Reports, g
<1>4. CASE NoChannelLeft
  BY <1>4, ThrowNothingChatter DEF NoChannelLeft, Speaks, Same
<1>5. CASE AutoPause
  <2>1. NextPause # 0
    BY <1>5 DEF AutoPause, PauseDue
  <2> QED BY <1>5, <2>1, NextExists DEF AutoPause, Emit, Announces, NextEvent
<1>6. CASE SendPacket
  <2> DEFINE n == NextChannel
             s == [channels[n] EXCEPT !.sent = @ + channels[n].size]
             e == NextEvent("Packet")
  <2>1. e \in Event /\ n \in DOMAIN channels
    BY <1>6, EventTypes, NextExists DEF SendPacket, EventType, NextEvent
  <2>2. channels[n] \in Source
    BY <2>1 DEF TypeOK
  <2>3. s.pos = channels[n].pos /\ s.size = channels[n].size
    BY <2>2 DEF Source
  <2>4. \/ Emit(<<e>>) /\ pauses' = pauses
        \/ Throw(<<e>>)
    BY <1>6, <2>3 DEF SendPacket, NextEvent
  <2>5. Chatter(out \o <<e>>, out') /\ pauses' = pauses
    <3> HIDE DEF e
    <3>1. <<e>> \in Seq(Event)
      BY <2>1
    <3>2. Chatter(out \o <<e>>, out \o <<e>>)
      BY DEF Chatter
    <3> QED BY <2>4, <3>1, <3>2, ThrowChatter DEF Emit
  <2>6. MovesOn
    BY <1>6 DEF SendPacket, MovesOn
  <2>7. channels # <<>> /\ ~PauseDue /\ channels[n].size > 0
    BY <1>6, <2>3 DEF SendPacket
  <2>8. pc' = "failed" \/ PacketDone
    BY <1>6, <2>3 DEF SendPacket, PacketDone, NextEvent, Emit, Throw
  <2> QED BY <2>5, <2>6, <2>7, <2>8 DEF SendsNext
<1>7. CASE SendFails
  <2> DEFINE e == NextEvent("Packet")
  <2>1. e \in Event
    BY <1>7, EventTypes DEF SendFails, EventType, NextEvent
  <2>2. /\ channels # <<>> /\ ~PauseDue /\ channels' = channels /\ pc' = "failed"
        /\ Throw(<<>>) \/ Throw(<<e>>)
    BY <1>7 DEF SendFails, NextEvent, Throw
  <2>3. CASE Throw(<<>>)
    BY <2>2, <2>3, ThrowNothingChatter DEF Speaks, Same
  <2>4. CASE Throw(<<e>>)
    <3>1. Chatter(out \o <<e>>, out') /\ pauses' = pauses
      <4> HIDE DEF e
      <4>1. <<e>> \in Seq(Event)
        BY <2>1
      <4> QED BY <2>4, <4>1, ThrowChatter
    <3> QED BY <2>2, <3>1 DEF SendsNext
  <2> QED BY <2>2, <2>3, <2>4
<1>8. CASE Teardown
  <2>1. Chatter(out, out')
    BY <1>8, NoticeChatter DEF Teardown, Emit, EventType
  <2> QED BY <1>8, <2>1 DEF Teardown, Speaks, Same
<1>9. CASE Start
  <2>1. CASE \A n \in Described : Openable(n)
    BY <1>9, <2>1 DEF Start, Begins
  <2>2. CASE \E n \in Described : ~Openable(n)
    BY <1>9, <2>2, ThrowNothingChatter DEF Start, Speaks, Same
  <2> QED BY <2>1, <2>2
<1>10. CASE Push \/ Tick \/ HandleThreadDie \/ LeaveOOBQueue \/ CheckChannels \/ UNCHANGED vars
  <2>1. Same /\ out' = out
    BY <1>10 DEF Push, Tick, HandleThreadDie, LeaveOOBQueue, CheckChannels, vars, groupVars, Same
  <2> QED BY <1>0, <2>1 DEF Speaks
<1> QED
  BY <1>1, <1>2, <1>3, <1>4, <1>5, <1>6, <1>7, <1>8, <1>9, <1>10
     DEF Next, Thread, ProcessOOBQueue, ProcessPacket
-----------------------------------------------------------------------------
(* What a channel holds is the packet of its capture at its position.        *)
TimeAt(n, pos) == IF pos = 0 THEN NoTime ELSE FileOf(n).packets[pos].time

Loaded(n, s) == s.time = TimeAt(n, s.pos) /\ (s.pos = 0 => s.size = 0)

LoadInv ==
    /\ \A n \in DOMAIN channels : Loaded(n, channels[n])
    /\ pc = "init" => out = <<>> /\ channels = <<>>

LEMMA TimeAtHeld ==
    ASSUME TypeOK, NEW n \in 1..N, NEW pos \in Nat, pos <= Len(FileOf(n).packets)
    PROVE  /\ TimeAt(n, pos) \in Held
           /\ pos > 0 => TimeAt(n, pos) \in CaptureTimes
<1>1. FileOf(n).packets \in Seq(Packet)
  BY FileType DEF TypeOK
<1>2. ASSUME pos > 0 PROVE FileOf(n).packets[pos] \in Packet
  BY <1>1, <1>2
<1> QED BY <1>2 DEF TimeAt, Held, Packet

LEMMA ReadNextLoaded ==
    ASSUME TypeOK, NEW n \in 1..N, NEW s, Within(n, s), Loaded(n, s)
    PROVE  Loaded(n, ReadNext(n, s))
<1>1. s \in Source /\ s.pos \in Nat
  BY DEF Within, Source
<1>2. CASE ReadCode(n, s.pos) = "success"
  <2> DEFINE p == FileOf(n).packets[s.pos + 1]
  <2>1. /\ ReadNext(n, s).pos = s.pos + 1
        /\ ReadNext(n, s).time = p.time
    BY <1>2 DEF ReadNext
  <2> QED BY <1>1, <2>1 DEF Loaded, TimeAt
<1>3. CASE ReadCode(n, s.pos) # "success"
  <2>1. ReadNext(n, s) = [s EXCEPT !.size = 0]
    BY <1>3 DEF ReadNext
  <2> QED BY <1>1, <2>1 DEF Loaded, Source
<1> QED BY <1>2, <1>3

LEMMA NewSourceLoaded == ASSUME NEW n PROVE Loaded(n, NewSource)
BY DEF Loaded, NewSource, TimeAt

(* A capture that is rewound has a packet to read, unless it never had one. *)
LEMMA RestartLoaded ==
    ASSUME TypeOK, NEW n \in 1..N, NEW s, Within(n, s), Loaded(n, s)
    PROVE  Loaded(n, RestartSource(n, s))
<1> DEFINE r == [s EXCEPT !.pos = 0, !.cur = 0, !.sent = 0]
<1>1. s \in Source /\ s.pos \in Nat /\ s.pos <= Len(FileOf(n).packets)
  BY DEF Within, Source
<1>2. r \in Source /\ r.pos = 0 /\ r.time = s.time
  BY <1>1 DEF Source
<1>3. RestartSource(n, s) = ReadNext(n, r)
  BY DEF RestartSource
<1> HIDE DEF r
<1>4. Len(FileOf(n).packets) \in Nat /\ FileOf(n).end # "success"
  BY FileType DEF TypeOK
<1>5. CASE s.pos = 0
  <2>1. ReadNext(n, r).pos \in {0, 1}
    BY <1>2, <1>4 DEF ReadNext, Source
  <2>2. CASE ReadCode(n, r.pos) = "success"
    <3>1. ReadNext(n, r).pos = 1 /\ ReadNext(n, r).time = FileOf(n).packets[1].time
      BY <1>2, <2>2 DEF ReadNext
    <3> QED BY <1>3, <3>1 DEF Loaded, TimeAt
  <2>3. CASE ReadCode(n, r.pos) # "success"
    <3>1. ReadNext(n, r) = [r EXCEPT !.size = 0]
      BY <2>3 DEF ReadNext
    <3>2. r.time = NoTime
      BY <1>2, <1>5 DEF Loaded, TimeAt
    <3> QED BY <1>2, <1>3, <3>1, <3>2 DEF Loaded, TimeAt, Source
  <2> QED BY <2>2, <2>3
<1>6. CASE s.pos # 0
  <2>1. ReadCode(n, r.pos) = "success"
    BY <1>1, <1>2, <1>4, <1>6 DEF ReadCode
  <2>2. ReadNext(n, r).pos = 1 /\ ReadNext(n, r).time = FileOf(n).packets[1].time
    BY <1>2, <2>1 DEF ReadNext
  <2> QED BY <1>3, <2>2 DEF Loaded, TimeAt
<1> QED BY <1>5, <1>6

LEMMA SameScenario == ASSUME [Next]_vars PROVE scenario' = scenario
BY DEF Next, Thread, ProcessOOBQueue, ProcessPacket, Push, Tick, Start, HandleTogglePause,
       HandleSetPauseState, HandleThreadDie, HandleRestart, HandleRequestProgress, LeaveOOBQueue,
       NoChannelLeft, AutoPause, SendPacket, SendFails, CheckChannels, Teardown, Handle, Ours, vars

(* Nothing leads back to the state before the channels are opened. *)
LEMMA InitLeft ==
    ASSUME TypeOK, [Next]_vars, pc' = "init"
    PROVE  pc = "init" /\ out' = out /\ channels' = channels
<1>1. CASE ProcessOOBQueue
  <2>1. CASE LeaveOOBQueue
    BY <2>1 DEF LeaveOOBQueue, TypeOK
  <2>2. CASE ~LeaveOOBQueue
    BY <1>1, <2>2 DEF ProcessOOBQueue, HandleTogglePause, HandleSetPauseState, HandleThreadDie,
                      HandleRestart, HandleRequestProgress, Handle
  <2> QED BY <2>1, <2>2
<1>2. CASE ProcessPacket
  <2>1. pc' \in {"check", "failed"}
    BY <1>2 DEF ProcessPacket, NoChannelLeft, AutoPause, SendPacket, SendFails, Throw
  <2> QED BY <2>1
<1>3. CASE Start \/ CheckChannels \/ Teardown
  <2>1. pc' \in {"oob", "done", "failed"}
    BY <1>3 DEF Start, CheckChannels, Teardown, Throw
  <2> QED BY <2>1
<1>4. CASE Push \/ Tick \/ UNCHANGED vars
  BY <1>4 DEF Push, Tick, vars, groupVars
<1> QED BY <1>1, <1>2, <1>3, <1>4 DEF Next, Thread

(* The source of a channel that has sent, just before it reads on. *)
LEMMA SentLoaded ==
    ASSUME TypeOK, LoadInv, NEW n \in DOMAIN channels
    PROVE  LET s == [channels[n] EXCEPT !.sent = @ + channels[n].size]
           IN  Within(n, s) /\ Loaded(n, s) /\ s.pos = channels[n].pos /\ s.time = channels[n].time
<1> DEFINE s == [channels[n] EXCEPT !.sent = @ + channels[n].size]
<1>1. Within(n, channels[n]) /\ Loaded(n, channels[n]) /\ channels[n] \in Source
  BY ChannelsWithin DEF LoadInv, Within
<1>2. s \in Source /\ s.pos = channels[n].pos /\ s.time = channels[n].time /\ s.size = channels[n].size
  BY <1>1 DEF Source
<1> HIDE DEF s
<1>3. Within(n, s) /\ Loaded(n, s)
  BY <1>1, <1>2 DEF Within, Loaded
<1> QED BY <1>2, <1>3 DEF s

LEMMA NextLoaded == ASSUME TypeOK, LoadInv, [Next]_vars PROVE LoadInv'
<1> DEFINE AllLoaded(c) == \A n \in DOMAIN c : Loaded(n, c[n])
<1>1. AllLoaded(channels')
  <2>1. CASE channels' = channels
    BY <2>1 DEF LoadInv
  <2>2. CASE Restarts
    <3>1. \A n \in DOMAIN channels : Loaded(n, RestartSource(n, channels[n]))
      BY ChannelsWithin, RestartLoaded DEF LoadInv
    <3> QED BY <2>2, <3>1 DEF Restarts
  <2>3. CASE channels # <<>> /\ MovesOn
    <3> DEFINE s == [channels[NextChannel] EXCEPT !.sent = @ + channels[NextChannel].size]
    <3>1. NextChannel \in DOMAIN channels /\ NextChannel \in 1..N
      BY <2>3, NextExists DEF TypeOK
    <3>2. Loaded(NextChannel, ReadNext(NextChannel, s))
      BY <3>1, SentLoaded, ReadNextLoaded
    <3> HIDE DEF s
    <3>3. \/ channels' = channels
          \/ EraseChannel(NextChannel)
          \/ channels' = [channels EXCEPT ![NextChannel] = ReadNext(NextChannel, s)]
      BY <2>3 DEF MovesOn, s
    <3> QED BY <3>1, <3>2, <3>3 DEF EraseChannel, LoadInv
  <2>4. CASE Begins
    <3>1. \A n \in Described : n \in 1..N /\ Loaded(n, ReadNext(n, NewSource))
      BY NewSourceWithin, NewSourceLoaded, ReadNextLoaded DEF Described, TypeOK
    <3> QED BY <2>4, <3>1 DEF Begins
  <2> QED BY <2>1, <2>2, <2>3, <2>4, StepKinds DEF Speaks, Reports, Announces, SendsNext, Same
<1>2. pc' = "init" => out' = <<>> /\ channels' = <<>>
  BY InitLeft DEF LoadInv
<1> QED BY <1>1, <1>2, SameScenario DEF LoadInv, Loaded, TimeAt, FileOf

(* Before the channels are opened the thread has nothing and has said nothing. *)
LEMMA InitLoaded == Init => LoadInv
BY DEF Init, LoadInv

-----------------------------------------------------------------------------
(* The packets go out in the order of their stamps.                          *)
Recent(o, i) == o[i].type = "Packet" /\ \A k \in i..Len(o) : o[k].type # "Restarted"

InOrder(o) ==
    \A i, j \in 1..Len(o) :
        /\ i < j
        /\ o[i].type = "Packet"
        /\ o[j].type = "Packet"
        /\ \A k \in i..j : o[k].type # "Restarted"
        => ~Less(TimeOf(o[j]), TimeOf(o[i]))

(* No packet sent since the restart is later than what a channel holds. *)
Ahead(o, c) ==
    \A i \in 1..Len(o) : Recent(o, i) => \A n \in DOMAIN c : ~Less(c[n].time, TimeOf(o[i]))

Stamped(o) == \A i \in 1..Len(o) : o[i].type = "Packet" => TimeOf(o[i]) \in Held

OrderInv(o, c) == InOrder(o) /\ Ahead(o, c) /\ Stamped(o)

LEMMA SnocRecent ==
    ASSUME NEW o \in Seq(Event), NEW e \in Event
    PROVE  /\ Len(o \o <<e>>) = Len(o) + 1 /\ Len(o) \in Nat
           /\ (o \o <<e>>)[Len(o) + 1] = e
           /\ \A i \in 1..Len(o) :
                 /\ (o \o <<e>>)[i] = o[i]
                 /\ Recent(o \o <<e>>, i) <=> Recent(o, i) /\ e.type # "Restarted"
           /\ Recent(o \o <<e>>, Len(o) + 1) <=> e.type = "Packet"
<1> DEFINE p == o \o <<e>>
<1>1. /\ Len(p) = Len(o) + 1 /\ Len(o) \in Nat
      /\ p[Len(o) + 1] = e
      /\ \A i \in 1..Len(o) : p[i] = o[i]
  BY SnocKeeps
<1> HIDE DEF p
<1>2. ASSUME NEW i \in 1..Len(o) PROVE Recent(p, i) <=> Recent(o, i) /\ e.type # "Restarted"
  <2>1. i..Len(p) = (i..Len(o)) \cup {Len(o) + 1} /\ i..Len(o) \subseteq 1..Len(o)
    BY <1>1
  <2> QED BY <1>1, <2>1 DEF Recent
<1>3. Recent(p, Len(o) + 1) <=> e.type = "Packet"
  <2>1. (Len(o) + 1)..Len(p) = {Len(o) + 1}
    BY <1>1
  <2> QED BY <1>1, <2>1 DEF Recent
<1> QED BY <1>1, <1>2, <1>3 DEF p

LEMMA SnocInOrder ==
    ASSUME NEW o \in Seq(Event), NEW e \in Event, InOrder(o),
           e.type = "Packet" =>
               \A i \in 1..Len(o) : Recent(o, i) => ~Less(TimeOf(e), TimeOf(o[i]))
    PROVE  InOrder(o \o <<e>>)
<1> DEFINE p == o \o <<e>>
<1>1. /\ Len(p) = Len(o) + 1 /\ Len(o) \in Nat
      /\ p[Len(o) + 1] = e
      /\ \A i \in 1..Len(o) : p[i] = o[i]
  BY SnocRecent
<1> HIDE DEF p
<1>2. SUFFICES ASSUME NEW i \in 1..Len(p), NEW j \in 1..Len(p), i < j,
                      p[i].type = "Packet", p[j].type = "Packet",
                      \A k \in i..j : p[k].type # "Restarted"
               PROVE  ~Less(TimeOf(p[j]), TimeOf(p[i]))
  BY DEF InOrder, p
<1>3. i \in 1..Len(o) /\ p[i] = o[i]
  BY <1>1, <1>2
<1>4. CASE j \in 1..Len(o)
  <2>1. p[j] = o[j] /\ \A k \in i..j : k \in 1..Len(o) /\ p[k] = o[k]
    BY <1>1, <1>3, <1>4
  <2>2. \A k \in i..j : o[k].type # "Restarted"
    BY <1>2, <2>1
  <2>3. o[i].type = "Packet" /\ o[j].type = "Packet"
    BY <1>2, <1>3, <2>1
  <2> QED BY <1>2, <1>3, <1>4, <2>1, <2>2, <2>3 DEF InOrder
<1>5. CASE j = Len(o) + 1
  <2>1. \A k \in i..Len(o) : k \in i..j /\ k \in 1..Len(o)
    BY <1>1, <1>3, <1>5
  <2>2. Recent(o, i)
    BY <1>1, <1>2, <1>3, <2>1 DEF Recent
  <2> QED BY <1>1, <1>2, <1>3, <1>5, <2>2
<1> QED BY <1>1, <1>4, <1>5

LEMMA SnocOrder ==
    ASSUME NEW o \in Seq(Event), NEW e \in Event, NEW c, NEW d, OrderInv(o, c),
           \/ e.type \notin {"Packet", "Restarted"} /\ d = c
           \/ e.type = "Restarted"
           \/ /\ e.type = "Packet"
              /\ TimeOf(e) \in Held
              /\ \A i \in 1..Len(o) : Recent(o, i) => ~Less(TimeOf(e), TimeOf(o[i]))
              /\ \A n \in DOMAIN d : d[n].time \in Held /\ ~Less(d[n].time, TimeOf(e))
    PROVE  OrderInv(o \o <<e>>, d)
<1> DEFINE p == o \o <<e>>
<1>1. /\ Len(p) = Len(o) + 1 /\ Len(o) \in Nat
      /\ p[Len(o) + 1] = e
      /\ \A i \in 1..Len(o) : /\ p[i] = o[i]
                              /\ Recent(p, i) <=> Recent(o, i) /\ e.type # "Restarted"
      /\ Recent(p, Len(o) + 1) <=> e.type = "Packet"
  BY SnocRecent
<1>2. InOrder(p)
  BY SnocInOrder DEF OrderInv
<1> HIDE DEF p
<1>3. Stamped(p)
  <2>1. SUFFICES ASSUME NEW i \in 1..Len(p), p[i].type = "Packet" PROVE TimeOf(p[i]) \in Held
    BY DEF Stamped
  <2>2. CASE i \in 1..Len(o)
    BY <1>1, <2>1, <2>2 DEF OrderInv, Stamped
  <2>3. CASE i = Len(o) + 1
    BY <1>1, <2>1, <2>3
  <2> QED BY <1>1, <2>2, <2>3
<1>4. Ahead(p, d)
  <2>1. SUFFICES ASSUME NEW i \in 1..Len(p), Recent(p, i), NEW n \in DOMAIN d
                 PROVE  ~Less(d[n].time, TimeOf(p[i]))
    BY DEF Ahead
  <2>2. CASE i \in 1..Len(o) /\ e.type # "Packet"
    BY <1>1, <2>1, <2>2 DEF OrderInv, Ahead
  <2>3. CASE i \in 1..Len(o) /\ e.type = "Packet"
    <3>1. Recent(o, i) /\ p[i] = o[i] /\ o[i].type = "Packet"
      BY <1>1, <2>1, <2>3 DEF Recent
    <3>2. TimeOf(o[i]) \in Held
      BY <2>3, <3>1 DEF OrderInv, Stamped
    <3> QED BY <2>3, <3>1, <3>2, HeldOrdered
  <2>4. CASE i = Len(o) + 1
    BY <1>1, <2>1, <2>4
  <2> QED BY <1>1, <2>2, <2>3, <2>4
<1> QED BY <1>2, <1>3, <1>4 DEF OrderInv, p

LEMMA ChatterOrder ==
    ASSUME NEW o \in Seq(Event), NEW p, Chatter(o, p), NEW c, OrderInv(o, c)
    PROVE  OrderInv(p, c) /\ p \in Seq(Event)
<1>1. CASE p = o
  BY <1>1
<1>2. CASE p # o
  <2>1. PICK e \in Event : p = o \o <<e>> /\ e.type \notin {"Packet", "Restarted"}
    BY <1>2 DEF Chatter
  <2> QED BY <2>1, SnocOrder, SnocKeeps
<1> QED BY <1>1, <1>2

(* The packet that goes out is held by one channel and not after any other's, *)
(* and of those that tie it is the first channel's.                           *)
LEMMA NextIsLeast ==
    ASSUME TypeOK, LoadInv, channels # <<>>
    PROVE  /\ NextChannel \in DOMAIN channels /\ NextChannel \in 1..N
           /\ \A n \in DOMAIN channels :
                 channels[n].time \in Held /\ ~Less(channels[n].time, channels[NextChannel].time)
           /\ \A n \in DOMAIN channels :
                 n < NextChannel => Less(channels[NextChannel].time, channels[n].time)
<1>1. NextChannel \in DOMAIN channels /\ DOMAIN channels \in SUBSET (1..N) /\ N \in Nat
  BY NextExists, ConstantsAssumption DEF TypeOK
<1>2. \A n \in DOMAIN channels : channels[n].time \in Held /\ channels[n].time \in PacketTimes
  BY ChannelsWithin, TimeAtHeld DEF LoadInv, Loaded, Within, Source
<1>3. \A n \in DOMAIN channels : NextTimes[n] = channels[n].time
  BY DEF NextTimes
<1>4. NextTimes \in [DOMAIN channels -> PacketTimes]
  BY <1>2 DEF NextTimes
<1>5. \A i, j, k \in DOMAIN channels :
         ~Less(NextTimes[i], NextTimes[j]) /\ ~Less(NextTimes[j], NextTimes[k])
             => ~Less(NextTimes[i], NextTimes[k])
  BY <1>2, <1>3, HeldOrdered
<1>6. IsFirstLeast(NextTimes, NextChannel)
  BY <1>1, <1>4, <1>5, MinElementFirstLeast DEF NextChannel
<1> QED BY <1>1, <1>2, <1>3, <1>4, <1>6 DEF IsFirstLeast

(* The stamp an event about the next packet stands for. *)
LEMMA NextEventTime ==
    ASSUME TypeOK, LoadInv, channels # <<>>, NEW type \in EventType
    PROVE  /\ NextEvent(type) \in Event /\ NextEvent(type).type = type
           /\ TimeOf(NextEvent(type)) = channels[NextChannel].time
<1> DEFINE e == NextEvent(type)
<1>1. NextChannel \in DOMAIN channels /\ NextChannel \in 1..N
  BY NextExists DEF TypeOK
<1>2. e \in Event /\ e.type = type
  BY EventTypes DEF NextEvent, EventOf
<1>3. e.of = {NextChannel} /\ e.pos = channels[NextChannel].pos
  BY DEF NextEvent, EventOf
<1>4. ChannelOf(e) = NextChannel
  BY <1>1, <1>3 DEF ChannelOf
<1>5. channels[NextChannel].time = TimeAt(NextChannel, channels[NextChannel].pos)
  BY <1>1 DEF LoadInv, Loaded
<1> HIDE DEF e
<1>6. TimeOf(e) = TimeAt(NextChannel, e.pos)
  BY <1>4 DEF TimeOf, TimeAt
<1> QED BY <1>2, <1>3, <1>5, <1>6 DEF e

(* In a sorted capture the packet read on to is not before the one sent. *)
LEMMA ReadOnSorted ==
    ASSUME TypeOK, LoadInv, SortedFiles, NEW n \in DOMAIN channels, channels[n].size > 0,
           NEW s, s = [channels[n] EXCEPT !.sent = @ + channels[n].size]
    PROVE  ReadNext(n, s).time \in Held /\ ~Less(ReadNext(n, s).time, channels[n].time)
<1>1. Within(n, s) /\ Loaded(n, s) /\ s.pos = channels[n].pos /\ s.time = channels[n].time
  BY SentLoaded
<1>2. n \in 1..N /\ Within(n, channels[n]) /\ Loaded(n, channels[n])
  BY ChannelsWithin DEF LoadInv
<1>3. Within(n, ReadNext(n, s)) /\ Loaded(n, ReadNext(n, s))
  BY <1>1, <1>2, ReadNextWithin, ReadNextLoaded DEF TypeOK
<1>4. ReadNext(n, s).time \in Held
  BY <1>2, <1>3, TimeAtHeld DEF Within, Loaded, Source
<1>5. s.pos \in Nat /\ s.pos # 0 /\ s.pos <= Len(FileOf(n).packets) /\ s.time \in PacketTimes
  BY <1>1, <1>2 DEF Within, Loaded, Source
<1>6. CASE ReadCode(n, s.pos) = "success"
  <2>1. ReadNext(n, s).time = FileOf(n).packets[s.pos + 1].time
    BY <1>6 DEF ReadNext
  <2>2. s.time = FileOf(n).packets[s.pos].time
    BY <1>1, <1>5 DEF Loaded, TimeAt
  <2>3. FileOf(n).packets \in Seq(Packet) /\ Len(FileOf(n).packets) \in Nat
        /\ FileOf(n).end # "success"
    BY <1>2, FileType DEF TypeOK
  <2>4. s.pos < Len(FileOf(n).packets)
    BY <1>6, <2>3 DEF ReadCode
  <2>5. s.pos \in DOMAIN FileOf(n).packets /\ s.pos + 1 \in DOMAIN FileOf(n).packets
    BY <1>5, <2>3, <2>4
  <2>6. ~Less(FileOf(n).packets[s.pos + 1].time, FileOf(n).packets[s.pos].time)
    <3>1. n \in 1..N /\ s.pos < s.pos + 1
      BY <1>2, <1>5
    <3> QED BY ONLY SortedFiles, <2>5, <3>1 DEF SortedFiles
  <2> QED BY <1>1, <1>4, <2>1, <2>2, <2>6
<1>7. CASE ReadCode(n, s.pos) # "success"
  <2>1. ReadNext(n, s).time = s.time
    BY <1>1, <1>7 DEF ReadNext, Within, Source
  <2> QED BY <1>1, <1>4, <1>5, <2>1, NoLessSelf
<1> QED BY <1>6, <1>7

(* Sending keeps the order, whatever becomes of the channel. *)
LEMMA SendsInOrder ==
    ASSUME TypeOK, LoadInv, SortedFiles, OrderInv(out, channels), SendsNext
    PROVE  OrderInv(out', channels')
<1> DEFINE m == NextChannel
           e == NextEvent("Packet")
           s == [channels[m] EXCEPT !.sent = @ + channels[m].size]
<1>1. channels # <<>> /\ out \in Seq(Event) /\ Chatter(out \o <<e>>, out')
  BY DEF SendsNext, TypeOK
<1>2. /\ m \in DOMAIN channels
      /\ \A n \in DOMAIN channels :
            channels[n].time \in Held /\ ~Less(channels[n].time, channels[m].time)
  BY <1>1, NextIsLeast
<1>3. e \in Event /\ e.type = "Packet" /\ TimeOf(e) = channels[m].time
  BY <1>1, NextEventTime DEF EventType
<1>4. channels[m].size > 0 => ReadNext(m, s).time \in Held /\ ~Less(ReadNext(m, s).time, channels[m].time)
  BY <1>2, ReadOnSorted
<1>5. \/ channels' = channels
      \/ EraseChannel(m)
      \/ channels[m].size > 0 /\ channels' = [channels EXCEPT ![m] = ReadNext(m, s)]
  BY DEF SendsNext, MovesOn
<1> HIDE DEF e, m, s
<1>6. \A n \in DOMAIN channels' : channels'[n].time \in Held /\ ~Less(channels'[n].time, TimeOf(e))
  <2>1. CASE channels' = channels
    BY <1>2, <1>3, <2>1
  <2>2. CASE EraseChannel(m)
    BY <1>2, <1>3, <2>2 DEF EraseChannel
  <2>3. CASE channels[m].size > 0 /\ channels' = [channels EXCEPT ![m] = ReadNext(m, s)]
    BY <1>2, <1>3, <1>4, <2>3
  <2> QED BY <1>5, <2>1, <2>2, <2>3
<1>7. \A i \in 1..Len(out) : Recent(out, i) => ~Less(TimeOf(e), TimeOf(out[i]))
  BY <1>2, <1>3 DEF OrderInv, Ahead
<1>8. OrderInv(out \o <<e>>, channels')
  BY <1>1, <1>2, <1>3, <1>6, <1>7, SnocOrder
<1> QED BY <1>1, <1>3, <1>8, ChatterOrder, SnocKeeps

OrderSafe == SortedFiles => OrderInv(out, channels)

LEMMA NextOrderSafe == ASSUME TypeOK, LoadInv, OrderSafe, [Next]_vars PROVE OrderSafe'
<1> SUFFICES ASSUME SortedFiles PROVE OrderInv(out', channels')
  BY SameScenario DEF OrderSafe, SortedFiles, OrderInv, InOrder, Ahead, Recent, Stamped, Held,
                      CaptureTimes, TimeOf, FileOf
<1>0. OrderInv(out, channels) /\ out \in Seq(Event)
  BY DEF OrderSafe, TypeOK
<1>1. CASE Speaks
  BY <1>0, <1>1, ChatterOrder DEF Speaks, Same
<1>2. CASE Reports
  <2>1. PICK o \in Seq(Event) : Chatter(out, o) /\ out' = o \o <<GroupReport>>
    BY <1>2 DEF Reports
  <2>2. OrderInv(o, channels)
    BY <1>0, <2>1, ChatterOrder
  <2>3. GroupReport \in Event /\ GroupReport.type \notin {"Packet", "Restarted"}
    BY ReportType
  <2> QED BY <1>2, <2>1, <2>2, <2>3, SnocOrder DEF Reports, Same
<1>3. CASE Restarts
  <2>1. PICK o \in Seq(Event), e \in Event :
            Chatter(out, o) /\ e.type = "Restarted" /\ out' = o \o <<e>>
    BY <1>3 DEF Restarts
  <2>2. OrderInv(o, channels)
    BY <1>0, <2>1, ChatterOrder
  <2> QED BY <2>1, <2>2, SnocOrder
<1>4. CASE Announces
  <2>1. NextEvent("AutoPaused") \in Event /\ NextEvent("AutoPaused").type = "AutoPaused"
    BY <1>4, NextEventTime DEF Announces, EventType
  <2> QED BY <1>0, <1>4, <2>1, SnocOrder DEF Announces
<1>5. CASE SendsNext
  BY <1>0, <1>5, SendsInOrder
<1>6. CASE Begins
  <2>1. out' = <<>> /\ Len(out') = 0
    BY <1>6 DEF Begins, LoadInv
  <2> QED BY <2>1 DEF OrderInv, InOrder, Ahead, Stamped
<1> QED BY <1>1, <1>2, <1>3, <1>4, <1>5, <1>6, StepKinds

(* README 1.1: whatever the options and the App ask for, sorted captures are *)
(* merged in the order of their stamps, from one restart to the next.        *)
THEOREM OrderCorrect == Spec => []SentInOrder
<1>1. Init => OrderSafe
  BY DEF Init, OrderSafe, OrderInv, InOrder, Ahead, Stamped
<1>2. TypeOK /\ OrderSafe => SentInOrder
  <2>1. ASSUME TypeOK PROVE DOMAIN out = 1..Len(out)
    BY <2>1 DEF TypeOK
  <2> QED BY <2>1 DEF OrderSafe, OrderInv, InOrder, SentInOrder, Sends, NoRestartWithin
<1> QED
  BY InitTypeOK, NextTypeOK, InitLoaded, NextLoaded, NextOrderSafe, <1>1, <1>2, PTL DEF Spec

-----------------------------------------------------------------------------
(* No pause is passed by.                                                    *)
Passed(o, p) ==
    \A i \in 1..Len(o) : o[i].type = "Packet" =>
        \A k \in DOMAIN p : ~Less(p[k], TimeOf(o[i]))

OneYear(p) == \A i, j \in DOMAIN p : p[i].y = p[j].y

PauseInv ==
    /\ pauses \in Seq(PauseTimes)
    /\ UniformPauses => OneYear(pauses) /\ Passed(out, pauses)

LEMMA ConcatIndex ==
    ASSUME NEW S, NEW a \in Seq(S), NEW b \in Seq(S)
    PROVE  /\ DOMAIN (a \o b) = 1..(Len(a) + Len(b))
           /\ Len(a \o b) = Len(a) + Len(b)
           /\ \A k \in 1..Len(a) : (a \o b)[k] = a[k]
           /\ \A k \in (Len(a) + 1)..(Len(a) + Len(b)) : (a \o b)[k] = b[k - Len(a)]
OBVIOUS

(* What is left of a sequence after RemoveAt, place by place. *)
LEMMA RemoveAtIndex ==
    ASSUME NEW S, NEW s \in Seq(S), NEW i \in 1..Len(s)
    PROVE  /\ Len(RemoveAt(s, i)) = Len(s) - 1 /\ Len(s) - 1 \in Nat
           /\ DOMAIN RemoveAt(s, i) = 1..(Len(s) - 1)
           /\ \A k \in 1..(Len(s) - 1) :
                 RemoveAt(s, i)[k] = s[IF k < i THEN k ELSE k + 1]
<1> DEFINE a == SubSeq(s, 1, i - 1)
           b == SubSeq(s, i + 1, Len(s))
<1>1. /\ a \in Seq(S) /\ Len(a) = i - 1
      /\ \A k \in 1..(i - 1) : a[k] = s[k]
  OBVIOUS
<1>2. /\ b \in Seq(S) /\ Len(b) = Len(s) - i
      /\ \A k \in 1..(Len(s) - i) : b[k] = s[k + i]
  OBVIOUS
<1>3. RemoveAt(s, i) = a \o b
  BY DEF RemoveAt
<1> HIDE DEF a, b
<1>4. i \in Nat /\ Len(s) \in Nat /\ 1 <= i /\ i <= Len(s)
  OBVIOUS
<1>5. /\ DOMAIN (a \o b) = 1..(Len(s) - 1) /\ Len(a \o b) = Len(s) - 1
      /\ \A k \in 1..(i - 1) : (a \o b)[k] = a[k]
      /\ \A k \in i..(Len(s) - 1) : (a \o b)[k] = b[k - (i - 1)]
  <2>1. /\ DOMAIN (a \o b) = 1..(Len(a) + Len(b)) /\ Len(a \o b) = Len(a) + Len(b)
        /\ \A k \in 1..Len(a) : (a \o b)[k] = a[k]
        /\ \A k \in (Len(a) + 1)..(Len(a) + Len(b)) : (a \o b)[k] = b[k - Len(a)]
    <3>1. a \in Seq(S) /\ b \in Seq(S)
      BY <1>1, <1>2
    <3> QED BY ONLY <3>1, ConcatIndex
  <2>2. Len(a) = i - 1 /\ Len(a) + 1 = i /\ Len(a) + Len(b) = Len(s) - 1
    BY <1>1, <1>2, <1>4
  <2> QED BY <2>1, <2>2
<1>6. ASSUME NEW k \in 1..(Len(s) - 1) PROVE (a \o b)[k] = s[IF k < i THEN k ELSE k + 1]
  <2>1. CASE k \in 1..(i - 1)
    BY <1>1, <1>5, <2>1
  <2>2. CASE k \in i..(Len(s) - 1)
    <3> DEFINE r == k - (i - 1)
    <3>1. r \in 1..(Len(s) - i) /\ r + i = k + 1 /\ ~(k < i)
      BY <1>4, <2>2
    <3>2. (a \o b)[k] = b[r]
      BY <1>5, <2>2
    <3> HIDE DEF r
    <3>3. b[r] = s[r + i]
      BY <1>2, <3>1
    <3> QED BY <3>1, <3>2, <3>3
  <2>3. k \in 1..(i - 1) \/ k \in i..(Len(s) - 1)
    BY <1>4
  <2> QED BY <2>1, <2>2, <2>3
<1>7. Len(s) - 1 \in Nat
  BY <1>4
<1> QED BY ONLY <1>3, <1>5, <1>6, <1>7

LEMMA RemoveAtElements ==
    ASSUME NEW S, NEW s \in Seq(S), NEW i \in 1..Len(s)
    PROVE  \A k \in DOMAIN RemoveAt(s, i) : \E j \in DOMAIN s : RemoveAt(s, i)[k] = s[j]
<1> SUFFICES ASSUME NEW k \in DOMAIN RemoveAt(s, i)
             PROVE  \E j \in DOMAIN s : RemoveAt(s, i)[k] = s[j]
  OBVIOUS
<1>1. k \in 1..(Len(s) - 1) /\ RemoveAt(s, i)[k] = s[IF k < i THEN k ELSE k + 1]
  BY RemoveAtIndex
<1>2. (IF k < i THEN k ELSE k + 1) \in DOMAIN s
  BY <1>1
<1> QED BY <1>1, <1>2

LEMMA SnocPassed ==
    ASSUME NEW o \in Seq(Event), NEW e \in Event, NEW p, Passed(o, p),
           e.type = "Packet" => \A k \in DOMAIN p : ~Less(p[k], TimeOf(e))
    PROVE  Passed(o \o <<e>>, p)
<1> DEFINE q == o \o <<e>>
<1>1. /\ Len(q) = Len(o) + 1 /\ Len(o) \in Nat
      /\ q[Len(o) + 1] = e
      /\ \A i \in 1..Len(o) : q[i] = o[i]
  BY SnocRecent
<1> HIDE DEF q
<1>2. ASSUME NEW i \in 1..Len(q), q[i].type = "Packet", NEW k \in DOMAIN p
      PROVE  ~Less(p[k], TimeOf(q[i]))
  <2>1. CASE i \in 1..Len(o)
    BY <1>1, <1>2, <2>1 DEF Passed
  <2>2. CASE i = Len(o) + 1
    BY <1>1, <1>2, <2>2
  <2> QED BY <1>1, <2>1, <2>2
<1> QED BY <1>2 DEF Passed, q

LEMMA ChatterPassed ==
    ASSUME NEW o \in Seq(Event), NEW q, Chatter(o, q), NEW p, Passed(o, p)
    PROVE  Passed(q, p) /\ q \in Seq(Event)
<1>1. CASE q = o
  BY <1>1
<1>2. CASE q # o
  <2>1. PICK e \in Event : q = o \o <<e>> /\ e.type # "Packet"
    BY <1>2 DEF Chatter
  <2> QED BY <2>1, SnocPassed, SnocKeeps
<1> QED BY <1>1, <1>2

(* Pauses of one year are all after the packet that goes out, once the       *)
(* earliest of them is.                                                      *)
LEMMA NoPauseBefore ==
    ASSUME TypeOK, LoadInv, PauseInv, UniformPauses, channels # <<>>, ~PauseDue
    PROVE  \A k \in DOMAIN pauses : ~Less(pauses[k], channels[NextChannel].time)
<1> DEFINE t == channels[NextChannel].time
           L == Len(pauses)
<1>1. /\ L \in Nat /\ DOMAIN pauses = 1..L
      /\ \A k \in 1..L : pauses[k] \in PauseTimes /\ pauses[k] \in PacketTimes
      /\ pauses \in [1..L -> PacketTimes]
  <2>1. PauseTimes \subseteq PacketTimes
    BY DEF PauseTimes
  <2> QED BY <2>1 DEF PauseInv
<1>2. \A i, j \in 1..L : pauses[i].y = pauses[j].y
  BY <1>1 DEF PauseInv, OneYear
<1>3. \A i, j, k \in 1..L :
         ~Less(pauses[i], pauses[j]) /\ ~Less(pauses[j], pauses[k]) => ~Less(pauses[i], pauses[k])
  BY <1>1, <1>2, PausesOrdered
<1>4. IF 1..L = {} THEN NextPause = 0 ELSE IsFirstLeast(pauses, NextPause)
  <2> DEFINE t0 == pauses
             n0 == L
             D == 1..L
  <2>1. n0 \in Nat /\ D \in SUBSET (1..n0) /\ t0 \in [D -> PacketTimes]
    BY <1>1
  <2>2. \A i, j, k \in D : ~Less(t0[i], t0[j]) /\ ~Less(t0[j], t0[k]) => ~Less(t0[i], t0[k])
    BY <1>3
  <2>3. NextPause = MinElement(t0, n0)
    BY DEF NextPause
  <2> HIDE DEF t0, n0, D
  <2>4. IF D = {} THEN NextPause = 0 ELSE IsFirstLeast(t0, NextPause)
    BY <2>1, <2>2, <2>3, MinElementFirstLeast
  <2> QED BY <2>4 DEF t0, D
<1>5. t \in Held
  BY NextIsLeast
<1> HIDE DEF t
<1>6. SUFFICES ASSUME NEW k \in 1..L PROVE ~Less(pauses[k], t)
  BY <1>1 DEF t
<1>7. NextPause \in 1..L /\ ~Less(pauses[k], pauses[NextPause])
  BY <1>1, <1>4, <1>6 DEF IsFirstLeast
<1>8. ~Less(pauses[NextPause], t)
  BY <1>1, <1>7 DEF PauseDue, t
<1>9. CASE t = NoTime
  BY <1>1, <1>9, NoTimeFirst
<1>10. CASE t \in CaptureTimes
  BY <1>1, <1>2, <1>7, <1>8, <1>10, PausesBeforePacket
<1> QED BY <1>5, <1>9, <1>10 DEF Held

LEMMA NextPauseInv == ASSUME TypeOK, LoadInv, PauseInv, [Next]_vars PROVE PauseInv'
<1>0. out \in Seq(Event)
  BY DEF TypeOK
<1>1. pauses' \in Seq(PauseTimes)
  <2>1. CASE Announces
    BY <2>1, RemoveAtType DEF Announces, PauseInv
  <2>2. CASE ~Announces
    BY <2>2, StepKinds DEF Speaks, Reports, Restarts, SendsNext, Begins, Same, PauseInv
  <2> QED BY <2>1, <2>2
<1>2. ASSUME UniformPauses PROVE OneYear(pauses') /\ Passed(out', pauses')
  <2>0. OneYear(pauses) /\ Passed(out, pauses)
    BY <1>2 DEF PauseInv
  <2>1. CASE Speaks
    BY <1>0, <2>0, <2>1, ChatterPassed DEF Speaks, Same
  <2>2. CASE Reports
    <3>1. PICK o \in Seq(Event) : Chatter(out, o) /\ out' = o \o <<GroupReport>>
      BY <2>2 DEF Reports
    <3>2. Passed(o, pauses)
      BY <1>0, <2>0, <3>1, ChatterPassed
    <3> QED BY <2>0, <2>2, <3>1, <3>2, ReportType, SnocPassed DEF Reports, Same
  <2>3. CASE Restarts
    <3>1. PICK o \in Seq(Event), e \in Event :
              Chatter(out, o) /\ e.type = "Restarted" /\ out' = o \o <<e>>
      BY <2>3 DEF Restarts
    <3>2. Passed(o, pauses)
      BY <1>0, <2>0, <3>1, ChatterPassed
    <3> QED BY <2>0, <2>3, <3>1, <3>2, SnocPassed DEF Restarts
  <2>4. CASE Announces
    <3>1. NextEvent("AutoPaused") \in Event /\ NextEvent("AutoPaused").type = "AutoPaused"
      BY <2>4, NextEventTime DEF Announces, EventType
    <3>2. Passed(out', pauses)
      BY <1>0, <2>0, <2>4, <3>1, SnocPassed DEF Announces
    <3>3. \A k \in DOMAIN pauses' : \E j \in DOMAIN pauses : pauses'[k] = pauses[j]
      BY <2>4, RemoveAtElements DEF Announces, PauseInv
    <3>4. OneYear(pauses')
      BY <2>0, <3>3 DEF OneYear
    <3>5. Passed(out', pauses')
      BY <3>2, <3>3 DEF Passed
    <3> QED BY <3>4, <3>5
  <2>5. CASE SendsNext
    <3> DEFINE e == NextEvent("Packet")
    <3>1. channels # <<>> /\ ~PauseDue /\ pauses' = pauses /\ Chatter(out \o <<e>>, out')
      BY <2>5 DEF SendsNext
    <3>2. e \in Event /\ TimeOf(e) = channels[NextChannel].time
      BY <3>1, NextEventTime DEF EventType
    <3> HIDE DEF e
    <3>3. \A k \in DOMAIN pauses : ~Less(pauses[k], TimeOf(e))
      BY <1>2, <3>1, <3>2, NoPauseBefore
    <3>4. Passed(out \o <<e>>, pauses) /\ out \o <<e>> \in Seq(Event)
      BY <1>0, <2>0, <3>2, <3>3, SnocPassed, SnocKeeps
    <3> QED BY <2>0, <3>1, <3>4, ChatterPassed
  <2>6. CASE Begins
    <3>1. out' = out /\ pauses' = pauses
      BY <2>6 DEF Begins
    <3> QED BY <2>0, <3>1
  <2> QED BY <2>1, <2>2, <2>3, <2>4, <2>5, <2>6, StepKinds
<1> QED BY <1>1, <1>2, SameScenario DEF PauseInv, UniformPauses, OneYear, Passed, TimeOf, FileOf

LEMMA InitPauses == Init => PauseInv
<1> SUFFICES ASSUME Init PROVE PauseInv
  OBVIOUS
<1>1. scenario \in Scenario /\ pauses = scenario.pauses /\ out = <<>>
  BY ConstantsAssumption DEF Init
<1>2. pauses \in Seq(PauseTimes)
  BY <1>1 DEF Scenario
<1> QED BY <1>1, <1>2 DEF PauseInv, UniformPauses, OneYear, Passed

(* README 1.3: where the pauses give no dates, or dates of one year, no      *)
(* packet goes out that is later than a pause that has not fired.            *)
THEOREM PausesCorrect == Spec => []PausesHonoured
<1>1. TypeOK /\ PauseInv => PausesHonoured
  <2>1. ASSUME TypeOK PROVE DOMAIN out = 1..Len(out)
    BY <2>1 DEF TypeOK
  <2> QED BY <2>1 DEF PauseInv, Passed, PausesHonoured, NoPauseSkipped, Sends
<1> QED
  BY InitTypeOK, NextTypeOK, InitLoaded, NextLoaded, InitPauses, NextPauseInv, <1>1, PTL DEF Spec

-----------------------------------------------------------------------------
(* What is announced comes next.                                             *)
Marker == {"AutoPaused", "GroupProgress"}

Settled(e) == e.type \in {"Packet", "AutoPaused", "Restarted"}

SamePacket(e, r) == e.of = r.of /\ e.pos = r.pos

(* A marker that nothing has settled yet. *)
Pending(o, i) == o[i].type \in Marker /\ \A k \in (i + 1)..Len(o) : ~Settled(o[k])

Due(o, r) == \A i \in 1..Len(o) : Pending(o, i) => SamePacket(o[i], r)

KeepsWord(o) ==
    \A i, j \in 1..Len(o) :
        /\ i < j
        /\ o[i].type \in Marker
        /\ o[j].type \in {"Packet", "AutoPaused"}
        /\ \A k \in (i + 1)..(j - 1) : ~Settled(o[k])
        => SamePacket(o[j], o[i])

LEMMA SnocPending ==
    ASSUME NEW o \in Seq(Event), NEW e \in Event
    PROVE  /\ \A i \in 1..Len(o) : Pending(o \o <<e>>, i) <=> Pending(o, i) /\ ~Settled(e)
           /\ Pending(o \o <<e>>, Len(o) + 1) <=> e.type \in Marker
<1> DEFINE p == o \o <<e>>
<1>1. /\ Len(p) = Len(o) + 1 /\ Len(o) \in Nat
      /\ p[Len(o) + 1] = e
      /\ \A i \in 1..Len(o) : p[i] = o[i]
  BY SnocRecent
<1> HIDE DEF p
<1>2. ASSUME NEW i \in 1..Len(o) PROVE Pending(p, i) <=> Pending(o, i) /\ ~Settled(e)
  <2>1. /\ (i + 1)..Len(p) = ((i + 1)..Len(o)) \cup {Len(o) + 1}
        /\ (i + 1)..Len(o) \subseteq 1..Len(o)
    BY <1>1
  <2> QED BY <1>1, <2>1 DEF Pending
<1>3. Pending(p, Len(o) + 1) <=> e.type \in Marker
  <2>1. (Len(o) + 1 + 1)..Len(p) = {}
    BY <1>1
  <2> QED BY <1>1, <2>1 DEF Pending
<1> QED BY <1>2, <1>3 DEF p

LEMMA SnocKeepsWord ==
    ASSUME NEW o \in Seq(Event), NEW e \in Event, KeepsWord(o), NEW r, Due(o, r),
           e.type \in {"Packet", "AutoPaused"} => SamePacket(e, r)
    PROVE  KeepsWord(o \o <<e>>)
<1> DEFINE p == o \o <<e>>
<1>1. /\ Len(p) = Len(o) + 1 /\ Len(o) \in Nat
      /\ p[Len(o) + 1] = e
      /\ \A i \in 1..Len(o) : p[i] = o[i]
  BY SnocRecent
<1> HIDE DEF p
<1>2. SUFFICES ASSUME NEW i \in 1..Len(p), NEW j \in 1..Len(p), i < j,
                      p[i].type \in Marker, p[j].type \in {"Packet", "AutoPaused"},
                      \A k \in (i + 1)..(j - 1) : ~Settled(p[k])
               PROVE  SamePacket(p[j], p[i])
  BY DEF KeepsWord, p
<1>3. i \in 1..Len(o) /\ p[i] = o[i]
  BY <1>1, <1>2
<1>4. \A k \in (i + 1)..(j - 1) : k \in 1..Len(o) /\ p[k] = o[k]
  BY <1>1, <1>3
<1>5. \A k \in (i + 1)..(j - 1) : ~Settled(o[k])
  BY <1>2, <1>4
<1>6. CASE j \in 1..Len(o)
  BY <1>1, <1>2, <1>3, <1>5, <1>6 DEF KeepsWord
<1>7. CASE j = Len(o) + 1
  <2>1. Len(o) = j - 1
    BY <1>1, <1>7
  <2>2. Pending(o, i)
    BY <1>2, <1>3, <1>5, <2>1 DEF Pending
  <2>3. SamePacket(o[i], r) /\ SamePacket(e, r)
    BY <1>1, <1>2, <1>3, <1>7, <2>2 DEF Due
  <2> QED BY <1>1, <1>3, <1>7, <2>3 DEF SamePacket
<1> QED BY <1>1, <1>6, <1>7

LEMMA SnocDue ==
    ASSUME NEW o \in Seq(Event), NEW e \in Event, NEW r, NEW q, KeepsWord(o), Due(o, r),
           e.type \in {"Packet", "AutoPaused"} => SamePacket(e, r),
           \/ e.type \in {"Packet", "Restarted"}
           \/ q = r /\ (e.type \in Marker => SamePacket(e, r))
    PROVE  KeepsWord(o \o <<e>>) /\ Due(o \o <<e>>, q)
<1> DEFINE p == o \o <<e>>
<1>1. /\ Len(p) = Len(o) + 1 /\ Len(o) \in Nat
      /\ p[Len(o) + 1] = e
      /\ \A i \in 1..Len(o) : p[i] = o[i]
  BY SnocRecent
<1>2. /\ \A i \in 1..Len(o) : Pending(p, i) <=> Pending(o, i) /\ ~Settled(e)
      /\ Pending(p, Len(o) + 1) <=> e.type \in Marker
  BY SnocPending
<1>3. KeepsWord(p)
  BY SnocKeepsWord
<1> HIDE DEF p
<1>4. ASSUME NEW i \in 1..Len(p), Pending(p, i) PROVE SamePacket(p[i], q)
  <2>1. CASE i \in 1..Len(o)
    <3>1. Pending(o, i) /\ ~Settled(e) /\ p[i] = o[i]
      BY <1>1, <1>2, <1>4, <2>1
    <3>2. q = r
      BY <3>1 DEF Settled
    <3> QED BY <2>1, <3>1, <3>2 DEF Due
  <2>2. CASE i = Len(o) + 1
    <3>1. e.type \in Marker /\ p[i] = e
      BY <1>1, <1>2, <1>4, <2>2
    <3> QED BY <3>1 DEF Marker
  <2> QED BY <1>1, <2>1, <2>2
<1> QED BY <1>3, <1>4 DEF Due, p

LEMMA ChatterDue ==
    ASSUME NEW o \in Seq(Event), NEW p, Chatter(o, p), NEW r, KeepsWord(o), Due(o, r)
    PROVE  KeepsWord(p) /\ Due(p, r) /\ p \in Seq(Event)
<1>1. CASE p = o
  BY <1>1
<1>2. CASE p # o
  <2>1. PICK e \in Event : p = o \o <<e>> /\ e.type \notin {"Packet", "AutoPaused", "GroupProgress"}
    BY <1>2 DEF Chatter
  <2> QED BY <2>1, SnocDue, SnocKeeps DEF Marker
<1> QED BY <1>1, <1>2

WordInv == KeepsWord(out) /\ Due(out, GroupReport)

LEMMA NextWordInv == ASSUME TypeOK, LoadInv, WordInv, [Next]_vars PROVE WordInv'
<1> DEFINE r == GroupReport
           q == GroupReport'
<1>0. out \in Seq(Event) /\ KeepsWord(out) /\ Due(out, r)
  BY DEF TypeOK, WordInv
<1>1. channels' = channels => q = r
  BY DEF GroupReport, NextChannel, NextTimes, Notice, EventOf
<1>2. ASSUME channels # <<>>, NEW type \in EventType
      PROVE  NextEvent(type) \in Event /\ NextEvent(type).type = type /\ SamePacket(NextEvent(type), r)
  BY <1>2, NextEventTime DEF NextEvent, GroupReport, EventOf, SamePacket
<1>3. r \in Event /\ r.type = "GroupProgress"
  BY ReportType
<1> SUFFICES KeepsWord(out') /\ Due(out', q)
  BY DEF WordInv
<1> HIDE DEF r, q
<1>4. CASE Speaks
  BY <1>0, <1>1, <1>4, ChatterDue DEF Speaks, Same
<1>5. CASE Reports
  <2>1. PICK o \in Seq(Event) : Chatter(out, o) /\ out' = o \o <<r>>
    BY <1>5 DEF Reports, r
  <2>2. KeepsWord(o) /\ Due(o, r)
    BY <1>0, <2>1, ChatterDue
  <2>3. q = r /\ SamePacket(r, r)
    BY <1>1, <1>5 DEF Reports, Same, SamePacket
  <2> QED BY <1>3, <2>1, <2>2, <2>3, SnocDue
<1>6. CASE Restarts
  <2>1. PICK o \in Seq(Event), e \in Event :
            Chatter(out, o) /\ e.type = "Restarted" /\ out' = o \o <<e>>
    BY <1>6 DEF Restarts
  <2>2. KeepsWord(o) /\ Due(o, r)
    BY <1>0, <2>1, ChatterDue
  <2> QED BY <2>1, <2>2, SnocDue
<1>7. CASE Announces
  <2>1. /\ NextEvent("AutoPaused") \in Event /\ SamePacket(NextEvent("AutoPaused"), r)
        /\ out' = out \o <<NextEvent("AutoPaused")>> /\ q = r
    BY <1>1, <1>2, <1>7 DEF Announces, EventType
  <2> QED BY <1>0, <2>1, SnocDue
<1>8. CASE SendsNext
  <2>1. /\ NextEvent("Packet") \in Event /\ NextEvent("Packet").type = "Packet"
        /\ SamePacket(NextEvent("Packet"), r)
        /\ Chatter(out \o <<NextEvent("Packet")>>, out')
    BY <1>2, <1>8 DEF SendsNext, EventType
  <2>2. KeepsWord(out \o <<NextEvent("Packet")>>) /\ Due(out \o <<NextEvent("Packet")>>, q)
    BY <1>0, <2>1, SnocDue
  <2> QED BY <1>0, <2>1, <2>2, ChatterDue, SnocKeeps
<1>9. CASE Begins
  <2>1. out' = <<>> /\ Len(out') = 0
    BY <1>9 DEF Begins, LoadInv
  <2> QED BY <2>1 DEF KeepsWord, Due
<1> QED BY <1>4, <1>5, <1>6, <1>7, <1>8, <1>9, StepKinds

(* What an auto-pause announces or a report names is what goes out next, or  *)
(* what the next auto-pause holds back, up to a restart.                     *)
THEOREM AnnouncedCorrect == Spec => []AnnouncedIsNext
<1>1. Init => WordInv
  BY DEF Init, WordInv, KeepsWord, Due
<1>2. TypeOK /\ WordInv => AnnouncedIsNext
  <2>1. ASSUME TypeOK PROVE DOMAIN out = 1..Len(out)
    BY <2>1 DEF TypeOK
  <2> QED BY <2>1 DEF WordInv, KeepsWord, AnnouncedIsNext, Settled, SamePacket, Marker
<1> QED
  BY InitTypeOK, NextTypeOK, InitLoaded, NextLoaded, NextWordInv, <1>1, <1>2, PTL DEF Spec

-----------------------------------------------------------------------------
(* Pauses are taken in the order of the file, if that is the order of time.   *)
InTimeOrder(p) == \A i, j \in DOMAIN p : i < j => ~Less(p[j], p[i])

(* The scan stays on the first element when no later one is before it. *)
LEMMA FirstIsLeast ==
    ASSUME NEW t \in Seq(PacketTimes), t # <<>>, InTimeOrder(t)
    PROVE  MinElement(t, Len(t)) = 1
<1> DEFINE n == Len(t)
           best == CHOOSE best : IsScan(best, t, n)
<1>0. n \in Nat /\ n >= 1 /\ DOMAIN t = 1..n
  OBVIOUS
<1> HIDE DEF n
<1>1. IsScan(best, t, n)
  BY <1>0, ScanExists
<1>2. MinElement(t, n) = best[n]
  BY DEF MinElement, IsScan
<1> HIDE DEF best
<1> DEFINE Bad == {k \in 1..n : best[k] # 1}
<1>3. ASSUME Bad # {} PROVE FALSE
  <2>0. Bad \in SUBSET Nat
    BY <1>0
  <2>1. PICK m \in Bad : \A k \in Bad : m <= k
    <3> HIDE DEF Bad
    <3> QED BY <1>3, <2>0, LeastNatural
  <2>2. m \in 1..n /\ best[0] = 0 /\ best[m] = ScanStep(t, m, best[m - 1])
    BY <1>0, <1>1, <2>1 DEF IsScan
  <2>3. CASE m = 1
    BY <1>0, <2>1, <2>2, <2>3 DEF ScanStep
  <2>4. CASE m # 1
    <3>1. m - 1 \in 1..n /\ m - 1 < m
      BY <1>0, <2>2, <2>4
    <3>2. best[m - 1] = 1
      BY <2>1, <3>1
    <3>3. ~Less(t[m], t[1])
      BY <1>0, <2>2, <2>4 DEF InTimeOrder
    <3> QED BY <2>1, <2>2, <3>2, <3>3 DEF ScanStep
  <2> QED BY <2>3, <2>4
<1>4. best[n] = 1
  BY <1>0, <1>3
<1> QED BY <1>2, <1>4 DEF n

(* What is left of a file is its end, place by place. *)
EndOf(s, t) == Len(s) <= Len(t) /\ \A i \in 1..Len(s) : s[i] = t[(Len(t) - Len(s)) + i]

LEMMA EndIsSuffix ==
    ASSUME NEW S, NEW s \in Seq(S), NEW t \in Seq(S), EndOf(s, t)
    PROVE  IsSuffix(s, t)
<1> DEFINE m == Len(s)
           n == Len(t)
           u == Reverse(s)
           v == Reverse(t)
<1>1. /\ m \in Nat /\ n \in Nat /\ m <= n
      /\ \A i \in 1..m : s[i] \in S
      /\ \A i \in 1..n : t[i] \in S
      /\ \A i \in 1..m : s[i] = t[(n - m) + i]
  BY DEF EndOf
<1>2. u = [i \in 1..m |-> s[(m - i) + 1]] /\ v = [i \in 1..n |-> t[(n - i) + 1]]
  BY DEF Reverse
<1> HIDE DEF m, n, u, v
<1>3. u \in Seq(S) /\ Len(u) = m /\ \A i \in 1..m : u[i] = s[(m - i) + 1]
  BY <1>1, <1>2
<1>4. v \in Seq(S) /\ Len(v) = n /\ \A i \in 1..n : v[i] = t[(n - i) + 1]
  BY <1>1, <1>2
<1>5. ASSUME NEW i \in 1..m PROVE u[i] = v[i]
  <2>1. (m - i) + 1 \in 1..m /\ i \in 1..n /\ (n - m) + ((m - i) + 1) = (n - i) + 1
    BY <1>1
  <2>2. s[(m - i) + 1] = t[(n - i) + 1]
    BY <1>1, <2>1
  <2> QED BY <1>3, <1>4, <2>1, <2>2
<1>6. SubSeq(u, 1, m) = SubSeq(v, 1, m)
  BY <1>1, <1>3, <1>4, <1>5
<1> QED BY <1>1, <1>3, <1>4, <1>6 DEF IsSuffix, IsPrefix, u, v

FileOrderInv ==
    /\ scenario.pauses \in Seq(PacketTimes)
    /\ pauses \in Seq(PacketTimes)
    /\ InTimeOrder(scenario.pauses) => EndOf(pauses, scenario.pauses)

LEMMA NextFileOrder == ASSUME TypeOK, FileOrderInv, [Next]_vars PROVE FileOrderInv'
<1> DEFINE file == scenario.pauses
<1>1. scenario' = scenario /\ pauses \in Seq(PacketTimes) /\ file \in Seq(PacketTimes)
  BY SameScenario DEF FileOrderInv
<1>2. CASE ~Announces
  <2>1. pauses' = pauses
    BY <1>2, StepKinds DEF Speaks, Reports, Restarts, SendsNext, Begins, Same
  <2> QED BY <1>1, <2>1 DEF FileOrderInv
<1>3. CASE Announces
  <2>1. /\ NextPause \in 1..Len(pauses)
        /\ pauses' = RemoveAt(pauses, NextPause)
    BY <1>3 DEF Announces
  <2>2. pauses' \in Seq(PacketTimes)
    BY <1>1, <2>1, RemoveAtType
  <2>3. ASSUME InTimeOrder(file) PROVE EndOf(pauses', file)
    <3> DEFINE m == Len(pauses)
               n == Len(file)
    <3>1. EndOf(pauses, file)
      BY <2>3 DEF FileOrderInv
    <3>2. /\ m \in Nat /\ n \in Nat /\ m <= n /\ m >= 1
          /\ DOMAIN pauses = 1..m /\ DOMAIN file = 1..n
          /\ \A i \in 1..m : pauses[i] = file[(n - m) + i] /\ (n - m) + i \in 1..n
      BY <1>1, <2>1, <3>1 DEF EndOf
    <3>3. InTimeOrder(pauses)
      <4>1. ASSUME NEW i \in 1..m, NEW j \in 1..m, i < j PROVE ~Less(pauses[j], pauses[i])
        <5>1. (n - m) + i < (n - m) + j
          BY <3>2, <4>1
        <5> QED BY <2>3, <3>2, <5>1 DEF InTimeOrder
      <4> QED BY <3>2, <4>1 DEF InTimeOrder
    <3>4. NextPause = 1
      <4>1. pauses # <<>>
        BY <3>2
      <4> QED BY <1>1, <3>3, <4>1, FirstIsLeast DEF NextPause
    <3> HIDE DEF m, n
    <3>5. Len(pauses') = m - 1 /\ \A k \in 1..(m - 1) : pauses'[k] = pauses[k + 1]
      <4>1. /\ Len(pauses') = m - 1
            /\ \A k \in 1..(m - 1) : pauses'[k] = pauses[IF k < 1 THEN k ELSE k + 1]
        BY <1>1, <2>1, <3>4, RemoveAtIndex DEF m
      <4> QED BY <3>2, <4>1
    <3>6. ASSUME NEW k \in 1..(m - 1) PROVE pauses'[k] = file[(n - (m - 1)) + k]
      <4>1. k + 1 \in 1..m /\ (n - m) + (k + 1) = (n - (m - 1)) + k
        BY <3>2
      <4> QED BY <3>2, <3>5, <4>1
    <3>7. m - 1 <= n
      BY <3>2
    <3> QED BY <3>5, <3>6, <3>7 DEF EndOf, n
  <2> QED BY <1>1, <2>2, <2>3 DEF FileOrderInv
<1> QED BY <1>2, <1>3

(* README 2.4 says that pauses are processed in the order of the file.  The   *)
(* code takes the earliest; the two are the same for every file in which no   *)
(* pause is before one above it, so they differ for unsorted files only.      *)
THEOREM FileOrderCorrect == Spec => [](InTimeOrder(scenario.pauses) => PausesInFileOrder)
<1>1. Init => FileOrderInv
  <2> SUFFICES ASSUME Init PROVE FileOrderInv
    OBVIOUS
  <2>1. scenario.pauses \in Seq(PauseTimes) /\ pauses = scenario.pauses
    BY DEF Init, Scenario
  <2>2. scenario.pauses \in Seq(PacketTimes)
    <3>1. PauseTimes \subseteq PacketTimes
      BY DEF PauseTimes
    <3> QED BY <2>1, <3>1
  <2>3. EndOf(scenario.pauses, scenario.pauses)
    BY <2>2 DEF EndOf
  <2> QED BY <2>1, <2>2, <2>3 DEF FileOrderInv
<1>2. FileOrderInv => (InTimeOrder(scenario.pauses) => PausesInFileOrder)
  BY EndIsSuffix DEF FileOrderInv, PausesInFileOrder
<1> QED
  BY <1>1, <1>2, InitTypeOK, NextTypeOK, NextFileOrder, PTL DEF Spec
=============================================================================
