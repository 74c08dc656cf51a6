------------------------ MODULE GroupProcessorProofs ------------------------
(***************************************************************************)
(* What holds of a playback thread for any number of channels, any         *)
(* captures and pauses, and any number of messages of the App.             *)
(***************************************************************************)
EXTENDS GroupProcessor, PacketTimeProofs, TLAPS

USE ConstantsAssumption

-----------------------------------------------------------------------------
(* Helpers. *)

(* Removing an element of a sequence leaves a sequence. *)
LEMMA RemoveAtType ==
    ASSUME NEW S, NEW s \in Seq(S), NEW i \in 1..Len(s)
    PROVE  RemoveAt(s, i) \in Seq(S)
<1>1. SubSeq(s, 1, i - 1) \in Seq(S)
  OBVIOUS
<1>2. SubSeq(s, i + 1, Len(s)) \in Seq(S)
  OBVIOUS
<1> QED BY <1>1, <1>2 DEF RemoveAt

(* Every capture of a possible scenario is a capture. *)
LEMMA FileType ==
    ASSUME scenario \in Scenarios, NEW n \in 1..N
    PROVE  /\ FileOf(n) \in File
           /\ FileOf(n).packets \in Seq(Packet)
           /\ Len(FileOf(n).packets) \in Nat
           /\ FileOf(n).end \in {"eof", "error", "missing", "none"}
<1>1. scenario \in Scenario
  OBVIOUS
<1>2. scenario.files \in [1..N -> File]
  BY <1>1 DEF Scenario
<1>3. FileOf(n) \in File
  BY <1>2 DEF FileOf
<1> QED BY <1>3 DEF File

(* A source within its capture, and the same after a read. *)
Within(n, s) == s \in Source /\ s.pos <= Len(FileOf(n).packets)

LEMMA ReadNextWithin ==
    ASSUME scenario \in Scenarios, NEW n \in 1..N, NEW s, Within(n, s)
    PROVE  Within(n, ReadNext(n, s))
<1> DEFINE p == FileOf(n).packets[s.pos + 1]
<1>1. s \in Source /\ s.pos \in Nat /\ s.pos <= Len(FileOf(n).packets)
  BY DEF Within, Source
<1>2. CASE ReadCode(n, s.pos) = "success"
  <2>1. s.pos < Len(FileOf(n).packets)
    BY <1>2, FileType DEF ReadCode
  <2>2. p \in Packet
    BY <1>1, <2>1, FileType
  <2>3. p.size \in Nat /\ p.time \in PacketTimes
    BY <2>2 DEF Packet, CaptureTimes
  <2>4. PICK z \in Nat, t \in PacketTimes : z = p.size /\ t = p.time
    BY <2>3
  <2>5. ReadNext(n, s) = [pos |-> s.pos + 1, cur |-> s.cur + s.size, size |-> z,
                          time |-> t, sent |-> s.sent]
    BY <1>2, <2>4 DEF ReadNext
  <2>7. ReadNext(n, s) \in Source /\ ReadNext(n, s).pos = s.pos + 1
    BY <1>1, <2>4, <2>5 DEF Source
  <2>6. Len(FileOf(n).packets) \in Nat
    BY FileType
  <2> QED BY <1>1, <2>1, <2>6, <2>7 DEF Within
<1>3. CASE ReadCode(n, s.pos) # "success"
  BY <1>1, <1>3 DEF ReadNext, Within, Source
<1> QED BY <1>2, <1>3

LEMMA RestartWithin ==
    ASSUME scenario \in Scenarios, NEW n \in 1..N, NEW s, Within(n, s)
    PROVE  Within(n, RestartSource(n, s))
<1> DEFINE r == [s EXCEPT !.pos = 0, !.cur = 0, !.sent = 0]
<1>1. r \in Source /\ r.pos = 0
  BY DEF Within, Source
<1>2. Len(FileOf(n).packets) \in Nat
  BY FileType
<1>3. Within(n, r)
  BY <1>1, <1>2 DEF Within
<1> QED BY <1>3, ReadNextWithin DEF RestartSource

LEMMA NewSourceWithin ==
    ASSUME scenario \in Scenarios, NEW n \in 1..N
    PROVE  Within(n, NewSource)
<1>1. NoTime \in PacketTimes
  BY DEF NoTime, PacketTimes, Stamp, Field, Missing
<1>2. NewSource \in Source /\ NewSource.pos = 0
  BY <1>1 DEF Source, NewSource
<1>3. Len(FileOf(n).packets) \in Nat
  BY FileType
<1> QED BY <1>2, <1>3 DEF Within
-----------------------------------------------------------------------------
(* Type correctness. *)

(* The channel and the pause ProcessPacket looks at exist. *)
LEMMA NextExists ==
    ASSUME TypeOK
    PROVE  /\ channels # <<>> => NextChannel \in DOMAIN channels
           /\ NextPause # 0 => NextPause \in 1..Len(pauses)
<1>1. DOMAIN NextTimes = DOMAIN channels /\ DOMAIN channels \subseteq 1..N
  BY DEF NextTimes, TypeOK
<1>2. ASSUME channels # <<>>, DOMAIN channels = {} PROVE FALSE
  BY <1>2 DEF TypeOK
<1>3. channels # <<>> => NextChannel \in DOMAIN channels
  BY <1>1, <1>2, MinElementInDomain DEF NextChannel
<1>4. Len(pauses) \in Nat /\ DOMAIN pauses = 1..Len(pauses)
  BY DEF TypeOK
<1>5. NextPause # 0 => NextPause \in 1..Len(pauses)
  BY <1>4, MinElementInDomain DEF NextPause
<1> QED BY <1>3, <1>5

(* Events are events, and emitting them keeps the history well typed. *)
LEMMA EventTypes ==
    ASSUME TypeOK
    PROVE  /\ \A t \in EventType : Notice(t) \in Event
           /\ \A t \in EventType : PerChannel(t) \in Event
           /\ channels # <<>> => \A t \in EventType :
                  EventOf(t, {NextChannel}, channels[NextChannel].pos) \in Event
<1>1. \A t \in EventType : Notice(t) \in Event
  BY DEF Notice, EventOf, Event
<1>2. \A t \in EventType : PerChannel(t) \in Event
  BY DEF PerChannel, EventOf, Event, TypeOK
<1>3. ASSUME channels # <<>>, NEW t \in EventType
      PROVE  EventOf(t, {NextChannel}, channels[NextChannel].pos) \in Event
  <2>1. NextChannel \in DOMAIN channels /\ NextChannel \in 1..N
    BY <1>3, NextExists DEF TypeOK
  <2>2. channels[NextChannel] \in Source
    BY <2>1 DEF TypeOK
  <2>3. channels[NextChannel].pos \in Nat
    BY <2>2 DEF Source
  <2> QED BY <1>3, <2>1, <2>3 DEF EventOf, Event
<1> QED BY <1>1, <1>2, <1>3

LEMMA ReportType == ASSUME TypeOK PROVE GroupReport \in Event /\ GroupReport.type = "GroupProgress"
<1>1. CASE channels = <<>>
  BY <1>1, EventTypes DEF GroupReport, EventType, Notice, EventOf
<1>2. CASE channels # <<>>
  <2>1. EventOf("GroupProgress", {NextChannel}, channels[NextChannel].pos) \in Event
    BY <1>2, EventTypes DEF EventType
  <2> QED BY <1>2, <2>1 DEF GroupReport, EventOf
<1> QED BY <1>1, <1>2

LEMMA EmitType ==
    ASSUME out \in Seq(Event), NEW events \in Seq(Event), Emit(events)
    PROVE  out' \in Seq(Event)
BY DEF Emit

(* The initial states are well typed. *)
LEMMA InitTypeOK == Init => TypeOK
<1> SUFFICES ASSUME Init PROVE TypeOK
  OBVIOUS
<1>1. pauses \in Seq(PacketTimes)
  <2>1. scenario \in Scenario
    BY DEF Init
  <2>2. scenario.pauses \in Seq(PauseTimes) /\ PauseTimes \subseteq PacketTimes
    BY <2>1 DEF Scenario, PauseTimes
  <2> QED BY <2>2 DEF Init
<1>2. oob \in Seq(OobMessage)
  BY DEF Init, OobMessage
<1>3. /\ DOMAIN channels \subseteq 1..N
      /\ channels \in [DOMAIN channels -> Source]
      /\ \A n \in DOMAIN channels : channels[n].pos <= Len(FileOf(n).packets)
  BY DEF Init
<1>4. out \in Seq(Event) /\ start \in 0..now
  BY DEF Init
<1> QED BY <1>1, <1>2, <1>3, <1>4 DEF Init, TypeOK

-----------------------------------------------------------------------------
(* The channels of a well-typed state, and the steps that change them. *)
ChannelsOK(c) ==
    /\ DOMAIN c \subseteq 1..N
    /\ c \in [DOMAIN c -> Source]
    /\ \A n \in DOMAIN c : c[n].pos <= Len(FileOf(n).packets)

LEMMA ChannelsWithin ==
    ASSUME TypeOK
    PROVE  \A n \in DOMAIN channels : n \in 1..N /\ Within(n, channels[n])
BY DEF TypeOK, Within

LEMMA StartChannels ==
    ASSUME TypeOK, channels' = [n \in Described |-> ReadNext(n, NewSource)]
    PROVE  ChannelsOK(channels')
<1>1. \A n \in 1..N : Within(n, ReadNext(n, NewSource))
  BY NewSourceWithin, ReadNextWithin DEF TypeOK
<1>2. Described \subseteq 1..N
  BY DEF Described
<1>3. \A n \in Described : Within(n, ReadNext(n, NewSource))
  BY <1>1, <1>2
<1>4. DOMAIN channels' = Described /\ \A n \in Described : Within(n, channels'[n])
  BY <1>3
<1> QED BY <1>2, <1>4 DEF ChannelsOK, Within

LEMMA RestartChannels ==
    ASSUME TypeOK, channels' = [n \in DOMAIN channels |-> RestartSource(n, channels[n])]
    PROVE  ChannelsOK(channels')
<1>1. \A n \in DOMAIN channels : n \in 1..N /\ Within(n, RestartSource(n, channels[n]))
  BY ChannelsWithin, RestartWithin DEF TypeOK
<1> QED BY <1>1 DEF ChannelsOK, Within

LEMMA EraseChannels ==
    ASSUME TypeOK, NEW n, EraseChannel(n)
    PROVE  ChannelsOK(channels')
BY DEF EraseChannel, ChannelsOK, TypeOK

LEMMA SendChannels ==
    ASSUME TypeOK, NEW n \in DOMAIN channels,
           channels' = [channels EXCEPT ![n] =
               ReadNext(n, [channels[n] EXCEPT !.sent = @ + channels[n].size])]
    PROVE  ChannelsOK(channels')
<1> DEFINE s == [channels[n] EXCEPT !.sent = @ + channels[n].size]
<1>1. n \in 1..N /\ channels[n] \in Source /\ channels[n].pos <= Len(FileOf(n).packets)
  BY ChannelsWithin DEF Within
<1>2. s \in Source /\ s.pos = channels[n].pos
  BY <1>1 DEF Source
<1>3. Within(n, s)
  BY <1>1, <1>2 DEF Within
<1> HIDE DEF s
<1>4. Within(n, ReadNext(n, s))
  BY <1>1, <1>3, ReadNextWithin DEF TypeOK
<1>5. channels' = [channels EXCEPT ![n] = ReadNext(n, s)]
  BY DEF s
<1> QED BY <1>4, <1>5, ChannelsWithin DEF ChannelsOK, Within, TypeOK

(* TypeOK in two parts: the channels and everything else. *)
RestOK ==
    /\ pc \in {"init", "oob", "packet", "check", "teardown", "done", "failed"}
    /\ state \in {"pause", "play", "die"}
    /\ oob \in Seq(OobMessage)
    /\ pauses \in Seq(PacketTimes)
    /\ start \in 0..now
    /\ prev \in Nat
    /\ out \in Seq(Event)
    /\ now \in Nat
    /\ played \in Nat
    /\ pushed \in Nat

LEMMA TypeParts ==
    ASSUME TypeOK, scenario' = scenario, ChannelsOK(channels'), RestOK'
    PROVE  TypeOK'
BY DEF TypeOK, RestOK, ChannelsOK, FileOf

LEMMA SameChannels ==
    ASSUME TypeOK, UNCHANGED channels
    PROVE  ChannelsOK(channels')
BY DEF TypeOK, ChannelsOK

(* What the two toggling helpers leave behind. *)
LEMMA TogglePauseType ==
    ASSUME TypeOK, TogglePause \/ \E paused \in BOOLEAN : SetPauseState(paused)
    PROVE  /\ state' \in {"pause", "play", "die"}
           /\ start' \in 0..now
           /\ prev' \in Nat
BY DEF TypeOK, TogglePause, SetPauseState

(* A logged exception. *)
LEMMA ThrowType ==
    ASSUME TypeOK, Ours, NEW events \in Seq(Event), Throw(events)
    PROVE  RestOK'
<1>1. Notice("LogMessage") \in Event
  BY EventTypes DEF EventType
<1>2. events \o <<Notice("LogMessage")>> \in Seq(Event)
  BY <1>1
<1>3. out' \in Seq(Event)
  BY <1>2, EmitType DEF Throw, TypeOK
<1> QED BY <1>3 DEF Throw, Ours, TypeOK, RestOK

LEMMA ThrowNothingType ==
    ASSUME TypeOK, Ours, Throw(<<>>)
    PROVE  RestOK'
<1>1. <<>> \in Seq(Event)
  OBVIOUS
<1> QED BY <1>1, ThrowType

(* Handling a message takes it from the queue and leaves the thread in place. *)
LEMMA HandleType ==
    ASSUME TypeOK, NEW m, Handle(m)
    PROVE  /\ oob' \in Seq(OobMessage)
           /\ pc' = "oob"
           /\ UNCHANGED <<scenario, now, pushed>>
BY DEF Handle, Ours, TypeOK

(* Every step keeps the types. *)
LEMMA NextTypeOK == TypeOK /\ [Next]_vars => TypeOK'
<1> SUFFICES ASSUME TypeOK, [Next]_vars PROVE TypeOK'
  OBVIOUS
<1> DEFINE next == EventOf("Packet", {NextChannel}, channels[NextChannel].pos)
<1>0. /\ Notice("Paused") \in Event /\ Notice("Resumed") \in Event
      /\ GroupReport \in Event /\ Notice("ThreadDead") \in Event
      /\ PerChannel("Restarted") \in Event /\ PerChannel("ChannelProgress") \in Event
  BY EventTypes, ReportType DEF EventType
<1>1. CASE Push
  <2>1. oob' \in Seq(OobMessage)
    <3>1. Messages[scenario] \subseteq OobMessage
      BY DriveAssumption DEF TypeOK
    <3> QED BY <1>1, <3>1 DEF Push, TypeOK
  <2>2. RestOK' /\ UNCHANGED <<scenario, channels>>
    BY <1>1, <2>1 DEF Push, groupVars, TypeOK, RestOK
  <2> QED BY <2>2, TypeParts, SameChannels
<1>2. CASE Tick
  <2>1. start' \in 0..now'
    BY <1>2 DEF Tick, groupVars, TypeOK
  <2>2. RestOK' /\ UNCHANGED <<scenario, channels>>
    BY <1>2, <2>1 DEF Tick, groupVars, TypeOK, RestOK
  <2> QED BY <2>2, TypeParts, SameChannels
<1>3. CASE Start
  <2>1. CASE \A n \in Described : Openable(n)
    <3>1. channels' = [n \in Described |-> ReadNext(n, NewSource)]
      BY <1>3, <2>1 DEF Start
    <3>2. RestOK'
      BY <1>3, <2>1 DEF Start, Ours, TypeOK, RestOK
    <3> QED BY <1>3, <3>1, <3>2, StartChannels, TypeParts DEF Start, Ours
  <2>2. CASE \E n \in Described : ~Openable(n)
    <3>1. Throw(<<>>) /\ UNCHANGED channels /\ Ours
      BY <1>3, <2>2 DEF Start
    <3>2. RestOK'
      BY <3>1, ThrowNothingType
    <3> QED BY <3>1, <3>2, SameChannels, TypeParts DEF Ours
  <2> QED BY <2>1, <2>2
<1>4. CASE HandleTogglePause
  <2>1. out' \in Seq(Event)
    BY <1>0, <1>4, SMTT(30) DEF HandleTogglePause, Emit, TypeOK
  <2>2. Handle("TogglePause") /\ TogglePause /\ UNCHANGED <<channels, pauses, played>>
    BY <1>4 DEF HandleTogglePause
  <2>3. RestOK'
    BY <2>1, <2>2, HandleType, TogglePauseType DEF TypeOK, RestOK
  <2> QED BY <2>2, <2>3, HandleType, TypeParts, SameChannels
<1>5. CASE HandleSetPauseState
  <2>1. out' \in Seq(Event)
    BY <1>0, <1>5, SMTT(30) DEF HandleSetPauseState, Emit, TypeOK
  <2>2. PICK paused \in BOOLEAN :
            /\ Handle(IF paused THEN "SetPause" ELSE "SetResume")
            /\ SetPauseState(paused)
            /\ UNCHANGED <<channels, pauses, played>>
    BY <1>5 DEF HandleSetPauseState
  <2>3. RestOK'
    BY <2>1, <2>2, HandleType, TogglePauseType DEF TypeOK, RestOK
  <2> QED BY <2>2, <2>3, HandleType, TypeParts, SameChannels
<1>6. CASE HandleThreadDie
  BY <1>6, HandleType, TypeParts, SameChannels DEF HandleThreadDie, TypeOK, RestOK
<1>7. CASE HandleRestart
  <2>1. out' \in Seq(Event)
    BY <1>0, <1>7, SMTT(30) DEF HandleRestart, Emit, TypeOK
  <2>2. ChannelsOK(channels')
    BY <1>7, RestartChannels DEF HandleRestart
  <2> QED BY <1>7, <2>1, <2>2, HandleType, TypeParts DEF HandleRestart, TypeOK, RestOK
<1>8. CASE HandleRequestProgress
  <2>1. out' \in Seq(Event)
    BY <1>0, <1>8, SMTT(30) DEF HandleRequestProgress, Emit, TypeOK
  <2> QED BY <1>8, <2>1, HandleType, TypeParts, SameChannels
          DEF HandleRequestProgress, TypeOK, RestOK
<1>9. CASE LeaveOOBQueue
  <2>1. pc' \in {"teardown", "packet", "check"}
    BY <1>9 DEF LeaveOOBQueue, TypeOK
  <2> QED BY <1>9, <2>1, TypeParts, SameChannels DEF LeaveOOBQueue, Ours, TypeOK, RestOK
<1>10. CASE NoChannelLeft
  BY <1>10, ThrowNothingType, TypeParts, SameChannels DEF NoChannelLeft, Ours
<1>11. CASE AutoPause
  <2>1. EventOf("AutoPaused", {NextChannel}, channels[NextChannel].pos) \in Event
    BY <1>11, EventTypes DEF AutoPause, EventType
  <2>2. out' \in Seq(Event)
    BY <1>11, <2>1, SMTT(30) DEF AutoPause, Emit, TypeOK
  <2>3. pauses' \in Seq(PacketTimes)
    BY <1>11, NextExists, RemoveAtType DEF AutoPause, PauseDue, TypeOK
  <2> QED BY <1>11, <2>2, <2>3, TogglePauseType, TypeParts, SameChannels
          DEF AutoPause, Ours, TypeOK, RestOK
<1>12. CASE SendPacket
  <2>1. next \in Event /\ NextChannel \in DOMAIN channels
    BY <1>12, EventTypes, NextExists DEF SendPacket, EventType
  <2>2. ChannelsOK(channels')
    BY <1>12, <2>1, SendChannels, EraseChannels DEF SendPacket
  <2>3. RestOK'
    <3>0. next = EventOf("Packet", {NextChannel}, [channels[NextChannel] EXCEPT !.sent = @ + channels[NextChannel].size].pos)
      <4>1. channels[NextChannel] \in Source
        BY <2>1 DEF TypeOK
      <4> QED BY <4>1 DEF Source
    <3>1. \/ Throw(<<next>>)
          \/ /\ Emit(<<next>>)
             /\ pc' = "check"
             /\ UNCHANGED <<state, pauses, start, prev, oob, played>>
      BY <1>12, <3>0 DEF SendPacket
    <3>2. <<next>> \in Seq(Event) /\ Ours
      BY <1>12, <2>1 DEF SendPacket
    <3> HIDE DEF next
    <3> QED BY <3>1, <3>2, ThrowType, EmitType DEF Ours, TypeOK, RestOK
  <2> QED BY <1>12, <2>2, <2>3, TypeParts DEF SendPacket, Ours
<1>13. CASE SendFails
  <2>1. next \in Event
    BY <1>13, EventTypes DEF SendFails, EventType
  <2>2. <<next>> \in Seq(Event)
    BY <2>1
  <2>3. Ours /\ UNCHANGED channels /\ (Throw(<<>>) \/ Throw(<<next>>))
    BY <1>13 DEF SendFails
  <2> HIDE DEF next
  <2>4. RestOK'
    BY <2>2, <2>3, ThrowType, ThrowNothingType
  <2> QED BY <2>3, <2>4, TypeParts, SameChannels DEF Ours
<1>14. CASE CheckChannels
  BY <1>14, TypeParts, SameChannels DEF CheckChannels, Ours, TypeOK, RestOK
<1>15. CASE Teardown
  <2>1. out' \in Seq(Event)
    BY <1>0, <1>15, SMTT(30) DEF Teardown, Emit, TypeOK
  <2> QED BY <1>15, <2>1, TypeParts, SameChannels DEF Teardown, Ours, TypeOK, RestOK
<1>16. CASE UNCHANGED vars
  BY <1>16 DEF vars, groupVars, TypeOK, FileOf
<1> QED
  BY <1>1, <1>2, <1>3, <1>4, <1>5, <1>6, <1>7, <1>8, <1>9, <1>10, <1>11, <1>12, <1>13, <1>14,
     <1>15, <1>16 DEF Next, Thread, ProcessOOBQueue, ProcessPacket

(* The playback thread keeps to its types. *)
THEOREM TypeCorrect == Spec => []TypeOK
BY InitTypeOK, NextTypeOK, PTL DEF Spec

-----------------------------------------------------------------------------
(* Elapsed time. *)

(* The elapsed time is the time played, however often the group is paused,   *)
(* resumed, auto-paused and restarted.                                       *)
THEOREM ElapsedCorrect == Spec => []ElapsedExact
<1>1. Init => ElapsedExact
  BY DEF Init, ElapsedExact
<1>2. TypeOK /\ ElapsedExact /\ [Next]_vars => ElapsedExact'
  <2> SUFFICES ASSUME TypeOK, ElapsedExact, [Next]_vars PROVE ElapsedExact'
    OBVIOUS
  <2>0. state \in {"pause", "play", "die"} /\ start \in Nat /\ start <= now /\ prev \in Nat /\ now \in Nat /\ played \in Nat
    BY DEF TypeOK
  <2>1. CASE Tick
    BY <2>0, <2>1 DEF Tick, groupVars, ElapsedExact
  <2>2. CASE HandleTogglePause
    BY <2>0, <2>2 DEF HandleTogglePause, Handle, Ours, TogglePause, ElapsedExact
  <2>3. CASE HandleSetPauseState
    BY <2>0, <2>3 DEF HandleSetPauseState, SetPauseState, Handle, Ours, TogglePause, ElapsedExact
  <2>4. CASE HandleThreadDie
    BY <2>4 DEF HandleThreadDie, ElapsedExact
  <2>5. CASE HandleRestart
    BY <2>5 DEF HandleRestart, ElapsedExact
  <2>6. CASE AutoPause
    BY <2>0, <2>6 DEF AutoPause, SetPauseState, Ours, TogglePause, ElapsedExact
  <2>7. CASE CheckChannels
    BY <2>7 DEF CheckChannels, Ours, ElapsedExact
  <2>8. CASE UNCHANGED <<state, start, prev, now, played>>
    BY <2>8 DEF ElapsedExact
  <2>9. Push \/ Start \/ HandleRequestProgress \/ LeaveOOBQueue \/ NoChannelLeft
            \/ SendPacket \/ SendFails \/ Teardown \/ UNCHANGED vars
        => UNCHANGED <<state, start, prev, now, played>>
    BY DEF Push, Start, HandleRequestProgress, Handle, LeaveOOBQueue, NoChannelLeft, SendPacket,
           SendFails, Teardown, Throw, Ours, vars, groupVars
  <2> QED
    BY <2>1, <2>2, <2>3, <2>4, <2>5, <2>6, <2>7, <2>8, <2>9
       DEF Next, Thread, ProcessOOBQueue, ProcessPacket
<1> QED BY <1>1, <1>2, TypeCorrect, PTL DEF Spec

-----------------------------------------------------------------------------
(* What the notices in a history say, and how one more event changes it. *)
Running(o, i) ==
    \E k \in 1..i : /\ o[k].type = "Resumed"
                    /\ \A l \in (k + 1)..i : o[l].type \notin {"Paused", "AutoPaused"}

Quiet(o) == \A i \in 1..Len(o) : o[i].type = "Packet" => Running(o, i)

LEMMA SnocKeeps ==
    ASSUME NEW o \in Seq(Event), NEW e \in Event
    PROVE  /\ o \o <<e>> \in Seq(Event)
           /\ Len(o \o <<e>>) = Len(o) + 1
           /\ (o \o <<e>>)[Len(o) + 1] = e
           /\ \A i \in 1..Len(o) : /\ (o \o <<e>>)[i] = o[i]
                                   /\ Running(o \o <<e>>, i) <=> Running(o, i)
<1> DEFINE p == o \o <<e>>
<1>1. /\ p \in Seq(Event)
      /\ Len(p) = Len(o) + 1
      /\ p[Len(o) + 1] = e
      /\ \A i \in 1..Len(o) : p[i] = o[i]
  OBVIOUS
<1> HIDE DEF p
<1>2. ASSUME NEW i \in 1..Len(o) PROVE Running(p, i) <=> Running(o, i)
  <2>1. \A k \in 1..i : p[k] = o[k] /\ \A l \in (k + 1)..i : p[l] = o[l]
    BY <1>1
  <2> QED BY <2>1 DEF Running
<1> QED BY <1>1, <1>2 DEF p

(* An event that is no notice changes nothing; a packet needs the group to play. *)
LEMMA SnocInert ==
    ASSUME NEW o \in Seq(Event), NEW e \in Event, Quiet(o),
           e.type \notin {"Resumed", "Paused", "AutoPaused"},
           e.type = "Packet" => Running(o, Len(o))
    PROVE  /\ Quiet(o \o <<e>>)
           /\ Running(o \o <<e>>, Len(o) + 1) <=> Running(o, Len(o))
<1> DEFINE p == o \o <<e>>
<1>1. /\ Len(p) = Len(o) + 1
      /\ p[Len(o) + 1] = e
      /\ \A i \in 1..Len(o) : p[i] = o[i] /\ (Running(p, i) <=> Running(o, i))
  BY SnocKeeps
<1> HIDE DEF p
<1>2. Running(p, Len(o) + 1) <=> Running(o, Len(o))
  <2>1. ASSUME Running(o, Len(o)) PROVE Running(p, Len(o) + 1)
    <3>1. PICK k \in 1..Len(o) : /\ o[k].type = "Resumed"
                                 /\ \A l \in (k + 1)..Len(o) : o[l].type \notin {"Paused", "AutoPaused"}
      BY <2>1 DEF Running
    <3>2. \A l \in (k + 1)..(Len(o) + 1) : p[l].type \notin {"Paused", "AutoPaused"}
      BY <1>1, <3>1
    <3> QED BY <1>1, <3>1, <3>2 DEF Running
  <2>2. ASSUME Running(p, Len(o) + 1) PROVE Running(o, Len(o))
    <3>1. PICK k \in 1..(Len(o) + 1) :
              /\ p[k].type = "Resumed"
              /\ \A l \in (k + 1)..(Len(o) + 1) : p[l].type \notin {"Paused", "AutoPaused"}
      BY <2>2 DEF Running
    <3>2. k \in 1..Len(o)
      BY <1>1, <3>1
    <3> QED BY <1>1, <3>1, <3>2 DEF Running
  <2> QED BY <2>1, <2>2
<1>3. Quiet(p)
  <2>1. ASSUME NEW i \in 1..Len(p), p[i].type = "Packet" PROVE Running(p, i)
    <3>1. CASE i = Len(o) + 1
      BY <1>1, <1>2, <2>1, <3>1
    <3>2. CASE i \in 1..Len(o)
      BY <1>1, <2>1, <3>2 DEF Quiet
    <3> QED BY <1>1, <3>1, <3>2
  <2> QED BY <2>1 DEF Quiet
<1> QED BY <1>2, <1>3 DEF p

(* A notice says whether the group plays from here on. *)
LEMMA SnocNotice ==
    ASSUME NEW o \in Seq(Event), NEW e \in Event, Quiet(o),
           e.type \in {"Resumed", "Paused", "AutoPaused"}
    PROVE  /\ Quiet(o \o <<e>>)
           /\ Running(o \o <<e>>, Len(o) + 1) <=> e.type = "Resumed"
<1> DEFINE p == o \o <<e>>
<1>1. /\ Len(p) = Len(o) + 1
      /\ p[Len(o) + 1] = e
      /\ \A i \in 1..Len(o) : p[i] = o[i] /\ (Running(p, i) <=> Running(o, i))
  BY SnocKeeps
<1> HIDE DEF p
<1>2. ASSUME e.type = "Resumed" PROVE Running(p, Len(o) + 1)
  BY <1>1, <1>2 DEF Running
<1>3. ASSUME e.type # "Resumed" PROVE ~Running(p, Len(o) + 1)
  <2>1. ASSUME NEW k \in 1..(Len(o) + 1), p[k].type = "Resumed"
        PROVE  \E l \in (k + 1)..(Len(o) + 1) : p[l].type \in {"Paused", "AutoPaused"}
    BY <1>1, <1>3, <2>1
  <2> QED BY <2>1 DEF Running
<1>4. Quiet(p)
  BY <1>1 DEF Quiet
<1> QED BY <1>2, <1>3, <1>4 DEF p

-----------------------------------------------------------------------------
(* The notices tell the App the truth, and no packet goes out while they say *)
(* that the group is paused.  A packet is processed only in play_state.      *)
NoticeInv ==
    /\ NoticesMatchState
    /\ QuietWhilePaused
    /\ pc = "packet" => state = "play"

(* The invariant as a statement about a history and a state. *)
Truthful(o, s) == Quiet(o) /\ (s # "die" => (s = "play" <=> Running(o, Len(o))))

LEMMA NoticeInvMeaning ==
    TypeOK => (NoticesMatchState /\ QuietWhilePaused <=> Truthful(out, state))
<1> SUFFICES ASSUME TypeOK
             PROVE  NoticesMatchState /\ QuietWhilePaused <=> Truthful(out, state)
  OBVIOUS
<1>1. DOMAIN out = 1..Len(out)
  BY DEF TypeOK
<1>2. ASSUME NEW i PROVE RunningAt(i) <=> Running(out, i)
  BY DEF RunningAt, Running
<1>3. QuietWhilePaused <=> Quiet(out)
  BY <1>1, <1>2 DEF QuietWhilePaused, Quiet, Sends
<1>4. NoticesMatchState <=> (state # "die" => (state = "play" <=> Running(out, Len(out))))
  BY <1>2 DEF NoticesMatchState
<1> QED BY <1>3, <1>4 DEF Truthful

LEMMA SnocTruthful ==
    ASSUME NEW o \in Seq(Event), NEW e \in Event, NEW s, NEW t, Truthful(o, s),
           \/ e.type = "Resumed" /\ t = "play"
           \/ e.type \in {"Paused", "AutoPaused"} /\ t = "pause"
           \/ /\ e.type \notin {"Resumed", "Paused", "AutoPaused"}
              /\ e.type = "Packet" => s = "play"
              /\ t = s
    PROVE  Truthful(o \o <<e>>, t) /\ o \o <<e>> \in Seq(Event)
<1>1. o \o <<e>> \in Seq(Event) /\ Len(o \o <<e>>) = Len(o) + 1
  BY SnocKeeps
<1>2. CASE e.type \in {"Resumed", "Paused", "AutoPaused"}
  BY <1>1, <1>2, SnocNotice DEF Truthful
<1>3. CASE e.type \notin {"Resumed", "Paused", "AutoPaused"}
  BY <1>1, <1>3, SnocInert DEF Truthful
<1> QED BY <1>1, <1>2, <1>3

LEMMA TwoEvents ==
    ASSUME NEW o \in Seq(Event), NEW d \in Event, NEW e \in Event
    PROVE  o \o (<<d>> \o <<e>>) = (o \o <<d>>) \o <<e>>
OBVIOUS

(* The thread dies with an exception: the log line is no notice. *)
LEMMA ThrowTruthful ==
    ASSUME TypeOK, Truthful(out, state), Throw(<<>>)
    PROVE  Truthful(out', state')
<1>1. Notice("LogMessage") \in Event /\ Notice("LogMessage").type = "LogMessage"
  BY EventTypes DEF EventType, Notice, EventOf
<1>2. out' = out \o <<Notice("LogMessage")>> /\ state' = state
  BY <1>1 DEF Throw, Emit, TypeOK
<1>3. out \in Seq(Event)
  BY DEF TypeOK
<1> HIDE DEF Truthful
<1> QED BY <1>1, <1>2, <1>3, SnocTruthful

LEMMA ThrowPacketTruthful ==
    ASSUME TypeOK, Truthful(out, state), state = "play",
           NEW e \in Event, e.type = "Packet", Throw(<<e>>)
    PROVE  Truthful(out', state')
<1> DEFINE logged == Notice("LogMessage")
<1>1. logged \in Event /\ logged.type = "LogMessage"
  BY EventTypes DEF EventType, Notice, EventOf
<1> HIDE DEF logged
<1>2. out \in Seq(Event)
  BY DEF TypeOK
<1>3. out' = (out \o <<e>>) \o <<logged>> /\ state' = state
  BY <1>1, <1>2, TwoEvents DEF Throw, Emit, logged
<1>4. Truthful(out \o <<e>>, state) /\ out \o <<e>> \in Seq(Event)
  BY <1>2, SnocTruthful
<1> QED BY <1>1, <1>3, <1>4, SnocTruthful

LEMMA NextTruthful ==
    ASSUME TypeOK, [Next]_vars, Truthful(out, state), pc = "packet" => state = "play"
    PROVE  Truthful(out', state') /\ (pc' = "packet" => state' = "play")
<1> DEFINE at(type) == EventOf(type, {NextChannel}, channels[NextChannel].pos)
<1>0. /\ out \in Seq(Event)
      /\ state \in {"pause", "play", "die"}
      /\ \A t \in EventType : /\ Notice(t) \in Event /\ Notice(t).type = t
                             /\ PerChannel(t) \in Event /\ PerChannel(t).type = t
  BY EventTypes DEF TypeOK, Notice, PerChannel, EventOf
<1>00. channels # <<>> => \A t \in EventType : at(t) \in Event /\ at(t).type = t
  BY EventTypes DEF EventOf
<1>1. CASE HandleTogglePause
  <2>1. PICK e \in {Notice("Paused"), Notice("Resumed")} :
            /\ out' = out \o <<e>>
            /\ \/ e.type = "Resumed" /\ state' = "play"
               \/ e.type = "Paused" /\ state' = "pause"
    BY <1>0, <1>1 DEF HandleTogglePause, TogglePause, Emit, EventType
  <2>2. e \in Event
    BY <1>0, <2>1 DEF EventType
  <2>3. pc' # "packet"
    BY <1>1, HandleType DEF HandleTogglePause
  <2> QED BY <1>0, <2>1, <2>2, <2>3, SnocTruthful
<1>2. CASE HandleSetPauseState
  <2>1. PICK e \in {Notice("Paused"), Notice("Resumed")} :
            /\ out' = out \o <<e>>
            /\ \/ e.type = "Resumed" /\ state' = "play"
               \/ e.type = "Paused" /\ state' = "pause"
    <3>1. PICK paused \in BOOLEAN :
              /\ Handle(IF paused THEN "SetPause" ELSE "SetResume")
              /\ SetPauseState(paused)
              /\ Emit(<<Notice(IF paused THEN "Paused" ELSE "Resumed")>>)
      BY <1>2 DEF HandleSetPauseState
    <3>2. state' = IF paused THEN "pause" ELSE "play"
      BY <1>0, <3>1 DEF SetPauseState, TogglePause, Handle
    <3> QED BY <1>0, <3>1, <3>2 DEF Emit, EventType
  <2>2. e \in Event
    BY <1>0, <2>1 DEF EventType
  <2>3. pc' # "packet"
    BY <1>2, HandleType DEF HandleSetPauseState
  <2> QED BY <1>0, <2>1, <2>2, <2>3, SnocTruthful
<1>3. CASE HandleThreadDie
  BY <1>3, HandleType DEF HandleThreadDie, Truthful
<1>4. CASE HandleRestart
  <2>1. state' = "pause" /\ pc' # "packet"
    BY <1>4, HandleType DEF HandleRestart
  <2>2. CASE state = "play"
    <3>1. PICK d, e \in Event : /\ out' = out \o (<<d>> \o <<e>>)
                               /\ d.type = "Paused" /\ e.type = "Restarted"
      BY <1>0, <1>4, <2>2 DEF HandleRestart, Emit, EventType
    <3>2. out' = (out \o <<d>>) \o <<e>>
      BY <1>0, <3>1, TwoEvents
    <3>3. Truthful(out \o <<d>>, "pause") /\ out \o <<d>> \in Seq(Event)
      BY <1>0, <3>1, SnocTruthful
    <3> QED BY <2>1, <3>1, <3>2, <3>3, SnocTruthful
  <2>3. CASE state = "pause"
    <3> DEFINE r == PerChannel("Restarted")
    <3>0. r \in Event /\ r.type = "Restarted"
      BY <1>0 DEF EventType
    <3> HIDE DEF r
    <3>1. PICK e \in Event : out' = out \o <<e>> /\ e.type = "Restarted"
      <4>1. <<>> \o <<r>> = <<r>>
        BY <3>0
      <4> QED BY <1>4, <2>3, <3>0, <4>1 DEF HandleRestart, Emit, r
    <3> QED BY <1>0, <2>1, <2>3, <3>1, SnocTruthful
  <2> QED BY <1>0, <1>4, <2>2, <2>3 DEF HandleRestart, Handle
<1>5. CASE HandleRequestProgress
  <2>1. state' = state /\ pc' # "packet"
    BY <1>5, HandleType DEF HandleRequestProgress
  <2>2. \/ \E e \in Event : out' = out \o <<e>> /\ e.type \in {"ChannelProgress", "GroupProgress"}
        \/ \E d, e \in Event : /\ out' = out \o (<<d>> \o <<e>>)
                              /\ d.type = "ChannelProgress" /\ e.type = "GroupProgress"
    <3> DEFINE c == PerChannel("ChannelProgress")
               g == GroupReport
    <3>1. c \in Event /\ c.type = "ChannelProgress" /\ g \in Event /\ g.type = "GroupProgress"
      BY <1>0, ReportType DEF EventType
    <3>2. PICK m \in {"RequestChannels", "RequestGroups", "RequestBoth"} :
              out' = out \o ((IF m # "RequestGroups" THEN <<c>> ELSE <<>>)
                                \o (IF m # "RequestChannels" THEN <<g>> ELSE <<>>))
      BY <1>5 DEF HandleRequestProgress, Emit
    <3> HIDE DEF c, g
    <3>3. <<>> \o <<g>> = <<g>> /\ <<c>> \o <<>> = <<c>>
      BY <3>1
    <3> QED BY <3>1, <3>2, <3>3
  <2>3. CASE \E e \in Event : out' = out \o <<e>> /\ e.type \in {"ChannelProgress", "GroupProgress"}
    BY <1>0, <2>1, <2>3, SnocTruthful
  <2>4. CASE \E d, e \in Event : /\ out' = out \o (<<d>> \o <<e>>)
                                /\ d.type = "ChannelProgress" /\ e.type = "GroupProgress"
    <3>1. PICK d, e \in Event : /\ out' = out \o (<<d>> \o <<e>>)
                               /\ d.type = "ChannelProgress" /\ e.type = "GroupProgress"
      BY <2>4
    <3>2. out' = (out \o <<d>>) \o <<e>>
      BY <1>0, <3>1, TwoEvents
    <3>3. Truthful(out \o <<d>>, state) /\ out \o <<d>> \in Seq(Event)
      BY <1>0, <3>1, SnocTruthful
    <3> QED BY <2>1, <3>1, <3>2, <3>3, SnocTruthful
  <2> QED BY <2>2, <2>3, <2>4
<1>6. CASE AutoPause
  <2>1. state' = "pause" /\ pc' # "packet"
    BY <1>0, <1>6 DEF AutoPause, SetPauseState, TogglePause
  <2>2. PICK e \in Event : out' = out \o <<e>> /\ e.type = "AutoPaused"
    BY <1>00, <1>6 DEF AutoPause, Emit, EventType
  <2> QED BY <1>0, <2>1, <2>2, SnocTruthful
<1>7. CASE SendPacket
  <2>1. NextChannel \in DOMAIN channels /\ channels[NextChannel] \in Source
    BY <1>7, NextExists DEF SendPacket, TypeOK
  <2>2. at("Packet") = EventOf("Packet", {NextChannel}, [channels[NextChannel] EXCEPT !.sent = @ + channels[NextChannel].size].pos)
    BY <2>1 DEF Source
  <2>3. at("Packet") \in Event /\ at("Packet").type = "Packet" /\ state = "play"
    BY <1>00, <1>7 DEF SendPacket, EventType
  <2>4. \/ Throw(<<at("Packet")>>)
        \/ Emit(<<at("Packet")>>) /\ pc' = "check" /\ state' = state
    BY <1>7, <2>2 DEF SendPacket
  <2> HIDE DEF at
  <2>5. CASE Throw(<<at("Packet")>>)
    BY <2>3, <2>5, ThrowPacketTruthful DEF Throw
  <2>6. CASE Emit(<<at("Packet")>>) /\ pc' = "check" /\ state' = state
    BY <1>0, <2>3, <2>6, SnocTruthful DEF Emit
  <2> QED BY <2>4, <2>5, <2>6
<1>8. CASE SendFails
  <2>1. at("Packet") \in Event /\ at("Packet").type = "Packet" /\ state = "play"
    BY <1>00, <1>8 DEF SendFails, EventType
  <2>2. Throw(<<>>) \/ Throw(<<at("Packet")>>)
    BY <1>8 DEF SendFails
  <2> HIDE DEF at
  <2>3. Truthful(out', state')
    BY <2>1, <2>2, ThrowTruthful, ThrowPacketTruthful
  <2> QED BY <2>2, <2>3 DEF Throw
<1>9. CASE CheckChannels
  BY <1>9 DEF CheckChannels, Truthful
<1>10. CASE Teardown
  <2>1. PICK e \in Event : out' = out \o <<e>> /\ e.type = "ThreadDead"
    BY <1>0, <1>10 DEF Teardown, Emit, EventType
  <2>2. state' = state /\ pc' # "packet"
    BY <1>10 DEF Teardown
  <2> QED BY <1>0, <2>1, <2>2, SnocTruthful
<1>11. CASE Throw(<<>>)
  BY <1>11, ThrowTruthful DEF Throw
<1>12. CASE LeaveOOBQueue
  <2>1. UNCHANGED <<out, state>> /\ (pc' = "packet" => state = "play")
    BY <1>0, <1>12 DEF LeaveOOBQueue
  <2> QED BY <2>1
<1>13. CASE UNCHANGED <<out, state>> /\ (pc' = "packet" => pc = "packet")
  BY <1>13
<1>14. Start \/ NoChannelLeft
        => Throw(<<>>) \/ (UNCHANGED <<out, state>> /\ (pc' = "packet" => pc = "packet"))
  BY DEF Start, NoChannelLeft
<1>15. Push \/ Tick \/ UNCHANGED vars
        => UNCHANGED <<out, state>> /\ (pc' = "packet" => pc = "packet")
  BY DEF Push, Tick, vars, groupVars
<1> QED
  BY <1>1, <1>2, <1>3, <1>4, <1>5, <1>6, <1>7, <1>8, <1>9, <1>10, <1>11, <1>12, <1>13, <1>14, <1>15
     DEF Next, Thread, ProcessOOBQueue, ProcessPacket

(* The notices are true, and nothing is sent while they say "paused". *)
LEMMA NoticeInvariant == Spec => []NoticeInv
<1>1. Init => TypeOK /\ NoticeInv
  <2>1. Init => Truthful(out, state)
    BY DEF Init, Truthful, Quiet, Running
  <2>2. Init => (pc = "packet" => state = "play")
    BY DEF Init
  <2> QED BY <2>1, <2>2, InitTypeOK, NoticeInvMeaning DEF NoticeInv
<1>2. TypeOK /\ NoticeInv /\ [Next]_vars => NoticeInv'
  <2> SUFFICES ASSUME TypeOK, NoticeInv, [Next]_vars PROVE NoticeInv'
    OBVIOUS
  <2>1. Truthful(out', state') /\ (pc' = "packet" => state' = "play")
    BY NoticeInvMeaning, NextTruthful DEF NoticeInv
  <2>2. TypeOK'
    BY NextTypeOK
  <2>3. (NoticesMatchState /\ QuietWhilePaused)'
    <3>1. (TypeOK => (NoticesMatchState /\ QuietWhilePaused <=> Truthful(out, state)))'
      BY NoticeInvMeaning, PTL
    <3> QED BY <2>1, <2>2, <3>1
  <2> QED BY <2>1, <2>3 DEF NoticeInv
<1> QED BY <1>1, <1>2, TypeCorrect, PTL DEF Spec

(* What the App is told of a group is what the group does. *)
THEOREM NoticesCorrect == Spec => []NoticesMatchState
BY NoticeInvariant, PTL DEF NoticeInv

(* No packet goes out between a pause and the notice that playback resumes. *)
THEOREM QuietCorrect == Spec => []QuietWhilePaused
BY NoticeInvariant, PTL DEF NoticeInv
=============================================================================
