------------------------- MODULE GroupRefinementProofs -------------------------
(***************************************************************************)
(* The playback thread implements the life that XCast is built on, for any *)
(* number of channels, any captures and pauses, and any messages.          *)
(***************************************************************************)
EXTENDS GroupRefinement, GroupProcessorProofs

USE ConstantsAssumption

-----------------------------------------------------------------------------
(* Told, as an equation for its partial results.                             *)
IsTelling(f, o, n) ==
    f = [i \in 0..n |-> IF i = 0 THEN <<>> ELSE TellStep(o, i, f[i - 1])]

LEMMA TellingExists ==
    ASSUME NEW o, NEW n \in Nat
    PROVE  \E f : IsTelling(f, o, n)
<1> DEFINE Bad == {k \in Nat : ~ \E f : IsTelling(f, o, k)}
<1>1. SUFFICES ASSUME Bad # {} PROVE FALSE
  OBVIOUS
<1>2. PICK m \in Bad : \A k \in Bad : m <= k
  BY <1>1, LeastNatural
<1>3. IsTelling([i \in 0..0 |-> <<>>], o, 0)
  BY DEF IsTelling
<1>4. m # 0
  BY <1>3
<1>5. PICK f : IsTelling(f, o, m - 1)
  BY <1>2, <1>4
<1> DEFINE g == [i \in 0..m |-> IF i = m THEN TellStep(o, m, f[m - 1]) ELSE f[i]]
           h == [i \in 0..m |-> IF i = 0 THEN <<>> ELSE TellStep(o, i, g[i - 1])]
<1>6. ASSUME NEW i \in 0..m PROVE g[i] = h[i]
  <2>1. CASE i = 0
    BY <2>1, <1>4, <1>5 DEF IsTelling
  <2>2. CASE i = m
    <3>1. h[i] = TellStep(o, m, g[m - 1])
      BY <2>2, <1>4
    <3>2. g[m - 1] = f[m - 1]
      BY <1>4
    <3> QED BY <3>1, <3>2, <2>2
  <2>3. CASE i # 0 /\ i # m
    <3>1. i \in 1..(m - 1) /\ g[i] = f[i] /\ g[i - 1] = f[i - 1]
      BY <2>3
    <3>2. f[i] = TellStep(o, i, f[i - 1])
      BY <3>1, <1>5 DEF IsTelling
    <3> QED BY <3>1, <3>2
  <2> QED BY <2>1, <2>2, <2>3
<1>7. g = h
  BY <1>6
<1>8. IsTelling(g, o, m)
  BY <1>7 DEF IsTelling
<1> QED BY <1>2, <1>8

LEMMA ToldMeaning ==
    ASSUME NEW o, Len(o) \in Nat
    PROVE  \E f : IsTelling(f, o, Len(o)) /\ Told(o) = f[Len(o)]
<1> DEFINE f == CHOOSE f : IsTelling(f, o, Len(o))
<1>1. IsTelling(f, o, Len(o))
  BY TellingExists
<1>2. Told(o) = f[Len(o)]
  BY DEF Told, IsTelling
<1> QED BY <1>1, <1>2

(* The partial results only depend on the events before. *)
LEMMA TellingUnique ==
    ASSUME NEW o, NEW p, NEW n \in Nat, NEW f, NEW g, NEW m \in Nat, n <= m,
           IsTelling(f, o, n), IsTelling(g, p, m), \A i \in 1..n : o[i] = p[i]
    PROVE  \A i \in 0..n : f[i] = g[i]
<1> DEFINE Bad == {i \in 0..n : f[i] # g[i]}
<1>1. SUFFICES ASSUME Bad # {} PROVE FALSE
  OBVIOUS
<1>2. Bad \in SUBSET Nat
  OBVIOUS
<1>3. PICK k \in Bad : \A i \in Bad : k <= i
  <2> HIDE DEF Bad
  <2> QED BY <1>1, <1>2, LeastNatural
<1>4. k \in 0..n /\ f[k] # g[k]
  BY <1>3
<1>5. CASE k = 0
  <2>1. f[0] = <<>> /\ g[0] = <<>>
    BY DEF IsTelling
  <2> QED BY <1>4, <1>5, <2>1
<1>6. CASE k # 0
  <2>1. k \in 1..n /\ k - 1 \in 0..n /\ ~(k <= k - 1)
    BY <1>4, <1>6
  <2>2. f[k - 1] = g[k - 1]
    BY <1>3, <2>1
  <2>3. f[k] = TellStep(o, k, f[k - 1]) /\ g[k] = TellStep(p, k, g[k - 1])
    BY <2>1 DEF IsTelling
  <2>4. o[k] = p[k]
    BY <2>1
  <2> QED BY <1>4, <2>2, <2>3, <2>4 DEF TellStep
<1> QED BY <1>5, <1>6

(* What has been told is a sequence of messages. *)
Letters == [type : EventType, from : {"Group"}]

LEMMA ToldNothing == Told(<<>>) = <<>>
<1>1. Len(<<>>) = 0 /\ 0 \in Nat
  OBVIOUS
<1>2. PICK f : IsTelling(f, <<>>, 0) /\ Told(<<>>) = f[0]
  BY <1>1, ToldMeaning
<1> QED BY <1>2 DEF IsTelling

LEMMA ToldStep ==
    ASSUME NEW o \in Seq(Event), NEW e \in Event
    PROVE  Told(o \o <<e>>) =
               IF e.type = "Packet" THEN Told(o) ELSE Append(Told(o), Letter(e.type))
<1> DEFINE p == o \o <<e>>
           n == Len(o)
<1>1. /\ n \in Nat /\ Len(p) = n + 1 /\ p[n + 1] = e
      /\ \A i \in 1..n : o[i] = p[i]
  BY SnocKeeps
<1> HIDE DEF p, n
<1>2. PICK f : IsTelling(f, o, n) /\ Told(o) = f[n]
  BY <1>1, ToldMeaning DEF n
<1>3. PICK g : IsTelling(g, p, n + 1) /\ Told(p) = g[n + 1]
  BY <1>1, ToldMeaning
<1>4. f[n] = g[n]
  BY <1>1, <1>2, <1>3, TellingUnique
<1>5. g[n + 1] = TellStep(p, n + 1, g[n])
  BY <1>1, <1>3 DEF IsTelling
<1> QED BY <1>1, <1>2, <1>3, <1>4, <1>5 DEF TellStep, p

LEMMA ToldType ==
    ASSUME NEW o \in Seq(Event)
    PROVE  Told(o) \in Seq(Letters)
<1> DEFINE n == Len(o)
<1>1. n \in Nat /\ \A i \in 1..n : o[i] \in Event
  OBVIOUS
<1>2. PICK f : IsTelling(f, o, n) /\ Told(o) = f[n]
  BY <1>1, ToldMeaning
<1> HIDE DEF n
<1> DEFINE Bad == {i \in 0..n : f[i] \notin Seq(Letters)}
<1>3. ASSUME Bad # {} PROVE FALSE
  <2>1. Bad \in SUBSET Nat
    BY <1>1
  <2>2. PICK k \in Bad : \A i \in Bad : k <= i
    <3> HIDE DEF Bad
    <3> QED BY <1>3, <2>1, LeastNatural
  <2>3. k # 0
    BY <1>1, <1>2, <2>2 DEF IsTelling
  <2>4. k \in 1..n /\ k - 1 \in 0..n /\ ~(k <= k - 1)
    BY <1>1, <2>2, <2>3
  <2>5. f[k - 1] \in Seq(Letters)
    BY <2>2, <2>4
  <2>6. f[k] = TellStep(o, k, f[k - 1])
    BY <1>2, <2>4 DEF IsTelling
  <2>7. Letter(o[k].type) \in Letters
    BY <1>1, <2>4 DEF Letter, Letters, Event
  <2>8. f[k] \in Seq(Letters)
    BY <2>5, <2>6, <2>7 DEF TellStep
  <2> QED BY <2>2, <2>8
<1> QED BY <1>1, <1>2, <1>3

(* What one more event means for the rest of the program. *)
LEMMA ToldPacket ==
    ASSUME NEW o \in Seq(Event), NEW e \in Event, e.type = "Packet"
    PROVE  Told(o \o <<e>>) = Told(o) /\ SomeSent(o \o <<e>>) = TRUE
<1>1. Len(o) + 1 \in DOMAIN (o \o <<e>>) /\ (o \o <<e>>)[Len(o) + 1] = e
  OBVIOUS
<1> QED BY <1>1, ToldStep DEF SomeSent

LEMMA ToldLetter ==
    ASSUME NEW o \in Seq(Event), NEW e \in Event, e.type # "Packet"
    PROVE  /\ Told(o \o <<e>>) = Told(o) \o Life!Mail(<<e.type>>)
           /\ SomeSent(o \o <<e>>) = SomeSent(o)
<1>1. Life!Mail(<<e.type>>) = <<Letter(e.type)>>
  BY DEF Life!Mail, Letter
<1>2. Told(o) \in Seq(Letters) /\ Letter(e.type) \in Letters
  BY ToldType DEF Letter, Letters, Event
<1>3. Append(Told(o), Letter(e.type)) = Told(o) \o <<Letter(e.type)>>
  BY <1>2
<1>4. SomeSent(o \o <<e>>) = SomeSent(o)
  <2> DEFINE p == o \o <<e>>
  <2>1. /\ DOMAIN p = (1..Len(o)) \cup {Len(o) + 1} /\ DOMAIN o = 1..Len(o)
        /\ p[Len(o) + 1] = e
        /\ \A i \in 1..Len(o) : p[i] = o[i]
    BY SnocKeeps
  <2> HIDE DEF p
  <2> QED BY <2>1 DEF SomeSent, p
<1> QED BY <1>1, <1>3, <1>4, ToldStep

LEMMA ToldTwo ==
    ASSUME NEW o \in Seq(Event), NEW d \in Event, NEW e \in Event,
           d.type # "Packet", e.type # "Packet"
    PROVE  /\ Told(o \o (<<d>> \o <<e>>)) = Told(o) \o Life!Mail(<<d.type, e.type>>)
           /\ SomeSent(o \o (<<d>> \o <<e>>)) = SomeSent(o)
<1>1. o \o <<d>> \in Seq(Event) /\ o \o (<<d>> \o <<e>>) = (o \o <<d>>) \o <<e>>
  BY TwoEvents
<1>2. /\ Told((o \o <<d>>) \o <<e>>) = Append(Append(Told(o), Letter(d.type)), Letter(e.type))
      /\ SomeSent((o \o <<d>>) \o <<e>>) = SomeSent(o)
  BY <1>1, ToldStep, ToldLetter
<1>3. Life!Mail(<<d.type, e.type>>) = <<Letter(d.type), Letter(e.type)>>
  BY DEF Life!Mail, Letter
<1>4. Told(o) \in Seq(Letters) /\ Letter(d.type) \in Letters /\ Letter(e.type) \in Letters
  BY ToldType DEF Letter, Letters, Event
<1>5. Append(Append(Told(o), Letter(d.type)), Letter(e.type))
          = Told(o) \o <<Letter(d.type), Letter(e.type)>>
  BY <1>4
<1> QED BY <1>1, <1>2, <1>3, <1>5

-----------------------------------------------------------------------------
(* Where the thread is settles most of what its state can be.                *)
PhaseInv ==
    /\ pc = "init" => state = "pause"
    /\ pc = "packet" => state = "play"
    /\ pc = "teardown" => state = "die"

LEMMA NextPhaseInv == ASSUME TypeOK, PhaseInv, [Next]_vars PROVE PhaseInv'
<1>1. CASE ProcessOOBQueue
  <2>1. CASE LeaveOOBQueue
    BY <2>1 DEF LeaveOOBQueue, TypeOK, PhaseInv
  <2>2. CASE ~LeaveOOBQueue
    <3>1. pc' = "oob"
      BY <1>1, <2>2 DEF ProcessOOBQueue, HandleTogglePause, HandleSetPauseState, HandleThreadDie,
                        HandleRestart, HandleRequestProgress, Handle
    <3> QED BY <3>1 DEF PhaseInv
  <2> QED BY <2>1, <2>2
<1>2. CASE ProcessPacket \/ Start \/ CheckChannels \/ Teardown
  <2>1. pc' \in {"check", "failed", "oob", "done"}
    BY <1>2 DEF ProcessPacket, NoChannelLeft, AutoPause, SendPacket, SendFails, Throw,
                Start, CheckChannels, Teardown
  <2> QED BY <2>1 DEF PhaseInv
<1>3. CASE Push \/ Tick \/ UNCHANGED vars
  BY <1>3 DEF Push, Tick, vars, groupVars, PhaseInv
<1> QED BY <1>1, <1>2, <1>3 DEF Next, Thread

(* What goes on outside, after the state of the thread. *)
LEMMA LifeMeaning ==
    ASSUME TypeOK
    PROVE  /\ pc = "init" => LifeNow = "starting"
           /\ pc = "failed" => LifeNow = "failed"
           /\ pc = "done" => LifeNow = "dead"
           /\ pc \notin {"init", "failed", "done"} =>
                 /\ state = "die" => LifeNow = "ending"
                 /\ state = "play" => LifeNow = "playing"
                 /\ state = "pause" => LifeNow = "paused"
BY DEF LifeNow, TypeOK

LEMMA LifeMeaningNext ==
    ASSUME TypeOK'
    PROVE  /\ pc' = "init" => LifeNow' = "starting"
           /\ pc' = "failed" => LifeNow' = "failed"
           /\ pc' = "done" => LifeNow' = "dead"
           /\ pc' \notin {"init", "failed", "done"} =>
                 /\ state' = "die" => LifeNow' = "ending"
                 /\ state' = "play" => LifeNow' = "playing"
                 /\ state' = "pause" => LifeNow' = "paused"
BY DEF LifeNow, TypeOK

(* Taking a message from the queue. *)
LEMMA HandleReceives ==
    ASSUME TypeOK, NEW m, Handle(m), SomeSent(out') = SomeSent(out)
    PROVE  /\ Life!Receive(m)
           /\ pc = "oob" /\ pc' = "oob"
           /\ \/ state = "play" /\ LifeNow = "playing"
              \/ state = "pause" /\ LifeNow = "paused"
<1>1. \/ state = "play" /\ LifeNow = "playing"
      \/ state = "pause" /\ LifeNow = "paused"
  BY LifeMeaning DEF Handle, TypeOK
<1>2. Life!Receive(m)
  BY <1>1 DEF Handle, Life!Receive
<1> QED BY <1>1, <1>2 DEF Handle

LEMMA TellLetter ==
    ASSUME TypeOK, NEW e \in Event, e.type # "Packet", Emit(<<e>>)
    PROVE  Life!Tell(<<e.type>>) /\ SomeSent(out') = SomeSent(out)
<1>1. out \in Seq(Event) /\ out' = out \o <<e>>
  BY DEF TypeOK, Emit
<1>2. Told(out') = Told(out) \o Life!Mail(<<e.type>>) /\ SomeSent(out') = SomeSent(out)
  BY <1>1, ToldLetter
<1> QED BY <1>2 DEF Life!Tell

(* The exception itself, without or with the packet that was sent before it. *)
LEMMA ThrowFails ==
    ASSUME TypeOK, TypeOK', PhaseInv, pc \in {"init", "packet"},
           \/ Throw(<<>>)
           \/ pc = "packet" /\ \E e \in Event : e.type = "Packet" /\ Throw(<<e>>)
    PROVE  Life!Fail
<1> DEFINE l == Notice("LogMessage")
<1>1. l \in Event /\ l.type = "LogMessage"
  BY EventTypes DEF EventType, Notice, EventOf
<1>2. pc' = "failed" /\ oob' = oob /\ LifeNow' = "failed"
  BY LifeMeaningNext DEF Throw
<1>3. \/ pc = "init" /\ LifeNow = "starting"
      \/ pc = "packet" /\ LifeNow = "playing"
  BY LifeMeaning DEF PhaseInv
<1>4. out \in Seq(Event)
  BY DEF TypeOK
<1> HIDE DEF l
<1>5. CASE Throw(<<>>)
  <2>1. Emit(<<l>>)
    <3>1. <<>> \o <<l>> = <<l>>
      OBVIOUS
    <3> QED BY <1>5, <3>1 DEF Throw, l
  <2>2. Life!Tell(<<"LogMessage">>) /\ SomeSent(out') = SomeSent(out)
    BY <1>1, <2>1, TellLetter
  <2> QED BY <1>2, <1>3, <2>2 DEF Life!Fail
<1>6. CASE pc = "packet" /\ \E e \in Event : e.type = "Packet" /\ Throw(<<e>>)
  <2>1. PICK e \in Event : e.type = "Packet" /\ Throw(<<e>>)
    BY <1>6
  <2>2. out' = out \o (<<e>> \o <<l>>)
    BY <2>1 DEF Throw, Emit, l
  <2>3. out' = (out \o <<e>>) \o <<l>> /\ out \o <<e>> \in Seq(Event)
    BY <1>1, <1>4, <2>2, TwoEvents
  <2>4. Told(out \o <<e>>) = Told(out) /\ SomeSent(out \o <<e>>) = TRUE
    BY <1>4, <2>1, ToldPacket
  <2>5. /\ Told(out') = Told(out \o <<e>>) \o Life!Mail(<<l.type>>)
        /\ SomeSent(out') = SomeSent(out \o <<e>>)
    BY <1>1, <2>3, ToldLetter
  <2>6. Life!Tell(<<"LogMessage">>)
    BY <1>1, <2>4, <2>5 DEF Life!Tell
  <2>7. SomeSent(out') = TRUE /\ (LifeNow = "playing") = TRUE
    BY <1>3, <1>6, <2>4, <2>5
  <2> QED BY <1>2, <1>3, <1>6, <2>6, <2>7 DEF Life!Fail
<1> QED BY <1>5, <1>6

-----------------------------------------------------------------------------
(* Each step of the thread, and what it is to the rest of the program.       *)
LEMMA HandlersLive ==
    ASSUME TypeOK, TypeOK',
           HandleTogglePause \/ HandleSetPauseState \/ HandleThreadDie \/ HandleRestart
               \/ HandleRequestProgress
    PROVE  Life!Prompt
<1>0. /\ \A t \in EventType : Notice(t) \in Event /\ Notice(t).type = t
      /\ \A t \in EventType : PerChannel(t) \in Event /\ PerChannel(t).type = t
      /\ GroupReport \in Event /\ GroupReport.type = "GroupProgress"
      /\ out \in Seq(Event)
  BY EventTypes, ReportType DEF Notice, PerChannel, EventOf, TypeOK
<1>1. CASE HandleTogglePause
  <2>1. /\ Handle("TogglePause")
        /\ \/ state = "pause" /\ state' = "play" /\ Emit(<<Notice("Resumed")>>)
           \/ state = "play" /\ state' = "pause" /\ Emit(<<Notice("Paused")>>)
    BY <1>1 DEF HandleTogglePause, TogglePause
  <2>2. CASE state = "pause" /\ state' = "play" /\ Emit(<<Notice("Resumed")>>)
    <3>1. Life!Tell(<<"Resumed">>) /\ SomeSent(out') = SomeSent(out)
      BY <1>0, <2>2, TellLetter DEF EventType
    <3>2. /\ Life!Receive("TogglePause") /\ LifeNow = "paused" /\ LifeNow' = "playing"
      BY <2>1, <2>2, <3>1, HandleReceives, LifeMeaningNext
    <3> QED BY <3>1, <3>2 DEF Life!Toggle, Life!Prompt
  <2>3. CASE state = "play" /\ state' = "pause" /\ Emit(<<Notice("Paused")>>)
    <3>1. Life!Tell(<<"Paused">>) /\ SomeSent(out') = SomeSent(out)
      BY <1>0, <2>3, TellLetter DEF EventType
    <3>2. /\ Life!Receive("TogglePause") /\ LifeNow = "playing" /\ LifeNow' = "paused"
      BY <2>1, <2>3, <3>1, HandleReceives, LifeMeaningNext
    <3> QED BY <3>1, <3>2 DEF Life!Toggle, Life!Prompt
  <2> QED BY <2>1, <2>2, <2>3
<1>2. CASE HandleSetPauseState
  <2>1. \/ Handle("SetPause") /\ SetPauseState(TRUE) /\ Emit(<<Notice("Paused")>>)
        \/ Handle("SetResume") /\ SetPauseState(FALSE) /\ Emit(<<Notice("Resumed")>>)
    BY <1>2 DEF HandleSetPauseState
  <2>2. CASE Handle("SetPause") /\ SetPauseState(TRUE) /\ Emit(<<Notice("Paused")>>)
    <3>1. Life!Tell(<<"Paused">>) /\ SomeSent(out') = SomeSent(out)
      BY <1>0, <2>2, TellLetter DEF EventType
    <3>2. Life!Receive("SetPause") /\ pc' = "oob" /\ state \in {"play", "pause"}
      BY <2>2, <3>1, HandleReceives
    <3>3. LifeNow' = "paused"
      BY <2>2, <3>2, LifeMeaningNext DEF SetPauseState, TogglePause
    <3> QED BY <3>1, <3>2, <3>3 DEF Life!Set, Life!Prompt
  <2>3. CASE Handle("SetResume") /\ SetPauseState(FALSE) /\ Emit(<<Notice("Resumed")>>)
    <3>1. Life!Tell(<<"Resumed">>) /\ SomeSent(out') = SomeSent(out)
      BY <1>0, <2>3, TellLetter DEF EventType
    <3>2. Life!Receive("SetResume") /\ pc' = "oob" /\ state \in {"play", "pause"}
      BY <2>3, <3>1, HandleReceives
    <3>3. LifeNow' = "playing"
      BY <2>3, <3>2, LifeMeaningNext DEF SetPauseState, TogglePause
    <3> QED BY <3>1, <3>2, <3>3 DEF Life!Set, Life!Prompt
  <2> QED BY <2>1, <2>2, <2>3
<1>3. CASE HandleThreadDie
  <2>1. Handle("ThreadDie") /\ state' = "die" /\ out' = out
    BY <1>3 DEF HandleThreadDie
  <2>2. Life!Receive("ThreadDie") /\ LifeNow' = "ending"
    BY <2>1, HandleReceives, LifeMeaningNext
  <2> QED BY <2>1, <2>2 DEF Life!Obey, Life!Prompt
<1>4. CASE HandleRestart
  <2> DEFINE r == PerChannel("Restarted")
             p == Notice("Paused")
  <2>1. /\ Handle("Restart") /\ state' = "pause"
        /\ Emit((IF state = "play" THEN <<p>> ELSE <<>>) \o <<r>>)
    BY <1>4 DEF HandleRestart
  <2>2. r \in Event /\ r.type = "Restarted" /\ p \in Event /\ p.type = "Paused"
    BY <1>0 DEF EventType
  <2> HIDE DEF r, p
  <2>3. CASE state = "play"
    <3>1. out' = out \o (<<p>> \o <<r>>)
      BY <2>1, <2>3 DEF Emit
    <3>2. Life!Tell(<<"Paused", "Restarted">>) /\ SomeSent(out') = SomeSent(out)
      BY <1>0, <2>2, <3>1, ToldTwo DEF Life!Tell
    <3>3. Life!Receive("Restart") /\ LifeNow = "playing" /\ LifeNow' = "paused"
      BY <2>1, <2>3, <3>2, HandleReceives, LifeMeaningNext
    <3> QED BY <3>2, <3>3 DEF Life!GoBack, Life!Prompt
  <2>4. CASE state # "play"
    <3>1. <<>> \o <<r>> = <<r>>
      OBVIOUS
    <3>2. Emit(<<r>>)
      BY <2>1, <2>4, <3>1
    <3>3. Life!Tell(<<"Restarted">>) /\ SomeSent(out') = SomeSent(out)
      BY <2>2, <3>2, TellLetter
    <3>4. Life!Receive("Restart") /\ LifeNow = "paused" /\ LifeNow' = "paused"
      BY <2>1, <2>4, <3>3, HandleReceives, LifeMeaningNext
    <3> QED BY <3>3, <3>4 DEF Life!GoBack, Life!Prompt
  <2> QED BY <2>3, <2>4
<1>5. CASE HandleRequestProgress
  <2> DEFINE c == PerChannel("ChannelProgress")
             g == GroupReport
  <2>1. c \in Event /\ c.type = "ChannelProgress" /\ g \in Event /\ g.type = "GroupProgress"
    BY <1>0 DEF EventType
  <2>2. PICK m \in {"RequestChannels", "RequestGroups", "RequestBoth"} :
            /\ Handle(m)
            /\ Emit((IF m # "RequestGroups" THEN <<c>> ELSE <<>>)
                       \o (IF m # "RequestChannels" THEN <<g>> ELSE <<>>))
            /\ state' = state
    BY <1>5 DEF HandleRequestProgress
  <2> HIDE DEF c, g
  <2>3. <<c>> \o <<>> = <<c>> /\ <<>> \o <<g>> = <<g>>
    OBVIOUS
  <2>4. CASE m = "RequestChannels"
    <3>1. Emit(<<c>>)
      BY <2>2, <2>3, <2>4
    <3>2. Life!Tell(<<"ChannelProgress">>) /\ SomeSent(out') = SomeSent(out)
      BY <2>1, <3>1, TellLetter
    <3>3. Life!Receive(m) /\ LifeNow' = LifeNow
      BY <2>2, <3>2, HandleReceives, LifeMeaningNext
    <3> QED BY <2>4, <3>2, <3>3 DEF Life!Report, Life!Prompt
  <2>5. CASE m = "RequestGroups"
    <3>1. Emit(<<g>>)
      BY <2>2, <2>3, <2>5
    <3>2. Life!Tell(<<"GroupProgress">>) /\ SomeSent(out') = SomeSent(out)
      BY <2>1, <3>1, TellLetter
    <3>3. Life!Receive(m) /\ LifeNow' = LifeNow
      BY <2>2, <3>2, HandleReceives, LifeMeaningNext
    <3> QED BY <2>5, <3>2, <3>3 DEF Life!Report, Life!Prompt
  <2>6. CASE m = "RequestBoth"
    <3>1. out' = out \o (<<c>> \o <<g>>)
      BY <2>2, <2>6 DEF Emit
    <3>2. Life!Tell(<<"ChannelProgress", "GroupProgress">>) /\ SomeSent(out') = SomeSent(out)
      BY <1>0, <2>1, <3>1, ToldTwo DEF Life!Tell
    <3>3. Life!Receive(m) /\ LifeNow' = LifeNow
      BY <2>2, <3>2, HandleReceives, LifeMeaningNext
    <3> QED BY <2>6, <3>2, <3>3 DEF Life!Report, Life!Prompt
  <2> QED BY <2>4, <2>5, <2>6
<1> QED BY <1>1, <1>2, <1>3, <1>4, <1>5

LEMMA PacketLives ==
    ASSUME TypeOK, TypeOK', PhaseInv, ProcessPacket
    PROVE  Life!Live \/ Life!Fail
<1>0. pc = "packet" /\ LifeNow = "playing" /\ out \in Seq(Event) /\ state = "play"
  BY LifeMeaning DEF ProcessPacket, NoChannelLeft, AutoPause, SendPacket, SendFails, PhaseInv, TypeOK
<1> DEFINE e(type) == EventOf(type, {NextChannel}, channels[NextChannel].pos)
<1>1. CASE NoChannelLeft
  BY <1>0, <1>1, ThrowFails DEF NoChannelLeft
<1>2. CASE AutoPause
  <2>1. /\ e("AutoPaused") \in Event /\ e("AutoPaused").type = "AutoPaused"
        /\ Emit(<<e("AutoPaused")>>) /\ state' = "pause" /\ pc' = "check" /\ oob' = oob
    BY <1>0, <1>2, EventTypes DEF AutoPause, SetPauseState, TogglePause, EventType, EventOf
  <2>2. Life!Tell(<<"AutoPaused">>) /\ SomeSent(out') = SomeSent(out)
    BY <2>1, TellLetter
  <2>3. LifeNow' = "paused"
    BY <2>1, LifeMeaningNext
  <2> QED BY <1>0, <2>1, <2>2, <2>3 DEF Life!StopByItself, Life!Live
<1>3. CASE SendPacket
  <2> DEFINE n == NextChannel
             s == [channels[n] EXCEPT !.sent = @ + channels[n].size]
  <2>1. n \in DOMAIN channels /\ channels[n] \in Source
    BY <1>3, NextExists DEF SendPacket, TypeOK
  <2>2. s.pos = channels[n].pos
    BY <2>1 DEF Source
  <2>3. e("Packet") \in Event /\ e("Packet").type = "Packet"
    BY <1>3, EventTypes DEF SendPacket, EventType, EventOf
  <2>4. \/ Emit(<<e("Packet")>>) /\ pc' = "check" /\ state' = state /\ oob' = oob
        \/ Throw(<<e("Packet")>>)
    BY <1>3, <2>2 DEF SendPacket
  <2>5. CASE Throw(<<e("Packet")>>)
    <3>1. \E d \in Event : d.type = "Packet" /\ Throw(<<d>>)
      BY <2>3, <2>5
    <3> QED BY <1>0, <3>1, ThrowFails
  <2>6. CASE Emit(<<e("Packet")>>) /\ pc' = "check" /\ state' = state /\ oob' = oob
    <3>1. Told(out') = Told(out) /\ SomeSent(out') = TRUE
      BY <1>0, <2>3, <2>6, ToldPacket DEF Emit
    <3>2. LifeNow' = "playing"
      BY <1>0, <2>6, LifeMeaningNext
    <3> QED BY <1>0, <2>6, <3>1, <3>2 DEF Life!Send, Life!Live
  <2> QED BY <2>4, <2>5, <2>6
<1>4. CASE SendFails
  <2>1. e("Packet") \in Event /\ e("Packet").type = "Packet"
    BY <1>4, EventTypes DEF SendFails, EventType, EventOf
  <2>2. Throw(<<>>) \/ Throw(<<e("Packet")>>)
    BY <1>4 DEF SendFails
  <2>3. CASE Throw(<<>>)
    BY <1>0, <2>3, ThrowFails
  <2>4. CASE Throw(<<e("Packet")>>)
    <3>1. \E d \in Event : d.type = "Packet" /\ Throw(<<d>>)
      BY <2>1, <2>4
    <3> QED BY <1>0, <3>1, ThrowFails
  <2> QED BY <2>2, <2>3, <2>4
<1> QED BY <1>1, <1>2, <1>3, <1>4 DEF ProcessPacket

LEMMA StepLives ==
    ASSUME TypeOK, TypeOK', PhaseInv, [Next]_vars
    PROVE  [Life!LifeNext]_(Life!lifeVars)
<1>1. CASE HandleTogglePause \/ HandleSetPauseState \/ HandleThreadDie \/ HandleRestart
               \/ HandleRequestProgress
  BY <1>1, HandlersLive DEF Life!LifeNext, Life!Live
<1>2. CASE LeaveOOBQueue
  <2>1. /\ pc = "oob" /\ pc' \in {"teardown", "packet", "check"}
        /\ UNCHANGED <<state, oob, out>>
    BY <1>2 DEF LeaveOOBQueue, TypeOK
  <2>2. LifeNow' = LifeNow
    BY <2>1, LifeMeaning, LifeMeaningNext DEF TypeOK
  <2> QED BY <2>1, <2>2 DEF Life!lifeVars
<1>3. CASE ProcessPacket
  BY <1>3, PacketLives DEF Life!LifeNext
<1>4. CASE Start
  <2>1. CASE Throw(<<>>)
    BY <1>4, <2>1, ThrowFails DEF Start, Life!LifeNext
  <2>2. CASE ~Throw(<<>>)
    <3>1. pc = "init" /\ pc' = "oob" /\ UNCHANGED <<state, oob, out>>
      BY <1>4, <2>2 DEF Start
    <3>2. LifeNow = "starting" /\ LifeNow' = "paused"
      BY <3>1, LifeMeaning, LifeMeaningNext DEF PhaseInv
    <3> QED BY <3>1, <3>2 DEF Life!Open, Life!Prompt, Life!Live, Life!LifeNext
  <2> QED BY <2>1, <2>2
<1>5. CASE CheckChannels
  <2>1. pc = "check" /\ pc' = "oob" /\ UNCHANGED <<oob, out>> /\ state' \in {state, "die"}
    BY <1>5 DEF CheckChannels
  <2>2. CASE state' = state
    <3>1. CASE state = "die"
      <4>1. LifeNow = "ending" /\ LifeNow' = "ending"
        BY <2>1, <2>2, <3>1, LifeMeaning, LifeMeaningNext
      <4> QED BY <2>1, <2>2, <4>1 DEF Life!lifeVars
    <3>2. CASE state = "play"
      <4>1. LifeNow = "playing" /\ LifeNow' = "playing"
        BY <2>1, <2>2, <3>2, LifeMeaning, LifeMeaningNext
      <4> QED BY <2>1, <2>2, <4>1 DEF Life!lifeVars
    <3>3. CASE state = "pause"
      <4>1. LifeNow = "paused" /\ LifeNow' = "paused"
        BY <2>1, <2>2, <3>3, LifeMeaning, LifeMeaningNext
      <4> QED BY <2>1, <2>2, <4>1 DEF Life!lifeVars
    <3> QED BY <3>1, <3>2, <3>3 DEF TypeOK
  <2>3. CASE state' # state
    <3>1. LifeNow \in {"paused", "playing"} /\ LifeNow' = "ending"
      BY <2>1, <2>3, LifeMeaning, LifeMeaningNext DEF TypeOK
    <3> QED BY <2>1, <3>1 DEF Life!ReachEnd, Life!Live, Life!LifeNext
  <2> QED BY <2>2, <2>3
<1>6. CASE Teardown
  <2>1. pc = "teardown" /\ pc' = "done" /\ oob' = oob /\ Emit(<<Notice("ThreadDead")>>)
    BY <1>6 DEF Teardown
  <2>2. Notice("ThreadDead") \in Event /\ Notice("ThreadDead").type = "ThreadDead"
    BY EventTypes DEF EventType, Notice, EventOf
  <2>3. Life!Tell(<<"ThreadDead">>) /\ SomeSent(out') = SomeSent(out)
    BY <2>1, <2>2, TellLetter
  <2>4. LifeNow = "ending" /\ LifeNow' = "dead"
    BY <2>1, LifeMeaning, LifeMeaningNext DEF PhaseInv
  <2> QED BY <2>1, <2>3, <2>4 DEF Life!Farewell, Life!Prompt, Life!Live, Life!LifeNext
<1>7. CASE Push
  <2>1. \E m \in OobMessage : oob' = Append(oob, m)
    <3>1. Messages[scenario] \subseteq OobMessage
      BY DriveAssumption DEF TypeOK
    <3> QED BY <1>7, <3>1 DEF Push
  <2>2. UNCHANGED <<pc, state, out>>
    BY <1>7 DEF Push, groupVars
  <2>3. LifeNow' = LifeNow
    BY <2>2 DEF LifeNow
  <2> QED BY <2>1, <2>2, <2>3 DEF Life!Post, Life!LifeNext
<1>8. CASE Tick \/ UNCHANGED vars
  <2>1. UNCHANGED <<pc, state, out, oob>>
    BY <1>8 DEF Tick, vars, groupVars
  <2>2. LifeNow' = LifeNow
    BY <2>1 DEF LifeNow
  <2> QED BY <2>1, <2>2 DEF Life!lifeVars
<1> QED
  BY <1>1, <1>2, <1>3, <1>4, <1>5, <1>6, <1>7, <1>8 DEF Next, Thread, ProcessOOBQueue

(* Whatever captures, pauses and messages it is given, the playback thread     *)
(* lives the life on which the model of the whole program is built.            *)
THEOREM LifeCorrect == Spec => ImplementsLife
<1>1. Init => Life!LifeInit
  <2> SUFFICES ASSUME Init PROVE Life!LifeInit
    OBVIOUS
  <2>1. out = <<>> /\ oob = <<"TogglePause">> /\ LifeNow = "starting"
    BY InitTypeOK, LifeMeaning DEF Init
  <2>2. SomeSent(out) = FALSE
    BY <2>1 DEF SomeSent
  <2> QED BY <2>1, <2>2, ToldNothing DEF Life!LifeInit
<1>2. Init => PhaseInv
  BY DEF Init, PhaseInv
<1>3. TypeOK /\ TypeOK' /\ PhaseInv /\ [Next]_vars => [Life!LifeNext]_(Life!lifeVars)
  BY StepLives
<1> QED
  BY <1>1, <1>2, <1>3, InitTypeOK, NextTypeOK, NextPhaseInv, PTL
     DEF Spec, ImplementsLife, Life!LifeSpec
=============================================================================
