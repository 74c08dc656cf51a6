--------------------------- MODULE GroupReplayProofs ---------------------------
(***************************************************************************)
(* What a playback thread sends of each capture, for any number of         *)
(* channels, any captures and pauses, and any messages of the App: every   *)
(* packet once from one restart to the next, all of them before the        *)
(* channel is given up, and until the first restart nothing that the       *)
(* captures and pauses do not decide.                                      *)
(***************************************************************************)
EXTENDS GroupOrderProofs, FiniteSetTheorems

USE ConstantsAssumption

-----------------------------------------------------------------------------
(* The packets of channel n in a history o: those since the last restart,    *)
(* and those after the k-th event.                                           *)
Mine(o, n) == {i \in 1..Len(o) : Recent(o, i) /\ o[i].of = {n}}

After(o, n, k) == {i \in 1..Len(o) : o[i].type = "Packet" /\ o[i].of = {n} /\ i > k}

(* OnePass, of any history. *)
Pass(o, I, m) ==
    /\ \A i \in I : o[i].pos \in 1..m
    /\ \A k \in 1..m : \E i \in I : o[i].pos = k
    /\ \A i, j \in I : i < j => o[i].pos < o[j].pos

(* The history since the last restart begins after its k-th event. *)
BeginsAfter(o, k) ==
    /\ k \in 0..Len(o)
    /\ \A i \in (k + 1)..Len(o) : o[i].type # "Restarted"
    /\ k > 0 => o[k].type = "Restarted"

Begun(o) == \E k : BeginsAfter(o, k)

Once(o, c) == \A n \in DOMAIN c : Pass(o, Mine(o, n), c[n].pos - 1)

Complete(o, D) ==
    \A n \in D : \E k \in 0..Len(o) : Pass(o, After(o, n, k), Len(FileOf(n).packets))

Replayed(o, c, D) == Begun(o) /\ Once(o, c) /\ Complete(o, D)

LEMMA PassMeaning ==
    ASSUME NEW I, NEW m \in Int
    PROVE  OnePass(I, m) <=> Pass(out, I, m)
<1> DEFINE A == {out[i].pos : i \in I}
<1>1. A \subseteq 1..m <=> \A i \in I : out[i].pos \in 1..m
  OBVIOUS
<1>2. 1..m \subseteq A <=> \A k \in 1..m : \E i \in I : out[i].pos = k
  <2>1. \A k : k \in A <=> \E i \in I : out[i].pos = k
    OBVIOUS
  <2> HIDE DEF A
  <2> QED BY <2>1
<1> QED BY <1>1, <1>2 DEF OnePass, Pass

-----------------------------------------------------------------------------
(* What one more event does.                                                 *)
LEMMA SnocPass ==
    ASSUME NEW o \in Seq(Event), NEW e \in Event, NEW I \in SUBSET (1..Len(o)), NEW m \in Int,
           Pass(o, I, m)
    PROVE  /\ Pass(o \o <<e>>, I, m)
           /\ m \in Nat /\ e.pos = m + 1 => Pass(o \o <<e>>, I \cup {Len(o) + 1}, m + 1)
<1> DEFINE p == o \o <<e>>
           l == Len(o) + 1
<1>1. Len(o) \in Nat /\ p[l] = e /\ \A i \in I : p[i] = o[i] /\ i < l /\ i \in Nat
  BY SnocRecent
<1> HIDE DEF p
<1>2. Pass(p, I, m)
  BY <1>1 DEF Pass
<1>3. ASSUME m \in Nat, e.pos = m + 1 PROVE Pass(p, I \cup {l}, m + 1)
  <2>1. \A i \in I \cup {l} : p[i].pos \in 1..(m + 1)
    BY <1>1, <1>2, <1>3 DEF Pass
  <2>2. ASSUME NEW k \in 1..(m + 1) PROVE \E i \in I \cup {l} : p[i].pos = k
    <3>1. k \in 1..m \/ k = m + 1
      BY <1>3
    <3> QED BY <1>1, <1>2, <1>3, <3>1 DEF Pass
  <2>3. ASSUME NEW i \in I \cup {l}, NEW j \in I \cup {l}, i < j PROVE p[i].pos < p[j].pos
    <3>1. i \in I
      BY <1>1, <2>3
    <3>2. CASE j \in I
      BY <1>2, <2>3, <3>1, <3>2 DEF Pass
    <3>3. CASE j = l
      BY <1>1, <1>2, <1>3, <3>1, <3>3 DEF Pass
    <3> QED BY <3>2, <3>3
  <2> QED BY <2>1, <2>2, <2>3 DEF Pass
<1> QED BY <1>2, <1>3 DEF p

LEMMA NothingPasses == ASSUME NEW o, NEW m \in Int, m <= 0 PROVE Pass(o, {}, m)
BY DEF Pass

LEMMA SnocMine ==
    ASSUME NEW o \in Seq(Event), NEW e \in Event, NEW n
    PROVE  /\ Mine(o, n) \in SUBSET (1..Len(o))
           /\ e.type = "Restarted" => Mine(o \o <<e>>, n) = {}
           /\ e.type # "Restarted" /\ ~(e.type = "Packet" /\ e.of = {n})
                  => Mine(o \o <<e>>, n) = Mine(o, n)
           /\ e.type = "Packet" /\ e.of = {n}
                  => Mine(o \o <<e>>, n) = Mine(o, n) \cup {Len(o) + 1}
<1> DEFINE p == o \o <<e>>
<1>1. /\ Len(p) = Len(o) + 1 /\ Len(o) \in Nat
      /\ p[Len(o) + 1] = e
      /\ \A i \in 1..Len(o) : /\ p[i] = o[i]
                              /\ Recent(p, i) <=> Recent(o, i) /\ e.type # "Restarted"
      /\ Recent(p, Len(o) + 1) <=> e.type = "Packet"
  BY SnocRecent
<1>2. 1..Len(p) = (1..Len(o)) \cup {Len(o) + 1}
  BY <1>1
<1> HIDE DEF p
<1>3. \A i : i \in Mine(p, n) <=>
         \/ i \in Mine(o, n) /\ e.type # "Restarted"
         \/ i = Len(o) + 1 /\ e.type = "Packet" /\ e.of = {n}
  BY <1>1, <1>2 DEF Mine
<1>4. Mine(o, n) \in SUBSET (1..Len(o))
  BY DEF Mine
<1> QED BY <1>3, <1>4 DEF p

LEMMA SnocAfter ==
    ASSUME NEW o \in Seq(Event), NEW e \in Event, NEW n, NEW k \in 0..Len(o),
           ~(e.type = "Packet" /\ e.of = {n})
    PROVE  /\ After(o, n, k) \in SUBSET (1..Len(o))
           /\ After(o \o <<e>>, n, k) = After(o, n, k)
           /\ k \in 0..Len(o \o <<e>>)
<1> DEFINE p == o \o <<e>>
<1>1. /\ Len(p) = Len(o) + 1 /\ Len(o) \in Nat
      /\ p[Len(o) + 1] = e
      /\ \A i \in 1..Len(o) : p[i] = o[i]
  BY SnocRecent
<1>2. 1..Len(p) = (1..Len(o)) \cup {Len(o) + 1} /\ k \in 0..Len(p)
  BY <1>1
<1> HIDE DEF p
<1>3. After(p, n, k) = After(o, n, k)
  BY <1>1, <1>2 DEF After
<1> QED BY <1>2, <1>3 DEF After, p

LEMMA SnocBegun ==
    ASSUME NEW o \in Seq(Event), NEW e \in Event, Begun(o)
    PROVE  Begun(o \o <<e>>)
<1> DEFINE p == o \o <<e>>
<1>1. /\ Len(p) = Len(o) + 1 /\ Len(o) \in Nat
      /\ p[Len(o) + 1] = e
      /\ \A i \in 1..Len(o) : p[i] = o[i]
  BY SnocRecent
<1> HIDE DEF p
<1>2. CASE e.type = "Restarted"
  <2>1. (Len(p) + 1)..Len(p) = {}
    BY <1>1
  <2>2. BeginsAfter(p, Len(p))
    BY <1>1, <1>2, <2>1 DEF BeginsAfter
  <2> QED BY <2>2 DEF Begun, p
<1>3. CASE e.type # "Restarted"
  <2>1. PICK k : BeginsAfter(o, k)
    BY DEF Begun
  <2>2. k \in 0..Len(o) /\ k \in 0..Len(p)
    BY <1>1, <2>1 DEF BeginsAfter
  <2>3. ASSUME NEW i \in (k + 1)..Len(p) PROVE p[i].type # "Restarted"
    <3>1. i = Len(o) + 1 \/ (i \in (k + 1)..Len(o) /\ i \in 1..Len(o))
      BY <1>1, <2>2
    <3> QED BY <1>1, <1>3, <2>1, <3>1 DEF BeginsAfter
  <2>4. k > 0 => p[k].type = "Restarted"
    BY <1>1, <2>1, <2>2 DEF BeginsAfter
  <2> QED BY <2>2, <2>3, <2>4 DEF BeginsAfter, Begun, p
<1> QED BY <1>2, <1>3

(* What was sent since the last restart was sent after some moment. *)
LEMMA MineAfter ==
    ASSUME NEW o \in Seq(Event), NEW k, BeginsAfter(o, k), NEW n
    PROVE  k \in 0..Len(o) /\ Mine(o, n) = After(o, n, k)
<1>1. k \in 0..Len(o) /\ k \in Nat /\ Len(o) \in Nat
  BY DEF BeginsAfter
<1>2. ASSUME NEW i \in 1..Len(o), o[i].type = "Packet"
      PROVE  Recent(o, i) <=> i > k
  <2>1. CASE i > k
    <3>1. \A l \in i..Len(o) : l \in (k + 1)..Len(o)
      BY <1>1, <2>1
    <3> QED BY <1>2, <2>1, <3>1 DEF BeginsAfter, Recent
  <2>2. CASE ~(i > k)
    <3>1. k \in i..Len(o) /\ k > 0
      BY <1>1, <2>2
    <3> QED BY <2>2, <3>1 DEF BeginsAfter, Recent
  <2> QED BY <2>1, <2>2
<1>3. \A i \in 1..Len(o) : Recent(o, i) => o[i].type = "Packet"
  BY DEF Recent
<1> QED BY <1>1, <1>2, <1>3 DEF Mine, After

LEMMA SnocComplete ==
    ASSUME NEW o \in Seq(Event), NEW e \in Event, NEW D, Complete(o, D),
           \A n \in D : ~(e.type = "Packet" /\ e.of = {n}),
           \A n \in D : Len(FileOf(n).packets) \in Nat
    PROVE  Complete(o \o <<e>>, D)
<1> SUFFICES ASSUME NEW n \in D
             PROVE  \E k \in 0..Len(o \o <<e>>) :
                        Pass(o \o <<e>>, After(o \o <<e>>, n, k), Len(FileOf(n).packets))
  BY DEF Complete
<1>1. PICK k \in 0..Len(o) : Pass(o, After(o, n, k), Len(FileOf(n).packets))
  BY DEF Complete
<1>2. /\ After(o, n, k) \in SUBSET (1..Len(o))
      /\ After(o \o <<e>>, n, k) = After(o, n, k)
      /\ k \in 0..Len(o \o <<e>>)
  BY SnocAfter
<1>3. Pass(o \o <<e>>, After(o, n, k), Len(FileOf(n).packets))
  <2> DEFINE m == Len(FileOf(n).packets)
             I == After(o, n, k)
  <2>1. m \in Int /\ I \in SUBSET (1..Len(o)) /\ Pass(o, I, m)
    BY <1>1, <1>2
  <2> HIDE DEF m, I
  <2>2. Pass(o \o <<e>>, I, m)
    BY <2>1, SnocPass
  <2> QED BY <2>2 DEF m, I
<1> QED BY <1>2, <1>3

(* An event that is neither a packet nor a restart counts for nothing. *)
LEMMA SnocReplayed ==
    ASSUME NEW o \in Seq(Event), NEW e \in Event, e.type \notin {"Packet", "Restarted"},
           NEW c, \A n \in DOMAIN c : c[n].pos \in Nat, NEW D,
           \A n \in D : Len(FileOf(n).packets) \in Nat, Replayed(o, c, D)
    PROVE  Replayed(o \o <<e>>, c, D)
<1>1. Begun(o \o <<e>>)
  BY SnocBegun DEF Replayed
<1>2. ASSUME NEW n \in DOMAIN c PROVE Pass(o \o <<e>>, Mine(o \o <<e>>, n), c[n].pos - 1)
  <2>1. Mine(o \o <<e>>, n) = Mine(o, n) /\ Mine(o, n) \in SUBSET (1..Len(o))
    BY SnocMine
  <2>2. Pass(o, Mine(o, n), c[n].pos - 1) /\ c[n].pos - 1 \in Int
    BY DEF Replayed, Once
  <2>3. Pass(o \o <<e>>, Mine(o, n), c[n].pos - 1)
    BY <2>1, <2>2, SnocPass
  <2> QED BY <2>1, <2>3
<1>3. Complete(o \o <<e>>, D)
  BY SnocComplete DEF Replayed
<1> QED BY <1>1, <1>2, <1>3 DEF Replayed, Once

LEMMA ChatterReplayed ==
    ASSUME NEW o \in Seq(Event), NEW p, Chatter(o, p), NEW c, \A n \in DOMAIN c : c[n].pos \in Nat,
           NEW D, \A n \in D : Len(FileOf(n).packets) \in Nat, Replayed(o, c, D)
    PROVE  Replayed(p, c, D) /\ p \in Seq(Event)
<1>1. CASE p = o
  BY <1>1
<1>2. CASE p # o
  <2>1. PICK e \in Event : p = o \o <<e>> /\ e.type \notin {"Packet", "Restarted"}
    BY <1>2 DEF Chatter
  <2> QED BY <2>1, SnocReplayed, SnocKeeps
<1> QED BY <1>1, <1>2

(* After a restart every channel that is left is at its beginning. *)
LEMMA RestartedReplayed ==
    ASSUME NEW o \in Seq(Event), NEW e \in Event, e.type = "Restarted",
           NEW c, NEW D, \A n \in D : Len(FileOf(n).packets) \in Nat, Replayed(o, c, D),
           NEW d, \A n \in DOMAIN d : d[n].pos \in {0, 1}
    PROVE  Replayed(o \o <<e>>, d, D)
<1>1. Begun(o \o <<e>>) /\ Complete(o \o <<e>>, D)
  BY SnocBegun, SnocComplete DEF Replayed
<1>2. ASSUME NEW n \in DOMAIN d PROVE Pass(o \o <<e>>, Mine(o \o <<e>>, n), d[n].pos - 1)
  <2>1. Mine(o \o <<e>>, n) = {}
    BY SnocMine
  <2>2. d[n].pos - 1 \in Int /\ d[n].pos - 1 <= 0
    OBVIOUS
  <2> QED BY <2>1, <2>2, NothingPasses
<1> QED BY <1>1, <1>2 DEF Replayed, Once

LEMMA RestartPos ==
    ASSUME TypeOK, NEW n \in 1..N, NEW s, Within(n, s)
    PROVE  RestartSource(n, s).pos \in {0, 1}
<1> DEFINE r == [s EXCEPT !.pos = 0, !.cur = 0, !.sent = 0]
<1>1. r \in Source /\ r.pos = 0
  BY DEF Within, Source
<1>2. RestartSource(n, s) = ReadNext(n, r)
  BY DEF RestartSource
<1> HIDE DEF r
<1>3. ReadNext(n, r).pos \in {0, 1}
  BY <1>1 DEF ReadNext, Source
<1> QED BY <1>2, <1>3

(* A channel is erased with its capture sent to the end. *)
LEMMA SendsReplayed ==
    ASSUME TypeOK, LoadInv, channels # <<>>, PacketDone,
           Replayed(out, channels, Described \ DOMAIN channels)
    PROVE  Replayed(out', channels', Described \ DOMAIN channels')
<1> DEFINE m == NextChannel
           e == NextEvent("Packet")
           s == [channels[m] EXCEPT !.sent = @ + channels[m].size]
           x == channels[m].pos
           D == Described \ DOMAIN channels
<1>0. out \in Seq(Event) /\ \A n \in DOMAIN channels : n \in 1..N /\ Within(n, channels[n])
  BY ChannelsWithin DEF TypeOK
<1>1. m \in DOMAIN channels /\ m \in 1..N
  BY NextIsLeast
<1>2. /\ channels[m].pos \in Nat /\ channels[m].pos # 0
      /\ channels[m].pos <= Len(FileOf(m).packets)
      /\ channels[m] \in Source
  BY <1>0, <1>1 DEF LoadInv, Loaded, Within, Source, PacketDone
<1>3. e \in Event /\ e.type = "Packet" /\ e.of = {m} /\ e.pos = x
  BY NextEventTime DEF EventType, NextEvent, EventOf
<1>4. s \in Source /\ s.pos = x
  BY <1>2 DEF Source
<1>5. /\ out' = out \o <<e>>
      /\ \/ /\ ReadCode(m, x) = "success"
            /\ channels' = [channels EXCEPT ![m] = ReadNext(m, s)]
         \/ /\ ReadCode(m, x) = "eof"
            /\ channels' = [n \in DOMAIN channels \ {m} |-> channels[n]]
  BY <1>4 DEF PacketDone, EraseChannel
<1>6. ReadCode(m, x) = "success" => ReadNext(m, s).pos = x + 1
  BY <1>4 DEF ReadNext
<1> DEFINE p == out \o <<e>>
<1> HIDE DEF m, e, s, x, p
<1>7. Begun(p) /\ Begun(out)
  BY <1>0, <1>3, SnocBegun DEF Replayed, p
<1>8. Pass(p, Mine(p, m), x)
  <2>1. Mine(p, m) = Mine(out, m) \cup {Len(out) + 1} /\ Mine(out, m) \in SUBSET (1..Len(out))
    BY <1>0, <1>3, SnocMine DEF p
  <2>2. Pass(out, Mine(out, m), x - 1) /\ x - 1 \in Nat /\ x - 1 \in Int /\ x \in Nat
    BY <1>1, <1>2 DEF Replayed, Once, x
  <2>3. e.pos = (x - 1) + 1 /\ (x - 1) + 1 = x
    BY <1>3, <2>2
  <2>4. Pass(p, Mine(out, m) \cup {Len(out) + 1}, (x - 1) + 1)
    BY <1>0, <1>3, <2>1, <2>2, <2>3, SnocPass DEF p
  <2> QED BY <2>1, <2>3, <2>4
<1>9. ASSUME NEW n \in DOMAIN channels, n # m PROVE Pass(p, Mine(p, n), channels[n].pos - 1)
  <2>1. e.of # {n}
    BY <1>3, <1>9
  <2>2. Mine(p, n) = Mine(out, n) /\ Mine(out, n) \in SUBSET (1..Len(out))
    BY <1>0, <1>3, <2>1, SnocMine DEF p
  <2>3. Pass(out, Mine(out, n), channels[n].pos - 1) /\ channels[n].pos - 1 \in Int
    BY <1>0, <1>9 DEF Replayed, Once, Within, Source
  <2>4. Pass(p, Mine(out, n), channels[n].pos - 1)
    BY <1>0, <1>3, <2>2, <2>3, SnocPass DEF p
  <2> QED BY <2>2, <2>4
<1>10. Complete(p, D)
  <2>1. \A n \in D : ~(e.type = "Packet" /\ e.of = {n})
    BY <1>1, <1>3
  <2>2. \A n \in D : Len(FileOf(n).packets) \in Nat
    BY FileType DEF Described, TypeOK
  <2>3. Complete(out, D)
    BY DEF Replayed
  <2> HIDE DEF D
  <2> QED BY <1>0, <1>3, <2>1, <2>2, <2>3, SnocComplete DEF p
<1>11. CASE ReadCode(m, x) = "success"
  <2>1. channels' = [channels EXCEPT ![m] = ReadNext(m, s)]
    BY <1>5, <1>11
  <2>2. DOMAIN channels' = DOMAIN channels
    BY <2>1
  <2>3. ASSUME NEW n \in DOMAIN channels' PROVE Pass(p, Mine(p, n), channels'[n].pos - 1)
    <3>1. CASE n = m
      <4>1. channels'[n].pos = x + 1 /\ (x + 1) - 1 = x
        BY <1>1, <1>2, <1>6, <1>11, <2>1, <3>1 DEF x
      <4> QED BY <1>8, <3>1, <4>1
    <3>2. CASE n # m
      BY <1>9, <2>1, <2>2, <2>3, <3>2
    <3> QED BY <3>1, <3>2
  <2> QED BY <1>5, <1>7, <1>10, <2>2, <2>3 DEF Replayed, Once, p
<1>12. CASE ReadCode(m, x) = "eof"
  <2>0. "eof" # "success"
    OBVIOUS
  <2>1. channels' = [n \in DOMAIN channels \ {m} |-> channels[n]]
    BY <1>5, <1>12, <2>0
  <2>2. Once(p, channels')
    BY <1>9, <2>1 DEF Once
  <2>3. x = Len(FileOf(m).packets)
    <3>1. ~(x < Len(FileOf(m).packets)) /\ Len(FileOf(m).packets) \in Nat
      BY <1>1, <1>12, FileType DEF ReadCode, TypeOK
    <3> QED BY <1>2, <3>1 DEF x
  <2>4. \E k \in 0..Len(p) : Pass(p, After(p, m, k), Len(FileOf(m).packets))
    <3>1. PICK k : BeginsAfter(p, k)
      BY <1>7 DEF Begun
    <3>2. p \in Seq(Event)
      BY <1>0, <1>3, SnocKeeps DEF p
    <3> QED BY <1>8, <2>3, <3>1, <3>2, MineAfter
  <2>5. \A n \in Described \ DOMAIN channels' : n = m \/ n \in D
    BY <2>1
  <2>6. Complete(p, Described \ DOMAIN channels')
    BY <1>10, <2>4, <2>5 DEF Complete
  <2> QED BY <1>5, <1>7, <2>2, <2>6 DEF Replayed, p
<1> QED BY <1>5, <1>11, <1>12

-----------------------------------------------------------------------------
(* The channels that have been given up. *)
Absent == IF pc = "init" THEN {} ELSE Described \ DOMAIN channels

ReplayInv == pc # "failed" => Replayed(out, channels, Absent)

LEMMA Opened ==
    ASSUME [Next]_vars, pc = "init", pc' \notin {"init", "failed"}
    PROVE  channels' = [n \in Described |-> ReadNext(n, NewSource)] /\ out' = out
<1>1. CASE Start
  BY <1>1 DEF Start, Throw
<1>2. CASE ~Start
  BY <1>2 DEF Next, Thread, ProcessOOBQueue, ProcessPacket, HandleTogglePause, HandleSetPauseState,
              HandleThreadDie, HandleRestart, HandleRequestProgress, LeaveOOBQueue, Handle,
              NoChannelLeft, AutoPause, SendPacket, SendFails, CheckChannels, Teardown,
              Push, Tick, groupVars, vars
<1> QED BY <1>1, <1>2

(* An exception is the end. *)
LEMMA FailedStays == ASSUME [Next]_vars, pc = "failed" PROVE pc' = "failed"
<1>1. CASE ProcessOOBQueue
  BY <1>1 DEF ProcessOOBQueue, HandleTogglePause, HandleSetPauseState,
              HandleThreadDie, HandleRestart, HandleRequestProgress, LeaveOOBQueue, Handle
<1>2. CASE ProcessPacket
  BY <1>2 DEF ProcessPacket, NoChannelLeft, AutoPause, SendPacket, SendFails
<1>3. CASE Start \/ CheckChannels \/ Teardown
  BY <1>3 DEF Start, CheckChannels, Teardown
<1>4. CASE Push \/ Tick \/ UNCHANGED vars
  BY <1>4 DEF Push, Tick, vars, groupVars
<1> QED BY <1>1, <1>2, <1>3, <1>4 DEF Next, Thread

LEMMA NothingReplayed ==
    ASSUME NEW c, \A n \in DOMAIN c : c[n].pos \in {0, 1}
    PROVE  Replayed(<<>>, c, {})
<1>1. Len(<<>>) = 0
  OBVIOUS
<1>2. BeginsAfter(<<>>, 0)
  BY <1>1 DEF BeginsAfter
<1>3. \A n : Mine(<<>>, n) = {}
  BY <1>1 DEF Mine
<1>4. \A n \in DOMAIN c : c[n].pos - 1 \in Int /\ c[n].pos - 1 <= 0
  OBVIOUS
<1>5. Once(<<>>, c)
  BY <1>3, <1>4, NothingPasses DEF Once
<1> QED BY <1>2, <1>5 DEF Replayed, Begun, Complete

(* What a step makes of the history, once the channels are opened. *)
LEMMA StepReplayed ==
    ASSUME TypeOK, LoadInv, [Next]_vars, pc # "init", pc' # "failed",
           Replayed(out, channels, Described \ DOMAIN channels)
    PROVE  Replayed(out', channels', Described \ DOMAIN channels')
<1> DEFINE D == Described \ DOMAIN channels
<1>1. /\ out \in Seq(Event)
      /\ \A n \in DOMAIN channels : n \in 1..N /\ Within(n, channels[n])
      /\ \A n \in DOMAIN channels : channels[n].pos \in Nat
      /\ \A n \in D : Len(FileOf(n).packets) \in Nat
  BY ChannelsWithin, FileType DEF TypeOK, Within, Source, Described
<1> HIDE DEF D
<1>2. Replayed(out, channels, D)
  BY DEF D
<1>3. CASE Speaks
  BY <1>1, <1>2, <1>3, ChatterReplayed DEF Speaks, Same, D
<1>4. CASE Reports
  <2>1. PICK o \in Seq(Event) : Chatter(out, o) /\ out' = o \o <<GroupReport>>
    BY <1>4 DEF Reports
  <2>2. Replayed(o, channels, D)
    BY <1>1, <1>2, <2>1, ChatterReplayed
  <2>3. GroupReport \in Event /\ GroupReport.type \notin {"Packet", "Restarted"}
    BY ReportType
  <2>4. Replayed(out', channels, D)
    BY <1>1, <2>1, <2>2, <2>3, SnocReplayed
  <2> QED BY <1>4, <2>4 DEF Reports, Same, D
<1>5. CASE Restarts
  <2>1. PICK o \in Seq(Event), e \in Event :
            Chatter(out, o) /\ e.type = "Restarted" /\ out' = o \o <<e>>
    BY <1>5 DEF Restarts
  <2>2. Replayed(o, channels, D)
    BY <1>1, <1>2, <2>1, ChatterReplayed
  <2>3. DOMAIN channels' = DOMAIN channels /\ \A n \in DOMAIN channels' : channels'[n].pos \in {0, 1}
    BY <1>1, <1>5, RestartPos DEF Restarts
  <2>4. Replayed(out', channels', D)
    BY <1>1, <2>1, <2>2, <2>3, RestartedReplayed
  <2> QED BY <2>3, <2>4 DEF D
<1>6. CASE Announces
  <2>1. /\ NextEvent("AutoPaused") \in Event /\ NextEvent("AutoPaused").type = "AutoPaused"
        /\ out' = out \o <<NextEvent("AutoPaused")>> /\ channels' = channels
    BY <1>6, NextEventTime DEF Announces, EventType
  <2>2. Replayed(out', channels, D)
    BY <1>1, <1>2, <2>1, SnocReplayed
  <2> QED BY <2>1, <2>2 DEF D
<1>7. CASE SendsNext
  BY <1>2, <1>7, SendsReplayed DEF SendsNext, D
<1>8. ~Begins
  BY DEF Begins
<1> QED BY <1>3, <1>4, <1>5, <1>6, <1>7, <1>8, StepKinds

LEMMA NextReplayInv ==
    ASSUME TypeOK, LoadInv, ReplayInv, [Next]_vars
    PROVE  ReplayInv'
<1> SUFFICES ASSUME pc' # "failed" PROVE Replayed(out', channels', Absent')
  BY SameScenario DEF ReplayInv, Replayed, Begun, Once, Complete, FileOf
<1>1. Described' = Described
  BY SameScenario DEF Described, FileOf
<1>2. pc # "failed" /\ Replayed(out, channels, Absent)
  BY FailedStays DEF ReplayInv
<1>3. CASE pc' = "init"
  BY <1>2, <1>3, InitLeft DEF Absent
<1>4. CASE pc = "init" /\ pc' # "init"
  <2>1. channels' = [n \in Described |-> ReadNext(n, NewSource)] /\ out' = <<>>
    BY <1>4, Opened DEF LoadInv
  <2>2. \A n \in Described : ReadNext(n, NewSource).pos \in {0, 1}
    BY DEF ReadNext, NewSource
  <2>3. Absent' = {}
    BY <1>1, <1>4, <2>1 DEF Absent
  <2> QED BY <2>1, <2>2, <2>3, NothingReplayed
<1>5. CASE pc # "init" /\ pc' # "init"
  <2>1. Replayed(out', channels', Described \ DOMAIN channels')
    BY <1>2, <1>5, StepReplayed DEF Absent
  <2> QED BY <1>1, <1>5, <2>1 DEF Absent
<1> QED BY <1>3, <1>4, <1>5

(* ReplayInv and TypeOK hold in every reachable state. *)
LEMMA AlwaysReplayed == Spec => [](TypeOK /\ ReplayInv)
<1>1. Init => ReplayInv
  <2> SUFFICES ASSUME Init PROVE ReplayInv
    OBVIOUS
  <2>1. out = <<>> /\ Absent = {} /\ DOMAIN channels = {}
    BY DEF Init, Absent
  <2> QED BY <2>1, NothingReplayed DEF ReplayInv
<1> QED
  BY InitTypeOK, NextTypeOK, InitLoaded, NextLoaded, NextReplayInv, <1>1, PTL DEF Spec

LEMMA HistoryMeaning ==
    ASSUME TypeOK, NEW n
    PROVE  /\ SentAgain(n) = Mine(out, n)
           /\ \A k : {i \in SentOf(n) : i > k} = After(out, n, k)
<1>1. DOMAIN out = 1..Len(out)
  BY DEF TypeOK
<1> QED BY <1>1 DEF SentAgain, SentOf, Sends, NoRestartWithin, Mine, Recent, After

(* From one restart to the next a channel that still plays sends the packets *)
(* of its capture each once and in order, whatever the App asks for.         *)
THEOREM OnceCorrect == Spec => []ExactlyOnce
<1>1. TypeOK /\ ReplayInv => ExactlyOnce
  <2> SUFFICES ASSUME TypeOK, ReplayInv, pc # "failed", NEW n \in DOMAIN channels
               PROVE  OnePass(SentAgain(n), channels[n].pos - 1)
    BY DEF ExactlyOnce
  <2>1. channels[n].pos - 1 \in Int
    BY ChannelsWithin DEF Within, Source
  <2>2. Pass(out, Mine(out, n), channels[n].pos - 1)
    BY DEF ReplayInv, Replayed, Once
  <2> QED BY <2>1, <2>2, PassMeaning, HistoryMeaning
<1> QED BY <1>1, AlwaysReplayed, PTL

(* A channel is given up only when all of its capture has been sent in one go. *)
THEOREM CompleteCorrect == Spec => []CompleteReplay
<1>1. TypeOK /\ ReplayInv => CompleteReplay
  <2> SUFFICES ASSUME TypeOK, ReplayInv, pc \notin {"init", "failed"},
                      NEW n \in Described \ DOMAIN channels
               PROVE  \E k \in 0..Len(out) :
                          OnePass({i \in SentOf(n) : i > k}, Len(FileOf(n).packets))
    BY DEF CompleteReplay
  <2>1. Len(FileOf(n).packets) \in Int
    BY FileType DEF Described, TypeOK
  <2>2. PICK k \in 0..Len(out) : Pass(out, After(out, n, k), Len(FileOf(n).packets))
    BY DEF ReplayInv, Replayed, Complete, Absent
  <2> QED BY <2>1, <2>2, PassMeaning, HistoryMeaning
<1> QED BY <1>1, AlwaysReplayed, PTL

-----------------------------------------------------------------------------
(* BytesIn, as an equation for its partial sums.                             *)
IsCount(f, q, m) == f = [k \in 0..m |-> IF k = 0 THEN 0 ELSE f[k - 1] + q[k].size]

LEMMA CountExists ==
    ASSUME NEW q, NEW l \in Nat
    PROVE  \E f : IsCount(f, q, l)
<1> DEFINE Bad == {k \in Nat : ~ \E f : IsCount(f, q, k)}
           Size(k) == q[k].size
<1>1. SUFFICES ASSUME Bad # {} PROVE FALSE
  OBVIOUS
<1>2. PICK m \in Bad : \A k \in Bad : m <= k
  BY <1>1, LeastNatural
<1>3. IsCount([k \in 0..0 |-> 0], q, 0)
  BY DEF IsCount
<1>4. m # 0
  BY <1>3
<1>5. PICK f : IsCount(f, q, m - 1)
  BY <1>2, <1>4
<1> HIDE DEF Size
<1> DEFINE g == [k \in 0..m |-> IF k = m THEN f[m - 1] + Size(m) ELSE f[k]]
           h == [k \in 0..m |-> IF k = 0 THEN 0 ELSE g[k - 1] + Size(k)]
<1>6. ASSUME NEW k \in 0..m PROVE g[k] = h[k]
  <2>1. CASE k = 0
    BY <2>1, <1>4, <1>5 DEF IsCount
  <2>2. CASE k = m
    <3>1. h[k] = g[m - 1] + Size(m)
      BY <2>2, <1>4
    <3>2. g[m - 1] = f[m - 1]
      BY <1>4
    <3> QED BY <3>1, <3>2, <2>2
  <2>3. CASE k # 0 /\ k # m
    <3>1. k \in 1..(m - 1) /\ g[k] = f[k] /\ g[k - 1] = f[k - 1]
      BY <2>3
    <3>2. f[k] = f[k - 1] + Size(k)
      BY <3>1, <1>5 DEF IsCount, Size
    <3> QED BY <3>1, <3>2
  <2> QED BY <2>1, <2>2, <2>3
<1>7. g = h
  BY <1>6
<1>8. IsCount(g, q, m)
  BY <1>7 DEF IsCount, Size
<1> QED BY <1>2, <1>8

(* The packet at pos, if any, adds its size. *)
SizeAt(n, pos) == IF pos = 0 THEN 0 ELSE FileOf(n).packets[pos].size

LEMMA BytesStep ==
    ASSUME TypeOK, NEW n \in 1..N
    PROVE  /\ BytesBefore(n, 0) = 0
           /\ \A pos \in 0..Len(FileOf(n).packets) :
                 BytesBefore(n, pos + 1) = BytesBefore(n, pos) + SizeAt(n, pos)
<1> DEFINE q == FileOf(n).packets
           l == Len(q)
           f == CHOOSE f : IsCount(f, q, l)
<1>1. l \in Nat
  BY FileType DEF TypeOK
<1>2. IsCount(f, q, l)
  BY <1>1, CountExists
<1>3. ASSUME NEW pos PROVE BytesBefore(n, pos) = IF pos = 0 THEN 0 ELSE f[pos - 1]
  BY DEF BytesBefore, BytesIn, IsCount
<1> HIDE DEF f
<1>4. f[0] = 0 /\ \A k \in 1..l : f[k] = f[k - 1] + FileOf(n).packets[k].size
  BY <1>1, <1>2 DEF IsCount
<1>5. ASSUME NEW pos \in 0..l PROVE BytesBefore(n, pos + 1) = BytesBefore(n, pos) + SizeAt(n, pos)
  <2>1. pos + 1 # 0 /\ (pos + 1) - 1 = pos
    BY <1>1
  <2>2. BytesBefore(n, pos + 1) = f[pos]
    BY <1>3, <2>1
  <2>3. CASE pos = 0
    BY <1>3, <1>4, <2>2, <2>3 DEF SizeAt
  <2>4. CASE pos # 0
    <3>1. BytesBefore(n, pos) = f[pos - 1]
      BY <1>3, <2>4
    <3>2. pos \in 1..l
      BY <1>1, <2>4
    <3> QED BY <1>4, <2>2, <2>4, <3>1, <3>2 DEF SizeAt
  <2> QED BY <2>3, <2>4
<1> QED BY <1>3, <1>5

(* What a source has counted, before its packet is sent and after.           *)
Counted(n, s) == s.sent = BytesBefore(n, s.pos) /\ s.size = SizeAt(n, s.pos)

CountedSent(n, s) == s.sent = BytesBefore(n, s.pos) + SizeAt(n, s.pos) /\ s.size = SizeAt(n, s.pos)

LEMMA ReadNextCounted ==
    ASSUME TypeOK, NEW n \in 1..N, NEW s, Within(n, s), CountedSent(n, s),
           ReadCode(n, s.pos) = "success"
    PROVE  Counted(n, ReadNext(n, s))
<1>1. s \in Source /\ s.pos \in 0..Len(FileOf(n).packets) /\ s.pos + 1 # 0
  BY FileType DEF Within, Source, TypeOK
<1>2. /\ ReadNext(n, s).pos = s.pos + 1
      /\ ReadNext(n, s).sent = s.sent
      /\ ReadNext(n, s).size = FileOf(n).packets[s.pos + 1].size
  BY DEF ReadNext
<1>3. BytesBefore(n, s.pos + 1) = BytesBefore(n, s.pos) + SizeAt(n, s.pos)
  BY <1>1, BytesStep
<1> QED BY <1>1, <1>2, <1>3 DEF Counted, CountedSent, SizeAt

(* The first packet of a capture is read with nothing counted, whatever the  *)
(* source held before.                                                       *)
LEMMA FirstCounted ==
    ASSUME TypeOK, NEW n \in 1..N, NEW s \in Source, s.pos = 0, s.sent = 0
    PROVE  Counted(n, ReadNext(n, s))
<1>1. BytesBefore(n, 0) = 0 /\ BytesBefore(n, 1) = 0
  <2>1. 0 \in 0..Len(FileOf(n).packets) /\ 0 + 1 = 1
    BY FileType DEF TypeOK
  <2>2. BytesBefore(n, 1) = BytesBefore(n, 0) + SizeAt(n, 0)
    BY <2>1, BytesStep
  <2> QED BY <2>2, BytesStep DEF SizeAt
<1>2. CASE ReadCode(n, s.pos) = "success"
  <2>1. /\ ReadNext(n, s).pos = 1 /\ ReadNext(n, s).sent = 0
        /\ ReadNext(n, s).size = FileOf(n).packets[1].size
    BY <1>2 DEF ReadNext
  <2> QED BY <1>1, <2>1 DEF Counted, SizeAt
<1>3. CASE ReadCode(n, s.pos) # "success"
  <2>1. ReadNext(n, s) = [s EXCEPT !.size = 0]
    BY <1>3 DEF ReadNext
  <2>2. ReadNext(n, s).pos = 0 /\ ReadNext(n, s).sent = 0 /\ ReadNext(n, s).size = 0
    BY <2>1 DEF Source
  <2> QED BY <1>1, <2>2 DEF Counted, SizeAt
<1> QED BY <1>2, <1>3

-----------------------------------------------------------------------------
(* Before any restart the position in the file is what has been sent.        *)
NeverRestarted(o) == \A i \in 1..Len(o) : o[i].type # "Restarted"

LEMMA SnocNever ==
    ASSUME NEW o \in Seq(Event), NEW e \in Event
    PROVE  NeverRestarted(o \o <<e>>) <=> NeverRestarted(o) /\ e.type # "Restarted"
<1> DEFINE p == o \o <<e>>
<1>1. /\ Len(p) = Len(o) + 1 /\ Len(o) \in Nat
      /\ p[Len(o) + 1] = e
      /\ \A i \in 1..Len(o) : p[i] = o[i]
  BY SnocKeeps
<1> HIDE DEF p
<1>2. 1..Len(p) = (1..Len(o)) \cup {Len(o) + 1}
  BY <1>1
<1> QED BY <1>1, <1>2 DEF NeverRestarted, p

LEMMA ChatterNever ==
    ASSUME NEW o \in Seq(Event), NEW p, Chatter(o, p)
    PROVE  NeverRestarted(p) <=> NeverRestarted(o)
BY SnocNever DEF Chatter

CountsMatch(o, c) ==
    \A n \in DOMAIN c : Counted(n, c[n]) /\ (NeverRestarted(o) => c[n].cur = c[n].sent)

StatsInv == pc # "failed" => CountsMatch(out, channels)

(* The channel that has sent moves on with its counts. *)
LEMMA SendsCounted ==
    ASSUME TypeOK, CountsMatch(out, channels), channels # <<>>, PacketDone
    PROVE  CountsMatch(out', channels')
<1> DEFINE n == NextChannel
           s == [channels[n] EXCEPT !.sent = @ + channels[n].size]
<1>1. n \in DOMAIN channels /\ n \in 1..N /\ channels[n] \in Source /\ Within(n, channels[n])
  BY NextExists, ChannelsWithin DEF TypeOK
<1>2. /\ s \in Source /\ s.pos = channels[n].pos /\ s.size = channels[n].size
      /\ s.cur = channels[n].cur /\ s.sent = channels[n].sent + channels[n].size
  BY <1>1 DEF Source
<1>3. /\ out' = out \o <<NextEvent("Packet")>>
      /\ \/ ReadCode(n, s.pos) = "success" /\ channels' = [channels EXCEPT ![n] = ReadNext(n, s)]
         \/ channels' = [k \in DOMAIN channels \ {n} |-> channels[k]]
  BY DEF PacketDone, EraseChannel
<1>4. NeverRestarted(out') <=> NeverRestarted(out)
  <2>1. NextEvent("Packet") \in Event /\ NextEvent("Packet").type = "Packet"
    BY EventTypes DEF NextEvent, EventType, EventOf
  <2> QED BY <1>3, <2>1, SnocNever DEF TypeOK
<1>5. Within(n, s) /\ CountedSent(n, s)
  BY <1>1, <1>2 DEF Within, CountsMatch, Counted, CountedSent
<1> HIDE DEF s, n
<1>6. CASE ReadCode(n, s.pos) = "success" /\ channels' = [channels EXCEPT ![n] = ReadNext(n, s)]
  <2>1. Counted(n, ReadNext(n, s))
    BY <1>1, <1>5, <1>6, ReadNextCounted
  <2>2. ReadNext(n, s).cur = s.cur + s.size /\ ReadNext(n, s).sent = s.sent
    BY <1>6 DEF ReadNext
  <2>3. NeverRestarted(out) => ReadNext(n, s).cur = ReadNext(n, s).sent
    BY <1>1, <1>2, <2>2 DEF CountsMatch
  <2> QED BY <1>1, <1>4, <1>6, <2>1, <2>3 DEF CountsMatch
<1>7. CASE channels' = [k \in DOMAIN channels \ {n} |-> channels[k]]
  BY <1>4, <1>7 DEF CountsMatch
<1> QED BY <1>3, <1>6, <1>7

LEMMA StepCounted ==
    ASSUME TypeOK, [Next]_vars, pc # "init", pc' # "failed", CountsMatch(out, channels)
    PROVE  CountsMatch(out', channels')
<1>0. out \in Seq(Event)
  BY DEF TypeOK
<1>1. CASE Speaks
  BY <1>0, <1>1, ChatterNever DEF Speaks, Same, CountsMatch
<1>2. CASE Reports
  <2>1. PICK o \in Seq(Event) : Chatter(out, o) /\ out' = o \o <<GroupReport>>
    BY <1>2 DEF Reports
  <2>2. NeverRestarted(out') => NeverRestarted(out)
    BY <1>0, <2>1, ReportType, SnocNever, ChatterNever
  <2> QED BY <1>2, <2>2 DEF Reports, Same, CountsMatch
<1>3. CASE Restarts
  <2>1. ~NeverRestarted(out')
    BY <1>3, SnocNever DEF Restarts
  <2>2. ASSUME NEW n \in DOMAIN channels PROVE Counted(n, RestartSource(n, channels[n]))
    <3> DEFINE r == [channels[n] EXCEPT !.pos = 0, !.cur = 0, !.sent = 0]
    <3>1. n \in 1..N /\ r \in Source /\ r.pos = 0 /\ r.sent = 0
      BY ChannelsWithin DEF Within, Source
    <3> HIDE DEF r
    <3>2. Counted(n, ReadNext(n, r))
      BY <3>1, FirstCounted
    <3> QED BY <3>2 DEF RestartSource, r
  <2> QED BY <1>3, <2>1, <2>2 DEF Restarts, CountsMatch
<1>4. CASE Announces
  <2>1. NextEvent("AutoPaused") \in Event
    BY <1>4, EventTypes DEF Announces, NextEvent, EventType
  <2>2. NeverRestarted(out') => NeverRestarted(out)
    BY <1>0, <1>4, <2>1, SnocNever DEF Announces
  <2> QED BY <1>4, <2>2 DEF Announces, CountsMatch
<1>5. CASE SendsNext
  BY <1>5, SendsCounted DEF SendsNext
<1>6. ~Begins
  BY DEF Begins
<1> QED BY <1>1, <1>2, <1>3, <1>4, <1>5, <1>6, StepKinds

LEMMA NextStatsInv ==
    ASSUME TypeOK, LoadInv, StatsInv, [Next]_vars
    PROVE  StatsInv'
<1> SUFFICES ASSUME pc' # "failed" PROVE CountsMatch(out', channels')
  BY SameScenario DEF StatsInv, CountsMatch, NeverRestarted, Counted, BytesBefore, SizeAt, FileOf
<1>1. pc # "failed" /\ CountsMatch(out, channels)
  BY FailedStays DEF StatsInv
<1>2. CASE pc' = "init"
  BY <1>1, <1>2, InitLeft
<1>3. CASE pc = "init" /\ pc' # "init"
  <2>1. channels' = [n \in Described |-> ReadNext(n, NewSource)]
    BY <1>3, Opened
  <2>2. ASSUME NEW n \in Described
        PROVE  Counted(n, ReadNext(n, NewSource)) /\ ReadNext(n, NewSource).cur = ReadNext(n, NewSource).sent
    <3>1. n \in 1..N /\ NewSource \in Source /\ NewSource.pos = 0 /\ NewSource.sent = 0
      BY NewSourceWithin DEF Described, TypeOK, Within, NewSource
    <3>2. ReadNext(n, NewSource).cur = 0 /\ ReadNext(n, NewSource).sent = 0
      BY DEF ReadNext, NewSource
    <3> QED BY <3>1, <3>2, FirstCounted
  <2> QED BY <2>1, <2>2 DEF CountsMatch
<1>4. CASE pc # "init" /\ pc' # "init"
  BY <1>1, <1>4, StepCounted
<1> QED BY <1>2, <1>3, <1>4

(* The bytes a report gives for a channel are those of the packets sent since *)
(* the restart, and until the first restart the position in the file as well. *)
THEOREM StatsCorrect == Spec => []StatsMatch
<1>1. Init => StatsInv
  BY DEF Init, StatsInv, CountsMatch
<1>2. TypeOK /\ StatsInv => StatsMatch
  <2> SUFFICES ASSUME TypeOK, StatsInv PROVE StatsMatch
    OBVIOUS
  <2>1. NoRestartWithin(1, Len(out)) => NeverRestarted(out)
    BY DEF NoRestartWithin, NeverRestarted
  <2> QED BY <2>1 DEF StatsInv, CountsMatch, Counted, StatsMatch
<1> QED
  BY InitTypeOK, NextTypeOK, InitLoaded, NextLoaded, NextStatsInv, <1>1, <1>2, PTL DEF Spec

-----------------------------------------------------------------------------
(* Guaranteed repeatability.  Before is a strict total order of the packets. *)
LEMMA PacketId ==
    ASSUME TypeOK, NEW p \in PacketIds
    PROVE  /\ p[1] \in Described /\ p[1] \in 1..N /\ p[1] \in Int
           /\ p[2] \in 1..Len(FileOf(p[1]).packets) /\ p[2] \in Int
           /\ p = <<p[1], p[2]>>
           /\ StampOf(p) \in CaptureTimes /\ StampOf(p) \in Held /\ StampOf(p) \in PacketTimes
<1>1. PICK n \in Described : p \in {<<n, i>> : i \in DOMAIN FileOf(n).packets}
  BY DEF PacketIds
<1>2. PICK i \in DOMAIN FileOf(n).packets : p = <<n, i>>
  BY <1>1
<1>3. n \in 1..N /\ FileOf(n).packets \in Seq(Packet)
  BY FileType DEF Described, TypeOK
<1>4. i \in 1..Len(FileOf(n).packets) /\ FileOf(n).packets[i] \in Packet
  BY <1>2, <1>3
<1>5. StampOf(p) = FileOf(n).packets[i].time
  BY <1>2 DEF StampOf
<1>6. StampOf(p) \in CaptureTimes
  BY <1>4, <1>5 DEF Packet
<1> QED BY <1>2, <1>3, <1>4, <1>6 DEF Held, CaptureTimes

LEMMA IdOfPacket ==
    ASSUME TypeOK, NEW n \in Described, NEW i \in 1..Len(FileOf(n).packets)
    PROVE  /\ <<n, i>> \in PacketIds
           /\ StampOf(<<n, i>>) = FileOf(n).packets[i].time
<1>1. FileOf(n).packets \in Seq(Packet)
  BY FileType DEF Described, TypeOK
<1>2. DOMAIN FileOf(n).packets = 1..Len(FileOf(n).packets)
  BY <1>1
<1>3. <<n, i>> \in {<<n, k>> : k \in DOMAIN FileOf(n).packets}
  BY <1>2
<1>4. <<n, i>> \in PacketIds
  BY <1>3 DEF PacketIds
<1> QED BY <1>4 DEF StampOf

LEMMA BeforeOrder ==
    ASSUME TypeOK, NEW p \in PacketIds, NEW q \in PacketIds
    PROVE  /\ ~Before(p, p)
           /\ Before(p, q) => ~Before(q, p)
           /\ p = q \/ Before(p, q) \/ Before(q, p)
<1> DEFINE a == StampOf(p)
           b == StampOf(q)
           Lex(x, y) == x[1] < y[1] \/ (x[1] = y[1] /\ x[2] < y[2])
<1>1. /\ a \in PacketTimes /\ b \in PacketTimes
      /\ p[1] \in Int /\ p[2] \in Int /\ q[1] \in Int /\ q[2] \in Int
      /\ p = <<p[1], p[2]>> /\ q = <<q[1], q[2]>>
  BY PacketId
<1>2. /\ ~Lex(p, p) /\ (Lex(p, q) => ~Lex(q, p)) /\ (p = q \/ Lex(p, q) \/ Lex(q, p))
  BY <1>1
<1>3. /\ ~Less(a, a)
      /\ Less(a, b) => ~Less(b, a)
      /\ Less(b, a) => ~Less(a, b)
  BY <1>1, NoLessSelf, LessAsymmetric
<1>4. /\ Before(p, q) <=> Less(a, b) \/ (~Less(b, a) /\ Lex(p, q))
      /\ Before(q, p) <=> Less(b, a) \/ (~Less(a, b) /\ Lex(q, p))
      /\ Before(p, p) <=> Less(a, a) \/ (~Less(a, a) /\ Lex(p, p))
  BY DEF Before
<1> HIDE DEF a, b, Lex
<1> QED BY <1>2, <1>3, <1>4

LEMMA BeforeTransitive ==
    ASSUME TypeOK, NEW p \in PacketIds, NEW q \in PacketIds, NEW r \in PacketIds,
           Before(p, q), Before(q, r)
    PROVE  Before(p, r)
<1> DEFINE a == StampOf(p)
           b == StampOf(q)
           c == StampOf(r)
           Lex(x, y) == x[1] < y[1] \/ (x[1] = y[1] /\ x[2] < y[2])
<1>1. /\ a \in Held /\ b \in Held /\ c \in Held
      /\ a \in PacketTimes /\ b \in PacketTimes /\ c \in PacketTimes
      /\ p[1] \in Int /\ p[2] \in Int /\ q[1] \in Int /\ q[2] \in Int
      /\ r[1] \in Int /\ r[2] \in Int
  BY PacketId
<1>2. Lex(p, q) /\ Lex(q, r) => Lex(p, r)
  BY <1>1
<1>3. /\ Less(a, b) \/ (~Less(b, a) /\ Lex(p, q))
      /\ Less(b, c) \/ (~Less(c, b) /\ Lex(q, r))
      /\ Before(p, r) <=> Less(a, c) \/ (~Less(c, a) /\ Lex(p, r))
  BY DEF Before
<1> HIDE DEF a, b, c, Lex
<1>4. ~Less(b, a) /\ ~Less(c, b)
  BY <1>1, <1>3, LessAsymmetric
<1>5. ~Less(c, a)
  BY <1>1, <1>4, HeldOrdered
<1>6. ASSUME ~Less(a, c) PROVE ~Less(a, b) /\ ~Less(b, c)
  BY <1>1, <1>4, <1>6, HeldOrdered
<1> QED BY <1>2, <1>3, <1>5, <1>6

(* What the preconditions of Repeatable say of the options and the disk. *)
Plain ==
    /\ SortedFiles
    /\ UniformPauses
    /\ \A n \in Described : FileOf(n).packets # <<>>

(* The packets the channels c still hold or have not read yet. *)
Left(c) == {q \in PacketIds : q[1] \in DOMAIN c /\ c[q[1]].pos <= q[2]}

(* Every channel has a packet to send. *)
Ready(c) == \A n \in DOMAIN c : n \in Described /\ c[n].pos >= 1

(* p comes before everything else of the packets Q. *)
FirstOf(p, Q) == p \in Q /\ \A q \in Q : q = p \/ Before(p, q)

NextId == <<NextChannel, channels[NextChannel].pos>>

LEMMA ChannelPacket ==
    ASSUME TypeOK, LoadInv, Ready(channels), NEW n \in DOMAIN channels
    PROVE  /\ n \in Described /\ channels[n].pos \in 1..Len(FileOf(n).packets)
           /\ <<n, channels[n].pos>> \in Left(channels)
           /\ channels[n].time = StampOf(<<n, channels[n].pos>>)
<1>1. n \in Described /\ channels[n].pos \in 1..Len(FileOf(n).packets)
  <2>1. /\ channels[n].pos \in Nat /\ channels[n].pos <= Len(FileOf(n).packets)
        /\ n \in 1..N
    BY ChannelsWithin DEF Within, Source
  <2>2. Len(FileOf(n).packets) \in Nat
    BY <2>1, FileType DEF TypeOK
  <2> QED BY <2>1, <2>2 DEF Ready
<1>2. <<n, channels[n].pos>> \in PacketIds
      /\ StampOf(<<n, channels[n].pos>>) = FileOf(n).packets[channels[n].pos].time
  BY <1>1, IdOfPacket
<1>3. <<n, channels[n].pos>> \in Left(channels)
  <2> DEFINE x == channels[n].pos
  <2>1. x <= x
    BY <1>1
  <2> HIDE DEF x
  <2>2. <<n, x>>[1] = n /\ <<n, x>>[2] = x
    OBVIOUS
  <2> QED BY <1>2, <2>1, <2>2 DEF Left, x
<1>4. channels[n].time = FileOf(n).packets[channels[n].pos].time
  BY <1>1 DEF LoadInv, Loaded, TimeAt
<1> QED BY <1>1, <1>2, <1>3, <1>4

(* What min_element picks is the first of all packets that are left. *)
LEMMA NextIsFirst ==
    ASSUME TypeOK, LoadInv, Plain, Ready(channels), channels # <<>>
    PROVE  FirstOf(NextId, Left(channels))
<1> DEFINE m == NextChannel
           p == NextId
<1>1. /\ m \in DOMAIN channels
      /\ \A n \in DOMAIN channels : /\ channels[n].time \in Held
                                    /\ ~Less(channels[n].time, channels[m].time)
                                    /\ n < m => Less(channels[m].time, channels[n].time)
  BY NextIsLeast
<1>2. p \in Left(channels) /\ channels[m].time = StampOf(p) /\ p[1] = m /\ p[2] = channels[m].pos
  BY <1>1, ChannelPacket DEF NextId
<1>3. SUFFICES ASSUME NEW q \in Left(channels), q # p PROVE Before(p, q)
  BY <1>2 DEF FirstOf
<1>4. /\ q \in PacketIds /\ p \in PacketIds
      /\ q[1] \in DOMAIN channels /\ channels[q[1]].pos <= q[2]
  BY <1>2 DEF Left
<1> DEFINE n == q[1]
           r == <<n, channels[n].pos>>
<1>5. /\ n \in Int /\ q[2] \in Int /\ p[1] \in Int /\ p[2] \in Int
      /\ q = <<q[1], q[2]>> /\ p = <<p[1], p[2]>>
      /\ q[2] \in 1..Len(FileOf(n).packets) /\ n \in 1..N
      /\ StampOf(q) \in Held /\ StampOf(p) \in Held
  BY <1>4, PacketId
<1>6. /\ r \in Left(channels) /\ channels[n].time = StampOf(r)
      /\ channels[n].pos \in 1..Len(FileOf(n).packets) /\ n \in Described
  BY <1>4, ChannelPacket
<1>7. ~Less(StampOf(q), StampOf(r)) /\ StampOf(r) \in Held
  <2>1. StampOf(r) = FileOf(n).packets[channels[n].pos].time /\ r \in PacketIds
    BY <1>6, IdOfPacket
  <2>2. StampOf(q) = FileOf(n).packets[q[2]].time
    BY DEF StampOf
  <2>3. CASE channels[n].pos < q[2]
    <3>1. FileOf(n).packets \in Seq(Packet)
      BY <1>5, FileType DEF TypeOK
    <3>2. DOMAIN FileOf(n).packets = 1..Len(FileOf(n).packets)
      BY <3>1
    <3> QED BY <1>5, <1>6, <2>1, <2>2, <2>3, <3>2, PacketId DEF Plain, SortedFiles
  <2>4. CASE channels[n].pos = q[2]
    BY <2>1, <2>2, <2>4, NoLessSelf, PacketId
  <2> QED BY <1>4, <1>5, <1>6, <2>3, <2>4
<1>8. ~Less(StampOf(q), StampOf(p))
  BY <1>1, <1>2, <1>4, <1>5, <1>6, <1>7, HeldOrdered
<1>9. CASE n < m
  <2>1. Less(StampOf(p), StampOf(r))
    BY <1>1, <1>2, <1>4, <1>6, <1>9
  <2>2. Less(StampOf(p), StampOf(q))
    BY <1>5, <1>7, <2>1, HeldOrdered
  <2> QED BY <2>2 DEF Before
<1>10. CASE n > m
  BY <1>2, <1>5, <1>8, <1>10 DEF Before
<1>11. CASE n = m
  <2>1. p[2] < q[2]
    BY <1>2, <1>3, <1>4, <1>5, <1>6, <1>11
  <2> QED BY <1>2, <1>8, <1>11, <2>1 DEF Before
<1> QED BY <1>2, <1>5, <1>9, <1>10, <1>11

(* Sending takes one packet from those that are left, and the next is ready. *)
LEMMA SendLeaves ==
    ASSUME TypeOK, LoadInv, Ready(channels), channels # <<>>, PacketDone
    PROVE  Left(channels') = Left(channels) \ {NextId} /\ Ready(channels')
<1> DEFINE m == NextChannel
           s == [channels[m] EXCEPT !.sent = @ + channels[m].size]
           x == channels[m].pos
           l == Len(FileOf(m).packets)
<1>1. m \in DOMAIN channels
  BY NextIsLeast
<1>2. m \in 1..N /\ channels[m] \in Source /\ x \in Nat /\ x \in 1..l
  BY <1>1, ChannelsWithin, ChannelPacket DEF Within, Source
<1>3. s \in Source /\ s.pos = x
  BY <1>2 DEF Source
<1>4. l \in Nat /\ FileOf(m).end # "success"
  BY <1>2, FileType DEF TypeOK
<1>5. \/ ReadCode(m, x) = "success" /\ channels' = [channels EXCEPT ![m] = ReadNext(m, s)]
      \/ ReadCode(m, x) = "eof" /\ channels' = [n \in DOMAIN channels \ {m} |-> channels[n]]
  BY <1>3 DEF PacketDone, EraseChannel
<1>6. ReadCode(m, x) = "success" => ReadNext(m, s).pos = x + 1
  BY <1>3 DEF ReadNext
<1>7. ReadCode(m, x) = "eof" => x = l
  BY <1>2, <1>4 DEF ReadCode
<1>8. NextId = <<m, x>>
  BY DEF NextId
<1>9. \A q \in PacketIds : /\ q[2] \in Int /\ q = <<q[1], q[2]>>
                           /\ q[1] = m => q[2] <= l
  BY PacketId
<1> HIDE DEF m, s, x, l
<1>10. ASSUME NEW q \in PacketIds
       PROVE  q \in Left(channels') <=> q \in Left(channels) /\ q # <<m, x>>
  <2>1. q[2] \in Int /\ q = <<q[1], q[2]>> /\ (q[1] = m => q[2] <= l)
    BY <1>9
  <2>2. q = <<m, x>> <=> q[1] = m /\ q[2] = x
    BY <2>1
  <2>3. CASE q[1] # m
    <3>1. q[1] \in DOMAIN channels' <=> q[1] \in DOMAIN channels
      BY <1>5, <2>3
    <3>2. q[1] \in DOMAIN channels => channels'[q[1]] = channels[q[1]]
      BY <1>5, <2>3
    <3> QED BY <2>2, <2>3, <3>1, <3>2 DEF Left
  <2>4. CASE q[1] = m
    <3>1. q \in Left(channels) <=> x <= q[2]
      BY <1>1, <2>4 DEF Left, x
    <3>2. CASE ReadCode(m, x) = "success"
      <4>1. m \in DOMAIN channels' /\ channels'[m].pos = x + 1
        BY <1>1, <1>5, <1>6, <3>2
      <4>2. q \in Left(channels') <=> x + 1 <= q[2]
        BY <2>4, <4>1 DEF Left
      <4> QED BY <1>2, <2>1, <2>2, <2>4, <3>1, <4>2
    <3>3. CASE ReadCode(m, x) = "eof"
      <4>1. m \notin DOMAIN channels'
        BY <1>5, <3>3
      <4>2. q \notin Left(channels')
        BY <2>4, <4>1 DEF Left
      <4>3. x <= q[2] => q[2] = x
        BY <1>2, <1>7, <2>1, <2>4, <3>3
      <4> QED BY <2>2, <2>4, <3>1, <4>2, <4>3
    <3> QED BY <1>5, <3>2, <3>3
  <2> QED BY <2>3, <2>4
<1>11. Ready(channels')
  <2>1. SUFFICES ASSUME NEW n \in DOMAIN channels' PROVE n \in Described /\ channels'[n].pos >= 1
    BY DEF Ready
  <2>2. n \in DOMAIN channels /\ n \in Described /\ channels[n].pos >= 1
    BY <1>1, <1>5 DEF Ready
  <2>3. CASE n # m
    BY <1>5, <2>1, <2>2, <2>3
  <2>4. CASE n = m
    BY <1>1, <1>2, <1>5, <1>6, <2>1, <2>2, <2>4
  <2> QED BY <2>3, <2>4
<1> QED BY <1>8, <1>10, <1>11 DEF Left

-----------------------------------------------------------------------------
(* SentBy and FiredBy, of any history.                                       *)
SentBefore(o, i) == {IdOf(o[j]) : j \in {j \in 1..(i - 1) : o[j].type = "Packet"}}

FiredBefore(o, i) == {j \in 1..(i - 1) : o[j].type = "AutoPaused"}

SentIn(o) == SentBefore(o, Len(o) + 1)

FiredIn(o) == FiredBefore(o, Len(o) + 1)

(* What Repeatable says of one event. *)
InItsPlace(e, S, F) ==
    e.type \in {"Packet", "AutoPaused"} =>
        /\ IdOf(e) \in PacketIds
        /\ S = {q \in PacketIds : Before(q, IdOf(e))}
        /\ IF e.type = "Packet"
           THEN Cardinality(F) = Cardinality(DueBy(IdOf(e)))
           ELSE Cardinality(F) < Cardinality(DueBy(IdOf(e)))

Foretold(o) == \A i \in 1..Len(o) : InItsPlace(o[i], SentBefore(o, i), FiredBefore(o, i))

LEMMA SnocSent ==
    ASSUME NEW o \in Seq(Event), NEW e \in Event
    PROVE  /\ SentIn(o \o <<e>>) = IF e.type = "Packet" THEN SentIn(o) \cup {IdOf(e)} ELSE SentIn(o)
           /\ FiredIn(o \o <<e>>) = IF e.type = "AutoPaused" THEN FiredIn(o) \cup {Len(o) + 1}
                                                             ELSE FiredIn(o)
           /\ Len(o) + 1 \notin FiredIn(o) /\ IsFiniteSet(FiredIn(o))
           /\ \A i \in 1..(Len(o) + 1) : /\ SentBefore(o \o <<e>>, i) = SentBefore(o, i)
                                         /\ FiredBefore(o \o <<e>>, i) = FiredBefore(o, i)
<1> DEFINE p == o \o <<e>>
           l == Len(o)
<1>1. /\ Len(p) = l + 1 /\ l \in Nat
      /\ p[l + 1] = e
      /\ \A i \in 1..l : p[i] = o[i]
  BY SnocRecent
<1> HIDE DEF p, l
<1>2. ASSUME NEW i \in 1..(l + 1)
      PROVE  SentBefore(p, i) = SentBefore(o, i) /\ FiredBefore(p, i) = FiredBefore(o, i)
  <2>1. \A j \in 1..(i - 1) : p[j] = o[j]
    BY <1>1
  <2> QED BY <2>1 DEF SentBefore, FiredBefore
<1>3. 1..((l + 1 + 1) - 1) = (1..l) \cup {l + 1} /\ 1..((l + 1) - 1) = 1..l
  BY <1>1
<1>4. FiredIn(p) = IF e.type = "AutoPaused" THEN FiredIn(o) \cup {l + 1} ELSE FiredIn(o)
  BY <1>1, <1>3 DEF FiredIn, FiredBefore, l
<1>5. SentIn(p) = IF e.type = "Packet" THEN SentIn(o) \cup {IdOf(e)} ELSE SentIn(o)
  <2>1. {j \in 1..(l + 1) : p[j].type = "Packet"} =
            {j \in 1..l : o[j].type = "Packet"} \cup (IF e.type = "Packet" THEN {l + 1} ELSE {})
    BY <1>1, <1>3
  <2>2. SentIn(p) = {IdOf(p[j]) : j \in {j \in 1..(l + 1) : p[j].type = "Packet"}}
    BY <1>1, <1>3 DEF SentIn, SentBefore
  <2>3. SentIn(o) = {IdOf(o[j]) : j \in {j \in 1..l : o[j].type = "Packet"}}
    BY <1>1, <1>3 DEF SentIn, SentBefore, l
  <2> QED BY <1>1, <2>1, <2>2, <2>3
<1>6. l + 1 \notin FiredIn(o) /\ IsFiniteSet(FiredIn(o))
  <2>1. FiredIn(o) \subseteq 1..l
    BY <1>3 DEF FiredIn, FiredBefore, l
  <2>2. IsFiniteSet(1..l)
    BY <1>1, FS_Interval
  <2> QED BY <1>1, <2>1, <2>2, FS_Subset
<1> QED BY <1>2, <1>4, <1>5, <1>6 DEF p, l

LEMMA SnocForetold ==
    ASSUME NEW o \in Seq(Event), NEW e \in Event, Foretold(o), InItsPlace(e, SentIn(o), FiredIn(o))
    PROVE  Foretold(o \o <<e>>)
<1> DEFINE p == o \o <<e>>
           l == Len(o)
<1>1. /\ Len(p) = l + 1 /\ l \in Nat
      /\ p[l + 1] = e
      /\ \A i \in 1..l : p[i] = o[i]
  BY SnocRecent
<1>2. \A i \in 1..(l + 1) : /\ SentBefore(p, i) = SentBefore(o, i)
                            /\ FiredBefore(p, i) = FiredBefore(o, i)
  BY SnocSent
<1> HIDE DEF p, l
<1>3. ASSUME NEW i \in 1..Len(p) PROVE InItsPlace(p[i], SentBefore(p, i), FiredBefore(p, i))
  <2>1. i \in 1..(l + 1)
    BY <1>1
  <2>2. CASE i \in 1..l
    BY <1>1, <1>2, <2>1, <2>2 DEF Foretold, l
  <2>3. CASE i = l + 1
    BY <1>1, <1>2, <2>1, <2>3 DEF SentIn, FiredIn, l
  <2> QED BY <1>1, <2>1, <2>2, <2>3
<1> QED BY <1>3 DEF Foretold, p

-----------------------------------------------------------------------------
(* The pauses of the file that have fired are those f, which gives the place *)
(* in the file of each pause still ahead, leaves out; each of them had a     *)
(* packet to precede that was not after any of the packets R.                *)
Used(f) == (1..Len(scenario.pauses)) \ {f[k] : k \in 1..Len(f)}

WasDue(k, R) ==
    \E q \in PacketIds : /\ Less(scenario.pauses[k], StampOf(q))
                         /\ \A r \in R : r = q \/ Before(q, r)

IsLedger(f, p, R, F) ==
    /\ f \in Seq(1..Len(scenario.pauses)) /\ Len(f) = Len(p)
    /\ \A k \in 1..Len(f) : p[k] = scenario.pauses[f[k]]
    /\ \A j, k \in 1..Len(f) : f[j] = f[k] => j = k
    /\ Cardinality(F) = Cardinality(Used(f))
    /\ \A k \in Used(f) : WasDue(k, R)

LEMMA ScenarioPauses ==
    ASSUME TypeOK
    PROVE  /\ scenario.pauses \in Seq(PauseTimes)
           /\ DOMAIN scenario.pauses = 1..Len(scenario.pauses)
           /\ Len(scenario.pauses) \in Nat
           /\ \A S : S \subseteq 1..Len(scenario.pauses) => IsFiniteSet(S) /\ Cardinality(S) \in Nat
<1>1. scenario.pauses \in Seq(PauseTimes)
  BY DEF TypeOK, Scenario
<1>2. DOMAIN scenario.pauses = 1..Len(scenario.pauses) /\ Len(scenario.pauses) \in Nat
  BY <1>1
<1>3. IsFiniteSet(1..Len(scenario.pauses))
  BY <1>2, FS_Interval
<1> QED BY <1>1, <1>2, <1>3, FS_Subset, FS_CardinalityType

LEMMA LedgerKeeps ==
    ASSUME NEW f, NEW p, NEW R, NEW Q \in SUBSET R, NEW F, IsLedger(f, p, R, F)
    PROVE  IsLedger(f, p, Q, F)
BY DEF IsLedger, WasDue

(* A pause fires. *)
LEMMA LedgerFires ==
    ASSUME TypeOK, NEW f, NEW p, NEW R, NEW F, IsLedger(f, p, R, F),
           NEW i \in 1..Len(p), p \in Seq(PauseTimes), WasDue(f[i], R),
           NEW x, x \notin F, IsFiniteSet(F)
    PROVE  /\ IsLedger(RemoveAt(f, i), RemoveAt(p, i), R, F \cup {x})
           /\ f[i] \in 1..Len(scenario.pauses) /\ f[i] \notin Used(f)
<1> DEFINE L == Len(scenario.pauses)
           g == RemoveAt(f, i)
           l == Len(f)
           Old == [k \in 1..(l - 1) |-> IF k < i THEN k ELSE k + 1]
<1>1. /\ f \in Seq(1..L) /\ Len(p) = l /\ l \in Nat /\ i \in 1..l
      /\ \A k \in 1..l : p[k] = scenario.pauses[f[k]] /\ f[k] \in 1..L
      /\ \A j, k \in 1..l : f[j] = f[k] => j = k
  BY DEF IsLedger
<1>2. /\ g \in Seq(1..L) /\ Len(g) = l - 1 /\ l - 1 \in Nat
      /\ \A k \in 1..(l - 1) : g[k] = f[Old[k]]
  BY <1>1, RemoveAtIndex, RemoveAtType
<1>3. /\ Len(RemoveAt(p, i)) = l - 1
      /\ \A k \in 1..(l - 1) : RemoveAt(p, i)[k] = p[Old[k]]
  <2>1. /\ Len(RemoveAt(p, i)) = Len(p) - 1
        /\ \A k \in 1..(Len(p) - 1) : RemoveAt(p, i)[k] = p[IF k < i THEN k ELSE k + 1]
    BY RemoveAtIndex
  <2> QED BY <1>1, <2>1
<1>4. /\ \A k \in 1..(l - 1) : Old[k] \in 1..l /\ Old[k] # i
      /\ \A j, k \in 1..(l - 1) : Old[j] = Old[k] => j = k
  BY <1>1
<1>5. ASSUME NEW m \in 1..l, m # i PROVE \E k \in 1..(l - 1) : Old[k] = m
  <2>1. CASE m < i
    <3>1. m \in 1..(l - 1) /\ Old[m] = m
      BY <1>1, <1>5, <2>1
    <3> QED BY <3>1
  <2>2. CASE m > i
    <3>1. m - 1 \in 1..(l - 1) /\ Old[m - 1] = m
      BY <1>1, <1>5, <2>2
    <3> QED BY <3>1
  <2> QED BY <1>1, <1>5, <2>1, <2>2
<1> HIDE DEF g, l, Old
<1>6. f[i] \in 1..L /\ f[i] \notin Used(f)
  BY <1>1 DEF Used, l, L
<1>7. Used(g) = Used(f) \cup {f[i]}
  <2>1. \A y \in 1..L : (\E k \in 1..(l - 1) : g[k] = y) <=> (\E k \in 1..l : f[k] = y) /\ y # f[i]
    <3>1. ASSUME NEW y, NEW k \in 1..(l - 1), g[k] = y PROVE (\E m \in 1..l : f[m] = y) /\ y # f[i]
      <4>1. Old[k] \in 1..l /\ Old[k] # i
        BY <1>4
      <4>2. f[Old[k]] = y
        BY <1>2, <3>1
      <4>3. i \in 1..l /\ \A j, m \in 1..l : f[j] = f[m] => j = m
        BY <1>1
      <4> QED BY <4>1, <4>2, <4>3
    <3>2. ASSUME NEW y, NEW k \in 1..l, f[k] = y, y # f[i] PROVE \E m \in 1..(l - 1) : g[m] = y
      <4>1. PICK m \in 1..(l - 1) : Old[m] = k
        BY <1>5, <3>2
      <4> QED BY <1>2, <3>2, <4>1
    <3> QED BY <3>1, <3>2
  <2>2. \A y : y \in Used(g) <=> y \in 1..L /\ ~ \E k \in 1..(l - 1) : g[k] = y
    BY <1>2 DEF Used, L
  <2>3. \A y : y \in Used(f) <=> y \in 1..L /\ ~ \E k \in 1..l : f[k] = y
    BY DEF Used, L, l
  <2>4. ASSUME NEW y \in 1..L PROVE y \in Used(g) <=> y \in Used(f) \/ y = f[i]
    BY <1>1, <2>1, <2>2, <2>3
  <2> HIDE DEF L
  <2> QED BY <1>6, <2>2, <2>3, <2>4
<1>8. Cardinality(F \cup {x}) = Cardinality(Used(g))
  <2>1. IsFiniteSet(Used(f))
    BY ScenarioPauses DEF Used
  <2>2. Cardinality(F \cup {x}) = Cardinality(F) + 1
    BY FS_AddElement
  <2>3. Cardinality(Used(f) \cup {f[i]}) = Cardinality(Used(f)) + 1
    BY <1>6, <2>1, FS_AddElement
  <2> QED BY <1>7, <2>2, <2>3 DEF IsLedger
<1>9. \A k \in Used(g) : WasDue(k, R)
  BY <1>7 DEF IsLedger
<1>10. ASSUME NEW k \in 1..(l - 1) PROVE RemoveAt(p, i)[k] = scenario.pauses[g[k]]
  <2>1. Old[k] \in 1..l /\ RemoveAt(p, i)[k] = p[Old[k]] /\ g[k] = f[Old[k]]
    BY <1>2, <1>3, <1>4
  <2> QED BY <1>1, <2>1
<1>11. ASSUME NEW j \in 1..(l - 1), NEW k \in 1..(l - 1), g[j] = g[k] PROVE j = k
  <2>1. Old[j] \in 1..l /\ Old[k] \in 1..l /\ f[Old[j]] = f[Old[k]]
    BY <1>2, <1>4, <1>11
  <2>2. \A m, n \in 1..l : f[m] = f[n] => m = n
    BY <1>1
  <2>3. Old[j] = Old[k]
    BY <2>1, <2>2
  <2> QED BY <1>4, <2>3
<1> QED BY <1>2, <1>3, <1>6, <1>8, <1>9, <1>10, <1>11 DEF IsLedger, g, L

-----------------------------------------------------------------------------
(* What stands of the replay between two events: the packets sent are those  *)
(* no channel holds or has ahead of it, all of them before all of the        *)
(* others, and the pauses that have fired are accounted for.                 *)
Standing(o, c, p) ==
    /\ Ready(c)
    /\ SentIn(o) = PacketIds \ Left(c)
    /\ \A q \in SentIn(o), r \in Left(c) : Before(q, r)
    /\ \E f : IsLedger(f, p, Left(c), FiredIn(o))

LEMMA NextEventId ==
    ASSUME TypeOK, channels # <<>>, NEW type \in EventType
    PROVE  IdOf(NextEvent(type)) = NextId
<1>1. NextChannel \in 1..N
  BY NextExists DEF TypeOK
<1>2. NextEvent(type).of = {NextChannel} /\ NextEvent(type).pos = channels[NextChannel].pos
  BY DEF NextEvent, EventOf
<1>3. ChannelOf(NextEvent(type)) = NextChannel
  BY <1>1, <1>2 DEF ChannelOf
<1> QED BY <1>2, <1>3 DEF IdOf, NextId

(* Once the first of the packets left has gone out, all before it have too. *)
LEMMA NextIsForetold ==
    ASSUME TypeOK, NEW x, NEW S, NEW L \in SUBSET PacketIds, FirstOf(x, L),
           S = PacketIds \ L, \A q \in S, r \in L : Before(q, r)
    PROVE  /\ x \in PacketIds
           /\ S = {q \in PacketIds : Before(q, x)}
           /\ S \cup {x} = PacketIds \ (L \ {x})
           /\ \A q \in S \cup {x}, r \in L \ {x} : Before(q, r)
<1>1. x \in PacketIds /\ x \in L /\ \A q \in L : q = x \/ Before(x, q)
  BY DEF FirstOf
<1>2. ASSUME NEW q \in PacketIds PROVE q \in S <=> Before(q, x)
  <2>1. CASE q \in S
    BY <1>1, <2>1
  <2>2. CASE q \notin S
    <3>1. q = x \/ Before(x, q)
      BY <1>1, <2>2
    <3>2. ~Before(q, x)
      BY <1>1, <3>1, BeforeOrder
    <3> QED BY <2>2, <3>2
  <2> QED BY <2>1, <2>2
<1> QED BY <1>1, <1>2

(* No pause still ahead is before a packet that has been sent. *)
LEMMA SentNotLate ==
    ASSUME TypeOK, PauseInv, UniformPauses, SentIn(out) \subseteq PacketIds,
           NEW q \in SentIn(out), NEW k \in 1..Len(pauses)
    PROVE  ~Less(pauses[k], StampOf(q))
<1>1. PICK i \in 1..Len(out) : out[i].type = "Packet" /\ q = IdOf(out[i])
  <2>1. (Len(out) + 1) - 1 = Len(out)
    BY DEF TypeOK
  <2> QED BY <2>1 DEF SentIn, SentBefore
<1>2. q[2] \in 1..Len(FileOf(q[1]).packets)
  BY PacketId
<1>3. q[1] = ChannelOf(out[i]) /\ q[2] = out[i].pos
  BY <1>1 DEF IdOf
<1>4. out[i].pos # 0
  BY <1>2, <1>3
<1>5. TimeOf(out[i]) = StampOf(q)
  BY <1>3, <1>4 DEF TimeOf, StampOf
<1>6. DOMAIN pauses = 1..Len(pauses)
  BY DEF TypeOK
<1> QED BY <1>1, <1>5, <1>6 DEF PauseInv, Passed

(* Before a packet goes out, the pauses that are due have all fired. *)
LEMMA DueHaveFired ==
    ASSUME TypeOK, LoadInv, PauseInv, Plain, channels # <<>>, ~PauseDue,
           Standing(out, channels, pauses)
    PROVE  Cardinality(FiredIn(out)) = Cardinality(DueBy(NextId))
<1> DEFINE L == Left(channels)
<1>1. PICK f : IsLedger(f, pauses, L, FiredIn(out))
  BY DEF Standing
<1>2. FirstOf(NextId, L) /\ L \subseteq PacketIds
  BY NextIsFirst DEF Standing, Left
<1>3. /\ NextId \in PacketIds
      /\ SentIn(out) = {q \in PacketIds : Before(q, NextId)}
  BY <1>2, NextIsForetold DEF Standing
<1>4. channels[NextChannel].time = StampOf(NextId)
  BY ChannelPacket, NextIsLeast DEF Standing, NextId
<1> HIDE DEF L
<1>5. ASSUME NEW k \in Used(f) PROVE k \in DueBy(NextId)
  <2>1. k \in DOMAIN scenario.pauses
    BY <1>5, ScenarioPauses DEF Used
  <2>2. PICK q \in PacketIds : /\ Less(scenario.pauses[k], StampOf(q))
                               /\ \A r \in L : r = q \/ Before(q, r)
    BY <1>1, <1>5 DEF IsLedger, WasDue
  <2>3. q = NextId \/ Before(q, NextId)
    BY <1>2, <2>2 DEF FirstOf
  <2> QED BY <2>1, <2>2, <2>3 DEF DueBy
<1>6. ASSUME NEW k \in DueBy(NextId) PROVE k \in Used(f)
  <2>1. k \in 1..Len(scenario.pauses)
    BY <1>6, ScenarioPauses DEF DueBy
  <2>2. PICK q \in PacketIds : /\ q = NextId \/ Before(q, NextId)
                               /\ Less(scenario.pauses[k], StampOf(q))
    BY <1>6 DEF DueBy
  <2>3. ASSUME NEW j \in 1..Len(f), f[j] = k PROVE FALSE
    <3>1. j \in 1..Len(pauses) /\ j \in DOMAIN pauses /\ pauses[j] = scenario.pauses[k]
      BY <1>1, <2>3 DEF IsLedger, TypeOK
    <3>2. CASE q = NextId
      BY <1>4, <2>2, <3>1, <3>2, NoPauseBefore DEF Plain
    <3>3. CASE Before(q, NextId)
      BY <1>3, <2>2, <3>1, <3>3, SentNotLate DEF Plain
    <3> QED BY <2>2, <3>2, <3>3
  <2> QED BY <2>1, <2>3 DEF Used
<1>7. Used(f) = DueBy(NextId)
  BY <1>5, <1>6
<1> QED BY <1>1, <1>7 DEF IsLedger

(* The pause that fires is one of those that are due. *)
LEMMA OneMoreIsDue ==
    ASSUME TypeOK, LoadInv, PauseInv, Plain, channels # <<>>, PauseDue,
           NextPause \in 1..Len(pauses), Standing(out, channels, pauses)
    PROVE  /\ Cardinality(FiredIn(out)) < Cardinality(DueBy(NextId))
           /\ \E g : IsLedger(g, RemoveAt(pauses, NextPause), Left(channels),
                              FiredIn(out) \cup {Len(out) + 1})
<1> DEFINE L == Left(channels)
           F == FiredIn(out)
           i == NextPause
<1>1. PICK f : IsLedger(f, pauses, L, F)
  BY DEF Standing
<1>2. FirstOf(NextId, L) /\ NextId \in PacketIds
  BY NextIsFirst DEF Standing, Left, FirstOf
<1>3. channels[NextChannel].time = StampOf(NextId)
  BY ChannelPacket, NextIsLeast DEF Standing, NextId
<1>4. Len(out) + 1 \notin F /\ IsFiniteSet(F)
  BY SnocSent, NextEventTime DEF TypeOK, EventType
<1>5. i \in 1..Len(pauses) /\ pauses \in Seq(PauseTimes) /\ Less(pauses[i], StampOf(NextId))
  BY <1>3 DEF PauseInv, PauseDue
<1> HIDE DEF L, F, i
<1>6. pauses[i] = scenario.pauses[f[i]]
  BY <1>1, <1>5 DEF IsLedger
<1>7. WasDue(f[i], L)
  BY <1>2, <1>5, <1>6 DEF WasDue, FirstOf
<1>8. /\ IsLedger(RemoveAt(f, i), RemoveAt(pauses, i), L, F \cup {Len(out) + 1})
      /\ f[i] \in 1..Len(scenario.pauses) /\ f[i] \notin Used(f)
  BY <1>1, <1>4, <1>5, <1>7, LedgerFires
<1>9. Used(f) \cup {f[i]} \subseteq DueBy(NextId)
  <2>1. ASSUME NEW k \in Used(f) \cup {f[i]} PROVE k \in DueBy(NextId)
    <3>1. k \in DOMAIN scenario.pauses
      BY <1>8, <2>1, ScenarioPauses DEF Used
    <3>2. WasDue(k, L)
      BY <1>1, <1>7, <2>1 DEF IsLedger
    <3>3. PICK q \in PacketIds : /\ Less(scenario.pauses[k], StampOf(q))
                                 /\ \A r \in L : r = q \/ Before(q, r)
      BY <3>2 DEF WasDue
    <3>4. q = NextId \/ Before(q, NextId)
      BY <1>2, <3>3 DEF FirstOf
    <3> QED BY <3>1, <3>3, <3>4 DEF DueBy
  <2> QED BY <2>1
<1>10. Cardinality(F) < Cardinality(DueBy(NextId))
  <2>1. Used(f) \subseteq 1..Len(scenario.pauses) /\ DueBy(NextId) \subseteq 1..Len(scenario.pauses)
    BY ScenarioPauses DEF Used, DueBy
  <2>2. /\ IsFiniteSet(Used(f)) /\ IsFiniteSet(DueBy(NextId))
        /\ Cardinality(Used(f)) \in Nat /\ Cardinality(DueBy(NextId)) \in Nat
    BY <2>1, ScenarioPauses
  <2>3. Cardinality(Used(f) \cup {f[i]}) = Cardinality(Used(f)) + 1
    BY <1>8, <2>2, FS_AddElement
  <2>4. Cardinality(Used(f) \cup {f[i]}) <= Cardinality(DueBy(NextId))
    BY <1>9, <2>2, FS_Subset
  <2>5. Cardinality(F) = Cardinality(Used(f))
    BY <1>1 DEF IsLedger
  <2> QED BY <2>2, <2>3, <2>4, <2>5
<1> QED BY <1>8, <1>10 DEF L, F, i

(* Events that are neither packets nor pauses change nothing of that. *)
LEMMA SnocStanding ==
    ASSUME NEW o \in Seq(Event), NEW e \in Event, e.type \notin {"Packet", "AutoPaused"}
    PROVE  /\ Foretold(o) => Foretold(o \o <<e>>)
           /\ \A c, p : Standing(o, c, p) => Standing(o \o <<e>>, c, p)
<1>1. InItsPlace(e, SentIn(o), FiredIn(o))
  BY DEF InItsPlace
<1>2. SentIn(o \o <<e>>) = SentIn(o) /\ FiredIn(o \o <<e>>) = FiredIn(o)
  BY SnocSent
<1> QED BY <1>1, <1>2, SnocForetold DEF Standing

LEMMA ChatterStanding ==
    ASSUME NEW o \in Seq(Event), NEW q, Chatter(o, q)
    PROVE  /\ q \in Seq(Event)
           /\ Foretold(o) => Foretold(q)
           /\ \A c, p : Standing(o, c, p) => Standing(q, c, p)
<1>1. CASE q = o
  BY <1>1
<1>2. CASE q # o
  <2>1. PICK e \in Event : q = o \o <<e>> /\ e.type \notin {"Packet", "AutoPaused"}
    BY <1>2 DEF Chatter
  <2> QED BY <2>1, SnocKeeps, SnocStanding
<1> QED BY <1>1, <1>2

-----------------------------------------------------------------------------
LEMMA AnnouncesStanding ==
    ASSUME TypeOK, LoadInv, PauseInv, Plain, Announces, Foretold(out),
           Standing(out, channels, pauses)
    PROVE  Foretold(out') /\ Standing(out', channels', pauses')
<1> DEFINE e == NextEvent("AutoPaused")
           L == Left(channels)
<1>1. e \in Event /\ e.type = "AutoPaused" /\ IdOf(e) = NextId /\ out' = out \o <<e>>
  BY NextEventTime, NextEventId DEF Announces, EventType
<1> HIDE DEF e
<1>2. /\ Cardinality(FiredIn(out)) < Cardinality(DueBy(NextId))
      /\ \E g : IsLedger(g, RemoveAt(pauses, NextPause), Left(channels),
                         FiredIn(out) \cup {Len(out) + 1})
  BY OneMoreIsDue DEF Announces
<1>3. FirstOf(NextId, L)
  BY NextIsFirst DEF Announces, Standing
<1>4. NextId \in PacketIds /\ SentIn(out) = {q \in PacketIds : Before(q, NextId)}
  <2>1. /\ L \in SUBSET PacketIds
        /\ SentIn(out) = PacketIds \ L
        /\ \A q \in SentIn(out), r \in L : Before(q, r)
    BY DEF Standing, Left
  <2> HIDE DEF L
  <2> QED BY <1>3, <2>1, NextIsForetold
<1>5. InItsPlace(e, SentIn(out), FiredIn(out))
  BY <1>1, <1>2, <1>4 DEF InItsPlace
<1>6. out \in Seq(Event)
  BY DEF TypeOK
<1>7. SentIn(out') = SentIn(out) /\ FiredIn(out') = FiredIn(out) \cup {Len(out) + 1}
  BY <1>1, <1>6, SnocSent
<1> QED BY <1>1, <1>2, <1>5, <1>6, <1>7, SnocForetold DEF Standing, Announces

LEMMA SendsForetold ==
    ASSUME TypeOK, LoadInv, PauseInv, Plain, SendsNext, Foretold(out),
           Standing(out, channels, pauses)
    PROVE  Foretold(out') /\ (PacketDone => Standing(out', channels', pauses'))
<1> DEFINE e == NextEvent("Packet")
           L == Left(channels)
<1>1. e \in Event /\ e.type = "Packet" /\ IdOf(e) = NextId
  BY NextEventTime, NextEventId DEF SendsNext, EventType
<1>2. Chatter(out \o <<e>>, out') /\ (PacketDone => out' = out \o <<e>>) /\ pauses' = pauses
  BY DEF SendsNext, PacketDone
<1> HIDE DEF e
<1>3. FirstOf(NextId, L)
  BY NextIsFirst DEF SendsNext, Standing
<1>4. /\ NextId \in PacketIds
      /\ SentIn(out) = {q \in PacketIds : Before(q, NextId)}
      /\ SentIn(out) \cup {NextId} = PacketIds \ (L \ {NextId})
      /\ \A q \in SentIn(out) \cup {NextId}, r \in L \ {NextId} : Before(q, r)
  <2>1. /\ L \in SUBSET PacketIds
        /\ SentIn(out) = PacketIds \ L
        /\ \A q \in SentIn(out), r \in L : Before(q, r)
    BY DEF Standing, Left
  <2> HIDE DEF L
  <2> QED BY <1>3, <2>1, NextIsForetold
<1>5. Cardinality(FiredIn(out)) = Cardinality(DueBy(NextId))
  BY DueHaveFired DEF SendsNext
<1>6. InItsPlace(e, SentIn(out), FiredIn(out))
  BY <1>1, <1>4, <1>5 DEF InItsPlace
<1>7. out \in Seq(Event)
  BY DEF TypeOK
<1>8. Foretold(out \o <<e>>) /\ out \o <<e>> \in Seq(Event)
  BY <1>1, <1>6, <1>7, SnocForetold, SnocKeeps
<1>9. ASSUME PacketDone PROVE Standing(out', channels', pauses')
  <2>1. Left(channels') = L \ {NextId} /\ Ready(channels')
    BY <1>9, SendLeaves DEF SendsNext, Standing
  <2>2. SentIn(out') = SentIn(out) \cup {NextId} /\ FiredIn(out') = FiredIn(out)
    BY <1>1, <1>2, <1>7, <1>9, SnocSent
  <2>3. PICK f : IsLedger(f, pauses, L, FiredIn(out))
    BY DEF Standing
  <2>4. IsLedger(f, pauses', Left(channels'), FiredIn(out'))
    BY <1>2, <2>1, <2>2, <2>3, LedgerKeeps
  <2> QED BY <1>4, <2>1, <2>2, <2>4 DEF Standing
<1> QED BY <1>2, <1>8, <1>9, ChatterStanding

(* At first nothing has been sent and no pause has fired. *)
LEMMA OpenedStanding ==
    ASSUME TypeOK, Plain, NEW c, c = [n \in Described |-> ReadNext(n, NewSource)]
    PROVE  Foretold(<<>>) /\ Standing(<<>>, c, scenario.pauses)
<1> DEFINE l == Len(scenario.pauses)
           f == [k \in 1..l |-> k]
<1>1. ASSUME NEW n \in Described PROVE c[n].pos = 1 /\ n \in DOMAIN c
  <2>1. FileOf(n).packets # <<>> /\ Len(FileOf(n).packets) > 0
    BY FileType DEF Plain, Described, TypeOK
  <2>2. ReadNext(n, NewSource).pos = 1
    BY <2>1 DEF ReadNext, ReadCode, NewSource
  <2> QED BY <2>2
<1>2. Ready(c)
  BY <1>1 DEF Ready
<1>3. Left(c) = PacketIds
  BY <1>1, PacketId DEF Left
<1>4. SentIn(<<>>) = {} /\ FiredIn(<<>>) = {}
  BY DEF SentIn, SentBefore, FiredIn, FiredBefore
<1>5. Used(f) = {}
  BY ScenarioPauses DEF Used
<1>6. IsLedger(f, scenario.pauses, PacketIds, {})
  <2>1. /\ f \in Seq(1..l) /\ Len(f) = l
        /\ \A k \in 1..l : f[k] = k
    BY ScenarioPauses
  <2>2. Cardinality({}) = 0
    BY FS_EmptySet
  <2> HIDE DEF f
  <2> QED BY <1>5, <2>1, <2>2 DEF IsLedger
<1>7. Foretold(<<>>)
  BY DEF Foretold
<1> QED BY <1>2, <1>3, <1>4, <1>6, <1>7 DEF Standing

LEMMA FailedQuiet == ASSUME [Next]_vars, pc = "failed" PROVE out' = out
<1>1. CASE ProcessOOBQueue
  BY <1>1 DEF ProcessOOBQueue, HandleTogglePause, HandleSetPauseState,
              HandleThreadDie, HandleRestart, HandleRequestProgress, LeaveOOBQueue, Handle
<1>2. CASE ProcessPacket
  BY <1>2 DEF ProcessPacket, NoChannelLeft, AutoPause, SendPacket, SendFails
<1>3. CASE Start \/ CheckChannels \/ Teardown
  BY <1>3 DEF Start, CheckChannels, Teardown
<1>4. CASE Push \/ Tick \/ UNCHANGED vars
  BY <1>4 DEF Push, Tick, vars, groupVars
<1> QED BY <1>1, <1>2, <1>3, <1>4 DEF Next, Thread

LEMMA NeverBefore ==
    ASSUME TypeOK, LoadInv, [Next]_vars, NeverRestarted(out')
    PROVE  NeverRestarted(out) /\ ~Restarts
<1>0. out \in Seq(Event)
  BY DEF TypeOK
<1>1. ~Restarts
  BY SnocNever DEF Restarts
<1>2. Speaks => NeverRestarted(out)
  BY <1>0, ChatterNever DEF Speaks
<1>3. ASSUME Reports PROVE NeverRestarted(out)
  <2>1. PICK o \in Seq(Event) : Chatter(out, o) /\ out' = o \o <<GroupReport>>
    BY <1>3 DEF Reports
  <2>2. NeverRestarted(o)
    BY <2>1, ReportType, SnocNever
  <2> QED BY <1>0, <2>1, <2>2, ChatterNever
<1>4. ASSUME Announces PROVE NeverRestarted(out)
  <2>1. NextEvent("AutoPaused") \in Event
    BY <1>4, NextEventTime DEF Announces, EventType
  <2> QED BY <1>0, <1>4, <2>1, SnocNever DEF Announces
<1>5. ASSUME SendsNext PROVE NeverRestarted(out)
  <2>1. NextEvent("Packet") \in Event
    BY <1>5, NextEventTime DEF SendsNext, EventType
  <2>2. NeverRestarted(out \o <<NextEvent("Packet")>>)
    BY <1>0, <1>5, <2>1, SnocKeeps, ChatterNever DEF SendsNext
  <2> QED BY <1>0, <2>1, <2>2, SnocNever
<1>6. Begins => NeverRestarted(out)
  BY DEF Begins
<1> QED BY <1>1, <1>2, <1>3, <1>4, <1>5, <1>6, StepKinds

(* Until the first restart, everything that went out was foretold. *)
DayInv ==
    /\ pc = "init" => pauses = scenario.pauses
    /\ Plain /\ NeverRestarted(out) =>
           /\ Foretold(out)
           /\ pc \notin {"init", "failed"} => Standing(out, channels, pauses)

LEMMA StepStanding ==
    ASSUME TypeOK, LoadInv, PauseInv, [Next]_vars, pc \notin {"init", "failed"}, Plain, ~Restarts,
           Foretold(out), Standing(out, channels, pauses)
    PROVE  Foretold(out') /\ (pc' # "failed" => Standing(out', channels', pauses'))
<1>0. out \in Seq(Event)
  BY DEF TypeOK
<1>1. CASE Speaks
  BY <1>0, <1>1, ChatterStanding DEF Speaks, Same
<1>2. CASE Reports
  <2>1. PICK o \in Seq(Event) : Chatter(out, o) /\ out' = o \o <<GroupReport>>
    BY <1>2 DEF Reports
  <2>2. Foretold(o) /\ Standing(o, channels, pauses)
    BY <1>0, <2>1, ChatterStanding
  <2> QED BY <1>2, <2>1, <2>2, ReportType, SnocStanding DEF Reports, Same
<1>3. CASE Announces
  BY <1>3, AnnouncesStanding
<1>4. CASE SendsNext
  BY <1>4, SendsForetold DEF SendsNext
<1>5. ~Begins
  BY DEF Begins
<1> QED BY <1>1, <1>2, <1>3, <1>4, <1>5, StepKinds

LEMMA NextDayInv ==
    ASSUME TypeOK, LoadInv, PauseInv, DayInv, [Next]_vars
    PROVE  DayInv'
<1>1. pc = "init" => pauses' = pauses
  BY StepKinds DEF LoadInv, Speaks, Reports, Restarts, Announces, SendsNext, Begins, Same
<1>2. scenario' = scenario
  BY SameScenario
<1>3. Plain' <=> Plain
  BY <1>2 DEF Plain, SortedFiles, UniformPauses, Described, FileOf
<1>4. NeverRestarted(out)' <=> NeverRestarted(out')
  BY DEF NeverRestarted
<1>5. pc' = "init" => pauses' = scenario'.pauses
  BY <1>1, <1>2, InitLeft DEF DayInv
<1>6. ASSUME Plain, NeverRestarted(out')
      PROVE  Foretold(out') /\ (pc' \notin {"init", "failed"} => Standing(out', channels', pauses'))
  <2>1. NeverRestarted(out) /\ ~Restarts
    BY <1>6, NeverBefore
  <2>2. /\ Foretold(out)
        /\ pc \notin {"init", "failed"} => Standing(out, channels, pauses)
    BY <1>6, <2>1 DEF DayInv
  <2>3. CASE pc = "init" /\ pc' \notin {"init", "failed"}
    <3>1. channels' = [n \in Described |-> ReadNext(n, NewSource)] /\ out' = <<>>
      BY <2>3, Opened DEF LoadInv
    <3>2. pauses' = scenario.pauses
      BY <1>1, <2>3 DEF DayInv
    <3> QED BY <1>6, <3>1, <3>2, OpenedStanding
  <2>4. CASE pc = "init" /\ pc' \in {"init", "failed"}
    <3>1. out \in Seq(Event) /\ channels = <<>>
      BY <2>4 DEF TypeOK, LoadInv
    <3>2. CASE Reports
      <4>1. PICK o \in Seq(Event) : Chatter(out, o) /\ out' = o \o <<GroupReport>>
        BY <3>2 DEF Reports
      <4> QED BY <2>2, <2>4, <3>1, <4>1, ChatterStanding, ReportType, SnocStanding
    <3>3. CASE Speaks \/ Begins
      BY <2>2, <2>4, <3>1, <3>3, ChatterStanding DEF Speaks, Begins
    <3> QED BY <2>1, <3>1, <3>2, <3>3, StepKinds DEF Announces, SendsNext
  <2>5. CASE pc = "failed"
    BY <2>2, <2>5, FailedQuiet, FailedStays
  <2>6. CASE pc \notin {"init", "failed"}
    BY <1>6, <2>1, <2>2, <2>6, StepStanding
  <2> QED BY <2>3, <2>4, <2>5, <2>6
<1>7. Foretold(out') <=> Foretold(out)'
  BY <1>2 DEF Foretold, InItsPlace, SentBefore, FiredBefore, IdOf, ChannelOf, PacketIds, Described,
              FileOf, Before, StampOf, DueBy
<1>8. Standing(out', channels', pauses') <=> Standing(out, channels, pauses)'
  BY <1>2 DEF Standing, Ready, SentIn, FiredIn, SentBefore, FiredBefore, IdOf, ChannelOf, PacketIds,
              Left, Described, FileOf, Before, StampOf, IsLedger, Used, WasDue
<1> QED BY <1>3, <1>4, <1>5, <1>6, <1>7, <1>8 DEF DayInv

(* README 1.4, guaranteed repeatability: until the first restart the captures *)
(* and the pauses alone decide what precedes each packet and each auto-pause, *)
(* however the user's keys, the clock and the thread's steps interleave.      *)
THEOREM RepeatableCorrect == Spec => []Repeatable
<1>1. Init => DayInv
  <2> SUFFICES ASSUME Init PROVE DayInv
    OBVIOUS
  <2>1. out = <<>> /\ pc = "init" /\ pauses = scenario.pauses
    BY DEF Init
  <2>2. Foretold(<<>>)
    BY DEF Foretold
  <2> QED BY <2>1, <2>2 DEF DayInv
<1>2. TypeOK /\ DayInv => Repeatable
  <2> SUFFICES ASSUME TypeOK, DayInv, Plain, NoRestartWithin(1, Len(out)),
                      NEW i \in DOMAIN out, out[i].type \in {"Packet", "AutoPaused"}
               PROVE  /\ IdOf(out[i]) \in PacketIds
                      /\ SentBy(i) = {q \in PacketIds : Before(q, IdOf(out[i]))}
                      /\ IF Sends(i)
                         THEN Cardinality(FiredBy(i)) = Cardinality(DueBy(IdOf(out[i])))
                         ELSE Cardinality(FiredBy(i)) < Cardinality(DueBy(IdOf(out[i])))
    BY DEF Repeatable, Plain
  <2>1. NeverRestarted(out)
    BY DEF NoRestartWithin, NeverRestarted
  <2>2. i \in 1..Len(out)
    BY DEF TypeOK
  <2>3. InItsPlace(out[i], SentBefore(out, i), FiredBefore(out, i))
    BY <2>1, <2>2 DEF DayInv, Foretold
  <2>4. SentBy(i) = SentBefore(out, i) /\ FiredBy(i) = FiredBefore(out, i)
    BY DEF SentBy, SentBefore, FiredBy, FiredBefore, Sends
  <2> QED BY <2>3, <2>4 DEF InItsPlace, Sends
<1> QED
  BY InitTypeOK, NextTypeOK, InitLoaded, NextLoaded, InitPauses, NextPauseInv, NextDayInv,
     <1>1, <1>2, PTL DEF Spec
=============================================================================
