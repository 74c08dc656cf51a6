--------------------------- MODULE GroupProcessor ---------------------------
(***************************************************************************)
(* The playback thread: one GroupProcessor replays the captures of its     *)
(* channels, merged by time stamp, while the App sends it out-of-band      *)
(* messages (toggle pause, restart, report progress, die) on oob_queue_.   *)
(*                                                                         *)
(* A channel is its rank in the order of std::map<name, Channel>, so 1..N  *)
(* are the channels after duplicate names have replaced each other.  A     *)
(* capture file is what CaptureApi returns for it: packets, then the       *)
(* return code after the last one.  `out` is everything the thread makes   *)
(* visible, in order: datagrams sent and messages pushed on server_queue_. *)
(***************************************************************************)
EXTENDS PacketTime, FiniteSets, SequencesExt

CONSTANTS
    N,          (* greatest number of channels                              *)
    Scenarios,  (* what the options and the disk may hold: [files, pauses]  *)
    Leftover,   (* what the memory of stats_ may hold at first, in ticks    *)
    (* For each scenario:                                                   *)
    Messages,   (* the kinds of messages the App sends                      *)
    MaxPush,    (* bound: how many messages the App sends                   *)
    MaxNow      (* bound: the last reading of the steady clock              *)

(* GetCurrentPacketTime fills in everything but the year. *)
CaptureTimes == {t \in PacketTimes : ~Has(t, "y") /\ \A f \in Field \ {"y"} : Has(t, f)}

Packet == [time : CaptureTimes, size : Nat]

(* The options give every pause a full time of day, and a full date or none. *)
PauseTimes ==
    {t \in PacketTimes :
        /\ \A f \in {"hh", "mm", "ss", "ms"} : Has(t, f)
        /\ \/ \A f \in {"y", "m", "d"} : Has(t, f)
           \/ \A f \in {"y", "m", "d"} : ~Has(t, f)}

(* "eof": a sound capture; "error": ReadPacket fails after the last packet; *)
(* "missing": the file cannot be opened; "none": the options do not describe *)
(* the channel at all.                                                       *)
File == [packets : Seq(Packet), end : {"eof", "error", "missing", "none"}]

Scenario == [files : [1..N -> File], pauses : Seq(PauseTimes)]

OobMessage == {"TogglePause", "SetPause", "SetResume", "ThreadDie", "Restart",
               "RequestChannels", "RequestGroups", "RequestBoth"}

ASSUME ConstantsAssumption ==
    /\ N \in Nat
    /\ Scenarios \subseteq Scenario
    /\ Leftover \subseteq Nat

ASSUME DriveAssumption ==
    /\ Messages \in [Scenarios -> SUBSET OobMessage]
    /\ MaxPush \in [Scenarios -> Nat]
    /\ MaxNow \in [Scenarios -> Nat]

VARIABLES
    scenario,   (* the capture files and the pauses the options asked for   *)
    pc,         (* where the thread is in operator()                        *)
    state,      (* state_                                                   *)
    oob,        (* oob_queue_                                               *)
    channels,   (* channels_: a function on the channels not yet erased     *)
    pauses,     (* opts_.pauses_, those that have not fired                 *)
    start,      (* stats_.playback_start_                                   *)
    prev,       (* stats_.prev_elapsed_                                     *)
    out,        (* datagrams and server messages, in order                  *)
    now,        (* the steady clock                                         *)
    played,     (* history: what was in prev_elapsed_ at first, and since    *)
                (* then the clock ticks in play_state; a restart clears it  *)
    pushed      (* history: number of messages the App has sent             *)

groupVars == <<pc, state, channels, pauses, start, prev, out>>
vars == <<scenario, groupVars, oob, now, played, pushed>>

-----------------------------------------------------------------------------
(* What becomes visible: the type, the channels it concerns, and for a      *)
(* packet its place in the capture.                                         *)
EventType == {"Packet", "AutoPaused", "Paused", "Resumed", "Restarted",
              "ChannelProgress", "GroupProgress", "ThreadDead", "LogMessage"}

Event == [type : EventType, of : SUBSET (1..N), pos : Nat]

EventOf(type, of, pos) == [type |-> type, of |-> of, pos |-> pos]

Notice(type) == EventOf(type, {}, 0)

(* One message of the type for each channel left, pushed in map order. *)
PerChannel(type) == EventOf(type, DOMAIN channels, 0)

Emit(events) == out' = out \o events

-----------------------------------------------------------------------------
(* Sources.  pos is the packet in packet_buf_ (0: none was ever read), cur  *)
(* is cur_byte_, size is packet_size_, time is cur_packet_time_ and sent is *)
(* the channel's stats_.bytes_sent_.                                        *)
Source == [pos : Nat, cur : Nat, size : Nat, time : PacketTimes, sent : Nat]

NewSource == [pos |-> 0, cur |-> 0, size |-> 0, time |-> NoTime, sent |-> 0]

FileOf(n) == scenario.files[n]

(* Mutated form: the end of the capture is seen one packet early. *)
ReadCode_OneEarly(n, pos) ==
    IF pos + 1 < Len(FileOf(n).packets) THEN "success" ELSE FileOf(n).end

(* The return code of ReadPacket when packet pos was the last one read. *)
ReadCode(n, pos) == IF pos < Len(FileOf(n).packets) THEN "success" ELSE FileOf(n).end

(* Source::ReadNext: only a successful read moves on and accounts for the  *)
(* packet left behind; packet_size_ is cleared in any case.                *)
ReadNext(n, s) ==
    IF ReadCode(n, s.pos) = "success"
    THEN LET p == FileOf(n).packets[s.pos + 1]
         IN  [pos |-> s.pos + 1, cur |-> s.cur + s.size, size |-> p.size,
              time |-> p.time, sent |-> s.sent]
    ELSE [s EXCEPT !.size = 0]

(* Mutated form: the file is not rewound. *)
RestartSource_NoSeek(n, s) == ReadNext(n, [s EXCEPT !.cur = 0, !.sent = 0])

(* Mutated form: the channel's byte count survives the restart. *)
RestartSource_KeepSent(n, s) == ReadNext(n, [s EXCEPT !.pos = 0, !.cur = 0])

(* Source::Restart and the reset of the channel's stats.  packet_size_ still *)
(* holds the size of the packet that was pending, and ReadNext adds it.      *)
RestartSource(n, s) == ReadNext(n, [s EXCEPT !.pos = 0, !.cur = 0, !.sent = 0])

-----------------------------------------------------------------------------
(* The channel whose packet goes out next. *)
NextTimes == [n \in DOMAIN channels |-> channels[n].time]

(* Mutated form: the channels take their turn in the order of the map. *)
NextChannel_MapOrder ==
    IF channels = <<>> THEN 0 ELSE CHOOSE n \in DOMAIN channels : \A k \in DOMAIN channels : n <= k

NextChannel == MinElement(NextTimes, N)

-----------------------------------------------------------------------------
(* No constructor sets stats_, and a default-constructed duration of Boost   *)
(* may or may not be zero.                                                   *)
Init ==
    /\ scenario \in Scenarios
    /\ pc = "init"
    /\ state = "pause"
    /\ oob = <<"TogglePause">>      (* playback_paused is passed as false *)
    /\ channels = <<>>
    /\ pauses = scenario.pauses
    /\ start = 0
    /\ prev \in Leftover
    /\ out = <<>>
    /\ now = 0
    /\ played = prev
    /\ pushed = 0

(* A message of the App is pushed on oob_queue_; it does so at any time. *)
Push ==
    /\ pushed < MaxPush[scenario]
    /\ \E m \in Messages[scenario] : oob' = Append(oob, m)
    /\ pushed' = pushed + 1
    /\ UNCHANGED <<scenario, groupVars, now, played>>

(* Time passes; `played` counts the ticks that fall into play_state. *)
Tick ==
    /\ now < MaxNow[scenario]
    /\ now' = now + 1
    /\ played' = IF state = "play" THEN played + 1 ELSE played
    /\ UNCHANGED <<scenario, groupVars, oob, pushed>>

-----------------------------------------------------------------------------
(* The thread's own steps leave these alone. *)
Ours == UNCHANGED <<scenario, now, pushed>>

(* An exception leaves operator() through the handler that logs it: there   *)
(* is no Teardown, so no ThreadDead.                                        *)
Throw(events) ==
    /\ Emit(events \o <<Notice("LogMessage")>>)
    /\ pc' = "failed"
    /\ UNCHANGED <<state, pauses, start, prev, oob, played>>

(* Init(): construct the channels; each opens its file and reads a packet.  *)
Described == {n \in 1..N : FileOf(n).end # "none"}

Openable(n) == ReadCode(n, 0) \in {"success", "eof"} /\ FileOf(n).end # "missing"

Start ==
    /\ pc = "init"
    /\ Ours
    /\ \/ /\ \A n \in Described : Openable(n)
          /\ channels' = [n \in Described |-> ReadNext(n, NewSource)]
          /\ pc' = "oob"
          /\ UNCHANGED <<state, pauses, start, prev, oob, out, played>>
       \/ /\ \E n \in Described : ~Openable(n)
          /\ Throw(<<>>)
          /\ UNCHANGED channels

-----------------------------------------------------------------------------
(* ProcessOOBQueue: while the queue has messages, handle them.              *)
Handle(m) ==
    /\ pc = "oob"
    /\ state # "die"
    /\ oob # <<>>
    /\ Head(oob) = m
    /\ oob' = Tail(oob)
    /\ UNCHANGED pc
    /\ Ours

(* Mutated form: the time played before the pause is not added up. *)
TogglePause_NoElapsed ==
    /\ state' = IF state = "pause" THEN "play" ELSE "pause"
    /\ start' = IF state = "pause" THEN now ELSE start
    /\ UNCHANGED prev

(* Mutated form: the clock readings are subtracted the wrong way round. *)
TogglePause_Swapped ==
    /\ state' = IF state = "pause" THEN "play" ELSE "pause"
    /\ start' = IF state = "pause" THEN now ELSE start
    /\ prev' = IF state = "pause" THEN prev ELSE prev + (start - now)

(* TogglePause(), called with state_ # die_state. *)
TogglePause ==
    \/ /\ state = "pause"
       /\ state' = "play"
       /\ start' = now
       /\ UNCHANGED prev
    \/ /\ state = "play"
       /\ state' = "pause"
       /\ prev' = prev + (now - start)
       /\ UNCHANGED start

SetPauseState(paused) ==
    IF state = (IF paused THEN "play" ELSE "pause")
    THEN TogglePause
    ELSE UNCHANGED <<state, start, prev>>

(* Mutated form: the notice is chosen from the state before the toggle. *)
HandleTogglePause_StaleNotice ==
    /\ Handle("TogglePause")
    /\ TogglePause
    /\ Emit(<<Notice(IF state = "pause" THEN "Paused" ELSE "Resumed")>>)
    /\ UNCHANGED <<channels, pauses, played>>

HandleTogglePause ==
    /\ Handle("TogglePause")
    /\ TogglePause
    /\ Emit(<<Notice(IF state' = "pause" THEN "Paused" ELSE "Resumed")>>)
    /\ UNCHANGED <<channels, pauses, played>>

HandleSetPauseState ==
    \E paused \in BOOLEAN :
        /\ Handle(IF paused THEN "SetPause" ELSE "SetResume")
        /\ SetPauseState(paused)
        /\ Emit(<<Notice(IF paused THEN "Paused" ELSE "Resumed")>>)
        /\ UNCHANGED <<channels, pauses, played>>

(* Mutated form: the empty default of MessageHandler is left in place. *)
HandleThreadDie_Default ==
    /\ Handle("ThreadDie")
    /\ UNCHANGED <<state, channels, pauses, start, prev, out, played>>

HandleThreadDie ==
    /\ Handle("ThreadDie")
    /\ state' = "die"
    /\ UNCHANGED <<channels, pauses, start, prev, out, played>>

(* Pause if playing, then restart every source that is left. *)
HandleRestart ==
    /\ Handle("Restart")
    /\ state' = "pause"
    /\ channels' = [n \in DOMAIN channels |-> RestartSource(n, channels[n])]
    /\ Emit((IF state = "play" THEN <<Notice("Paused")>> ELSE <<>>) \o <<PerChannel("Restarted")>>)
    /\ prev' = 0
    /\ played' = 0
    /\ UNCHANGED <<pauses, start>>

(* The report of the group names the first stamp of a std::set of the stamps  *)
(* of all channels.  A stamp that operator< cannot tell from one that is in    *)
(* the set already is not inserted, so this is the packet of NextChannel.      *)
GroupReport ==
    IF channels = <<>>
    THEN Notice("GroupProgress")
    ELSE EventOf("GroupProgress", {NextChannel}, channels[NextChannel].pos)

(* A report changes nothing. *)
HandleRequestProgress ==
    \E m \in {"RequestChannels", "RequestGroups", "RequestBoth"} :
        /\ Handle(m)
        /\ Emit((IF m # "RequestGroups" THEN <<PerChannel("ChannelProgress")>> ELSE <<>>)
                 \o (IF m # "RequestChannels" THEN <<GroupReport>> ELSE <<>>))
        /\ UNCHANGED <<state, channels, pauses, start, prev, played>>

(* Mutated form: packets are processed in pause_state instead of play_state. *)
LeaveOOBQueue_Inverted ==
    /\ pc = "oob"
    /\ oob = <<>> \/ state = "die"
    /\ pc' = CASE state = "die"   -> "teardown"
               [] state = "play"  -> "check"
               [] state = "pause" -> "packet"
    /\ UNCHANGED <<state, oob, channels, pauses, start, prev, out, played>>
    /\ Ours

(* The queue is found empty, or the thread has been told to die. *)
LeaveOOBQueue ==
    /\ pc = "oob"
    /\ oob = <<>> \/ state = "die"
    /\ pc' = CASE state = "die"   -> "teardown"
               [] state = "play"  -> "packet"
               [] state = "pause" -> "check"
    /\ UNCHANGED <<state, oob, channels, pauses, start, prev, out, played>>
    /\ Ours

-----------------------------------------------------------------------------
(* ProcessPacket().                                                         *)
(* Mutated form: the first pause of the file instead of the earliest. *)
NextPause_FileOrder == IF pauses = <<>> THEN 0 ELSE 1

NextPause == MinElement(pauses, Len(pauses))

PauseDue == NextPause # 0 /\ Less(pauses[NextPause], channels[NextChannel].time)

(* The min_element over no channels is end(). *)
NoChannelLeft ==
    /\ pc = "packet"
    /\ channels = <<>>
    /\ Throw(<<>>)
    /\ UNCHANGED channels
    /\ Ours

(* Mutated form: the pause stays in the list. *)
AutoPause_KeepPause ==
    /\ pc = "packet"
    /\ channels # <<>>
    /\ PauseDue
    /\ SetPauseState(TRUE)
    /\ Emit(<<EventOf("AutoPaused", {NextChannel}, channels[NextChannel].pos)>>)
    /\ pc' = "check"
    /\ UNCHANGED <<oob, channels, pauses, played>>
    /\ Ours

(* Mutated form: the early return after the auto-pause is missing. *)
AutoPause_NoReturn ==
    /\ pc = "packet"
    /\ channels # <<>>
    /\ PauseDue
    /\ SetPauseState(TRUE)
    /\ Emit(<<EventOf("AutoPaused", {NextChannel}, channels[NextChannel].pos),
              EventOf("Packet", {NextChannel}, channels[NextChannel].pos)>>)
    /\ pauses' = RemoveAt(pauses, NextPause)
    /\ pc' = "check"
    /\ UNCHANGED <<oob, channels, played>>
    /\ Ours

(* Mutated form: the packet held back by the pause is read over. *)
AutoPause_SkipsPacket ==
    /\ pc = "packet"
    /\ channels # <<>>
    /\ PauseDue
    /\ SetPauseState(TRUE)
    /\ Emit(<<EventOf("AutoPaused", {NextChannel}, channels[NextChannel].pos)>>)
    /\ pauses' = RemoveAt(pauses, NextPause)
    /\ channels' = [channels EXCEPT ![NextChannel] = ReadNext(NextChannel, @)]
    /\ pc' = "check"
    /\ UNCHANGED <<oob, played>>
    /\ Ours

(* The next packet is later than the next pause: pause, and use up the pause. *)
AutoPause ==
    /\ pc = "packet"
    /\ channels # <<>>
    /\ PauseDue
    /\ SetPauseState(TRUE)
    /\ Emit(<<EventOf("AutoPaused", {NextChannel}, channels[NextChannel].pos)>>)
    /\ pauses' = RemoveAt(pauses, NextPause)
    /\ pc' = "check"
    /\ UNCHANGED <<oob, channels, played>>
    /\ Ours

(* A channel whose capture is at its end is erased. *)
EraseChannel(n) == channels' = [k \in DOMAIN channels \ {n} |-> channels[k]]

(* Send the packet of the earliest channel and read that channel's next one. *)
SendPacket ==
    LET n == NextChannel
        s == [channels[n] EXCEPT !.sent = @ + channels[n].size]
        packet == EventOf("Packet", {n}, s.pos)
    IN  /\ pc = "packet"
        /\ channels # <<>>
        /\ ~PauseDue
        /\ s.size > 0
        /\ \/ /\ ReadCode(n, s.pos) = "success"
              /\ channels' = [channels EXCEPT ![n] = ReadNext(n, s)]
              /\ Emit(<<packet>>)
              /\ pc' = "check"
              /\ UNCHANGED <<state, pauses, start, prev, oob, played>>
           \/ /\ ReadCode(n, s.pos) = "eof"
              /\ EraseChannel(n)
              /\ Emit(<<packet>>)
              /\ pc' = "check"
              /\ UNCHANGED <<state, pauses, start, prev, oob, played>>
           \/ /\ ReadCode(n, s.pos) = "error"
              /\ channels' = [channels EXCEPT ![n] = ReadNext(n, s)]
              /\ Throw(<<packet>>)
        /\ Ours

(* send_to throws, or sends no byte of an empty packet and ProcessPacket throws. *)
SendFails ==
    LET s == channels[NextChannel]
    IN  /\ pc = "packet"
        /\ channels # <<>>
        /\ ~PauseDue
        /\ \/ Throw(<<>>)
           \/ s.size = 0 /\ Throw(<<EventOf("Packet", {NextChannel}, s.pos)>>)
        /\ UNCHANGED channels
        /\ Ours

(* The end of the loop body: without channels the thread is finished. *)
CheckChannels ==
    /\ pc = "check"
    /\ state' = IF channels = <<>> THEN "die" ELSE state
    /\ pc' = "oob"
    /\ UNCHANGED <<oob, channels, pauses, start, prev, out, played>>
    /\ Ours

(* Mutated form: the thread ends without a word. *)
Teardown_Silent ==
    /\ pc = "teardown"
    /\ pc' = "done"
    /\ UNCHANGED <<state, oob, channels, pauses, start, prev, out, played>>
    /\ Ours

Teardown ==
    /\ pc = "teardown"
    /\ Emit(<<Notice("ThreadDead")>>)
    /\ pc' = "done"
    /\ UNCHANGED <<state, oob, channels, pauses, start, prev, played>>
    /\ Ours

-----------------------------------------------------------------------------
ProcessPacket == NoChannelLeft \/ AutoPause \/ SendPacket \/ SendFails

ProcessOOBQueue ==
    \/ HandleTogglePause
    \/ HandleSetPauseState
    \/ HandleThreadDie
    \/ HandleRestart
    \/ HandleRequestProgress
    \/ LeaveOOBQueue

Thread == Start \/ ProcessOOBQueue \/ ProcessPacket \/ CheckChannels \/ Teardown

Next == Thread \/ Push \/ Tick

Spec == Init /\ [][Next]_vars

(* The thread busy-loops: the operating system keeps scheduling it, and no   *)
(* step of it waits for anything.  Nobody has to press a key.                *)
FairSpec == Spec /\ WF_vars(Thread)

-----------------------------------------------------------------------------
(* What the history `out` says.                                             *)
Sends(i) == out[i].type = "Packet"

(* The channel of the packet an event is about, and that packet's stamp. *)
ChannelOf(e) == CHOOSE n \in 1..N : n \in e.of

TimeOf(e) == IF e.pos = 0 THEN NoTime ELSE FileOf(ChannelOf(e)).packets[e.pos].time

NoRestartWithin(i, j) == \A k \in i..j : out[k].type # "Restarted"

(* After out[i] the last notice told that playback goes on. *)
RunningAt(i) ==
    \E k \in 1..i : /\ out[k].type = "Resumed"
                    /\ \A l \in (k + 1)..i : out[l].type \notin {"Paused", "AutoPaused"}

(* The packets of channel n sent so far, and those sent since the last restart. *)
SentOf(n) == {i \in DOMAIN out : Sends(i) /\ out[i].of = {n}}

SentAgain(n) == {i \in SentOf(n) : NoRestartWithin(i, Len(out))}

(* In the order of `out`, the events I are the packets 1..m, each of them once. *)
OnePass(I, m) ==
    /\ {out[i].pos : i \in I} = 1..m
    /\ \A i, j \in I : i < j => out[i].pos < out[j].pos

(* A packet is its channel and its place in the capture. *)
PacketIds == UNION {{<<n, i>> : i \in DOMAIN FileOf(n).packets} : n \in Described}

IdOf(e) == <<ChannelOf(e), e.pos>>

StampOf(p) == FileOf(p[1]).packets[p[2]].time

(* The order of all packets: by stamp, ties by channel, then as captured. *)
Before(p, q) ==
    \/ Less(StampOf(p), StampOf(q))
    \/ /\ ~Less(StampOf(q), StampOf(p))
       /\ p[1] < q[1] \/ (p[1] = q[1] /\ p[2] < q[2])

(* What has gone out before the i-th event: packets, and a number of pauses. *)
SentBy(i) == {IdOf(out[j]) : j \in {j \in 1..(i - 1) : Sends(j)}}

FiredBy(i) == {j \in 1..(i - 1) : out[j].type = "AutoPaused"}

(* The pauses of the file that come before p: some packet up to p is later. *)
DueBy(p) ==
    {k \in DOMAIN scenario.pauses :
        \E q \in PacketIds : (q = p \/ Before(q, p)) /\ Less(scenario.pauses[k], StampOf(q))}

(* The bytes of the packets before the one at pos. *)
BytesIn(packets, pos) ==
    LET bytes[k \in 0..Len(packets)] == IF k = 0 THEN 0 ELSE bytes[k - 1] + packets[k].size
    IN  IF pos = 0 THEN 0 ELSE bytes[pos - 1]

BytesBefore(n, pos) == BytesIn(FileOf(n).packets, pos)

SortedFiles ==
    \A n \in 1..N : \A i, j \in DOMAIN FileOf(n).packets :
        i < j => ~Less(FileOf(n).packets[j].time, FileOf(n).packets[i].time)

(* The auto-pause file gives no dates, or dates of one year. *)
UniformPauses ==
    \A i, j \in DOMAIN scenario.pauses : scenario.pauses[i].y = scenario.pauses[j].y

-----------------------------------------------------------------------------
(* Every variable holds what the code can put there; the clock never lags   *)
(* behind the moment playback began, and no source reads past its capture.  *)
TypeOK ==
    /\ scenario \in Scenarios
    /\ pc \in {"init", "oob", "packet", "check", "teardown", "done", "failed"}
    /\ state \in {"pause", "play", "die"}
    /\ oob \in Seq(OobMessage)
    /\ DOMAIN channels \subseteq 1..N
    /\ channels \in [DOMAIN channels -> Source]
    /\ \A n \in DOMAIN channels : channels[n].pos <= Len(FileOf(n).packets)
    /\ pauses \in Seq(PacketTimes)
    /\ start \in 0..now
    /\ prev \in Nat
    /\ out \in Seq(Event)
    /\ now \in Nat
    /\ played \in Nat
    /\ pushed \in Nat

(* README 1.1: across all the captures the packets go out in the order of    *)
(* their time stamps, from one restart to the next, whatever the App sends.  *)
SentInOrder ==
    SortedFiles =>
        \A i, j \in DOMAIN out :
            i < j /\ Sends(i) /\ Sends(j) /\ NoRestartWithin(i, j)
                => ~Less(TimeOf(out[j]), TimeOf(out[i]))

(* A pause, an auto-pause or a report neither drops nor repeats a packet: a   *)
(* channel that still plays has sent, since the last restart, exactly the     *)
(* packets before the one it holds, each once and in the capture's order.     *)
ExactlyOnce ==
    pc # "failed" =>
        \A n \in DOMAIN channels : OnePass(SentAgain(n), channels[n].pos - 1)

(* A channel is erased from the map only once its whole capture is out: from  *)
(* some moment on, all of it has been sent, and nothing of it twice.          *)
CompleteReplay ==
    pc \notin {"init", "failed"} =>
        \A n \in Described \ DOMAIN channels : \E k \in 0..Len(out) :
            OnePass({i \in SentOf(n) : i > k}, Len(FileOf(n).packets))

(* The numbers of a progress report: the bytes a channel has sent since the   *)
(* restart are those of the packets it has sent, and before any restart they  *)
(* are the position in the capture as well.                                   *)
StatsMatch ==
    pc # "failed" =>
        \A n \in DOMAIN channels :
            /\ channels[n].sent = BytesBefore(n, channels[n].pos)
            /\ NoRestartWithin(1, Len(out)) => channels[n].cur = channels[n].sent

(* No packet later than a pause goes out while that pause has not fired. *)
NoPauseSkipped ==
    \A i \in DOMAIN out : Sends(i) =>
        \A k \in DOMAIN pauses : ~Less(pauses[k], TimeOf(out[i]))

(* README 1.3: xcast pauses before the first packet later than a pause.  It   *)
(* holds where operator< orders the pauses, in particular without dates.      *)
PausesHonoured == UniformPauses => NoPauseSkipped

(* README 1.4, guaranteed repeatability: until the first restart, whenever the *)
(* user pauses, resumes or asks for a report, what precedes a packet depends   *)
(* on the captures and the pauses alone.  It is exactly the packets that come  *)
(* before it by stamp, channel and place, and as many auto-pauses as are due;  *)
(* an auto-pause is one of those due before the packet it holds back.          *)
Repeatable ==
    /\ SortedFiles
    /\ UniformPauses
    /\ NoRestartWithin(1, Len(out))
    /\ \A n \in Described : FileOf(n).packets # <<>>
    => \A i \in DOMAIN out : out[i].type \in {"Packet", "AutoPaused"} =>
           LET p == IdOf(out[i])
           IN  /\ p \in PacketIds
               /\ SentBy(i) = {q \in PacketIds : Before(q, p)}
               /\ IF Sends(i)
                  THEN Cardinality(FiredBy(i)) = Cardinality(DueBy(p))
                  ELSE Cardinality(FiredBy(i)) < Cardinality(DueBy(p))

(* The packet an auto-pause announces or a report names is the one that goes  *)
(* out next, or that the next auto-pause holds back, whatever comes in        *)
(* between, unless it is a restart.                                           *)
AnnouncedIsNext ==
    \A i, j \in DOMAIN out :
        /\ i < j
        /\ out[i].type \in {"AutoPaused", "GroupProgress"}
        /\ out[j].type \in {"Packet", "AutoPaused"}
        /\ \A k \in (i + 1)..(j - 1) : out[k].type \notin {"Packet", "AutoPaused", "Restarted"}
        => out[j].of = out[i].of /\ out[j].pos = out[i].pos

(* The App knows whether a group plays only from its notices: as long as the  *)
(* thread is not dying, the last of them tells the truth.                     *)
NoticesMatchState == state # "die" => (state = "play" <=> RunningAt(Len(out)))

(* README 1.3: it will not resume on its own.  Between a pause and the next   *)
(* packet the App has always been told that playback goes on.                 *)
QuietWhilePaused == \A i \in DOMAIN out : Sends(i) => RunningAt(i)

(* The elapsed time a report gives is the time spent playing since the last   *)
(* restart, over any series of pauses, auto-pauses and restarts; before the   *)
(* first restart it comes on top of what the memory of stats_ held.           *)
ElapsedExact ==
    state # "die" => prev + (IF state = "play" THEN now - start ELSE 0) = played

-----------------------------------------------------------------------------
(* The thread has ended in a way the App hears of. *)
Gone == pc = "failed" \/ \E i \in DOMAIN out : out[i].type = "ThreadDead"

(* Quit works: a ThreadDie is obeyed however much is queued before it. *)
DieIsObeyed == (\E i \in DOMAIN oob : oob[i] = "ThreadDie") ~> Gone

(* Playback that is left to run comes to its end, and the App is told so. *)
PlaybackEnds == <>[](state # "pause") => <>Gone

-----------------------------------------------------------------------------
(* Statements of the documentation that the code does not keep.               *)

(* README 2.4: the pauses are processed in the order of the file. *)
PausesInFileOrder == IsSuffix(pauses, scenario.pauses)

(* Processor.h: cur_byte_ is the current file position. *)
CurByteIsPosition ==
    pc # "failed" =>
        \A n \in DOMAIN channels : channels[n].cur = BytesBefore(n, channels[n].pos)
=============================================================================
