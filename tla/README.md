# xcast in TLA+

xcast replays capture files by multicast: it merges the packets of several
captures by time stamp, sends them, pauses by itself at the times of an
auto-pause file, and takes single-letter commands from a console or a pipe.
This directory holds TLA+ modules that model it, the TLC configurations that
check them, and TLAPS proofs. File and line references are to `src/`.

## 1. Inventory of the system

| Part | State | Operations | Talks to | Hard about it |
|---|---|---|---|---|
| `PacketTime` (xcast.h, xcast.cpp) | seven integers, -1 = missing | `operator<`, `format` | used by the playback thread | compares only members present on both sides, so it is no order on mixed stamps |
| `GroupProcessor` (Processor.h, processor.cpp) | `state_`, `channels_` (each with a source and statistics), `opts_.pauses_`, `stats_`, `oob_queue_` | `Init`, `ProcessOOBQueue` with seven handlers, `ProcessPacket`, `Teardown` | pops its `oob_queue_`, pushes notices on `server_queue_`, sends datagrams | commands at any point between packets, restarts, auto-pauses, faults of files and sockets |
| `concurrent_queue` (msg.h) | a queue, a mutex, a condition variable, for one instance a Windows event | `push`, `empty`, `wait_and_pop` | every thread | notify and signal come after the unlock; two lock sections in `empty` + pop |
| Messages (msg.h, msg.cpp) | payloads | double dispatch | - | - |
| `InterfaceProcessor` (interface.cpp) | `state_`, console mode, `oob_queue_` | `Init`, `ProcessOOBEvent`, key presses, heartbeats, `Teardown` | pushes on `server_queue_`; its queue is fed by the App and the pipe reader | console mode must be given back; two kinds of stdin and a third that is neither |
| `PipeProcessor` (interface.cpp) | `state_` | read loop | pushes on both queues | outlives its context; its errors |
| `App` (main.cpp) | `state_`, `grp_threads_` | `run`, handlers | pops `server_queue_`, pushes on the others, joins threads | joins inside a handler; tells deaths apart by elimination; `--show` leaves early |
| `Thread`, `Threads` (threads.h) | a context and a thread | `join`, `join_all` | - | no detach or stop: contexts may die first |
| Options (options.cpp) | `Options` under construction, `mode`, `abort` | the sections of `parse_command_line`, two of them over the lines of a file | its results are what the App and the playback thread start from | lines that are dropped silently, refused late, or read as something else; `store` and `notify` apart |
| Formatter, Channels.h, version, build files | - | - | - | nothing at run time |

There is one playback thread (`main.cpp:297`: one group), so the threads are:
main, interface, pipe reader (only when stdin is a pipe) and playback. They
share nothing but queues.

What makes each part correct:

- *PacketTime*: on stamps that fill in the same members, a strict weak order.
- *GroupProcessor*: packets in order of stamps; each exactly once, between
  restarts; a capture played to its last packet; pauses taken where they are
  due; notices that tell the truth; elapsed time and byte counts that add up;
  an order to die obeyed; the end announced.
- *Queues*: first in, first out for each producer; no lost wake-up; only the
  main thread ever blocks in a pop.
- *Options*: what is documented is read as it stands, line for line; xcast
  starts from whole files or not at all; pauses that can be compared; of
  channels of one name the last, unless one channel cannot be made.
- *App, interface, pipe reader*: commands reach the group in order; no join
  without an end; the program ends when playback does, or on Q, and not
  before; the console restored.

## 2. Modules

| Module | Models | Of it extends or instantiates |
|---|---|---|
| `PacketTime` | `PacketTime`, `operator<`, the scan of `std::min_element` | |
| `GroupProcessor` | the playback thread in full | `PacketTime` |
| `GroupRefinement` | the refinement mapping: the playback thread as the rest of the program sees it | `GroupProcessor`, `GroupLife` |
| `MCGroupProcessor` | instances of it | `GroupRefinement` |
| `GroupLife` | abstract specification of a playback thread: what it takes, what it answers, when it is over | |
| `Channel` | abstract specification of a queue: send, and take the oldest, each in one step | |
| `MessageQueue`, `MCMessageQueue` | `concurrent_queue` in small steps, with its three kinds of consumers | `Channel` |
| `XCast` | main, interface and pipe reader threads, composed with `GroupLife` | `GroupLife` |
| `MCXCast` | instances of it, with bounds for each kind of stdin | `XCast` |
| `Options` | `parse_command_line`, and what `GroupProcessor::Init` makes of the channels | `PacketTime` |
| `MCOptions` | command lines and files for it | `Options` |
| `PacketTimeProofs`, `GroupProcessorProofs`, `MessageQueueProofs`, `XCastProofs`, `OptionsProofs`, `GroupRefinementProofs` | theorems | the module of that name |
| `GroupOrderProofs`, `GroupReplayProofs` | theorems on what a playback thread sends | `GroupProcessorProofs`, each the one before |

There are two seams. Queues are `Channel`s: `MessageQueue` implements it
(`ImplementsChannel`), and the other modules push and pop in the steps of
`Channel`. And `GroupLife` stands for a playback thread: `GroupProcessor`
implements it (`ImplementsLife` in `GroupRefinement`, checked and proved), and
`XCast` composes the rest of the program with it in place of the detailed thread.
So what `XCast` shows does not rest on simplifications that nobody checked. TLC
found one step missing from an earlier version of `GroupLife`: a group without
channels finds out in a pause that it is at its end.

### GroupProcessor

One action per handler and per way through `ProcessPacket`; `pc` is the place
in `operator()()`:

    init -> oob -> packet -> check -> oob ... -> teardown -> done
                                            any exception -> failed

- `oob`: `ProcessOOBQueue`. Each turn of its loop is an action (`Handle...`),
  and `LeaveOOBQueue` leaves it when the queue is empty or the state is
  `die_state`. The App pushes (`Push`) at any moment, also between two turns.
- `packet`: one call of `ProcessPacket`: `NoChannelLeft`, `AutoPause`,
  `SendPacket` or `SendFails`.
- `check`: the test for `channels_.empty()` at the end of the loop body.
- A source keeps `pos` (packet in `packet_buf_`), `cur` (`cur_byte_`), `size`
  (`packet_size_`), `time` (`cur_packet_time_`) and the channel's `sent`.
- `channels_` is a `std::map` from names, iterated in the order of names. A
  channel is its rank in that order, after duplicate names have replaced one
  another. Options may describe fewer than `N` channels.
- `out` is all that becomes visible, in order. Most properties read it rather
  than the variables: they speak of what the network and the App see. One
  event stands for a message per channel where a handler pushes one for each.
- A report of the group names the next packet: the first of a `std::set` of the
  stamps of all channels (`GroupReport`). The set drops a stamp that compares
  equal to one it holds, so for captures, whose stamps have one shape, its first
  element is the stamp of the channel `std::min_element` finds.
- No constructor initialises `stats_`. boost's `duration` starts at zero or
  not, depending on its version and configuration, so `prev` starts anywhere
  in `Leftover`.
- Environment: the capture API returns the packets of a file and then
  end-of-file or an error; a file may be missing; `send_to` may throw at any
  packet; the clock is monotone. `opts_.delay_` only spaces packets and is
  left out.

### MessageQueue

`push` is three steps (`Enqueue` under the mutex, `Notify`, `Signal`) and a pop
two (`Pop`, `PopSignal`), with the mutex held in between, because the windows
between these are where a wake-up could be lost. `empty()` is a step of its
own. The App sleeps in `wait_and_pop`; the interface waits for the event; the
group looks in on every turn of its loop.

### XCast

`file` is the kind of stdin, `show` the `--show` option. `serverQ` holds
messages with their sender, as `ThreadDead` carries an ID; `ifcQ` holds
`ThreadDie` or the letters of one read of the pipe, which are handled letter by
letter, so that the App may act on one while the next is still queued; `groupQ`
is the inbox of `GroupLife`. The main thread is `start`, `run` (its loop),
`joining` (in `join_all`), `leaving` (the join of the interface after its loop),
`returned`, `exited`, or `crashed` when the process went down. The interface is
`init`, `wait`, `teardown`, `dead`; and when a call on the console fails in its
loop, `caught` (the exception is logged, `Teardown` follows) and `thrown` (it is
thrown again, out of the thread function, which ends the process). A failure in
its `Init` is outside the try block and ends the process at once.

Undefined behaviour is modelled by its outcomes: a pipe reader whose
context is gone may read on, vanish or crash the process; so may returning from
`main` while other threads run crash it. Pushes and pops are single steps here,
which `ImplementsChannel` justifies: every queue is a channel, and what is
pushed is taken. What the small steps leave open besides, an event left set with
nothing queued, can only hold back heartbeats, and none is promised.

`MainCanMove`, `IfcCanMove` and `GroupCanMove` say what each thread needs to go
on by itself: they are the guards of its actions, taken together. TLC has
compared them with `ENABLED` of `MainThread`, `IfcThread` and the playback
thread's steps on all states of the run `xcast`.

### Options

`pc` is the section of `parse_command_line` that comes next: `base`,
`channelFile`, `pauseFile`, `channelOptions`, `multicastOptions`,
`interfaceOptions`, `end`; or how the call ends: `run` (it returns), `refused`
(it throws after a message: help, version, bad syntax), `failed` (a conversion
throws). The two sections with a file take one line at a step, since what a line
does depends on the lines before it only through `abort`, `anyFailed` and the
channels and pauses read so far. Text is abstract. A line of the channel file is
the sequence of its fields, which `char_separator` turns into tokens by dropping
the empty ones (`Tokens`); a line of the pause file is a moment with the parts
that are written, and `Matches` says which of them the regular expression finds.
`Number` gives the number a text is read as. `AsCharacter` is what assigning an
`unsigned` to a `std::string` does: one character of that code, modulo 256.

`GroupInit` is what `GroupProcessor::Init` makes of the list, one `Enter` for
each turn of its loop. `Opens` says which channels can be made: the port must be
an `unsigned short`, the group an address (`Addresses`), the hops at most 255,
which asio insists on, and the capture must be there (`Captures`). The first
channel that cannot be made throws out of `Init`, and nothing is played, whatever
is in the map by then. `GroupProcessor` starts from the map of an `Init` that got
that far, or fails at a file of a channel that stayed.

## 3. Runs

| Run | Checks | Bounds | Shows |
|---|---|---|---|
| `group_playback` | `TypeOK` `SentInOrder` `ExactlyOnce` `CompleteReplay` `StatsMatch` `PausesHonoured` `AnnouncedIsNext` `NoticesMatchState` `QuietWhilePaused` `Repeatable` `ElapsedExact` `ImplementsLife` `DieIsObeyed` `PlaybackEnds` | 2 channels, up to 2 packets each, up to 2 pauses; 3 messages of the App and no clock, or, for one scenario, 2 of all the messages a group handles and 3 ticks | what goes out and what the App hears, under any commands; time sums; liveness |
| `queue` | `TypeOK` `Fifo` `NoLostWakeup` `OnlyAppSleeps` `Delivered` `ImplementsChannel` | 2 producers, 2 messages each, 3 consumers | the queue's guarantees; that it is a channel |
| `xcast` | `TypeOK` `CommandsInOrder` `JoinIsSafe` `EndsAfterPlayback` `ConsoleRestoredAfterRun` `EndsWithPlayback` `QuitObeyed` `NoCircularWait` | all kinds of stdin; 2 letters of Q, S at a console, of Q, P, R in a pipe in 1 or 2 reads; one failing call on stdin; a heartbeat and `--show` at a console | commands through three threads, joins, who waits for whom, how the program ends |
| `options` | `TypeOK` `ReadAsDocumented` `WholeFilesRead` `PausesComparable` `PlayedAsListed` | channel files of up to 3 lines of 14 kinds, pause files of up to 2 of 9 kinds, all sets of mode and report options | what xcast starts from |
| `group_pause_order` | `PausesInFileOrder` (violated) | | README 2.4 |
| `group_file_position` | `CurByteIsPosition` (violated) | | Processor.h:103 |
| `group_mixed_pauses` | `NoPauseSkipped` (violated) | | README 1.3 |
| `xcast_pipe_aborted` | `InterfaceDied` (violated) | | main.cpp:200 |
| `xcast_quit` | `QuitEndsProgram` (violated) | | interface.cpp:92 |
| `xcast_show` | `ShowDoesNotReplay` (violated) | | README 2.5.3 |
| `options_inline` | `InlineChannelPlayed` (violated) | | README 2.1 |
| `options_malformed` | `MalformedLineIgnored` (violated) | | options.cpp:248 |

Why the bounds are enough. Two channels give every case of the merge: an
earlier one, a later one, a tie, one that ends first. Two packets make
"first", "next" and "last" differ, so a restart or the end can fall anywhere
between. The scenarios hold ties within and across channels, pauses in and out
of order, doubled, dated and undated, a damaged, an empty and a missing capture,
an empty packet, no channel at all, and captures over
several days with a pause dated to none of them. Three messages of the App allow pause,
restart and resume around any packet. The bounds on messages and clock are given
for each scenario (`MaxPush`, `MaxNow`, `Messages`), because the clock multiplies
the states and only the sums of time depend on it: `ElapsedExact` needs
stretches of play and pause around an auto-pause and a restart, which the one
scenario with a clock has. In the queue the second message of each
producer is what a stale notification or reset could hurt. In `XCast` two
letters are enough for one to overtake the other, and one failure or one
heartbeat can fall before, between and after them. P and R take one way through
the App and differ only in the message, so the console has the letters whose
handlers differ and the pipe those whose order matters. In `Options` a line
meets the state left by one line before it, which two lines show; of three channels
with one name the first may be like the last and the second not. The lines hold
each reason why a channel cannot be made, among them one that a later line of its
name replaces.

The counters `pushed`, `now`, `sent`, `beats`, `errors` and the length of
`typed` are bounded by `MaxPush`, `MaxNow`, `MaxTyped`, `MaxBeats`,
`MaxErrors`, the last two for each kind of stdin. The proofs hold for all values of these.

Deadlock is not checked, because in every model the system comes to an end:
threads end, the process exits, all messages are popped.

Every property has a mutant: a definition of the model changed the way a
plausible bug would change the code (its name is the definition's with a
suffix), under which TLC finds the property violated.

### Fairness

- `GroupProcessor`: `WF(Thread)`. The thread busy-waits and blocks nowhere, so
  it runs whenever the operating system lets it. Nothing is assumed of the
  App, the clock or the faults. `PlaybackEnds` assumes in its premise that the
  group is not left paused.
- `MessageQueue`: a push once begun is finished, and the consumer runs.
- `Options`: none; the call is sequential and only safety is stated.
- `XCast`: main and interface threads run (the interface also to the end of the
  process once it has thrown), and the playback thread gets to its
  messages and, once it is ending, to its end. Whether it ever comes to the end
  of its captures, whether keys are pressed, heartbeats come or reads fail is
  left open.

## 4. Where the code departs from what is said of it

1. **Pauses are taken by time, not in file order** (processor.cpp:274; README
   2.4 says they are processed in the order of the file). `FileOrderCorrect` proves
   that nothing else is amiss: for a file whose pauses are in order they are.
2. **cur_byte_ is wrong after a restart** (processor.cpp:100-105): `Restart`
   sets it to 0 and calls `ReadNext`, which adds the size of the packet pending
   before the restart.
3. **Dated and undated pauses in one file** (xcast.cpp:9): they are not ordered,
   and a packet may pass a pause.
4. **A pipe reader's end is taken for the interface's** (main.cpp:198): after an
   aborted read the App leaves its loop and joins an interface that nobody tells
   to end. `EndsWithPlayback` and `QuitObeyed` therefore except failed reads.
   `LeavingCorrect` proves that there is no other way: while no call on stdin has
   failed, an App that has left its loop has a dead interface to join.
5. **Q after an exception in the playback thread** (processor.cpp:330): there is
   no `ThreadDead`, the group stays listed and the program waits for ever.
   `QuitObeyed` excepts it. Starting xcast with no channel at all has the same
   end.
6. **--show starts the playback** (main.cpp:297-318) before it exits.
7. **The channel of the simple command line is dropped** (options.cpp:407; README
   2.1): the test whether one is given reads `ch` after `store` and before
   `notify`, which would assign it.
8. **A malformed channel line is not ignored** (options.cpp:249): the code prints
   that it is (options.cpp:248), but sets `abort`, and the whole command is
   refused with the help screen. `WholeCorrect` proves that xcast never starts
   past such a line.
9. **A pause without a year is dropped** (options.cpp:309): README 2.4
   (README.txt:173) gives the format as `[[YYYY]/MM/DD] HH:MM...`, whose inner
   brackets make the year optional. The regular expression finds no time in such a
   line, and as in any line in which it finds none, xcast drops it without a
   word and starts. `ReadAsDocumented` does not count these lines as documented,
   and `WholeFilesRead` excepts them by name. There is no run for it, since the
   README can also be read to mean a full date.

Other weak spots are listed as hazards in `PROJECT.json`, at their lines. Among
those no property states: an event left set keeps the interface from its
heartbeats (msg.h:246); a P that races an auto-pause resumes the playback
(processor.cpp:280); a restart leaves out channels already played to their end
(processor.cpp:166); a pipe that stays broken is read again without end
(interface.cpp:258).

## 5. Proofs

All theorems are checked by TLAPS for every value of the constants, under the
assumptions named in the modules (`ConstantsAssumption`, `DriveAssumption`,
`QueueAssumption`, `XCastAssumption`, `TextAssumption`, `CommandsAssumption`), which
only give the constants their types.

| Theorem | States | Argument |
|---|---|---|
| `PacketTimeProofs!SameShapeOrdered` | on stamps of one shape `operator<` is a strict weak order | the first member that differs decides; the same member decides for both comparisons or an earlier one does |
| `PacketTimeProofs!MinElementFirstLeast` | on such stamps `min_element` returns the first least | by contradiction at the least place where the scan would not hold the first least of what it has visited |
| `GroupProcessorProofs!TypeCorrect` | `[]TypeOK` | inductive as it stands; sources stay within their captures (`Within`) through reads and restarts |
| `GroupProcessorProofs!ElapsedCorrect` | `[]ElapsedExact` | inductive with `TypeOK`, which keeps `start <= now` |
| `GroupProcessorProofs!NoticesCorrect` | `[]NoticesMatchState` | inductive with `TypeOK`; lemmas say what appending an event does to `RunningAt` |
| `GroupProcessorProofs!QuietCorrect` | `[]QuietWhilePaused` | needs `NoticesMatchState`, and that `pc = "packet"` only in `play_state`, as its strengthening |
| `GroupOrderProofs!OrderCorrect` | `[]SentInOrder` | every channel still in the map holds the packet at its position (`LoadInv`), and none of these is before a packet sent since the restart (`OrderInv`); stamps of captures have one shape, so `MinElementFirstLeast` applies to the choice of the next |
| `GroupOrderProofs!PausesCorrect` | `[]PausesHonoured` | `PauseInv`: no pause still ahead is before a packet already sent; pauses of one year and the packets are compared by the same members, so "not before" is transitive across them |
| `GroupOrderProofs!AnnouncedCorrect` | `[]AnnouncedIsNext` | `WordInv`: an announcement nothing has settled yet names the packet of `NextChannel`, and only sending it or a restart changes that channel |
| `GroupReplayProofs!OnceCorrect` | `[]ExactlyOnce` | `ReplayInv`: of a channel in the map the packets before its position have gone out since the last restart, in order |
| `GroupReplayProofs!CompleteCorrect` | `[]CompleteReplay` | the same invariant: a channel is erased when its position is past its last packet, and what was sent of it since the last restart remains a whole pass |
| `GroupReplayProofs!StatsCorrect` | `[]StatsMatch` | `StatsInv`: a source holds the size of its packet and has counted the bytes before it; `BytesIn`, a recursive function, is unfolded one packet at a time after its existence is shown by a least counterexample |
| `GroupReplayProofs!RepeatableCorrect` | `[]Repeatable` | `DayInv`: until the first restart each packet and auto-pause of the history was foretold by captures and pauses, and what stands between history and channels is settled (`Standing`): the packets still to come are those not before the next, and a ledger gives each pause still ahead its line in the file, so that as many auto-pauses have fired as lines are used up |
| `GroupOrderProofs!FileOrderCorrect` | `[](InTimeOrder(scenario.pauses) => PausesInFileOrder)` | of a list in order the first is a least element and what remains is an end of the list, so every pause taken is the next of the file |
| `GroupRefinementProofs!LifeCorrect` | `Spec => ImplementsLife` | one lemma for each kind of step: appending one event unfolds `Told` once, so the step maps to the action of `GroupLife` of the same meaning or to a stutter; needs `PhaseInv`, which ties `pc` to `state` |
| `MessageQueueProofs!TypeCorrect` | `[]TypeOK` | inductive |
| `MessageQueueProofs!WakeupsCorrect` | `[]NoLostWakeup` | inductive with `TypeOK` |
| `MessageQueueProofs!SleepCorrect` | `[]OnlyAppSleeps` | needs `LookedFirst`: a consumer about to pop has seen a message, and only it takes messages away |
| `MessageQueueProofs!FifoCorrect` | `[]Fifo` | inductive with `TypeOK`, stated of `popped` and `queue` taken together: a push appends the producer's next message, a pop leaves the whole as it is |
| `MessageQueueProofs!ChannelCorrect` | `Spec => Line!ChannelSpec` | `Enqueue` is a `Send`, `Pop` is a `Take`, and every other step leaves queue, counts and popped messages alone |
| `XCastProofs!TypeCorrect` | `[]TypeOK` | inductive; lemmas on what one message appended to or taken from each queue leaves |
| `XCastProofs!JoinCorrect` | `[]JoinIsSafe` | needs that `groupQ` holds messages; an order to die stays queued until it is obeyed |
| `XCastProofs!ConsoleCorrect` | `[]ConsoleRestoredAfterRun` | needs `ConsoleInv`: a dead interface has restored the console, and `run` returns only after it |
| `XCastProofs!EndsCorrect` | `[]EndsAfterPlayback` | needs `EndInv`: a `ThreadDead` of anybody but a listed group is queued, or the interface is past its wait, only for one of the reasons the property excepts |
| `XCastProofs!CommandsCorrect` | `[]CommandsInOrder` | needs `CommandInv`: what the queues hold in the user's name is a command, and without a pipe the interface's queue spells none; `FlattenSeq` is shown to distribute over concatenation from its own definition, so each step only regroups the three parts of a command's way |
| `XCastProofs!WaitCorrect` | `[]NoCircularWait` | `WaitInv`, in three parts. `Baton`: while the loop of the App goes on, there is always a message on its way, an order queued or a thread at work that will bring it nearer to its end. `TrueFarewells`: a `ThreadDead` is sent by what has died, by the group once. `DieArrives`: a group told to die has ended, is ending or will find the order. With `CommandInv`, a Q that was typed is on its way or was delivered; with `JoinIsSafe`, a join ends |
| `XCastProofs!LeavingCorrect` | `[](errors = 0 => InterfaceDied)` | the last part of `TrueFarewells`: only a failed read has the pipe reader speak, so without one the word the App left on was the interface's |
| `OptionsProofs!TypeCorrect` | `[]TypeOK` | inductive; what the tokenizer finds in the first k fields are texts, by a least counterexample |
| `OptionsProofs!PausesCorrect` | `[]PausesComparable` | needs that every pause read has hours, minutes, seconds and milliseconds, and its date in full or not at all |
| `OptionsProofs!WholeCorrect` | `[]WholeFilesRead` | `RefusalInv`: `abort` and `anyFailed` remember every malformed line before `line`, and `end` is reached only past both files. `ListedInv`: the channels (pauses) read so far are an enumeration of the good lines before `line`, in order; a line read adds itself at the end (`EnumerationGrows`), and the section for a channel on the command line adds none |
| `OptionsProofs!PlayedCorrect` | `[]PlayedAsListed` | `ListedInv` gives each channel its line; by a least counterexample the first k turns of `Init` have failed at one of the first k channels or hold the last of each name; since the enumeration is in order, the last channel of a name is the last line |
| `OptionsProofs!ReadCorrect` | `[]ReadAsDocumented` | `ReadInv`: channels and pauses are what the lines read so far say; the tokenizer leaves a documented line as it is, and such a line sets neither `abort` nor `any_failed` |

Every invariant a passing run checks is also proved. `ImplementsLife` is, and of
`ImplementsChannel` the safety half.

`Repeatable` was first checked against a whole replay computed in advance. The
attempt to prove it showed that form wrong for captures of several days with a
pause dated to none: the earliest packet after the pause in time of day need not
be the next after it in the order of the packets. It now says what precedes each
packet, as a set of packets and a number of pauses, and the several days are a
scenario of the run.

Only model-checked: liveness, which the prover cannot do. These are
`DieIsObeyed`, `PlaybackEnds`, `Delivered`, `EndsWithPlayback`, `QuitObeyed` and
the fairness in `ImplementsChannel`. `NoCircularWait` is as near as a proof comes to
them: it leaves no state from which the program could not go on.

## 6. Not modelled

- Formatting, printing, verbose messages, `try_pop` (never called), the bodies
  of `App`'s display handlers.
- Totals of the group report: sums over the channels left.
- In `GroupProcessor`, a channel that shares its name with a later one: it starts
  from the channels that stay. That one which was replaced may have failed
  before is in `Options` (`GroupInit`).
- Failures of `GetCurrentPacketTime`.
- Sockets and multicast beyond "sent" and "throws".
- The text of command lines and files, character by character: the option
  library, the tokenizer and the regular expression are modelled by which parts
  they find.

## 7. Plan

1. *Done*: `PacketTime`, `GroupProcessor`, `GroupLife`, `MessageQueue`, `XCast`,
   `Options`, their runs and the theorems above.
2. *Done*: the next packet a group report names (`AnnouncedIsNext`), failures of
   the console.
3. *Done*: theorems on the order of the packets, pauses, announcements, complete
   replay, byte counts, the queue's order, the files of the options, the channels
   made of them, the user's commands and the refinement.
4. *Done*: repeatability, the absence of circular waits, the queue as a channel,
   and the theorems that delimit the first and the fourth of section 4.
5. Left: the totals of the group report; theorems that delimit the others of
   section 4.
