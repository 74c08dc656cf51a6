-------------------------------- MODULE XCast --------------------------------
(***************************************************************************)
(* The whole program: the App in the main thread, the interface thread,    *)
(* the pipe reader it starts when stdin is a pipe, and the playback        *)
(* thread, of which only GroupLife is used.  The threads share nothing but *)
(* queues: everybody pushes on the App's server queue, the App pushes on   *)
(* the group's queue and, like the pipe reader, on the interface's.        *)
(*                                                                         *)
(* Pushing and popping are single steps here; MessageQueue shows what the  *)
(* queues guarantee in smaller ones.  An event that is left set may keep   *)
(* the interface from its heartbeats, so none is ever promised.            *)
(***************************************************************************)
EXTENDS Integers, Sequences, SequencesExt

CONSTANTS
    Files,      (* what GetFileType may say of stdin                         *)
    ShowType,   (* opts_.show_type_: the progress report of a heartbeat      *)
    Failures,   (* how reads of the pipe or the console may fail             *)
    MaxTyped,   (* bound: how many letters the user types                    *)
    (* ... and for each kind of stdin:                                       *)
    ShowModes,  (* whether --show may be given                               *)
    Commands,   (* the letters the user may type                             *)
    MaxBeats,   (* bound: how many heartbeats the interface sends            *)
    MaxErrors   (* bound: how many calls on stdin fail                       *)

ASSUME XCastAssumption ==
    /\ Files \subseteq {"char", "pipe", "other"}
    /\ ShowType \in {"RequestChannels", "RequestGroups", "RequestBoth"}
    /\ Failures \subseteq {"aborted", "broken", "console"}
    /\ MaxTyped \in Nat
    /\ \A f \in Files : /\ ShowModes[f] \subseteq BOOLEAN
                        /\ Commands[f] \subseteq {"Q", "S", "P", "R", "X"}
                        /\ MaxBeats[f] \in Nat
                        /\ MaxErrors[f] \in Nat

VARIABLES
    file,       (* file_type_ of stdin                                       *)
    show,       (* opts_.show_mode_                                          *)
    app,        (* where the main thread is                                  *)
    listed,     (* the group is in grp_threads_                              *)
    serverQ,    (* server_queue_                                             *)
    ifc,        (* where the interface thread is                             *)
    ifcQ,       (* the interface's oob_queue_                                *)
    console,    (* the mode of the console: "old" or "new"                   *)
    pipe,       (* where the pipe reader is                                  *)
    group,      (* the playback thread: GroupLife's life ...                 *)
    played,     (* ... sent                                                  *)
    groupQ,     (* ... and inbox                                             *)
    typed,      (* history: the letters the user has given, in order         *)
    delivered,  (* history: the commands of the user the App has passed on   *)
    beats,      (* history: the number of heartbeats                         *)
    errors      (* history: the number of failed calls on stdin              *)

groupVars == <<group, played, groupQ>>
ifcVars == <<ifc, console, pipe>>
history == <<typed, beats, errors>>
vars == <<file, show, app, listed, serverQ, ifcQ, ifcVars, groupVars, delivered, history>>

(* What the App may be asked for, and what it passes on to the group. *)
GroupMessages == {"TogglePause", "Restart", "RequestBoth", "ThreadDie", ShowType}

Group == INSTANCE GroupLife WITH
             Me <- "Group", Messages <- GroupMessages,
             life <- group, sent <- played, inbox <- groupQ, outbox <- serverQ

(* The message InterfaceProcessor::OnCommand pushes for a letter, if any. *)
MessageFor(c) ==
    CASE c = "Q" -> <<"ThreadDie">>
      [] c = "S" -> <<"RequestBoth">>
      [] c = "P" -> <<"TogglePause">>
      [] c = "R" -> <<"Restart">>
      [] OTHER   -> <<>>

(* ... and for a string of letters. *)
MessagesFor(letters) == FlattenSeq([i \in DOMAIN letters |-> MessageFor(letters[i])])

(* Messages on the server queue carry who pushed them. *)
Senders == {"Group", "ifc", "pipe", "user"}

Notices == {"LogMessage", "Paused", "Resumed", "AutoPaused", "Restarted",
            "ChannelProgress", "GroupProgress"}

MessageTypes == Notices \cup {"TogglePause", "Restart", "RequestBoth", "HeartBeat",
                              "ThreadDie", "ThreadDead"}

ServerMessages == [type : MessageTypes, from : Senders]

From(who, types) == [i \in DOMAIN types |-> [type |-> types[i], from |-> who]]

ToServer(who, types) == serverQ' = serverQ \o From(who, types)

-----------------------------------------------------------------------------
Init ==
    /\ file \in Files
    /\ show \in ShowModes[file]
    /\ app = "start"
    /\ listed = FALSE
    /\ ifc = "init"
    /\ ifcQ = <<>>
    /\ console = "old"
    /\ pipe = "none"
    /\ Group!LifeInit               (* serverQ, group, played and groupQ *)
    /\ typed = <<>>
    /\ delivered = <<>>
    /\ beats = 0
    /\ errors = 0

(* The playback thread is over. *)
Ended(g) == g \in {"dead", "failed"}

(* The process is there, and with it its threads. *)
Running == app \notin {"exited", "crashed"}

-----------------------------------------------------------------------------
(* The playback thread; it is started by App::run. *)
GroupRuns ==
    /\ Running
    /\ app # "start"
    /\ UNCHANGED <<file, show, app, listed, ifcQ, ifcVars, delivered, history>>

GroupThread == GroupRuns /\ (Group!Live \/ Group!Fail)

-----------------------------------------------------------------------------
(* The interface thread; it is started by the constructor of App.           *)
IfcRest == UNCHANGED <<file, show, app, listed, groupVars, delivered>>

IfcInit ==
    /\ Running
    /\ ifc = "init"
    /\ console' = IF file = "char" THEN "new" ELSE console
    /\ pipe' = IF file = "pipe" THEN "reading" ELSE pipe
    /\ ifc' = IF file = "other" THEN "teardown" ELSE "wait"
    /\ UNCHANGED <<serverQ, ifcQ, history>>
    /\ IfcRest

(* GetConsoleMode or SetConsoleMode fails, as it does on a device that is no  *)
(* console: an exception nobody catches, and the end of the process.         *)
IfcInitFails ==
    /\ Running
    /\ ifc = "init"
    /\ file = "char"
    /\ "console" \in Failures
    /\ errors < MaxErrors[file]
    /\ errors' = errors + 1
    /\ app' = "crashed"
    /\ UNCHANGED <<file, show, listed, ifcVars, serverQ, ifcQ, groupVars, delivered, typed, beats>>

(* A letter key goes up: OnCommand. *)
KeyPress ==
    /\ Running
    /\ ifc = "wait"
    /\ file = "char"
    /\ Len(typed) < MaxTyped
    /\ \E c \in Commands[file] :
          /\ ToServer("user", MessageFor(c))
          /\ typed' = Append(typed, c)
    /\ UNCHANGED <<ifcQ, ifcVars, beats, errors>>
    /\ IfcRest

(* The wait times out. *)
HeartBeat ==
    /\ Running
    /\ ifc = "wait"
    /\ beats < MaxBeats[file]
    /\ ToServer("ifc", <<"HeartBeat">>)
    /\ beats' = beats + 1
    /\ UNCHANGED <<ifcQ, ifcVars, typed, errors>>
    /\ IfcRest

(* ProcessOOBEvent handles an order to die.  Only a queue with a message      *)
(* wakes the interface for good.                                              *)
IfcHandleDie ==
    /\ Running
    /\ ifc = "wait"
    /\ ifcQ # <<>>
    /\ Head(ifcQ) = <<"ThreadDie">>
    /\ ifcQ' = Tail(ifcQ)
    /\ ifc' = "teardown"
    /\ UNCHANGED <<serverQ, console, pipe, history>>
    /\ IfcRest

(* Mutated form: only the first letter of what the pipe reader got is used. *)
IfcHandleLetter_Drops ==
    /\ Running
    /\ ifc = "wait"
    /\ ifcQ # <<>>
    /\ Head(ifcQ) # <<"ThreadDie">>
    /\ ifcQ' = Tail(ifcQ)
    /\ ToServer("user", MessageFor(Head(ifcQ)[1]))
    /\ UNCHANGED <<ifcVars, history>>
    /\ IfcRest

(* HandleInternalCommand: OnCommand for one letter after another of what the  *)
(* pipe reader got; the rest of them stays at the head of the queue.          *)
IfcHandleLetter ==
    /\ Running
    /\ ifc = "wait"
    /\ ifcQ # <<>>
    /\ Head(ifcQ) # <<"ThreadDie">>
    /\ LET rest == Tail(Head(ifcQ))
       IN  ifcQ' = IF rest = <<>> THEN Tail(ifcQ) ELSE <<rest>> \o Tail(ifcQ)
    /\ ToServer("user", MessageFor(Head(ifcQ)[1]))
    /\ UNCHANGED <<ifcVars, history>>
    /\ IfcRest

(* ReadConsoleInput fails: the exception is caught once, to tear down.        *)
IfcReadFails ==
    /\ Running
    /\ ifc = "wait"
    /\ file = "char"
    /\ "console" \in Failures
    /\ errors < MaxErrors[file]
    /\ errors' = errors + 1
    /\ ToServer("ifc", <<"LogMessage">>)
    /\ ifc' = "caught"
    /\ UNCHANGED <<console, pipe, ifcQ, typed, beats>>
    /\ IfcRest

(* Mutated form: the console is left in the new mode. *)
IfcTeardown_KeepsMode ==
    /\ Running
    /\ ifc \in {"teardown", "caught"}
    /\ ToServer("ifc", <<"ThreadDead">>)
    /\ ifc' = IF ifc = "caught" THEN "thrown" ELSE "dead"
    /\ UNCHANGED <<console, pipe, ifcQ, history>>
    /\ IfcRest

IfcTeardown ==
    /\ Running
    /\ ifc \in {"teardown", "caught"}
    /\ console' = "old"
    /\ ToServer("ifc", <<"ThreadDead">>)
    /\ ifc' = IF ifc = "caught" THEN "thrown" ELSE "dead"
    /\ UNCHANGED <<pipe, ifcQ, history>>
    /\ IfcRest

(* ... and is thrown again, out of the thread and so out of the process.      *)
IfcTerminates ==
    /\ Running
    /\ ifc = "thrown"
    /\ app' = "crashed"
    /\ UNCHANGED <<file, show, listed, ifcVars, serverQ, ifcQ, groupVars, delivered, history>>

-----------------------------------------------------------------------------
(* The pipe reader.  Its context belongs to the interface thread's stack     *)
(* frame, and is destroyed when that thread leaves its loop.  What the reader *)
(* does from then on is undefined: it goes on as if nothing had happened, it *)
(* disappears, or it takes the whole process with it.                        *)
PipeRest == UNCHANGED <<file, show, listed, ifc, console, groupVars, delivered, beats>>

PipeRead ==
    /\ Running
    /\ pipe = "reading"
    /\ \E n \in 1..2 : \E letters \in [1..n -> Commands[file]] :
          /\ Len(typed) + n <= MaxTyped
          /\ ifcQ' = Append(ifcQ, letters)
          /\ typed' = typed \o letters
    /\ UNCHANGED <<app, serverQ, pipe, errors>>
    /\ PipeRest

(* ReadFile fails; only an aborted read ends the loop. *)
PipeError ==
    /\ Running
    /\ pipe = "reading"
    /\ errors < MaxErrors[file]
    /\ errors' = errors + 1
    /\ \/ /\ "aborted" \in Failures
          /\ ToServer("pipe", <<"ThreadDead">>)
          /\ pipe' = "dead"
          /\ UNCHANGED ifcQ
       \/ /\ "broken" \in Failures
          /\ ToServer("pipe", <<"LogMessage">>)
          /\ ifcQ' = Append(ifcQ, <<"ThreadDie">>)
          /\ UNCHANGED pipe
    /\ UNCHANGED <<app, typed>>
    /\ PipeRest

(* The reader finds its context gone. *)
PipeOrphan ==
    /\ Running
    /\ pipe = "reading"
    /\ ifc \in {"teardown", "dead"}
    /\ \/ app' = "crashed" /\ UNCHANGED pipe
       \/ pipe' = "dead" /\ UNCHANGED app
    /\ UNCHANGED <<serverQ, ifcQ, typed, errors>>
    /\ PipeRest

PipeReader == PipeRead \/ PipeError \/ PipeOrphan

-----------------------------------------------------------------------------
(* The main thread. *)
AppRest == UNCHANGED <<file, show, ifcVars, group, played, history>>

(* App::run starts the playback thread, then looks at --show. *)
AppStart ==
    /\ app = "start"
    /\ app' = IF show THEN "returned" ELSE "run"
    /\ listed' = TRUE
    /\ UNCHANGED <<serverQ, ifcQ, groupQ, delivered>>
    /\ AppRest

Take(types) ==
    /\ app = "run"
    /\ serverQ # <<>>
    /\ Head(serverQ).type \in types
    /\ serverQ' = Tail(serverQ)

(* The handlers that push a message on the queue of every group there is. *)
PassOn(m) ==
    /\ groupQ' = IF listed THEN Append(groupQ, m) ELSE groupQ
    /\ delivered' = IF Head(serverQ).from = "user" /\ listed THEN Append(delivered, m) ELSE delivered

Forward ==
    /\ \E m \in {"TogglePause", "Restart", "RequestBoth"} : Take({m}) /\ PassOn(m)
    /\ UNCHANGED <<app, listed, ifcQ>>
    /\ AppRest

(* Mutated form: the heartbeat itself is passed on. *)
HandleHeartBeat_AsIs ==
    /\ Take({"HeartBeat"})
    /\ PassOn("HeartBeat")
    /\ UNCHANGED <<app, listed, ifcQ>>
    /\ AppRest

HandleHeartBeat ==
    /\ Take({"HeartBeat"})
    /\ PassOn(ShowType)
    /\ UNCHANGED <<app, listed, ifcQ>>
    /\ AppRest

(* Mutated form: join_all without telling the groups to die. *)
HandleThreadDie_JoinOnly ==
    /\ Take({"ThreadDie"})
    /\ app' = "joining"
    /\ delivered' = IF listed THEN Append(delivered, "ThreadDie") ELSE delivered
    /\ UNCHANGED <<listed, ifcQ, groupQ>>
    /\ AppRest

(* Mutated form: the App stops without waiting for the groups. *)
HandleThreadDie_StopsApp ==
    /\ Take({"ThreadDie"})
    /\ PassOn("ThreadDie")
    /\ app' = "leaving"
    /\ UNCHANGED <<listed, ifcQ>>
    /\ AppRest

(* Quit: tell the groups, then wait in join_all. *)
HandleThreadDie ==
    /\ Take({"ThreadDie"})
    /\ PassOn("ThreadDie")
    /\ app' = "joining"
    /\ UNCHANGED <<listed, ifcQ>>
    /\ AppRest

JoinAll ==
    /\ app = "joining"
    /\ listed => Ended(group)
    /\ app' = "run"
    /\ UNCHANGED <<listed, serverQ, ifcQ, groupQ, delivered>>
    /\ AppRest

(* Mutated form: any ThreadDead stops the App. *)
HandleThreadDead_StopsAtOnce ==
    /\ Take({"ThreadDead"})
    /\ app' = "leaving"
    /\ UNCHANGED <<listed, ifcQ, groupQ, delivered>>
    /\ AppRest

(* Mutated form: the interface is not told that the last group has died. *)
HandleThreadDead_Silent ==
    /\ Take({"ThreadDead"})
    /\ IF Head(serverQ).from = "Group" /\ listed
       THEN Ended(group) /\ listed' = FALSE /\ UNCHANGED app
       ELSE app' = "leaving" /\ UNCHANGED listed
    /\ UNCHANGED <<ifcQ, groupQ, delivered>>
    /\ AppRest

(* A group that died is joined and taken off the list, and after the last    *)
(* one the interface is told to die.  Anybody else's ThreadDead is taken for *)
(* the interface's, and stops the App.                                       *)
HandleThreadDead ==
    /\ Take({"ThreadDead"})
    /\ IF Head(serverQ).from = "Group" /\ listed
       THEN /\ Ended(group)
            /\ listed' = FALSE
            /\ ifcQ' = Append(ifcQ, <<"ThreadDie">>)
            /\ UNCHANGED app
       ELSE app' = "leaving" /\ UNCHANGED <<listed, ifcQ>>
    /\ UNCHANGED <<groupQ, delivered>>
    /\ AppRest

(* The rest is only printed. *)
Display ==
    /\ Take(Notices)
    /\ UNCHANGED <<app, listed, ifcQ, groupQ, delivered>>
    /\ AppRest

(* run() joins the interface and returns. *)
JoinInterface ==
    /\ app = "leaving"
    /\ ifc = "dead"
    /\ app' = "returned"
    /\ UNCHANGED <<listed, serverQ, ifcQ, groupQ, delivered>>
    /\ AppRest

(* main returns and the process is gone.  It destroys the App first, and with *)
(* it the contexts of threads that may still run on them.                    *)
Exit ==
    /\ app = "returned"
    /\ \/ app' = "exited"
       \/ ~(Ended(group) /\ ifc = "dead") /\ app' = "crashed"
    /\ UNCHANGED <<listed, serverQ, ifcQ, groupQ, delivered>>
    /\ AppRest

-----------------------------------------------------------------------------
MainThread ==
    \/ AppStart \/ Forward \/ HandleHeartBeat \/ HandleThreadDie \/ JoinAll
    \/ HandleThreadDead \/ Display \/ JoinInterface \/ Exit

(* What the interface thread does without the user or the clock. *)
IfcThread == IfcInit \/ IfcHandleDie \/ IfcHandleLetter \/ IfcTeardown \/ IfcTerminates

Next ==
    \/ MainThread \/ IfcThread \/ GroupThread \/ PipeReader
    \/ KeyPress \/ HeartBeat \/ IfcInitFails \/ IfcReadFails

Spec == Init /\ [][Next]_vars

(* The operating system runs every thread that can run.  Nobody has to type, *)
(* no heartbeat has to be sent and no read has to fail.  The playback thread *)
(* gets to its messages and, once it is ending, to its end; whether and when *)
(* a group comes to the end of its captures is left open.                    *)
FairSpec ==
    /\ Spec
    /\ WF_vars(MainThread)
    /\ WF_vars(IfcThread)
    /\ WF_vars(GroupRuns /\ Group!Prompt)

-----------------------------------------------------------------------------
TypeOK ==
    /\ file \in Files
    /\ show \in ShowModes[file]
    /\ app \in {"start", "run", "joining", "leaving", "returned", "exited", "crashed"}
    /\ listed \in BOOLEAN
    /\ ifc \in {"init", "wait", "teardown", "dead", "caught", "thrown"}
    /\ console \in {"old", "new"}
    /\ pipe \in {"none", "reading", "dead"}
    /\ group \in Group!Lives
    /\ played \in BOOLEAN
    /\ groupQ \in Seq(GroupMessages)
    /\ serverQ \in Seq(ServerMessages)
    /\ ifcQ \in Seq({<<"ThreadDie">>} \cup (Seq(Commands[file]) \ {<<>>}))
    /\ typed \in Seq(Commands[file])
    /\ beats \in 0..MaxBeats[file]
    /\ errors \in 0..MaxErrors[file]

(* The commands on their way through the server queue, and through the        *)
(* interface's as letters.                                                    *)
CommandOf(m) == IF m.from = "user" THEN <<m.type>> ELSE <<>>

Given(queue) == FlattenSeq([i \in DOMAIN queue |-> CommandOf(queue[i])])

CommandsOf(item) == IF item = <<"ThreadDie">> THEN <<>> ELSE MessagesFor(item)

Spelled(queue) == FlattenSeq([i \in DOMAIN queue |-> CommandsOf(queue[i])])

(* While there is a group to control, no command of the user is lost, doubled *)
(* or overtaken by another, on the keyboard's way or on the pipe's.           *)
CommandsInOrder ==
    listed \/ app = "start" =>
        MessagesFor(typed) = (delivered \o Given(serverQ)) \o Spelled(ifcQ)

(* The main thread never waits in join_all for a group that goes on playing:  *)
(* the order to die has reached it.                                           *)
JoinIsSafe ==
    app = "joining" /\ listed =>
        Ended(group) \/ group = "ending" \/ \E i \in DOMAIN groupQ : groupQ[i] = "ThreadDie"

(* xcast does not end while a group plays, unless it is only to show what it  *)
(* would play, or stdin is neither a console nor a pipe, or reading it failed. *)
EndsAfterPlayback ==
    app \in {"leaving", "returned", "exited"} =>
        Ended(group) \/ show \/ file = "other" \/ errors > 0

(* A run that replays leaves the console as it was, however it ends: even an  *)
(* error of the console that takes the process down comes after Teardown.     *)
ConsoleRestoredAfterRun == ~Running /\ ~show => console = "old"

(* What each thread needs to go on by itself. *)
MainCanMove ==
    \/ app \in {"start", "returned"}
    \/ /\ app = "run"
       /\ serverQ # <<>>
       /\ Head(serverQ).type = "ThreadDead" /\ Head(serverQ).from = "Group" /\ listed => Ended(group)
    \/ app = "joining" /\ (listed => Ended(group))
    \/ app = "leaving" /\ ifc = "dead"

IfcCanMove ==
    \/ ifc \in {"init", "teardown", "caught", "thrown"}
    \/ ifc = "wait" /\ ifcQ # <<>>

GroupCanMove ==
    /\ app # "start"
    /\ \/ group \in {"starting", "ending"}
       \/ group \in {"paused", "playing"} /\ groupQ # <<>>

QuitTyped == \E i \in DOMAIN typed : typed[i] = "Q"

(* The threads never wait for each other in a circle.  When none of the three *)
(* has anything to do, the group is there and still to be played or resumed,  *)
(* and nobody has asked to quit; or it has died of an exception, which the    *)
(* App is not told; or the App has taken the failure of a read for the end of *)
(* the interface, and waits for it.                                           *)
NoCircularWait ==
    Running /\ ~MainCanMove /\ ~IfcCanMove /\ ~GroupCanMove =>
        \/ /\ app = "run" /\ listed /\ ifc = "wait"
           /\ group = "failed" \/ (group \in {"paused", "playing"} /\ ~QuitTyped)
        \/ app = "leaving" /\ ifc = "wait" /\ errors > 0

(* Once its captures are played to the end the program ends by itself, unless *)
(* a read of stdin has failed, which is taken for the end of the interface.  *)
EndsWithPlayback == group = "dead" ~> (~Running \/ errors > 0)

QuitAsked == \E i \in DOMAIN serverQ : serverQ[i].type = "ThreadDie"

(* Q ends the program, unless the group has died of an exception, or a read   *)
(* of stdin has failed.                                                      *)
QuitObeyed == QuitAsked ~> (~Running \/ group = "failed" \/ errors > 0)

-----------------------------------------------------------------------------
(* Statements of the documentation that the code does not keep.               *)

(* interface.cpp calls Q the quit command: xcast ends when it is typed.       *)
QuitEndsProgram == QuitAsked ~> ~Running

(* README 2.5: --show exits without replaying.                                *)
ShowDoesNotReplay == show => ~played

(* main.cpp: when the App stops, the interface processor has died. *)
InterfaceDied == app = "leaving" => ifc = "dead"
=============================================================================
