----------------------------- MODULE XCastProofs -----------------------------
(***************************************************************************)
(* Proofs about the whole program, for any letters typed, any faults of    *)
(* stdin and any bounds: the main thread joins only groups that end, the   *)
(* program does not end before playback, it gives the console back, no     *)
(* command of the user is lost, doubled or overtaken on its way, and the   *)
(* threads never wait for each other in a circle.                          *)
(***************************************************************************)
EXTENDS XCast, SequenceTheorems, WellFoundedInduction, TLAPS

(* The actions of the main thread but the two that matter to the group. *)
OtherMain ==
    \/ AppStart \/ JoinAll \/ HandleThreadDead \/ Display \/ JoinInterface \/ Exit

(* The interface thread and the pipe reader, whatever wakes them. *)
OtherThreads ==
    IfcThread \/ KeyPress \/ HeartBeat \/ IfcInitFails \/ IfcReadFails \/ PipeReader

(* What the playback thread may do to the group. *)
GroupStep == Group!Live \/ Group!Fail

-----------------------------------------------------------------------------
(* What is on the server queue after messages have been pushed on it.         *)
PushedOn(q, r, who, types) ==
    \A i \in DOMAIN r : \/ i \in DOMAIN q /\ r[i] = q[i]
                       \/ \E k \in DOMAIN types : r[i] = [type |-> types[k], from |-> who]

LEMMA Pushed ==
    ASSUME NEW q \in Seq(ServerMessages), NEW who \in Senders, NEW types \in Seq(MessageTypes),
           NEW r, r = q \o From(who, types)
    PROVE  r \in Seq(ServerMessages) /\ PushedOn(q, r, who, types)
<1>1. From(who, types) \in Seq(ServerMessages)
  <2> DEFINE n == Len(types)
  <2>1. From(who, types) = [i \in 1..n |-> [type |-> types[i], from |-> who]]
    BY DEF From
  <2>2. \A i \in 1..n : [type |-> types[i], from |-> who] \in ServerMessages
    <3>1. \A i \in 1..n : types[i] \in MessageTypes
        OBVIOUS
    <3> QED BY <3>1 DEF ServerMessages, MessageTypes
  <2> QED BY <2>1, <2>2
<1>2. Len(From(who, types)) = Len(types) /\ DOMAIN types = 1..Len(types)
    BY DEF From
<1>3. r \in Seq(ServerMessages)
  <2> DEFINE mail == From(who, types)
  <2>1. mail \in Seq(ServerMessages)
    BY <1>1
  <2> HIDE DEF mail
  <2>2. q \o mail \in Seq(ServerMessages)
    BY <2>1
  <2> QED BY <2>2 DEF mail
<1>4. ASSUME NEW i \in DOMAIN r, i \notin DOMAIN q
      PROVE  \E k \in DOMAIN types : r[i] = [type |-> types[k], from |-> who]
  <2>1. i - Len(q) \in DOMAIN types
    BY <1>1, <1>2, <1>4
  <2>2. r[i] = From(who, types)[i - Len(q)]
    BY <1>1, <1>2, <1>4
  <2> QED BY <2>1, <2>2 DEF From
<1>5. ASSUME NEW i \in DOMAIN r, i \in DOMAIN q PROVE r[i] = q[i]
    BY <1>1, <1>5
<1> QED BY <1>3, <1>4, <1>5 DEF PushedOn

(* The playback thread only appends to it, ThreadDead as the last thing it does. *)
LEMMA GroupPushes ==
    ASSUME GroupStep, serverQ \in Seq(ServerMessages)
    PROVE  \E types \in Seq(MessageTypes) :
               /\ serverQ' = serverQ \o From("Group", types)
               /\ IF group' = "dead" THEN types = <<"ThreadDead">>
                                    ELSE \A k \in DOMAIN types : types[k] # "ThreadDead"
<1> DEFINE Answers == {<<"Resumed">>, <<"Paused">>, <<"Restarted">>, <<"Paused", "Restarted">>,
                       <<"ChannelProgress">>, <<"GroupProgress">>,
                       <<"ChannelProgress", "GroupProgress">>,
                       <<"AutoPaused">>, <<"LogMessage">>}
<1>1. \A types \in Answers : /\ types \in Seq(MessageTypes)
                             /\ \A k \in DOMAIN types : types[k] # "ThreadDead"
  <2>1. Answers \subseteq Seq(Notices)
    BY DEF Notices
  <2>2. Notices \subseteq MessageTypes /\ "ThreadDead" \notin Notices
    BY DEF MessageTypes, Notices
  <2> HIDE DEF Answers
  <2> QED BY <2>1, <2>2
<1>2. \/ \E types \in Answers : Group!Tell(types) /\ group' # "dead"
      \/ UNCHANGED serverQ /\ group' # "dead"
      \/ Group!Tell(<<"ThreadDead">>) /\ group' = "dead"
  <2>1. CASE Group!Toggle
    <3>1. Group!Tell(<<"Resumed">>) \/ Group!Tell(<<"Paused">>)
      BY <2>1 DEF Group!Toggle
    <3>2. group' # "dead"
      BY <2>1 DEF Group!Toggle
    <3> QED BY <3>1, <3>2
  <2>2. CASE Group!Set
    <3>1. Group!Tell(<<"Resumed">>) \/ Group!Tell(<<"Paused">>)
      BY <2>2 DEF Group!Set
    <3>2. group' # "dead"
      BY <2>2 DEF Group!Set
    <3> QED BY <3>1, <3>2
  <2>3. CASE Group!GoBack
    <3>1. Group!Tell(<<"Paused", "Restarted">>) \/ Group!Tell(<<"Restarted">>)
      BY <2>3 DEF Group!GoBack
    <3>2. group' # "dead"
      BY <2>3 DEF Group!GoBack
    <3> QED BY <3>1, <3>2
  <2>4. CASE Group!Report
    <3>1. \/ Group!Tell(<<"ChannelProgress">>) \/ Group!Tell(<<"GroupProgress">>)
          \/ Group!Tell(<<"ChannelProgress", "GroupProgress">>)
      BY <2>4 DEF Group!Report
    <3>2. group' # "dead"
      BY <2>4 DEF Group!Report, Group!Receive
    <3> QED BY <3>1, <3>2
  <2>5. CASE Group!StopByItself \/ Group!Fail
    <3>1. Group!Tell(<<"AutoPaused">>) \/ Group!Tell(<<"LogMessage">>)
      BY <2>5 DEF Group!StopByItself, Group!Fail
    <3>2. group' # "dead"
      BY <2>5 DEF Group!StopByItself, Group!Fail
    <3> QED BY <3>1, <3>2
  <2>6. CASE Group!Farewell
    BY <2>6 DEF Group!Farewell
  <2>7. CASE Group!Open \/ Group!Send \/ Group!ReachEnd \/ Group!Obey
    BY <2>7 DEF Group!Open, Group!Send, Group!ReachEnd, Group!Obey
  <2> QED
    BY <2>1, <2>2, <2>3, <2>4, <2>5, <2>6, <2>7 DEF GroupStep, Group!Live, Group!Prompt
<1>3. ASSUME NEW types \in Seq(MessageTypes), Group!Tell(types)
      PROVE  serverQ' = serverQ \o From("Group", types)
    BY <1>3 DEF Group!Tell, Group!Mail, From
<1>4. ASSUME UNCHANGED serverQ
      PROVE  serverQ' = serverQ \o From("Group", <<>>) /\ <<>> \in Seq(MessageTypes)
    BY <1>4 DEF From
<1>5. <<"ThreadDead">> \in Seq(MessageTypes)
  BY DEF MessageTypes
<1> HIDE DEF Answers
<1>6. CASE \E types \in Answers : Group!Tell(types) /\ group' # "dead"
  BY <1>1, <1>3, <1>6
<1>7. CASE UNCHANGED serverQ /\ group' # "dead"
  <2>1. \A k \in DOMAIN <<>> : FALSE
    OBVIOUS
  <2> QED BY <1>4, <1>7, <2>1
<1>8. CASE Group!Tell(<<"ThreadDead">>) /\ group' = "dead"
  BY <1>3, <1>5, <1>8
<1> QED BY <1>2, <1>6, <1>7, <1>8

-----------------------------------------------------------------------------
(* Type correctness.                                                          *)

(* What a letter pushes is a message.                                         *)
LEMMA LetterMessage == ASSUME NEW c PROVE MessageFor(c) \in Seq(MessageTypes)
<1>1. {<<"ThreadDie">>, <<"RequestBoth">>, <<"TogglePause">>, <<"Restart">>, <<>>}
          \subseteq Seq(MessageTypes)
    BY DEF MessageTypes
<1>2. MessageFor(c) \in {<<"ThreadDie">>, <<"RequestBoth">>, <<"TogglePause">>, <<"Restart">>, <<>>}
    BY DEF MessageFor
<1> QED BY <1>1, <1>2

(* Whoever pushes messages keeps the type of the server queue.                *)
LEMMA PushKeepsType ==
    ASSUME NEW who \in Senders, NEW types \in Seq(MessageTypes), ToServer(who, types),
           serverQ \in Seq(ServerMessages)
    PROVE  serverQ' \in Seq(ServerMessages)
BY Pushed DEF ToServer

LEMMA GroupTyped == ASSUME TypeOK, GroupThread PROVE TypeOK'
<1>1. GroupStep /\ UNCHANGED <<file, show, app, listed, ifcQ, ifcVars, delivered, history>>
    BY DEF GroupThread, GroupRuns, GroupStep
<1>2. serverQ' \in Seq(ServerMessages)
  <2>1. PICK types \in Seq(MessageTypes) : serverQ' = serverQ \o From("Group", types)
    BY <1>1, GroupPushes DEF TypeOK
  <2> QED BY <2>1, Pushed DEF TypeOK, Senders
<1>3. group' \in Group!Lives /\ played' \in BOOLEAN /\ groupQ' \in Seq(GroupMessages)
  <2>1. groupQ' \in {groupQ, Tail(groupQ)} /\ (groupQ' = Tail(groupQ) => groupQ' = groupQ \/ groupQ # <<>>)
    BY <1>1 DEF GroupStep, Group!Live, Group!Prompt, Group!Toggle, Group!Set, Group!GoBack,
                Group!Report, Group!Obey, Group!Receive, Group!Open, Group!Send,
                Group!StopByItself, Group!ReachEnd, Group!Farewell, Group!Fail
  <2>2. groupQ' \in Seq(GroupMessages)
    <3>1. groupQ \in Seq(GroupMessages)
      BY DEF TypeOK
    <3>2. groupQ # <<>> => Tail(groupQ) \in Seq(GroupMessages)
      BY <3>1
    <3> QED BY <2>1, <3>1, <3>2
  <2>3. played' \in BOOLEAN
    BY <1>1 DEF TypeOK, GroupStep, Group!Live, Group!Prompt, Group!Toggle, Group!Set, Group!GoBack,
                Group!Report, Group!Obey, Group!Receive, Group!Open, Group!Send,
                Group!StopByItself, Group!ReachEnd, Group!Farewell, Group!Fail
  <2>4. group' \in Group!Lives
    BY <1>1 DEF TypeOK, GroupStep, Group!Live, Group!Prompt, Group!Toggle, Group!Set, Group!GoBack,
                Group!Report, Group!Obey, Group!Receive, Group!Open, Group!Send,
                Group!StopByItself, Group!ReachEnd, Group!Farewell, Group!Fail, Group!Lives
  <2> QED BY <2>2, <2>3, <2>4
<1> QED BY <1>1, <1>2, <1>3 DEF TypeOK, ifcVars, history

LEMMA MainTyped == ASSUME TypeOK, MainThread PROVE TypeOK'
<1>1. UNCHANGED <<file, show, ifc, console, pipe, group, played, typed, beats, errors>>
    BY DEF MainThread, AppStart, Forward, HandleHeartBeat, HandleThreadDie, JoinAll,
           HandleThreadDead, Display, JoinInterface, Exit, AppRest, ifcVars, history
<1>2. app' \in {"start", "run", "joining", "leaving", "returned", "exited", "crashed"}
    BY DEF TypeOK, MainThread, AppStart, Forward, HandleHeartBeat, HandleThreadDie, JoinAll,
           HandleThreadDead, Display, JoinInterface, Exit
<1>3. listed' \in BOOLEAN
    BY DEF TypeOK, MainThread, AppStart, Forward, HandleHeartBeat, HandleThreadDie, JoinAll,
           HandleThreadDead, Display, JoinInterface, Exit
<1>4. serverQ' \in Seq(ServerMessages)
  <2>1. serverQ' = serverQ \/ (serverQ # <<>> /\ serverQ' = Tail(serverQ))
    BY DEF MainThread, AppStart, Forward, HandleHeartBeat, HandleThreadDie, JoinAll,
           HandleThreadDead, Display, JoinInterface, Exit, Take
  <2>2. serverQ \in Seq(ServerMessages)
    BY DEF TypeOK
  <2>3. serverQ # <<>> => Tail(serverQ) \in Seq(ServerMessages)
    BY <2>2
  <2> QED BY <2>1, <2>2, <2>3
<1>5. groupQ' \in Seq(GroupMessages)
  <2>1. groupQ' = groupQ \/ \E m \in GroupMessages : PassOn(m)
    BY DEF MainThread, AppStart, Forward, HandleHeartBeat, HandleThreadDie, JoinAll,
           HandleThreadDead, Display, JoinInterface, Exit, GroupMessages
  <2>2. groupQ \in Seq(GroupMessages)
    BY DEF TypeOK
  <2> QED BY <2>1, <2>2 DEF PassOn
<1>6. ifcQ' \in Seq({<<"ThreadDie">>} \cup (Seq(Commands[file]) \ {<<>>}))
  <2> DEFINE items == {<<"ThreadDie">>} \cup (Seq(Commands[file]) \ {<<>>})
  <2>1. ifcQ' = ifcQ \/ ifcQ' = Append(ifcQ, <<"ThreadDie">>)
    BY DEF MainThread, AppStart, Forward, HandleHeartBeat, HandleThreadDie, JoinAll,
           HandleThreadDead, Display, JoinInterface, Exit
  <2>2. ifcQ \in Seq(items) /\ <<"ThreadDie">> \in items
    BY DEF TypeOK
  <2> HIDE DEF items
  <2>3. ifcQ' \in Seq(items)
    BY <2>1, <2>2
  <2> QED BY <2>3 DEF items
<1> QED BY <1>1, <1>2, <1>3, <1>4, <1>5, <1>6 DEF TypeOK

(* Items of the interface's queue: an order to die, or letters still to handle. *)
Items == {<<"ThreadDie">>} \cup (Seq(Commands[file]) \ {<<>>})

(* The bounds of the kind of stdin at hand. *)
LEMMA BoundsTyped ==
    ASSUME TypeOK
    PROVE  /\ MaxBeats[file] \in Nat /\ MaxErrors[file] \in Nat
           /\ <<"ThreadDie">> \notin Seq(Commands[file])
<1>1. file \in Files
    BY DEF TypeOK
<1>2. MaxBeats[file] \in Nat /\ MaxErrors[file] \in Nat /\ "ThreadDie" \notin Commands[file]
    BY <1>1, XCastAssumption
<1>3. ASSUME <<"ThreadDie">> \in Seq(Commands[file]) PROVE FALSE
  <2>1. <<"ThreadDie">>[1] \in Commands[file]
    BY <1>3
  <2> QED BY <2>1, <1>2
<1> QED BY <1>2, <1>3

(* What the interface thread does to its queue. *)
LEMMA InterfaceQueue ==
    ASSUME TypeOK, IfcHandleDie \/ IfcHandleLetter
    PROVE  ifcQ' \in Seq(Items)
<1>1. ifcQ \in Seq(Items) /\ ifcQ # <<>> /\ file' = file
    BY DEF TypeOK, Items, IfcHandleDie, IfcHandleLetter, IfcRest
<1>2. Tail(ifcQ) \in Seq(Items) /\ Head(ifcQ) \in Items
    BY <1>1
<1>3. CASE IfcHandleDie
    BY <1>2, <1>3 DEF IfcHandleDie
<1>4. CASE IfcHandleLetter
  <2> DEFINE rest == Tail(Head(ifcQ))
  <2>1. Head(ifcQ) \in Seq(Commands[file]) /\ Head(ifcQ) # <<>>
    BY <1>2, <1>4 DEF IfcHandleLetter, Items
  <2>2. rest \in Seq(Commands[file])
    BY <2>1
  <2>3. rest # <<>> => rest \in Items
    BY <2>2 DEF Items
  <2>4. ifcQ' = IF rest = <<>> THEN Tail(ifcQ) ELSE <<rest>> \o Tail(ifcQ)
    BY <1>4 DEF IfcHandleLetter
  <2> HIDE DEF rest
  <2>5. rest # <<>> => <<rest>> \o Tail(ifcQ) \in Seq(Items)
    BY <1>2, <2>3
  <2> QED BY <1>2, <2>4, <2>5
<1> QED BY <1>3, <1>4

LEMMA InterfaceTyped ==
    ASSUME TypeOK, IfcThread \/ KeyPress \/ HeartBeat \/ IfcInitFails \/ IfcReadFails
    PROVE  TypeOK'
<1> USE DEF Senders
<1>1. /\ UNCHANGED <<file, show, listed, group, played, groupQ>>
      /\ app' \in {app, "crashed"}
    BY DEF IfcThread, IfcInit, IfcHandleDie, IfcHandleLetter, IfcTeardown, IfcTerminates,
           KeyPress, HeartBeat, IfcInitFails, IfcReadFails, IfcRest, groupVars
<1>2. /\ ifc' \in {"init", "wait", "teardown", "dead", "caught", "thrown"}
      /\ console' \in {"old", "new"} /\ pipe' \in {"none", "reading", "dead"}
    BY DEF TypeOK, IfcThread, IfcInit, IfcHandleDie, IfcHandleLetter, IfcTeardown, IfcTerminates,
           KeyPress, HeartBeat, IfcInitFails, IfcReadFails, ifcVars
<1>3. serverQ' \in Seq(ServerMessages)
  <2>1. serverQ \in Seq(ServerMessages)
    BY DEF TypeOK
  <2>2. \/ UNCHANGED serverQ
        \/ \E c : ToServer("user", MessageFor(c))
        \/ \E t \in {"HeartBeat", "LogMessage", "ThreadDead"} : ToServer("ifc", <<t>>)
    BY DEF IfcThread, IfcInit, IfcHandleDie, IfcHandleLetter, IfcTeardown, IfcTerminates,
           KeyPress, HeartBeat, IfcInitFails, IfcReadFails
  <2>3. \A t \in {"HeartBeat", "LogMessage", "ThreadDead"} : <<t>> \in Seq(MessageTypes)
    BY DEF MessageTypes, Notices
  <2> QED BY <2>1, <2>2, <2>3, PushKeepsType, LetterMessage
<1>4. ifcQ' \in Seq(Items)
  <2>1. UNCHANGED ifcQ \/ IfcHandleDie \/ IfcHandleLetter
    BY DEF IfcThread, IfcInit, IfcTeardown, IfcTerminates,
           KeyPress, HeartBeat, IfcInitFails, IfcReadFails
  <2> QED BY <2>1, InterfaceQueue DEF TypeOK, Items
<1>5. typed' \in Seq(Commands[file])
  <2>1. UNCHANGED typed \/ \E c \in Commands[file] : typed' = Append(typed, c)
    BY DEF IfcThread, IfcInit, IfcHandleDie, IfcHandleLetter, IfcTeardown, IfcTerminates,
           KeyPress, HeartBeat, IfcInitFails, IfcReadFails, history
  <2>2. typed \in Seq(Commands[file])
    BY DEF TypeOK
  <2> QED BY <2>1, <2>2
<1>6. beats' \in 0..MaxBeats[file] /\ errors' \in 0..MaxErrors[file]
  <2>1. beats \in 0..MaxBeats[file] /\ errors \in 0..MaxErrors[file]
    BY DEF TypeOK
  <2>2. /\ beats' = beats \/ (beats < MaxBeats[file] /\ beats' = beats + 1)
        /\ errors' = errors \/ (errors < MaxErrors[file] /\ errors' = errors + 1)
    BY DEF IfcThread, IfcInit, IfcHandleDie, IfcHandleLetter, IfcTeardown, IfcTerminates,
           KeyPress, HeartBeat, IfcInitFails, IfcReadFails, history
  <2> QED BY <2>1, <2>2, BoundsTyped
<1> QED BY <1>1, <1>2, <1>3, <1>4, <1>5, <1>6 DEF TypeOK, Items

LEMMA PipeTyped == ASSUME TypeOK, PipeReader PROVE TypeOK'
<1>1. /\ UNCHANGED <<file, show, listed, ifc, console, group, played, groupQ, beats>>
      /\ app' \in {app, "crashed"} /\ pipe' \in {"none", "reading", "dead"}
    BY DEF TypeOK, PipeReader, PipeRead, PipeError, PipeOrphan, PipeRest, groupVars
<1>2. serverQ' \in Seq(ServerMessages)
  <2>1. serverQ \in Seq(ServerMessages)
    BY DEF TypeOK
  <2>2. UNCHANGED serverQ \/ \E t \in {"LogMessage", "ThreadDead"} : ToServer("pipe", <<t>>)
    BY DEF PipeReader, PipeRead, PipeError, PipeOrphan
  <2>3. \A t \in {"LogMessage", "ThreadDead"} : <<t>> \in Seq(MessageTypes)
    BY DEF MessageTypes, Notices
  <2> QED BY <2>1, <2>2, <2>3, PushKeepsType DEF Senders
<1>3. ifcQ' \in Seq(Items) /\ typed' \in Seq(Commands[file])
  <2>1. ifcQ \in Seq(Items) /\ typed \in Seq(Commands[file])
    BY DEF TypeOK, Items
  <2>2. CASE PipeRead
    <3>0. PICK n \in 1..2 : \E letters \in [1..n -> Commands[file]] :
              ifcQ' = Append(ifcQ, letters) /\ typed' = typed \o letters
        BY <2>2 DEF PipeRead
    <3>1. PICK letters \in [1..n -> Commands[file]] :
              ifcQ' = Append(ifcQ, letters) /\ typed' = typed \o letters
        BY <3>0
    <3>2. letters \in Seq(Commands[file]) /\ letters # <<>>
        BY <3>1
    <3>3. letters \in Items
        BY <3>2 DEF Items
    <3> QED BY <2>1, <3>1, <3>2, <3>3
  <2>3. CASE PipeError \/ PipeOrphan
    <3>1. typed' = typed /\ (ifcQ' = ifcQ \/ ifcQ' = Append(ifcQ, <<"ThreadDie">>))
        BY <2>3 DEF PipeError, PipeOrphan
    <3> DEFINE die == <<"ThreadDie">>
    <3>2. die \in Items
        BY DEF Items
    <3> HIDE DEF die
    <3>3. Append(ifcQ, die) \in Seq(Items)
        BY <2>1, <3>2
    <3> QED BY <2>1, <3>1, <3>3 DEF die
  <2> QED BY <2>2, <2>3 DEF PipeReader
<1>4. errors' \in 0..MaxErrors[file]
  <2>1. errors \in 0..MaxErrors[file]
    BY DEF TypeOK
  <2>2. errors' = errors \/ (errors < MaxErrors[file] /\ errors' = errors + 1)
    BY DEF PipeReader, PipeRead, PipeError, PipeOrphan
  <2> QED BY <2>1, <2>2, BoundsTyped
<1> QED BY <1>1, <1>2, <1>3, <1>4 DEF TypeOK, Items

LEMMA TypeKept == TypeOK /\ [Next]_vars => TypeOK'
<1>1. ASSUME TypeOK, UNCHANGED vars PROVE TypeOK'
    BY <1>1 DEF TypeOK, vars, ifcVars, groupVars, history
<1> QED
    BY <1>1, MainTyped, InterfaceTyped, PipeTyped, GroupTyped DEF Next

LEMMA TypeFirst == Init => TypeOK
<1>1. ASSUME Init PROVE TypeOK
  <2>1. <<"TogglePause">> \in Seq(GroupMessages)
    BY DEF GroupMessages
  <2>2. MaxBeats[file] \in Nat /\ MaxErrors[file] \in Nat
    BY <1>1, XCastAssumption DEF Init
  <2>3. /\ groupQ = <<"TogglePause">> /\ serverQ = <<>> /\ group \in Group!Lives /\ played = FALSE
    BY <1>1 DEF Init, Group!LifeInit, Group!Lives
  <2>4. beats \in 0..MaxBeats[file] /\ errors \in 0..MaxErrors[file]
    BY <1>1, <2>2 DEF Init
  <2>5. /\ ifcQ \in Seq(Items) /\ serverQ \in Seq(ServerMessages)
        /\ typed \in Seq(Commands[file]) /\ groupQ \in Seq(GroupMessages)
    BY <1>1, <2>1, <2>3 DEF Init
  <2>6. /\ file \in Files /\ show \in ShowModes[file]
        /\ app = "start" /\ ifc = "init" /\ console = "old" /\ pipe = "none" /\ listed = FALSE
    BY <1>1 DEF Init
  <2> QED
    BY <2>3, <2>4, <2>5, <2>6 DEF TypeOK, Items
<1> QED BY <1>1

(* Every variable keeps its type, and every message its sender.               *)
THEOREM TypeCorrect == Spec => []TypeOK
BY TypeFirst, TypeKept, PTL DEF Spec

-----------------------------------------------------------------------------
(* The group's queue holds messages for a group, and while the main thread    *)
(* waits in join_all the order to die is in it, or has been obeyed.           *)
GroupQueueOK == groupQ \in Seq(GroupMessages)

JoinInv == GroupQueueOK /\ JoinIsSafe

(* An order to die that is still queued survives the other messages, and the  *)
(* playback thread turns to its end when it is obeyed.                        *)
LEMMA GroupStepObeys ==
    ASSUME GroupQueueOK, JoinIsSafe, GroupStep, UNCHANGED <<app, listed>>
    PROVE  GroupQueueOK' /\ JoinIsSafe'
<1> USE DEF GroupQueueOK, GroupStep
<1>1. ASSUME NEW m, Group!Receive(m), m # "ThreadDie",
             group' \in {"paused", "playing"}
      PROVE  GroupQueueOK' /\ JoinIsSafe'
  <2>1. groupQ # <<>> /\ Head(groupQ) = m /\ groupQ' = Tail(groupQ) /\ group \in {"paused", "playing"}
    BY <1>1 DEF Group!Receive
  <2>2. groupQ' \in Seq(GroupMessages)
    BY <2>1
  <2>3. ASSUME NEW i \in DOMAIN groupQ, groupQ[i] = "ThreadDie"
        PROVE  \E k \in DOMAIN groupQ' : groupQ'[k] = "ThreadDie"
    <3>1. i \in 1..Len(groupQ) /\ i # 1
      BY <1>1, <2>1, <2>3
    <3>2. i - 1 \in DOMAIN groupQ' /\ groupQ'[i - 1] = groupQ[i]
      BY <2>1, <3>1
    <3> QED
      BY <2>3, <3>2
  <2> QED
    BY <1>1, <2>1, <2>2, <2>3 DEF JoinIsSafe, Ended
<1>2. CASE Group!Toggle
  <2>1. Group!Receive("TogglePause") /\ group' \in {"paused", "playing"}
    BY <1>2 DEF Group!Toggle
  <2> QED
    BY <1>1, <2>1
<1>3. CASE Group!Set
  <2>1. \E m \in {"SetPause", "SetResume"} : Group!Receive(m)
    BY <1>3 DEF Group!Set
  <2>2. group' \in {"paused", "playing"}
    BY <1>3 DEF Group!Set
  <2> QED
    BY <1>1, <2>1, <2>2
<1>4. CASE Group!GoBack
  <2>1. Group!Receive("Restart") /\ group' \in {"paused", "playing"}
    BY <1>4 DEF Group!GoBack
  <2> QED
    BY <1>1, <2>1
<1>5. CASE Group!Report
  <2>1. \E m \in {"RequestChannels", "RequestGroups", "RequestBoth"} : Group!Receive(m)
    BY <1>5 DEF Group!Report
  <2>2. group' \in {"paused", "playing"}
    BY <1>5 DEF Group!Report, Group!Receive
  <2> QED
    BY <1>1, <2>1, <2>2
<1>6. CASE Group!Obey
  <2>1. group' = "ending" /\ groupQ' = Tail(groupQ) /\ groupQ # <<>>
    BY <1>6 DEF Group!Obey, Group!Receive
  <2>2. groupQ' \in Seq(GroupMessages)
    BY <2>1
  <2> QED
    BY <2>1, <2>2 DEF JoinIsSafe
<1>7. CASE Group!Open
  BY <1>7 DEF Group!Open, JoinIsSafe, Ended
<1>8. CASE Group!Send
  BY <1>8 DEF Group!Send, JoinIsSafe, Ended
<1>9. CASE Group!StopByItself
  BY <1>9 DEF Group!StopByItself, JoinIsSafe, Ended
<1>10. CASE Group!ReachEnd
  BY <1>10 DEF Group!ReachEnd, JoinIsSafe, Ended
<1>11. CASE Group!Farewell
  BY <1>11 DEF Group!Farewell, JoinIsSafe, Ended
<1>12. CASE Group!Fail
  BY <1>12 DEF Group!Fail, JoinIsSafe, Ended
<1> QED
  BY <1>2, <1>3, <1>4, <1>5, <1>6, <1>7, <1>8, <1>9, <1>10, <1>11, <1>12 DEF Group!Live, Group!Prompt

(* The main thread enters join_all only after it has told the group to die.   *)
LEMMA MainStepTells ==
    ASSUME GroupQueueOK, JoinIsSafe, MainThread
    PROVE  GroupQueueOK' /\ JoinIsSafe'
<1>1. CASE Forward
  <2>1. PICK m \in {"TogglePause", "Restart", "RequestBoth"} : Take({m}) /\ PassOn(m)
    BY <1>1 DEF Forward
  <2>2. groupQ' \in Seq(GroupMessages)
    BY <2>1 DEF PassOn, GroupQueueOK, GroupMessages
  <2> QED
    BY <1>1, <2>1, <2>2 DEF Forward, Take, GroupQueueOK, JoinIsSafe
<1>2. CASE HandleHeartBeat
  <2>1. groupQ' \in Seq(GroupMessages)
    BY <1>2 DEF HandleHeartBeat, PassOn, GroupQueueOK, GroupMessages
  <2> QED
    BY <1>2, <2>1 DEF HandleHeartBeat, Take, GroupQueueOK, JoinIsSafe
<1>3. CASE HandleThreadDie
  <2>1. groupQ' \in Seq(GroupMessages)
    BY <1>3 DEF HandleThreadDie, PassOn, GroupQueueOK, GroupMessages
  <2>2. ASSUME listed PROVE \E i \in DOMAIN groupQ' : groupQ'[i] = "ThreadDie"
    <3>1. groupQ' = Append(groupQ, "ThreadDie")
      BY <1>3, <2>2 DEF HandleThreadDie, PassOn
    <3>2. Len(groupQ) + 1 \in DOMAIN groupQ' /\ groupQ'[Len(groupQ) + 1] = "ThreadDie"
      BY <3>1 DEF GroupQueueOK
    <3> QED
      BY <3>2
  <2> QED
    BY <1>3, <2>1, <2>2 DEF HandleThreadDie, GroupQueueOK, JoinIsSafe
<1>4. CASE OtherMain
  BY <1>4 DEF OtherMain, AppStart, JoinAll, HandleThreadDead, Display, JoinInterface, Exit,
              AppRest, Take, GroupQueueOK, JoinIsSafe, Ended
<1> QED
  BY <1>1, <1>2, <1>3, <1>4 DEF MainThread, OtherMain

(* The other threads leave the group alone, and the main thread where it is   *)
(* unless they take the process down.                                         *)
LEMMA OthersKeepJoin ==
    ASSUME GroupQueueOK, JoinIsSafe, OtherThreads
    PROVE  GroupQueueOK' /\ JoinIsSafe'
<1>1. UNCHANGED <<listed, group, groupQ>> /\ app' \in {app, "crashed"}
  BY DEF OtherThreads, IfcThread, IfcInit, IfcHandleDie, IfcHandleLetter, IfcTeardown,
         IfcTerminates, IfcInitFails, IfcReadFails, KeyPress, HeartBeat, IfcRest, groupVars,
         PipeReader, PipeRead, PipeError, PipeOrphan, PipeRest
<1> QED
  BY <1>1 DEF GroupQueueOK, JoinIsSafe, Ended

(* The main thread never waits in join_all for a group that has not been told *)
(* to die, so Q cannot hang the program behind a group that plays or pauses.  *)
THEOREM JoinCorrect == Spec => []JoinIsSafe
<1>1. Init => JoinInv
  BY DEF Init, JoinInv, GroupQueueOK, JoinIsSafe, GroupMessages, Group!LifeInit
<1>2. JoinInv /\ [Next]_vars => JoinInv'
  <2> SUFFICES ASSUME JoinInv, [Next]_vars PROVE GroupQueueOK' /\ JoinIsSafe'
    BY DEF JoinInv
  <2>1. CASE MainThread
    BY <2>1, MainStepTells DEF JoinInv
  <2>2. CASE OtherThreads
    BY <2>2, OthersKeepJoin DEF JoinInv
  <2>3. CASE GroupThread
    <3>1. GroupStep /\ UNCHANGED <<app, listed>>
      BY <2>3 DEF GroupThread, GroupRuns, GroupStep
    <3> QED
      BY <3>1, GroupStepObeys DEF JoinInv
  <2>4. CASE UNCHANGED vars
    BY <2>4 DEF vars, groupVars, JoinInv, GroupQueueOK, JoinIsSafe, Ended
  <2> QED
    BY <2>1, <2>2, <2>3, <2>4 DEF Next, OtherThreads
<1>3. JoinInv => JoinIsSafe
  BY DEF JoinInv
<1> QED
  BY <1>1, <1>2, <1>3, PTL DEF Spec

-----------------------------------------------------------------------------
(* Inductive form of ConsoleRestoredAfterRun: only an interface that waits or *)
(* has just been told to end has changed the console, run() returns after it  *)
(* is over, and nothing else takes the process down before.                   *)
ConsoleInv ==
    /\ ifc \in {"init", "dead", "thrown"} => console = "old"
    /\ pipe # "none" => file = "pipe"
    /\ file # "char" => console = "old"
    /\ app \in {"returned", "exited"} /\ ~show => ifc = "dead"
    /\ app = "crashed" /\ ~show => console = "old"

(* Every way out of App::run but that of --show goes through the join of the  *)
(* interface, which has restored the console by then; and an error of the     *)
(* console that ends the process has been through Teardown.                   *)
THEOREM ConsoleCorrect == Spec => []ConsoleRestoredAfterRun
<1>1. Init => ConsoleInv
  BY DEF Init, ConsoleInv
<1>2. ConsoleInv /\ [Next]_vars => ConsoleInv'
  <2> SUFFICES ASSUME ConsoleInv, [Next]_vars PROVE ConsoleInv'
    OBVIOUS
  <2>1. CASE MainThread
    <3>1. UNCHANGED <<file, pipe, show, ifc, console>>
      BY <2>1 DEF MainThread, AppStart, Forward, HandleHeartBeat, HandleThreadDie, JoinAll,
                  HandleThreadDead, Display, JoinInterface, Exit, AppRest, ifcVars
    <3>2. app' \in {"returned", "exited"} /\ ~show =>
              ifc = "dead" \/ app \in {"returned", "exited"}
      BY <2>1 DEF MainThread, AppStart, Forward, HandleHeartBeat, HandleThreadDie, JoinAll,
                  HandleThreadDead, Display, JoinInterface, Exit, Take
    <3>3. app' = "crashed" => app = "returned"
      BY <2>1 DEF MainThread, AppStart, Forward, HandleHeartBeat, HandleThreadDie, JoinAll,
                  HandleThreadDead, Display, JoinInterface, Exit, Take
    <3> QED
      BY <3>1, <3>2, <3>3 DEF ConsoleInv
  <2>2. CASE IfcInit
    BY <2>2 DEF IfcInit, IfcRest, ConsoleInv, Running
  <2>3. CASE IfcHandleDie \/ IfcHandleLetter \/ KeyPress \/ HeartBeat \/ IfcReadFails
    <3>1. /\ UNCHANGED <<file, show, app, console, pipe>>
          /\ ifc = "wait" /\ ifc' \in {"wait", "teardown", "caught"}
      BY <2>3 DEF IfcHandleDie, IfcHandleLetter, KeyPress, HeartBeat, IfcReadFails, IfcRest, ifcVars
    <3> QED
      BY <3>1 DEF ConsoleInv
  <2>4. CASE IfcTeardown
    BY <2>4 DEF IfcTeardown, IfcRest, ConsoleInv, Running
  <2>5. CASE IfcTerminates \/ IfcInitFails
    BY <2>5 DEF IfcTerminates, IfcInitFails, ifcVars, ConsoleInv, Running
  <2>6. CASE PipeReader
    <3>1. UNCHANGED <<file, show, ifc, console>> /\ app' \in {app, "crashed"} /\ pipe = "reading"
      BY <2>6 DEF PipeReader, PipeRead, PipeError, PipeOrphan, PipeRest
    <3> QED
      BY <3>1 DEF ConsoleInv
  <2>7. CASE GroupThread
    BY <2>7 DEF GroupThread, GroupRuns, ifcVars, ConsoleInv
  <2>8. CASE UNCHANGED vars
    BY <2>8 DEF vars, ifcVars, ConsoleInv
  <2> QED
    BY <2>1, <2>2, <2>3, <2>4, <2>5, <2>6, <2>7, <2>8 DEF Next, IfcThread
<1>3. ConsoleInv => ConsoleRestoredAfterRun
  BY DEF ConsoleInv, ConsoleRestoredAfterRun, Running
<1> QED
  BY <1>1, <1>2, <1>3, PTL DEF Spec
-----------------------------------------------------------------------------
(* Inductive form of EndsAfterPlayback.  Over is what may end a run that      *)
(* replays; once it holds it holds.  Each thing that leads the main thread    *)
(* out of its loop is there only when it does: an order to die on the         *)
(* interface's queue, an interface on its way out, and a ThreadDead that is   *)
(* not the group's.                                                           *)
Over == Ended(group) \/ errors > 0 \/ file = "other"

EndInv ==
    /\ TypeOK
    /\ ~listed /\ app \notin {"start", "crashed"} => Over
    /\ \A i \in DOMAIN ifcQ : ifcQ[i] = <<"ThreadDie">> => Over
    /\ ifc \in {"teardown", "dead", "caught", "thrown"} => Over
    /\ \A i \in DOMAIN serverQ :
          serverQ[i].type = "ThreadDead" /\ serverQ[i].from # "Group" => Over
    /\ app \in {"leaving", "returned", "exited"} => Over \/ show

LEMMA OverStays == ASSUME TypeOK, Over, Next PROVE Over'
<1>1. errors \in Nat /\ errors' \in {errors, errors + 1}
  <2>1. errors \in Nat
    BY BoundsTyped DEF TypeOK
  <2> QED
    BY <2>1 DEF Next, MainThread, AppStart, Forward, HandleHeartBeat, HandleThreadDie, JoinAll,
       HandleThreadDead, Display, JoinInterface, Exit, AppRest, history, IfcThread, IfcInit,
       IfcHandleDie, IfcHandleLetter, IfcTeardown, IfcTerminates, KeyPress, HeartBeat,
       IfcInitFails, IfcReadFails, PipeReader, PipeRead, PipeError, PipeOrphan,
       GroupThread, GroupRuns
<1>2. file' = file
    BY DEF Next, MainThread, AppStart, Forward, HandleHeartBeat, HandleThreadDie, JoinAll,
       HandleThreadDead, Display, JoinInterface, Exit, AppRest, IfcThread, IfcInit,
       IfcHandleDie, IfcHandleLetter, IfcTeardown, IfcTerminates, IfcRest, KeyPress, HeartBeat,
       IfcInitFails, IfcReadFails, PipeReader, PipeRead, PipeError, PipeOrphan, PipeRest,
       GroupThread, GroupRuns
<1>3. Ended(group) => group' = group
  <2>1. CASE GroupThread
    BY <2>1 DEF GroupThread, Ended, Group!Live, Group!Prompt, Group!Toggle, Group!Set,
       Group!GoBack, Group!Report, Group!Obey, Group!Receive, Group!Open, Group!Send,
       Group!StopByItself, Group!ReachEnd, Group!Farewell, Group!Fail
  <2>2. CASE MainThread
    BY <2>2 DEF MainThread, AppStart, Forward, HandleHeartBeat, HandleThreadDie, JoinAll,
       HandleThreadDead, Display, JoinInterface, Exit, AppRest
  <2>3. CASE OtherThreads
    BY <2>3 DEF OtherThreads, IfcThread, IfcInit, IfcHandleDie, IfcHandleLetter, IfcTeardown,
       IfcTerminates, IfcRest, KeyPress, HeartBeat, IfcInitFails, IfcReadFails, PipeReader,
       PipeRead, PipeError, PipeOrphan, PipeRest, groupVars
  <2> QED BY <2>1, <2>2, <2>3 DEF Next, OtherThreads
<1> QED BY <1>1, <1>2, <1>3 DEF Over

(* A message that is pushed keeps EndInv's conjunct on the server queue, if a *)
(* ThreadDead is pushed by the group or when Over holds.                      *)
LEMMA PushKeepsEnd ==
    ASSUME TypeOK, EndInv, NEW who \in Senders, NEW types \in Seq(MessageTypes),
           ToServer(who, types), Over => Over',
           who = "Group" \/ Over' \/ \A k \in DOMAIN types : types[k] # "ThreadDead"
    PROVE  \A i \in DOMAIN serverQ' :
               serverQ'[i].type = "ThreadDead" /\ serverQ'[i].from # "Group" => Over'
<1> SUFFICES ASSUME NEW i \in DOMAIN serverQ', serverQ'[i].type = "ThreadDead",
                    serverQ'[i].from # "Group"
             PROVE  Over'
    OBVIOUS
<1>1. \/ i \in DOMAIN serverQ /\ serverQ'[i] = serverQ[i]
      \/ \E k \in DOMAIN types : serverQ'[i] = [type |-> types[k], from |-> who]
  <2>1. serverQ \in Seq(ServerMessages) /\ serverQ' = serverQ \o From(who, types)
    BY DEF ToServer, TypeOK
  <2>2. PushedOn(serverQ, serverQ', who, types)
    BY <2>1, Pushed
  <2> QED BY <2>2 DEF PushedOn
<1>2. CASE i \in DOMAIN serverQ /\ serverQ'[i] = serverQ[i]
    BY <1>2 DEF EndInv
<1>3. ASSUME NEW k \in DOMAIN types, serverQ'[i] = [type |-> types[k], from |-> who]
      PROVE  Over'
    BY <1>3
<1> QED BY <1>1, <1>2, <1>3

LEMMA MainKeepsEnd == ASSUME EndInv, MainThread PROVE EndInv'
<1>1. TypeOK /\ TypeOK' /\ (Over => Over')
    BY MainTyped, OverStays DEF EndInv, Next
<1>2. UNCHANGED <<show, ifc>>
    BY DEF MainThread, AppStart, Forward, HandleHeartBeat, HandleThreadDie, JoinAll,
       HandleThreadDead, Display, JoinInterface, Exit, AppRest, ifcVars
<1>3. \A i \in DOMAIN serverQ' :
          serverQ'[i].type = "ThreadDead" /\ serverQ'[i].from # "Group" => Over'
  <2>1. serverQ' = serverQ \/ (serverQ # <<>> /\ serverQ' = Tail(serverQ))
    BY DEF MainThread, AppStart, Forward, HandleHeartBeat, HandleThreadDie, JoinAll,
           HandleThreadDead, Display, JoinInterface, Exit, Take
  <2>2. serverQ \in Seq(ServerMessages)
    BY DEF EndInv, TypeOK
  <2>3. CASE serverQ # <<>> /\ serverQ' = Tail(serverQ)
    <3>1. \A i \in DOMAIN serverQ' : i + 1 \in DOMAIN serverQ /\ serverQ'[i] = serverQ[i + 1]
      BY <2>2, <2>3
    <3> QED BY <1>1, <3>1 DEF EndInv
  <2> QED BY <1>1, <2>1, <2>3 DEF EndInv
<1>4. CASE HandleThreadDead
  <2>1. /\ app = "run" /\ Head(serverQ).type = "ThreadDead" /\ serverQ # <<>>
        /\ serverQ \in Seq(ServerMessages)
    BY <1>4 DEF HandleThreadDead, Take, EndInv, TypeOK
  <2>2. 1 \in DOMAIN serverQ /\ Head(serverQ) = serverQ[1]
    BY <2>1
  <2>3. Over
    BY <1>4, <2>1, <2>2 DEF HandleThreadDead, EndInv, Over
  <2> QED BY <1>1, <1>3, <2>3 DEF EndInv
<1>5. CASE ~HandleThreadDead
  <2>1. ifcQ' = ifcQ
    BY <1>5 DEF MainThread, AppStart, Forward, HandleHeartBeat, HandleThreadDie, JoinAll,
       Display, JoinInterface, Exit
  <2>2. app' \notin {"start", "crashed"} /\ ~listed' => ~listed /\ app \notin {"start", "crashed"}
    BY <1>5 DEF MainThread, AppStart, Forward, HandleHeartBeat, HandleThreadDie, JoinAll,
       Display, JoinInterface, Exit, Take
  <2>3. app' \in {"leaving", "returned", "exited"} =>
            app \in {"leaving", "returned", "exited"} \/ show
    BY <1>5 DEF MainThread, AppStart, Forward, HandleHeartBeat, HandleThreadDie, JoinAll,
       Display, JoinInterface, Exit, Take
  <2> QED BY <1>1, <1>2, <1>3, <2>1, <2>2, <2>3 DEF EndInv
<1> QED BY <1>4, <1>5

LEMMA OthersKeepEnd == ASSUME EndInv, OtherThreads PROVE EndInv'
<1>1. TypeOK /\ TypeOK' /\ (Over => Over')
  <2>1. Next /\ TypeOK
    BY DEF EndInv, Next, OtherThreads
  <2>2. TypeOK'
    BY <2>1, InterfaceTyped, PipeTyped DEF OtherThreads
  <2> QED BY <2>1, <2>2, OverStays
<1>2. UNCHANGED <<show, listed>> /\ app' \in {app, "crashed"}
    BY DEF OtherThreads, IfcThread, IfcInit, IfcHandleDie, IfcHandleLetter, IfcTeardown,
       IfcTerminates, IfcRest, KeyPress, HeartBeat, IfcInitFails, IfcReadFails, PipeReader,
       PipeRead, PipeError, PipeOrphan, PipeRest
<1>3. IfcInitFails \/ IfcReadFails \/ PipeError => Over'
  <2>1. errors \in Nat
    BY <1>1, BoundsTyped DEF TypeOK
  <2>2. IfcInitFails \/ IfcReadFails \/ PipeError => errors' = errors + 1
    BY DEF IfcInitFails, IfcReadFails, PipeError
  <2> QED BY <2>1, <2>2 DEF Over
<1>4. \A i \in DOMAIN ifcQ' : ifcQ'[i] = <<"ThreadDie">> => Over'
  <2>1. ifcQ \in Seq(Items) /\ <<"ThreadDie">> \notin Seq(Commands[file])
    BY <1>1, BoundsTyped DEF TypeOK, Items
  <2>2. CASE IfcHandleDie \/ IfcHandleLetter
    <3>1. ifcQ # <<>>
        BY <2>2 DEF IfcHandleDie, IfcHandleLetter
    <3>2. \A i \in DOMAIN Tail(ifcQ) : i + 1 \in DOMAIN ifcQ /\ Tail(ifcQ)[i] = ifcQ[i + 1]
        BY <2>1, <3>1
    <3>3. CASE ifcQ' = Tail(ifcQ)
        BY <1>1, <3>2, <3>3 DEF EndInv
    <3>4. CASE IfcHandleLetter /\ ifcQ' # Tail(ifcQ)
      <4> DEFINE rest == Tail(Head(ifcQ))
      <4>1. Head(ifcQ) \in Items
        BY <2>1, <3>1
      <4>2. Head(ifcQ) \in Seq(Commands[file]) \ {<<>>}
        BY <3>4, <4>1 DEF IfcHandleLetter, Items
      <4>3. rest \in Seq(Commands[file])
        BY <4>2
      <4>4. ifcQ' = <<rest>> \o Tail(ifcQ)
        BY <3>4 DEF IfcHandleLetter
      <4> HIDE DEF rest
      <4>5. Tail(ifcQ) \in Seq(Items)
        BY <2>1, <3>1
      <4>6. \A i \in DOMAIN ifcQ' : ifcQ'[i] = rest \/ \E k \in DOMAIN ifcQ : ifcQ'[i] = ifcQ[k]
        <5>1. \A i \in DOMAIN ifcQ' : ifcQ'[i] = rest
                  \/ \E k \in DOMAIN Tail(ifcQ) : ifcQ'[i] = Tail(ifcQ)[k]
            BY <4>4, <4>5
        <5> QED BY <5>1, <3>2
      <4> QED BY <1>1, <2>1, <4>3, <4>6 DEF EndInv
    <3> QED BY <2>2, <3>3, <3>4 DEF IfcHandleDie
  <2>3. CASE PipeRead
    <3>1. PICK n \in 1..2 : \E letters \in [1..n -> Commands[file]] : ifcQ' = Append(ifcQ, letters)
        BY <2>3 DEF PipeRead
    <3>2. PICK letters \in [1..n -> Commands[file]] : ifcQ' = Append(ifcQ, letters)
        BY <3>1
    <3>3. letters \in Seq(Commands[file])
        BY <3>2
    <3>4. \A i \in DOMAIN ifcQ' : ifcQ'[i] = letters \/ (i \in DOMAIN ifcQ /\ ifcQ'[i] = ifcQ[i])
        BY <2>1, <3>2
    <3> QED BY <1>1, <2>1, <3>3, <3>4 DEF EndInv
  <2>4. CASE PipeError
    BY <1>3, <2>4
  <2>5. CASE ifcQ' = ifcQ
    BY <1>1, <2>5 DEF EndInv
  <2> QED
    BY <2>2, <2>3, <2>4, <2>5 DEF OtherThreads, IfcThread, IfcInit, IfcTeardown, IfcTerminates,
       KeyPress, HeartBeat, IfcInitFails, IfcReadFails, PipeReader, PipeOrphan
<1>5. ifc' \in {"teardown", "dead", "caught", "thrown"} => Over'
  <2>1. CASE IfcHandleDie
    <3>1. ifcQ \in Seq(Items) /\ ifcQ # <<>> /\ Head(ifcQ) = <<"ThreadDie">>
        BY <1>1, <2>1 DEF IfcHandleDie, TypeOK, Items
    <3>2. 1 \in DOMAIN ifcQ /\ Head(ifcQ) = ifcQ[1]
        BY <3>1
    <3> QED BY <1>1, <3>1, <3>2 DEF EndInv
  <2>2. CASE IfcInit
    BY <2>2, <1>1 DEF IfcInit, IfcRest, Over
  <2>3. CASE IfcReadFails
    BY <1>3, <2>3
  <2>4. CASE ifc' = ifc \/ IfcTeardown
    BY <1>1, <2>4 DEF IfcTeardown, EndInv
  <2> QED
    BY <2>1, <2>2, <2>3, <2>4 DEF OtherThreads, IfcThread, IfcHandleLetter, IfcTerminates,
       KeyPress, HeartBeat, IfcInitFails, ifcVars, PipeReader, PipeRead, PipeError, PipeOrphan,
       PipeRest
<1>6. \A i \in DOMAIN serverQ' :
          serverQ'[i].type = "ThreadDead" /\ serverQ'[i].from # "Group" => Over'
  <2>1. CASE UNCHANGED serverQ
    BY <1>1, <2>1 DEF EndInv
  <2>2. CASE IfcTeardown
    <3>1. ToServer("ifc", <<"ThreadDead">>) /\ Over'
        BY <1>1, <2>2 DEF IfcTeardown, EndInv
    <3>2. <<"ThreadDead">> \in Seq(MessageTypes) /\ "ifc" \in Senders
        BY DEF MessageTypes, Senders
    <3> QED BY <1>1, <3>1, <3>2, PushKeepsEnd
  <2>3. CASE PipeError
    <3>1. PICK t \in {"ThreadDead", "LogMessage"} : ToServer("pipe", <<t>>)
        BY <2>3 DEF PipeError
    <3>2. <<t>> \in Seq(MessageTypes) /\ "pipe" \in Senders
        BY DEF MessageTypes, Notices, Senders
    <3> QED BY <1>1, <1>3, <2>3, <3>1, <3>2, PushKeepsEnd
  <2>4. CASE \E t \in {"HeartBeat", "LogMessage"} : ToServer("ifc", <<t>>)
    <3>1. PICK t \in {"HeartBeat", "LogMessage"} : ToServer("ifc", <<t>>)
        BY <2>4
    <3>2. <<t>> \in Seq(MessageTypes) /\ "ifc" \in Senders
        BY DEF MessageTypes, Notices, Senders
    <3>3. \A k \in DOMAIN <<t>> : <<t>>[k] # "ThreadDead"
        OBVIOUS
    <3> QED BY <1>1, <3>1, <3>2, <3>3, PushKeepsEnd
  <2>5. CASE \E c : ToServer("user", MessageFor(c))
    <3>1. PICK c : ToServer("user", MessageFor(c))
        BY <2>5
    <3>2. MessageFor(c) \in Seq(MessageTypes) /\ "user" \in Senders
        BY LetterMessage DEF Senders
    <3>3. MessageFor(c) \in {<<"ThreadDie">>, <<"RequestBoth">>, <<"TogglePause">>,
                             <<"Restart">>, <<>>}
        BY DEF MessageFor
    <3>4. \A k \in DOMAIN MessageFor(c) : MessageFor(c)[k] # "ThreadDead"
      <4> DEFINE m == MessageFor(c)
      <4>1. m \in {<<"ThreadDie">>, <<"RequestBoth">>, <<"TogglePause">>, <<"Restart">>, <<>>}
        BY <3>3
      <4> HIDE DEF m
      <4>2. \A k \in DOMAIN m : m[k] # "ThreadDead"
        BY <4>1
      <4> QED BY <4>2 DEF m
    <3> QED BY <1>1, <3>1, <3>2, <3>4, PushKeepsEnd
  <2> QED
    BY <2>1, <2>2, <2>3, <2>4, <2>5 DEF OtherThreads, IfcThread, IfcInit, IfcHandleDie,
       IfcHandleLetter, IfcTerminates, KeyPress, HeartBeat, IfcInitFails, IfcReadFails,
       PipeReader, PipeRead, PipeOrphan
<1> QED BY <1>1, <1>2, <1>4, <1>5, <1>6 DEF EndInv

LEMMA GroupKeepsEnd == ASSUME EndInv, GroupThread PROVE EndInv'
<1>1. TypeOK /\ TypeOK' /\ (Over => Over')
    BY GroupTyped, OverStays DEF EndInv, Next
<1>2. UNCHANGED <<app, show, listed, ifc, ifcQ>>
    BY DEF GroupThread, GroupRuns, ifcVars
<1>3. \A i \in DOMAIN serverQ' :
          serverQ'[i].type = "ThreadDead" /\ serverQ'[i].from # "Group" => Over'
  <2>1. PICK types \in Seq(MessageTypes) : serverQ' = serverQ \o From("Group", types)
    BY <1>1, GroupPushes DEF TypeOK, GroupThread, GroupStep
  <2> QED BY <1>1, <2>1, PushKeepsEnd DEF ToServer, Senders
<1> QED BY <1>1, <1>2, <1>3 DEF EndInv

(* xcast never ends under a group that plays, whatever is typed and whenever  *)
(* the group fails or comes to its end: only --show, a stdin that cannot be   *)
(* read, or the end of playback takes the main thread out of its loop.        *)
THEOREM EndsCorrect == Spec => []EndsAfterPlayback
<1>1. Init => EndInv
  <2>1. ASSUME Init
        PROVE  TypeOK /\ app = "start" /\ ifcQ = <<>> /\ ifc = "init" /\ serverQ = <<>>
    BY <2>1, TypeFirst DEF Init, Group!LifeInit
  <2> QED BY <2>1 DEF EndInv
<1>2. EndInv /\ [Next]_vars => EndInv'
  <2>1. ASSUME EndInv, UNCHANGED vars PROVE EndInv'
    <3>1. TypeOK'
        BY <2>1, TypeKept DEF EndInv
    <3> QED
        BY <2>1, <3>1 DEF EndInv, vars, ifcVars, groupVars, history, Over, Ended
  <2> QED
    BY <2>1, MainKeepsEnd, OthersKeepEnd, GroupKeepsEnd DEF Next, OtherThreads
<1>3. EndInv => EndsAfterPlayback
  BY DEF EndInv, EndsAfterPlayback, Over
<1> QED
  BY <1>1, <1>2, <1>3, PTL DEF Spec

-----------------------------------------------------------------------------
(* FlattenSeq, as an equation for its partial results.                       *)
LEMMA LeastPlace ==
    ASSUME NEW S \in SUBSET Nat, S # {}
    PROVE  \E m \in S : \A k \in S : m <= k
<1>1. PICK m \in S : \A k \in S : <<k, m>> \notin OpToRel(<, Nat)
    BY NatLessThanWellFounded, WFMin
<1>2. \A k \in S : ~(k < m)
    BY <1>1 DEF OpToRel
<1> QED BY <1>2

IsFlat(f, ss, m) == f = [i \in 1..m |-> IF i = 1 THEN ss[i] ELSE f[i - 1] \o ss[i]]

LEMMA FlatExists ==
    ASSUME NEW ss, NEW l \in Nat
    PROVE  \E f : IsFlat(f, ss, l)
<1> DEFINE Bad == {k \in Nat : ~ \E f : IsFlat(f, ss, k)}
<1>1. SUFFICES ASSUME Bad # {} PROVE FALSE
    OBVIOUS
<1>2. PICK m \in Bad : \A k \in Bad : m <= k
    BY <1>1, LeastPlace
<1>3. IsFlat([i \in 1..0 |-> ss[i]], ss, 0)
    BY DEF IsFlat
<1>4. m # 0
    BY <1>3
<1>5. PICK f : IsFlat(f, ss, m - 1)
    BY <1>2, <1>4
<1> DEFINE next == IF m = 1 THEN ss[m] ELSE f[m - 1] \o ss[m]
<1> DEFINE g == [i \in 1..m |-> IF i = m THEN next ELSE f[i]]
           h == [i \in 1..m |-> IF i = 1 THEN ss[i] ELSE g[i - 1] \o ss[i]]
<1>6. ASSUME NEW i \in 1..m PROVE g[i] = h[i]
  <2>1. CASE i = m /\ m = 1
    BY <2>1
  <2>2. CASE i = m /\ m # 1
    <3>1. h[i] = g[m - 1] \o ss[m]
        BY <2>2
    <3>2. g[m - 1] = f[m - 1]
        BY <1>4, <2>2
    <3> QED BY <3>1, <3>2, <2>2
  <2>3. CASE i # m
    <3>1. i \in 1..(m - 1) /\ g[i] = f[i]
        BY <2>3
    <3>2. f[i] = IF i = 1 THEN ss[i] ELSE f[i - 1] \o ss[i]
        BY <3>1, <1>5 DEF IsFlat
    <3>3. i # 1 => g[i - 1] = f[i - 1]
        BY <3>1
    <3> QED BY <3>1, <3>2, <3>3
  <2> QED BY <2>1, <2>2, <2>3
<1>7. g = h
    BY <1>6
<1>8. IsFlat(g, ss, m)
    BY <1>7 DEF IsFlat
<1> QED BY <1>2, <1>8

LEMMA FlatMeaning ==
    ASSUME NEW ss, Len(ss) \in Nat, Len(ss) # 0
    PROVE  \E f : IsFlat(f, ss, Len(ss)) /\ FlattenSeq(ss) = f[Len(ss)]
<1> DEFINE f == CHOOSE f : IsFlat(f, ss, Len(ss))
<1>1. IsFlat(f, ss, Len(ss))
    BY FlatExists
<1>2. FlattenSeq(ss) = f[Len(ss)]
    BY DEF FlattenSeq, IsFlat
<1> QED BY <1>1, <1>2

LEMMA FlatStep ==
    ASSUME NEW f, NEW ss, NEW m \in Nat, IsFlat(f, ss, m), NEW i \in 1..m
    PROVE  f[i] = IF i = 1 THEN ss[i] ELSE f[i - 1] \o ss[i]
BY DEF IsFlat

(* The sequences p are those of q after the n-th, and x is what q comes to    *)
(* before.                                                                    *)
Follows(S, p, f, m, q, h, n, x) ==
    /\ \A i \in 1..m : p[i] \in Seq(S) /\ q[n + i] = p[i]
    /\ IsFlat(f, p, m)
    /\ IsFlat(h, q, n + m)
    /\ x \in Seq(S)
    /\ n = 0 => x = <<>>
    /\ n # 0 => h[n] = x

Continues(S, f, m, h, n, x) == \A i \in 1..m : f[i] \in Seq(S) /\ h[n + i] = x \o f[i]

(* The partial results only depend on the sequences before, and begin with    *)
(* whatever stands in front of them.                                          *)
LEMMA FlatAfter ==
    ASSUME NEW S, NEW p, NEW q, NEW n \in Nat, NEW m \in Nat, NEW x, NEW f, NEW h,
           Follows(S, p, f, m, q, h, n, x)
    PROVE  Continues(S, f, m, h, n, x)
<1> DEFINE Bad == {i \in 1..m : ~(f[i] \in Seq(S) /\ h[n + i] = x \o f[i])}
<1>1. SUFFICES ASSUME Bad # {} PROVE FALSE
    BY DEF Continues
<1>2. Bad \in SUBSET Nat
    OBVIOUS
<1>3. PICK k \in Bad : \A i \in Bad : k <= i
  <2> HIDE DEF Bad
  <2> QED BY <1>1, <1>2, LeastPlace
<1>4. /\ k \in 1..m /\ ~(f[k] \in Seq(S) /\ h[n + k] = x \o f[k])
      /\ \A i \in 1..m : ~(k <= i) => f[i] \in Seq(S) /\ h[n + i] = x \o f[i]
    BY <1>3
<1> HIDE DEF Bad
<1>5. p[k] \in Seq(S) /\ q[n + k] = p[k] /\ x \in Seq(S)
    BY <1>4 DEF Follows
<1>0. (n = 0 => x = <<>>) /\ (n # 0 => h[n] = x)
    BY DEF Follows
<1>6. h[n + k] = IF n + k = 1 THEN q[n + k] ELSE h[n + k - 1] \o q[n + k]
  <2>1. n + k \in 1..(n + m) /\ n + m \in Nat
    BY <1>4
  <2>2. IsFlat(h, q, n + m)
    BY DEF Follows
  <2> DEFINE j == n + k
             l == n + m
  <2> HIDE DEF j, l
  <2>3. j \in 1..l /\ l \in Nat /\ IsFlat(h, q, l)
    BY <2>1, <2>2 DEF j, l
  <2>4. h[j] = IF j = 1 THEN q[j] ELSE h[j - 1] \o q[j]
    BY <2>3, FlatStep
  <2>5. j = n + k
    BY DEF j
  <2>6. k \in Nat /\ j \in Nat
    BY <1>4, <2>5
  <2> QED BY <2>4, <2>5, <2>6
<1>9. f[k] = IF k = 1 THEN p[k] ELSE f[k - 1] \o p[k]
  <2>1. IsFlat(f, p, m)
    BY DEF Follows
  <2> QED BY <1>4, <2>1, FlatStep
<1>7. CASE k = 1
  <2>1. f[k] = p[k]
    BY <1>7, <1>9
  <2>2. CASE n = 0
    <3>1. h[n + k] = p[k]
        BY <1>5, <1>6, <1>7, <2>2
    <3>2. x \o p[k] = p[k]
        BY <1>0, <1>5, <2>2
    <3> QED BY <1>4, <1>5, <2>1, <3>1, <3>2
  <2>3. CASE n # 0
    <3>1. n + k # 1 /\ n + k - 1 = n
        BY <1>7, <2>3
    <3>2. h[n + k] = x \o p[k]
        BY <1>0, <1>5, <1>6, <2>3, <3>1
    <3> QED BY <1>4, <1>5, <2>1, <3>2
  <2> QED BY <2>2, <2>3
<1>8. CASE k # 1
  <2>1. k - 1 \in 1..m /\ ~(k <= k - 1) /\ n + k # 1 /\ n + k - 1 = n + (k - 1)
    BY <1>4, <1>8
  <2>2. f[k - 1] \in Seq(S) /\ h[n + (k - 1)] = x \o f[k - 1]
    BY <1>4, <2>1
  <2>3. f[k] = f[k - 1] \o p[k]
    BY <1>8, <1>9
  <2>4. f[k] \in Seq(S)
    BY <1>5, <2>2, <2>3
  <2>5. h[n + k] = (x \o f[k - 1]) \o p[k]
    BY <1>5, <1>6, <2>1, <2>2
  <2>6. (x \o f[k - 1]) \o p[k] = x \o (f[k - 1] \o p[k])
    <3> DEFINE u == f[k - 1]
               v == p[k]
    <3>1. u \in Seq(S) /\ v \in Seq(S) /\ x \in Seq(S)
      BY <1>5, <2>2
    <3> HIDE DEF u, v
    <3>2. (x \o u) \o v = x \o (u \o v)
      BY <3>1, ConcatAssociative
    <3> QED BY <3>2 DEF u, v
  <2>7. h[n + k] = x \o f[k]
    BY <2>3, <2>5, <2>6
  <2> QED BY <1>4, <2>4, <2>7
<1> QED BY <1>7, <1>8

LEMMA FlatType ==
    ASSUME NEW S, NEW a \in Seq(Seq(S))
    PROVE  FlattenSeq(a) \in Seq(S)
<1>1. CASE Len(a) = 0
  <2>1. FlattenSeq(a) = a /\ a = <<>>
    BY <1>1 DEF FlattenSeq
  <2> QED BY <2>1
<1>2. CASE Len(a) # 0
  <2>1. PICK f : IsFlat(f, a, Len(a)) /\ FlattenSeq(a) = f[Len(a)]
    BY <1>2, FlatMeaning
  <2>2. Follows(S, a, f, Len(a), a, f, 0, <<>>)
    <3>1. \A i \in 1..Len(a) : a[i] \in Seq(S) /\ a[0 + i] = a[i]
        OBVIOUS
    <3>2. 0 + Len(a) = Len(a) /\ <<>> \in Seq(S)
        OBVIOUS
    <3> QED BY <2>1, <3>1, <3>2 DEF Follows
  <2>3. 0 \in Nat /\ Len(a) \in Nat
    OBVIOUS
  <2>5. Continues(S, f, Len(a), f, 0, <<>>)
    BY <2>2, <2>3, FlatAfter
  <2>6. Len(a) \in 1..Len(a)
    BY <1>2, <2>3
  <2> QED BY <2>1, <2>5, <2>6 DEF Continues
<1> QED BY <1>1, <1>2

LEMMA FlatConcat ==
    ASSUME NEW S, NEW a \in Seq(Seq(S)), NEW b \in Seq(Seq(S))
    PROVE  FlattenSeq(a \o b) = FlattenSeq(a) \o FlattenSeq(b)
<1>0. FlattenSeq(a) \in Seq(S) /\ FlattenSeq(b) \in Seq(S)
    BY FlatType
<1>1. CASE Len(a) = 0
  <2>1. FlattenSeq(a) = <<>> /\ a \o b = b
    BY <1>1 DEF FlattenSeq
  <2> QED BY <1>0, <2>1
<1>2. CASE Len(b) = 0
  <2>1. FlattenSeq(b) = <<>> /\ a \o b = a
    BY <1>2 DEF FlattenSeq
  <2> QED BY <1>0, <2>1
<1>3. CASE Len(a) # 0 /\ Len(b) # 0
  <2> DEFINE q == a \o b
             n == Len(a)
             m == Len(b)
  <2>1. /\ n \in Nat \ {0} /\ m \in Nat \ {0} /\ Len(q) = n + m
        /\ \A i \in 1..n : a[i] \in Seq(S) /\ q[0 + i] = a[i]
        /\ \A i \in 1..m : b[i] \in Seq(S) /\ q[n + i] = b[i]
    BY <1>3
  <2> HIDE DEF q, n, m
  <2>2. PICK f : IsFlat(f, a, n) /\ FlattenSeq(a) = f[n]
    BY <2>1, FlatMeaning DEF n
  <2>3. PICK g : IsFlat(g, b, m) /\ FlattenSeq(b) = g[m]
    BY <2>1, FlatMeaning DEF m
  <2>4. PICK h : IsFlat(h, q, n + m) /\ FlattenSeq(q) = h[n + m]
    BY <2>1, FlatMeaning, n + m # 0, n + m \in Nat
  <2> DEFINE hn == [i \in 1..n |-> h[i]]
  <2>5. IsFlat(hn, q, 0 + n)
    <3>1. ASSUME NEW i \in 1..n PROVE hn[i] = IF i = 1 THEN q[i] ELSE hn[i - 1] \o q[i]
      <4>1. i \in 1..(n + m) /\ (i # 1 => i - 1 \in 1..n)
        BY <2>1
      <4>2. h[i] = IF i = 1 THEN q[i] ELSE h[i - 1] \o q[i]
        BY <2>4, <4>1 DEF IsFlat
      <4> QED BY <4>1, <4>2
    <3>2. DOMAIN hn = 1..(0 + n)
        BY <2>1
    <3> QED BY <2>1, <3>1, <3>2 DEF IsFlat
  <2> HIDE DEF hn
  <2>6. Continues(S, f, n, hn, 0, <<>>)
    <3>1. <<>> \in Seq(S) /\ 0 \in Nat /\ n \in Nat
        BY <2>1
    <3>2. Follows(S, a, f, n, q, hn, 0, <<>>)
        BY <2>1, <2>2, <2>5, <3>1 DEF Follows
    <3> QED BY <3>1, <3>2, FlatAfter
  <2>7. h[n] = f[n] /\ f[n] \in Seq(S)
    <3>1. f[n] \in Seq(S) /\ hn[n] = <<>> \o f[n]
        BY <2>1, <2>6 DEF Continues
    <3>2. <<>> \o f[n] = f[n]
        BY ONLY <3>1
    <3>3. hn[n] = h[n]
        BY <2>1 DEF hn
    <3> QED BY ONLY <3>1, <3>2, <3>3
  <2>8. Continues(S, g, m, h, n, f[n])
    <3>1. Follows(S, b, g, m, q, h, n, f[n])
        BY <2>1, <2>3, <2>4, <2>7 DEF Follows
    <3> QED BY <2>1, <3>1, FlatAfter
  <2>9. h[n + m] = f[n] \o g[m]
    <3>1. m \in 1..m
        BY <2>1
    <3> QED BY <2>8, <3>1 DEF Continues
  <2> QED BY <2>2, <2>3, <2>4, <2>9 DEF q
<1> QED BY <1>1, <1>2, <1>3

LEMMA FlatOne ==
    ASSUME NEW x
    PROVE  FlattenSeq(<<x>>) = x
<1> DEFINE s == <<x>>
<1>1. Len(s) = 1 /\ 1 \in Nat /\ 1 # 0 /\ s[1] = x
    OBVIOUS
<1> HIDE DEF s
<1>2. PICK f : IsFlat(f, s, 1) /\ FlattenSeq(s) = f[1]
    BY <1>1, FlatMeaning
<1>3. f[1] = s[1]
    BY <1>2, FlatStep
<1> QED BY <1>1, <1>2, <1>3 DEF s

(* Nothing but empty sequences gives the empty one. *)
LEMMA FlatNothing ==
    ASSUME NEW a \in Seq({<<>>})
    PROVE  FlattenSeq(a) = <<>>
<1>1. a \in Seq(Seq({}))
  <2> DEFINE T == Seq({})
  <2>1. <<>> \in T
    OBVIOUS
  <2> HIDE DEF T
  <2>2. a \in Seq(T)
    BY <2>1
  <2> QED BY <2>2 DEF T
<1>2. FlattenSeq(a) \in Seq({})
    BY <1>1, FlatType
<1> QED BY <1>2

-----------------------------------------------------------------------------
(* What is made of a sequence, one sequence for each element, and of two in a  *)
(* row.                                                                       *)
Made(S, x, a) == a = [i \in DOMAIN x |-> a[i]] /\ \A i \in DOMAIN x : a[i] \in Seq(S)

Joined(x, y, a, b, c) ==
    /\ c = [i \in DOMAIN (x \o y) |-> c[i]]
    /\ \A i \in DOMAIN x : c[i] = a[i]
    /\ \A i \in DOMAIN y : c[Len(x) + i] = b[i]

LEMMA FlatMade ==
    ASSUME NEW S, NEW T, NEW x \in Seq(T), NEW y \in Seq(T), NEW a, NEW b, NEW c,
           Made(S, x, a), Made(S, y, b), Joined(x, y, a, b, c)
    PROVE  FlattenSeq(c) = FlattenSeq(a) \o FlattenSeq(b) /\ FlattenSeq(a) \in Seq(S)
<1> DEFINE U == Seq(S)
<1>1. a \in Seq(U) /\ Len(a) = Len(x)
  <2>1. a = [i \in 1..Len(x) |-> a[i]] /\ \A i \in 1..Len(x) : a[i] \in U
    BY DEF Made
  <2> HIDE DEF U
  <2> QED BY <2>1
<1>2. b \in Seq(U) /\ Len(b) = Len(y)
  <2>1. b = [i \in 1..Len(y) |-> b[i]] /\ \A i \in 1..Len(y) : b[i] \in U
    BY DEF Made
  <2> HIDE DEF U
  <2> QED BY <2>1
<1>3. c = a \o b
  <2>1. c = [i \in 1..(Len(x) + Len(y)) |-> c[i]]
    BY DEF Joined
  <2>2. ASSUME NEW i \in 1..(Len(x) + Len(y))
        PROVE  c[i] = IF i <= Len(x) THEN a[i] ELSE b[i - Len(x)]
    <3>1. CASE i <= Len(x)
      <4>1. i \in DOMAIN x
        BY <3>1
      <4> QED BY <3>1, <4>1 DEF Joined
    <3>2. CASE ~(i <= Len(x))
      <4>1. i - Len(x) \in DOMAIN y /\ Len(x) + (i - Len(x)) = i
        BY <3>2
      <4>2. c[Len(x) + (i - Len(x))] = b[i - Len(x)]
        BY <4>1 DEF Joined
      <4> QED BY <3>2, <4>1, <4>2
    <3> QED BY <3>1, <3>2
  <2>3. c = [i \in 1..(Len(x) + Len(y)) |-> IF i <= Len(x) THEN a[i] ELSE b[i - Len(x)]]
    BY <2>1, <2>2
  <2>4. c = [i \in 1..(Len(a) + Len(b)) |-> IF i <= Len(a) THEN a[i] ELSE b[i - Len(a)]]
    BY <1>1, <1>2, <2>3
  <2> HIDE DEF U
  <2>5. a \o b = [i \in 1..(Len(a) + Len(b)) |-> IF i <= Len(a) THEN a[i] ELSE b[i - Len(a)]]
    <3>1. a \o b \in Seq(U) /\ Len(a \o b) = Len(a) + Len(b)
        BY <1>1, <1>2
    <3>2. \A d \in Seq(U) : d = [i \in 1..Len(d) |-> d[i]]
        OBVIOUS
    <3>3. \A i \in 1..(Len(a) + Len(b)) :
              (a \o b)[i] = IF i <= Len(a) THEN a[i] ELSE b[i - Len(a)]
        BY <1>1, <1>2
    <3> QED BY <3>1, <3>2, <3>3
  <2> QED BY <2>4, <2>5
<1>4. FlattenSeq(a \o b) = FlattenSeq(a) \o FlattenSeq(b) /\ FlattenSeq(a) \in Seq(S)
    BY <1>1, <1>2, FlatConcat, FlatType
<1> QED BY <1>3, <1>4

(* Two sequences in a row: what stands at which place. *)
LEMMA RowPlaces ==
    ASSUME NEW T, NEW x \in Seq(T), NEW y \in Seq(T)
    PROVE  /\ \A i \in DOMAIN x : i \in DOMAIN (x \o y) /\ (x \o y)[i] = x[i]
           /\ \A i \in DOMAIN y : Len(x) + i \in DOMAIN (x \o y) /\ (x \o y)[Len(x) + i] = y[i]
OBVIOUS

LEMMA SpelledLetters ==
    ASSUME NEW L, NEW x \in Seq(L), NEW y \in Seq(L)
    PROVE  MessagesFor(x \o y) = MessagesFor(x) \o MessagesFor(y) /\ MessagesFor(x) \in Seq(MessageTypes)
<1> DEFINE a == [i \in DOMAIN x |-> MessageFor(x[i])]
           b == [i \in DOMAIN y |-> MessageFor(y[i])]
           c == [i \in DOMAIN (x \o y) |-> MessageFor((x \o y)[i])]
<1>1. Made(MessageTypes, x, a) /\ Made(MessageTypes, y, b)
    BY LetterMessage DEF Made
<1>2. Joined(x, y, a, b, c)
    BY RowPlaces DEF Joined
<1> HIDE DEF a, b, c
<1>3. FlattenSeq(c) = FlattenSeq(a) \o FlattenSeq(b) /\ FlattenSeq(a) \in Seq(MessageTypes)
    BY <1>1, <1>2, FlatMade
<1> QED BY <1>3 DEF a, b, c, MessagesFor

LEMMA SpelledNothing == MessagesFor(<<>>) = <<>>
BY DEF MessagesFor, FlattenSeq

LEMMA SpelledLetter == ASSUME NEW u PROVE MessagesFor(<<u>>) = MessageFor(u)
<1>1. [i \in DOMAIN <<u>> |-> MessageFor(<<u>>[i])] = <<MessageFor(u)>>
    OBVIOUS
<1> QED BY <1>1, FlatOne DEF MessagesFor

LEMMA GivenBoth ==
    ASSUME NEW x \in Seq(ServerMessages), NEW y \in Seq(ServerMessages)
    PROVE  Given(x \o y) = Given(x) \o Given(y) /\ Given(x) \in Seq(MessageTypes)
<1> DEFINE a == [i \in DOMAIN x |-> CommandOf(x[i])]
           b == [i \in DOMAIN y |-> CommandOf(y[i])]
           c == [i \in DOMAIN (x \o y) |-> CommandOf((x \o y)[i])]
<1>1. Made(MessageTypes, x, a) /\ Made(MessageTypes, y, b)
  <2>1. \A m \in ServerMessages : CommandOf(m) \in Seq(MessageTypes)
    BY DEF CommandOf, ServerMessages
  <2>2. /\ \A i \in DOMAIN x : x[i] \in ServerMessages
        /\ \A i \in DOMAIN y : y[i] \in ServerMessages
    OBVIOUS
  <2> QED BY <2>1, <2>2 DEF Made
<1>2. Joined(x, y, a, b, c)
    BY RowPlaces DEF Joined
<1> HIDE DEF a, b, c
<1>3. FlattenSeq(c) = FlattenSeq(a) \o FlattenSeq(b) /\ FlattenSeq(a) \in Seq(MessageTypes)
    BY <1>1, <1>2, FlatMade
<1> QED BY <1>3 DEF a, b, c, Given

(* The first message of a queue and the rest. *)
LEMMA GivenHead ==
    ASSUME NEW x \in Seq(ServerMessages), x # <<>>
    PROVE  /\ Given(x) = CommandOf(Head(x)) \o Given(Tail(x))
           /\ Tail(x) \in Seq(ServerMessages) /\ Given(Tail(x)) \in Seq(MessageTypes)
<1> DEFINE h == <<Head(x)>>
<1>1. h \in Seq(ServerMessages) /\ Tail(x) \in Seq(ServerMessages) /\ x = h \o Tail(x)
    OBVIOUS
<1>2. Given(h) = CommandOf(Head(x))
  <2>1. [i \in DOMAIN h |-> CommandOf(h[i])] = <<CommandOf(Head(x))>>
    OBVIOUS
  <2> QED BY <2>1, FlatOne DEF Given
<1> HIDE DEF h
<1>3. Given(h \o Tail(x)) = Given(h) \o Given(Tail(x))
    BY <1>1, GivenBoth
<1> QED BY <1>1, <1>2, <1>3, GivenBoth

(* What is pushed by the user, and by anybody else.                           *)
LEMMA GivenPushed ==
    ASSUME NEW x \in Seq(ServerMessages), NEW who \in Senders, NEW types \in Seq(MessageTypes),
           who # "user" \/ Len(types) <= 1
    PROVE  Given(x \o From(who, types)) = IF who = "user" THEN Given(x) \o types ELSE Given(x)
<1> DEFINE y == From(who, types)
<1>1. y \in Seq(ServerMessages) /\ DOMAIN y = DOMAIN types /\ DOMAIN y = 1..Len(types)
  <2>1. \A i \in 1..Len(types) : [type |-> types[i], from |-> who] \in ServerMessages
    <3>1. \A i \in 1..Len(types) : types[i] \in MessageTypes
        OBVIOUS
    <3> QED BY <3>1 DEF ServerMessages
  <2>2. y = [i \in 1..Len(types) |-> [type |-> types[i], from |-> who]]
    BY DEF From
  <2> QED BY <2>1, <2>2
<1>2. Given(x \o y) = Given(x) \o Given(y) /\ Given(x) \in Seq(MessageTypes)
    BY <1>1, GivenBoth
<1>3. CASE who # "user"
  <2> DEFINE a == [i \in DOMAIN y |-> CommandOf(y[i])]
  <2>1. a = [i \in 1..Len(types) |-> <<>>]
    BY <1>1, <1>3 DEF CommandOf, From
  <2>2. a \in Seq({<<>>})
    BY <2>1
  <2> HIDE DEF a
  <2>3. FlattenSeq(a) = <<>>
    BY <2>2, FlatNothing
  <2>4. Given(y) = <<>>
    BY <2>3 DEF a, Given
  <2> QED BY <1>2, <1>3, <2>4
<1>4. CASE who = "user" /\ Len(types) = 0
  <2>1. types = <<>> /\ [i \in DOMAIN y |-> CommandOf(y[i])] = <<>>
    BY <1>1, <1>4
  <2>2. Given(y) = <<>>
    BY <2>1 DEF Given, FlattenSeq
  <2> QED BY <1>2, <1>4, <2>1, <2>2
<1>5. CASE who = "user" /\ Len(types) = 1
  <2>1. types = <<types[1]>>
    BY <1>5
  <2>2. [i \in DOMAIN y |-> CommandOf(y[i])] = <<types>>
    <3>1. DOMAIN y = 1..1 /\ y[1] = [type |-> types[1], from |-> "user"]
        BY <1>1, <1>5 DEF From
    <3>2. CommandOf(y[1]) = types
        BY <2>1, <3>1 DEF CommandOf
    <3> HIDE DEF y
    <3> QED BY <3>1, <3>2
  <2>3. Given(y) = types
    BY <2>2, FlatOne DEF Given
  <2> QED BY <1>2, <1>5, <2>3
<1>6. who = "user" => Len(types) = 0 \/ Len(types) = 1
  <2>1. Len(types) \in Nat /\ (who = "user" => Len(types) <= 1)
    OBVIOUS
  <2> QED BY <2>1
<1> HIDE DEF y
<1> QED BY <1>3, <1>4, <1>5, <1>6

(* The interface's queue.                                                     *)
LettersOrDie(L) == {<<"ThreadDie">>} \cup (Seq(L) \ {<<>>})

LEMMA SpelledBoth ==
    ASSUME NEW L, NEW x \in Seq(LettersOrDie(L)), NEW y \in Seq(LettersOrDie(L))
    PROVE  Spelled(x \o y) = Spelled(x) \o Spelled(y) /\ Spelled(x) \in Seq(MessageTypes)
<1> DEFINE a == [i \in DOMAIN x |-> CommandsOf(x[i])]
           b == [i \in DOMAIN y |-> CommandsOf(y[i])]
           c == [i \in DOMAIN (x \o y) |-> CommandsOf((x \o y)[i])]
<1>1. Made(MessageTypes, x, a) /\ Made(MessageTypes, y, b)
  <2>1. \A m \in LettersOrDie(L) : CommandsOf(m) \in Seq(MessageTypes)
    <3>1. ASSUME NEW m \in LettersOrDie(L), m # <<"ThreadDie">>
          PROVE  MessagesFor(m) \in Seq(MessageTypes)
      <4>1. m \in Seq(L)
        BY <3>1 DEF LettersOrDie
      <4> QED BY <4>1, SpelledLetters
    <3>2. <<>> \in Seq(MessageTypes)
        OBVIOUS
    <3> QED BY <3>1, <3>2 DEF CommandsOf
  <2>2. /\ \A i \in DOMAIN x : x[i] \in LettersOrDie(L)
        /\ \A i \in DOMAIN y : y[i] \in LettersOrDie(L)
    OBVIOUS
  <2> QED BY <2>1, <2>2 DEF Made
<1>2. Joined(x, y, a, b, c)
    BY RowPlaces DEF Joined
<1> HIDE DEF a, b, c
<1>3. FlattenSeq(c) = FlattenSeq(a) \o FlattenSeq(b) /\ FlattenSeq(a) \in Seq(MessageTypes)
    BY <1>1, <1>2, FlatMade
<1> QED BY <1>3 DEF a, b, c, Spelled

LEMMA SpelledOne == ASSUME NEW item PROVE Spelled(<<item>>) = CommandsOf(item)
<1>1. [i \in DOMAIN <<item>> |-> CommandsOf(<<item>>[i])] = <<CommandsOf(item)>>
    OBVIOUS
<1> QED BY <1>1, FlatOne DEF Spelled

LEMMA SpelledHead ==
    ASSUME NEW L, NEW x \in Seq(LettersOrDie(L)), x # <<>>
    PROVE  /\ Spelled(x) = CommandsOf(Head(x)) \o Spelled(Tail(x))
           /\ Tail(x) \in Seq(LettersOrDie(L)) /\ Head(x) \in LettersOrDie(L)
           /\ Spelled(Tail(x)) \in Seq(MessageTypes)
<1> DEFINE h == <<Head(x)>>
           I == LettersOrDie(L)
<1>1. h \in Seq(I) /\ Tail(x) \in Seq(I) /\ x = h \o Tail(x) /\ Head(x) \in I
  <2>1. x \in Seq(I)
    OBVIOUS
  <2> HIDE DEF I
  <2> QED BY <2>1
<1>2. Spelled(h) = CommandsOf(Head(x))
    BY SpelledOne
<1> HIDE DEF h
<1>3. Spelled(h \o Tail(x)) = Spelled(h) \o Spelled(Tail(x))
    BY <1>1, SpelledBoth
<1> QED BY <1>1, <1>2, <1>3, SpelledBoth

(* An order to die says nothing in the user's name. *)
LEMMA OrderSpellsNothing ==
    ASSUME NEW L, NEW x \in Seq(LettersOrDie(L))
    PROVE  Spelled(x \o <<<<"ThreadDie">>>>) = Spelled(x)
<1> DEFINE order == <<<<"ThreadDie">>>>
<1>1. order \in Seq(LettersOrDie(L))
    BY DEF LettersOrDie
<1>2. Spelled(order) = <<>>
    BY SpelledOne DEF CommandsOf
<1> HIDE DEF order
<1>3. Spelled(x \o order) = Spelled(x) \o <<>> /\ Spelled(x) \in Seq(MessageTypes)
    BY <1>1, <1>2, SpelledBoth
<1> QED BY <1>3 DEF order

-----------------------------------------------------------------------------
(* Ways to write a row of sequences.                                          *)
LEMMA AppendRow == ASSUME NEW S, NEW x \in Seq(S), NEW u \in S PROVE Append(x, u) = x \o <<u>>
OBVIOUS

LEMMA HeadRow ==
    ASSUME NEW S, NEW x \in Seq(S), x # <<>>
    PROVE  x = <<x[1]>> \o Tail(x) /\ <<x[1]>> \in Seq(S) /\ Tail(x) \in Seq(S)
OBVIOUS

(* Three sequences in a row, and how they may be grouped.                      *)
ThreeRows(S, x, y, z) == x \in Seq(S) /\ y \in Seq(S) /\ z \in Seq(S)

LEMMA Regroup ==
    ASSUME NEW S, NEW x, NEW y, NEW z, ThreeRows(S, x, y, z)
    PROVE  (x \o y) \o z = x \o (y \o z)
BY ConcatAssociative DEF ThreeRows

-----------------------------------------------------------------------------
(* Inductive form of CommandsInOrder.  What the queues hold in the user's     *)
(* name is a command, and only a pipe puts letters on the interface's queue.  *)
UserTypes == {"ThreadDie", "RequestBoth", "TogglePause", "Restart"}

CommandInv ==
    /\ TypeOK
    /\ delivered \in Seq(MessageTypes)
    /\ \A i \in DOMAIN serverQ : serverQ[i].from = "user" => serverQ[i].type \in UserTypes
    /\ pipe # "none" => file = "pipe"
    /\ file # "pipe" => Spelled(ifcQ) = <<>>
    /\ app = "start" => ~listed
    /\ CommandsInOrder

(* The three parts of a command's way have their types. *)
LEMMA WayTyped ==
    ASSUME CommandInv
    PROVE  /\ Given(serverQ) \in Seq(MessageTypes) /\ serverQ \in Seq(ServerMessages)
           /\ Spelled(ifcQ) \in Seq(MessageTypes) /\ ifcQ \in Seq(LettersOrDie(Commands[file]))
           /\ MessagesFor(typed) \in Seq(MessageTypes) /\ typed \in Seq(Commands[file])
           /\ delivered \in Seq(MessageTypes)
<1>1. /\ serverQ \in Seq(ServerMessages) /\ ifcQ \in Seq(LettersOrDie(Commands[file]))
      /\ typed \in Seq(Commands[file]) /\ delivered \in Seq(MessageTypes)
    BY DEF CommandInv, TypeOK, LettersOrDie
<1> QED BY <1>1, GivenBoth, SpelledBoth, SpelledLetters

(* What a thread pushes, and what the user's commands on the queue are then. *)
LEMMA PushKeepsUser ==
    ASSUME CommandInv, NEW who \in Senders, NEW types \in Seq(MessageTypes), ToServer(who, types),
           who # "user" \/ \A k \in DOMAIN types : types[k] \in UserTypes
    PROVE  \A i \in DOMAIN serverQ' : serverQ'[i].from = "user" => serverQ'[i].type \in UserTypes
<1> SUFFICES ASSUME NEW i \in DOMAIN serverQ', serverQ'[i].from = "user"
             PROVE  serverQ'[i].type \in UserTypes
    OBVIOUS
<1>1. PushedOn(serverQ, serverQ', who, types)
    BY WayTyped, Pushed DEF ToServer
<1>2. CASE i \in DOMAIN serverQ /\ serverQ'[i] = serverQ[i]
    BY <1>2 DEF CommandInv
<1>3. ASSUME NEW k \in DOMAIN types, serverQ'[i] = [type |-> types[k], from |-> who]
      PROVE  serverQ'[i].type \in UserTypes
    BY <1>3
<1> QED BY <1>1, <1>2, <1>3 DEF PushedOn

LEMMA LetterCommand ==
    ASSUME NEW c
    PROVE  /\ MessageFor(c) \in Seq(MessageTypes) /\ Len(MessageFor(c)) <= 1
           /\ \A k \in DOMAIN MessageFor(c) : MessageFor(c)[k] \in UserTypes
<1> DEFINE m == MessageFor(c)
<1>1. m = <<>> \/ \E u \in UserTypes : m = <<u>>
    BY DEF MessageFor, UserTypes
<1> HIDE DEF m
<1>2. CASE m = <<>>
    BY <1>2, LetterMessage DEF m
<1>3. ASSUME NEW u \in UserTypes, m = <<u>>
      PROVE  Len(m) <= 1 /\ \A k \in DOMAIN m : m[k] \in UserTypes
    BY <1>3
<1> QED BY <1>1, <1>2, <1>3, LetterMessage DEF m

(* Steps that leave the commands on their way alone. *)
LEMMA WayUntouched ==
    ASSUME CommandInv, TypeOK', UNCHANGED <<file, listed, delivered, typed>>,
           pipe' # "none" => pipe # "none" \/ file = "pipe", app' = "start" => app = "start",
           Given(serverQ') = Given(serverQ), Spelled(ifcQ') = Spelled(ifcQ),
           \A i \in DOMAIN serverQ' : serverQ'[i].from = "user" => serverQ'[i].type \in UserTypes
    PROVE  CommandInv'
BY DEF CommandInv, CommandsInOrder

LEMMA GroupKeepsCommands == ASSUME CommandInv, GroupThread PROVE CommandInv'
<1>1. TypeOK /\ TypeOK' /\ UNCHANGED <<file, app, listed, ifcQ, pipe, delivered, typed>> /\ GroupStep
    BY GroupTyped DEF CommandInv, GroupThread, GroupRuns, ifcVars, history, GroupStep
<1>2. PICK types \in Seq(MessageTypes) : serverQ' = serverQ \o From("Group", types)
    BY <1>1, GroupPushes DEF TypeOK
<1>3. Given(serverQ') = Given(serverQ)
    BY <1>2, WayTyped, GivenPushed DEF Senders
<1>4. \A i \in DOMAIN serverQ' : serverQ'[i].from = "user" => serverQ'[i].type \in UserTypes
    BY <1>2, PushKeepsUser DEF ToServer, Senders
<1> QED BY <1>1, <1>3, <1>4, WayUntouched

(* The App takes a message off its queue: a command, which it passes on, or   *)
(* something else.                                                            *)
LEMMA TakeCommand ==
    ASSUME CommandInv, serverQ # <<>>, serverQ' = Tail(serverQ)
    PROVE  /\ Given(serverQ) = CommandOf(Head(serverQ)) \o Given(serverQ')
           /\ Given(serverQ') \in Seq(MessageTypes)
           /\ \A i \in DOMAIN serverQ' : serverQ'[i].from = "user" => serverQ'[i].type \in UserTypes
           /\ Head(serverQ).from = "user" => Head(serverQ).type \in UserTypes
<1>1. serverQ \in Seq(ServerMessages)
    BY WayTyped
<1>2. \A i \in DOMAIN serverQ' : i + 1 \in DOMAIN serverQ /\ serverQ'[i] = serverQ[i + 1]
    BY <1>1
<1>3. 1 \in DOMAIN serverQ /\ Head(serverQ) = serverQ[1]
    BY <1>1
<1> QED BY <1>1, <1>2, <1>3, GivenHead DEF CommandInv

LEMMA MainKeepsCommands == ASSUME CommandInv, MainThread PROVE CommandInv'
<1>1. TypeOK' /\ UNCHANGED <<file, pipe, typed>>
    BY MainTyped DEF CommandInv, MainThread, AppStart, Forward, HandleHeartBeat, HandleThreadDie,
           JoinAll, HandleThreadDead, Display, JoinInterface, Exit, AppRest, ifcVars, history
<1>2. CASE AppStart
  <2>1. /\ UNCHANGED <<serverQ, ifcQ, delivered>> /\ app = "start" /\ app' # "start"
    BY <1>2 DEF AppStart
  <2> QED BY <1>1, <2>1 DEF CommandInv, CommandsInOrder
<1>3. CASE JoinAll \/ JoinInterface \/ Exit
  <2>1. UNCHANGED <<serverQ, ifcQ, delivered, listed>> /\ app' # "start"
    BY <1>3 DEF JoinAll, JoinInterface, Exit
  <2> QED BY <1>1, <2>1 DEF CommandInv, CommandsInOrder
<1>4. CASE \E types : Take(types)
  <2>1. /\ app = "run" /\ serverQ # <<>> /\ serverQ' = Tail(serverQ)
    BY <1>4 DEF Take
  <2>2. app' # "start"
    BY <1>4, <2>1 DEF MainThread, AppStart, Forward, HandleHeartBeat, HandleThreadDie, JoinAll,
           HandleThreadDead, Display, JoinInterface, Exit
  <2>3. CASE Forward \/ HandleThreadDie \/ HandleHeartBeat
    <3>1. PICK m \in UserTypes \cup {ShowType} :
              /\ PassOn(m)
              /\ Head(serverQ).type = m \/ Head(serverQ).type = "HeartBeat"
      BY <2>3 DEF Forward, HandleThreadDie, HandleHeartBeat, UserTypes, Take
    <3>2. UNCHANGED <<ifcQ, listed>>
      BY <2>3 DEF Forward, HandleThreadDie, HandleHeartBeat
    <3>3. CASE Head(serverQ).from = "user" /\ listed
      <4>1. Head(serverQ).type = m /\ m \in MessageTypes
        BY <2>1, <3>1, <3>3, TakeCommand DEF UserTypes, MessageTypes
      <4>2. delivered' = Append(delivered, m) /\ CommandOf(Head(serverQ)) = <<m>>
        BY <3>1, <3>3, <4>1 DEF PassOn, CommandOf
      <4>3. delivered \o Given(serverQ) = delivered' \o Given(serverQ')
        <5> DEFINE g == Given(serverQ')
        <5>1. Given(serverQ) = <<m>> \o g /\ g \in Seq(MessageTypes)
          BY <2>1, <4>2, TakeCommand
        <5>2. delivered \in Seq(MessageTypes)
          BY WayTyped
        <5> HIDE DEF g
        <5>3. delivered \o (<<m>> \o g) = Append(delivered, m) \o g
          BY <4>1, <5>1, <5>2
        <5> QED BY <4>2, <5>1, <5>3 DEF g
      <4>4. delivered' \in Seq(MessageTypes)
        BY <4>1, <4>2, WayTyped
      <4> QED
        BY <1>1, <2>1, <2>2, <3>2, <4>3, <4>4, TakeCommand DEF CommandInv, CommandsInOrder
    <3>4. CASE ~(Head(serverQ).from = "user" /\ listed)
      <4>1. delivered' = delivered
        BY <3>1, <3>4 DEF PassOn
      <4>2. listed => Given(serverQ) = Given(serverQ')
        <5>1. listed => CommandOf(Head(serverQ)) = <<>>
          BY <3>4 DEF CommandOf
        <5>2. /\ Given(serverQ) = CommandOf(Head(serverQ)) \o Given(serverQ')
              /\ Given(serverQ') \in Seq(MessageTypes)
          BY <2>1, TakeCommand
        <5> QED BY <5>1, <5>2
      <4> QED
        BY <1>1, <2>1, <2>2, <3>2, <4>1, <4>2, TakeCommand DEF CommandInv, CommandsInOrder
    <3> QED BY <3>3, <3>4
  <2>4. CASE Display \/ HandleThreadDead
    <3>1. Head(serverQ).type \notin UserTypes /\ delivered' = delivered
      BY <2>4 DEF Display, HandleThreadDead, Take, Notices, UserTypes
    <3>2. Given(serverQ) = Given(serverQ')
      <4>1. CommandOf(Head(serverQ)) = <<>>
        BY <2>1, <3>1, TakeCommand DEF CommandOf
      <4>2. /\ Given(serverQ) = CommandOf(Head(serverQ)) \o Given(serverQ')
            /\ Given(serverQ') \in Seq(MessageTypes)
        BY <2>1, TakeCommand
      <4> QED BY <4>1, <4>2
    <3>3. listed' => listed /\ ifcQ' = ifcQ
      BY <2>4 DEF Display, HandleThreadDead
    <3>4. file # "pipe" => Spelled(ifcQ') = <<>>
      <4>1. ifcQ' = ifcQ \/ ifcQ' = ifcQ \o <<<<"ThreadDie">>>>
        <5>1. ifcQ' = ifcQ \/ ifcQ' = Append(ifcQ, <<"ThreadDie">>)
          BY <2>4 DEF Display, HandleThreadDead
        <5>2. <<"ThreadDie">> \in LettersOrDie(Commands[file])
          BY DEF LettersOrDie
        <5> QED BY <5>1, <5>2, WayTyped, AppendRow
      <4>2. Spelled(ifcQ \o <<<<"ThreadDie">>>>) = Spelled(ifcQ)
        BY OrderSpellsNothing, WayTyped
      <4> QED BY <4>1, <4>2 DEF CommandInv
    <3> QED
      BY <1>1, <2>1, <2>2, <3>1, <3>2, <3>3, <3>4, TakeCommand DEF CommandInv, CommandsInOrder
  <2> QED
    BY <2>1, <2>3, <2>4 DEF MainThread, AppStart, JoinAll, JoinInterface, Exit
<1> QED
    BY <1>2, <1>3, <1>4 DEF MainThread, Forward, HandleHeartBeat, HandleThreadDie,
       HandleThreadDead, Display

(* The interface thread handles a letter: its command leaves the interface's  *)
(* queue for the server's.                                                    *)
LEMMA LetterMovesOn ==
    ASSUME CommandInv, IfcHandleLetter
    PROVE  /\ Given(serverQ') \o Spelled(ifcQ') = Given(serverQ) \o Spelled(ifcQ)
           /\ Given(serverQ') \in Seq(MessageTypes) /\ Spelled(ifcQ') \in Seq(MessageTypes)
           /\ Spelled(ifcQ) = <<>> => Spelled(ifcQ') = <<>>
<1> DEFINE L == Commands[file]
           item == Head(ifcQ)
           c == item[1]
           rest == Tail(item)
           behind == Tail(ifcQ)
           m == MessageFor(c)
<1>1. ifcQ \in Seq(LettersOrDie(L)) /\ ifcQ # <<>> /\ item # <<"ThreadDie">>
    BY WayTyped DEF IfcHandleLetter
<1>2. /\ Spelled(ifcQ) = CommandsOf(item) \o Spelled(behind)
      /\ behind \in Seq(LettersOrDie(L)) /\ item \in LettersOrDie(L)
      /\ Spelled(behind) \in Seq(MessageTypes)
    BY <1>1, SpelledHead
<1>3. item \in Seq(L) /\ item # <<>>
    BY <1>1, <1>2 DEF LettersOrDie
<1>4. rest \in Seq(L) /\ item = <<c>> \o rest /\ <<c>> \in Seq(L)
    BY <1>3, HeadRow
<1>5. CommandsOf(item) = m \o MessagesFor(rest)
  <2>1. CommandsOf(item) = MessagesFor(item)
    BY <1>1 DEF CommandsOf
  <2> HIDE DEF item, c, rest, m
  <2>2. MessagesFor(<<c>> \o rest) = MessagesFor(<<c>>) \o MessagesFor(rest)
    BY <1>4, SpelledLetters
  <2>3. MessagesFor(<<c>>) = m
    BY SpelledLetter DEF m
  <2> QED BY <1>4, <2>1, <2>2, <2>3
<1>6. Spelled(ifcQ') = MessagesFor(rest) \o Spelled(behind)
  <2>1. ifcQ' = IF rest = <<>> THEN behind ELSE <<rest>> \o behind
    BY DEF IfcHandleLetter
  <2> HIDE DEF rest, behind
  <2>2. CASE rest = <<>>
    BY <1>2, <2>1, <2>2, SpelledNothing
  <2>3. CASE rest # <<>>
    <3>1. rest # <<"ThreadDie">>
      BY <1>4, BoundsTyped DEF CommandInv
    <3>2. <<rest>> \in Seq(LettersOrDie(L))
      <4>1. rest \in LettersOrDie(L)
        BY <1>4, <2>3 DEF LettersOrDie
      <4> QED BY <4>1
    <3>3. Spelled(<<rest>> \o behind) = Spelled(<<rest>>) \o Spelled(behind)
      BY <1>2, <3>2, SpelledBoth
    <3>4. Spelled(<<rest>>) = MessagesFor(rest)
      BY <3>1, SpelledOne DEF CommandsOf
    <3> QED BY <2>1, <2>3, <3>3, <3>4
  <2> QED BY <2>2, <2>3
<1>7. Given(serverQ') = Given(serverQ) \o m
  <2>1. serverQ' = serverQ \o From("user", m)
    BY DEF IfcHandleLetter, ToServer
  <2>2. m \in Seq(MessageTypes) /\ Len(m) <= 1
    BY LetterCommand
  <2> HIDE DEF m
  <2> QED BY <2>1, <2>2, WayTyped, GivenPushed DEF Senders
<1>8. /\ m \in Seq(MessageTypes) /\ MessagesFor(rest) \in Seq(MessageTypes)
      /\ Given(serverQ) \in Seq(MessageTypes)
    BY <1>4, LetterMessage, SpelledLetters, WayTyped
<1> DEFINE g == Given(serverQ)
           r == MessagesFor(rest)
           b == Spelled(behind)
<1> HIDE DEF m, g, r, b
<1>9. (g \o m) \o (r \o b) = g \o ((m \o r) \o b)
  <2>1. /\ g \in Seq(MessageTypes) /\ m \in Seq(MessageTypes)
        /\ r \in Seq(MessageTypes) /\ b \in Seq(MessageTypes)
    BY <1>2, <1>8 DEF g, r, b
  <2>2. ThreeRows(MessageTypes, g, m, r \o b) /\ ThreeRows(MessageTypes, m, r, b)
    BY <2>1 DEF ThreeRows
  <2>3. (m \o r) \o b = m \o (r \o b)
    BY <2>2, Regroup
  <2> DEFINE v == r \o b
  <2>4. ThreeRows(MessageTypes, g, m, v)
    BY <2>2
  <2> HIDE DEF v
  <2>5. (g \o m) \o v = g \o (m \o v)
    BY <2>4, Regroup
  <2> QED BY <2>3, <2>5 DEF v
<1>10. Given(serverQ') = g \o m /\ Spelled(ifcQ') = r \o b /\ Spelled(ifcQ) = (m \o r) \o b
    BY <1>2, <1>5, <1>6, <1>7 DEF g, r, b
<1>11. g \o m \in Seq(MessageTypes) /\ r \o b \in Seq(MessageTypes)
       /\ ((m \o r) \o b = <<>> => r \o b = <<>>)
  <2>1. g \in Seq(MessageTypes) /\ m \in Seq(MessageTypes) /\ r \in Seq(MessageTypes)
        /\ b \in Seq(MessageTypes)
    BY <1>2, <1>8 DEF g, r, b
  <2>2. Len((m \o r) \o b) = Len(m) + Len(r \o b) /\ Len(m) \in Nat /\ Len(r \o b) \in Nat
    BY <2>1
  <2>3. (m \o r) \o b = <<>> => Len(r \o b) = 0
    BY <2>2
  <2> QED BY <2>1, <2>3
<1> QED BY <1>9, <1>10, <1>11 DEF g

LEMMA InterfaceKeepsCommands ==
    ASSUME CommandInv, IfcThread \/ KeyPress \/ HeartBeat \/ IfcInitFails \/ IfcReadFails
    PROVE  CommandInv'
<1>1. /\ TypeOK' /\ UNCHANGED <<file, listed, delivered>> /\ app' \in {app, "crashed"}
      /\ (pipe' # "none" => pipe # "none" \/ file = "pipe")
    BY InterfaceTyped DEF CommandInv, IfcThread, IfcInit, IfcHandleDie, IfcHandleLetter, IfcTeardown,
       IfcTerminates, KeyPress, HeartBeat, IfcInitFails, IfcReadFails, IfcRest, ifcVars
<1>2. CASE UNCHANGED <<serverQ, ifcQ, typed>>
    BY <1>1, <1>2, WayUntouched DEF CommandInv
<1>3. CASE HeartBeat \/ IfcReadFails \/ IfcTeardown
  <2>1. PICK t \in {"HeartBeat", "LogMessage", "ThreadDead"} : ToServer("ifc", <<t>>)
    BY <1>3 DEF HeartBeat, IfcReadFails, IfcTeardown
  <2>2. <<t>> \in Seq(MessageTypes) /\ "ifc" \in Senders /\ UNCHANGED <<ifcQ, typed>>
    BY <1>3 DEF MessageTypes, Notices, Senders, HeartBeat, IfcReadFails, IfcTeardown, history
  <2>3. Given(serverQ') = Given(serverQ)
    BY <2>1, <2>2, WayTyped, GivenPushed DEF ToServer
  <2>4. \A i \in DOMAIN serverQ' : serverQ'[i].from = "user" => serverQ'[i].type \in UserTypes
    BY <2>1, <2>2, PushKeepsUser
  <2> QED BY <1>1, <2>2, <2>3, <2>4, WayUntouched
<1>4. CASE IfcHandleDie
  <2>1. /\ ifcQ # <<>> /\ Head(ifcQ) = <<"ThreadDie">> /\ ifcQ' = Tail(ifcQ)
        /\ UNCHANGED <<serverQ, typed>>
    BY <1>4 DEF IfcHandleDie, history
  <2>2. Spelled(ifcQ') = Spelled(ifcQ)
    <3>1. CommandsOf(Head(ifcQ)) = <<>>
      BY <2>1 DEF CommandsOf
    <3>2. /\ Spelled(ifcQ) = CommandsOf(Head(ifcQ)) \o Spelled(Tail(ifcQ))
          /\ Spelled(Tail(ifcQ)) \in Seq(MessageTypes)
      BY <2>1, WayTyped, SpelledHead
    <3> QED BY <2>1, <3>1, <3>2
  <2> QED BY <1>1, <2>1, <2>2, WayUntouched DEF CommandInv
<1>5. CASE IfcHandleLetter
  <2>1. UNCHANGED typed /\ \E c : ToServer("user", MessageFor(c))
    BY <1>5 DEF IfcHandleLetter, history
  <2>2. \A i \in DOMAIN serverQ' : serverQ'[i].from = "user" => serverQ'[i].type \in UserTypes
    BY <2>1, LetterCommand, PushKeepsUser DEF Senders
  <2>3. (delivered \o Given(serverQ)) \o Spelled(ifcQ) = (delivered \o Given(serverQ')) \o Spelled(ifcQ')
    <3> DEFINE g == Given(serverQ)
               s == Spelled(ifcQ)
               g2 == Given(serverQ')
               s2 == Spelled(ifcQ')
    <3>1. /\ g \in Seq(MessageTypes) /\ s \in Seq(MessageTypes) /\ delivered \in Seq(MessageTypes)
          /\ g2 \in Seq(MessageTypes) /\ s2 \in Seq(MessageTypes) /\ g2 \o s2 = g \o s
      BY <1>5, LetterMovesOn, WayTyped
    <3> HIDE DEF g, s, g2, s2
    <3>2. ThreeRows(MessageTypes, delivered, g, s) /\ ThreeRows(MessageTypes, delivered, g2, s2)
      BY <3>1 DEF ThreeRows
    <3>3. /\ (delivered \o g) \o s = delivered \o (g \o s)
          /\ (delivered \o g2) \o s2 = delivered \o (g2 \o s2)
      BY <3>2, Regroup
    <3>4. (delivered \o g) \o s = (delivered \o g2) \o s2
      BY <3>1, <3>3
    <3> QED BY <3>4 DEF g, s, g2, s2
  <2>4. Spelled(ifcQ) = <<>> => Spelled(ifcQ') = <<>>
    BY <1>5, LetterMovesOn
  <2> QED BY <1>1, <2>1, <2>2, <2>3, <2>4 DEF CommandInv, CommandsInOrder
<1>6. CASE KeyPress
  <2>1. PICK c \in Commands[file] : ToServer("user", MessageFor(c)) /\ typed' = Append(typed, c)
    BY <1>6 DEF KeyPress
  <2>2. file = "char" /\ ifcQ' = ifcQ
    BY <1>6 DEF KeyPress
  <2>3. \A i \in DOMAIN serverQ' : serverQ'[i].from = "user" => serverQ'[i].type \in UserTypes
    BY <2>1, LetterCommand, PushKeepsUser DEF Senders
  <2>4. Given(serverQ') = Given(serverQ) \o MessageFor(c)
    BY <2>1, LetterCommand, WayTyped, GivenPushed DEF ToServer, Senders
  <2>5. MessagesFor(typed') = MessagesFor(typed) \o MessageFor(c)
    <3>1. typed' = typed \o <<c>> /\ <<c>> \in Seq(Commands[file])
      <4>1. typed \in Seq(Commands[file]) /\ c \in Commands[file]
        BY <2>1, WayTyped
      <4> DEFINE L == Commands[file]
      <4>2. typed \in Seq(L) /\ c \in L
        BY <4>1
      <4> HIDE DEF L
      <4>3. Append(typed, c) = typed \o <<c>> /\ <<c>> \in Seq(L)
        BY <4>2
      <4> QED BY <2>1, <4>3 DEF L
    <3>2. MessagesFor(typed \o <<c>>) = MessagesFor(typed) \o MessagesFor(<<c>>)
      BY <3>1, WayTyped, SpelledLetters
    <3> QED BY <3>1, <3>2, SpelledLetter
  <2>6. (delivered \o Given(serverQ')) \o <<>> =
            ((delivered \o Given(serverQ)) \o <<>>) \o MessageFor(c)
    <3> DEFINE g == Given(serverQ)
               m == MessageFor(c)
    <3>1. g \in Seq(MessageTypes) /\ m \in Seq(MessageTypes) /\ delivered \in Seq(MessageTypes)
      BY WayTyped, LetterMessage
    <3> HIDE DEF g, m
    <3>2. (delivered \o (g \o m)) \o <<>> = delivered \o (g \o m)
      BY <3>1
    <3>3. (delivered \o g) \o <<>> = delivered \o g
      BY <3>1
    <3>4. (delivered \o g) \o m = delivered \o (g \o m)
      BY <3>1, ConcatAssociative
    <3>5. (delivered \o (g \o m)) \o <<>> = ((delivered \o g) \o <<>>) \o m
      BY <3>2, <3>3, <3>4
    <3> QED BY <2>4, <3>5 DEF g, m
  <2>7. Spelled(ifcQ) = <<>>
    BY <2>2 DEF CommandInv
  <2> QED BY <1>1, <2>2, <2>3, <2>5, <2>6, <2>7 DEF CommandInv, CommandsInOrder
<1> QED
    BY <1>2, <1>3, <1>4, <1>5, <1>6 DEF IfcThread, IfcInit, IfcTerminates, IfcInitFails, history

LEMMA PipeKeepsCommands == ASSUME CommandInv, PipeReader PROVE CommandInv'
<1>1. /\ TypeOK' /\ UNCHANGED <<file, listed, delivered>> /\ app' \in {app, "crashed"}
      /\ pipe # "none"
    BY PipeTyped DEF CommandInv, PipeReader, PipeRead, PipeError, PipeOrphan, PipeRest
<1>2. CASE PipeOrphan
  <2>1. UNCHANGED <<serverQ, ifcQ, typed>>
    BY <1>2 DEF PipeOrphan
  <2> QED BY <1>1, <2>1, WayUntouched DEF CommandInv
<1>3. CASE PipeError
  <2>1. PICK t \in {"LogMessage", "ThreadDead"} : ToServer("pipe", <<t>>)
    BY <1>3 DEF PipeError
  <2>2. <<t>> \in Seq(MessageTypes) /\ "pipe" \in Senders /\ UNCHANGED typed
    BY <1>3 DEF MessageTypes, Notices, Senders, PipeError
  <2>3. Given(serverQ') = Given(serverQ)
    BY <2>1, <2>2, WayTyped, GivenPushed DEF ToServer
  <2>4. \A i \in DOMAIN serverQ' : serverQ'[i].from = "user" => serverQ'[i].type \in UserTypes
    BY <2>1, <2>2, PushKeepsUser
  <2>5. ifcQ' = ifcQ \/ ifcQ' = ifcQ \o <<<<"ThreadDie">>>>
    <3>1. ifcQ' = ifcQ \/ ifcQ' = Append(ifcQ, <<"ThreadDie">>)
      BY <1>3 DEF PipeError
    <3>2. <<"ThreadDie">> \in LettersOrDie(Commands[file])
      BY DEF LettersOrDie
    <3> QED BY <3>1, <3>2, WayTyped, AppendRow
  <2>6. Spelled(ifcQ') = Spelled(ifcQ)
    BY <2>5, WayTyped, OrderSpellsNothing
  <2> QED BY <1>1, <2>2, <2>3, <2>4, <2>6, WayUntouched
<1>4. CASE PipeRead
  <2>1. PICK n \in 1..2 : \E letters \in [1..n -> Commands[file]] :
            ifcQ' = Append(ifcQ, letters) /\ typed' = typed \o letters
    BY <1>4 DEF PipeRead
  <2>2. PICK letters \in [1..n -> Commands[file]] :
            ifcQ' = Append(ifcQ, letters) /\ typed' = typed \o letters
    BY <2>1
  <2>3. letters \in Seq(Commands[file]) /\ letters # <<>> /\ letters # <<"ThreadDie">>
    <3>1. letters \in Seq(Commands[file]) /\ letters # <<>>
      BY <2>2
    <3> QED BY <3>1, BoundsTyped DEF CommandInv
  <2>4. Spelled(ifcQ') = Spelled(ifcQ) \o MessagesFor(letters)
    <3> DEFINE h == <<letters>>
    <3>1. h \in Seq(LettersOrDie(Commands[file])) /\ ifcQ' = ifcQ \o h
      <4>1. letters \in LettersOrDie(Commands[file])
        BY <2>3 DEF LettersOrDie
      <4> QED BY <4>1, <2>2, WayTyped
    <3>2. Spelled(h) = MessagesFor(letters)
      BY <2>3, SpelledOne DEF CommandsOf
    <3> HIDE DEF h
    <3>3. Spelled(ifcQ \o h) = Spelled(ifcQ) \o Spelled(h)
      BY <3>1, WayTyped, SpelledBoth
    <3> QED BY <3>1, <3>2, <3>3
  <2>5. MessagesFor(typed') = MessagesFor(typed) \o MessagesFor(letters)
    BY <2>2, <2>3, WayTyped, SpelledLetters
  <2>6. ((delivered \o Given(serverQ)) \o Spelled(ifcQ)) \o MessagesFor(letters) =
            (delivered \o Given(serverQ)) \o Spelled(ifcQ')
    <3> DEFINE d == delivered \o Given(serverQ)
               s == Spelled(ifcQ)
               m == MessagesFor(letters)
    <3>1. d \in Seq(MessageTypes) /\ s \in Seq(MessageTypes) /\ m \in Seq(MessageTypes)
      <4>1. m \in Seq(MessageTypes)
        BY <2>3, SpelledLetters
      <4>2. delivered \in Seq(MessageTypes) /\ Given(serverQ) \in Seq(MessageTypes)
        BY WayTyped
      <4>3. d \in Seq(MessageTypes)
        BY <4>2
      <4> QED BY <4>1, <4>3, WayTyped
    <3> HIDE DEF d, s, m
    <3>2. (d \o s) \o m = d \o (s \o m)
      BY <3>1, ConcatAssociative
    <3> QED BY <2>4, <3>2 DEF d, s, m
  <2>7. file = "pipe" /\ serverQ' = serverQ
    BY <1>1, <1>4 DEF PipeRead, CommandInv
  <2> QED BY <1>1, <2>5, <2>6, <2>7 DEF CommandInv, CommandsInOrder
<1> QED BY <1>2, <1>3, <1>4 DEF PipeReader

(* The way of the commands, as an invariant of the specification. *)
LEMMA CommandsAlways == Spec => []CommandInv
<1>1. Init => CommandInv
  <2>1. ASSUME Init
        PROVE  /\ TypeOK /\ app = "start" /\ listed = FALSE /\ pipe = "none"
               /\ ifcQ = <<>> /\ serverQ = <<>> /\ typed = <<>> /\ delivered = <<>>
    BY <2>1, TypeFirst DEF Init, Group!LifeInit
  <2>2. Given(<<>>) = <<>> /\ Spelled(<<>>) = <<>>
    BY DEF Given, Spelled, FlattenSeq
  <2>3. ASSUME Init PROVE CommandsInOrder
    <3>1. MessagesFor(typed) = <<>> /\ Given(serverQ) = <<>> /\ Spelled(ifcQ) = <<>>
      BY <2>1, <2>2, <2>3, SpelledNothing
    <3>2. (delivered \o Given(serverQ)) \o Spelled(ifcQ) = (<<>> \o <<>>) \o <<>>
      BY <2>1, <2>3, <3>1
    <3>3. (<<>> \o <<>>) \o <<>> = <<>>
      OBVIOUS
    <3> QED BY <3>1, <3>2, <3>3 DEF CommandsInOrder
  <2>4. ASSUME Init PROVE CommandInv
    <3>1. <<>> \in Seq(MessageTypes)
      OBVIOUS
    <3> QED BY <2>1, <2>2, <2>3, <2>4, <3>1 DEF CommandInv
  <2> QED BY <2>4
<1>2. CommandInv /\ [Next]_vars => CommandInv'
  <2>1. ASSUME CommandInv, UNCHANGED vars PROVE CommandInv'
    <3>1. TypeOK'
        BY <2>1, TypeKept DEF CommandInv
    <3>2. UNCHANGED <<file, app, listed, pipe, serverQ, ifcQ, typed, delivered>>
        BY <2>1 DEF vars, ifcVars, history
    <3> QED BY <2>1, <3>1, <3>2, WayUntouched DEF CommandInv
  <2> QED
    BY <2>1, MainKeepsCommands, InterfaceKeepsCommands, PipeKeepsCommands, GroupKeepsCommands
       DEF Next
<1> QED
  BY <1>1, <1>2, PTL DEF Spec

(* Whatever the user types or pipes in, in whatever portions, and whatever    *)
(* else is on the queues: as long as there is a group, every command reaches  *)
(* it once and in the order it was given, or is still on its way.             *)
THEOREM CommandsCorrect == Spec => []CommandsInOrder
<1>1. CommandInv => CommandsInOrder
  BY DEF CommandInv
<1> QED
  BY <1>1, CommandsAlways, PTL

-----------------------------------------------------------------------------
(* No circular wait.  A thread's farewell, the group's or the interface's,   *)
(* on the server queue; the order to die on the queues of those two.          *)
Tells(q, who) == \E i \in DOMAIN q : q[i].type = "ThreadDead" /\ q[i].from = who

GroupTellsOnce(q) ==
    \A i, j \in DOMAIN q : /\ q[i].type = "ThreadDead" /\ q[i].from = "Group"
                           /\ q[j].type = "ThreadDead" /\ q[j].from = "Group"
                           => i = j

Holds(q, u) == \E i \in DOMAIN q : q[i] = u

Orders(q) == Holds(q, <<"ThreadDie">>)

Told(q) == Holds(q, "ThreadDie")

(* The queue r is q with messages appended, a farewell among them or not. *)
SpokenOn(q, r, who, farewell) ==
    /\ \A w : Tells(q, w) => Tells(r, w)
    /\ \A w : Tells(r, w) => Tells(q, w) \/ (w = who /\ farewell)
    /\ GroupTellsOnce(q) /\ (who = "Group" => ~farewell) => GroupTellsOnce(r)

LEMMA TellsPushed ==
    ASSUME NEW q \in Seq(ServerMessages), NEW who \in Senders, NEW types \in Seq(MessageTypes),
           NEW r, r = q \o From(who, types)
    PROVE  /\ SpokenOn(q, r, who, Holds(types, "ThreadDead"))
           /\ types = <<"ThreadDead">> => Tells(r, who) /\ (~Tells(q, "Group") => GroupTellsOnce(r))
<1>1. r \in Seq(ServerMessages) /\ PushedOn(q, r, who, types)
  BY Pushed
<1>2. \A i \in DOMAIN q : i \in DOMAIN r /\ r[i] = q[i]
  <2> DEFINE mail == From(who, types)
  <2>1. mail = [i \in 1..Len(types) |-> mail[i]] /\ Len(types) \in Nat
    BY DEF From
  <2> HIDE DEF mail
  <2>2. mail \in Seq({mail[i] : i \in 1..Len(types)})
    BY <2>1
  <2> QED BY <2>2 DEF mail
<1>3. \A i \in DOMAIN r : \/ i \in DOMAIN q /\ r[i] = q[i]
                         \/ \E k \in DOMAIN types : r[i].type = types[k] /\ r[i].from = who
  <2>1. ASSUME NEW i \in DOMAIN r, NEW k \in DOMAIN types, r[i] = [type |-> types[k], from |-> who]
        PROVE  r[i].type = types[k] /\ r[i].from = who
    BY <2>1
  <2> QED BY <1>1, <2>1 DEF PushedOn
<1>4. \A w : Tells(q, w) => Tells(r, w)
  BY <1>2 DEF Tells
<1>5. \A w : Tells(r, w) => Tells(q, w) \/ (w = who /\ Holds(types, "ThreadDead"))
  BY <1>3 DEF Tells, Holds
<1>6. ASSUME GroupTellsOnce(q), who # "Group" \/ ~Holds(types, "ThreadDead")
      PROVE  GroupTellsOnce(r)
  <2>1. \A i \in DOMAIN r : r[i].type = "ThreadDead" /\ r[i].from = "Group"
                               => i \in DOMAIN q /\ r[i] = q[i]
    BY <1>3, <1>6 DEF Holds
  <2> QED BY <1>6, <2>1 DEF GroupTellsOnce
<1>7. ASSUME types = <<"ThreadDead">> PROVE Tells(r, who) /\ (~Tells(q, "Group") => GroupTellsOnce(r))
  <2>1. From(who, types) = <<[type |-> "ThreadDead", from |-> who]>>
    BY <1>7 DEF From
  <2> DEFINE m == [type |-> "ThreadDead", from |-> who]
  <2>2. r = q \o <<m>> /\ m.type = "ThreadDead" /\ m.from = who
    BY <2>1
  <2> HIDE DEF m
  <2>3. DOMAIN r = 1..(Len(q) + 1) /\ DOMAIN q = 1..Len(q) /\ Len(q) \in Nat /\ r[Len(q) + 1] = m
    BY <2>2
  <2>4. Tells(r, who)
    BY <2>2, <2>3 DEF Tells
  <2>5. ASSUME ~Tells(q, "Group"), NEW i \in DOMAIN r, r[i].type = "ThreadDead", r[i].from = "Group"
        PROVE  i = Len(q) + 1
    <3>1. i \in DOMAIN q => r[i] = q[i]
      BY <1>2
    <3>2. i \notin DOMAIN q
      BY <2>5, <3>1 DEF Tells
    <3> QED BY <2>3, <3>2
  <2> QED BY <2>4, <2>5 DEF GroupTellsOnce
<1> QED BY <1>4, <1>5, <1>6, <1>7 DEF SpokenOn

LEMMA TellsTaken ==
    ASSUME NEW q \in Seq(ServerMessages), q # <<>>, NEW r, r = Tail(q)
    PROVE  /\ \A w : Tells(r, w) => Tells(q, w)
           /\ \A w : Tells(q, w) =>
                 Tells(r, w) \/ (Head(q).type = "ThreadDead" /\ Head(q).from = w)
           /\ GroupTellsOnce(q) => GroupTellsOnce(r)
           /\ GroupTellsOnce(q) /\ Head(q).type = "ThreadDead" /\ Head(q).from = "Group"
                 => ~Tells(r, "Group")
<1>1. /\ DOMAIN q = 1..Len(q) /\ Len(q) \in Nat /\ Len(q) >= 1 /\ Head(q) = q[1]
      /\ DOMAIN r = 1..(Len(q) - 1)
      /\ \A i \in 1..(Len(q) - 1) : r[i] = q[i + 1]
  OBVIOUS
<1>2. ASSUME NEW i \in DOMAIN r PROVE i + 1 \in DOMAIN q /\ r[i] = q[i + 1] /\ i + 1 # 1
  BY <1>1
<1>3. ASSUME NEW i \in DOMAIN q, i # 1 PROVE i - 1 \in DOMAIN r /\ r[i - 1] = q[i]
  <2>1. i - 1 \in 1..(Len(q) - 1) /\ (i - 1) + 1 = i
    BY <1>1, <1>3
  <2>2. r[i - 1] = q[(i - 1) + 1]
    BY <1>1, <2>1
  <2> QED BY <1>1, <2>1, <2>2
<1>4. \A w : Tells(r, w) => Tells(q, w)
  BY <1>2 DEF Tells
<1>5. \A w : Tells(q, w) => Tells(r, w) \/ (Head(q).type = "ThreadDead" /\ Head(q).from = w)
  BY <1>1, <1>3 DEF Tells
<1>6. ASSUME GroupTellsOnce(q) PROVE GroupTellsOnce(r)
  <2>1. ASSUME NEW i \in DOMAIN r, NEW j \in DOMAIN r, i + 1 = j + 1 PROVE i = j
    BY <1>1, <2>1
  <2> QED BY <1>2, <1>6, <2>1 DEF GroupTellsOnce
<1>7. ASSUME GroupTellsOnce(q), q[1].type = "ThreadDead", q[1].from = "Group", Tells(r, "Group")
      PROVE  FALSE
  <2>1. PICK i \in DOMAIN r : r[i].type = "ThreadDead" /\ r[i].from = "Group"
    BY <1>7 DEF Tells
  <2>2. 1 \in DOMAIN q /\ i + 1 \in DOMAIN q /\ r[i] = q[i + 1] /\ i + 1 # 1
    BY <1>1, <1>2
  <2> QED BY <1>7, <2>1, <2>2 DEF GroupTellsOnce
<1> QED BY <1>1, <1>4, <1>5, <1>6, <1>7

(* What a queue holds, after a push and after a pop. *)
LEMMA HoldsStill ==
    ASSUME NEW S, NEW q \in Seq(S), NEW u
    PROVE  /\ \A v \in S : Holds(q, u) => Holds(Append(q, v), u)
           /\ \A v \in S : Holds(Append(q, v), u) => Holds(q, u) \/ u = v
           /\ u \in S => Holds(Append(q, u), u)
           /\ q # <<>> /\ Head(q) # u /\ Holds(q, u) => Holds(Tail(q), u)
<1>1. ASSUME NEW v \in S, NEW i \in DOMAIN q, q[i] = u PROVE Holds(Append(q, v), u)
  <2>1. i \in DOMAIN Append(q, v) /\ Append(q, v)[i] = q[i]
    OBVIOUS
  <2> QED BY <1>1, <2>1 DEF Holds
<1>4. ASSUME NEW v \in S, NEW i \in DOMAIN Append(q, v), Append(q, v)[i] = u, u # v
      PROVE  Holds(q, u)
  <2>1. i \in DOMAIN q /\ Append(q, v)[i] = q[i]
    BY <1>4
  <2> QED BY <1>4, <2>1 DEF Holds
<1>2. ASSUME u \in S PROVE Holds(Append(q, u), u)
  <2>1. Len(q) + 1 \in DOMAIN Append(q, u) /\ Append(q, u)[Len(q) + 1] = u
    BY <1>2
  <2> QED BY <2>1 DEF Holds
<1>3. ASSUME q # <<>>, Head(q) # u, NEW i \in DOMAIN q, q[i] = u PROVE Holds(Tail(q), u)
  <2>1. i \in 1..Len(q) /\ i # 1 /\ Len(q) \in Nat
    BY <1>3
  <2>2. i - 1 \in DOMAIN Tail(q) /\ Tail(q)[i - 1] = q[i]
    BY <1>3, <2>1
  <2> QED BY <1>3, <2>2 DEF Holds
<1> QED BY <1>1, <1>2, <1>3, <1>4 DEF Holds

(* The threads pass a baton.  Before the main thread leaves its loop, an      *)
(* interface that has died has told it so; a group that has died has too, or  *)
(* the interface has been ordered to die, or is already on its way out.       *)
OnItsWayOut == ifc \in {"teardown", "caught", "thrown", "dead"}

LoopGoesOn == app \in {"start", "run", "joining"}

Baton ==
    /\ LoopGoesOn /\ ifc = "dead" => Tells(serverQ, "ifc")
    /\ LoopGoesOn /\ app # "start" /\ ~listed => OnItsWayOut \/ Orders(ifcQ)
    /\ LoopGoesOn /\ app # "start" /\ listed /\ group = "dead" => Tells(serverQ, "Group")

(* A farewell is true, and the group says it once, while it is listed. *)
TrueFarewells ==
    /\ app = "start" => group = "starting"
    /\ ~listed /\ app \notin {"start", "crashed"} => Ended(group)
    /\ Tells(serverQ, "Group") => listed /\ group = "dead"
    /\ GroupTellsOnce(serverQ)
    /\ Tells(serverQ, "ifc") => ifc \in {"dead", "thrown"}
    /\ Tells(serverQ, "pipe") => errors > 0
    /\ ~Tells(serverQ, "user")
    /\ app = "leaving" => ifc \in {"dead", "thrown"} \/ errors > 0

(* A group that has been told to die will, if it has not. *)
DieArrives == Told(delivered) => Ended(group) \/ group = "ending" \/ Told(groupQ)

WaitInv ==
    /\ TypeOK
    /\ delivered \in Seq(MessageTypes \cup GroupMessages)
    /\ Baton
    /\ TrueFarewells
    /\ DieArrives

LEMMA FirstWaits == Init => WaitInv
<1> SUFFICES ASSUME Init PROVE WaitInv
  OBVIOUS
<1>1. /\ TypeOK /\ app = "start" /\ listed = FALSE /\ ifc = "init"
      /\ ifcQ = <<>> /\ serverQ = <<>> /\ delivered = <<>> /\ group = "starting"
  BY TypeFirst DEF Init, Group!LifeInit
<1>2. \A w : ~Tells(serverQ, w)
  BY <1>1 DEF Tells
<1>3. GroupTellsOnce(serverQ) /\ ~Told(delivered)
  BY <1>1 DEF GroupTellsOnce, Told, Holds
<1> QED BY <1>1, <1>2, <1>3 DEF WaitInv, Baton, TrueFarewells, DieArrives, LoopGoesOn

(* The playback thread. *)
LEMMA GroupKeepsWaits == ASSUME WaitInv, GroupThread PROVE WaitInv'
<1>1. /\ TypeOK /\ TypeOK' /\ GroupStep /\ app \notin {"start", "exited", "crashed"}
      /\ UNCHANGED <<app, listed, ifc, ifcQ, delivered, errors>>
  BY GroupTyped DEF WaitInv, GroupThread, GroupRuns, GroupStep, ifcVars, history, Running
<1>2. PICK types \in Seq(MessageTypes) :
          /\ serverQ' = serverQ \o From("Group", types)
          /\ IF group' = "dead" THEN types = <<"ThreadDead">>
                               ELSE \A k \in DOMAIN types : types[k] # "ThreadDead"
  BY <1>1, GroupPushes DEF TypeOK
<1>3. ~Ended(group)
  BY <1>1 DEF GroupStep, Group!Live, Group!Prompt, Group!Toggle, Group!Set, Group!GoBack,
              Group!Report, Group!Obey, Group!Receive, Group!Open, Group!Send,
              Group!StopByItself, Group!ReachEnd, Group!Farewell, Group!Fail, Ended
<1>4. listed /\ ~Tells(serverQ, "Group")
  BY <1>1, <1>3 DEF WaitInv, TrueFarewells, Ended
<1>5. serverQ \in Seq(ServerMessages) /\ "Group" \in Senders
  BY <1>1 DEF TypeOK, Senders
<1>6. /\ SpokenOn(serverQ, serverQ', "Group", Holds(types, "ThreadDead"))
      /\ types = <<"ThreadDead">> => Tells(serverQ', "Group") /\ GroupTellsOnce(serverQ')
  BY <1>2, <1>4, <1>5, TellsPushed
<1>0. group' # "dead" => ~Holds(types, "ThreadDead")
  BY <1>2 DEF Holds
<1>7. Baton'
  <2>1. group' = "dead" => Tells(serverQ', "Group")
    BY <1>2, <1>6
  <2>2. Tells(serverQ, "ifc") => Tells(serverQ', "ifc")
    BY <1>6 DEF SpokenOn
  <2> QED BY <1>1, <1>4, <2>1, <2>2 DEF WaitInv, Baton, OnItsWayOut, LoopGoesOn, Orders, Holds, Tells
<1>8. TrueFarewells'
  <2>1. Tells(serverQ', "Group") => group' = "dead"
    BY <1>0, <1>4, <1>6 DEF SpokenOn
  <2>2. GroupTellsOnce(serverQ')
    BY <1>0, <1>2, <1>6 DEF WaitInv, TrueFarewells, SpokenOn
  <2>3. \A w \in {"ifc", "pipe", "user"} : Tells(serverQ', w) => Tells(serverQ, w)
    BY <1>6 DEF SpokenOn
  <2> QED BY <1>1, <1>4, <2>1, <2>2, <2>3 DEF WaitInv, TrueFarewells, Tells, GroupTellsOnce
<1>9. DieArrives'
  <2>1. CASE group' = "ending" \/ Ended(group')
    BY <2>1 DEF DieArrives, Ended
  <2>2. CASE ~(group' = "ending" \/ Ended(group'))
    <3>1. groupQ' = groupQ \/ (groupQ # <<>> /\ Head(groupQ) # "ThreadDie" /\ groupQ' = Tail(groupQ))
      BY <1>1, <2>2 DEF GroupStep, Group!Live, Group!Prompt, Group!Toggle, Group!Set, Group!GoBack,
              Group!Report, Group!Obey, Group!Receive, Group!Open, Group!Send,
              Group!StopByItself, Group!ReachEnd, Group!Farewell, Group!Fail, Ended
    <3>2. Told(groupQ) => Told(groupQ')
      <4>1. groupQ \in Seq(GroupMessages)
        BY <1>1 DEF TypeOK
      <4>2. ASSUME groupQ # <<>>, Head(groupQ) # "ThreadDie", Holds(groupQ, "ThreadDie")
            PROVE  Holds(Tail(groupQ), "ThreadDie")
        BY <4>1, <4>2, HoldsStill
      <4> QED BY <3>1, <4>2 DEF Told
    <3>3. group # "ending"
      BY <1>1, <2>2 DEF GroupStep, Group!Live, Group!Prompt, Group!Toggle, Group!Set, Group!GoBack,
              Group!Report, Group!Obey, Group!Receive, Group!Open, Group!Send,
              Group!StopByItself, Group!ReachEnd, Group!Farewell, Group!Fail, Ended
    <3> QED BY <1>1, <1>3, <3>2, <3>3 DEF WaitInv, DieArrives, Told, Holds
  <2> QED BY <2>1, <2>2
<1> QED BY <1>1, <1>7, <1>8, <1>9 DEF WaitInv

(* What the interface thread and the pipe reader do to the baton. *)
OtherEffect(who, types) ==
    /\ serverQ' = serverQ \o From(who, types)
    /\ Holds(types, "ThreadDead") => \/ who = "ifc" /\ ifc' \in {"dead", "thrown"}
                                     \/ who = "pipe" /\ errors' > 0
    /\ ifc' = "dead" /\ ifc # "dead" => who = "ifc" /\ types = <<"ThreadDead">>

LEMMA OtherPushes ==
    ASSUME TypeOK, OtherThreads
    PROVE  \E who \in {"ifc", "pipe", "user"}, types \in Seq(MessageTypes) : OtherEffect(who, types)
<1>1. <<>> \in Seq(MessageTypes) /\ serverQ \o From("ifc", <<>>) = serverQ /\ ~Holds(<<>>, "ThreadDead")
  BY DEF TypeOK, From, Holds
<1>2. \A t \in MessageTypes : <<t>> \in Seq(MessageTypes) /\ (Holds(<<t>>, "ThreadDead") => t = "ThreadDead")
  BY DEF Holds
<1>3. {"LogMessage", "HeartBeat", "ThreadDead"} \subseteq MessageTypes
  BY DEF MessageTypes, Notices
<1>4. \A c : MessageFor(c) \in Seq(MessageTypes) /\ ~Holds(MessageFor(c), "ThreadDead")
  BY LetterCommand DEF Holds, UserTypes
<1>5. CASE IfcInit \/ IfcInitFails \/ IfcHandleDie \/ IfcTerminates \/ PipeRead \/ PipeOrphan
  <2>1. serverQ' = serverQ /\ (ifc' = "dead" => ifc = "dead")
    BY <1>5 DEF IfcInit, IfcInitFails, IfcHandleDie, IfcTerminates, PipeRead, PipeOrphan, PipeRest, ifcVars
  <2>2. OtherEffect("ifc", <<>>)
    BY <1>1, <2>1 DEF OtherEffect
  <2> QED BY <1>1, <2>2
<1>6. CASE KeyPress \/ IfcHandleLetter
  <2>1. (\E c : ToServer("user", MessageFor(c))) /\ ifc' = ifc
    BY <1>6 DEF KeyPress, IfcHandleLetter, ifcVars
  <2>2. PICK c : ToServer("user", MessageFor(c))
    BY <2>1
  <2>3. OtherEffect("user", MessageFor(c))
    BY <1>4, <2>1, <2>2 DEF OtherEffect, ToServer
  <2> QED BY <1>4, <2>3
<1>7. CASE HeartBeat \/ IfcReadFails
  <2>1. (ToServer("ifc", <<"HeartBeat">>) \/ ToServer("ifc", <<"LogMessage">>)) /\ ifc' # "dead"
    BY <1>7 DEF HeartBeat, IfcReadFails, ifcVars
  <2>2. OtherEffect("ifc", <<"HeartBeat">>) \/ OtherEffect("ifc", <<"LogMessage">>)
    BY <1>2, <1>3, <2>1 DEF OtherEffect, ToServer
  <2> QED BY <1>2, <1>3, <2>2
<1>8. CASE IfcTeardown
  <2>1. ToServer("ifc", <<"ThreadDead">>) /\ ifc' \in {"dead", "thrown"}
    BY <1>8 DEF IfcTeardown
  <2>2. OtherEffect("ifc", <<"ThreadDead">>)
    BY <2>1 DEF OtherEffect, ToServer
  <2> QED BY <1>2, <1>3, <2>2
<1>9. CASE PipeError
  <2>1. /\ ToServer("pipe", <<"ThreadDead">>) \/ ToServer("pipe", <<"LogMessage">>)
        /\ ifc' = ifc /\ errors' > 0
    BY <1>9 DEF PipeError, PipeRest, TypeOK
  <2>2. OtherEffect("pipe", <<"ThreadDead">>) \/ OtherEffect("pipe", <<"LogMessage">>)
    BY <2>1 DEF OtherEffect, ToServer
  <2> QED BY <1>2, <1>3, <2>2
<1> QED BY <1>5, <1>6, <1>7, <1>8, <1>9 DEF OtherThreads, IfcThread, PipeReader

LEMMA OthersKeepWaits == ASSUME WaitInv, OtherThreads PROVE WaitInv'
<1>1. /\ TypeOK /\ TypeOK' /\ UNCHANGED <<listed, group, groupQ, delivered>>
      /\ app' \in {app, "crashed"}
  <2>1. TypeOK'
    BY InterfaceTyped, PipeTyped DEF OtherThreads, WaitInv
  <2> QED
  BY <2>1 DEF WaitInv, OtherThreads, IfcThread, IfcInit, IfcHandleDie, IfcHandleLetter, IfcTeardown,
         IfcTerminates, IfcInitFails, IfcReadFails, KeyPress, HeartBeat, IfcRest, groupVars,
         PipeReader, PipeRead, PipeError, PipeOrphan, PipeRest
<1>2. PICK who \in {"ifc", "pipe", "user"}, types \in Seq(MessageTypes) : OtherEffect(who, types)
  BY <1>1, OtherPushes
<1>3. /\ SpokenOn(serverQ, serverQ', who, Holds(types, "ThreadDead"))
      /\ types = <<"ThreadDead">> => Tells(serverQ', who)
  BY <1>1, <1>2, TellsPushed DEF TypeOK, OtherEffect, Senders
<1>4. errors' >= errors /\ errors \in Nat /\ errors' \in Nat
  <2>1. MaxErrors[file] \in Nat
    BY <1>1, BoundsTyped
  <2>2. errors \in Nat
    BY <1>1, <2>1 DEF TypeOK
  <2>3. errors' \in {errors, errors + 1}
    BY DEF OtherThreads, IfcThread, IfcInit, IfcHandleDie, IfcHandleLetter, IfcTeardown,
         IfcTerminates, IfcInitFails, IfcReadFails, KeyPress, HeartBeat, IfcRest, history,
         PipeReader, PipeRead, PipeError, PipeOrphan, PipeRest
  <2> QED BY <2>2, <2>3
<1>5. /\ ifc \in {"dead", "thrown"} => ifc' = ifc
      /\ OnItsWayOut => OnItsWayOut'
  BY DEF OtherThreads, IfcThread, IfcInit, IfcHandleDie, IfcHandleLetter, IfcTeardown,
         IfcTerminates, IfcInitFails, IfcReadFails, KeyPress, HeartBeat, ifcVars,
         PipeReader, PipeRead, PipeError, PipeOrphan, PipeRest, OnItsWayOut
<1>6. Orders(ifcQ) => OnItsWayOut' \/ Orders(ifcQ')
  <2>0. ifcQ \in Seq(Items)
    BY <1>1 DEF TypeOK, Items
  <2>1. CASE ifcQ' = ifcQ
    BY <2>1
  <2>2. CASE IfcHandleDie
    BY <2>2 DEF IfcHandleDie, OnItsWayOut
  <2>3. CASE IfcHandleLetter
    <3>1. /\ ifcQ # <<>> /\ Head(ifcQ) # <<"ThreadDie">>
          /\ \/ ifcQ' = Tail(ifcQ)
             \/ ifcQ' = <<Tail(Head(ifcQ))>> \o Tail(ifcQ)
      BY <2>3 DEF IfcHandleLetter
    <3>2. Orders(ifcQ) => Orders(Tail(ifcQ))
      BY <2>0, <3>1, HoldsStill DEF Orders
    <3>3. ASSUME NEW u, Orders(Tail(ifcQ)) PROVE Orders(<<u>> \o Tail(ifcQ))
      <4>1. Tail(ifcQ) \in Seq(Items)
        BY <2>0, <3>1
      <4> DEFINE t == Tail(ifcQ)
      <4> HIDE DEF t
      <4>2. PICK i \in DOMAIN t : t[i] = <<"ThreadDie">>
        BY <3>3 DEF Orders, Holds, t
      <4>3. i + 1 \in DOMAIN (<<u>> \o t) /\ (<<u>> \o t)[i + 1] = t[i]
        BY <4>1 DEF t
      <4> QED BY <4>2, <4>3 DEF Orders, Holds, t
    <3> QED BY <3>1, <3>2, <3>3
  <2>4. CASE \E letters : ifcQ' = Append(ifcQ, letters)
    <3>1. PICK letters : ifcQ' = Append(ifcQ, letters)
      BY <2>4
    <3>2. ASSUME NEW i \in DOMAIN ifcQ PROVE i \in DOMAIN ifcQ' /\ ifcQ'[i] = ifcQ[i]
      BY <2>0, <3>1
    <3> QED BY <3>2 DEF Orders, Holds
  <2>5. \/ ifcQ' = ifcQ \/ IfcHandleDie \/ IfcHandleLetter
        \/ \E letters : ifcQ' = Append(ifcQ, letters)
    BY DEF OtherThreads, IfcThread, IfcInit, IfcTeardown, IfcTerminates, IfcInitFails, IfcReadFails,
           KeyPress, HeartBeat, PipeReader, PipeRead, PipeError, PipeOrphan, PipeRest
  <2> QED BY <2>1, <2>2, <2>3, <2>4, <2>5
<1>7. ifc' = "dead" => Tells(serverQ', "ifc") \/ ~LoopGoesOn'
  <2>1. ifc = "dead" /\ LoopGoesOn' => Tells(serverQ, "ifc")
    BY <1>1 DEF WaitInv, Baton, LoopGoesOn
  <2>2. Tells(serverQ, "ifc") => Tells(serverQ', "ifc")
    BY <1>3 DEF SpokenOn
  <2> QED BY <1>2, <1>3, <2>1, <2>2 DEF OtherEffect
<1>8. Baton'
  <2>1. Tells(serverQ, "Group") => Tells(serverQ', "Group")
    BY <1>3 DEF SpokenOn
  <2> QED BY <1>1, <1>5, <1>6, <1>7, <2>1 DEF WaitInv, Baton, LoopGoesOn, Orders, Holds, Tells
<1>9. TrueFarewells'
  <2>1. Tells(serverQ', "Group") => Tells(serverQ, "Group")
    BY <1>3 DEF SpokenOn
  <2>2. GroupTellsOnce(serverQ')
    BY <1>2, <1>3 DEF WaitInv, TrueFarewells, SpokenOn
  <2>3. Tells(serverQ', "ifc") => ifc' \in {"dead", "thrown"}
    BY <1>2, <1>3, <1>5 DEF WaitInv, TrueFarewells, SpokenOn, OtherEffect
  <2>4. Tells(serverQ', "pipe") => errors' > 0
    BY <1>2, <1>3, <1>4 DEF WaitInv, TrueFarewells, SpokenOn, OtherEffect
  <2>5. ~Tells(serverQ', "user")
    BY <1>2, <1>3 DEF WaitInv, TrueFarewells, SpokenOn, OtherEffect
  <2> QED BY <1>1, <1>4, <1>5, <2>1, <2>2, <2>3, <2>4, <2>5
          DEF WaitInv, TrueFarewells, Ended, Tells, GroupTellsOnce
<1> QED BY <1>1, <1>8, <1>9 DEF WaitInv, DieArrives, Told, Holds, Ended

(* The main thread, which takes the farewells off the queue. *)
LEMMA TakeLeaves ==
    ASSUME WaitInv, serverQ # <<>>, serverQ' = Tail(serverQ)
    PROVE  /\ \A w : Tells(serverQ', w) => Tells(serverQ, w)
           /\ \A w : Tells(serverQ, w) =>
                 Tells(serverQ', w) \/ (Head(serverQ).type = "ThreadDead" /\ Head(serverQ).from = w)
           /\ GroupTellsOnce(serverQ')
           /\ Head(serverQ).type = "ThreadDead" => Tells(serverQ, Head(serverQ).from)
           /\ Head(serverQ).type = "ThreadDead" /\ Head(serverQ).from = "Group"
                 => ~Tells(serverQ', "Group")
           /\ Head(serverQ).from \in Senders
<1>1. serverQ \in Seq(ServerMessages) /\ GroupTellsOnce(serverQ)
  BY DEF WaitInv, TypeOK, TrueFarewells
<1>2. 1 \in DOMAIN serverQ /\ Head(serverQ) = serverQ[1] /\ serverQ[1] \in ServerMessages
  BY <1>1
<1>3. Head(serverQ).type = "ThreadDead" => Tells(serverQ, Head(serverQ).from)
  BY <1>2 DEF Tells
<1>4. Head(serverQ).from \in Senders
  BY <1>2 DEF ServerMessages
<1> QED BY <1>1, <1>3, <1>4, TellsTaken

LEMMA MainKeepsWaits == ASSUME WaitInv, MainThread PROVE WaitInv'
<1>1. TypeOK /\ TypeOK' /\ UNCHANGED <<ifc, group, errors>>
  BY MainTyped DEF WaitInv, MainThread, AppStart, Forward, HandleHeartBeat, HandleThreadDie, JoinAll,
                   HandleThreadDead, Display, JoinInterface, Exit, AppRest, ifcVars, history
<1>2. CASE AppStart
  <2>1. UNCHANGED <<serverQ, ifcQ, groupQ, delivered>> /\ app = "start" /\ listed' = TRUE
        /\ app' \in {"run", "returned"}
    BY <1>2 DEF AppStart
  <2>2. group = "starting"
    BY <2>1 DEF WaitInv, TrueFarewells
  <2>3. Baton'
    BY <1>1, <2>1, <2>2 DEF WaitInv, Baton, LoopGoesOn, Tells
  <2>4. TrueFarewells'
    BY <1>1, <2>1, <2>2 DEF WaitInv, TrueFarewells, Tells, GroupTellsOnce
  <2> QED BY <1>1, <2>1, <2>3, <2>4 DEF WaitInv, DieArrives, Told, Holds, Ended
<1>3. CASE JoinAll \/ JoinInterface \/ Exit
  <2>1. /\ UNCHANGED <<listed, serverQ, ifcQ, groupQ, delivered>>
        /\ \/ app = "joining" /\ app' = "run"
           \/ app = "leaving" /\ app' = "returned"
           \/ app = "returned" /\ app' \in {"exited", "crashed"}
    BY <1>3 DEF JoinAll, JoinInterface, Exit
  <2>2. Baton'
    BY <1>1, <2>1 DEF WaitInv, Baton, LoopGoesOn, Tells, OnItsWayOut, Orders, Holds
  <2>3. TrueFarewells'
    BY <1>1, <2>1 DEF WaitInv, TrueFarewells, Tells, GroupTellsOnce, Ended
  <2> QED BY <1>1, <2>1, <2>2, <2>3 DEF WaitInv, DieArrives, Told, Holds, Ended
<1>4. CASE Forward \/ HandleHeartBeat \/ HandleThreadDie \/ Display
  <2>1. /\ app = "run" /\ serverQ # <<>> /\ serverQ' = Tail(serverQ)
        /\ Head(serverQ).type # "ThreadDead" /\ UNCHANGED <<listed, ifcQ>>
        /\ app' \in {"run", "joining"}
    BY <1>4 DEF Forward, HandleHeartBeat, HandleThreadDie, Display, Take, Notices
  <2>2. \A w : Tells(serverQ', w) <=> Tells(serverQ, w)
    BY <2>1, TakeLeaves
  <2>3. GroupTellsOnce(serverQ')
    BY <2>1, TakeLeaves
  <2>4. Baton'
    BY <1>1, <2>1, <2>2 DEF WaitInv, Baton, LoopGoesOn, OnItsWayOut, Orders, Holds, Tells
  <2>5. TrueFarewells'
    <3>1. /\ ~Tells(serverQ', "user")
          /\ Tells(serverQ', "Group") => listed /\ group = "dead"
          /\ Tells(serverQ', "ifc") => ifc \in {"dead", "thrown"}
          /\ Tells(serverQ', "pipe") => errors > 0
      BY <2>2 DEF WaitInv, TrueFarewells
    <3> QED BY <1>1, <2>1, <2>3, <3>1 DEF WaitInv, TrueFarewells, Ended, Tells, GroupTellsOnce
  <2>6. DieArrives'
    <3>1. /\ groupQ \in Seq(GroupMessages)
          /\ groupQ' \in Seq(GroupMessages)
      BY <1>1 DEF TypeOK
    <3>2. \/ UNCHANGED <<groupQ, delivered>>
          \/ \E m \in GroupMessages : PassOn(m)
      BY <1>4 DEF Forward, HandleHeartBeat, HandleThreadDie, Display, GroupMessages
    <3>3. ASSUME NEW m \in GroupMessages, PassOn(m) PROVE DieArrives'
      <4>1. groupQ' = (IF listed THEN Append(groupQ, m) ELSE groupQ)
        BY <3>3 DEF PassOn
      <4>2. delivered' = delivered \/ (listed /\ delivered' = Append(delivered, m))
        BY <3>3 DEF PassOn
      <4>3. Told(groupQ) => Told(groupQ')
        BY <3>1, <4>1, HoldsStill DEF Told
      <4>4. CASE delivered' = delivered
        BY <1>1, <4>3, <4>4 DEF WaitInv, DieArrives, Told, Holds, Ended
      <4>5. CASE m = "ThreadDie" /\ listed
        <5>1. Told(groupQ')
          BY <3>1, <4>1, <4>5, HoldsStill DEF Told
        <5> QED BY <5>1 DEF DieArrives, Told, Holds
      <4>6. CASE m # "ThreadDie" /\ delivered' = Append(delivered, m)
        <5>1. Told(delivered') => Told(delivered)
          BY <4>6, HoldsStill DEF WaitInv, Told
        <5> QED BY <1>1, <4>3, <5>1 DEF WaitInv, DieArrives, Told, Holds, Ended
      <4> QED BY <4>2, <4>4, <4>5, <4>6
    <3> QED BY <1>1, <3>2, <3>3 DEF WaitInv, DieArrives, Told, Holds, Ended
  <2>7. delivered' \in Seq(MessageTypes \cup GroupMessages)
    <3> DEFINE S == MessageTypes \cup GroupMessages
    <3>1. delivered \in Seq(S)
      BY DEF WaitInv
    <3>2. \/ delivered' = delivered
          \/ \E m \in GroupMessages : delivered' = Append(delivered, m)
      BY <1>4 DEF Forward, HandleHeartBeat, HandleThreadDie, Display, PassOn, GroupMessages
    <3>3. \A m \in GroupMessages : m \in S
      OBVIOUS
    <3> HIDE DEF S
    <3>4. \A m \in S : Append(delivered, m) \in Seq(S)
      BY <3>1
    <3>5. delivered' \in Seq(S)
      BY <3>1, <3>2, <3>3, <3>4
    <3> QED BY <3>5 DEF S
  <2> QED BY <1>1, <2>4, <2>5, <2>6, <2>7 DEF WaitInv
<1>5. CASE HandleThreadDead
  <2>1. /\ app = "run" /\ serverQ # <<>> /\ serverQ' = Tail(serverQ)
        /\ Head(serverQ).type = "ThreadDead" /\ UNCHANGED <<groupQ, delivered>>
    BY <1>5 DEF HandleThreadDead, Take
  <2>2. CASE Head(serverQ).from = "Group" /\ listed
    <3>1. /\ Ended(group) /\ listed' = FALSE /\ app' = "run"
          /\ ifcQ' = Append(ifcQ, <<"ThreadDie">>)
      BY <1>5, <2>1, <2>2 DEF HandleThreadDead
    <3>2. Orders(ifcQ')
      <4>1. ifcQ \in Seq(Items) /\ <<"ThreadDie">> \in Items
        BY <1>1 DEF TypeOK, Items
      <4> QED BY <3>1, <4>1, HoldsStill DEF Orders
    <3>3. /\ ~Tells(serverQ', "Group") /\ GroupTellsOnce(serverQ')
          /\ \A w : Tells(serverQ', w) => Tells(serverQ, w)
          /\ Tells(serverQ, "ifc") => Tells(serverQ', "ifc")
      BY <2>1, <2>2, TakeLeaves
    <3>4. Baton'
      BY <1>1, <2>1, <3>1, <3>2, <3>3 DEF WaitInv, Baton, LoopGoesOn, Orders, Holds, Tells
    <3>5. TrueFarewells'
      <4>1. /\ ~Tells(serverQ', "user")
            /\ Tells(serverQ', "ifc") => ifc \in {"dead", "thrown"}
            /\ Tells(serverQ', "pipe") => errors > 0
        BY <3>3 DEF WaitInv, TrueFarewells
      <4> QED BY <1>1, <2>1, <3>1, <3>3, <4>1 DEF WaitInv, TrueFarewells, Ended, Tells, GroupTellsOnce
    <3> QED BY <1>1, <2>1, <3>4, <3>5 DEF WaitInv, DieArrives, Told, Holds, Ended
  <2>3. CASE ~(Head(serverQ).from = "Group" /\ listed)
    <3>1. app' = "leaving" /\ UNCHANGED <<listed, ifcQ>>
      BY <1>5, <2>3 DEF HandleThreadDead
    <3>2. /\ GroupTellsOnce(serverQ')
          /\ \A w : Tells(serverQ', w) => Tells(serverQ, w)
      BY <2>1, TakeLeaves
    <3>3. Tells(serverQ, Head(serverQ).from) /\ Head(serverQ).from \in {"Group", "ifc", "pipe", "user"}
      BY <2>1, TakeLeaves DEF Senders
    <3>4. ifc \in {"dead", "thrown"} \/ errors > 0
      BY <2>3, <3>3 DEF WaitInv, TrueFarewells
    <3>5. Baton'
      BY <3>1 DEF Baton, LoopGoesOn
    <3>6. TrueFarewells'
      <4>1. /\ ~Tells(serverQ', "user")
            /\ Tells(serverQ', "Group") => listed /\ group = "dead"
            /\ Tells(serverQ', "ifc") => ifc \in {"dead", "thrown"}
            /\ Tells(serverQ', "pipe") => errors > 0
        BY <3>2 DEF WaitInv, TrueFarewells
      <4> QED BY <1>1, <2>1, <3>1, <3>2, <3>4, <4>1 DEF WaitInv, TrueFarewells, Ended, Tells, GroupTellsOnce
    <3> QED BY <1>1, <2>1, <3>5, <3>6 DEF WaitInv, DieArrives, Told, Holds, Ended
  <2> QED BY <2>2, <2>3
<1> QED BY <1>2, <1>3, <1>4, <1>5 DEF MainThread

(* A sequence is what is before one of its places, that place, and the rest. *)
LEMMA SplitAt ==
    ASSUME NEW L, NEW x \in Seq(L), NEW k \in DOMAIN x, NEW u, u = x[k]
    PROVE  \E a, b \in Seq(L) : x = (a \o <<u>>) \o b
<1> DEFINE n == Len(x) - k
           a == [i \in 1..(k - 1) |-> x[i]]
           b == [i \in 1..n |-> x[k + i]]
           q == <<u>>
           c == a \o q
           y == c \o b
<1>1. /\ k \in 1..Len(x) /\ Len(x) \in Nat /\ DOMAIN x = 1..Len(x)
      /\ \A i \in 1..Len(x) : x[i] \in L
  OBVIOUS
<1>2. a \in Seq(L) /\ Len(a) = k - 1 /\ \A i \in 1..(k - 1) : a[i] = x[i]
  <2>1. k - 1 \in Nat /\ \A i \in 1..(k - 1) : x[i] \in L
    BY <1>1
  <2> QED BY <2>1
<1>3. b \in Seq(L) /\ Len(b) = n /\ \A i \in 1..n : b[i] = x[k + i]
  <2>1. n \in Nat /\ \A i \in 1..n : k + i \in 1..Len(x)
    BY <1>1
  <2>2. \A i \in 1..n : x[k + i] \in L
    BY <1>1, <2>1
  <2>3. n \in Nat
    BY <2>1
  <2> HIDE DEF n
  <2> QED BY <2>2, <2>3
<1>4. q \in Seq(L) /\ Len(q) = 1 /\ q[1] = x[k]
  BY <1>1
<1> HIDE DEF a, b, q
<1>5. c \in Seq(L) /\ Len(c) = k /\ \A i \in 1..k : c[i] = x[i]
  <2>1. /\ c \in Seq(L) /\ Len(c) = Len(a) + Len(q)
        /\ \A i \in 1..(Len(a) + Len(q)) : c[i] = IF i <= Len(a) THEN a[i] ELSE q[i - Len(a)]
    BY <1>2, <1>4, ConcatProperties
  <2> HIDE DEF c
  <2>2. Len(c) = k
    BY <1>1, <1>2, <1>4, <2>1
  <2>3. ASSUME NEW i \in 1..k PROVE c[i] = x[i]
    <3>1. i <= Len(a) => c[i] = x[i]
      BY <1>1, <1>2, <1>4, <2>1
    <3>2. i > Len(a) => i = k /\ i - Len(a) = 1
      BY <1>1, <1>2
    <3>3. i > Len(a) => c[i] = q[i - Len(a)]
      BY <1>1, <1>2, <1>4, <2>1
    <3> QED BY <1>1, <1>2, <1>4, <3>1, <3>2, <3>3
  <2> QED BY <2>1, <2>2, <2>3
<1> HIDE DEF c
<1>6. /\ y \in Seq(L) /\ Len(y) = Len(x)
      /\ \A i \in 1..Len(x) : y[i] = IF i <= k THEN c[i] ELSE b[i - k]
  <2>1. /\ y \in Seq(L) /\ Len(y) = Len(c) + Len(b)
        /\ \A i \in 1..(Len(c) + Len(b)) : y[i] = IF i <= Len(c) THEN c[i] ELSE b[i - Len(c)]
    BY <1>3, <1>5, ConcatProperties
  <2>2. Len(c) + Len(b) = Len(x)
    BY <1>1, <1>3, <1>5
  <2> QED BY <1>5, <2>1, <2>2
<1> HIDE DEF y
<1>7. ASSUME NEW i \in 1..Len(x) PROVE y[i] = x[i]
  <2>1. CASE i <= k
    <3>1. i \in 1..k /\ y[i] = c[i]
      BY <1>1, <1>6, <2>1
    <3> QED BY <1>5, <3>1
  <2>2. CASE ~(i <= k)
    <3>1. i - k \in 1..n /\ k + (i - k) = i
      BY <1>1, <2>2
    <3>2. b[i - k] = x[k + (i - k)]
      BY <1>3, <3>1
    <3>3. y[i] = b[i - k]
      BY <1>6, <2>2
    <3> QED BY <3>1, <3>2, <3>3
  <2> QED BY <2>1, <2>2
<1>8. y = x
  BY <1>6, <1>7, SeqEqual
<1> QED BY <1>2, <1>3, <1>8 DEF c, q, y

(* Whatever is pushed before and after it, an order stands in the row. *)
LEMMA HoldsBetween ==
    ASSUME NEW S, NEW a \in Seq(S), NEW b \in Seq(S), NEW u \in S
    PROVE  Holds((a \o <<u>>) \o b, u)
<1> DEFINE c == a \o <<u>>
<1>1. c \in Seq(S) /\ Len(a) \in Nat /\ Len(a) + 1 \in 1..Len(c) /\ c[Len(a) + 1] = u
  OBVIOUS
<1> HIDE DEF c
<1>2. Len(a) + 1 \in DOMAIN (c \o b) /\ (c \o b)[Len(a) + 1] = c[Len(a) + 1]
  BY <1>1
<1> QED BY <1>1, <1>2 DEF c, Holds

(* A Q among the letters is an order to die among their messages. *)
LEMMA QuitSpelled ==
    ASSUME NEW L, NEW x \in Seq(L), NEW k \in DOMAIN x, x[k] = "Q"
    PROVE  Told(MessagesFor(x))
<1> DEFINE q == <<"Q">>
<1>1. PICK a \in Seq(L), b \in Seq(L) : x = (a \o q) \o b
  <2>1. \E a, b \in Seq(L) : x = (a \o <<"Q">>) \o b
    BY SplitAt
  <2> QED BY <2>1
<1>2. q \in Seq(L)
  <2>1. x[k] \in L
    OBVIOUS
  <2> QED BY <2>1
<1>3. MessagesFor(q) = <<"ThreadDie">>
  BY SpelledLetter DEF MessageFor
<1> HIDE DEF q
<1>4. a \o q \in Seq(L)
  BY <1>2
<1>5. MessagesFor(a) \in Seq(MessageTypes) /\ MessagesFor(b) \in Seq(MessageTypes)
  BY SpelledLetters
<1>6. MessagesFor(a \o q) = MessagesFor(a) \o <<"ThreadDie">>
  <2>1. MessagesFor(a \o q) = MessagesFor(a) \o MessagesFor(q)
    BY <1>2, SpelledLetters
  <2> QED BY <1>3, <2>1
<1>7. MessagesFor((a \o q) \o b) = MessagesFor(a \o q) \o MessagesFor(b)
  <2> DEFINE c == a \o q
  <2>1. c \in Seq(L)
    BY <1>4
  <2> HIDE DEF c
  <2>2. MessagesFor(c \o b) = MessagesFor(c) \o MessagesFor(b)
    BY <2>1, SpelledLetters
  <2> QED BY <2>2 DEF c
<1>8. Holds((MessagesFor(a) \o <<"ThreadDie">>) \o MessagesFor(b), "ThreadDie")
  <2>1. "ThreadDie" \in MessageTypes
    BY DEF MessageTypes
  <2> QED BY <1>5, <2>1, HoldsBetween
<1> QED BY <1>1, <1>6, <1>7, <1>8 DEF Told

(* A main thread that cannot move on waits for a message, for the group in    *)
(* join_all, or for the interface.                                            *)
LEMMA MainWaits ==
    ASSUME WaitInv, Running, ~MainCanMove
    PROVE  \/ app = "run" /\ serverQ = <<>>
           \/ app = "joining" /\ listed /\ ~Ended(group)
           \/ app = "leaving" /\ ifc # "dead"
<1>1. app \in {"run", "joining", "leaving"}
  BY DEF WaitInv, TypeOK, Running, MainCanMove
<1>2. ASSUME serverQ # <<>>, Head(serverQ).type = "ThreadDead", Head(serverQ).from = "Group"
      PROVE  group = "dead"
  <2>1. serverQ \in Seq(ServerMessages)
    BY DEF WaitInv, TypeOK
  <2>2. 1 \in DOMAIN serverQ /\ Head(serverQ) = serverQ[1]
    BY <1>2, <2>1
  <2>3. Tells(serverQ, "Group")
    BY <1>2, <2>2 DEF Tells
  <2> QED BY <2>3 DEF WaitInv, TrueFarewells
<1> QED BY <1>1, <1>2 DEF MainCanMove, Ended

(* Without messages for it on any queue, a group that lives has not been      *)
(* asked to quit.                                                             *)
LEMMA NobodyQuits ==
    ASSUME WaitInv, CommandInv, app = "run", listed, serverQ = <<>>, ifcQ = <<>>, groupQ = <<>>,
           group \in {"paused", "playing"}
    PROVE  ~QuitTyped
<1>1. Given(<<>>) = <<>> /\ Spelled(<<>>) = <<>>
  BY DEF Given, Spelled, FlattenSeq
<1>2. MessagesFor(typed) = delivered
  <2>1. MessagesFor(typed) = (delivered \o <<>>) \o <<>>
    BY <1>1 DEF CommandInv, CommandsInOrder
  <2>2. delivered \in Seq(MessageTypes)
    BY DEF CommandInv
  <2> QED BY <2>1, <2>2
<1>3. ~Told(groupQ)
  BY DEF Told, Holds
<1>4. ~Told(delivered)
  BY <1>3 DEF WaitInv, DieArrives, Ended
<1> QED BY <1>2, <1>4, QuitSpelled DEF QuitTyped, CommandInv, TypeOK

LEMMA NoCircle ==
    ASSUME WaitInv, CommandInv, JoinIsSafe
    PROVE  NoCircularWait
<1> SUFFICES ASSUME Running, ~MainCanMove, ~IfcCanMove, ~GroupCanMove
             PROVE  \/ /\ app = "run" /\ listed /\ ifc = "wait"
                       /\ group = "failed" \/ (group \in {"paused", "playing"} /\ ~QuitTyped)
                    \/ app = "leaving" /\ ifc = "wait" /\ errors > 0
  BY DEF NoCircularWait
<1>1. ifc = "dead" \/ (ifc = "wait" /\ ifcQ = <<>>)
  BY DEF WaitInv, TypeOK, IfcCanMove
<1>2. app # "start" => Ended(group) \/ (group \in {"paused", "playing"} /\ groupQ = <<>>)
  BY DEF WaitInv, TypeOK, GroupCanMove, Group!Lives, Ended
<1>3. CASE app = "leaving" /\ ifc # "dead"
  BY <1>1, <1>3 DEF WaitInv, TrueFarewells
<1>4. CASE app = "joining" /\ listed /\ ~Ended(group)
  BY <1>2, <1>4 DEF JoinIsSafe
<1>5. CASE app = "run" /\ serverQ = <<>>
  <2>1. \A w : ~Tells(serverQ, w)
    BY <1>5 DEF Tells
  <2>2. ifc = "wait" /\ ifcQ = <<>>
    BY <1>1, <1>5, <2>1 DEF WaitInv, Baton, LoopGoesOn
  <2>3. listed
    BY <1>5, <2>2 DEF WaitInv, Baton, LoopGoesOn, OnItsWayOut, Orders, Holds
  <2>4. group # "dead"
    BY <1>5, <2>1, <2>3 DEF WaitInv, Baton, LoopGoesOn
  <2>5. group = "failed" \/ (group \in {"paused", "playing"} /\ groupQ = <<>>)
    BY <1>2, <1>5, <2>4 DEF Ended
  <2> QED BY <1>5, <2>2, <2>3, <2>5, NobodyQuits
<1> QED BY <1>3, <1>4, <1>5, MainWaits

(* The baton is never dropped. *)
LEMMA WaitsAlways == Spec => []WaitInv
<1>1. WaitInv /\ [Next]_vars => WaitInv'
  <2>1. ASSUME WaitInv, UNCHANGED vars PROVE WaitInv'
    <3>1. TypeOK'
      BY <2>1, TypeKept DEF WaitInv
    <3>2. UNCHANGED <<app, listed, ifc, ifcQ, serverQ, group, groupQ, delivered, errors>>
      BY <2>1 DEF vars, ifcVars, groupVars, history
    <3>3. Baton'
      BY <2>1, <3>2 DEF WaitInv, Baton, LoopGoesOn, OnItsWayOut, Orders, Holds, Tells
    <3>4. TrueFarewells'
      BY <2>1, <3>2 DEF WaitInv, TrueFarewells, Tells, GroupTellsOnce, Ended
    <3>5. DieArrives'
      BY <2>1, <3>2 DEF WaitInv, DieArrives, Told, Holds, Ended
    <3> QED BY <2>1, <3>1, <3>2, <3>3, <3>4, <3>5 DEF WaitInv
  <2> QED BY <2>1, MainKeepsWaits, OthersKeepWaits, GroupKeepsWaits DEF Next, OtherThreads
<1> QED
  BY <1>1, FirstWaits, PTL DEF Spec

(* However the threads interleave, whatever is typed and whatever fails:      *)
(* playback, the App and the interface never all stand still while one of     *)
(* them owes another a message, an end or a join.                             *)
THEOREM WaitCorrect == Spec => []NoCircularWait
<1>1. WaitInv /\ CommandInv /\ JoinIsSafe => NoCircularWait
  BY NoCircle
<1> QED
  BY <1>1, WaitsAlways, CommandsAlways, JoinCorrect, PTL

-----------------------------------------------------------------------------
(* Whoever throws in the interface has counted an error before. *)
ThrownInv == ifc \in {"caught", "thrown"} => errors > 0

(* main.cpp says where the App leaves its loop that the interface has died.   *)
(* That is so in every run in which no call on stdin fails: a pipe reader that *)
(* ends on an aborted read is all that it may be mistaken for.                *)
THEOREM LeavingCorrect == Spec => [](errors = 0 => InterfaceDied)
<1>1. Init => ThrownInv
  BY DEF Init, ThrownInv
<1>2. TypeOK /\ ThrownInv /\ [Next]_vars => ThrownInv'
  <2> SUFFICES ASSUME TypeOK, ThrownInv, [Next]_vars PROVE ThrownInv'
    OBVIOUS
  <2>1. errors \in Nat
    <3>1. MaxErrors[file] \in Nat
      BY BoundsTyped
    <3> QED BY <3>1 DEF TypeOK
  <2>2. CASE UNCHANGED <<ifc, errors>>
    BY <2>2 DEF ThrownInv
  <2>3. CASE IfcReadFails
    BY <2>1, <2>3 DEF IfcReadFails, ThrownInv
  <2>4. CASE IfcInit \/ IfcHandleDie
    BY <2>4 DEF IfcInit, IfcHandleDie, ThrownInv
  <2>5. CASE IfcTeardown
    BY <2>5 DEF IfcTeardown, ThrownInv, history
  <2>6. CASE IfcInitFails \/ PipeError
    BY <2>1, <2>6 DEF IfcInitFails, PipeError, PipeRest, ThrownInv, ifcVars
  <2>7. \/ UNCHANGED <<ifc, errors>> \/ IfcReadFails \/ IfcInit \/ IfcHandleDie \/ IfcTeardown
        \/ IfcInitFails \/ PipeError
    <3>1. CASE MainThread \/ GroupThread \/ UNCHANGED vars
      BY <3>1 DEF MainThread, AppStart, Forward, HandleHeartBeat, HandleThreadDie, JoinAll,
                  HandleThreadDead, Display, JoinInterface, Exit, AppRest, GroupThread, GroupRuns,
                  ifcVars, history, vars
    <3>2. CASE OtherThreads
      BY <3>2 DEF OtherThreads, IfcThread, IfcHandleLetter, IfcTerminates, KeyPress, HeartBeat,
                  PipeReader, PipeRead, PipeOrphan, PipeRest, ifcVars, history
    <3> QED BY <3>1, <3>2 DEF Next, OtherThreads
  <2> QED BY <2>2, <2>3, <2>4, <2>5, <2>6, <2>7
<1>3. WaitInv /\ ThrownInv => (errors = 0 => InterfaceDied)
  BY DEF WaitInv, TrueFarewells, ThrownInv, InterfaceDied
<1> QED
  BY <1>1, <1>2, <1>3, TypeCorrect, WaitsAlways, PTL DEF Spec
=============================================================================
