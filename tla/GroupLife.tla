------------------------------ MODULE GroupLife ------------------------------
(***************************************************************************)
(* What the rest of xcast may rely on from a playback thread: the messages *)
(* it takes from its queue, the messages it answers with, and when it is   *)
(* over.  Captures, channels, stamps and the clock are left out; a group   *)
(* that plays may at any time send, auto-pause, reach the end or fail.     *)
(* GroupProcessor implements this specification, XCast is built on it.     *)
(***************************************************************************)
EXTENDS Sequences

CONSTANTS
    Me,         (* the group's ID                              *)
    Messages    (* the kinds of messages the App sends it      *)

VARIABLES
    life,   (* how far the thread has come                     *)
    sent,   (* it has sent a packet                            *)
    inbox,  (* its oob_queue_                                  *)
    outbox  (* the server queue, to which other threads append *)

lifeVars == <<life, sent, inbox, outbox>>

Lives == {"starting", "paused", "playing", "ending", "dead", "failed"}

Mail(types) == [i \in DOMAIN types |-> [type |-> types[i], from |-> Me]]

Tell(types) == outbox' = outbox \o Mail(types)

LifeInit ==
    /\ life = "starting"
    /\ sent = FALSE
    /\ inbox = <<"TogglePause">>
    /\ outbox = <<>>

-----------------------------------------------------------------------------
Receive(m) ==
    /\ life \in {"paused", "playing"}
    /\ inbox # <<>>
    /\ Head(inbox) = m
    /\ inbox' = Tail(inbox)
    /\ UNCHANGED sent

Toggle ==
    /\ Receive("TogglePause")
    /\ \/ life = "paused" /\ life' = "playing" /\ Tell(<<"Resumed">>)
       \/ life = "playing" /\ life' = "paused" /\ Tell(<<"Paused">>)

Set ==
    \/ Receive("SetPause") /\ life' = "paused" /\ Tell(<<"Paused">>)
    \/ Receive("SetResume") /\ life' = "playing" /\ Tell(<<"Resumed">>)

(* A restart leaves the group paused. *)
GoBack ==
    /\ Receive("Restart")
    /\ life' = "paused"
    /\ Tell(IF life = "playing" THEN <<"Paused", "Restarted">> ELSE <<"Restarted">>)

Report ==
    /\ \/ Receive("RequestChannels") /\ Tell(<<"ChannelProgress">>)
       \/ Receive("RequestGroups") /\ Tell(<<"GroupProgress">>)
       \/ Receive("RequestBoth") /\ Tell(<<"ChannelProgress", "GroupProgress">>)
    /\ UNCHANGED life

Obey == Receive("ThreadDie") /\ life' = "ending" /\ UNCHANGED outbox

-----------------------------------------------------------------------------
Open == life = "starting" /\ life' = "paused" /\ UNCHANGED <<sent, inbox, outbox>>

Send == life = "playing" /\ sent' = TRUE /\ UNCHANGED <<life, inbox, outbox>>

StopByItself ==
    /\ life = "playing"
    /\ life' = "paused"
    /\ Tell(<<"AutoPaused">>)
    /\ UNCHANGED <<sent, inbox>>

(* No channel is left.  A group without any may find that out in a pause. *)
ReachEnd ==
    /\ life \in {"paused", "playing"}
    /\ life' = "ending"
    /\ UNCHANGED <<sent, inbox, outbox>>

(* An exception: the group is over, and all it says is a log message. *)
Fail ==
    /\ life \in {"starting", "playing"}
    /\ life' = "failed"
    /\ sent' \in {sent, life = "playing"}
    /\ Tell(<<"LogMessage">>)
    /\ UNCHANGED inbox

Farewell ==
    /\ life = "ending"
    /\ life' = "dead"
    /\ Tell(<<"ThreadDead">>)
    /\ UNCHANGED <<sent, inbox>>

(* What the thread gets to however its captures look. *)
Prompt == Open \/ Toggle \/ Set \/ GoBack \/ Report \/ Obey \/ Farewell

Live == Prompt \/ Send \/ StopByItself \/ ReachEnd

(* The App may push a message at any time. *)
Post == \E m \in Messages : inbox' = Append(inbox, m) /\ UNCHANGED <<life, sent, outbox>>

LifeNext == Live \/ Fail \/ Post

LifeSpec == LifeInit /\ [][LifeNext]_lifeVars
=============================================================================
