---------------------------- MODULE GroupRefinement ----------------------------
(***************************************************************************)
(* The playback thread as the rest of the program sees it: GroupProcessor  *)
(* implements GroupLife.  Told is written as a recursive function, so that *)
(* it can be unfolded in proofs.                                           *)
(***************************************************************************)
EXTENDS GroupProcessor

Letter(type) == [type |-> type, from |-> "Group"]

TellStep(o, i, told) == IF o[i].type = "Packet" THEN told ELSE Append(told, Letter(o[i].type))

(* The messages among the events o: all but the packets. *)
Told(o) ==
    LET told[i \in 0..Len(o)] == IF i = 0 THEN <<>> ELSE TellStep(o, i, told[i - 1])
    IN  told[Len(o)]

(* At least one of the events o is a packet. *)
SomeSent(o) == \E i \in DOMAIN o : o[i].type = "Packet"

LifeNow ==
    CASE pc = "init"    -> "starting"
      [] pc = "failed"  -> "failed"
      [] pc = "done"    -> "dead"
      [] pc \notin {"init", "failed", "done"} ->
            CASE state = "die"   -> "ending"
              [] state = "play"  -> "playing"
              [] state = "pause" -> "paused"

Life == INSTANCE GroupLife WITH
            Me <- "Group",
            Messages <- OobMessage,
            life <- LifeNow,
            sent <- SomeSent(out),
            inbox <- oob,
            outbox <- Told(out)

(* Each step of the thread is one the specification of its life allows: what   *)
(* it answers to which message, when it may send and stop, and that it says    *)
(* ThreadDead as its last word unless an exception ended it.                   *)
ImplementsLife == Life!LifeSpec
=============================================================================
