------------------------------- MODULE Channel -------------------------------
(***************************************************************************)
(* What the rest of xcast takes for granted of a queue: whoever sends,     *)
(* sends in one step; the receiver takes the oldest message there is in    *)
(* one step, and will take it.  XCast and GroupLife use their queues like  *)
(* that; MessageQueue implements it.                                       *)
(***************************************************************************)
EXTENDS Naturals, Sequences

CONSTANT Writers    (* the threads that send                               *)

VARIABLES
    line,   (* the messages on their way, oldest first                     *)
    count,  (* how many messages each writer has sent                      *)
    read    (* the messages taken                                          *)

channelVars == <<line, count, read>>

ChannelInit ==
    /\ line = <<>>
    /\ count = [w \in Writers |-> 0]
    /\ read = <<>>

Send(w) ==
    /\ count' = [count EXCEPT ![w] = @ + 1]
    /\ line' = Append(line, <<w, count'[w]>>)
    /\ UNCHANGED read

Take ==
    /\ line # <<>>
    /\ read' = Append(read, Head(line))
    /\ line' = Tail(line)
    /\ UNCHANGED count

ChannelNext == Take \/ \E w \in Writers : Send(w)

ChannelSpec == ChannelInit /\ [][ChannelNext]_channelVars

(* Whatever is there is taken, whether or not anything follows. *)
ChannelFairSpec == ChannelSpec /\ WF_channelVars(Take)
=============================================================================
