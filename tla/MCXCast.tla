------------------------------- MODULE MCXCast -------------------------------
(***************************************************************************)
(* Small instances of XCast.  Each kind of stdin has bounds of its own: at *)
(* a console the keys, a heartbeat and --show matter, in a pipe how the    *)
(* letters are split over reads and which of the reads fail.               *)
(***************************************************************************)
EXTENDS XCast

AnyShow == [char |-> BOOLEAN, pipe |-> {FALSE}, other |-> BOOLEAN]
OnlyShow == [char |-> {TRUE}, pipe |-> {TRUE}, other |-> {TRUE}]
NoShow == [char |-> {FALSE}, pipe |-> {FALSE}, other |-> {FALSE}]

(* Every letter that has a meaning, and Q in every way to give it. *)
AllKeys == [char |-> {"Q", "S"}, pipe |-> {"Q", "P", "R"}, other |-> {}]
QuitOrPause == [f \in {"char", "pipe", "other"} |-> {"Q", "P"}]
OnlyPause == [f \in {"char", "pipe", "other"} |-> {"P"}]

OneBeat == [char |-> 1, pipe |-> 0, other |-> 0]
NoBeat == [char |-> 0, pipe |-> 0, other |-> 0]

OneError == [char |-> 1, pipe |-> 1, other |-> 0]
NoError == [char |-> 0, pipe |-> 0, other |-> 0]
=============================================================================
