--------------------------- MODULE MCMessageQueue ---------------------------
(* Small instances of MessageQueue: the App or the pipe reader as producers. *)
EXTENDS MessageQueue, TLC

CONSTANTS p1, p2

TwoProducers == {p1, p2}

EveryConsumer == {"App", "Interface", "Group"}
=============================================================================
