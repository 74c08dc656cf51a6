---------------------------- MODULE MessageQueue ----------------------------
(***************************************************************************)
(* concurrent_queue, through which all of xcast's threads talk: any number *)
(* of producers and one consumer.  A push appends under the mutex and only *)
(* after unlocking wakes a waiting consumer and sets the queue's event; a  *)
(* pop updates the event while it still holds the mutex.  The three        *)
(* consumers of the program differ in how they come to pop:                *)
(*                                                                         *)
(*   App        calls wait_and_pop and sleeps on the condition variable;   *)
(*   Interface  waits for the event, then pops until the queue is empty;   *)
(*   Group      polls empty() and pops until the queue is empty.           *)
(***************************************************************************)
EXTENDS Integers, Sequences, FiniteSets, SequencesExt

CONSTANTS
    Producers,  (* the threads that push                                     *)
    Consumers,  (* which of the three consumers to look at                   *)
    MaxPush     (* bound: how many messages each producer pushes             *)

ASSUME QueueAssumption ==
    /\ Consumers \subseteq {"App", "Interface", "Group"}
    /\ MaxPush \in Nat

VARIABLES
    consumer,   (* the consumer of this queue                                *)
    queue,      (* the_queue                                                 *)
    event,      (* the manual-reset event of win32::signaling_policy is set  *)
    asleep,     (* the consumer waits on the_condition_variable              *)
    holds,      (* the consumer holds the_mutex, between pop and signal      *)
    ppc,        (* where each producer is in push()                          *)
    cpc,        (* where the consumer is: "wait", "drain" or "pop"           *)
    sent,       (* history: how many messages each producer has pushed       *)
    popped      (* history: the messages the consumer has popped             *)

vars == <<consumer, queue, event, asleep, holds, ppc, cpc, sent, popped>>

(* A message is its producer and its number among that producer's messages. *)
Message == Producers \X Nat

Init ==
    /\ consumer \in Consumers
    /\ queue = <<>>
    /\ event = FALSE
    /\ asleep = FALSE
    /\ holds = FALSE
    /\ ppc = [p \in Producers |-> "idle"]
    /\ cpc = IF consumer = "App" THEN "pop" ELSE "wait"
    /\ sent = [p \in Producers |-> 0]
    /\ popped = <<>>

-----------------------------------------------------------------------------
(* push(): append under the mutex, then notify_one, then signal. *)
Enqueue(p) ==
    /\ ppc[p] = "idle"
    /\ ~holds
    /\ sent[p] < MaxPush
    /\ queue' = Append(queue, <<p, sent[p] + 1>>)
    /\ sent' = [sent EXCEPT ![p] = @ + 1]
    /\ ppc' = [ppc EXCEPT ![p] = "notify"]
    /\ UNCHANGED <<consumer, event, asleep, holds, cpc, popped>>

(* Mutated form: nobody is notified. *)
Notify_Forgotten(p) ==
    /\ ppc[p] = "notify"
    /\ ppc' = [ppc EXCEPT ![p] = "signal"]
    /\ UNCHANGED <<consumer, queue, event, asleep, holds, cpc, sent, popped>>

Notify(p) ==
    /\ ppc[p] = "notify"
    /\ asleep' = FALSE
    /\ ppc' = [ppc EXCEPT ![p] = "signal"]
    /\ UNCHANGED <<consumer, queue, event, holds, cpc, sent, popped>>

(* Mutated form: the queue of the interface does not signal either. *)
Signal_NonSignaling(p) ==
    /\ ppc[p] = "signal"
    /\ ppc' = [ppc EXCEPT ![p] = "idle"]
    /\ UNCHANGED <<consumer, queue, event, asleep, holds, cpc, sent, popped>>

(* SetEvent; the queues of the App and the groups do not signal.            *)
Signal(p) ==
    /\ ppc[p] = "signal"
    /\ event' = (event \/ consumer = "Interface")
    /\ ppc' = [ppc EXCEPT ![p] = "idle"]
    /\ UNCHANGED <<consumer, queue, asleep, holds, cpc, sent, popped>>

Push(p) == Enqueue(p) \/ Notify(p) \/ Signal(p)

-----------------------------------------------------------------------------
(* Where a consumer that has found its queue empty, or starts, waits. *)

(* The interface: WaitFor...Object returns only when the event is set.      *)
(* The group has no event and comes by on every turn of its loop.           *)
Wake ==
    /\ cpc = "wait"
    /\ consumer = "Interface" => event
    /\ cpc' = "drain"
    /\ UNCHANGED <<consumer, queue, event, asleep, holds, ppc, sent, popped>>

(* Mutated form: a consumer that has come by pops without looking. *)
Drain_Unchecked ==
    /\ cpc = "drain"
    /\ cpc' = "pop"
    /\ UNCHANGED <<consumer, queue, event, asleep, holds, ppc, sent, popped>>

(* while( !empty() ): one look at the queue under the mutex. *)
Drain ==
    /\ cpc = "drain"
    /\ cpc' = IF queue = <<>> THEN "wait" ELSE "pop"
    /\ UNCHANGED <<consumer, queue, event, asleep, holds, ppc, sent, popped>>

(* wait_and_pop(): the queue is empty, sleep and give up the mutex. *)
Sleep ==
    /\ cpc = "pop"
    /\ ~holds
    /\ ~asleep
    /\ queue = <<>>
    /\ asleep' = TRUE
    /\ UNCHANGED <<consumer, queue, event, holds, ppc, cpc, sent, popped>>

(* A condition variable may wake its waiter for no reason; the loop re-tests. *)
WakeSpuriously ==
    /\ asleep
    /\ asleep' = FALSE
    /\ UNCHANGED <<consumer, queue, event, holds, ppc, cpc, sent, popped>>

(* Mutated form: the newest message is taken. *)
Pop_Newest ==
    /\ cpc = "pop"
    /\ ~holds
    /\ ~asleep
    /\ queue # <<>>
    /\ popped' = Append(popped, Last(queue))
    /\ queue' = Front(queue)
    /\ holds' = TRUE
    /\ UNCHANGED <<consumer, event, asleep, ppc, cpc, sent>>

(* Mutated form: the loop of the caller goes on before the mutex is released. *)
Pop_CallerGoesOn ==
    /\ cpc = "pop"
    /\ ~holds
    /\ ~asleep
    /\ queue # <<>>
    /\ popped' = Append(popped, Head(queue))
    /\ queue' = Tail(queue)
    /\ holds' = TRUE
    /\ cpc' = "drain"
    /\ UNCHANGED <<consumer, event, asleep, ppc, sent>>

(* Mutated form: the message is handed out and stays in the queue. *)
Pop_Stays ==
    /\ cpc = "pop"
    /\ ~holds
    /\ ~asleep
    /\ queue # <<>>
    /\ popped' = Append(popped, Head(queue))
    /\ holds' = TRUE
    /\ UNCHANGED <<consumer, queue, event, asleep, ppc, cpc, sent>>

(* wait_and_pop(): take the oldest message. *)
Pop ==
    /\ cpc = "pop"
    /\ ~holds
    /\ ~asleep
    /\ queue # <<>>
    /\ popped' = Append(popped, Head(queue))
    /\ queue' = Tail(queue)
    /\ holds' = TRUE
    /\ UNCHANGED <<consumer, event, asleep, ppc, cpc, sent>>

(* ... then reset or set the event, unlock, and go on. *)
PopSignal ==
    /\ holds
    /\ event' = (consumer = "Interface" /\ queue # <<>>)
    /\ holds' = FALSE
    /\ cpc' = IF consumer = "App" THEN "pop" ELSE "drain"
    /\ UNCHANGED <<consumer, queue, asleep, ppc, sent, popped>>

Consume == Wake \/ Drain \/ Sleep \/ Pop \/ PopSignal

Next == (\E p \in Producers : Push(p)) \/ Consume \/ WakeSpuriously

Spec == Init /\ [][Next]_vars

(* Whoever has begun a push finishes it, and the consumer's thread runs.    *)
(* Nobody has to begin a push, and no wake-up comes for no reason.          *)
FairSpec ==
    /\ Spec
    /\ \A p \in Producers : WF_vars(Notify(p) \/ Signal(p))
    /\ WF_vars(Consume)

-----------------------------------------------------------------------------
TypeOK ==
    /\ consumer \in Consumers
    /\ queue \in Seq(Message)
    /\ event \in BOOLEAN
    /\ asleep \in BOOLEAN
    /\ holds \in BOOLEAN
    /\ ppc \in [Producers -> {"idle", "notify", "signal"}]
    /\ cpc \in {"wait", "drain", "pop"}
    /\ sent \in [Producers -> Nat]
    /\ popped \in Seq(Message)
    /\ holds => cpc = "pop" /\ ~asleep
    /\ asleep => cpc = "pop"

(* What has arrived, and what is still queued. *)
Pushed == popped \o queue

From(p) == {k \in DOMAIN Pushed : Pushed[k][1] = p}

(* The messages of one producer arrive, each once, in the order pushed; what *)
(* has not arrived is still queued.                                          *)
Fifo ==
    \A p \in Producers :
        /\ {Pushed[k][2] : k \in From(p)} = 1..sent[p]
        /\ \A k, l \in From(p) : k < l => Pushed[k][2] < Pushed[l][2]

(* No wake-up is lost.  A consumer that sleeps although there is a message    *)
(* will still be notified, and while the interface waits for an event that    *)
(* is not set although there is a message, a producer is about to set it.     *)
NoLostWakeup ==
    queue # <<>> =>
        /\ asleep => \E p \in Producers : ppc[p] = "notify"
        /\ consumer = "Interface" /\ cpc = "wait" /\ ~event =>
               \E p \in Producers : ppc[p] # "idle"

(* Whoever looked before popping never sleeps in wait_and_pop: there is one   *)
(* consumer, so the message it saw is still there.                            *)
OnlyAppSleeps == asleep => consumer = "App"

(* Every message is delivered. *)
Delivered == \A p \in Producers : \A i \in 1..MaxPush :
    (sent[p] = i) ~> (\E k \in DOMAIN popped : popped[k] = <<p, i>>)

-----------------------------------------------------------------------------
Line == INSTANCE Channel WITH
            Writers <- Producers, line <- queue, count <- sent, read <- popped

(* For all its small steps a queue is a channel, whichever of the consumers   *)
(* pops: what is pushed is there at once, the oldest message is popped, and   *)
(* no way of waking up and looking leaves one behind for good.                *)
ImplementsChannel == Line!ChannelFairSpec
=============================================================================
