-------------------------- MODULE MessageQueueProofs --------------------------
(***************************************************************************)
(* Proofs about the queue of xcast for any set of producers, each pushing  *)
(* any number of messages: its types, that no wake-up of a consumer is     *)
(* lost, that a consumer which looks before it pops never sleeps, that     *)
(* messages keep their order, and that all in all it is a Channel.         *)
(***************************************************************************)
EXTENDS MessageQueue, TLAPS

-----------------------------------------------------------------------------
(* The initial state has the types. *)
LEMMA TypeInit == Init => TypeOK
<1> SUFFICES ASSUME Init PROVE TypeOK
  OBVIOUS
<1>1. queue \in Seq(Message) /\ popped \in Seq(Message)
  BY DEF Init
<1>2. sent \in [Producers -> Nat] /\ ppc \in [Producers -> {"idle", "notify", "signal"}]
  BY DEF Init
<1>3. cpc \in {"wait", "drain", "pop"}
  BY DEF Init
<1> QED
  BY <1>1, <1>2, <1>3 DEF Init, TypeOK

(* The three steps of a push keep the types. *)
LEMMA TypePush ==
    ASSUME TypeOK, NEW p \in Producers, Push(p)
    PROVE  TypeOK'
<1>1. CASE Enqueue(p)
  <2>1. <<p, sent[p] + 1>> \in Message
    BY DEF TypeOK, Message
  <2>2. queue' \in Seq(Message)
    BY <1>1, <2>1 DEF TypeOK, Enqueue
  <2> QED
    BY <1>1, <2>2 DEF TypeOK, Enqueue
<1>2. CASE Notify(p)
  BY <1>2 DEF TypeOK, Notify
<1>3. CASE Signal(p)
  BY <1>3 DEF TypeOK, Signal
<1> QED
  BY <1>1, <1>2, <1>3 DEF Push

(* Whatever the consumer does keeps the types. *)
LEMMA TypeConsume ==
    ASSUME TypeOK, Consume \/ WakeSpuriously
    PROVE  TypeOK'
<1>1. CASE Wake
  BY <1>1 DEF TypeOK, Wake
<1>2. CASE Drain
  BY <1>2 DEF TypeOK, Drain
<1>3. CASE Sleep
  BY <1>3 DEF TypeOK, Sleep
<1>4. CASE Pop
  <2>1. Head(queue) \in Message /\ Tail(queue) \in Seq(Message)
    BY <1>4 DEF TypeOK, Pop
  <2>2. popped' \in Seq(Message)
    BY <1>4, <2>1 DEF TypeOK, Pop
  <2> QED
    BY <1>4, <2>1, <2>2 DEF TypeOK, Pop
<1>5. CASE PopSignal
  BY <1>5 DEF TypeOK, PopSignal
<1>6. CASE WakeSpuriously
  BY <1>6 DEF TypeOK, WakeSpuriously
<1> QED
  BY <1>1, <1>2, <1>3, <1>4, <1>5, <1>6 DEF Consume

(* Every variable of the queue always holds what it should; in particular the *)
(* consumer holds the mutex only inside a pop and never in its sleep.         *)
THEOREM TypeCorrect == Spec => []TypeOK
<1>1. TypeOK /\ [Next]_vars => TypeOK'
  <2> SUFFICES ASSUME TypeOK, [Next]_vars PROVE TypeOK'
    OBVIOUS
  <2>1. CASE \E p \in Producers : Push(p)
    BY <2>1, TypePush
  <2>2. CASE Consume \/ WakeSpuriously
    BY <2>2, TypeConsume
  <2>3. CASE UNCHANGED vars
    BY <2>3 DEF TypeOK, vars
  <2> QED
    BY <2>1, <2>2, <2>3 DEF Next
<1> QED
  BY TypeInit, <1>1, PTL DEF Spec

-----------------------------------------------------------------------------
(* A step of a push keeps the promise of NoLostWakeup: what makes a message    *)
(* visible also puts the producer on its way to notify and to signal.         *)
LEMMA WakeupPush ==
    ASSUME TypeOK, NoLostWakeup, NEW p \in Producers, Push(p)
    PROVE  NoLostWakeup'
<1>1. CASE Enqueue(p)
  <2>1. ppc'[p] = "notify"
    BY <1>1 DEF Enqueue, TypeOK
  <2> QED
    BY <2>1 DEF NoLostWakeup
<1>2. CASE Notify(p)
  <2>1. ~asleep' /\ ppc'[p] = "signal"
    BY <1>2 DEF Notify, TypeOK
  <2> QED
    BY <2>1 DEF NoLostWakeup
<1>3. CASE Signal(p)
  <2>1. \A q \in Producers : ppc[q] = "notify" => ppc'[q] = "notify"
    BY <1>3 DEF Signal, TypeOK
  <2>2. consumer' = "Interface" => event'
    BY <1>3 DEF Signal
  <2>3. UNCHANGED <<queue, asleep, consumer, cpc>>
    BY <1>3 DEF Signal
  <2> QED
    BY <2>1, <2>2, <2>3 DEF NoLostWakeup
<1> QED
  BY <1>1, <1>2, <1>3 DEF Push

(* The consumer waits or goes to sleep only with its queue empty. *)
LEMMA WakeupConsume ==
    ASSUME TypeOK, NoLostWakeup, Consume \/ WakeSpuriously
    PROVE  NoLostWakeup'
<1>1. CASE Wake
  BY <1>1 DEF TypeOK, NoLostWakeup, Wake
<1>2. CASE Drain
  BY <1>2 DEF TypeOK, NoLostWakeup, Drain
<1>3. CASE Sleep
  BY <1>3 DEF TypeOK, NoLostWakeup, Sleep
<1>4. CASE Pop
  BY <1>4 DEF TypeOK, NoLostWakeup, Pop
<1>5. CASE PopSignal
  <2>1. ~asleep' /\ cpc' # "wait"
    BY <1>5 DEF TypeOK, PopSignal
  <2> QED
    BY <2>1 DEF NoLostWakeup
<1>6. CASE WakeSpuriously
  BY <1>6 DEF TypeOK, NoLostWakeup, WakeSpuriously
<1> QED
  BY <1>1, <1>2, <1>3, <1>4, <1>5, <1>6 DEF Consume

(* Unlocking before notify_one and SetEvent, as push() does, loses no wake-up, *)
(* with any number of producers and any interleaving.                         *)
THEOREM WakeupsCorrect == Spec => []NoLostWakeup
<1>1. Init => NoLostWakeup
  BY DEF Init, NoLostWakeup
<1>2. TypeOK /\ NoLostWakeup /\ [Next]_vars => NoLostWakeup'
  <2> SUFFICES ASSUME TypeOK, NoLostWakeup, [Next]_vars PROVE NoLostWakeup'
    OBVIOUS
  <2>1. CASE \E p \in Producers : Push(p)
    BY <2>1, WakeupPush
  <2>2. CASE Consume \/ WakeSpuriously
    BY <2>2, WakeupConsume
  <2>3. CASE UNCHANGED vars
    BY <2>3 DEF NoLostWakeup, vars
  <2> QED
    BY <2>1, <2>2, <2>3 DEF Next
<1> QED
  BY <1>1, <1>2, TypeCorrect, PTL DEF Spec

-----------------------------------------------------------------------------
(* The strengthening that makes OnlyAppSleeps inductive: between the look at   *)
(* the queue and the pop nobody but the consumer itself takes a message away.  *)
LookedFirst ==
    consumer # "App" =>
        /\ ~asleep
        /\ cpc = "pop" /\ ~holds => queue # <<>>

(* Only the consumer makes the queue shorter, and only from "pop". *)
LEMMA LookedStep ==
    ASSUME TypeOK, LookedFirst, [Next]_vars
    PROVE  LookedFirst'
<1>1. ASSUME NEW p \in Producers, Push(p) PROVE LookedFirst'
  <2>1. CASE Enqueue(p)
    <3>1. queue' # <<>>
      BY <2>1 DEF Enqueue, TypeOK
    <3> QED
      BY <2>1, <3>1 DEF LookedFirst, Enqueue
  <2>2. CASE Notify(p)
    BY <2>2 DEF LookedFirst, Notify
  <2>3. CASE Signal(p)
    BY <2>3 DEF LookedFirst, Signal
  <2> QED
    BY <1>1, <2>1, <2>2, <2>3 DEF Push
<1>2. CASE Wake
  BY <1>2 DEF LookedFirst, Wake
<1>3. CASE Drain
  BY <1>3 DEF LookedFirst, Drain
<1>4. CASE Sleep
  BY <1>4 DEF LookedFirst, Sleep
<1>5. CASE Pop
  BY <1>5 DEF LookedFirst, Pop
<1>6. CASE PopSignal
  BY <1>6 DEF LookedFirst, PopSignal
<1>7. CASE WakeSpuriously
  BY <1>7 DEF LookedFirst, WakeSpuriously
<1>8. CASE UNCHANGED vars
  BY <1>8 DEF LookedFirst, vars
<1> QED
  BY <1>1, <1>2, <1>3, <1>4, <1>5, <1>6, <1>7, <1>8 DEF Next, Consume

(* The interface and the groups, which test empty() before they call           *)
(* wait_and_pop, never block in it.                                           *)
THEOREM SleepCorrect == Spec => []OnlyAppSleeps
<1>1. Init => LookedFirst
  BY DEF Init, LookedFirst
<1>2. LookedFirst => OnlyAppSleeps
  BY DEF LookedFirst, OnlyAppSleeps
<1> QED
  BY <1>1, <1>2, TypeCorrect, LookedStep, PTL DEF Spec

-----------------------------------------------------------------------------
(* Fifo of a sequence s of messages and the numbers c of messages pushed.      *)
InTurn(s, c) ==
    \A p \in Producers :
        /\ \A k \in 1..Len(s) : s[k][1] = p => s[k][2] \in 1..c[p]
        /\ \A i \in 1..c[p] : \E k \in 1..Len(s) : s[k] = <<p, i>>
        /\ \A k, l \in 1..Len(s) : k < l /\ s[k][1] = p /\ s[l][1] = p => s[k][2] < s[l][2]

LEMMA FifoMeaning == TypeOK => (Fifo <=> InTurn(Pushed, sent))
<1> SUFFICES ASSUME TypeOK PROVE Fifo <=> InTurn(Pushed, sent)
  OBVIOUS
<1>1. Pushed \in Seq(Message)
  BY DEF TypeOK, Pushed
<1>2. DOMAIN Pushed = 1..Len(Pushed) /\ \A k \in 1..Len(Pushed) : Pushed[k] \in Producers \X Nat
  BY <1>1 DEF Message
<1>3. \A p \in Producers, i \in Nat, k \in 1..Len(Pushed) :
         Pushed[k] = <<p, i>> <=> Pushed[k][1] = p /\ Pushed[k][2] = i
  BY <1>2
<1>4. ASSUME NEW p \in Producers
      PROVE  {Pushed[k][2] : k \in From(p)} = 1..sent[p] <=>
                 /\ \A k \in 1..Len(Pushed) : Pushed[k][1] = p => Pushed[k][2] \in 1..sent[p]
                 /\ \A i \in 1..sent[p] : \E k \in 1..Len(Pushed) : Pushed[k] = <<p, i>>
  <2>1. \A k : k \in From(p) <=> k \in 1..Len(Pushed) /\ Pushed[k][1] = p
    BY <1>2 DEF From
  <2>2. 1..sent[p] \subseteq Nat
    BY DEF TypeOK
  <2>3. \A i \in 1..sent[p], k \in 1..Len(Pushed) :
           Pushed[k] = <<p, i>> <=> k \in From(p) /\ Pushed[k][2] = i
    BY <1>3, <2>1, <2>2
  <2> DEFINE A == {Pushed[k][2] : k \in From(p)}
  <2>4. A \subseteq 1..sent[p] <=>
            \A k \in 1..Len(Pushed) : Pushed[k][1] = p => Pushed[k][2] \in 1..sent[p]
    BY <2>1
  <2>5. 1..sent[p] \subseteq A <=>
            \A i \in 1..sent[p] : \E k \in 1..Len(Pushed) : Pushed[k] = <<p, i>>
    <3>1. ASSUME NEW i \in 1..sent[p]
          PROVE  i \in A <=> \E k \in 1..Len(Pushed) : Pushed[k] = <<p, i>>
      <4>1. i \in A <=> \E k \in From(p) : Pushed[k][2] = i
        OBVIOUS
      <4> QED BY <4>1, <2>1, <2>3
    <3> HIDE DEF A
    <3> QED BY <3>1
  <2> QED BY <2>4, <2>5
<1>5. ASSUME NEW p \in Producers
      PROVE  (\A k, l \in From(p) : k < l => Pushed[k][2] < Pushed[l][2]) <=>
                 \A k, l \in 1..Len(Pushed) :
                     k < l /\ Pushed[k][1] = p /\ Pushed[l][1] = p => Pushed[k][2] < Pushed[l][2]
  BY <1>2 DEF From
<1> QED BY <1>4, <1>5 DEF Fifo, InTurn

(* A push takes its turn after all of that producer's. *)
LEMMA PushInTurn ==
    ASSUME NEW s \in Seq(Message), NEW c \in [Producers -> Nat], NEW p \in Producers, InTurn(s, c)
    PROVE  InTurn(Append(s, <<p, c[p] + 1>>), [c EXCEPT ![p] = @ + 1])
<1> DEFINE m == <<p, c[p] + 1>>
           t == Append(s, m)
           d == [c EXCEPT ![p] = @ + 1]
<1>1. m \in Message /\ m[1] = p /\ m[2] = c[p] + 1 /\ c[p] \in Nat
  BY DEF Message
<1>2. /\ Len(s) \in Nat /\ Len(t) = Len(s) + 1 /\ t[Len(s) + 1] = m
      /\ \A k \in 1..Len(s) : t[k] = s[k]
  BY <1>1
<1>3. d[p] = c[p] + 1 /\ \A q \in Producers \ {p} : d[q] = c[q]
  OBVIOUS
<1> HIDE DEF t, d
<1>4. ASSUME NEW q \in Producers, NEW k \in 1..Len(t), t[k][1] = q PROVE t[k][2] \in 1..d[q]
  <2>1. CASE k \in 1..Len(s)
    <3>1. t[k][2] \in 1..c[q]
      BY <1>2, <1>4, <2>1 DEF InTurn
    <3> QED BY <1>1, <1>3, <3>1
  <2>2. CASE k = Len(s) + 1
    BY <1>1, <1>2, <1>3, <1>4, <2>2
  <2> QED BY <1>2, <2>1, <2>2
<1>5. ASSUME NEW q \in Producers, NEW i \in 1..d[q] PROVE \E k \in 1..Len(t) : t[k] = <<q, i>>
  <2>1. CASE i \in 1..c[q]
    <3>1. PICK k \in 1..Len(s) : s[k] = <<q, i>>
      BY <2>1 DEF InTurn
    <3> QED BY <1>2, <3>1
  <2>2. CASE i \notin 1..c[q]
    <3>1. q = p /\ i = c[p] + 1
      BY <1>1, <1>3, <2>2
    <3>2. t[Len(s) + 1] = <<q, i>> /\ Len(s) + 1 \in 1..Len(t)
      BY <1>2, <3>1
    <3> QED BY <3>2
  <2> QED BY <2>1, <2>2
<1>6. ASSUME NEW q \in Producers, NEW k \in 1..Len(t), NEW l \in 1..Len(t),
             k < l, t[k][1] = q, t[l][1] = q
      PROVE  t[k][2] < t[l][2]
  <2>1. k \in 1..Len(s) /\ t[k] = s[k]
    BY <1>2, <1>6
  <2>2. CASE l \in 1..Len(s)
    BY <1>2, <1>6, <2>1, <2>2 DEF InTurn
  <2>3. CASE l = Len(s) + 1
    <3>1. q = p /\ t[l][2] = c[p] + 1
      BY <1>1, <1>2, <1>6, <2>3
    <3>2. s[k][2] \in 1..c[p]
      BY <1>6, <2>1, <3>1 DEF InTurn
    <3> QED BY <1>1, <2>1, <3>1, <3>2
  <2> QED BY <1>2, <2>2, <2>3
<1> QED BY <1>4, <1>5, <1>6 DEF InTurn, t, d

LEMMA ConcatIndex ==
    ASSUME NEW S, NEW a \in Seq(S), NEW b \in Seq(S)
    PROVE  /\ a \o b \in Seq(S) /\ Len(a \o b) = Len(a) + Len(b)
           /\ \A k \in 1..Len(a) : (a \o b)[k] = a[k]
           /\ \A k \in (Len(a) + 1)..(Len(a) + Len(b)) : (a \o b)[k] = b[k - Len(a)]
OBVIOUS

(* Taking the oldest message moves it from one part to the other. *)
LEMMA PopSame ==
    ASSUME NEW S, NEW a \in Seq(S), NEW b \in Seq(S), b # <<>>
    PROVE  Append(a, Head(b)) \o Tail(b) = a \o b
<1> DEFINE x == Append(a, Head(b))
           y == Tail(b)
           p == x \o y
           q == a \o b
<1>1. /\ x \in Seq(S) /\ Len(x) = Len(a) + 1 /\ x[Len(a) + 1] = b[1]
      /\ \A k \in 1..Len(a) : x[k] = a[k]
  OBVIOUS
<1>2. /\ y \in Seq(S) /\ Len(y) = Len(b) - 1 /\ Len(b) \in Nat /\ Len(b) > 0 /\ Len(a) \in Nat
      /\ \A k \in 1..(Len(b) - 1) : y[k] = b[k + 1]
  OBVIOUS
<1> HIDE DEF x, y
<1>3. /\ p \in Seq(S) /\ Len(p) = Len(x) + Len(y)
      /\ \A k \in 1..Len(x) : p[k] = x[k]
      /\ \A k \in (Len(x) + 1)..(Len(x) + Len(y)) : p[k] = y[k - Len(x)]
  BY <1>1, <1>2, ConcatIndex
<1>4. /\ q \in Seq(S) /\ Len(q) = Len(a) + Len(b)
      /\ \A k \in 1..Len(a) : q[k] = a[k]
      /\ \A k \in (Len(a) + 1)..(Len(a) + Len(b)) : q[k] = b[k - Len(a)]
  BY ConcatIndex
<1> HIDE DEF p, q
<1>5. Len(p) = Len(q)
  BY <1>1, <1>2, <1>3, <1>4
<1>6. ASSUME NEW k \in 1..Len(q) PROVE p[k] = q[k]
  <2>1. CASE k \in 1..Len(a)
    <3>1. k \in 1..Len(x)
      BY <1>1, <1>2, <2>1
    <3>2. p[k] = x[k] /\ x[k] = a[k] /\ q[k] = a[k]
      BY <1>1, <1>3, <1>4, <2>1, <3>1
    <3> QED BY <3>2
  <2>2. CASE k = Len(a) + 1
    <3>1. k \in 1..Len(x) /\ k \in (Len(a) + 1)..(Len(a) + Len(b)) /\ k - Len(a) = 1
      BY <1>1, <1>2, <2>2
    <3>2. p[k] = x[k] /\ x[k] = b[1]
      BY <1>1, <1>3, <2>2, <3>1
    <3>3. q[k] = b[1]
      BY <1>4, <3>1
    <3> QED BY <3>2, <3>3
  <2>3. CASE k \in (Len(a) + 2)..(Len(a) + Len(b))
    <3> DEFINE l == k - (Len(a) + 1)
    <3>1. l \in 1..(Len(b) - 1) /\ k - Len(a) = l + 1
      BY <1>2, <2>3
    <3>2. p[k] = y[l]
      BY <1>1, <1>2, <1>3, <2>3
    <3>3. q[k] = b[l + 1]
      BY <1>2, <1>4, <2>3, <3>1
    <3> HIDE DEF l
    <3> QED BY <1>2, <3>1, <3>2, <3>3
  <2> QED BY <1>2, <1>4, <2>1, <2>2, <2>3
<1>7. p = q
  BY <1>3, <1>4, <1>5, <1>6
<1> QED BY <1>7 DEF p, q, x, y

(* Every message of every producer is delivered at most once and in order.     *)
THEOREM FifoCorrect == Spec => []Fifo
<1> DEFINE FifoInv == InTurn(Pushed, sent)
<1>1. Init => FifoInv
  <2> SUFFICES ASSUME Init PROVE FifoInv
    OBVIOUS
  <2>1. Len(Pushed) = 0 /\ \A p \in Producers : sent[p] = 0
    BY DEF Init, Pushed
  <2> QED BY <2>1 DEF InTurn
<1>2. TypeOK /\ FifoInv /\ [Next]_vars => FifoInv'
  <2> SUFFICES ASSUME TypeOK, FifoInv, [Next]_vars PROVE FifoInv'
    OBVIOUS
  <2>0. queue \in Seq(Message) /\ popped \in Seq(Message) /\ sent \in [Producers -> Nat]
    BY DEF TypeOK
  <2>1. CASE \E p \in Producers : Enqueue(p)
    <3>1. PICK p \in Producers : Enqueue(p)
      BY <2>1
    <3> DEFINE m == <<p, sent[p] + 1>>
    <3>2. /\ m \in Message /\ queue' = Append(queue, m) /\ popped' = popped
          /\ sent' = [sent EXCEPT ![p] = @ + 1]
      BY <2>0, <3>1 DEF Enqueue, Message
    <3>3. Pushed \in Seq(Message) /\ Pushed' = Append(Pushed, m)
      <4> HIDE DEF m
      <4> QED BY <2>0, <3>2 DEF Pushed
    <3>4. InTurn(Append(Pushed, m), sent')
      BY <2>0, <3>2, <3>3, PushInTurn
    <3> QED BY <3>3, <3>4
  <2>2. CASE Pop
    <3>1. Pushed' = Pushed /\ sent' = sent
      BY <2>0, <2>2, PopSame DEF Pop, Pushed
    <3> QED BY <3>1
  <2>3. CASE UNCHANGED <<queue, popped, sent>>
    BY <2>3 DEF Pushed
  <2> QED
    BY <2>1, <2>2, <2>3
       DEF Next, Push, Notify, Signal, Consume, Wake, Drain, Sleep, PopSignal, WakeSpuriously, vars
<1> QED BY <1>1, <1>2, FifoMeaning, TypeCorrect, PTL DEF Spec

-----------------------------------------------------------------------------
(* Putting a message on the queue is the send of a channel, taking one is its *)
(* take, and nothing else that is done to a queue shows.                      *)
LEMMA StepOfChannel ==
    ASSUME TypeOK, [Next]_vars
    PROVE  [Line!ChannelNext]_(Line!channelVars)
<1>1. ASSUME NEW p \in Producers, Enqueue(p) PROVE Line!Send(p)
  <2>1. sent' = [sent EXCEPT ![p] = @ + 1] /\ sent'[p] = sent[p] + 1 /\ UNCHANGED popped
    BY <1>1 DEF Enqueue, TypeOK
  <2> QED BY <1>1, <2>1 DEF Enqueue, Line!Send
<1>2. CASE Pop
  BY <1>2 DEF Pop, Line!Take, Line!ChannelNext
<1>3. ASSUME UNCHANGED <<queue, sent, popped>> PROVE UNCHANGED Line!channelVars
  BY <1>3 DEF Line!channelVars
<1>4. \/ \E p \in Producers : Enqueue(p)
      \/ Pop
      \/ UNCHANGED <<queue, sent, popped>>
  BY DEF Next, Push, Notify, Signal, Consume, Wake, Drain, Sleep, PopSignal, WakeSpuriously, vars
<1> QED BY <1>1, <1>2, <1>3, <1>4 DEF Line!ChannelNext

(* Any number of threads may push at once, and the consumer may sleep, look   *)
(* or hold the mutex: what they make of the queue is a channel's life.        *)
THEOREM ChannelCorrect == Spec => Line!ChannelSpec
<1>1. Init => Line!ChannelInit
  BY DEF Init, Line!ChannelInit
<1> QED BY <1>1, StepOfChannel, TypeCorrect, PTL DEF Spec, Line!ChannelSpec
=============================================================================
