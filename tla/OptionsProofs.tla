----------------------------- MODULE OptionsProofs -----------------------------
(***************************************************************************)
(* Theorems about Options, for every set of command lines.                 *)
(***************************************************************************)
EXTENDS Options, PacketTimeProofs, TLAPS

Modes == {"run", "help", "show", "version"}

(* What the proofs need of the variables' types. *)
Typed ==
    /\ command \in Command
    /\ line \in Nat \ {0}
    /\ mode \in Modes

(* A pause that can be compared: all of the time, and all of the date or none. *)
Comparable ==
    {t \in PacketTimes : /\ Has(t, "ss") /\ Has(t, "ms")
                         /\ Undated(t) \/ \A f \in Date : Has(t, f)}

-----------------------------------------------------------------------------
(* LastNotified yields one of the names, or the default: here for the options *)
(* that set the mode.                                                         *)
LEMMA ModeNotified ==
    ASSUME NEW given
    PROVE  LastNotified(given, <<"help", "show", "version">>, "run") \in Modes
<1> DEFINE names == <<"help", "show", "version">>
<1> DEFINE hits == {i \in DOMAIN names : names[i] \in given}
<1>1. DOMAIN names = 1..3 /\ \A i \in 1..3 : names[i] \in Modes
    BY DEF Modes
<1>2. CASE hits = {}
    BY <1>2 DEF LastNotified, Modes
<1>3. CASE hits # {}
  <2>1. \E i \in hits : \A k \in hits : k <= i
    <3>1. hits \subseteq {1, 2, 3}
        BY <1>1
    <3>2. CASE 3 \in hits
        BY <3>1, <3>2
    <3>3. CASE 3 \notin hits /\ 2 \in hits
        BY <3>1, <3>3
    <3>4. CASE 3 \notin hits /\ 2 \notin hits
        BY <3>1, <3>4, <1>3
    <3> QED BY <3>2, <3>3, <3>4
  <2>2. (CHOOSE i \in hits : \A k \in hits : k <= i) \in hits
    BY <2>1
  <2>3. names[CHOOSE i \in hits : \A k \in hits : k <= i] \in Modes
    BY <2>2, <1>1
  <2>4. LastNotified(given, names, "run") = names[CHOOSE i \in hits : \A k \in hits : k <= i]
    BY <1>3 DEF LastNotified
  <2> QED BY <2>3, <2>4
<1> QED BY <1>2, <1>3

LEMMA TypedKept == Typed /\ [Next]_vars => Typed'
<1> SUFFICES ASSUME Typed, [Next]_vars PROVE Typed'
    OBVIOUS
<1> USE DEF Typed
<1>1. CASE Base
    BY <1>1, ModeNotified DEF Base
<1>2. CASE ReadChannelLine
    BY <1>2 DEF ReadChannelLine, NextChannelLine
<1>3. CASE EndChannelFile
    BY <1>3 DEF EndChannelFile
<1>4. CASE ReadPauseLine
    BY <1>4 DEF ReadPauseLine, NextPauseLine
<1>5. CASE EndPauseFile
    BY <1>5 DEF EndPauseFile
<1>6. CASE ChannelOptions
    BY <1>6 DEF ChannelOptions
<1>7. CASE MulticastOptions
    BY <1>7 DEF MulticastOptions
<1>8. CASE InterfaceOptions
    BY <1>8 DEF InterfaceOptions
<1>9. CASE End
    BY <1>9 DEF End, Modes
<1>10. CASE UNCHANGED vars
    BY <1>10 DEF vars
<1> QED BY <1>1, <1>2, <1>3, <1>4, <1>5, <1>6, <1>7, <1>8, <1>9, <1>10 DEF Next

LEMMA TypedFirst == Init => Typed
BY CommandsAssumption DEF Init, Typed, Modes

-----------------------------------------------------------------------------
(* What is filled in for the parts left out makes any pause that is accepted  *)
(* one that can be compared.                                                  *)
LEMMA FilledComparable ==
    ASSUME NEW l \in PauseLine, Matches(l), ~Malformed(l.at)
    PROVE  Filled(l.at) \in Comparable
<1> DEFINE at == l.at
<1>1. at \in PacketTimes
    BY DEF PauseLine
<1>2. DOMAIN at = Field /\ \A f \in Field : at[f] \in Stamp
    BY <1>1 DEF PacketTimes
<1>3. /\ DOMAIN Filled(at) = Field
      /\ \A f \in Field : Filled(at)[f] \in Stamp
      /\ Filled(at).ss >= 0 /\ Filled(at).ms >= 0
      /\ \A f \in Date : Has(Filled(at), f) <=> Has(at, f)
  <2>1. /\ DOMAIN Filled(at) = Field
        /\ Filled(at).y = IF Has(at, "y") /\ at.y < 1000 THEN at.y + 2000 ELSE at.y
        /\ Filled(at).ss = IF Has(at, "ss") THEN at.ss ELSE 0
        /\ Filled(at).ms = IF Has(at, "ms") THEN at.ms ELSE 0
        /\ \A f \in Field \ {"y", "ss", "ms"} : Filled(at)[f] = at[f]
    BY <1>2 DEF Filled, Field
  <2>2. at.y \in Stamp /\ at.ss \in Stamp /\ at.ms \in Stamp
    BY <1>2 DEF Field
  <2>3. /\ Filled(at).y \in Stamp /\ Filled(at).ss \in Stamp /\ Filled(at).ms \in Stamp
        /\ Filled(at).ss >= 0 /\ Filled(at).ms >= 0
        /\ Filled(at).y > -1 <=> at.y > -1
    BY <2>1, <2>2 DEF Has, Stamp, Missing
  <2>4. Filled(at).m = at.m /\ Filled(at).d = at.d
    BY <2>1 DEF Field
  <2> QED BY <1>2, <2>1, <2>3, <2>4 DEF Has, Missing, Date
<1>4. Has(Filled(at), "ss") /\ Has(Filled(at), "ms")
  <2>1. Filled(at).ss \in Stamp /\ Filled(at).ms \in Stamp
    BY <1>3 DEF Field
  <2> QED BY <1>3, <2>1 DEF Has, Missing, Stamp
<1>5. Filled(at) \in PacketTimes
  <2> DEFINE year == IF Has(at, "y") /\ at.y < 1000 THEN at.y + 2000 ELSE at.y
             second == IF Has(at, "ss") THEN at.ss ELSE 0
             milli == IF Has(at, "ms") THEN at.ms ELSE 0
  <2>1. Filled(at) = [at EXCEPT !.y = year, !.ss = second, !.ms = milli]
    BY DEF Filled
  <2>2. year \in Stamp /\ second \in Stamp /\ milli \in Stamp
    BY <1>2 DEF Field, Has, Stamp, Missing
  <2> HIDE DEF year, second, milli
  <2> QED BY <1>1, <2>1, <2>2 DEF PacketTimes
<1>6. Undated(Filled(at)) \/ \A f \in Date : Has(Filled(at), f)
    BY <1>3 DEF Matches, Undated
<1> QED BY <1>4, <1>5, <1>6 DEF Comparable

(* Comparable pauses have one of two shapes. *)
LEMMA TwoShapes ==
    ASSUME NEW t \in Comparable
    PROVE  Shape(t) = IF Undated(t) THEN {"ss", "ms"} ELSE Optional
BY DEF Comparable, Shape, Undated, Optional, Date

PausesInv == Typed /\ pauses \in Seq(Comparable)

LEMMA PausesInductive == PausesInv /\ [Next]_vars => PausesInv'
<1> SUFFICES ASSUME PausesInv, [Next]_vars PROVE PausesInv'
    OBVIOUS
<1>1. Typed'
    BY TypedKept DEF PausesInv
<1>2. CASE ReadPauseLine
  <2> DEFINE l == command.pauseFile[line]
  <2>1. l \in PauseLine
    BY <1>2 DEF PausesInv, Typed, Command, ReadPauseLine, NextPauseLine
  <2>2. CASE Matches(l) /\ ~Malformed(l.at)
    <3>1. Filled(l.at) \in Comparable
        BY <2>1, <2>2, FilledComparable
    <3>2. pauses' = Append(pauses, Filled(l.at))
        BY <1>2, <2>2 DEF ReadPauseLine
    <3> QED BY <1>1, <3>1, <3>2 DEF PausesInv
  <2>3. CASE ~(Matches(l) /\ ~Malformed(l.at))
    BY <1>1, <1>2, <2>3 DEF ReadPauseLine, PausesInv
  <2> QED BY <2>2, <2>3
<1>3. CASE ~ReadPauseLine
  <2>1. UNCHANGED pauses
    BY <1>3 DEF Next, vars, Base, ReadChannelLine, NextChannelLine, EndChannelFile,
                EndPauseFile, ChannelOptions, MulticastOptions, InterfaceOptions, End
  <2> QED BY <1>1, <2>1 DEF PausesInv
<1> QED BY <1>2, <1>3

(* options.cpp:321-366, for every pause file: two pauses that are kept can be *)
(* compared member by member unless one has a date and the other has none.    *)
(* So PacketTimeProofs!SameShapeOrdered applies to files that do not mix them. *)
THEOREM PausesCorrect == Spec => []PausesComparable
<1>1. Init => PausesInv
    BY TypedFirst DEF PausesInv, Init
<1>2. PausesInv => PausesComparable
  <2> SUFFICES ASSUME PausesInv, NEW i \in DOMAIN pauses, NEW k \in DOMAIN pauses,
                      Undated(pauses[i]) <=> Undated(pauses[k])
               PROVE  Shape(pauses[i]) = Shape(pauses[k])
    BY DEF PausesComparable
  <2>1. pauses[i] \in Comparable /\ pauses[k] \in Comparable
    BY DEF PausesInv
  <2> QED BY <2>1, TwoShapes
<1> QED BY <1>1, <1>2, PausesInductive, PTL DEF Spec

-----------------------------------------------------------------------------
(* The lines that stand for a refusal when they are read. *)
GoodChannelLine(i) ==
    LET fields == command.channelFile[i]
    IN  Blank(fields) \/ (Usable(fields) /\ ~CastFails(fields))

GoodPauseLine(i) ==
    Matches(command.pauseFile[i]) => ~Malformed(command.pauseFile[i].at)

PastChannels == {"pauseFile", "channelOptions", "multicastOptions", "interfaceOptions",
                 "end", "run"}

PastPauses == PastChannels \ {"pauseFile"}

(* What has been read is good, or it has left its mark. *)
RefusalInv ==
    /\ Typed
    /\ pc = "base" => line = 1
    /\ pc = "channelFile" /\ Active =>
           \A i \in DOMAIN command.channelFile : i < line => GoodChannelLine(i)
    /\ pc \in PastChannels /\ Active => \A i \in DOMAIN command.channelFile : GoodChannelLine(i)
    /\ pc = "pauseFile" /\ Active /\ ~anyFailed =>
           \A i \in DOMAIN command.pauseFile : i < line => GoodPauseLine(i)
    /\ pc \in PastPauses /\ Active => \A i \in DOMAIN command.pauseFile : GoodPauseLine(i)
    /\ pc = "run" => Active

LEMMA RefusalInductive == RefusalInv /\ [Next]_vars => RefusalInv'
<1> SUFFICES ASSUME RefusalInv, [Next]_vars PROVE RefusalInv'
    OBVIOUS
<1> USE DEF PastChannels, PastPauses
<1>1. Typed /\ Typed'
    BY TypedKept DEF RefusalInv
<1>2. /\ DOMAIN command.channelFile = 1..Len(command.channelFile)
      /\ DOMAIN command.pauseFile = 1..Len(command.pauseFile)
      /\ Len(command.channelFile) \in Nat
      /\ Len(command.pauseFile) \in Nat
      /\ line \in Nat \ {0}
    BY <1>1 DEF Typed, Command
<1>3. CASE Base
    BY <1>1, <1>2, <1>3 DEF Base, RefusalInv, GoodChannelLine, GoodPauseLine, Active, Typed
<1>4. CASE ReadChannelLine
  <2>1. /\ pc' \in {"channelFile", "failed"}
        /\ command' = command /\ line' = line + 1 /\ mode' = mode
    BY <1>4 DEF ReadChannelLine, NextChannelLine
  <2>2. pc' = "channelFile" /\ Active' => Active /\ GoodChannelLine(line)
    BY <1>4 DEF ReadChannelLine, NextChannelLine, GoodChannelLine, Active
  <2>3. pc = "channelFile"
    BY <1>4 DEF ReadChannelLine, NextChannelLine
  <2>4. pc' = "channelFile" /\ Active' =>
            (\A i \in DOMAIN command.channelFile : i < line => GoodChannelLine(i))
    BY <2>2, <2>3 DEF RefusalInv
  <2>5. pc' = "channelFile" /\ Active' =>
            (\A i \in DOMAIN command.channelFile : i < line + 1 => GoodChannelLine(i))
    BY <1>2, <2>2, <2>4
  <2> QED BY <1>1, <2>1, <2>5 DEF RefusalInv, GoodChannelLine
<1>5. CASE EndChannelFile
  <2>1. /\ pc = "channelFile" /\ pc' = "pauseFile" /\ line' = 1
        /\ UNCHANGED <<command, mode, abort, anyFailed>>
        /\ Active => line > Len(command.channelFile)
    BY <1>5 DEF EndChannelFile, Active
  <2>2. Active => \A i \in DOMAIN command.channelFile : GoodChannelLine(i)
    BY <1>2, <2>1 DEF RefusalInv
  <2>3. ~\E i \in DOMAIN command.pauseFile : i < 1
    BY <1>2
  <2> QED BY <1>1, <2>1, <2>2, <2>3 DEF RefusalInv, GoodChannelLine, GoodPauseLine, Active
<1>6. CASE ReadPauseLine
  <2>1. /\ pc = "pauseFile" /\ pc' = "pauseFile" /\ line' = line + 1
        /\ UNCHANGED <<command, mode, abort>>
    BY <1>6 DEF ReadPauseLine, NextPauseLine
  <2>2. ~anyFailed' => ~anyFailed /\ GoodPauseLine(line)
    BY <1>6, <1>1 DEF ReadPauseLine, GoodPauseLine, Typed
  <2>3. Active' /\ ~anyFailed' =>
            \A i \in DOMAIN command.pauseFile : i < line + 1 => GoodPauseLine(i)
    BY <1>2, <2>1, <2>2 DEF RefusalInv, Active
  <2> QED BY <1>1, <2>1, <2>3 DEF RefusalInv, GoodChannelLine, GoodPauseLine, Active
<1>7. CASE EndPauseFile
  <2>1. /\ pc = "pauseFile" /\ UNCHANGED <<command, mode, abort>>
        /\ pc' = IF anyFailed THEN "refused" ELSE "channelOptions"
        /\ Active => line > Len(command.pauseFile)
    BY <1>7 DEF EndPauseFile
  <2>2. Active /\ ~anyFailed => \A i \in DOMAIN command.pauseFile : GoodPauseLine(i)
    BY <1>2, <2>1 DEF RefusalInv
  <2> QED BY <1>1, <2>1, <2>2 DEF RefusalInv, GoodChannelLine, GoodPauseLine, Active
<1>8. CASE ChannelOptions \/ MulticastOptions \/ InterfaceOptions
  <2>1. /\ pc \in {"channelOptions", "multicastOptions", "interfaceOptions"}
        /\ pc' \in {"multicastOptions", "interfaceOptions", "end", "failed"}
        /\ UNCHANGED <<command, mode, abort>>
    BY <1>8 DEF ChannelOptions, MulticastOptions, InterfaceOptions
  <2> QED BY <1>1, <2>1 DEF RefusalInv, GoodChannelLine, GoodPauseLine, Active
<1>9. CASE End
  <2>1. /\ pc = "end" /\ pc' \in {"run", "refused"} /\ UNCHANGED <<command, abort>>
        /\ pc' = "run" => Active /\ mode' = mode
    BY <1>1, <1>9 DEF End, Active, Typed, Modes
  <2> QED BY <1>1, <2>1 DEF RefusalInv, GoodChannelLine, GoodPauseLine, Active
<1>10. CASE UNCHANGED vars
    BY <1>1, <1>10 DEF vars, RefusalInv, GoodChannelLine, GoodPauseLine, Active
<1> QED BY <1>3, <1>4, <1>5, <1>6, <1>7, <1>8, <1>9, <1>10 DEF Next

LEMMA RefusalFirst == Init => RefusalInv
BY TypedFirst DEF RefusalInv, Init, PastChannels, PastPauses

-----------------------------------------------------------------------------
(* Tokens, as an equation for the tokens found up to each field.              *)
IsTokenizing(f, s, m) == f = [i \in 0..m |-> IF i = 0 THEN <<>> ELSE NextToken(f[i - 1], s[i])]

LEMMA TokenizingExists ==
    ASSUME NEW s, NEW l \in Nat
    PROVE  \E f : IsTokenizing(f, s, l)
<1> DEFINE Bad == {k \in Nat : ~ \E f : IsTokenizing(f, s, k)}
<1>1. SUFFICES ASSUME Bad # {} PROVE FALSE
    OBVIOUS
<1>2. PICK m \in Bad : \A k \in Bad : m <= k
    BY <1>1, LeastNatural
<1>3. IsTokenizing([i \in 0..0 |-> <<>>], s, 0)
    BY DEF IsTokenizing
<1>4. m # 0
    BY <1>3
<1>5. PICK f : IsTokenizing(f, s, m - 1)
    BY <1>2, <1>4
<1> DEFINE g == [i \in 0..m |-> IF i = m THEN NextToken(f[m - 1], s[m]) ELSE f[i]]
           h == [i \in 0..m |-> IF i = 0 THEN <<>> ELSE NextToken(g[i - 1], s[i])]
<1>6. ASSUME NEW i \in 0..m PROVE g[i] = h[i]
  <2>1. CASE i = 0
    BY <2>1, <1>4, <1>5 DEF IsTokenizing
  <2>2. CASE i = m
    <3>1. h[i] = NextToken(g[m - 1], s[m])
        BY <2>2, <1>4
    <3>2. g[m - 1] = f[m - 1]
        BY <1>4
    <3> QED BY <3>1, <3>2, <2>2
  <2>3. CASE i # 0 /\ i # m
    <3>1. i \in 1..(m - 1) /\ g[i] = f[i] /\ g[i - 1] = f[i - 1]
        BY <2>3
    <3>2. f[i] = NextToken(f[i - 1], s[i])
        BY <3>1, <1>5 DEF IsTokenizing
    <3> QED BY <3>1, <3>2
  <2> QED BY <2>1, <2>2, <2>3
<1>7. g = h
    BY <1>6
<1>8. IsTokenizing(g, s, m)
    BY <1>7 DEF IsTokenizing
<1> QED BY <1>2, <1>8

(* What is found in the first k fields: texts that are not empty, and all of  *)
(* the fields if none is empty.                                               *)
TokensSoFar(t, s, k) ==
    /\ t \in Seq(Text)
    /\ (\A i \in 1..k : s[i] # "") => t = [i \in 1..k |-> s[i]]

LEMMA NextTokenFound ==
    ASSUME NEW t, NEW s, NEW k \in Nat, s[k + 1] \in Text, TokensSoFar(t, s, k)
    PROVE  TokensSoFar(NextToken(t, s[k + 1]), s, k + 1)
<1>1. t \in Seq(Text)
    BY DEF TokensSoFar
<1>2. NextToken(t, s[k + 1]) \in Seq(Text)
  <2>1. \A x \in Text : Append(t, x) \in Seq(Text)
    BY <1>1
  <2>2. NextToken(t, s[k + 1]) \in {t, Append(t, s[k + 1])}
    BY DEF NextToken
  <2> QED BY <1>1, <2>1, <2>2
<1>3. ASSUME \A i \in 1..k + 1 : s[i] # ""
      PROVE  NextToken(t, s[k + 1]) = [i \in 1..k + 1 |-> s[i]]
  <2>1. k + 1 \in 1..k + 1 /\ \A i \in 1..k : i \in 1..k + 1
    OBVIOUS
  <2>2. t = [i \in 1..k |-> s[i]] /\ NextToken(t, s[k + 1]) = Append(t, s[k + 1])
    BY <1>3, <2>1 DEF NextToken, TokensSoFar
  <2>3. Len(t) = k
    BY <1>1, <2>2
  <2>4. Append(t, s[k + 1]) = [i \in 1..k + 1 |-> IF i = k + 1 THEN s[k + 1] ELSE t[i]]
    BY <1>1, <2>3
  <2>5. \A i \in 1..k + 1 : i # k + 1 => t[i] = s[i]
    BY <2>2
  <2> QED BY <2>2, <2>4, <2>5
<1> QED BY <1>2, <1>3 DEF TokensSoFar

LEMMA TokensFound ==
    ASSUME NEW s \in Seq(Text)
    PROVE  TokensSoFar(Tokens(s), s, Len(s))
<1> DEFINE l == Len(s)
           f == CHOOSE f : IsTokenizing(f, s, l)
<1>1. l \in Nat /\ \A i \in 1..l : s[i] \in Text
    OBVIOUS
<1>2. IsTokenizing(f, s, l)
    BY <1>1, TokenizingExists
<1>3. Tokens(s) = f[l]
    BY DEF Tokens, IsTokenizing
<1> HIDE DEF f, l
<1> DEFINE Bad == {k \in 0..l : ~TokensSoFar(f[k], s, k)}
<1>4. Bad = {}
  <2>1. SUFFICES ASSUME Bad # {} PROVE FALSE
    OBVIOUS
  <2>2. Bad \in SUBSET Nat
    BY <1>1
  <2>3. PICK k \in Bad : \A i \in Bad : k <= i
    <3> HIDE DEF Bad
    <3> QED BY <2>1, <2>2, LeastNatural
  <2>4. k \in 0..l /\ ~TokensSoFar(f[k], s, k)
    BY <2>3
  <2>5. CASE k = 0
    <3>1. f[0] = <<>>
      BY <1>1, <1>2 DEF IsTokenizing
    <3>2. <<>> \in Seq(Text) /\ [i \in 1..0 |-> s[i]] = <<>>
      OBVIOUS
    <3> QED BY <2>4, <2>5, <3>1, <3>2 DEF TokensSoFar
  <2>6. CASE k # 0
    <3>1. k \in 1..l /\ k - 1 \in Nat /\ k - 1 \in 0..l /\ ~(k <= k - 1) /\ (k - 1) + 1 = k
      BY <1>1, <2>4, <2>6
    <3>2. TokensSoFar(f[k - 1], s, k - 1)
      BY <2>3, <3>1
    <3>3. f[k] = NextToken(f[k - 1], s[k]) /\ s[k] \in Text
      BY <1>1, <1>2, <3>1 DEF IsTokenizing
    <3>4. TokensSoFar(NextToken(f[k - 1], s[k]), s, k)
      BY <3>1, <3>2, <3>3, NextTokenFound
    <3> QED BY <2>4, <3>3, <3>4
  <2> QED BY <2>5, <2>6
<1>5. l \in 0..l
    BY <1>1
<1>6. TokensSoFar(f[l], s, l)
    BY <1>4, <1>5
<1> QED BY <1>3, <1>6 DEF l

-----------------------------------------------------------------------------
(* Type correctness.                                                          *)
Channel == [name : Text, file : Text, group : Text, port : Nat \cup {-1}]

LEMMA DescTyped ==
    ASSUME NEW name \in Text, NEW file \in Text, NEW group \in Text, NEW port \in Nat \cup {-1}
    PROVE  Desc(name, file, group, port) \in Channel
BY DEF Desc, Channel

LEMMA DescribedTyped ==
    ASSUME NEW fields \in Seq(Text), Usable(fields)
    PROVE  Described(fields) \in Channel
<1> DEFINE t == Tokens(fields)
<1>1. t \in Seq(Text) /\ Len(t) \in {3, 4}
    BY TokensFound DEF TokensSoFar, Usable
<1>2. \A x \in Text : Number[x] \in Nat \cup {-1}
    BY TextAssumption
<1>3. "" \in Text
    BY TextAssumption
<1>4. Described(fields) = IF Len(t) = 4
                          THEN Desc(t[1], t[2], t[3], Number[t[4]])
                          ELSE Desc("", t[1], t[2], AsCharacter(Number[t[3]]))
    BY DEF Described
<1> HIDE DEF t
<1>5. \A n \in Int : AsCharacter(n) \in Nat \cup {-1}
    BY DEF AsCharacter
<1>8. \A i \in 1..Len(t) : t[i] \in Text
    BY <1>1
<1>6. CASE Len(t) = 4
  <2>1. t[1] \in Text /\ t[2] \in Text /\ t[3] \in Text /\ t[4] \in Text
    BY <1>6, <1>8
  <2> QED BY <1>2, <1>4, <1>6, <2>1, DescTyped
<1>7. CASE Len(t) = 3
  <2>1. t[1] \in Text /\ t[2] \in Text /\ t[3] \in Text
    BY <1>7, <1>8
  <2>2. Number[t[3]] \in Int
    BY <1>2, <2>1
  <2>3. AsCharacter(Number[t[3]]) \in Nat \cup {-1}
    BY <1>5, <2>2
  <2>4. Len(t) # 4
    BY <1>7
  <2>5. Described(fields) = Desc("", t[1], t[2], AsCharacter(Number[t[3]]))
    BY <1>4, <2>4
  <2> QED BY <1>3, <2>1, <2>3, <2>5, DescTyped
<1> QED BY <1>1, <1>6, <1>7

LEMMA ReportsNotified ==
    ASSUME NEW given
    PROVE  LastNotified(given, <<"all", "channels", "groups">>, "groups")
               \in {"all", "channels", "groups"}
<1> DEFINE names == <<"all", "channels", "groups">>
<1> DEFINE hits == {i \in DOMAIN names : names[i] \in given}
<1>1. DOMAIN names = 1..3 /\ \A i \in 1..3 : names[i] \in {"all", "channels", "groups"}
    OBVIOUS
<1>2. CASE hits = {}
    BY <1>2 DEF LastNotified
<1>3. CASE hits # {}
  <2>1. \E i \in hits : \A k \in hits : k <= i
    <3>1. hits \subseteq {1, 2, 3}
        BY <1>1
    <3>2. CASE 3 \in hits
        BY <3>1, <3>2
    <3>3. CASE 3 \notin hits /\ 2 \in hits
        BY <3>1, <3>3
    <3>4. CASE 3 \notin hits /\ 2 \notin hits
        BY <3>1, <3>4, <1>3
    <3> QED BY <3>2, <3>3, <3>4
  <2>2. (CHOOSE i \in hits : \A k \in hits : k <= i) \in hits
    BY <2>1
  <2>3. names[CHOOSE i \in hits : \A k \in hits : k <= i] \in {"all", "channels", "groups"}
    BY <2>2, <1>1
  <2>4. LastNotified(given, names, "groups") = names[CHOOSE i \in hits : \A k \in hits : k <= i]
    BY <1>3 DEF LastNotified
  <2> QED BY <2>3, <2>4
<1> QED BY <1>2, <1>3

LEMMA ChannelsTyped ==
    ASSUME TypeOK, [Next]_vars
    PROVE  channels' \in Seq(Channel)
<1>1. channels \in Seq(Channel)
    BY DEF TypeOK, Channel
<1>2. CASE ReadChannelLine
  <2> DEFINE fields == command.channelFile[line]
  <2>1. fields \in Seq(Text)
    <3>1. command.channelFile \in Seq(Seq(Text))
      BY DEF TypeOK, Command
    <3>2. line \in 1..Len(command.channelFile)
      BY <1>2 DEF ReadChannelLine, NextChannelLine, TypeOK
    <3> DEFINE U == Seq(Text)
    <3>3. command.channelFile \in Seq(U)
      BY <3>1
    <3> HIDE DEF U
    <3>4. command.channelFile[line] \in U
      BY <3>2, <3>3
    <3> QED BY <3>4 DEF U
  <2>2. channels' = channels \/ (Usable(fields) /\ channels' = Append(channels, Described(fields)))
    BY <1>2 DEF ReadChannelLine
  <2> HIDE DEF fields
  <2>3. Usable(fields) => Described(fields) \in Channel
    BY <2>1, DescribedTyped
  <2> QED BY <1>1, <2>2, <2>3
<1>3. CASE ChannelOptions
  <2> DEFINE new == Desc(command.inline.name, command.inline.file, command.inline.group,
                         Number[command.inline.port])
  <2>1. channels' = channels \/ channels' = Append(channels, new)
    BY <1>3 DEF ChannelOptions
  <2>2. command.inline \in Inline
    BY DEF TypeOK, Command
  <2>3. new \in Channel
    BY <2>2, TextAssumption DEF Inline, Desc, Channel
  <2> HIDE DEF new
  <2> QED BY <1>1, <2>1, <2>3
<1>4. CASE ~ReadChannelLine /\ ~ChannelOptions
  <2>1. UNCHANGED channels
    BY <1>4 DEF Next, vars, Base, ReadPauseLine, NextPauseLine, EndChannelFile,
                EndPauseFile, MulticastOptions, InterfaceOptions, End
  <2> QED BY <1>1, <2>1
<1> QED BY <1>2, <1>3, <1>4

LEMMA PausesTyped ==
    ASSUME TypeOK, [Next]_vars
    PROVE  pauses' \in Seq(PacketTimes)
<1>1. pauses \in Seq(PacketTimes)
    BY DEF TypeOK
<1>2. CASE ReadPauseLine
  <2> DEFINE l == command.pauseFile[line]
  <2>1. l \in PauseLine
    BY <1>2 DEF TypeOK, Command, ReadPauseLine, NextPauseLine
  <2>2. \/ pauses' = pauses
        \/ Matches(l) /\ ~Malformed(l.at) /\ pauses' = Append(pauses, Filled(l.at))
    BY <1>2 DEF ReadPauseLine
  <2> HIDE DEF l
  <2>3. Matches(l) /\ ~Malformed(l.at) => Filled(l.at) \in PacketTimes
    BY <2>1, FilledComparable DEF Comparable
  <2> QED BY <1>1, <2>2, <2>3
<1>3. CASE ~ReadPauseLine
  <2>1. UNCHANGED pauses
    BY <1>3 DEF Next, vars, Base, ReadChannelLine, NextChannelLine, EndChannelFile,
                EndPauseFile, ChannelOptions, MulticastOptions, InterfaceOptions, End
  <2> QED BY <1>1, <2>1
<1> QED BY <1>2, <1>3

LEMMA PaceTyped ==
    ASSUME TypeOK, [Next]_vars
    PROVE  pace' \in [ttl : Nat, delay : Nat]
<1>1. pace \in [ttl : Nat, delay : Nat]
    BY DEF TypeOK
<1>2. CASE MulticastOptions
  <2> DEFINE value(text) == IF Active /\ text # "" THEN Number[text] ELSE 0
             t == value(command.ttl)
             d == value(command.delay)
  <2>1. pace' = pace \/ (t # -1 /\ d # -1 /\ pace' = [ttl |-> t, delay |-> d])
    BY <1>2 DEF MulticastOptions
  <2>2. command.ttl \in Text /\ command.delay \in Text
    BY DEF TypeOK, Command
  <2>3. t \in Nat \cup {-1} /\ d \in Nat \cup {-1}
    BY <2>2, TextAssumption
  <2> HIDE DEF t, d
  <2> QED BY <1>1, <2>1, <2>3
<1>3. CASE ~MulticastOptions
  <2>1. UNCHANGED pace
    BY <1>3 DEF Next, vars, Base, ReadChannelLine, NextChannelLine, EndChannelFile, ReadPauseLine,
                NextPauseLine, EndPauseFile, ChannelOptions, InterfaceOptions, End
  <2> QED BY <1>1, <2>1
<1> QED BY <1>2, <1>3

LEMMA TypeKept == TypeOK /\ [Next]_vars => TypeOK'
<1> SUFFICES ASSUME TypeOK, [Next]_vars PROVE TypeOK'
    OBVIOUS
<1>1. Typed'
    BY TypedKept DEF TypeOK, Typed, Modes
<1>2. pc' \in Sections \cup {"run", "refused", "failed"}
    BY DEF TypeOK, Sections, Next, vars, Base, ReadChannelLine, NextChannelLine, EndChannelFile,
           ReadPauseLine, NextPauseLine, EndPauseFile, ChannelOptions, MulticastOptions,
           InterfaceOptions, End
<1>3. abort' \in BOOLEAN /\ anyFailed' \in BOOLEAN
    BY DEF TypeOK, Next, vars, Base, ReadChannelLine, NextChannelLine, EndChannelFile,
           ReadPauseLine, NextPauseLine, EndPauseFile, ChannelOptions, MulticastOptions,
           InterfaceOptions, End
<1>4. showType' \in {"all", "channels", "groups"}
    BY ReportsNotified
       DEF TypeOK, Next, vars, Base, ReadChannelLine, NextChannelLine, EndChannelFile,
           ReadPauseLine, NextPauseLine, EndPauseFile, ChannelOptions, MulticastOptions,
           InterfaceOptions, End
<1> QED
    BY <1>1, <1>2, <1>3, <1>4, ChannelsTyped, PausesTyped, PaceTyped
       DEF TypeOK, Typed, Modes, Channel

LEMMA TypeFirst == Init => TypeOK
<1> SUFFICES ASSUME Init PROVE TypeOK
    OBVIOUS
<1>1. channels = <<>> /\ pauses = <<>> /\ pace = [ttl |-> 0, delay |-> 0]
    BY DEF Init
<1>2. <<>> \in Seq([name : Text, file : Text, group : Text, port : Nat \cup {-1}])
    OBVIOUS
<1>3. <<>> \in Seq(PacketTimes) /\ [ttl |-> 0, delay |-> 0] \in [ttl : Nat, delay : Nat]
    OBVIOUS
<1>4. Typed
    BY TypedFirst
<1>5. pc = "base" /\ abort = FALSE /\ anyFailed = FALSE /\ showType = "groups"
    BY DEF Init
<1>6. /\ channels \in Seq([name : Text, file : Text, group : Text, port : Nat \cup {-1}])
      /\ pauses \in Seq(PacketTimes) /\ pace \in [ttl : Nat, delay : Nat]
    BY <1>1, <1>2, <1>3
<1> QED BY <1>4, <1>5, <1>6 DEF TypeOK, Typed, Modes, Sections

(* For every set of command lines, whatever the files hold.                   *)
THEOREM TypeCorrect == Spec => []TypeOK
BY TypeFirst, TypeKept, PTL DEF Spec

-----------------------------------------------------------------------------
(* A line as documented is read as it is written.                            *)
LEMMA DocumentedLine ==
    ASSUME NEW fields \in Seq(Text), DocumentedChannel(fields)
    PROVE  /\ Usable(fields) /\ ~CastFails(fields)
           /\ Described(fields) = Desc(fields[1], fields[2], fields[3], Number[fields[4]])
<1>0. Len(fields) = 4
    BY DEF DocumentedChannel
<1>1. \A i \in 1..Len(fields) : fields[i] # ""
  <2>1. "" \notin Range(fields)
    BY DEF DocumentedChannel
  <2>2. DOMAIN fields = 1..Len(fields)
    OBVIOUS
  <2> QED BY <2>1, <2>2 DEF Range
<1>2. Tokens(fields) = [i \in 1..Len(fields) |-> fields[i]]
    BY <1>1, TokensFound DEF TokensSoFar
<1>3. fields = [i \in 1..Len(fields) |-> fields[i]]
    OBVIOUS
<1>4. Tokens(fields) = fields
    BY <1>2, <1>3
<1>5. Len(fields) # 3
    BY <1>0
<1> QED BY <1>0, <1>4, <1>5 DEF Usable, CastFails, Described

LEMMA DocumentedMoment ==
    ASSUME NEW l, DocumentedPause(l)
    PROVE  Matches(l) /\ ~Malformed(l.at)
BY DEF DocumentedPause, Matches

(* The test for a channel on the command line never succeeds. *)
LEMMA NeverPresent == ~AnyPresent(Unassigned)
<1>1. /\ DOMAIN Unassigned = {"name", "file", "group", "port"}
      /\ Unassigned["name"] = "" /\ Unassigned["file"] = ""
      /\ Unassigned["group"] = "" /\ Unassigned["port"] = ""
    BY DEF Unassigned
<1>2. \A f \in DOMAIN Unassigned : Unassigned[f] = ""
    BY <1>1, Zenon
<1> QED BY <1>2 DEF AnyPresent

(* What the first k lines of the files say. *)
ChannelsTold(c, k) ==
    [i \in 1..k |-> LET t == c.channelFile[i] IN Desc(t[1], t[2], t[3], Number[t[4]])]

PausesTold(c, k) == [i \in 1..k |-> Filled(c.pauseFile[i].at)]

ModeTold(c) == IF "show" \in c.modes THEN "show" ELSE "run"

(* How many of their lines have been read. *)
ChannelsRead ==
    CASE pc = "base" -> 0 [] pc = "channelFile" -> line - 1 [] OTHER -> Len(command.channelFile)

PausesRead ==
    CASE pc \in {"base", "channelFile"} -> 0
      [] pc = "pauseFile" -> line - 1
      [] OTHER -> Len(command.pauseFile)

(* Inductive form of ReadAsDocumented. *)
ReadSoFar ==
    /\ pc \in Sections \cup {"run"} /\ ~abort /\ ~anyFailed
    /\ pc # "base" => mode = ModeTold(command)
    /\ pc = "base" => line = 1
    /\ pc = "channelFile" => line <= Len(command.channelFile) + 1
    /\ pc = "pauseFile" => line <= Len(command.pauseFile) + 1
    /\ channels = ChannelsTold(command, ChannelsRead)
    /\ pauses = PausesTold(command, PausesRead)

ReadInv == TypeOK /\ (Documented(command) => ReadSoFar)

LEMMA DocumentedMode ==
    ASSUME NEW c, Documented(c)
    PROVE  LastNotified(c.modes, <<"help", "show", "version">>, "run") = ModeTold(c)
<1> DEFINE names == <<"help", "show", "version">>
           hits == {i \in DOMAIN names : names[i] \in c.modes}
<1>1. c.modes \subseteq {"show"}
    BY DEF Documented
<1>2. DOMAIN names = {1, 2, 3} /\ names[1] = "help" /\ names[2] = "show" /\ names[3] = "version"
    OBVIOUS
<1>3. CASE "show" \in c.modes
  <2>1. hits = {2}
    BY <1>1, <1>2, <1>3
  <2>2. (CHOOSE i \in {2} : \A k \in {2} : k <= i) = 2
    OBVIOUS
  <2>3. LastNotified(c.modes, names, "run") = names[CHOOSE i \in hits : \A k \in hits : k <= i]
    BY <2>1 DEF LastNotified
  <2> QED BY <1>2, <1>3, <2>1, <2>2, <2>3 DEF ModeTold
<1>4. CASE "show" \notin c.modes
  <2>1. hits = {}
    BY <1>1, <1>2, <1>4
  <2>2. LastNotified(c.modes, names, "run") = "run"
    BY <2>1 DEF LastNotified
  <2> QED BY <1>4, <2>2 DEF ModeTold
<1> QED BY <1>3, <1>4

LEMMA ReadInductive == ReadInv /\ [Next]_vars => ReadInv'
<1> SUFFICES ASSUME ReadInv, [Next]_vars PROVE ReadInv'
    OBVIOUS
<1>1. TypeOK /\ TypeOK'
    BY TypeKept DEF ReadInv
<1>2. command' = command
    BY DEF Next, vars, Base, ReadChannelLine, NextChannelLine, EndChannelFile,
           ReadPauseLine, NextPauseLine, EndPauseFile, ChannelOptions, MulticastOptions,
           InterfaceOptions, End
<1> SUFFICES ASSUME Documented(command) PROVE ReadSoFar'
    BY <1>1, <1>2 DEF ReadInv
<1>3. ReadSoFar
    BY DEF ReadInv
<1>4. /\ command.channelFile \in Seq(Seq(Text)) /\ command.pauseFile \in Seq(PauseLine)
      /\ Len(command.channelFile) \in Nat /\ Len(command.pauseFile) \in Nat
      /\ line \in Nat \ {0}
    BY <1>1 DEF TypeOK, Command
<1>5. ModeTold(command) \in {"run", "show"}
    BY DEF ModeTold
<1>6. pc \notin {"base"} => Active
    BY <1>3, <1>5 DEF ReadSoFar, Active
<1> DEFINE Counted == ChannelsRead' = ChannelsRead /\ PausesRead' = PausesRead
<1>7. ASSUME Counted, UNCHANGED <<channels, pauses>>
      PROVE  /\ channels' = ChannelsTold(command', ChannelsRead')
             /\ pauses' = PausesTold(command', PausesRead')
    BY <1>2, <1>3, <1>7 DEF ReadSoFar
<1> HIDE DEF Counted
<1>8. CASE Base
  <2>1. /\ pc = "base" /\ pc' = "channelFile" /\ mode' = ModeTold(command)
        /\ UNCHANGED <<line, abort, anyFailed, channels, pauses>>
    BY <1>8, DocumentedMode DEF Base
  <2>2. Counted
    BY <1>3, <2>1 DEF Counted, ChannelsRead, PausesRead, ReadSoFar
  <2> QED BY <1>2, <1>3, <1>4, <1>7, <2>1, <2>2 DEF ReadSoFar, Sections
<1>9. CASE ReadChannelLine
  <2> DEFINE fields == command.channelFile[line]
  <2>1. /\ pc = "channelFile" /\ line <= Len(command.channelFile) /\ line' = line + 1
        /\ UNCHANGED <<mode, anyFailed, pauses>>
    BY <1>9 DEF ReadChannelLine, NextChannelLine
  <2>2. fields \in Seq(Text) /\ DocumentedChannel(fields)
    <3>1. line \in 1..Len(command.channelFile) /\ line \in DOMAIN command.channelFile
      BY <1>4, <2>1
    <3> DEFINE U == Seq(Text)
    <3>2. command.channelFile \in Seq(U)
      BY <1>4
    <3> HIDE DEF U
    <3>3. command.channelFile[line] \in U
      BY <3>1, <3>2
    <3> QED BY <3>1, <3>3 DEF U, Documented
  <2>3. /\ pc' = "channelFile" /\ ~abort'
        /\ channels' = Append(channels, Described(fields))
    BY <1>3, <1>9, <2>1, <2>2, DocumentedLine DEF ReadChannelLine, ReadSoFar
  <2>4. ChannelsRead = line - 1 /\ ChannelsRead' = line /\ PausesRead' = PausesRead
    BY <1>4, <2>1, <2>3 DEF ChannelsRead, PausesRead
  <2>5. channels' = ChannelsTold(command, line)
    <3> DEFINE new == Desc(fields[1], fields[2], fields[3], Number[fields[4]])
    <3>1. channels = ChannelsTold(command, line - 1) /\ channels \in Seq(Channel)
      BY <1>1, <1>3, <2>4 DEF ReadSoFar, TypeOK, Channel
    <3>2. channels' = Append(channels, new)
      BY <2>2, <2>3, DocumentedLine
    <3>3. Len(channels) = line - 1 /\ line - 1 \in Nat
      BY <1>4, <3>1 DEF ChannelsTold
    <3>4. \A i \in 1..(line - 1) :
              channels[i] = Desc(command.channelFile[i][1], command.channelFile[i][2],
                                 command.channelFile[i][3], Number[command.channelFile[i][4]])
      BY <3>1 DEF ChannelsTold
    <3> HIDE DEF new
    <3>5. channels' = [i \in 1..line |-> IF i = line THEN new ELSE channels[i]]
      BY <1>4, <3>1, <3>2, <3>3
    <3>6. \A i \in 1..line : i # line => i \in 1..(line - 1)
      BY <1>4
    <3> QED BY <3>4, <3>5, <3>6 DEF new, ChannelsTold
  <2> HIDE DEF fields
  <2> QED BY <1>2, <1>3, <1>4, <2>1, <2>3, <2>4, <2>5 DEF ReadSoFar, Sections
<1>10. CASE EndChannelFile
  <2>1. /\ pc = "channelFile" /\ pc' = "pauseFile" /\ line' = 1
        /\ UNCHANGED <<mode, abort, anyFailed, channels, pauses>>
        /\ line > Len(command.channelFile)
    BY <1>3, <1>5, <1>10 DEF EndChannelFile, ReadSoFar
  <2>2. Counted
    BY <1>2, <1>3, <1>4, <2>1 DEF Counted, ChannelsRead, PausesRead, ReadSoFar
  <2> QED BY <1>2, <1>3, <1>4, <1>7, <2>1, <2>2 DEF ReadSoFar, Sections
<1>11. CASE ReadPauseLine
  <2> DEFINE l == command.pauseFile[line]
  <2>1. /\ pc = "pauseFile" /\ pc' = pc /\ line <= Len(command.pauseFile) /\ line' = line + 1
        /\ UNCHANGED <<mode, abort, channels>>
    BY <1>11 DEF ReadPauseLine, NextPauseLine
  <2>2. DocumentedPause(l)
    <3>1. line \in DOMAIN command.pauseFile
      BY <1>4, <2>1
    <3> QED BY <3>1 DEF Documented
  <2>3. ~anyFailed' /\ pauses' = Append(pauses, Filled(l.at))
    BY <1>3, <1>11, <2>2, DocumentedMoment DEF ReadPauseLine, ReadSoFar
  <2>4. PausesRead = line - 1 /\ PausesRead' = line /\ ChannelsRead' = ChannelsRead
    BY <1>2, <1>4, <2>1 DEF ChannelsRead, PausesRead
  <2>5. pauses' = PausesTold(command, line)
    <3> DEFINE new == Filled(l.at)
    <3>1. pauses = PausesTold(command, line - 1) /\ pauses \in Seq(PacketTimes)
      BY <1>1, <1>3, <2>4 DEF ReadSoFar, TypeOK
    <3>2. pauses' = Append(pauses, new)
      BY <2>3
    <3>3. Len(pauses) = line - 1 /\ line - 1 \in Nat
      BY <1>4, <3>1 DEF PausesTold
    <3>4. \A i \in 1..(line - 1) : pauses[i] = Filled(command.pauseFile[i].at)
      BY <3>1 DEF PausesTold
    <3> HIDE DEF new
    <3>5. pauses' = [i \in 1..line |-> IF i = line THEN new ELSE pauses[i]]
      BY <1>4, <3>1, <3>2, <3>3
    <3>6. \A i \in 1..line : i # line => i \in 1..(line - 1)
      BY <1>4
    <3> QED BY <3>4, <3>5, <3>6 DEF new, PausesTold
  <2> HIDE DEF l
  <2> QED BY <1>2, <1>3, <1>4, <2>1, <2>3, <2>4, <2>5 DEF ReadSoFar, Sections
<1>12. CASE EndPauseFile
  <2>1. /\ pc = "pauseFile" /\ pc' = "channelOptions" /\ line' = line
        /\ UNCHANGED <<mode, abort, anyFailed, channels, pauses>>
        /\ line > Len(command.pauseFile)
    BY <1>3, <1>6, <1>12 DEF EndPauseFile, ReadSoFar
  <2>2. Counted
    BY <1>2, <1>3, <1>4, <2>1 DEF Counted, ChannelsRead, PausesRead, ReadSoFar
  <2> QED BY <1>2, <1>3, <1>4, <1>7, <2>1, <2>2 DEF ReadSoFar, Sections
<1>13. CASE ChannelOptions \/ MulticastOptions \/ InterfaceOptions \/ End
  <2>1. ~AnyPresent(Unassigned)
    BY NeverPresent
  <2>2. /\ pc \in {"channelOptions", "multicastOptions", "interfaceOptions", "end"}
        /\ UNCHANGED <<abort, anyFailed, pauses>>
    BY <1>13 DEF ChannelOptions, MulticastOptions, InterfaceOptions, End
  <2>3. channels' = channels /\ mode' = mode
    BY <1>3, <1>13, <2>1 DEF ChannelOptions, MulticastOptions, InterfaceOptions, End, ReadSoFar
  <2>4. pc' \in {"multicastOptions", "interfaceOptions", "end", "run"}
    <3>1. CASE ChannelOptions
      BY <2>1, <3>1 DEF ChannelOptions
    <3>2. CASE MulticastOptions
      <4>1. /\ command.ttl = "" \/ Number[command.ttl] # -1
            /\ command.delay = "" \/ Number[command.delay] # -1
        BY DEF Documented
      <4> DEFINE t == IF Active /\ command.ttl # "" THEN Number[command.ttl] ELSE 0
                 d == IF Active /\ command.delay # "" THEN Number[command.delay] ELSE 0
                 read == [ttl |-> t, delay |-> d]
      <4>0. 0 # -1
        OBVIOUS
      <4>2. t # -1 /\ d # -1
        BY <4>0, <4>1, Zenon
      <4>3. -1 \notin {read.ttl, read.delay}
        BY <4>2
      <4>4. IF -1 \in {read.ttl, read.delay} THEN pc' = "failed" ELSE pc' = "interfaceOptions"
        BY <3>2 DEF MulticastOptions
      <4> QED BY <4>3, <4>4
    <3>3. CASE InterfaceOptions
      BY <3>3 DEF InterfaceOptions
    <3>4. CASE End
      BY <1>3, <1>5, <3>4 DEF End, ReadSoFar
    <3> QED BY <1>13, <3>1, <3>2, <3>3, <3>4
  <2>5. Counted
    BY <1>2, <2>2, <2>4 DEF Counted, ChannelsRead, PausesRead
  <2> QED BY <1>2, <1>3, <1>7, <2>2, <2>3, <2>4, <2>5 DEF ReadSoFar, Sections
<1>14. CASE UNCHANGED vars
  <2>1. UNCHANGED <<pc, line, mode, abort, anyFailed, channels, pauses>>
    BY <1>14 DEF vars
  <2>2. Counted
    BY <1>2, <2>1 DEF Counted, ChannelsRead, PausesRead
  <2> QED BY <1>2, <1>3, <1>7, <2>1, <2>2 DEF ReadSoFar
<1> QED BY <1>8, <1>9, <1>10, <1>11, <1>12, <1>13, <1>14 DEF Next

(* README 2.2 to 2.5, for files of any length: a command as documented is     *)
(* never refused, and what xcast starts from is what its files say.           *)
THEOREM ReadCorrect == Spec => []ReadAsDocumented
<1>1. Init => ReadInv
  <2> SUFFICES ASSUME Init PROVE ReadInv
    OBVIOUS
  <2>1. pc = "base" /\ line = 1 /\ ~abort /\ ~anyFailed /\ channels = <<>> /\ pauses = <<>>
    BY DEF Init
  <2>2. ChannelsRead = 0 /\ PausesRead = 0
    BY <2>1 DEF ChannelsRead, PausesRead
  <2>3. ChannelsTold(command, 0) = <<>> /\ PausesTold(command, 0) = <<>>
    BY DEF ChannelsTold, PausesTold
  <2>4. ReadSoFar
    BY <2>1, <2>2, <2>3 DEF ReadSoFar, Sections
  <2> QED BY <2>4, TypeFirst DEF ReadInv
<1>2. ReadInv => ReadAsDocumented
  <2> SUFFICES ASSUME ReadInv, Documented(command)
               PROVE  /\ pc \notin {"refused", "failed"}
                      /\ pc = "run" =>
                          /\ channels = [i \in DOMAIN command.channelFile |->
                                 LET t == command.channelFile[i]
                                 IN  Desc(t[1], t[2], t[3], Number[t[4]])]
                          /\ pauses = [i \in DOMAIN command.pauseFile |->
                                           Filled(command.pauseFile[i].at)]
                          /\ mode = "show" <=> "show" \in command.modes
    BY DEF ReadAsDocumented
  <2>1. ReadSoFar
    BY DEF ReadInv
  <2>2. /\ DOMAIN command.channelFile = 1..Len(command.channelFile)
        /\ DOMAIN command.pauseFile = 1..Len(command.pauseFile)
    BY DEF ReadInv, TypeOK, Command
  <2>3. pc \notin {"refused", "failed"}
    BY <2>1 DEF ReadSoFar, Sections
  <2>4. ASSUME pc = "run"
        PROVE  /\ channels = ChannelsTold(command, Len(command.channelFile))
               /\ pauses = PausesTold(command, Len(command.pauseFile))
               /\ mode = ModeTold(command)
    BY <2>1, <2>4 DEF ReadSoFar, ChannelsRead, PausesRead
  <2> QED BY <2>2, <2>3, <2>4 DEF ChannelsTold, PausesTold, ModeTold
<1> QED BY <1>1, <1>2, ReadInductive, PTL DEF Spec

-----------------------------------------------------------------------------
(* Enumerations of the lines read so far.                                    *)

(* One line more is put at the end. *)
LEMMA EnumerationGrows ==
    ASSUME NEW n \in Nat, NEW k \in Nat, NEW S \in SUBSET (1..k - 1),
           NEW at \in [1..n -> S], Enumerates(at, S)
    PROVE  /\ [i \in 1..n + 1 |-> IF i = n + 1 THEN k ELSE at[i]] \in [1..n + 1 -> S \cup {k}]
           /\ Enumerates([i \in 1..n + 1 |-> IF i = n + 1 THEN k ELSE at[i]], S \cup {k})
<1> DEFINE new == [i \in 1..n + 1 |-> IF i = n + 1 THEN k ELSE at[i]]
           T == S \cup {k}
<1>1. /\ \A i \in 1..n + 1 : i = n + 1 \/ i \in 1..n
      /\ n + 1 \in 1..n + 1
      /\ \A i \in 1..n : i \in 1..n + 1 /\ i # n + 1
    OBVIOUS
<1>2. DOMAIN new = 1..n + 1 /\ new[n + 1] = k /\ \A i \in 1..n : new[i] = at[i]
    BY <1>1
<1>3. \A i \in 1..n : at[i] \in S
    OBVIOUS
<1>4. new \in [1..n + 1 -> T]
    BY <1>1, <1>3
<1> HIDE DEF new
<1>5. Range(new) = T
  <2>1. S = {at[i] : i \in 1..n}
    BY DEF Enumerates, Range
  <2>2. Range(new) = {new[i] : i \in 1..n + 1}
    BY <1>2 DEF Range
  <2> QED BY <1>1, <1>2, <2>1, <2>2
<1>6. ASSUME NEW i \in 1..n + 1, NEW j \in 1..n + 1, i < j
      PROVE  new[i] < new[j]
  <2>1. i \in 1..n
    BY <1>6
  <2>2. CASE j = n + 1
    <3>1. at[i] \in 1..k - 1
      BY <1>3, <2>1
    <3> QED BY <1>2, <2>1, <2>2, <3>1
  <2>3. CASE j \in 1..n
    BY <1>2, <1>6, <2>1, <2>3 DEF Enumerates
  <2> QED BY <1>1, <2>2, <2>3
<1>7. Enumerates(new, T)
    BY <1>2, <1>5, <1>6 DEF Enumerates
<1> QED BY <1>4, <1>7 DEF new

(* The lines read as channels and as pauses, up to line k. *)
ChannelsUpTo(k) == {i \in ChannelLinesRead : i <= k}

PausesUpTo(k) == {i \in PauseLinesRead : i <= k}

ListedInv ==
    /\ TypeOK
    /\ pc = "base" => line = 1
    /\ pc \in {"base", "channelFile"} => pauses = <<>>
    /\ pc = "base" => channels = <<>>
    /\ pc = "channelFile" => ChannelsFrom(ChannelsUpTo(line - 1))
    /\ pc \in PastChannels /\ Active => ChannelsFrom(ChannelLinesRead)
    /\ pc = "pauseFile" => PausesFrom(PausesUpTo(line - 1))
    /\ pc \in PastPauses /\ Active => PausesFrom(PauseLinesRead)

LEMMA ChannelLineListed ==
    ASSUME TypeOK, ReadChannelLine, pc' = "channelFile", ChannelsFrom(ChannelsUpTo(line - 1))
    PROVE  ChannelsFrom(ChannelsUpTo(line - 1))'
<1> DEFINE fields == command.channelFile[line]
           S == ChannelsUpTo(line - 1)
<1>1. /\ line \in Nat \ {0} /\ Len(command.channelFile) \in Nat
      /\ DOMAIN command.channelFile = 1..Len(command.channelFile)
      /\ channels \in Seq(Channel)
    BY DEF TypeOK, Command, Channel
<1>2. /\ line <= Len(command.channelFile) /\ line' = line + 1 /\ command' = command
      /\ channels' = IF Usable(fields) /\ ~CastFails(fields)
                     THEN Append(channels, Described(fields)) ELSE channels
    BY DEF ReadChannelLine, NextChannelLine
<1>3. ChannelsUpTo(line - 1)' = ChannelsUpTo(line)
    BY <1>1, <1>2 DEF ChannelsUpTo, ChannelLinesRead
<1>4. PICK at \in [DOMAIN channels -> S] :
          /\ Enumerates(at, S)
          /\ \A k \in DOMAIN channels : channels[k] = Described(command.channelFile[at[k]])
    BY DEF ChannelsFrom
<1>5. S \in SUBSET (1..line - 1) /\ line - 1 \in Nat /\ (line - 1) + 1 = line
    BY <1>1 DEF ChannelsUpTo, ChannelLinesRead
<1>6. line \in ChannelLinesRead <=> Usable(fields) /\ ~CastFails(fields)
    BY <1>1, <1>2 DEF ChannelLinesRead
<1>7. ChannelsUpTo(line) = IF line \in ChannelLinesRead THEN S \cup {line} ELSE S
    BY <1>1 DEF ChannelsUpTo, ChannelLinesRead
<1>8. CASE line \in ChannelLinesRead
  <2> DEFINE n == Len(channels)
             new == [i \in 1..n + 1 |-> IF i = n + 1 THEN line ELSE at[i]]
             T == S \cup {line}
  <2>1. n \in Nat /\ DOMAIN channels = 1..n
    BY <1>1
  <2>2. /\ DOMAIN channels' = 1..n + 1 /\ channels'[n + 1] = Described(fields)
        /\ \A k \in 1..n : channels'[k] = channels[k]
    <3>1. channels' = Append(channels, Described(fields))
      BY <1>2, <1>6, <1>8
    <3> HIDE DEF fields
    <3> QED BY <1>1, <3>1
  <2>3. new \in [1..n + 1 -> T] /\ Enumerates(new, T)
    <3>1. /\ n \in Nat /\ line \in Nat /\ S \in SUBSET (1..line - 1)
          /\ at \in [1..n -> S] /\ Enumerates(at, S)
      BY <1>1, <1>4, <1>5, <2>1
    <3> HIDE DEF S, n
    <3> QED BY <3>1, EnumerationGrows
  <2>4. ASSUME NEW k \in 1..n + 1
        PROVE  channels'[k] = Described(command.channelFile[new[k]])
    <3>1. CASE k = n + 1
      BY <2>2, <3>1
    <3>2. CASE k # n + 1
      <4>1. k \in 1..n
        BY <2>1, <3>2
      <4> QED BY <1>4, <2>1, <2>2, <4>1
    <3> QED BY <3>1, <3>2
  <2> HIDE DEF new, S, n
  <2>5. \E f \in [DOMAIN channels' -> T] :
            /\ Enumerates(f, T)
            /\ \A k \in DOMAIN channels' : channels'[k] = Described(command.channelFile[f[k]])
    BY <2>2, <2>3, <2>4
  <2> QED BY <1>2, <1>3, <1>7, <1>8, <2>5 DEF ChannelsFrom
<1>9. CASE line \notin ChannelLinesRead
  <2>1. channels' = channels /\ ChannelsUpTo(line - 1)' = S
    BY <1>2, <1>3, <1>6, <1>7, <1>9
  <2> HIDE DEF S
  <2> QED BY <1>2, <1>4, <2>1 DEF ChannelsFrom
<1> QED BY <1>8, <1>9

LEMMA PauseLineListed ==
    ASSUME TypeOK, ReadPauseLine, PausesFrom(PausesUpTo(line - 1))
    PROVE  PausesFrom(PausesUpTo(line - 1))'
<1> DEFINE l == command.pauseFile[line]
           S == PausesUpTo(line - 1)
<1>1. /\ line \in Nat \ {0} /\ Len(command.pauseFile) \in Nat
      /\ DOMAIN command.pauseFile = 1..Len(command.pauseFile)
      /\ pauses \in Seq(PacketTimes)
    BY DEF TypeOK, Command
<1>2. /\ line <= Len(command.pauseFile) /\ line' = line + 1 /\ command' = command
      /\ pauses' = IF Matches(l) /\ ~Malformed(l.at)
                   THEN Append(pauses, Filled(l.at)) ELSE pauses
    BY DEF ReadPauseLine, NextPauseLine
<1>3. PausesUpTo(line - 1)' = PausesUpTo(line)
    BY <1>1, <1>2 DEF PausesUpTo, PauseLinesRead
<1>4. PICK at \in [DOMAIN pauses -> S] :
          /\ Enumerates(at, S)
          /\ \A k \in DOMAIN pauses : pauses[k] = Filled(command.pauseFile[at[k]].at)
    BY DEF PausesFrom
<1>5. S \in SUBSET (1..line - 1) /\ line - 1 \in Nat /\ (line - 1) + 1 = line
    BY <1>1 DEF PausesUpTo, PauseLinesRead
<1>6. line \in PauseLinesRead <=> Matches(l) /\ ~Malformed(l.at)
    BY <1>1, <1>2 DEF PauseLinesRead
<1>7. PausesUpTo(line) = IF line \in PauseLinesRead THEN S \cup {line} ELSE S
    BY <1>1 DEF PausesUpTo, PauseLinesRead
<1>8. CASE line \in PauseLinesRead
  <2> DEFINE n == Len(pauses)
             new == [i \in 1..n + 1 |-> IF i = n + 1 THEN line ELSE at[i]]
             T == S \cup {line}
  <2>1. n \in Nat /\ DOMAIN pauses = 1..n
    BY <1>1
  <2>2. /\ DOMAIN pauses' = 1..n + 1 /\ pauses'[n + 1] = Filled(l.at)
        /\ \A k \in 1..n : pauses'[k] = pauses[k]
    <3>1. pauses' = Append(pauses, Filled(l.at))
      BY <1>2, <1>6, <1>8
    <3> HIDE DEF l
    <3> QED BY <1>1, <3>1
  <2>3. new \in [1..n + 1 -> T] /\ Enumerates(new, T)
    <3>1. /\ n \in Nat /\ line \in Nat /\ S \in SUBSET (1..line - 1)
          /\ at \in [1..n -> S] /\ Enumerates(at, S)
      BY <1>1, <1>4, <1>5, <2>1
    <3> HIDE DEF S, n
    <3> QED BY <3>1, EnumerationGrows
  <2>4. ASSUME NEW k \in 1..n + 1
        PROVE  pauses'[k] = Filled(command.pauseFile[new[k]].at)
    <3>1. CASE k = n + 1
      BY <2>2, <3>1
    <3>2. CASE k # n + 1
      <4>1. k \in 1..n
        BY <2>1, <3>2
      <4> QED BY <1>4, <2>1, <2>2, <4>1
    <3> QED BY <3>1, <3>2
  <2> HIDE DEF new, S, n
  <2>5. \E f \in [DOMAIN pauses' -> T] :
            /\ Enumerates(f, T)
            /\ \A k \in DOMAIN pauses' : pauses'[k] = Filled(command.pauseFile[f[k]].at)
    BY <2>2, <2>3, <2>4
  <2> QED BY <1>2, <1>3, <1>7, <1>8, <2>5 DEF PausesFrom
<1>9. CASE line \notin PauseLinesRead
  <2>1. pauses' = pauses /\ PausesUpTo(line - 1)' = S
    BY <1>2, <1>3, <1>6, <1>7, <1>9
  <2> HIDE DEF S
  <2> QED BY <1>2, <1>4, <2>1 DEF PausesFrom
<1> QED BY <1>8, <1>9

(* Before the first line nothing is listed. *)
LEMMA NothingListed ==
    ASSUME TypeOK
    PROVE  /\ channels = <<>> => ChannelsFrom(ChannelsUpTo(0))
           /\ pauses = <<>> => PausesFrom(PausesUpTo(0))
<1>1. ChannelsUpTo(0) = {} /\ PausesUpTo(0) = {}
    BY DEF TypeOK, Command, ChannelsUpTo, PausesUpTo, ChannelLinesRead, PauseLinesRead
<1>2. <<>> \in [DOMAIN <<>> -> {}] /\ DOMAIN <<>> = {}
    OBVIOUS
<1>3. Enumerates(<<>>, {})
    BY <1>2 DEF Enumerates, Range
<1> QED BY <1>1, <1>2, <1>3 DEF ChannelsFrom, PausesFrom

(* At the end of a file all of its lines are listed. *)
LEMMA AllListed ==
    ASSUME TypeOK
    PROVE  /\ line > Len(command.channelFile) => ChannelsUpTo(line - 1) = ChannelLinesRead
           /\ line > Len(command.pauseFile) => PausesUpTo(line - 1) = PauseLinesRead
BY DEF TypeOK, Command, ChannelsUpTo, PausesUpTo, ChannelLinesRead, PauseLinesRead

LEMMA ListedInductive == ListedInv /\ [Next]_vars => ListedInv'
<1> SUFFICES ASSUME ListedInv, [Next]_vars PROVE ListedInv'
    OBVIOUS
<1>1. TypeOK /\ TypeOK'
    BY TypeKept DEF ListedInv
<1>2. command' = command
    BY DEF Next, vars, Base, ReadChannelLine, NextChannelLine, EndChannelFile,
           ReadPauseLine, NextPauseLine, EndPauseFile, ChannelOptions, MulticastOptions,
           InterfaceOptions, End
<1>3. ASSUME channels' = channels
      PROVE  /\ ChannelsFrom(ChannelLinesRead) => ChannelsFrom(ChannelLinesRead)'
             /\ line' = line /\ ChannelsFrom(ChannelsUpTo(line - 1))
                    => ChannelsFrom(ChannelsUpTo(line - 1))'
    BY <1>2, <1>3 DEF ChannelsFrom, ChannelsUpTo, ChannelLinesRead
<1>4. ASSUME pauses' = pauses
      PROVE  /\ PausesFrom(PauseLinesRead) => PausesFrom(PauseLinesRead)'
             /\ line' = line /\ PausesFrom(PausesUpTo(line - 1))
                    => PausesFrom(PausesUpTo(line - 1))'
    BY <1>2, <1>4 DEF PausesFrom, PausesUpTo, PauseLinesRead
<1> USE DEF PastChannels, PastPauses
<1>5. CASE Base
  <2>1. /\ pc = "base" /\ pc' = "channelFile"
        /\ UNCHANGED <<line, channels, pauses>>
    BY <1>5 DEF Base
  <2>2. line = 1 /\ channels = <<>> /\ pauses = <<>>
    BY <2>1 DEF ListedInv
  <2>3. ChannelsFrom(ChannelsUpTo(line - 1))
    BY <1>1, <2>2, NothingListed
  <2>4. ChannelsFrom(ChannelsUpTo(line - 1))'
    BY <1>3, <2>1, <2>3
  <2> QED BY <1>1, <2>1, <2>2, <2>4 DEF ListedInv
<1>6. CASE ReadChannelLine
  <2>1. /\ pc = "channelFile" /\ pc' \in {"channelFile", "failed"} /\ pauses' = pauses
    BY <1>6 DEF ReadChannelLine, NextChannelLine
  <2>2. pauses = <<>> /\ ChannelsFrom(ChannelsUpTo(line - 1))
    BY <2>1 DEF ListedInv
  <2>3. pc' = "channelFile" => ChannelsFrom(ChannelsUpTo(line - 1))'
    BY <1>1, <1>6, <2>2, ChannelLineListed
  <2> QED BY <1>1, <2>1, <2>2, <2>3 DEF ListedInv
<1>7. CASE EndChannelFile
  <2>1. /\ pc = "channelFile" /\ pc' = "pauseFile" /\ line' = 1
        /\ UNCHANGED <<mode, abort, channels, pauses>>
        /\ Active => line > Len(command.channelFile)
    BY <1>7 DEF EndChannelFile, Active
  <2>2. pauses = <<>> /\ ChannelsFrom(ChannelsUpTo(line - 1))
    BY <2>1 DEF ListedInv
  <2>3. Active' => ChannelsFrom(ChannelLinesRead)'
    BY <1>1, <1>3, <2>1, <2>2, AllListed DEF Active
  <2>4. PausesFrom(PausesUpTo(0))
    BY <1>1, <2>2, NothingListed
  <2>5. PausesFrom(PausesUpTo(line - 1))'
    <3>1. PausesUpTo(line - 1)' = PausesUpTo(0)
      BY <1>2, <2>1 DEF PausesUpTo, PauseLinesRead
    <3> QED BY <1>2, <2>1, <2>4, <3>1 DEF PausesFrom
  <2> QED BY <1>1, <2>1, <2>3, <2>5 DEF ListedInv
<1>8. CASE ReadPauseLine
  <2>1. /\ pc = "pauseFile" /\ pc' = pc
        /\ UNCHANGED <<mode, abort, channels>>
    BY <1>8 DEF ReadPauseLine, NextPauseLine
  <2>2. PausesFrom(PausesUpTo(line - 1))'
    BY <1>1, <1>8, <2>1, PauseLineListed DEF ListedInv
  <2>3. Active' => ChannelsFrom(ChannelLinesRead)'
    BY <1>3, <2>1 DEF ListedInv, Active
  <2> QED BY <1>1, <2>1, <2>2, <2>3 DEF ListedInv
<1>9. CASE EndPauseFile
  <2>1. /\ pc = "pauseFile" /\ pc' \in {"refused", "channelOptions"}
        /\ UNCHANGED <<line, mode, abort, channels, pauses>>
        /\ Active => line > Len(command.pauseFile)
    BY <1>9 DEF EndPauseFile
  <2>2. Active' => ChannelsFrom(ChannelLinesRead)'
    BY <1>3, <2>1 DEF ListedInv, Active
  <2>3. Active' => PausesFrom(PauseLinesRead)'
    BY <1>1, <1>4, <2>1, AllListed DEF ListedInv, Active
  <2> QED BY <1>1, <2>1, <2>2, <2>3 DEF ListedInv
<1>10. CASE ChannelOptions \/ MulticastOptions \/ InterfaceOptions
  <2>1. /\ pc \in {"channelOptions", "multicastOptions", "interfaceOptions"}
        /\ pc' \in {"multicastOptions", "interfaceOptions", "end", "failed"}
        /\ UNCHANGED <<mode, abort, pauses>>
    BY <1>10 DEF ChannelOptions, MulticastOptions, InterfaceOptions
  <2>2. channels' = channels
    BY <1>10, NeverPresent DEF ChannelOptions, MulticastOptions, InterfaceOptions
  <2>3. Active' => ChannelsFrom(ChannelLinesRead)' /\ PausesFrom(PauseLinesRead)'
    BY <1>3, <1>4, <2>1, <2>2 DEF ListedInv, Active
  <2> QED BY <1>1, <2>1, <2>3 DEF ListedInv
<1>11. CASE End
  <2>1. /\ pc = "end" /\ pc' \in {"run", "refused"}
        /\ UNCHANGED <<channels, pauses>>
        /\ pc' = "run" => Active
    BY <1>1, <1>11 DEF End, Active, TypeOK
  <2>2. pc' = "run" => ChannelsFrom(ChannelLinesRead)' /\ PausesFrom(PauseLinesRead)'
    BY <1>3, <1>4, <2>1 DEF ListedInv
  <2> QED BY <1>1, <2>1, <2>2 DEF ListedInv
<1>12. CASE UNCHANGED vars
  <2>1. UNCHANGED <<pc, line, mode, abort, channels, pauses>>
    BY <1>12 DEF vars
  <2> QED BY <1>1, <1>3, <1>4, <2>1 DEF ListedInv, Active
<1> QED BY <1>5, <1>6, <1>7, <1>8, <1>9, <1>10, <1>11, <1>12 DEF Next

LEMMA ListedFirst == Init => ListedInv
BY TypeFirst DEF ListedInv, Init, PastChannels, PastPauses

(* options.cpp:192-382, for files of any length: what xcast starts from is    *)
(* every line of the channel file that is not blank and every pause found in  *)
(* the pause file, each once and in order, and nothing else; lines of the     *)
(* pause file in which no time is found are dropped.                          *)
THEOREM WholeCorrect == Spec => []WholeFilesRead
<1>1. RefusalInv /\ ListedInv => WholeFilesRead
  <2> SUFFICES ASSUME RefusalInv, ListedInv, pc = "run" PROVE WholeFilesRead
    BY DEF WholeFilesRead
  <2>1. /\ \A i \in DOMAIN command.channelFile : GoodChannelLine(i)
        /\ \A i \in DOMAIN command.pauseFile : GoodPauseLine(i)
        /\ Active
    BY DEF RefusalInv, PastChannels, PastPauses
  <2>2. ChannelsFrom(ChannelLinesRead) /\ PausesFrom(PauseLinesRead)
    BY <2>1 DEF ListedInv, PastChannels, PastPauses
  <2> QED BY <2>1, <2>2 DEF WholeFilesRead, GoodChannelLine, GoodPauseLine, ChannelLinesRead,
                            PauseLinesRead
<1> QED BY <1>1, RefusalFirst, ListedFirst, RefusalInductive, ListedInductive, PTL DEF Spec

-----------------------------------------------------------------------------
(* GroupInit, as an equation for what is made of the first channels.         *)
IsEntering(f, c, m) ==
    f = [i \in 0..m |-> IF i = 0 THEN NothingEntered ELSE Enter(f[i - 1], c[i])]

LEMMA EnteringExists ==
    ASSUME NEW c, NEW l \in Nat
    PROVE  \E f : IsEntering(f, c, l)
<1> DEFINE Bad == {k \in Nat : ~ \E f : IsEntering(f, c, k)}
<1>1. SUFFICES ASSUME Bad # {} PROVE FALSE
    OBVIOUS
<1>2. PICK m \in Bad : \A k \in Bad : m <= k
    BY <1>1, LeastNatural
<1>3. IsEntering([i \in 0..0 |-> NothingEntered], c, 0)
    BY DEF IsEntering
<1>4. m # 0
    BY <1>3
<1>5. PICK f : IsEntering(f, c, m - 1)
    BY <1>2, <1>4
<1> DEFINE g == [i \in 0..m |-> IF i = m THEN Enter(f[m - 1], c[m]) ELSE f[i]]
           h == [i \in 0..m |-> IF i = 0 THEN NothingEntered ELSE Enter(g[i - 1], c[i])]
<1>6. ASSUME NEW i \in 0..m PROVE g[i] = h[i]
  <2>1. CASE i = 0
    BY <2>1, <1>4, <1>5 DEF IsEntering
  <2>2. CASE i = m
    <3>1. h[i] = Enter(g[m - 1], c[m])
        BY <2>2, <1>4
    <3>2. g[m - 1] = f[m - 1]
        BY <1>4
    <3> QED BY <3>1, <3>2, <2>2
  <2>3. CASE i # 0 /\ i # m
    <3>1. i \in 1..(m - 1) /\ g[i] = f[i] /\ g[i - 1] = f[i - 1]
        BY <2>3
    <3>2. f[i] = Enter(f[i - 1], c[i])
        BY <3>1, <1>5 DEF IsEntering
    <3> QED BY <3>1, <3>2
  <2> QED BY <2>1, <2>2, <2>3
<1>7. g = h
    BY <1>6
<1>8. IsEntering(g, c, m)
    BY <1>7 DEF IsEntering
<1> QED BY <1>2, <1>8

(* Of the first k channels one could not be made, or the map holds the last   *)
(* of each name.                                                              *)
HoldsLast(init, c, k) ==
    /\ init.failed <=> \E i \in 1..k : ~Opens(c[i])
    /\ ~init.failed =>
        /\ DOMAIN init.map = {c[i].name : i \in 1..k}
        /\ \A i \in 1..k :
              (\A j \in i + 1..k : c[j].name # c[i].name) => init.map[c[i].name] = c[i]

LEMMA EnterHoldsLast ==
    ASSUME NEW init, NEW c, NEW k \in Nat, HoldsLast(init, c, k)
    PROVE  HoldsLast(Enter(init, c[k + 1]), c, k + 1)
<1> DEFINE next == Enter(init, c[k + 1])
           map == init.map
<1>1. next.failed <=> init.failed \/ ~Opens(c[k + 1])
    BY DEF Enter
<1>2. ASSUME ~next.failed
      PROVE  /\ DOMAIN next.map = DOMAIN map \cup {c[k + 1].name}
             /\ next.map[c[k + 1].name] = c[k + 1]
             /\ \A name \in DOMAIN map : name # c[k + 1].name => next.map[name] = map[name]
    BY <1>1, <1>2 DEF Enter
<1> HIDE DEF next
<1>3. 1..(k + 1) = (1..k) \cup {k + 1}
    OBVIOUS
<1>4. next.failed <=> \E i \in 1..(k + 1) : ~Opens(c[i])
    BY <1>1, <1>3 DEF HoldsLast
<1>5. ~next.failed => DOMAIN next.map = {c[i].name : i \in 1..(k + 1)}
    BY <1>1, <1>2, <1>3 DEF HoldsLast
<1>6. ASSUME ~next.failed, NEW i \in 1..(k + 1), \A j \in i + 1..k + 1 : c[j].name # c[i].name
      PROVE  next.map[c[i].name] = c[i]
  <2>1. CASE i = k + 1
    BY <1>2, <1>6, <2>1
  <2>2. CASE i \in 1..k
    <3>1. k + 1 \in i + 1..k + 1 /\ \A j \in i + 1..k : j \in i + 1..k + 1
        BY <2>2
    <3>2. c[k + 1].name # c[i].name /\ map[c[i].name] = c[i]
        BY <1>1, <1>6, <2>2, <3>1 DEF HoldsLast
    <3>3. c[i].name \in DOMAIN map
        BY <1>1, <1>6, <2>2 DEF HoldsLast
    <3> QED BY <1>2, <1>6, <3>2, <3>3
  <2> QED BY <1>3, <2>1, <2>2
<1> QED BY <1>4, <1>5, <1>6 DEF HoldsLast, next

LEMMA EnteringHoldsLast ==
    ASSUME NEW c, NEW l \in Nat, NEW f, IsEntering(f, c, l)
    PROVE  HoldsLast(f[l], c, l)
<1> DEFINE Bad == {k \in 0..l : ~HoldsLast(f[k], c, k)}
<1>1. SUFFICES ASSUME Bad # {} PROVE FALSE
    OBVIOUS
<1>2. Bad \in SUBSET Nat
    OBVIOUS
<1>3. PICK k \in Bad : \A i \in Bad : k <= i
  <2> HIDE DEF Bad
  <2> QED BY <1>1, <1>2, LeastNatural
<1>4. k \in 0..l /\ ~HoldsLast(f[k], c, k)
    BY <1>3
<1>5. CASE k = 0
  <2>1. f[0] = NothingEntered /\ 1..0 = {} /\ DOMAIN <<>> = {}
    BY DEF IsEntering
  <2> QED BY <1>4, <1>5, <2>1 DEF HoldsLast, NothingEntered
<1>6. CASE k # 0
  <2>1. k \in 1..l /\ k - 1 \in Nat /\ k - 1 \in 0..l /\ ~(k <= k - 1) /\ (k - 1) + 1 = k
    BY <1>4, <1>6
  <2>2. HoldsLast(f[k - 1], c, k - 1)
    BY <1>3, <2>1
  <2>3. f[k] = Enter(f[k - 1], c[k])
    BY <2>1 DEF IsEntering
  <2>4. HoldsLast(Enter(f[k - 1], c[k]), c, k)
    BY <2>1, <2>2, EnterHoldsLast
  <2> QED BY <1>4, <2>3, <2>4
<1> QED BY <1>5, <1>6

LEMMA InitHoldsLast ==
    ASSUME TypeOK
    PROVE  HoldsLast(GroupInit, channels, Len(channels))
<1> DEFINE l == Len(channels)
           f == CHOOSE f : IsEntering(f, channels, l)
<1>1. l \in Nat
    BY DEF TypeOK
<1>2. IsEntering(f, channels, l)
    BY <1>1, EnteringExists
<1>3. GroupInit = f[l]
    BY DEF GroupInit, IsEntering
<1> HIDE DEF f
<1> QED BY <1>1, <1>2, <1>3, EnteringHoldsLast

(* processor.cpp:118-119 after options.cpp:210-252, for channel files of any  *)
(* length: one line with a channel that cannot be made, also one replaced by  *)
(* a later line, stops the playback of all; otherwise the last line of each   *)
(* name is played, and nothing else is.                                       *)
THEOREM PlayedCorrect == Spec => []PlayedAsListed
<1>1. RefusalInv /\ ListedInv => PlayedAsListed
  <2> SUFFICES ASSUME RefusalInv, ListedInv, pc = "run" PROVE PlayedAsListed
    BY DEF PlayedAsListed
  <2> DEFINE told(i) == Described(command.channelFile[i])
             n == Len(channels)
             lines == ChannelLinesRead
  <2>1. ChannelsFrom(lines) /\ TypeOK
    BY DEF ListedInv, RefusalInv, PastChannels
  <2>2. n \in Nat /\ DOMAIN channels = 1..n
    BY <2>1 DEF TypeOK
  <2>3. PICK at \in [1..n -> lines] :
            /\ Enumerates(at, lines)
            /\ \A k \in 1..n : channels[k] = told(at[k])
    BY <2>1, <2>2 DEF ChannelsFrom
  <2>4. /\ \A i \in lines : \E k \in 1..n : at[k] = i
        /\ \A k \in 1..n : at[k] \in lines
        /\ \A i, k \in 1..n : i < k => at[i] < at[k]
    BY <2>3 DEF Enumerates, Range
  <2>5. lines \subseteq Nat
    BY <2>1 DEF ChannelLinesRead, TypeOK, Command
  <2>6. HoldsLast(GroupInit, channels, n)
    BY <2>1, InitHoldsLast
  <2> HIDE DEF told, n, lines
  <2>7. GroupInit.failed <=> \E i \in lines : ~Opens(told(i))
    BY <2>3, <2>4, <2>6 DEF HoldsLast
  <2>8. ASSUME ~GroupInit.failed
        PROVE  DOMAIN GroupInit.map = {told(i).name : i \in lines}
    <3>1. DOMAIN GroupInit.map = {channels[k].name : k \in 1..n}
      BY <2>6, <2>8 DEF HoldsLast
    <3> QED BY <2>3, <2>4, <3>1
  <2>9. ASSUME ~GroupInit.failed, NEW i \in lines,
               \A k \in lines : i < k => told(k).name # told(i).name
        PROVE  GroupInit.map[told(i).name] = told(i)
    <3>1. PICK k \in 1..n : at[k] = i
      BY <2>4
    <3>2. channels[k] = told(i)
      BY <2>3, <3>1
    <3>3. ASSUME NEW j \in k + 1..n PROVE channels[j].name # channels[k].name
      <4>1. j \in 1..n /\ k < j
        BY <2>2
      <4>2. i < at[j] /\ at[j] \in lines
        BY <2>4, <3>1, <4>1
      <4> QED BY <2>3, <2>9, <3>2, <4>1, <4>2
    <3> QED BY <2>6, <2>9, <3>2, <3>3 DEF HoldsLast
  <2> QED BY <2>7, <2>8, <2>9 DEF PlayedAsListed, told, lines
<1> QED BY <1>1, RefusalFirst, ListedFirst, RefusalInductive, ListedInductive, PTL DEF Spec
=============================================================================
