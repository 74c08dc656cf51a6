-------------------------------- MODULE Options --------------------------------
(***************************************************************************)
(* opts::parse_command_line: the command line is parsed once per section,  *)
(* and two sections read a file line by line.  What it returns is what the *)
(* playback starts from: channels, pauses, the mode and the report type.   *)
(* It refuses by throwing, and main() turns that into an exit code.        *)
(*                                                                         *)
(* Text is abstract.  A line of the channel file is the sequence of its    *)
(* fields, "" where nothing stands between two commas; a line of the pause *)
(* file is a moment with the parts that are written, or any other text.    *)
(***************************************************************************)
EXTENDS PacketTime, TLC, SequencesExt

CONSTANTS
    Text,       (* what a field or an option may hold                        *)
    Number,     (* the number a text is read as, -1 if it is none            *)
    Captures,   (* the texts that name a capture that can be opened and read *)
    Addresses,  (* the texts that are the address of a group                 *)
    Commands    (* the command lines, with the files they name               *)

(* A line of the pause file; gap is the number of blanks after the date. *)
PauseLine == [text : BOOLEAN, at : PacketTimes, gap : Nat]

(* The channel that may be described on the command line itself; "" stands   *)
(* for what is not given.                                                    *)
Inline == [name : Text, file : Text, group : Text, port : Text]

Command == [modes : SUBSET {"help", "show", "version"},
            channelFile : Seq(Seq(Text)),   (* without lines, if it is missing *)
            pauseFile : Seq(PauseLine),
            inline : Inline,
            ttl : Text,                     (* "" if not given                 *)
            delay : Text,
            reports : SUBSET {"all", "channels", "groups"}]

ASSUME TextAssumption ==
    /\ "" \in Text
    /\ Number \in [Text -> Nat \cup {-1}]
    /\ Captures \subseteq Text
    /\ Addresses \subseteq Text

ASSUME CommandsAssumption == Commands \subseteq Command

VARIABLES
    command,    (* ac and av, and the files                                  *)
    pc,         (* the section that comes next, or how the call has ended    *)
    line,       (* the line of the file that comes next                      *)
    mode,       (* mode                                                      *)
    abort,      (* abort                                                     *)
    anyFailed,  (* any_failed                                                *)
    channels,   (* ret.channels_                                             *)
    pauses,     (* ret.pauses_                                               *)
    pace,       (* ret.ttl_ and ret.delay_                                   *)
    showType    (* ret.show_type_                                            *)

vars == <<command, pc, line, mode, abort, anyFailed, channels, pauses, pace, showType>>

Init ==
    /\ command \in Commands
    /\ pc = "base"
    /\ line = 1
    /\ mode = "run"
    /\ abort = FALSE
    /\ anyFailed = FALSE
    /\ channels = <<>>
    /\ pauses = <<>>
    /\ pace = [ttl |-> 0, delay |-> 0]
    /\ showType = "groups"

(* The sections after the first do nothing in the other modes. *)
Active == ~abort /\ mode \in {"run", "show"}

-----------------------------------------------------------------------------
(* notify() assigns in the order of the option names: of several options for *)
(* one variable the last in the alphabet counts.                             *)
LastNotified(given, names, default) ==
    LET hits == {i \in DOMAIN names : names[i] \in given}
    IN  IF hits = {} THEN default ELSE names[CHOOSE i \in hits : \A k \in hits : k <= i]

Base ==
    /\ pc = "base"
    /\ mode' = LastNotified(command.modes, <<"help", "show", "version">>, "run")
    /\ pc' = "channelFile"
    /\ UNCHANGED <<command, line, abort, anyFailed, channels, pauses, pace, showType>>

-----------------------------------------------------------------------------
(* The channel file.                                                         *)

(* A line that is empty, or nothing but blanks. *)
Blank(fields) == \A i \in DOMAIN fields : i = 1 /\ fields[i] = ""

(* The tokenizer drops empty fields. *)
NextToken(tokens, field) == IF field = "" THEN tokens ELSE Append(tokens, field)

Tokens(fields) ==
    LET upTo[i \in 0..Len(fields)] == IF i = 0 THEN <<>> ELSE NextToken(upTo[i - 1], fields[i])
    IN  upTo[Len(fields)]

(* A port is kept as the number its text is read as later. *)
Desc(name, file, group, port) == [name |-> name, file |-> file, group |-> group, port |-> port]

(* std::string = unsigned takes the number for one character: a digit if it   *)
(* is one of the codes 48 to 57, and otherwise no number at all.              *)
AsCharacter(n) == IF n % 256 \in 48..57 THEN (n % 256) - 48 ELSE -1

(* A line can be used if it has four tokens, or three. *)
Usable(fields) == Len(Tokens(fields)) \in {3, 4}

(* The channel a line that can be used describes. *)
Described(fields) ==
    LET t == Tokens(fields)
    IN  IF Len(t) = 4
        THEN Desc(t[1], t[2], t[3], Number[t[4]])
        ELSE Desc("", t[1], t[2], AsCharacter(Number[t[3]]))

(* lexical_cast<unsigned> on the port of a line of three tokens. *)
CastFails(fields) == LET t == Tokens(fields) IN Len(t) = 3 /\ Number[t[3]] = -1

NextChannelLine ==
    /\ pc = "channelFile"
    /\ mode \in {"run", "show"}
    /\ line <= Len(command.channelFile)
    /\ line' = line + 1
    /\ UNCHANGED <<command, mode, anyFailed, pauses, pace, showType>>

(* Mutated form: a line replaces what was read before it. *)
ReadChannelLine_Replaces ==
    /\ NextChannelLine
    /\ LET fields == command.channelFile[line]
       IN  /\ pc' = IF CastFails(fields) THEN "failed" ELSE pc
           /\ abort' = (abort \/ ~(Blank(fields) \/ Usable(fields)))
           /\ channels' = IF Usable(fields) /\ ~CastFails(fields)
                          THEN <<Described(fields)>> ELSE channels

(* A blank line is skipped; one that cannot be used makes the command a       *)
(* syntax error, but the rest of the file is read.                            *)
ReadChannelLine ==
    /\ NextChannelLine
    /\ LET fields == command.channelFile[line]
       IN  /\ pc' = IF CastFails(fields) THEN "failed" ELSE pc
           /\ abort' = (abort \/ ~(Blank(fields) \/ Usable(fields)))
           /\ channels' = IF Usable(fields) /\ ~CastFails(fields)
                          THEN Append(channels, Described(fields)) ELSE channels

EndChannelFile ==
    /\ pc = "channelFile"
    /\ mode \in {"run", "show"} => line > Len(command.channelFile)
    /\ pc' = "pauseFile"
    /\ line' = 1
    /\ UNCHANGED <<command, mode, abort, anyFailed, channels, pauses, pace, showType>>

-----------------------------------------------------------------------------
(* The pause file.                                                           *)

Date == {"y", "m", "d"}

Undated(at) == \A f \in Date : ~Has(at, f)

(* The regular expression finds a time of day at the start of the line, or    *)
(* after a full date and at most one blank.  Nothing says so if it does not.  *)
Matches(l) ==
    /\ ~l.text
    /\ Has(l.at, "hh") /\ Has(l.at, "mm")
    /\ Undated(l.at) \/ (l.gap <= 1 /\ \A f \in Date : Has(l.at, f))

(* Milliseconds need seconds. *)
Malformed(at) == Has(at, "ms") /\ ~Has(at, "ss")

(* Mutated form: milliseconds that are not given stay missing. *)
Filled_KeepsMs(at) ==
    [at EXCEPT !.y = IF Has(at, "y") /\ at.y < 1000 THEN at.y + 2000 ELSE at.y,
               !.ss = IF Has(at, "ss") THEN at.ss ELSE 0]

(* Short years are of this century; what is left out of the time is 0. *)
Filled(at) ==
    [at EXCEPT !.y = IF Has(at, "y") /\ at.y < 1000 THEN at.y + 2000 ELSE at.y,
               !.ss = IF Has(at, "ss") THEN at.ss ELSE 0,
               !.ms = IF Has(at, "ms") THEN at.ms ELSE 0]

NextPauseLine ==
    /\ pc = "pauseFile"
    /\ Active
    /\ line <= Len(command.pauseFile)
    /\ line' = line + 1
    /\ UNCHANGED <<command, pc, mode, abort, channels, pace, showType>>

(* Mutated form: the last line decides whether the file is refused. *)
ReadPauseLine_LastDecides ==
    /\ NextPauseLine
    /\ LET l == command.pauseFile[line]
       IN  /\ anyFailed' = (Matches(l) /\ Malformed(l.at))
           /\ pauses' = IF Matches(l) /\ ~Malformed(l.at)
                        THEN Append(pauses, Filled(l.at)) ELSE pauses

ReadPauseLine ==
    /\ NextPauseLine
    /\ LET l == command.pauseFile[line]
       IN  /\ anyFailed' = (anyFailed \/ (Matches(l) /\ Malformed(l.at)))
           /\ pauses' = IF Matches(l) /\ ~Malformed(l.at)
                        THEN Append(pauses, Filled(l.at)) ELSE pauses

EndPauseFile ==
    /\ pc = "pauseFile"
    /\ Active => line > Len(command.pauseFile)
    /\ pc' = IF anyFailed THEN "refused" ELSE "channelOptions"
    /\ UNCHANGED <<command, line, mode, abort, anyFailed, channels, pauses, pace, showType>>

-----------------------------------------------------------------------------
(* The sections without a file.                                              *)

(* ch: store() only collects values, and notify() is what would assign them. *)
Unassigned == [name |-> "", file |-> "", group |-> "", port |-> ""]

AnyPresent(ch) == \E f \in DOMAIN ch : ch[f] # ""

(* Options that are required() but not given make notify() throw. *)
LacksRequired(ch) == "" \in {ch.file, ch.group, ch.port}

(* The test for a channel on the command line comes before notify().         *)
ChannelOptions ==
    /\ pc = "channelOptions"
    /\ LET given == command.inline
           used == Active /\ AnyPresent(Unassigned)
       IN  /\ pc' = IF used /\ LacksRequired(given) THEN "failed" ELSE "multicastOptions"
           /\ channels' = IF used /\ ~LacksRequired(given)
                          THEN Append(channels, Desc(given.name, given.file, given.group,
                                                     Number[given.port]))
                          ELSE channels
    /\ UNCHANGED <<command, line, mode, abort, anyFailed, pauses, pace, showType>>

(* Mutated form: what is no number is stored all the same. *)
MulticastOptions_Unchecked ==
    /\ pc = "multicastOptions"
    /\ LET value(text) == IF Active /\ text # "" THEN Number[text] ELSE 0
       IN  pace' = [ttl |-> value(command.ttl), delay |-> value(command.delay)]
    /\ pc' = "interfaceOptions"
    /\ UNCHANGED <<command, line, mode, abort, anyFailed, channels, pauses, showType>>

(* An option that is no number makes store() throw. *)
MulticastOptions ==
    /\ pc = "multicastOptions"
    /\ LET value(text) == IF Active /\ text # "" THEN Number[text] ELSE 0
           read == [ttl |-> value(command.ttl), delay |-> value(command.delay)]
       IN  IF -1 \in {read.ttl, read.delay}
           THEN pc' = "failed" /\ UNCHANGED pace
           ELSE pc' = "interfaceOptions" /\ pace' = read
    /\ UNCHANGED <<command, line, mode, abort, anyFailed, channels, pauses, showType>>

InterfaceOptions ==
    /\ pc = "interfaceOptions"
    /\ pc' = "end"
    /\ showType' = IF Active
                   THEN LastNotified(command.reports, <<"all", "channels", "groups">>, "groups")
                   ELSE showType
    /\ UNCHANGED <<command, line, mode, abort, anyFailed, channels, pauses, pace>>

(* A syntax error shows the help screen.  Help and version end by throwing.  *)
End ==
    /\ pc = "end"
    /\ pc' = IF abort \/ mode \in {"help", "version"} THEN "refused" ELSE "run"
    /\ mode' = IF abort THEN "help" ELSE mode
    /\ UNCHANGED <<command, line, abort, anyFailed, channels, pauses, pace, showType>>

Next ==
    \/ Base
    \/ ReadChannelLine \/ EndChannelFile
    \/ ReadPauseLine \/ EndPauseFile
    \/ ChannelOptions \/ MulticastOptions \/ InterfaceOptions
    \/ End

Spec == Init /\ [][Next]_vars

-----------------------------------------------------------------------------
(* What GroupProcessor::Init makes of the channels: `failed` once a channel   *)
(* has thrown, which ends Init and with it the playback thread, and `map`,    *)
(* channels_ by name.                                                         *)
NothingEntered == [failed |-> FALSE, map |-> <<>>]

(* The channel can be made: its port is an unsigned short, its address and    *)
(* the hops are accepted, and the capture is opened and read.                 *)
Opens(desc) ==
    /\ desc.port \in 0..65535
    /\ desc.group \in Addresses
    /\ pace.ttl <= 255
    /\ desc.file \in Captures

(* Mutated form: the first channel of a name stays. *)
Enter_Keeps(init, desc) ==
    LET opens == ~init.failed /\ Opens(desc)
    IN  [failed |-> ~opens,
         map |-> IF ~opens THEN init.map
                 ELSE [name \in DOMAIN init.map \cup {desc.name} |->
                          IF name \in DOMAIN init.map THEN init.map[name] ELSE desc]]

(* One turn of the loop: a new channel, then channels_[name] = the channel.   *)
Enter(init, desc) ==
    LET opens == ~init.failed /\ Opens(desc)
    IN  [failed |-> ~opens,
         map |-> IF ~opens THEN init.map
                 ELSE [name \in DOMAIN init.map \cup {desc.name} |->
                          IF name = desc.name THEN desc ELSE init.map[name]]]

GroupInit ==
    LET after[i \in 0..Len(channels)] ==
            IF i = 0 THEN NothingEntered ELSE Enter(after[i - 1], channels[i])
    IN  after[Len(channels)]

-----------------------------------------------------------------------------
Sections == {"base", "channelFile", "pauseFile", "channelOptions",
             "multicastOptions", "interfaceOptions", "end"}

TypeOK ==
    /\ command \in Command
    /\ pc \in Sections \cup {"run", "refused", "failed"}
    /\ line \in Nat \ {0}
    /\ mode \in {"run", "help", "show", "version"}
    /\ abort \in BOOLEAN
    /\ anyFailed \in BOOLEAN
    /\ channels \in Seq([name : Text, file : Text, group : Text, port : Nat \cup {-1}])
    /\ pauses \in Seq(PacketTimes)
    /\ pace \in [ttl : Nat, delay : Nat]
    /\ showType \in {"all", "channels", "groups"}

(* The command lines of README 2.2: files in the formats of README 2.3 and    *)
(* 1.3, numbers where numbers belong, and nothing that ends xcast at once.    *)
DocumentedChannel(fields) ==
    Len(fields) = 4 /\ "" \notin Range(fields) /\ Number[fields[4]] # -1

DocumentedPause(l) ==
    /\ ~l.text
    /\ Has(l.at, "hh") /\ Has(l.at, "mm") /\ ~Malformed(l.at)
    /\ Undated(l.at) \/ (l.gap = 1 /\ l.at.y >= 1000 /\ \A f \in Date : Has(l.at, f))

Documented(c) ==
    /\ c.modes \subseteq {"show"}
    /\ \A i \in DOMAIN c.channelFile : DocumentedChannel(c.channelFile[i])
    /\ \A i \in DOMAIN c.pauseFile : DocumentedPause(c.pauseFile[i])
    /\ \A text \in {c.ttl, c.delay} : text = "" \/ Number[text] # -1

(* README 2.2 to 2.5: a command as documented is never refused, and what      *)
(* xcast starts from is what the files say, line for line and in their order. *)
(* Pauses with a month and a day but no year, which the format of README 2.4  *)
(* admits, are not among those called documented here: they are dropped.      *)
ReadAsDocumented ==
    Documented(command) =>
        /\ pc \notin {"refused", "failed"}
        /\ pc = "run" =>
            /\ channels = [i \in DOMAIN command.channelFile |->
                              LET t == command.channelFile[i] IN Desc(t[1], t[2], t[3], Number[t[4]])]
            /\ pauses = [i \in DOMAIN command.pauseFile |-> Filled(command.pauseFile[i].at)]
            /\ mode = "show" <=> "show" \in command.modes

(* The lines of the files that are read as channels and as pauses. *)
ChannelLinesRead ==
    {i \in DOMAIN command.channelFile : LET fields == command.channelFile[i]
                                        IN  Usable(fields) /\ ~CastFails(fields)}

PauseLinesRead ==
    {i \in DOMAIN command.pauseFile : LET l == command.pauseFile[i]
                                      IN  Matches(l) /\ ~Malformed(l.at)}

(* at lists the numbers in S, each once and from the least to the greatest. *)
Enumerates(at, S) ==
    /\ Range(at) = S
    /\ \A i, k \in DOMAIN at : i < k => at[i] < at[k]

ChannelsFrom(S) ==
    \E at \in [DOMAIN channels -> S] :
        /\ Enumerates(at, S)
        /\ \A k \in DOMAIN channels : channels[k] = Described(command.channelFile[at[k]])

PausesFrom(S) ==
    \E at \in [DOMAIN pauses -> S] :
        /\ Enumerates(at, S)
        /\ \A k \in DOMAIN pauses : pauses[k] = Filled(command.pauseFile[at[k]].at)

(* options.cpp:192-382: xcast starts from whole files or not at all.  Every   *)
(* line of the channel file is blank or the channel of its turn; every line   *)
(* of the pause file is the pause of its turn, unless no time is found in it, *)
(* in which case it is dropped; and there is nothing else.                    *)
WholeFilesRead ==
    pc = "run" =>
        /\ \A i \in DOMAIN command.channelFile \ ChannelLinesRead : Blank(command.channelFile[i])
        /\ ChannelsFrom(ChannelLinesRead)
        /\ \A i \in DOMAIN command.pauseFile \ PauseLinesRead : ~Matches(command.pauseFile[i])
        /\ PausesFrom(PauseLinesRead)

(* options.cpp:321-366: whatever parts of a pause are written, two pauses can *)
(* be compared member by member unless one has a date and the other has none. *)
PausesComparable ==
    \A i, k \in DOMAIN pauses :
        (Undated(pauses[i]) <=> Undated(pauses[k])) => Shape(pauses[i]) = Shape(pauses[k])

(* From the lines of the channel file to processor.cpp:118-119: one channel   *)
(* that cannot be made stops the playback of all, also one that a later line  *)
(* of its name would have replaced; otherwise, under each name, the last line *)
(* that bears it is played and nothing else is.  Lines without a name of      *)
(* their own all bear the same.                                               *)
PlayedAsListed ==
    pc = "run" =>
        LET told(i) == Described(command.channelFile[i])
        IN  /\ GroupInit.failed <=> \E i \in ChannelLinesRead : ~Opens(told(i))
            /\ ~GroupInit.failed =>
                /\ DOMAIN GroupInit.map = {told(i).name : i \in ChannelLinesRead}
                /\ \A i \in ChannelLinesRead :
                      (\A k \in ChannelLinesRead : i < k => told(k).name # told(i).name)
                          => GroupInit.map[told(i).name] = told(i)

-----------------------------------------------------------------------------
(* Statements of the documentation that the code does not keep.              *)

(* README 2.1: the channel given on the command line is replayed.            *)
InlineChannelPlayed ==
    pc = "run" /\ "" \notin {command.inline[f] : f \in DOMAIN command.inline} =>
        \E i \in DOMAIN channels : channels[i].file = command.inline.file

(* options.cpp:248: a line of the channel file that cannot be used is         *)
(* "Ignored", and a command that is as documented without it is not refused.  *)
MalformedLineIgnored ==
    LET kept == SelectSeq(command.channelFile, Usable)
    IN  kept # <<>> /\ Documented([command EXCEPT !.channelFile = kept])
            => pc \notin {"refused", "failed"}
=============================================================================
