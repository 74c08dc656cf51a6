------------------------------ MODULE MCOptions ------------------------------
(***************************************************************************)
(* Small instances of Options: files of up to two lines of every kind, or  *)
(* three of the channel file, and the options in all their combinations.   *)
(***************************************************************************)
EXTENDS Options

SomeText == {"", "A", "B", "a.cap", "b.cap", "c.cap", "239.255.0.1", "30001", "30002", "50",
             "300", "40000", "70000"}

SomeNumber == [t \in SomeText |-> CASE t = "30001" -> 30001
                                    [] t = "30002" -> 30002
                                    [] t = "50"    -> 50
                                    [] t = "300"   -> 300
                                    [] t = "40000" -> 40000
                                    [] t = "70000" -> 70000
                                    [] OTHER       -> -1]

(* There is no c.cap. *)
SomeCaptures == {"a.cap", "b.cap"}

SomeAddresses == {"239.255.0.1"}

FilesOf(lines) == SeqOf(lines, 2)

(* Two channels, a second one of the same name, channels without a name, one  *)
(* of them by a field left out, ports that are none or too large or, without  *)
(* a name, no digit, a capture that is missing, a group that is no address,   *)
(* too few fields, too many, none at all, and a blank line.                   *)
ChannelLines ==
    {<<"A", "a.cap", "239.255.0.1", "30001">>,
     <<"B", "b.cap", "239.255.0.1", "30002">>,
     <<"A", "b.cap", "239.255.0.1", "50">>,
     <<"a.cap", "239.255.0.1", "30001">>,
     <<"", "b.cap", "239.255.0.1", "50">>,
     <<"b.cap", "239.255.0.1", "A">>,
     <<"a.cap", "239.255.0.1", "40000">>,
     <<"B", "b.cap", "239.255.0.1", "70000">>,
     <<"B", "c.cap", "239.255.0.1", "30001">>,
     <<"B", "b.cap", "A", "30001">>,
     <<"A", "a.cap">>,
     <<"A", "a.cap", "239.255.0.1", "30001", "50">>,
     <<"", "", "">>,
     <<"">>}

Moment(at, gap) == [text |-> FALSE, at |-> at, gap |-> gap]

TimeOfDay == [NoTime EXCEPT !.hh = 9, !.mm = 1]

(* Times of day with every choice of parts, dates with long and short years,  *)
(* without a year, too far from the time, and no moment at all.               *)
PauseLines ==
    {Moment(TimeOfDay, 0),
     Moment([TimeOfDay EXCEPT !.ss = 2], 0),
     Moment([TimeOfDay EXCEPT !.ss = 2, !.ms = 5], 0),
     Moment([TimeOfDay EXCEPT !.ms = 5], 0),
     Moment([TimeOfDay EXCEPT !.y = 2012, !.m = 3, !.d = 1], 1),
     Moment([TimeOfDay EXCEPT !.y = 12, !.m = 3, !.d = 1, !.ss = 2], 0),
     Moment([TimeOfDay EXCEPT !.y = 2012, !.m = 3, !.d = 1], 2),
     Moment([TimeOfDay EXCEPT !.m = 3, !.d = 1], 1),
     [text |-> TRUE, at |-> NoTime, gap |-> 0]}

NoInline == [name |-> "", file |-> "", group |-> "", port |-> ""]

Plain == [modes |-> {}, channelFile |-> <<>>, pauseFile |-> <<>>, inline |-> NoInline,
          ttl |-> "", delay |-> "", reports |-> {}]

OneChannel == <<<<"A", "a.cap", "239.255.0.1", "30001">>>>

SomeCommands ==
    {[Plain EXCEPT !.channelFile = f, !.modes = m] :
        f \in SeqOf(ChannelLines, 3), m \in {{}, {"show"}}}
    \cup {[Plain EXCEPT !.channelFile = OneChannel, !.pauseFile = f] : f \in FilesOf(PauseLines)}
    \cup {[Plain EXCEPT !.channelFile = <<<<"A", "a.cap">>>>, !.pauseFile = <<l>>] : l \in PauseLines}
    \cup {[Plain EXCEPT !.modes = m, !.reports = r] :
             m \in SUBSET {"help", "show", "version"}, r \in SUBSET {"all", "channels", "groups"}}
    \cup {[Plain EXCEPT !.modes = m, !.channelFile = OneChannel, !.ttl = t, !.delay = d] :
             m \in {{}, {"show"}, {"version"}}, t \in {"", "50", "300", "A"},
             d \in {"", "50", "A"}}

(* README 2.1: the example of the simple command line. *)
InlineCommands ==
    {[Plain EXCEPT !.inline = [name |-> "A", file |-> "a.cap", group |-> "239.255.0.1",
                               port |-> "30001"],
                   !.channelFile = f] : f \in FilesOf(ChannelLines)}
=============================================================================
