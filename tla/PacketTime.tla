----------------------------- MODULE PacketTime -----------------------------
(***************************************************************************)
(* Time stamps as xcast compares them.  A stamp comes either from a        *)
(* capture file (month, day and time of day, never a year) or from a line  *)
(* of the auto-pause file (time of day, with or without a full date).  A   *)
(* field nobody filled in holds -1, and the comparison skips most fields   *)
(* that are missing on either side, so it orders stamps of one shape but   *)
(* not stamps of different shapes.                                         *)
(***************************************************************************)
EXTENDS Integers, Sequences

(* The members of the struct, in the order in which operator< looks at them. *)
Field == {"y", "m", "d", "hh", "mm", "ss", "ms"}

Rank == [y |-> 1, m |-> 2, d |-> 3, hh |-> 4, mm |-> 5, ss |-> 6, ms |-> 7]

(* The members operator< guards with "> -1 on both sides". *)
Optional == {"y", "m", "d", "ss", "ms"}

Missing == -1

Stamp == Nat \cup {Missing}

PacketTimes == [Field -> Stamp]

(* The default constructor: a stamp nobody filled in. *)
NoTime == [y |-> -1, m |-> -1, d |-> -1, hh |-> -1, mm |-> -1, ss |-> -1, ms |-> -1]

Has(t, f) == t[f] > Missing

(* The members that are filled in: what operator< can look at. *)
Shape(t) == {f \in Optional : Has(t, f)}

-----------------------------------------------------------------------------
(* Member f settles the comparison of a and b, if no earlier member has.  *)
Decides(f, a, b) ==
    /\ a[f] # b[f]
    /\ f \in Optional => Has(a, f) /\ Has(b, f)

(* PacketTime::operator<: the first member that settles it wins. *)
Less(a, b) ==
    \E f \in Field :
        /\ Decides(f, a, b)
        /\ a[f] < b[f]
        /\ \A g \in Field : Rank[g] < Rank[f] => ~Decides(g, a, b)

-----------------------------------------------------------------------------
(* One turn of the loop of std::min_element: b is the best so far, 0 for none. *)
ScanStep(t, i, b) ==
    IF i \in DOMAIN t /\ (b = 0 \/ Less(t[i], t[b])) THEN i ELSE b

(***************************************************************************)
(* std::min_element over the stamps t[i], i \in DOMAIN t \subseteq 1..n,   *)
(* visited in increasing i: the index the scan ends on, 0 for end().       *)
(* best[i] is the iterator the loop holds after visiting i.                *)
(***************************************************************************)
MinElement(t, n) ==
    LET best[i \in 0..n] == IF i = 0 THEN 0 ELSE ScanStep(t, i, best[i - 1])
    IN  best[n]

(***************************************************************************)
(* What it is called for: the first element that none other is before.     *)
(***************************************************************************)
IsFirstLeast(t, b) ==
    /\ b \in DOMAIN t
    /\ \A i \in DOMAIN t : /\ ~Less(t[i], t[b])
                           /\ i < b => Less(t[b], t[i])
=============================================================================
