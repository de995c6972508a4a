--------------------------- MODULE DeviceSelector ---------------------------
(***************************************************************************)
(* The Device Selector of createTasks (src/tcpdumpw/main.go 190-191): the  *)
(* pattern PCAP_IFACE is formatted into the regular expression             *)
(*     ^(?:ipvlan-)?<pattern>\d+.*                                         *)
(* and pcap.FindDevicesByRegex keeps the host interfaces the expression    *)
(* matches (Go's regexp MatchString: a leftmost search, anchored only      *)
(* where the expression says ^).                                           *)
(*                                                                         *)
(* A name and a pattern are sequences of one-character strings.  Of the    *)
(* regexp syntax a pattern may carry, "." (any character) and "|"          *)
(* (alternation) are modelled; every other character is a literal.         *)
(***************************************************************************)
EXTENDS Integers, Sequences

CONSTANTS
    Patterns,   \* the values of PCAP_IFACE considered
    Hosts       \* the host interface names considered

\* PCAP_IFACE and the names net.Interfaces returns are strings.
ASSUME StringsAssumption ==
    Patterns \subseteq Seq(STRING) /\ Hosts \subseteq Seq(STRING)

Digits == {"0", "1", "2", "3", "4", "5", "6", "7", "8", "9"}
IpvlanPrefix == <<"i", "p", "v", "l", "a", "n", "-">>

VARIABLES
    pattern,    \* PCAP_IFACE
    iface,      \* a host interface
    selected    \* "unknown" before FindDevicesByRegex, then "kept" or "dropped"

vars == <<pattern, iface, selected>>

-----------------------------------------------------------------------------
(* The expression fmt.Sprintf builds, read as regexp reads it.  A "|" of   *)
(* the pattern splits the whole expression: the first alternative keeps   *)
(* "^(?:ipvlan-)?", the last keeps "\d+.*", the ones between keep neither.  *)

\* The cut points of the expression built from p: its two ends and the
\* positions of "|".
Cuts(p) == {0, Len(p) + 1} \cup {i \in 1..Len(p) : p[i] = "|"}

\* a and b are adjacent cut points: alternative SubSeq(p, a + 1, b - 1)
\* lies between them.
Adjacent(p, a, b) == a < b /\ \A c \in Cuts(p) : ~(a < c /\ c < b)

\* s is a prefix of t (SequencesExt's IsPrefix).
IsPrefix(s, t) == Len(s) <= Len(t) /\ SubSeq(t, 1, Len(s)) = s

CharMatches(pc, nc) == pc = "." \/ pc = nc

\* Segment seg matches name n from position s on.
SegmentAt(seg, n, s) ==
    /\ s + Len(seg) - 1 <= Len(n)
    /\ \A i \in 1..Len(seg) : CharMatches(seg[i], n[s + i - 1])

\* Mutant: the expression loses its ^ anchor; every alternative searches.
StartsUnanchored(p, a, n) == 1..(Len(n) + 1)

\* Where the alternative after cut point a may start matching n: the
\* first is anchored at ^, past an optional ipvlan- prefix; the others
\* search.
Starts(p, a, n) ==
    IF a = 0 THEN {1} \cup (IF IsPrefix(IpvlanPrefix, n)
                               THEN {Len(IpvlanPrefix) + 1} ELSE {})
             ELSE 1..(Len(n) + 1)

\* regexp.MustCompile(fmt.Sprintf("^(?:ipvlan-)?%s\\d+.*", p)).MatchString(n):
\* some alternative matches, and the last is followed by a digit.
Selected(p, n) ==
    \E a, b \in Cuts(p) :
       /\ Adjacent(p, a, b)
       /\ \E s \in Starts(p, a, n) :
             /\ SegmentAt(SubSeq(p, a + 1, b - 1), n, s)
             /\ b = Len(p) + 1 =>
                   LET d == s + (b - a - 1) IN d <= Len(n) /\ n[d] \in Digits

-----------------------------------------------------------------------------

Init ==
    /\ pattern \in Patterns
    /\ iface \in Hosts
    /\ selected = "unknown"

\* devices, _ := pcap.FindDevicesByRegex(ifaceRegexp)
FindDevices ==
    /\ selected = "unknown"
    /\ selected' = IF Selected(pattern, iface) THEN "kept" ELSE "dropped"
    /\ UNCHANGED <<pattern, iface>>

\* The selection is made once; createTasks goes on with its result.
Done == selected # "unknown" /\ UNCHANGED vars

Next == FindDevices \/ Done

Spec == Init /\ [][Next]_vars

-----------------------------------------------------------------------------
(* Properties *)

\* A pattern as a deployment sets it: letters, digits and dashes, none of
\* the metacharacters the model gives a meaning.
Literal(p) == \A i \in 1..Len(p) : p[i] \notin {".", "|"}

\* Spec 4.1: the names selected are those made of an optional "ipvlan-",
\* the literal pattern and a numeric suffix, followed by anything.
SpecSelected(p, n) ==
    \E pre \in {<<>>, IpvlanPrefix} :
       LET d == Len(pre) + Len(p) + 1
       IN  /\ IsPrefix(pre \o p, n)
           /\ d <= Len(n) /\ n[d] \in Digits

\* FindDevicesByRegex keeps exactly the interfaces spec 4.1 describes for
\* the pattern: no name without the numeric suffix, no name with a foreign
\* leading part, every ipvlan- variant of a matching name.
SelectedAsSpecified ==
    selected # "unknown" => (selected = "kept" <=> SpecSelected(pattern, iface))

=============================================================================
