------------------------- MODULE DeviceSelectorProofs -------------------------
(***************************************************************************)
(* Proof, for every pattern without "." or "|" and every interface name,  *)
(* that the expression createTasks builds selects exactly the names spec  *)
(* 4.1 describes.                                                          *)
(***************************************************************************)
EXTENDS DeviceSelector, SequenceTheorems, TLAPS

\* The characters of names and patterns, and of the ipvlan- prefix.
Chars == STRING \cup {"i", "p", "v", "l", "a", "n", "-"}

\* The ipvlan- prefix is a sequence of seven characters, and every string
\* is a sequence of them.
LEMMA CharsSeq ==
    /\ IpvlanPrefix \in Seq(Chars) /\ Len(IpvlanPrefix) = 7
    /\ Seq(STRING) \subseteq Seq(Chars)
<1>1. IpvlanPrefix \in [1..7 -> Chars]
  BY DEF IpvlanPrefix, Chars
<1>2. IpvlanPrefix \in Seq(Chars)
  BY <1>1, SeqDef
<1>3. Seq(STRING) \subseteq Seq(Chars)
  BY SeqMonotonic DEF Chars
<1>4. QED
  BY <1>2, <1>3 DEF IpvlanPrefix

\* s is a prefix of n iff n starts with the characters of s.
LEMMA PrefixChars ==
    ASSUME NEW S, NEW s \in Seq(S), NEW n \in Seq(S)
    PROVE  IsPrefix(s, n) <=> Len(s) <= Len(n) /\ \A i \in 1..Len(s) : n[i] = s[i]
<1>1. ASSUME Len(s) <= Len(n)
      PROVE  /\ SubSeq(n, 1, Len(s)) \in Seq(S)
             /\ Len(SubSeq(n, 1, Len(s))) = Len(s)
             /\ \A i \in 1..Len(s) : SubSeq(n, 1, Len(s))[i] = n[i]
  <2>1. \A i \in 1..Len(s) : n[i] \in S
    BY <1>1
  <2>2. QED
    BY <2>1, SubSeqProperties
<1>2. ASSUME Len(s) <= Len(n), \A i \in 1..Len(s) : n[i] = s[i]
      PROVE  SubSeq(n, 1, Len(s)) = s
  BY <1>1, <1>2, SeqEqual
<1>3. QED
  BY <1>1, <1>2 DEF IsPrefix

\* q followed by p is a prefix of n iff q is, and p follows it in n.
LEMMA PrefixConcat ==
    ASSUME NEW S, NEW q \in Seq(S), NEW p \in Seq(S), NEW n \in Seq(S)
    PROVE  IsPrefix(q \o p, n) <=>
              /\ IsPrefix(q, n)
              /\ Len(q) + Len(p) <= Len(n)
              /\ \A i \in 1..Len(p) : n[Len(q) + i] = p[i]
<1> DEFINE L == Len(q) + Len(p)
<1>1. /\ q \o p \in Seq(S)
      /\ Len(q \o p) = L
      /\ \A i \in 1..L : (q \o p)[i] = IF i <= Len(q) THEN q[i] ELSE p[i - Len(q)]
  BY ConcatProperties
<1>2. IsPrefix(q \o p, n) <=> L <= Len(n) /\ \A i \in 1..L : n[i] = (q \o p)[i]
  <2>1. IsPrefix(q \o p, n) <=>
           Len(q \o p) <= Len(n) /\ \A i \in 1..Len(q \o p) : n[i] = (q \o p)[i]
    <3>1. \A s2 \in Seq(S) :
             IsPrefix(s2, n) <=> Len(s2) <= Len(n) /\ \A i \in 1..Len(s2) : n[i] = s2[i]
      BY PrefixChars
    <3>2. QED
      BY <1>1, <3>1
  <2>2. QED
    BY <1>1, <2>1
<1>3. IsPrefix(q, n) <=> Len(q) <= Len(n) /\ \A i \in 1..Len(q) : n[i] = q[i]
  BY PrefixChars, Zenon
<1>4. ASSUME L <= Len(n)
      PROVE  (\A i \in 1..L : n[i] = (q \o p)[i]) <=>
                /\ \A i \in 1..Len(q) : n[i] = q[i]
                /\ \A i \in 1..Len(p) : n[Len(q) + i] = p[i]
  <2>1. ASSUME \A i \in 1..L : n[i] = (q \o p)[i]
        PROVE  /\ \A i \in 1..Len(q) : n[i] = q[i]
               /\ \A i \in 1..Len(p) : n[Len(q) + i] = p[i]
    <3>1. \A i \in 1..Len(q) : n[i] = q[i]
      BY <1>1, <2>1
    <3>2. ASSUME NEW j \in 1..Len(p) PROVE n[Len(q) + j] = p[j]
      <4>1. Len(q) + j \in 1..L /\ ~(Len(q) + j <= Len(q))
        OBVIOUS
      <4>2. QED
        BY <1>1, <2>1, <4>1
    <3>3. QED
      BY <3>1, <3>2
  <2>2. ASSUME \A i \in 1..Len(q) : n[i] = q[i],
               \A i \in 1..Len(p) : n[Len(q) + i] = p[i]
        PROVE  \A i \in 1..L : n[i] = (q \o p)[i]
    <3> SUFFICES ASSUME NEW i \in 1..L PROVE n[i] = (q \o p)[i]
      OBVIOUS
    <3>1. CASE i <= Len(q)
      BY <1>1, <2>2, <3>1
    <3>2. CASE ~(i <= Len(q))
      <4>1. i - Len(q) \in 1..Len(p) /\ i = Len(q) + (i - Len(q))
        BY <3>2
      <4>2. QED
        BY <1>1, <2>2, <3>2, <4>1
    <3>3. QED
      BY <3>1, <3>2
  <2>3. QED
    BY <2>1, <2>2
<1>5. QED
  BY <1>2, <1>3, <1>4

\* Without "|" the expression has one alternative, the whole pattern.
LEMMA LiteralCuts ==
    ASSUME NEW p \in Seq(STRING), Literal(p)
    PROVE  /\ Cuts(p) = {0, Len(p) + 1}
           /\ \A a, b \in Cuts(p) : Adjacent(p, a, b) <=> a = 0 /\ b = Len(p) + 1
           /\ SubSeq(p, 1, Len(p)) = p
<1>1. Cuts(p) = {0, Len(p) + 1}
  BY DEF Cuts, Literal
<1>2. \A a, b \in Cuts(p) : Adjacent(p, a, b) <=> a = 0 /\ b = Len(p) + 1
  BY <1>1 DEF Adjacent
<1>3. SubSeq(p, 1, Len(p)) = p
  BY SubSeqFull
<1>4. QED
  BY <1>1, <1>2, <1>3

\* For a pattern without "." or "|", the expression createTasks builds
\* matches a name iff spec 4.1 selects it.
LEMMA SelectedLiteral ==
    ASSUME NEW p \in Seq(STRING), NEW n \in Seq(STRING), Literal(p)
    PROVE  Selected(p, n) <=> SpecSelected(p, n)
<1> DEFINE P == Len(p)
           N == Len(n)
           Match(s) == /\ s + P <= N
                       /\ \A i \in 1..P : n[s + i - 1] = p[i]
                       /\ n[s + P] \in Digits
<1>0. /\ IpvlanPrefix \in Seq(Chars) /\ Len(IpvlanPrefix) = 7
      /\ p \in Seq(Chars) /\ n \in Seq(Chars)
  BY CharsSeq
<1>1. \A s \in Nat :
         SegmentAt(p, n, s) <=> s + P - 1 <= N /\ \A i \in 1..P : n[s + i - 1] = p[i]
  BY DEF SegmentAt, CharMatches, Literal
<1>2. Selected(p, n) <=> \E s \in Starts(p, 0, n) : Match(s)
  <2> DEFINE Body(a, b) ==
               \E s \in Starts(p, a, n) :
                  /\ SegmentAt(SubSeq(p, a + 1, b - 1), n, s)
                  /\ b = Len(p) + 1 =>
                        LET d == s + (b - a - 1) IN d <= Len(n) /\ n[d] \in Digits
  <2>1. Selected(p, n) <=> \E a, b \in Cuts(p) : Adjacent(p, a, b) /\ Body(a, b)
    BY DEF Selected
  <2>2. Selected(p, n) <=> Body(0, P + 1)
    <3>1. /\ Cuts(p) = {0, P + 1}
          /\ \A a, b \in Cuts(p) : Adjacent(p, a, b) <=> a = 0 /\ b = P + 1
      BY LiteralCuts
    <3>2. QED
      BY <2>1, <3>1
  <2>3. Starts(p, 0, n) \subseteq {1, 8}
    <3>1. Starts(p, 0, n) = {1} \cup (IF IsPrefix(IpvlanPrefix, n)
                                        THEN {Len(IpvlanPrefix) + 1} ELSE {})
      BY DEF Starts
    <3>2. QED
      BY <1>0, <3>1
  <2>4. Body(0, P + 1) <=>
           \E s \in Starts(p, 0, n) :
              /\ SegmentAt(p, n, s)
              /\ s + P <= N /\ n[s + P] \in Digits
    <3>1. SubSeq(p, 0 + 1, P + 1 - 1) = p /\ P \in Nat
      BY LiteralCuts
    <3>2. \A s \in Starts(p, 0, n) : s + (P + 1 - 0 - 1) = s + P
      BY <2>3, <3>1
    <3>3. Body(0, P + 1) <=>
             \E s \in Starts(p, 0, n) :
                /\ SegmentAt(SubSeq(p, 0 + 1, P + 1 - 1), n, s)
                /\ LET d == s + (P + 1 - 0 - 1) IN d <= N /\ n[d] \in Digits
      BY DEF Body
    <3>4. QED
      BY <3>1, <3>2, <3>3
  <2>5. \A s \in Starts(p, 0, n) :
           (SegmentAt(p, n, s) /\ s + P <= N /\ n[s + P] \in Digits) <=> Match(s)
    <3> SUFFICES ASSUME NEW s \in Starts(p, 0, n)
                 PROVE  (SegmentAt(p, n, s) /\ s + P <= N /\ n[s + P] \in Digits)
                           <=> Match(s)
      OBVIOUS
    <3>1. s \in Nat
      BY <2>3
    <3>2. QED
      BY <1>1, <3>1 DEF Match
  <2>6. QED
    BY <2>2, <2>4, <2>5
<1>3. Selected(p, n) <=> Match(1) \/ (IsPrefix(IpvlanPrefix, n) /\ Match(8))
  BY <1>0, <1>2 DEF Starts
<1>4. Match(1) <=> IsPrefix(<<>> \o p, n) /\ P + 1 <= N /\ n[P + 1] \in Digits
  <2>1. <<>> \o p = p
    BY <1>0, ConcatEmptySeq
  <2>2. \A s2 \in Seq(Chars) :
           IsPrefix(s2, n) <=> Len(s2) <= N /\ \A i \in 1..Len(s2) : n[i] = s2[i]
    BY <1>0, PrefixChars
  <2>3. QED
    BY <1>0, <2>1, <2>2
<1>5. IsPrefix(IpvlanPrefix, n) /\ Match(8) <=>
         /\ IsPrefix(IpvlanPrefix \o p, n)
         /\ 7 + P + 1 <= N /\ n[7 + P + 1] \in Digits
  <2>1. IsPrefix(IpvlanPrefix \o p, n) <=>
           /\ IsPrefix(IpvlanPrefix, n) /\ 7 + P <= N
           /\ \A i \in 1..P : n[7 + i] = p[i]
    <3>1. \A q2, p2, n2 \in Seq(Chars) :
             IsPrefix(q2 \o p2, n2) <=>
                /\ IsPrefix(q2, n2) /\ Len(q2) + Len(p2) <= Len(n2)
                /\ \A i \in 1..Len(p2) : n2[Len(q2) + i] = p2[i]
      BY PrefixConcat
    <3>2. IsPrefix(IpvlanPrefix \o p, n) <=>
             /\ IsPrefix(IpvlanPrefix, n) /\ Len(IpvlanPrefix) + P <= N
             /\ \A i \in 1..P : n[Len(IpvlanPrefix) + i] = p[i]
      BY <1>0, <3>1
    <3>3. QED
      BY <1>0, <3>2
  <2>2. \A i \in 1..P : 8 + i - 1 = 7 + i
    OBVIOUS
  <2>3. QED
    BY <2>1, <2>2
<1>6. SpecSelected(p, n) <=>
         \/ IsPrefix(<<>> \o p, n) /\ P + 1 <= N /\ n[P + 1] \in Digits
         \/ /\ IsPrefix(IpvlanPrefix \o p, n)
            /\ 7 + P + 1 <= N /\ n[7 + P + 1] \in Digits
  <2>1. SpecSelected(p, n) <=>
           \/ /\ IsPrefix(<<>> \o p, n)
              /\ Len(<<>>) + P + 1 <= N /\ n[Len(<<>>) + P + 1] \in Digits
           \/ /\ IsPrefix(IpvlanPrefix \o p, n)
              /\ Len(IpvlanPrefix) + P + 1 <= N
              /\ n[Len(IpvlanPrefix) + P + 1] \in Digits
    BY DEF SpecSelected
  <2>2. Len(<<>>) = 0
    OBVIOUS
  <2>3. QED
    BY <1>0, <2>1, <2>2
<1>7. QED
  BY <1>3, <1>4, <1>5, <1>6


\* What the proof carries: the pattern and the host name keep the values
\* they were given, and a selection made agrees with spec 4.1.
IInvSel == pattern \in Patterns /\ iface \in Hosts /\ SelectedAsSpecified

\* For deployments whose patterns carry no metacharacter,
\* FindDevicesByRegex keeps exactly the interfaces spec 4.1 describes: the
\* regexp createTasks compiles agrees with the spec on every name.
THEOREM SelectedAsSpecifiedHolds ==
    ASSUME \A p \in Patterns : Literal(p)
    PROVE  Spec => []SelectedAsSpecified
<1>1. Init => IInvSel
  BY DEF Init, IInvSel, SelectedAsSpecified
<1>2. IInvSel /\ [Next]_vars => IInvSel'
  <2> SUFFICES ASSUME IInvSel, [Next]_vars PROVE IInvSel'
    OBVIOUS
  <2>1. pattern \in Seq(STRING) /\ iface \in Seq(STRING) /\ Literal(pattern)
    BY StringsAssumption DEF IInvSel
  <2>2. CASE FindDevices
    <3>1. Selected(pattern, iface) <=> SpecSelected(pattern, iface)
      BY <2>1, SelectedLiteral
    <3>2. QED
      BY <2>2, <3>1 DEF FindDevices, IInvSel, SelectedAsSpecified
  <2>3. CASE Done \/ UNCHANGED vars
    BY <2>3 DEF Done, vars, IInvSel, SelectedAsSpecified
  <2>4. QED
    BY <2>2, <2>3 DEF Next
<1>3. IInvSel => SelectedAsSpecified
  BY DEF IInvSel
<1>4. QED
  BY <1>1, <1>2, <1>3, PTL DEF Spec

=============================================================================
