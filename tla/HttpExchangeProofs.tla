------------------------- MODULE HttpExchangeProofs -------------------------
(***************************************************************************)
(* Proofs about HttpExchange, for every set of answers and of header       *)
(* lines, wherever TCP cuts the stream and whenever it breaks.             *)
(***************************************************************************)
EXTENDS HttpExchange, SequenceTheorems, WellFoundedInduction, TLAPS

Parts == Texts \cup Breaks

-----------------------------------------------------------------------------
(***************************************************************************)
(* A set of numbers that is not empty has a least one.                     *)
(***************************************************************************)
LEMMA LeastNumber ==
  ASSUME NEW S, S \subseteq Nat, S # {}
  PROVE  \E m \in S : \A n \in S : m <= n
<1>1. PICK m \in S : \A n \in S : ~(<<n, m>> \in OpToRel(<, Nat))
  BY NatLessThanWellFounded, WFMin
<1>2. \A n \in S : ~(n < m)
  BY <1>1 DEF OpToRel
<1> QED BY <1>2

-----------------------------------------------------------------------------
(***************************************************************************)
(* Where a delimiter is in a stream, and where it is first.                *)
(***************************************************************************)
At(s, d, i) ==
  /\ i \in 1..Len(s)
  /\ i + Len(d) - 1 <= Len(s)
  /\ \A k \in 1..Len(d) : s[i + k - 1] = d[k]

FirstAt(s, d, i) == At(s, d, i) /\ \A j \in 1..i - 1 : ~At(s, d, j)

\* What a part of a stream is.
LEMMA PartOf ==
  ASSUME NEW s \in Seq(Parts), NEW i \in 1..Len(s) + 1, NEW j \in 0..Len(s)
  PROVE  /\ SubSeq(s, i, j) \in Seq(Parts)
         /\ Len(SubSeq(s, i, j)) = IF i <= j THEN j - i + 1 ELSE 0
         /\ \A k \in 1..j - i + 1 : SubSeq(s, i, j)[k] = s[i + k - 1]
<1>1. Len(s) \in Nat /\ \A k \in 1..Len(s) : s[k] \in Parts
  BY LenProperties, ElementOfSeq
<1>2. i \in Int /\ j \in Int /\ \A k \in i..j : s[k] \in Parts
  BY <1>1
<1> QED BY <1>1, <1>2, SubSeqProperties

LEMMA SubSeqsAre ==
  ASSUME NEW s, NEW x
  PROVE  x \in SubSeqs(s) <=> \E i, j \in 0..Len(s) : x = SubSeq(s, i + 1, j)
BY DEF SubSeqs

LEMMA HoldsIs ==
  ASSUME NEW s \in Seq(Parts), NEW d \in Seq(Parts), Len(d) > 0
  PROVE  Holds(s, d) <=> \E i \in 1..Len(s) : At(s, d, i)
<1>0. Len(s) \in Nat /\ Len(d) \in Nat
  BY LenProperties
<1>1. ASSUME NEW i, At(s, d, i) PROVE Holds(s, d)
  <2> DEFINE j == (i + Len(d)) - 1
  <2>1. /\ i \in 1..Len(s) + 1 /\ j \in 0..Len(s) /\ i <= j /\ j - i + 1 = Len(d)
        /\ i - 1 \in 0..Len(s) /\ i - 1 + 1 = i
        /\ \A k \in 1..Len(d) : s[i + k - 1] = d[k]
    BY <1>0, <1>1 DEF At
  <2> HIDE DEF j
  <2>2. /\ SubSeq(s, i, j) \in Seq(Parts)
        /\ Len(SubSeq(s, i, j)) = IF i <= j THEN j - i + 1 ELSE 0
        /\ \A k \in 1..j - i + 1 : SubSeq(s, i, j)[k] = s[i + k - 1]
    BY <2>1, PartOf
  <2>3. SubSeq(s, i, j) = d
    <3> DEFINE t == SubSeq(s, i, j)
    <3>1. t \in Seq(Parts) /\ Len(t) = Len(d) /\ \A k \in 1..Len(t) : t[k] = d[k]
      BY <2>1, <2>2
    <3> HIDE DEF t
    <3>2. t = d
      BY <3>1, SeqEqual
    <3> QED BY <3>2 DEF t
  <2>4. SubSeq(s, (i - 1) + 1, j) \in SubSeqs(s)
    BY <2>1, SubSeqsAre, Zenon
  <2> QED BY <2>1, <2>3, <2>4 DEF Holds
<1>2. ASSUME Holds(s, d) PROVE \E i \in 1..Len(s) : At(s, d, i)
  <2>1. PICK i \in 0..Len(s), j \in 0..Len(s) : d = SubSeq(s, i + 1, j)
    BY <1>2, SubSeqsAre, Zenon DEF Holds
  <2> DEFINE m == i + 1
  <2>2. m \in 1..Len(s) + 1 /\ m \in Nat
    BY <1>0
  <2> HIDE DEF m
  <2>3. d = SubSeq(s, m, j)
    BY <2>1 DEF m
  <2>4. /\ Len(d) = IF m <= j THEN j - m + 1 ELSE 0
        /\ \A k \in 1..j - m + 1 : d[k] = s[m + k - 1]
    BY <2>2, <2>3, PartOf
  <2>5. m <= j /\ m \in 1..Len(s) /\ m + Len(d) - 1 <= Len(s)
    BY <1>0, <2>2, <2>4
  <2>6. At(s, d, m)
    BY <2>2, <2>4, <2>5 DEF At
  <2> QED BY <2>5, <2>6
<1> QED BY <1>1, <1>2

\* What holds in a prefix of a stream and what in the whole.
LEMMA PrefixHolds ==
  ASSUME NEW s \in Seq(Parts), NEW d \in Seq(Parts), Len(d) > 0,
         NEW n \in 0..Len(s), NEW i \in Nat
  PROVE  At(SubSeq(s, 1, n), d, i) <=> At(s, d, i) /\ i + Len(d) - 1 <= n
<1> DEFINE t == SubSeq(s, 1, n)
           e == Len(d)
<1>1. Len(s) \in Nat /\ e \in Nat /\ e > 0 /\ 1 \in 1..Len(s) + 1 /\ n \in Nat /\ n <= Len(s)
  BY LenProperties
<1>2. Len(t) = n /\ \A k \in 1..n : t[k] = s[k]
  BY <1>1, PartOf
<1> HIDE DEF t, e
<1>3. ASSUME i + e - 1 <= n PROVE \A k \in 1..e : (i + k) - 1 \in 1..n \/ i = 0
  BY <1>1, <1>3
<1>4. ASSUME i + e - 1 <= n, i # 0 PROVE \A k \in 1..e : t[i + k - 1] = s[i + k - 1]
  BY <1>2, <1>3, <1>4
<1> QED BY <1>1, <1>2, <1>4 DEF At, t, e

\* IndexFirstSubSeq finds the first one.
LEMMA FirstIs ==
  ASSUME NEW s \in Seq(Parts), NEW d \in Seq(Parts), Len(d) > 0, NEW i, FirstAt(s, d, i)
  PROVE  Holds(s, d) /\ IndexFirstSubSeq(d, s) = i
<1> DEFINE e == Len(d)
<1>1. /\ Len(s) \in Nat /\ e \in Nat /\ e > 0 /\ i \in 1..Len(s) /\ i + e - 1 <= Len(s)
      /\ At(s, d, i) /\ \A j \in 1..i - 1 : ~At(s, d, j)
  BY LenProperties DEF FirstAt, At
<1>2. \A n \in 0..Len(s) : d \in SubSeqs(SubSeq(s, 1, n)) <=> i + e - 1 <= n
  <2> TAKE n \in 0..Len(s)
  <2>1. 1 \in 1..Len(s) + 1 /\ SubSeq(s, 1, n) \in Seq(Parts) /\ Len(SubSeq(s, 1, n)) = n
    BY <1>1, PartOf
  <2>2. d \in SubSeqs(SubSeq(s, 1, n)) <=> \E k \in 1..n : At(SubSeq(s, 1, n), d, k)
    BY <2>1, HoldsIs DEF Holds
  <2>3. \A k \in 1..n : At(SubSeq(s, 1, n), d, k) <=> At(s, d, k) /\ k + Len(d) - 1 <= n
    BY <1>1, PrefixHolds
  <2> HIDE DEF e
  <2>4. \A k \in 1..n : At(SubSeq(s, 1, n), d, k) <=> At(s, d, k) /\ k + e - 1 <= n
    BY <2>3 DEF e
  <2>5. ASSUME i + e - 1 <= n PROVE i \in 1..n
    BY <1>1, <2>5
  <2>6. ASSUME NEW k \in 1..n, At(s, d, k), k + e - 1 <= n PROVE i + e - 1 <= n
    <3>1. k >= i
      BY <1>1, <2>6
    <3> QED BY <1>1, <2>6, <3>1
  <2> QED BY <1>1, <2>2, <2>4, <2>5, <2>6
<1> DEFINE Ends(n) == /\ d \in SubSeqs(SubSeq(s, 1, n))
                      /\ \A j \in 0..n - 1 : d \notin SubSeqs(SubSeq(s, 1, j))
<1> HIDE DEF e
<1>3. \A n \in 0..Len(s) : Ends(n) <=> n = i + e - 1
  BY <1>1, <1>2
<1> DEFINE last == CHOOSE n \in 0..Len(s) : Ends(n)
<1>4. IndexFirstSubSeq(d, s) = last - (Len(d) - 1)
  BY Zenon DEF IndexFirstSubSeq
<1> HIDE DEF Ends
<1>5. last = i + e - 1
  <2>1. \E n \in 0..Len(s) : Ends(n)
    <3>1. i + e - 1 \in 0..Len(s)
      BY <1>1
    <3> QED BY <1>3, <3>1
  <2>2. last \in 0..Len(s) /\ Ends(last)
    BY <2>1, Zenon
  <2> QED BY <1>3, <2>2
<1> HIDE DEF last
<1>6. IndexFirstSubSeq(d, s) = i
  <2>1. IndexFirstSubSeq(d, s) = last - (e - 1)
    BY <1>4 DEF e
  <2> QED BY <1>1, <1>5, <2>1
<1>7. Holds(s, d)
  BY <1>1, HoldsIs
<1> QED BY <1>6, <1>7

\* Where there is one, there is a first one.
LEMMA Found ==
  ASSUME NEW s \in Seq(Parts), NEW d \in Seq(Parts), Len(d) > 0, Holds(s, d)
  PROVE  FirstAt(s, d, IndexFirstSubSeq(d, s))
<1> DEFINE places == {i \in 1..Len(s) : At(s, d, i)}
<1>0. Len(s) \in Nat
  BY LenProperties
<1>1. places # {} /\ places \subseteq Nat
  BY <1>0, HoldsIs
<1>2. PICK i \in places : \A j \in places : i <= j
  BY <1>1, LeastNumber
<1>3. FirstAt(s, d, i)
  BY <1>0, <1>2 DEF FirstAt
<1> QED BY <1>3, FirstIs

LEMMA Delimiters ==
  /\ Line \in Seq(Parts) /\ Len(Line) = 2 /\ Line[1] = "cr" /\ Line[2] = "lf"
  /\ BlankLine \in Seq(Parts) /\ Len(BlankLine) = 4
  /\ BlankLine[1] = "cr" /\ BlankLine[2] = "lf" /\ BlankLine[3] = "cr" /\ BlankLine[4] = "lf"
<1>1. "cr" \in Parts /\ "lf" \in Parts
  BY DEF Parts, Breaks
<1> QED BY <1>1 DEF Line, BlankLine

LEMMA BlankAt ==
  ASSUME NEW s \in Seq(Parts), NEW i \in Nat
  PROVE  At(s, BlankLine, i) <=>
           /\ i \in 1..Len(s) /\ i + 3 <= Len(s)
           /\ s[i] = "cr" /\ s[i + 1] = "lf" /\ s[i + 2] = "cr" /\ s[i + 3] = "lf"
<1> DEFINE d == BlankLine
<1>1. Len(d) = 4 /\ d[1] = "cr" /\ d[2] = "lf" /\ d[3] = "cr" /\ d[4] = "lf"
  BY Delimiters
<1> HIDE DEF d
<1>2. Len(s) \in Nat
  BY LenProperties
<1>3. i + 1 - 1 = i /\ i + 2 - 1 = i + 1 /\ i + 3 - 1 = i + 2 /\ i + 4 - 1 = i + 3
  OBVIOUS
<1>4. At(s, d, i) <=> /\ i \in 1..Len(s) /\ i + 3 <= Len(s)
                      /\ \A k \in 1..4 : s[i + k - 1] = d[k]
  BY <1>1, <1>2, <1>3 DEF At
<1>5. (\A k \in 1..4 : s[i + k - 1] = d[k]) <=>
        s[i] = d[1] /\ s[i + 1] = d[2] /\ s[i + 2] = d[3] /\ s[i + 3] = d[4]
  <2>1. \A k \in 1..4 : k = 1 \/ k = 2 \/ k = 3 \/ k = 4
    OBVIOUS
  <2>2. 1 \in 1..4 /\ 2 \in 1..4 /\ 3 \in 1..4 /\ 4 \in 1..4
    OBVIOUS
  <2>3. ASSUME \A k \in 1..4 : s[i + k - 1] = d[k]
        PROVE  s[i] = d[1] /\ s[i + 1] = d[2] /\ s[i + 2] = d[3] /\ s[i + 3] = d[4]
    <3>1. s[i + 1 - 1] = d[1] /\ s[i + 2 - 1] = d[2] /\ s[i + 3 - 1] = d[3] /\ s[i + 4 - 1] = d[4]
      BY <2>2, <2>3, Zenon
    <3> QED BY <1>3, <3>1, Zenon
  <2>4. ASSUME s[i] = d[1], s[i + 1] = d[2], s[i + 2] = d[3], s[i + 3] = d[4], NEW k \in 1..4
        PROVE  s[i + k - 1] = d[k]
    <3>1. k = 1 \/ k = 2 \/ k = 3 \/ k = 4
      BY <2>1
    <3> QED BY <1>3, <2>4, <3>1
  <2> QED BY <2>3, <2>4
<1> QED BY <1>1, <1>4, <1>5 DEF d

\* A line break in a stream has a "cr" and something behind it.
LEMMA LineIn ==
  ASSUME NEW s \in Seq(Parts), Holds(s, Line)
  PROVE  \E i \in 1..Len(s) : i + 1 <= Len(s) /\ s[i] = "cr"
<1>0. Line \in Seq(Parts) /\ Len(Line) > 0
  BY Delimiters
<1>1. PICK i \in 1..Len(s) : At(s, Line, i)
  BY <1>0, HoldsIs, Zenon
<1>2. Len(s) \in Nat /\ i + 1 - 1 = i /\ 1 \in 1..Len(Line)
  BY LenProperties, Delimiters
<1>3. s[i + 1 - 1] = Line[1] /\ i + 2 - 1 <= Len(s)
  BY <1>1, <1>2, Delimiters DEF At
<1> QED BY <1>2, <1>3, Delimiters

-----------------------------------------------------------------------------
(***************************************************************************)
(* getline() and get().                                                    *)
(***************************************************************************)
IsEnd(s, i) ==
  /\ i \in 1..Len(s) + 1
  /\ i <= Len(s) => s[i] = "cr"
  /\ \A j \in 1..i - 1 : s[j] # "cr"

LEMMA EndIs ==
  ASSUME NEW s \in Seq(Parts)
  PROVE  IsEnd(s, EndOfLine(s)) /\ \A i : IsEnd(s, i) => EndOfLine(s) = i
<1> DEFINE ends == {i \in 1..Len(s) + 1 : i <= Len(s) => s[i] = "cr"}
<1>0. Len(s) \in Nat
  BY LenProperties
<1>1. ends \subseteq Nat /\ Len(s) + 1 \in ends
  BY <1>0
<1>2. PICK e \in ends : \A j \in ends : e <= j
  BY <1>1, LeastNumber
<1>3. IsEnd(s, e)
  BY <1>0, <1>2 DEF IsEnd
<1>4. \A i : IsEnd(s, i) => i = e
  <2> SUFFICES ASSUME NEW i, IsEnd(s, i) PROVE i = e
    OBVIOUS
  <2>1. i \in Nat /\ e \in Nat /\ i <= Len(s) + 1 /\ e <= Len(s) + 1
    BY <1>0, <1>3 DEF IsEnd
  <2>2. ~(i < e)
    BY <1>0, <1>3, <2>1 DEF IsEnd
  <2>3. ~(e < i)
    BY <1>0, <1>3, <2>1 DEF IsEnd
  <2> QED BY <2>1, <2>2, <2>3
<1>5. EndOfLine(s) = CHOOSE i \in 1..Len(s) + 1 :
                       (i <= Len(s) => s[i] = "cr") /\ \A j \in 1..i - 1 : s[j] # "cr"
  BY Zenon DEF EndOfLine
<1>6. IsEnd(s, EndOfLine(s))
  <2>1. \E i \in 1..Len(s) + 1 : (i <= Len(s) => s[i] = "cr") /\ \A j \in 1..i - 1 : s[j] # "cr"
    BY <1>3, Zenon DEF IsEnd
  <2> QED BY <1>5, <2>1, Zenon DEF IsEnd
<1> QED BY <1>4, <1>6

-----------------------------------------------------------------------------
(***************************************************************************)
(* A stream that is cut.                                                   *)
(***************************************************************************)
LEMMA FromIs ==
  ASSUME NEW s \in Seq(Parts), NEW i \in 1..Len(s) + 1
  PROVE  /\ From(s, i) \in Seq(Parts)
         /\ Len(From(s, i)) = Len(s) - i + 1
         /\ \A k \in 1..Len(s) - i + 1 : From(s, i)[k] = s[i + k - 1]
<1>1. Len(s) \in Nat /\ Len(s) \in 0..Len(s)
  BY LenProperties
<1> QED BY <1>1, PartOf DEF From

\* Joining, element by element.
LEMMA JoinIs ==
  ASSUME NEW a \in Seq(Parts), NEW b \in Seq(Parts)
  PROVE  /\ a \o b \in Seq(Parts)
         /\ Len(a) \in Nat /\ Len(b) \in Nat
         /\ Len(a \o b) = Len(a) + Len(b)
         /\ \A k \in 1..Len(a) : (a \o b)[k] = a[k]
         /\ \A k \in 1..Len(b) : (a \o b)[Len(a) + k] = b[k]
<1>1. Len(a) \in Nat /\ Len(b) \in Nat
  BY LenProperties
<1>2. /\ a \o b \in Seq(Parts) /\ Len(a \o b) = Len(a) + Len(b)
      /\ \A i \in 1..Len(a) + Len(b) : (a \o b)[i] = IF i <= Len(a) THEN a[i] ELSE b[i - Len(a)]
  BY ConcatProperties
<1>3. ASSUME NEW k \in 1..Len(a) PROVE (a \o b)[k] = a[k]
  BY <1>1, <1>2
<1>4. ASSUME NEW k \in 1..Len(b) PROVE (a \o b)[Len(a) + k] = b[k]
  <2>1. Len(a) + k \in 1..Len(a) + Len(b) /\ ~(Len(a) + k <= Len(a)) /\ Len(a) + k - Len(a) = k
    BY <1>1
  <2> QED BY <1>2, <2>1
<1> QED BY <1>1, <1>2, <1>3, <1>4

LEMMA FromJoin ==
  ASSUME NEW a \in Seq(Parts), NEW b \in Seq(Parts), NEW i \in 1..Len(a) + 1
  PROVE  From(a, i) \o b = From(a \o b, i)
<1> DEFINE t == From(a, i)
           u == From(a \o b, i)
<1>1. /\ a \o b \in Seq(Parts) /\ Len(a) \in Nat /\ Len(b) \in Nat
      /\ Len(a \o b) = Len(a) + Len(b) /\ i \in 1..Len(a \o b) + 1
      /\ \A k \in 1..Len(a) : (a \o b)[k] = a[k]
      /\ \A k \in 1..Len(b) : (a \o b)[Len(a) + k] = b[k]
  BY JoinIs
<1>2. /\ t \in Seq(Parts) /\ Len(t) = Len(a) - i + 1
      /\ \A k \in 1..Len(a) - i + 1 : t[k] = a[i + k - 1]
  BY FromIs
<1>3. /\ u \in Seq(Parts) /\ Len(u) = Len(a) + Len(b) - i + 1
      /\ \A k \in 1..Len(a) + Len(b) - i + 1 : u[k] = (a \o b)[i + k - 1]
  <2>1. /\ u \in Seq(Parts) /\ Len(u) = Len(a \o b) - i + 1
        /\ \A k \in 1..Len(a \o b) - i + 1 : u[k] = (a \o b)[i + k - 1]
    BY <1>1, FromIs, Zenon
  <2> QED BY <1>1, <2>1
<1> HIDE DEF t, u
<1>4. /\ t \o b \in Seq(Parts) /\ Len(t \o b) = Len(t) + Len(b)
      /\ \A k \in 1..Len(t) : (t \o b)[k] = t[k]
      /\ \A k \in 1..Len(b) : (t \o b)[Len(t) + k] = b[k]
  BY <1>2, JoinIs
<1>5. ASSUME NEW k \in 1..Len(t \o b) PROVE (t \o b)[k] = u[k]
  <2>1. CASE k <= Len(t)
    BY <1>1, <1>2, <1>3, <1>4, <1>5, <2>1
  <2>2. CASE k > Len(t)
    <3>1. k - Len(t) \in 1..Len(b) /\ Len(t) + (k - Len(t)) = k
      BY <1>1, <1>2, <1>4, <1>5, <2>2
    <3>2. (t \o b)[k] = b[k - Len(t)]
      BY <1>4, <3>1
    <3>3. Len(a) + (k - Len(t)) = i + k - 1 /\ k \in 1..Len(a) + Len(b) - i + 1
      BY <1>1, <1>2, <1>4, <1>5
    <3>4. u[k] = b[k - Len(t)]
      BY <1>1, <1>3, <3>1, <3>3
    <3> QED BY <3>2, <3>4
  <2> QED BY <1>1, <1>2, <1>4, <1>5, <2>1, <2>2
<1>6. Len(t \o b) = Len(u)
  BY <1>1, <1>2, <1>3, <1>4
<1>7. t \o b = u
  BY <1>3, <1>4, <1>5, <1>6, SeqEqual
<1> QED BY <1>7 DEF t, u

LEMMA FromFrom ==
  ASSUME NEW s \in Seq(Parts), NEW i \in 1..Len(s) + 1, NEW j \in 1..Len(s) - i + 2
  PROVE  From(From(s, i), j) = From(s, i + j - 1)
<1> DEFINE t == From(s, i)
<1>1. Len(s) \in Nat
  BY LenProperties
<1>2. /\ t \in Seq(Parts) /\ Len(t) = Len(s) - i + 1
      /\ \A k \in 1..Len(s) - i + 1 : t[k] = s[i + k - 1]
  BY FromIs
<1> HIDE DEF t
<1>3. j \in 1..Len(t) + 1 /\ i + j - 1 \in 1..Len(s) + 1
  BY <1>1, <1>2
<1>4. /\ From(t, j) \in Seq(Parts) /\ Len(From(t, j)) = Len(t) - j + 1
      /\ \A k \in 1..Len(t) - j + 1 : From(t, j)[k] = t[j + k - 1]
  BY <1>2, <1>3, FromIs
<1>5. /\ From(s, i + j - 1) \in Seq(Parts) /\ Len(From(s, i + j - 1)) = Len(s) - (i + j - 1) + 1
      /\ \A k \in 1..Len(s) - (i + j - 1) + 1 : From(s, i + j - 1)[k] = s[i + j - 1 + k - 1]
  BY <1>3, FromIs
<1>6. ASSUME NEW k \in 1..Len(From(t, j)) PROVE From(t, j)[k] = From(s, i + j - 1)[k]
  <2>0. Len(t) = Len(s) - i + 1 /\ k \in 1..Len(t) - j + 1 /\ j \in Nat /\ i \in Nat
    BY <1>1, <1>2, <1>4, <1>6
  <2>1. /\ k \in 1..Len(t) - j + 1 /\ j + k - 1 \in 1..Len(s) - i + 1
        /\ k \in 1..Len(s) - (i + j - 1) + 1 /\ i + (j + k - 1) - 1 = i + j - 1 + k - 1
    BY <1>1, <1>3, <2>0
  <2> QED BY <1>2, <1>4, <1>5, <2>1
<1>7. Len(From(t, j)) = Len(From(s, i + j - 1))
  BY <1>1, <1>2, <1>4, <1>5
<1>8. From(t, j) = From(s, i + j - 1)
  BY <1>4, <1>5, <1>6, <1>7, SeqEqual
<1> QED BY <1>8 DEF t

LEMMA JoinsOfAll ==
  \A S : \A a, b, c \in Seq(S) : (a \o b) \o c = a \o (b \o c)
BY ConcatAssociative

LEMMA JoinJoin ==
  \A a, b, c \in Seq(Parts) : (a \o b) \o c = a \o (b \o c)
BY JoinsOfAll

\* What is read off the front of what comes stays in the stream.
LEMMA MoveJoin ==
  ASSUME NEW a \in Seq(Parts), NEW b \in Seq(Parts), NEW n \in 1..Len(b)
  PROVE  (a \o SubSeq(b, 1, n)) \o From(b, n + 1) = a \o b
<1> DEFINE t == SubSeq(b, 1, n)
           u == From(b, n + 1)
<1>1. /\ Len(b) \in Nat /\ 1 \in 1..Len(b) + 1 /\ n \in 0..Len(b) /\ n + 1 \in 1..Len(b) + 1
  BY LenProperties
<1>2. /\ t \in Seq(Parts) /\ Len(t) = n /\ \A k \in 1..n : t[k] = b[k]
  BY <1>1, PartOf
<1>3. /\ u \in Seq(Parts) /\ Len(u) = Len(b) - n /\ \A k \in 1..Len(b) - n : u[k] = b[n + k]
  <2>1. /\ u \in Seq(Parts) /\ Len(u) = Len(b) - (n + 1) + 1
        /\ \A k \in 1..Len(b) - (n + 1) + 1 : u[k] = b[n + 1 + k - 1]
    BY <1>1, FromIs
  <2> QED BY <1>1, <2>1
<1> HIDE DEF t, u
<1>4. t \o u = b
  <2>1. /\ t \o u \in Seq(Parts) /\ Len(t \o u) = Len(t) + Len(u)
        /\ \A k \in 1..Len(t) : (t \o u)[k] = t[k]
        /\ \A k \in 1..Len(u) : (t \o u)[Len(t) + k] = u[k]
    BY <1>2, <1>3, JoinIs
  <2>2. ASSUME NEW k \in 1..Len(t \o u) PROVE (t \o u)[k] = b[k]
    <3>1. CASE k <= n
      BY <1>1, <1>2, <2>1, <2>2, <3>1
    <3>2. CASE k > n
      <4> DEFINE m == k - n
      <4>1. m \in 1..Len(u) /\ Len(t) + m = k /\ n + m = k /\ m \in 1..Len(b) - n
        BY <1>1, <1>2, <1>3, <2>1, <2>2, <3>2
      <4> HIDE DEF m
      <4>2. (t \o u)[Len(t) + m] = u[m] /\ u[m] = b[n + m]
        BY <1>3, <2>1, <4>1
      <4> QED BY <4>1, <4>2
    <3> QED BY <1>1, <1>2, <2>1, <2>2, <3>1, <3>2
  <2>3. Len(t \o u) = Len(b)
    BY <1>1, <1>2, <1>3, <2>1
  <2> QED BY <2>1, <2>2, <2>3, SeqEqual
<1>5. (a \o t) \o u = a \o (t \o u)
  <2>1. t \in Seq(Parts) /\ u \in Seq(Parts)
    BY <1>2, <1>3
  <2> QED BY <2>1, JoinJoin
<1> QED BY <1>4, <1>5 DEF t, u

LEMMA FromAny ==
  ASSUME NEW s \in Seq(Parts), NEW i \in Nat, i > 0
  PROVE  From(s, i) \in Seq(Parts)
<1>1. Len(s) \in Nat /\ \A k \in 1..Len(s) : s[k] \in Parts
  BY LenProperties, ElementOfSeq
<1>2. i \in Int /\ Len(s) \in Int /\ \A k \in i..Len(s) : s[k] \in Parts
  BY <1>1
<1> QED BY <1>2, SubSeqProperties DEF From

-----------------------------------------------------------------------------
(***************************************************************************)
(* The reads of the client.                                                *)
(***************************************************************************)

\* Taking the first line off leaves what is behind the first line of the answer.
LEMMA StatusLineTaken ==
  ASSUME NEW s \in Seq(Parts), NEW a \in Seq(Parts), NEW b \in Seq(Parts),
         a \o b = s, Holds(a, Line)
  PROVE  /\ s # <<>>
         /\ a[1] = s[1]
         /\ AfterLine(a) \in Seq(Parts)
         /\ AfterLine(a) \o b = From(s, EndOfLine(s) + 2)
<1> DEFINE e == EndOfLine(a)
           f == e + 2
<1>1. PICK i \in 1..Len(a) : i + 1 <= Len(a) /\ a[i] = "cr"
  BY LineIn
<1>2. IsEnd(a, e)
  BY EndIs
<1> HIDE DEF e
<1>3. /\ Len(a) \in Nat /\ Len(b) \in Nat /\ Len(s) = Len(a) + Len(b)
      /\ \A k \in 1..Len(a) : s[k] = a[k]
  BY JoinIs
<1>4. e \in 1..Len(a) /\ e + 1 <= Len(a) /\ a[e] = "cr" /\ f \in 1..Len(a) + 1
  <2>1. e \in Nat /\ ~(i < e)
    BY <1>1, <1>2, <1>3 DEF IsEnd
  <2> QED BY <1>1, <1>2, <1>3, <2>1 DEF IsEnd
<1>5. IsEnd(s, e)
  <2>1. e \in 1..Len(s) + 1 /\ s[e] = "cr"
    BY <1>3, <1>4
  <2>2. ASSUME NEW j \in 1..e - 1 PROVE s[j] # "cr"
    <3>1. j \in 1..Len(a)
      BY <1>3, <1>4, <2>2
    <3>2. a[j] # "cr"
      BY <1>2, <2>2 DEF IsEnd
    <3> QED BY <1>3, <3>1, <3>2
  <2> QED BY <2>1, <2>2 DEF IsEnd
<1>6. EndOfLine(s) = e
  BY <1>5, EndIs
<1> HIDE DEF f
<1>7. From(a, f) \in Seq(Parts) /\ From(a, f) \o b = From(s, f)
  BY <1>4, FromIs, FromJoin
<1>8. AfterLine(a) = From(a, f) /\ From(s, EndOfLine(s) + 2) = From(s, f)
  BY <1>6 DEF AfterLine, e, f
<1>9. s # <<>> /\ 1 \in 1..Len(a)
  <2>1. Len(s) # 0 /\ 1 \in 1..Len(a)
    BY <1>3, <1>4
  <2> QED BY <2>1, EmptySeq
<1> QED BY <1>3, <1>7, <1>8, <1>9

\* A regular answer, up to the end of its first blank line.
LEMMA RegularIs ==
  ASSUME NEW s \in Seq(Parts), Regular(s), s[1] \notin Breaks
  PROVE  \E B \in Nat :
           /\ B = IndexFirstSubSeq(BlankLine, s) /\ FirstAt(s, BlankLine, B)
           /\ B >= 2 /\ B + 3 <= Len(s)
           /\ s[B] = "cr" /\ s[B + 1] = "lf" /\ s[B + 2] = "cr" /\ s[B + 3] = "lf"
           /\ \A i \in 1..B : /\ s[i] = "cr" <=> s[i + 1] = "lf"
                              /\ s[i] \notin Breaks => s[i + 1] = "cr"
           /\ s[2] = "cr" /\ s[3] = "lf"
<1> DEFINE B == IndexFirstSubSeq(BlankLine, s)
<1>1. FirstAt(s, BlankLine, B)
  <2>1. BlankLine \in Seq(Parts) /\ Len(BlankLine) > 0
    BY Delimiters
  <2>2. Holds(s, BlankLine)
    BY Zenon DEF Regular
  <2> QED BY <2>1, <2>2, Found
<1>2. \A i \in 1..B : /\ s[i] = "cr" <=> s[i + 1] = "lf"
                      /\ s[i] \notin Breaks => s[i + 1] = "cr"
  BY Zenon DEF Regular
<1> HIDE DEF B
<1>3. Len(s) \in Nat
  BY LenProperties
<1>4. B \in Nat /\ B \in 1..Len(s)
  BY <1>1, <1>3 DEF FirstAt, At
<1>5. /\ B + 3 <= Len(s)
      /\ s[B] = "cr" /\ s[B + 1] = "lf" /\ s[B + 2] = "cr" /\ s[B + 3] = "lf"
  BY <1>1, <1>4, BlankAt DEF FirstAt
<1>6. B # 1
  BY <1>5 DEF Breaks
<1>7. B >= 2
  BY <1>4, <1>6
<1>8. 1 \in 1..B /\ 2 \in 1..B /\ 1 + 1 = 2 /\ 2 + 1 = 3
  BY <1>4, <1>7
<1>9. s[2] = "cr"
  BY <1>2, <1>8
<1>10. s[3] = "lf"
  BY <1>2, <1>8, <1>9
<1> QED BY <1>1, <1>2, <1>4, <1>5, <1>7, <1>9, <1>10 DEF B

LEMMA SectionIs ==
  ASSUME NEW s \in Seq(Parts), NEW B \in Nat, B = IndexFirstSubSeq(BlankLine, s),
         B >= 2, B + 3 <= Len(s)
  PROVE  /\ Section(s) \in Seq(Parts)
         /\ Len(Section(s)) = B - 2
         /\ \A i \in 1..B - 2 : Section(s)[i] = s[i + 3]
         /\ BodyOf(s) = From(s, B + 4)
<1> DEFINE e == B + 1
           t == SubSeq(s, 4, e)
<1>1. Section(s) = t /\ BodyOf(s) = From(s, B + 4)
  BY DEF Section, BodyOf
<1>2. /\ Len(s) \in Nat /\ 4 \in 1..Len(s) + 1 /\ e \in 0..Len(s) /\ e - 4 + 1 = B - 2
      /\ (e < 4 => B = 2) /\ e \in Nat
  BY LenProperties
<1> HIDE DEF e
<1>3. /\ t \in Seq(Parts) /\ Len(t) = IF 4 <= e THEN e - 4 + 1 ELSE 0
      /\ \A k \in 1..e - 4 + 1 : t[k] = s[4 + k - 1]
  BY <1>2, PartOf
<1> HIDE DEF t
<1>4. Len(t) = B - 2
  BY <1>2, <1>3
<1>5. \A k \in 1..B - 2 : 4 + k - 1 = k + 3
  OBVIOUS
<1>6. \A k \in 1..B - 2 : t[k] = s[k + 3]
  BY <1>2, <1>3, <1>5
<1> QED BY <1>1, <1>3, <1>4, <1>6

LEMMA SectionTyped ==
  ASSUME NEW s \in Seq(Parts), Regular(s), s[1] \notin Breaks
  PROVE  Section(s) \in Seq(Parts)
<1>1. PICK B \in Nat :
           /\ B = IndexFirstSubSeq(BlankLine, s) /\ FirstAt(s, BlankLine, B)
           /\ B >= 2 /\ B + 3 <= Len(s)
           /\ s[B] = "cr" /\ s[B + 1] = "lf" /\ s[B + 2] = "cr" /\ s[B + 3] = "lf"
           /\ \A i \in 1..B : /\ s[i] = "cr" <=> s[i + 1] = "lf"
                              /\ s[i] \notin Breaks => s[i + 1] = "cr"
           /\ s[2] = "cr" /\ s[3] = "lf"
  BY RegularIs
<1> QED BY <1>1, SectionIs

\* Where the loop stands in a regular answer: in front of a line, with n characters
\* and texts of the section behind it, and all of the section in its buffer.
Stands(s, a, b, n) ==
  /\ n \in 0..Len(Section(s))
  /\ a \o b = From(s, n + 4)
  /\ Len(a) >= Len(Section(s)) + 2 - n
  /\ s[n + 2] = "cr" /\ s[n + 3] = "lf"

LEMMA LoopBegins ==
  ASSUME NEW s \in Seq(Parts), NEW a \in Seq(Parts), NEW b \in Seq(Parts),
         Regular(s), s[1] \notin Breaks,
         a \o b = From(s, EndOfLine(s) + 2), Holds(a, BlankLine)
  PROVE  Stands(s, a, b, 0)
<1>1. PICK B \in Nat :
        /\ B = IndexFirstSubSeq(BlankLine, s) /\ FirstAt(s, BlankLine, B)
        /\ B >= 2 /\ B + 3 <= Len(s)
        /\ s[2] = "cr" /\ s[3] = "lf"
  BY RegularIs
<1>2. EndOfLine(s) + 2 = 4
  <2>1. Len(s) \in Nat /\ "cr" \in Breaks
    BY LenProperties DEF Breaks
  <2>2. s[1] # "cr"
    BY <2>1
  <2>3. \A j \in 1..2 - 1 : s[j] # "cr"
    BY <2>2
  <2>4. 2 \in 1..Len(s) + 1
    BY <1>1, <2>1
  <2>5. IsEnd(s, 2)
    BY <1>1, <2>3, <2>4 DEF IsEnd
  <2>6. EndOfLine(s) = 2
    BY <2>5, EndIs
  <2> QED BY <2>6
<1>3. Len(Section(s)) = B - 2
  BY <1>1, SectionIs
<1>4. PICK i \in 1..Len(a) : At(a, BlankLine, i)
  <2>1. BlankLine \in Seq(Parts) /\ Len(BlankLine) > 0
    BY Delimiters
  <2> QED BY <2>1, HoldsIs, Zenon
<1>5. /\ Len(a) \in Nat /\ Len(b) \in Nat /\ i \in Nat /\ i >= 1 /\ i + 3 <= Len(a)
      /\ a[i] = "cr" /\ a[i + 1] = "lf" /\ a[i + 2] = "cr" /\ a[i + 3] = "lf"
  <2>1. Len(a) \in Nat /\ Len(b) \in Nat /\ i \in Nat /\ i >= 1
    BY LenProperties
  <2> QED BY <1>4, <2>1, BlankAt
<1>6. /\ Len(a \o b) = Len(a) + Len(b)
      /\ \A k \in 1..Len(a) : (a \o b)[k] = a[k]
  BY JoinIs
<1>7. /\ Len(s) \in Nat /\ Len(a \o b) = Len(s) - 4 + 1
      /\ \A k \in 1..Len(s) - 4 + 1 : (a \o b)[k] = s[4 + k - 1]
  <2>1. Len(s) \in Nat /\ 4 \in 1..Len(s) + 1
    BY <1>1, LenProperties
  <2> DEFINE t == From(s, 4)
             u == a \o b
  <2>2. /\ Len(t) = Len(s) - 4 + 1
        /\ \A k \in 1..Len(s) - 4 + 1 : t[k] = s[4 + k - 1]
    BY <2>1, FromIs
  <2>3. u = t
    BY <1>2
  <2> HIDE DEF t, u
  <2>4. /\ Len(u) = Len(s) - 4 + 1
        /\ \A k \in 1..Len(s) - 4 + 1 : u[k] = s[4 + k - 1]
    BY <2>2, <2>3
  <2> QED BY <2>1, <2>4 DEF u
<1>8. \A k \in 1..Len(a) : a[k] = s[k + 3]
  <2> TAKE k \in 1..Len(a)
  <2>1. k \in 1..Len(s) - 4 + 1 /\ 4 + k - 1 = k + 3
    BY <1>5, <1>6, <1>7
  <2> QED BY <1>6, <1>7, <2>1
<1> DEFINE m == i + 3
<1>9. At(s, BlankLine, m)
  <2>1. /\ i \in 1..Len(a) /\ i + 1 \in 1..Len(a) /\ i + 2 \in 1..Len(a) /\ i + 3 \in 1..Len(a)
        /\ m \in Nat /\ m \in 1..Len(s) /\ m + 3 <= Len(s)
        /\ (i + 1) + 3 = m + 1 /\ (i + 2) + 3 = m + 2 /\ (i + 3) + 3 = m + 3
    BY <1>5, <1>6, <1>7
  <2>2. a[i] = s[i + 3] /\ a[i + 1] = s[(i + 1) + 3] /\ a[i + 2] = s[(i + 2) + 3]
        /\ a[i + 3] = s[(i + 3) + 3]
    BY <1>8, <2>1, Zenon
  <2>3. s[m] = "cr" /\ s[m + 1] = "lf" /\ s[m + 2] = "cr" /\ s[m + 3] = "lf"
    BY <1>5, <2>1, <2>2
  <2> QED BY <2>1, <2>3, BlankAt
<1>10. B <= m
  <2>1. m \in Nat /\ m >= 1
    BY <1>5
  <2> HIDE DEF m
  <2> QED BY <1>1, <1>9, <2>1 DEF FirstAt
<1>11. Len(a) >= Len(Section(s)) + 2 - 0 /\ 0 \in 0..Len(Section(s)) /\ 0 + 4 = 4 /\ 0 + 2 = 2
       /\ 0 + 3 = 3
  BY <1>1, <1>3, <1>5, <1>10
<1> QED BY <1>1, <1>2, <1>11 DEF Stands

\* What there is around it: B is where the first blank line begins.
Around(s, a, b, n, B) ==
  /\ n \in Nat /\ n <= B - 2 /\ B >= 2 /\ Len(s) \in Nat /\ B + 3 <= Len(s)
  /\ Len(Section(s)) = B - 2 /\ BodyOf(s) = From(s, B + 4)
  /\ \A i \in 1..B - 2 : Section(s)[i] = s[i + 3]
  /\ \A j \in 1..B - 1 : ~At(s, BlankLine, j)
  /\ s[B] = "cr" /\ s[B + 2] = "cr"
  /\ \A i \in 1..B : /\ s[i] = "cr" <=> s[i + 1] = "lf"
                     /\ s[i] \notin Breaks => s[i + 1] = "cr"
  /\ Len(a) \in Nat /\ Len(a) >= B - n
  /\ \A j \in 1..Len(a) : a[j] = s[(n + 3) + j]
  /\ \A i \in 1..Len(a) + 1 : From(a, i) \in Seq(Parts)
                              /\ From(a, i) \o b = From(s, (n + 3) + i)
                              /\ Len(From(a, i)) = Len(a) - i + 1

LEMMA StandsIs ==
  ASSUME NEW s \in Seq(Parts), NEW a \in Seq(Parts), NEW b \in Seq(Parts), NEW n,
         Regular(s), s[1] \notin Breaks, Stands(s, a, b, n)
  PROVE  \E B \in Nat : Around(s, a, b, n, B)
<1>1. PICK B \in Nat :
        /\ B = IndexFirstSubSeq(BlankLine, s) /\ FirstAt(s, BlankLine, B)
        /\ B >= 2 /\ B + 3 <= Len(s)
        /\ s[B] = "cr" /\ s[B + 2] = "cr"
        /\ \A i \in 1..B : /\ s[i] = "cr" <=> s[i + 1] = "lf"
                           /\ s[i] \notin Breaks => s[i + 1] = "cr"
  BY RegularIs
<1>2. /\ Len(Section(s)) = B - 2 /\ BodyOf(s) = From(s, B + 4)
      /\ \A i \in 1..B - 2 : Section(s)[i] = s[i + 3]
  BY <1>1, SectionIs
<1>3. \A j \in 1..B - 1 : ~At(s, BlankLine, j)
  BY <1>1 DEF FirstAt
<1>4. /\ n \in Nat /\ n <= B - 2 /\ Len(a) \in Nat /\ Len(a) >= B - n /\ Len(s) \in Nat
      /\ a \o b = From(s, n + 4)
  <2>1. /\ n \in 0..Len(Section(s)) /\ a \o b = From(s, n + 4)
        /\ Len(a) >= Len(Section(s)) + 2 - n
    BY DEF Stands
  <2>2. Len(a) \in Nat /\ Len(s) \in Nat
    BY LenProperties
  <2> QED BY <1>1, <1>2, <2>1, <2>2
<1> DEFINE k == n + 4
           r == From(s, k)
<1>5. k \in 1..Len(s) + 1 /\ k \in Nat /\ k - 1 = n + 3
  BY <1>1, <1>4
<1> HIDE DEF k
<1>6. /\ r \in Seq(Parts) /\ Len(r) = Len(s) - k + 1
      /\ \A j \in 1..Len(s) - k + 1 : r[j] = s[k + j - 1]
  BY <1>5, FromIs
<1>7. r = a \o b
  BY <1>4 DEF k
<1>8. /\ Len(b) \in Nat /\ Len(r) = Len(a) + Len(b)
      /\ \A j \in 1..Len(a) : r[j] = a[j]
  BY <1>7, JoinIs
<1>9. \A i \in 1..Len(a) + 1 : /\ From(a, i) \in Seq(Parts) /\ Len(From(a, i)) = Len(a) - i + 1
                               /\ From(a, i) \o b = From(r, i)
  BY <1>7, FromIs, FromJoin
<1>10. \A i \in 1..Len(s) - k + 2 : From(r, i) = From(s, k + i - 1)
  BY <1>5, FromFrom
<1> HIDE DEF r
<1>11. ASSUME NEW j \in 1..Len(a) PROVE a[j] = s[(n + 3) + j]
  <2>1. j \in 1..Len(s) - k + 1 /\ k + j - 1 = (n + 3) + j
    BY <1>4, <1>5, <1>6, <1>8
  <2> QED BY <1>6, <1>8, <2>1
<1>12. ASSUME NEW i \in 1..Len(a) + 1
       PROVE  From(a, i) \in Seq(Parts) /\ From(a, i) \o b = From(s, (n + 3) + i)
              /\ Len(From(a, i)) = Len(a) - i + 1
  <2>1. i \in 1..Len(s) - k + 2 /\ k + i - 1 = (n + 3) + i
    BY <1>4, <1>5, <1>6, <1>8
  <2> QED BY <1>9, <1>10, <2>1
<1> QED BY <1>1, <1>2, <1>3, <1>4, <1>11, <1>12 DEF Around

\* The empty line is the one in front of the body.
LEMMA LoopEnds ==
  ASSUME NEW s \in Seq(Parts), NEW a \in Seq(Parts), NEW b \in Seq(Parts), NEW n,
         Regular(s), s[1] \notin Breaks, Stands(s, a, b, n), n = Len(Section(s))
  PROVE  /\ EndOfLine(a) = 1
         /\ AfterLine(a) \in Seq(Parts)
         /\ AfterLine(a) \o b = BodyOf(s)
<1>0. PICK B \in Nat : Around(s, a, b, n, B)
  BY StandsIs
<1>1. /\ n \in Nat /\ n <= B - 2 /\ B >= 2
      /\ Len(Section(s)) = B - 2 /\ BodyOf(s) = From(s, B + 4)
      /\ s[B + 2] = "cr"
      /\ Len(a) \in Nat /\ Len(a) >= B - n
      /\ \A j \in 1..Len(a) : a[j] = s[(n + 3) + j]
      /\ \A i \in 1..Len(a) + 1 : From(a, i) \in Seq(Parts)
                                  /\ From(a, i) \o b = From(s, (n + 3) + i)
  BY <1>0 DEF Around
<1>2. /\ 1 \in 1..Len(a) /\ 3 \in 1..Len(a) + 1 /\ (n + 3) + 1 = B + 2 /\ (n + 3) + 3 = B + 4
      /\ 1 \in 1..Len(a) + 1
  BY <1>1
<1>3. a[1] = "cr"
  BY <1>1, <1>2
<1>4. EndOfLine(a) = 1
  <2>1. IsEnd(a, 1)
    BY <1>2, <1>3 DEF IsEnd
  <2> QED BY <2>1, EndIs
<1>5. AfterLine(a) = From(a, 3)
  BY <1>4 DEF AfterLine
<1>6. From(a, 3) \in Seq(Parts) /\ From(a, 3) \o b = From(s, (n + 3) + 3)
  BY <1>1, <1>2
<1>7. From(s, (n + 3) + 3) = BodyOf(s)
  BY <1>1, <1>2
<1> QED BY <1>4, <1>5, <1>6, <1>7

\* Any other line is taken off whole, with its end, and the loop stands in front of
\* the next one.
LEMMA LoopGoesOn ==
  ASSUME NEW s \in Seq(Parts), NEW a \in Seq(Parts), NEW b \in Seq(Parts), NEW n,
         Regular(s), s[1] \notin Breaks, Stands(s, a, b, n), n # Len(Section(s))
  PROVE  /\ n \in Nat /\ EndOfLine(a) = 2 /\ 2 < Len(a)
         /\ a[1] = Section(s)[n + 1] /\ a[1] \notin Breaks
         /\ Section(s)[n + 2] \in Breaks /\ Section(s)[n + 3] \in Breaks
         /\ AfterLine(a) \in Seq(Parts)
         /\ Stands(s, AfterLine(a), b, n + 3)
<1>0. PICK B \in Nat : Around(s, a, b, n, B)
  BY StandsIs
<1>1. /\ n \in Nat /\ n <= B - 2 /\ B >= 2 /\ Len(s) \in Nat /\ B + 3 <= Len(s)
      /\ Len(Section(s)) = B - 2
      /\ \A i \in 1..B - 2 : Section(s)[i] = s[i + 3]
      /\ \A j \in 1..B - 1 : ~At(s, BlankLine, j)
      /\ s[B] = "cr"
      /\ \A i \in 1..B : /\ s[i] = "cr" <=> s[i + 1] = "lf"
                         /\ s[i] \notin Breaks => s[i + 1] = "cr"
      /\ Len(a) \in Nat /\ Len(a) >= B - n
      /\ \A j \in 1..Len(a) : a[j] = s[(n + 3) + j]
      /\ \A i \in 1..Len(a) + 1 : From(a, i) \in Seq(Parts)
                                  /\ From(a, i) \o b = From(s, (n + 3) + i)
                                  /\ Len(From(a, i)) = Len(a) - i + 1
  BY <1>0 DEF Around
<1>2. s[n + 2] = "cr" /\ s[n + 3] = "lf"
  BY DEF Stands
<1>3. n + 4 <= B
  <2>1. n < B - 2 /\ n + 3 # B
    BY <1>1, <1>2
  <2> QED BY <1>1, <2>1
<1>4. /\ n + 2 \in 1..B - 1 /\ n + 3 \in 1..B /\ n + 4 \in 1..B
      /\ (n + 2) + 1 = n + 3 /\ (n + 3) + 1 = n + 4 /\ (n + 4) + 1 = n + 5 /\ (n + 5) + 1 = n + 6
      /\ (n + 2) + 2 = n + 4 /\ (n + 2) + 3 = n + 5
      /\ n + 2 \in Nat /\ n + 2 \in 1..Len(s) /\ (n + 2) + 3 <= Len(s)
  BY <1>1, <1>3
<1>5. s[n + 4] # "cr"
  <2> SUFFICES ASSUME s[n + 4] = "cr" PROVE FALSE
    OBVIOUS
  <2>1. s[n + 5] = "lf"
    BY <1>1, <1>4
  <2>2. At(s, BlankLine, n + 2)
    <3> DEFINE m == n + 2
    <3>1. /\ m \in Nat /\ m \in 1..Len(s) /\ m + 3 <= Len(s)
          /\ s[m] = "cr" /\ s[m + 1] = "lf" /\ s[m + 2] = "cr" /\ s[m + 3] = "lf"
      BY <1>2, <1>4, <2>1
    <3> HIDE DEF m
    <3>2. At(s, BlankLine, m)
      BY <3>1, BlankAt
    <3> QED BY <3>2 DEF m
  <2> QED BY <1>1, <1>4, <2>2
<1>6. s[n + 4] \notin Breaks
  <2>1. s[n + 4] # "lf"
    BY <1>1, <1>2, <1>4
  <2> QED BY <1>5, <2>1 DEF Breaks
<1>7. s[n + 5] = "cr"
  BY <1>1, <1>4, <1>6
<1>8. n + 5 <= B
  <2>1. n + 4 # B
    BY <1>1, <1>5
  <2> QED BY <1>1, <1>3, <2>1
<1>9. s[n + 6] = "lf"
  <2>1. n + 5 \in 1..B
    BY <1>1, <1>8
  <2> QED BY <1>1, <1>4, <1>7, <2>1
<1>10. /\ 1 \in 1..Len(a) /\ 2 \in 1..Len(a) /\ 4 \in 1..Len(a) + 1 /\ 2 < Len(a)
       /\ (n + 3) + 1 = n + 4 /\ (n + 3) + 2 = n + 5 /\ (n + 3) + 3 = n + 6
       /\ 2 \in 1..Len(a) + 1
  <2> DEFINE l == Len(a)
  <2>1. n \in Nat /\ B \in Nat /\ l \in Nat /\ l >= B - n /\ n + 5 <= B
    BY <1>1, <1>8
  <2> HIDE DEF l
  <2>2. /\ 1 \in 1..l /\ 2 \in 1..l /\ 4 \in 1..l + 1 /\ 2 < l /\ 2 \in 1..l + 1
        /\ (n + 3) + 1 = n + 4 /\ (n + 3) + 2 = n + 5 /\ (n + 3) + 3 = n + 6
    BY <2>1
  <2> QED BY <2>2 DEF l
<1>11. a[1] = s[n + 4] /\ a[2] = s[n + 5]
  BY <1>1, <1>10
<1>12. EndOfLine(a) = 2
  <2>1. \A j \in 1..2 - 1 : a[j] # "cr"
    BY <1>5, <1>11
  <2>2. IsEnd(a, 2)
    BY <1>7, <1>10, <1>11, <2>1 DEF IsEnd
  <2> QED BY <2>2, EndIs
<1>13. AfterLine(a) = From(a, 4)
  BY <1>12 DEF AfterLine
<1>14. /\ From(a, 4) \in Seq(Parts) /\ From(a, 4) \o b = From(s, (n + 3) + 4)
       /\ Len(From(a, 4)) = Len(a) - 4 + 1
  BY <1>1, <1>10
<1>15. /\ n + 1 \in 1..B - 2 /\ n + 2 \in 1..B - 2 /\ n + 3 \in 1..B - 2
       /\ (n + 1) + 3 = n + 4 /\ (n + 2) + 3 = n + 5 /\ (n + 3) + 3 = n + 6
  BY <1>1, <1>8
<1>16. Section(s)[n + 1] = s[n + 4] /\ Section(s)[n + 2] = s[n + 5] /\ Section(s)[n + 3] = s[n + 6]
  <2>1. \A i \in 1..B - 2 : Section(s)[i] = s[i + 3]
    BY <1>1
  <2>2. /\ Section(s)[n + 1] = s[(n + 1) + 3] /\ Section(s)[n + 2] = s[(n + 2) + 3]
        /\ Section(s)[n + 3] = s[(n + 3) + 3]
    BY <1>15, <2>1, Zenon
  <2> QED BY <1>15, <2>2, Zenon
<1>17. Stands(s, From(a, 4), b, n + 3)
  <2> DEFINE m == n + 3
             t == From(a, 4)
             e == Len(Section(s))
             l == Len(a)
  <2>1. /\ n \in Nat /\ B \in Nat /\ l \in Nat /\ l >= B - n /\ n + 5 <= B
        /\ e = B - 2 /\ Len(t) = l - 4 + 1
    BY <1>1, <1>8, <1>14
  <2>2. (n + 3) + 4 = m + 4 /\ n + 5 = m + 2 /\ n + 6 = m + 3
    BY <2>1
  <2>3. t \o b = From(s, m + 4)
    BY <1>14, <2>2
  <2>4. s[m + 2] = "cr" /\ s[m + 3] = "lf"
    BY <1>7, <1>9, <2>2
  <2> HIDE DEF t, e, l
  <2>5. m \in 0..e /\ Len(t) >= e + 2 - m
    BY <2>1
  <2> HIDE DEF m
  <2>6. Stands(s, t, b, m)
    BY <2>3, <2>4, <2>5 DEF Stands, e
  <2> QED BY <2>6 DEF m, t
<1>18. Section(s)[n + 2] \in Breaks /\ Section(s)[n + 3] \in Breaks
  BY <1>7, <1>9, <1>16 DEF Breaks
<1>19. a[1] = Section(s)[n + 1] /\ a[1] \notin Breaks
  BY <1>6, <1>11, <1>16
<1>20. n \in Nat /\ 2 < Len(a)
  BY <1>1, <1>10
<1>21. AfterLine(a) \in Seq(Parts) /\ Stands(s, AfterLine(a), b, n + 3)
  BY <1>13, <1>14, <1>17, Zenon
<1> QED BY <1>12, <1>18, <1>19, <1>20, <1>21

-----------------------------------------------------------------------------
(***************************************************************************)
(* A line's name and its value.                                            *)
(***************************************************************************)
LEMMA TextsOfHeaders ==
  ASSUME NEW t \in DOMAIN HeaderTexts
  PROVE  HeaderTexts[t].name \in Seq(Parts) /\ HeaderTexts[t].value \in Seq(Parts)
<1>1. HeaderTexts[t].name \in Seq(Tokens) /\ HeaderTexts[t].value \in Seq(Tokens)
  BY HttpExchangeAssumption DEF HttpExchangeAssumption
<1>2. \A s \in Seq(Tokens) : s \in Seq(Parts)
  <2> TAKE s \in Seq(Tokens)
  <2>1. \A i \in 1..Len(s) : s[i] \in Parts
    BY ElementOfSeq DEF Parts, Texts
  <2> QED BY <2>1
<1> QED BY <1>1, <1>2

\* The first of a line's colons.
LEMMA FirstColon ==
  ASSUME NEW header \in Seq(Parts), Colons(header) # {}
  PROVE  Min(Colons(header)) \in Colons(header)
<1> DEFINE places == Colons(header)
<1>1. places \subseteq Nat
  BY LenProperties DEF Colons
<1> HIDE DEF places
<1>2. PICK m \in places : \A n \in places : m <= n
  BY <1>1, LeastNumber DEF places
<1>3. Min(places) \in places
  BY <1>2, Zenon DEF Min
<1> QED BY <1>3 DEF places

LEMMA NameIsText ==
  ASSUME NEW header \in Seq(Parts), NEW before \in Seq(Parts)
  PROVE  HeaderName(header, before) \in Seq(Parts)
<1>1. CASE Colons(header) = {}
  BY <1>1 DEF HeaderName
<1>2. CASE Colons(header) # {}
  <2> DEFINE i == Min(Colons(header))
             e == i - 1
             front == SubSeq(header, 1, e)
             name == HeaderTexts[header[i]].name
  <2>1. i \in Colons(header)
    BY <1>2, FirstColon
  <2>2. HeaderName(header, before) = front \o name
    BY <1>2, Zenon DEF HeaderName
  <2> HIDE DEF i
  <2>3. header[i] \in DOMAIN HeaderTexts /\ i \in 1..Len(header) /\ Len(header) \in Nat
    BY <2>1, LenProperties DEF Colons
  <2>4. name \in Seq(Parts)
    BY <2>3, TextsOfHeaders
  <2>5. e \in 0..Len(header) /\ 1 \in 1..Len(header) + 1
    BY <2>3
  <2> HIDE DEF e
  <2>6. front \in Seq(Parts)
    BY <2>5, PartOf
  <2> QED BY <2>2, <2>4, <2>6, JoinIs
<1> QED BY <1>1, <1>2

\* A line of one text.
LEMMA LineOfOne ==
  ASSUME NEW t \in Parts, NEW before
  PROVE  /\ t \in DOMAIN HeaderTexts =>
              /\ HeaderName(<<t>>, before) = HeaderTexts[t].name
              /\ HeaderValue(<<t>>) = HeaderTexts[t].value
         /\ t \notin DOMAIN HeaderTexts =>
              HeaderName(<<t>>, before) = before /\ HeaderValue(<<t>>) = <<>>
<1> DEFINE h == <<t>>
<1>1. h \in Seq(Parts) /\ Len(h) = 1 /\ DOMAIN h = 1..1 /\ h[1] = t
  OBVIOUS
<1> HIDE DEF h
<1>2. ASSUME t \in DOMAIN HeaderTexts
      PROVE  HeaderName(h, before) = HeaderTexts[t].name /\ HeaderValue(h) = HeaderTexts[t].value
  <2>1. Colons(h) = {1}
    BY <1>1, <1>2 DEF Colons
  <2>2. Min(Colons(h)) = 1
    BY <1>1, <2>1, FirstColon
  <2>3. SubSeq(h, 1, 0) = <<>> /\ From(h, 2) = <<>>
    <3>1. 1 \in 1..Len(h) + 1 /\ 0 \in 0..Len(h) /\ 2 \in 1..Len(h) + 1
      BY <1>1
    <3>2. SubSeq(h, 1, 0) \in Seq(Parts) /\ Len(SubSeq(h, 1, 0)) = 0
      BY <1>1, <3>1, PartOf
    <3>3. From(h, 2) \in Seq(Parts) /\ Len(From(h, 2)) = 0
      <4>1. From(h, 2) \in Seq(Parts) /\ Len(From(h, 2)) = Len(h) - 2 + 1
        BY <1>1, <3>1, FromIs, Zenon
      <4> QED BY <1>1, <4>1
    <3> QED BY <3>2, <3>3, EmptySeq
  <2>4. Colons(h) # {} /\ 1 - 1 = 0 /\ 1 + 1 = 2
    BY <2>1
  <2>5. /\ HeaderName(h, before) = SubSeq(h, 1, 0) \o HeaderTexts[h[1]].name
        /\ HeaderValue(h) = HeaderTexts[h[1]].value \o From(h, 2)
    BY <2>2, <2>4 DEF HeaderName, HeaderValue
  <2>6. HeaderTexts[t].name \in Seq(Parts) /\ HeaderTexts[t].value \in Seq(Parts)
    BY <1>2, TextsOfHeaders
  <2> QED BY <1>1, <2>3, <2>5, <2>6, ConcatEmptySeq
<1>3. ASSUME t \notin DOMAIN HeaderTexts
      PROVE  HeaderName(h, before) = before /\ HeaderValue(h) = <<>>
  <2>1. Colons(h) = {}
    BY <1>1, <1>3 DEF Colons
  <2> QED BY <2>1 DEF HeaderName, HeaderValue
<1> QED BY <1>2, <1>3 DEF h

\* The line taken off a buffer whose second token ends it.
LEMMA LineTaken ==
  ASSUME NEW a \in Seq(Parts), EndOfLine(a) = 2, 2 < Len(a)
  PROVE  SubSeq(a, 1, EndOfLine(a) - 1) = <<a[1]>> /\ a[1] \in Parts
<1>1. Len(a) \in Nat /\ 1 \in 1..Len(a) + 1 /\ 1 \in 0..Len(a) /\ 1 \in 1..Len(a)
  BY LenProperties
<1>2. /\ SubSeq(a, 1, 1) \in Seq(Parts) /\ Len(SubSeq(a, 1, 1)) = 1
      /\ SubSeq(a, 1, 1)[1] = a[1]
  <2>1. /\ SubSeq(a, 1, 1) \in Seq(Parts) /\ Len(SubSeq(a, 1, 1)) = IF 1 <= 1 THEN 1 - 1 + 1 ELSE 0
        /\ \A k \in 1..1 - 1 + 1 : SubSeq(a, 1, 1)[k] = a[1 + k - 1]
    BY <1>1, PartOf
  <2>2. 1 \in 1..1 - 1 + 1 /\ 1 + 1 - 1 = 1
    OBVIOUS
  <2> QED BY <2>1, <2>2
<1>3. a[1] \in Parts
  BY <1>1, ElementOfSeq
<1> DEFINE t == SubSeq(a, 1, 1)
           x == a[1]
<1>4. t = <<x>>
  <2> HIDE DEF t, x
  <2>1. t \in Seq(Parts) /\ Len(t) = 1 /\ t[1] = x /\ x \in Parts
    BY <1>2, <1>3 DEF t, x
  <2>2. <<x>> \in Seq(Parts) /\ Len(<<x>>) = 1 /\ <<x>>[1] = x
    BY <2>1
  <2>3. \A k \in 1..Len(t) : t[k] = <<x>>[k]
    BY <2>1, <2>2
  <2> QED BY <2>1, <2>2, <2>3, SeqEqual
<1> QED BY <1>3, <1>4

-----------------------------------------------------------------------------
(***************************************************************************)
(* The headers in front of place n + 1 of a section: AreHeadersOf for the  *)
(* first n places, and the name that a line without a colon will go by.    *)
(***************************************************************************)
Places(s, n)  == {i \in 1..n : s[i] \notin Breaks}
IsNamed(s, i) == s[i] \in DOMAIN HeaderTexts
NameAt(s, i)  == HeaderTexts[s[i]].name
ValueAt(s, i) == HeaderTexts[s[i]].value

IsFinal(s, n, i) ==
  IsNamed(s, i) /\ \A j \in Places(s, n) : j > i /\ IsNamed(s, j) => NameAt(s, j) # NameAt(s, i)

IsEmptied(s, n, i) ==
  \E j \in Places(s, n) : j > i /\ \A k \in Places(s, n) : i < k /\ k <= j => ~IsNamed(s, k)

IsLast(s, n, i) ==
  i \in Places(s, n) /\ IsNamed(s, i) /\ \A j \in Places(s, n) : j > i => ~IsNamed(s, j)

NamesTo(s, n) == {NameAt(s, i) : i \in {j \in Places(s, n) : IsNamed(s, j)}}

DomainTo(s, n, map) == DOMAIN map = NamesTo(s, n) \cup (IF IsEmptied(s, n, 0) THEN {<<>>} ELSE {})

ValuesTo(s, n, map) ==
  \A i \in Places(s, n) :
    IsFinal(s, n, i) => map[NameAt(s, i)] = IF IsEmptied(s, n, i) THEN <<>> ELSE ValueAt(s, i)

LastTo(s, n, name) ==
  \/ name = <<>> /\ \A i \in Places(s, n) : ~IsNamed(s, i)
  \/ \E i \in Places(s, n) : IsLast(s, n, i) /\ name = NameAt(s, i)

HeadersTo(s, n, name, map) ==
  DomainTo(s, n, map) /\ ValuesTo(s, n, map) /\ LastTo(s, n, name)

LEMMA HeadersToIsAreHeadersOf ==
  ASSUME NEW s \in Seq(Parts), NEW map, DomainTo(s, Len(s), map), ValuesTo(s, Len(s), map)
  PROVE  AreHeadersOf(map, s)
<1>1. Places(s, Len(s)) = {i \in DOMAIN s : s[i] \notin Breaks}
  BY LenProperties DEF Places
<1> QED BY <1>1, Zenon DEF DomainTo, ValuesTo, NamesTo, IsFinal, IsEmptied, IsNamed, NameAt,
                           ValueAt, AreHeadersOf

LEMMA PlacesGrow ==
  ASSUME NEW s, NEW n \in Nat
  PROVE  /\ s[n + 1] \in Breaks => Places(s, n + 1) = Places(s, n)
         /\ s[n + 1] \notin Breaks => Places(s, n + 1) = Places(s, n) \cup {n + 1}
         /\ \A i \in Places(s, n) : i \in Nat /\ 0 < i /\ i < n + 1
BY DEF Places

\* Nothing read.
LEMMA HeadersToNone ==
  ASSUME NEW s
  PROVE  HeadersTo(s, 0, <<>>, <<>>)
<1>1. Places(s, 0) = {}
  BY DEF Places
<1>2. DOMAIN <<>> = {}
  OBVIOUS
<1> QED BY <1>1, <1>2 DEF HeadersTo, DomainTo, ValuesTo, LastTo, NamesTo, IsEmptied

\* A break changes nothing.
LEMMA RoundOfBreak ==
  ASSUME NEW s, NEW n \in Nat, NEW name, NEW map, HeadersTo(s, n, name, map), s[n + 1] \in Breaks
  PROVE  HeadersTo(s, n + 1, name, map)
<1>1. Places(s, n + 1) = Places(s, n)
  BY PlacesGrow
<1> QED BY <1>1 DEF HeadersTo, DomainTo, ValuesTo, LastTo, NamesTo, IsFinal, IsEmptied, IsLast

\* A line with a colon.
LEMMA RoundOfNamed ==
  ASSUME NEW s, NEW n \in Nat, NEW name, NEW map, HeadersTo(s, n, name, map),
         s[n + 1] \notin Breaks, IsNamed(s, n + 1)
  PROVE  HeadersTo(s, n + 1, NameAt(s, n + 1),
                   AddHeader(NameAt(s, n + 1), ValueAt(s, n + 1), map))
<1> DEFINE p == n + 1
           new == AddHeader(NameAt(s, p), ValueAt(s, p), map)
<1>1. /\ Places(s, p) = Places(s, n) \cup {p} /\ p \in Nat /\ p > 0
      /\ \A i \in Places(s, n) : i \in Nat /\ 0 < i /\ i < p
  BY PlacesGrow
<1>2. /\ DOMAIN new = DOMAIN map \cup {NameAt(s, p)}
      /\ new[NameAt(s, p)] = ValueAt(s, p)
      /\ \A x \in DOMAIN map : x # NameAt(s, p) => new[x] = map[x]
  <2> DEFINE x == NameAt(s, p)
             v == ValueAt(s, p)
  <2> HIDE DEF x, v
  <2>1. new = AddHeader(x, v, map)
    BY DEF x, v
  <2> HIDE DEF new
  <2>2. /\ DOMAIN new = DOMAIN map \cup {x} /\ new[x] = v
        /\ \A y \in DOMAIN map : y # x => new[y] = map[y]
    BY <2>1 DEF AddHeader
  <2> QED BY <2>2 DEF x, v
<1> HIDE DEF new
<1>3. IsNamed(s, p)
  OBVIOUS
<1> HIDE DEF p
<1>4. \A i \in Places(s, n) \cup {0} : IsEmptied(s, p, i) <=> IsEmptied(s, n, i)
  BY <1>1, <1>3 DEF IsEmptied
<1>5. ~IsEmptied(s, p, p)
  BY <1>1, <1>3 DEF IsEmptied
<1>6. DomainTo(s, p, new)
  <2>1. NamesTo(s, p) = NamesTo(s, n) \cup {NameAt(s, p)}
    BY <1>1, <1>3 DEF NamesTo
  <2>2. IsEmptied(s, p, 0) <=> IsEmptied(s, n, 0)
    BY <1>4
  <2> QED BY <1>2, <2>1, <2>2 DEF HeadersTo, DomainTo
<1>7. ValuesTo(s, p, new)
  <2> SUFFICES ASSUME NEW i \in Places(s, p), IsFinal(s, p, i)
               PROVE  new[NameAt(s, i)] = IF IsEmptied(s, p, i) THEN <<>> ELSE ValueAt(s, i)
    BY DEF ValuesTo
  <2>1. CASE i = p
    BY <1>2, <1>5, <2>1
  <2>2. CASE i \in Places(s, n)
    <3>1. IsFinal(s, n, i) /\ NameAt(s, p) # NameAt(s, i)
      BY <1>1, <1>3, <2>2 DEF IsFinal
    <3>2. NameAt(s, i) \in DOMAIN map
      BY <2>2, <3>1 DEF HeadersTo, DomainTo, NamesTo, IsFinal
    <3>3. map[NameAt(s, i)] = IF IsEmptied(s, n, i) THEN <<>> ELSE ValueAt(s, i)
      BY <2>2, <3>1 DEF HeadersTo, ValuesTo
    <3>4. new[NameAt(s, i)] = map[NameAt(s, i)]
      BY <1>2, <3>1, <3>2
    <3> QED BY <1>4, <2>2, <3>3, <3>4
  <2> QED BY <1>1, <2>1, <2>2
<1>8. LastTo(s, p, NameAt(s, p))
  <2>1. p \in Places(s, p) /\ \A j \in Places(s, p) : ~(j > p)
    BY <1>1
  <2> QED BY <1>3, <2>1 DEF LastTo, IsLast
<1>9. HeadersTo(s, p, NameAt(s, p), new)
  BY <1>6, <1>7, <1>8 DEF HeadersTo
<1> QED BY <1>9 DEF p, new

\* A line without one.
LEMMA RoundOfUnnamed ==
  ASSUME NEW s, NEW n \in Nat, NEW name, NEW map, HeadersTo(s, n, name, map),
         s[n + 1] \notin Breaks, ~IsNamed(s, n + 1)
  PROVE  HeadersTo(s, n + 1, name, AddHeader(name, <<>>, map))
<1> DEFINE p == n + 1
           new == AddHeader(name, <<>>, map)
<1>1. /\ Places(s, p) = Places(s, n) \cup {p} /\ p \in Nat /\ p > 0
      /\ \A i \in Places(s, n) : i \in Nat /\ 0 < i /\ i < p
  BY PlacesGrow
<1>2. /\ DOMAIN new = DOMAIN map \cup {name}
      /\ new[name] = <<>>
      /\ \A x \in DOMAIN map : x # name => new[x] = map[x]
  BY DEF AddHeader
<1> HIDE DEF new
<1>3. ~IsNamed(s, p)
  OBVIOUS
<1> HIDE DEF p
<1>4. NamesTo(s, p) = NamesTo(s, n)
  BY <1>1, <1>3 DEF NamesTo
<1>5. \A i \in Places(s, n) : IsFinal(s, p, i) => IsFinal(s, n, i)
  BY <1>1 DEF IsFinal
<1>6. ASSUME name = <<>>, \A i \in Places(s, n) : ~IsNamed(s, i)
      PROVE  HeadersTo(s, p, name, new)
  <2>1. IsEmptied(s, p, 0)
    BY <1>1, <1>3, <1>6 DEF IsEmptied
  <2>2. NamesTo(s, n) = {}
    BY <1>6 DEF NamesTo
  <2>3. DomainTo(s, p, new)
    BY <1>2, <1>4, <1>6, <2>1, <2>2 DEF HeadersTo, DomainTo
  <2>4. \A i \in Places(s, p) : ~IsNamed(s, i)
    BY <1>1, <1>3, <1>6
  <2>5. ValuesTo(s, p, new)
    BY <2>4 DEF ValuesTo, IsFinal
  <2>6. LastTo(s, p, name)
    BY <1>6, <2>4 DEF LastTo
  <2> QED BY <2>3, <2>5, <2>6 DEF HeadersTo
<1>7. ASSUME \E l \in Places(s, n) : IsLast(s, n, l) /\ name = NameAt(s, l)
      PROVE  HeadersTo(s, p, name, new)
  <2>1. PICK l \in Places(s, n) : IsLast(s, n, l) /\ name = NameAt(s, l)
    BY <1>7
  <2>2. \A i \in Places(s, n) \cup {0} : i < l => (IsEmptied(s, p, i) <=> IsEmptied(s, n, i))
    BY <1>1, <2>1 DEF IsEmptied, IsLast
  <2>3. IsEmptied(s, p, l)
    BY <1>1, <1>3, <2>1 DEF IsEmptied, IsLast
  <2>4. DomainTo(s, p, new)
    <3>1. name \in NamesTo(s, n)
      BY <2>1 DEF NamesTo, IsLast
    <3>2. IsEmptied(s, p, 0) <=> IsEmptied(s, n, 0)
      BY <1>1, <2>1, <2>2
    <3> QED BY <1>2, <1>4, <3>1, <3>2 DEF HeadersTo, DomainTo
  <2>5. ValuesTo(s, p, new)
    <3> SUFFICES ASSUME NEW i \in Places(s, p), IsFinal(s, p, i)
                 PROVE  new[NameAt(s, i)] = IF IsEmptied(s, p, i) THEN <<>> ELSE ValueAt(s, i)
      BY DEF ValuesTo
    <3>1. i \in Places(s, n) /\ IsNamed(s, i) /\ IsFinal(s, n, i)
      BY <1>1, <1>3, <1>5 DEF IsFinal
    <3>2. CASE i = l
      BY <1>2, <2>1, <2>3, <3>2
    <3>3. CASE i # l
      <4>1. i < l
        BY <1>1, <2>1, <3>1, <3>3 DEF IsLast
      <4>2. NameAt(s, i) # name
        BY <1>1, <2>1, <3>1, <4>1 DEF IsFinal, IsLast
      <4>3. NameAt(s, i) \in DOMAIN map
        BY <3>1 DEF HeadersTo, DomainTo, NamesTo
      <4>4. map[NameAt(s, i)] = IF IsEmptied(s, n, i) THEN <<>> ELSE ValueAt(s, i)
        BY <3>1 DEF HeadersTo, ValuesTo
      <4>5. new[NameAt(s, i)] = map[NameAt(s, i)]
        BY <1>2, <4>2, <4>3
      <4> QED BY <2>2, <3>1, <4>1, <4>4, <4>5
    <3> QED BY <3>2, <3>3
  <2>6. LastTo(s, p, name)
    <3>1. IsLast(s, p, l) /\ l \in Places(s, p)
      BY <1>1, <1>3, <2>1 DEF IsLast
    <3> QED BY <2>1, <3>1 DEF LastTo
  <2> QED BY <2>4, <2>5, <2>6 DEF HeadersTo
<1>8. HeadersTo(s, p, name, new)
  BY <1>6, <1>7 DEF HeadersTo, LastTo
<1> QED BY <1>8 DEF p, new

\* One round: a line of one text, and its end.
LEMMA RoundTaken ==
  ASSUME NEW s, NEW n \in Nat, NEW name, NEW map, HeadersTo(s, n, name, map),
         NEW t \in Parts, t = s[n + 1], t \notin Breaks,
         s[n + 2] \in Breaks, s[n + 3] \in Breaks
  PROVE  HeadersTo(s, n + 3, HeaderName(<<t>>, name),
                   AddHeader(HeaderName(<<t>>, name), HeaderValue(<<t>>), map))
<1> DEFINE x == HeaderName(<<t>>, name)
           v == HeaderValue(<<t>>)
           new == AddHeader(x, v, map)
           m == n + 1
           k == n + 2
<1>1. HeadersTo(s, m, x, new)
  <2>1. CASE IsNamed(s, n + 1)
    <3>1. x = NameAt(s, n + 1) /\ v = ValueAt(s, n + 1)
      BY <2>1, LineOfOne DEF IsNamed, NameAt, ValueAt
    <3>2. HeadersTo(s, n + 1, NameAt(s, n + 1),
                    AddHeader(NameAt(s, n + 1), ValueAt(s, n + 1), map))
      BY <2>1, RoundOfNamed
    <3> QED BY <3>1, <3>2
  <2>2. CASE ~IsNamed(s, n + 1)
    <3>1. x = name /\ v = <<>>
      BY <2>2, LineOfOne DEF IsNamed
    <3>2. HeadersTo(s, n + 1, name, AddHeader(name, <<>>, map))
      BY <2>2, RoundOfUnnamed
    <3> QED BY <3>1, <3>2
  <2> QED BY <2>1, <2>2
<1>2. m \in Nat /\ k \in Nat /\ m + 1 = n + 2 /\ k = m + 1 /\ k + 1 = n + 3
  OBVIOUS
<1>3. s[m + 1] \in Breaks /\ s[k + 1] \in Breaks
  BY <1>2
<1> HIDE DEF x, v, new, m, k
<1>4. HeadersTo(s, m + 1, x, new)
  BY <1>1, <1>2, <1>3, RoundOfBreak
<1>5. HeadersTo(s, k + 1, x, new)
  BY <1>2, <1>3, <1>4, RoundOfBreak
<1> QED BY <1>2, <1>5 DEF x, v, new

-----------------------------------------------------------------------------
(***************************************************************************)
(* The inductive invariant: where the client stands in the answer.         *)
(***************************************************************************)

AnswerBegins == sent # <<>> => sent[1] \in Texts

\* As long as there is no answer, the client has read nothing.
NothingRead ==
  service \in {"request_line", "write"} =>
    /\ to_client = <<>>
    /\ message_buf = <<>>
    /\ client \notin {"headers", "parsing", "body"}
    /\ reported = None

NoHeaderYet == client \in {"write", "sent", "status", "headers"} => headers = <<>>

\* What is in the client's buffer and on its way to it: the whole answer, if it
\* came out at all, ...
WholeAnswer ==
  client \in {"write", "sent", "status"} =>
    message_buf \o to_client = sent \/ (message_buf = <<>> /\ to_client = <<>>)

StatusTaken == sent # <<>> /\ status = sent[1] /\ status \in Texts \ {"invalid"}

\* ... then what is behind its first line, ...
BehindStatusLine ==
  client = "headers" =>
    StatusTaken /\ message_buf \o to_client = From(sent, EndOfLine(sent) + 2)

\* ... then, of a regular answer, what is behind the lines the loop has taken, ...
InLoop ==
  client = "parsing" =>
    /\ StatusTaken
    /\ Regular(sent) =>
         /\ loop.good
         /\ \E n \in Nat :
              /\ Stands(sent, message_buf, to_client, n)
              /\ HeadersTo(Section(sent), n, loop.name, headers)

\* ... then its body.
BehindHeaders ==
  client = "body" =>
    /\ StatusTaken
    /\ Regular(sent) =>
         message_buf \o to_client = BodyOf(sent) /\ AreHeadersOf(headers, Section(sent))

Reported ==
  /\ client # "finished" => reported = None
  /\ ReportedAsSent
  /\ HeadersAsSent

IInv ==
  /\ TypeOK
  /\ AnswerBegins
  /\ NothingRead
  /\ NoHeaderYet
  /\ WholeAnswer
  /\ BehindStatusLine
  /\ InLoop
  /\ BehindHeaders
  /\ Reported

LEMMA Streams ==
  ASSUME TypeOK
  PROVE  /\ to_service \in Seq(Parts) /\ to_client \in Seq(Parts) /\ request_buf \in Seq(Parts)
         /\ message_buf \in Seq(Parts) /\ sent \in Seq(Parts)
         /\ loop.header \in Seq(Parts) /\ loop.name \in Seq(Parts) /\ loop.good \in BOOLEAN
BY DEF TypeOK, Parts

LEMMA Empty ==
  /\ <<>> \in Seq(Parts)
  /\ ~Holds(<<>>, Line)
  /\ \A s \in Seq(Parts) : <<>> \o s = s /\ s \o <<>> = s
<1>1. <<>> \in Seq(Parts) /\ Len(<<>>) = 0
  BY EmptySeq
<1>2. ~Holds(<<>>, Line)
  <2> DEFINE none == <<>>
  <2>1. none \in Seq(Parts) /\ Len(none) = 0
    BY <1>1
  <2> HIDE DEF none
  <2>2. Holds(none, Line) => \E i \in 1..Len(none) : i + 1 <= Len(none)
    BY <2>1, LineIn
  <2>3. 1..Len(none) = {}
    BY <2>1
  <2> QED BY <2>2, <2>3 DEF none
<1>3. \A s \in Seq(Parts) : <<>> \o s = s /\ s \o <<>> = s
  BY ConcatEmptySeq
<1> QED BY <1>1, <1>2, <1>3

\* No answer begins with a break.
LEMMA FirstIsText ==
  ASSUME NEW t \in Texts
  PROVE  t \notin Breaks
<1>1. Lines = {"get", "post", "long"}
  BY DEF Lines, Words
<1>2. Tokens \cap Breaks = {}
  BY HttpExchangeAssumption DEF HttpExchangeAssumption
<1> QED BY <1>1, <1>2 DEF Texts, StatusTexts, Breaks

LEMMA Initially == Init => IInv
<1> SUFFICES ASSUME Init PROVE IInv
  OBVIOUS
<1>1. TypeOK
  <2>1. DOMAIN headers = {} /\ <<>> \in Seq(Texts \cup Breaks)
    BY EmptySeq DEF Init
  <2>2. loop.header = <<>> /\ loop.name = <<>> /\ loop.good = TRUE
    BY DEF Init, LoopStart
  <2> QED BY <2>1, <2>2 DEF Init, TypeOK
<1>2. WholeAnswer /\ NothingRead /\ NoHeaderYet /\ AnswerBegins
  BY DEF Init, WholeAnswer, NothingRead, NoHeaderYet, AnswerBegins
<1>3. BehindStatusLine /\ InLoop /\ BehindHeaders /\ Reported
  BY DEF Init, BehindStatusLine, InLoop, BehindHeaders, Reported, ReportedAsSent, HeadersAsSent
<1> QED BY <1>1, <1>2, <1>3 DEF IInv

\* A step that leaves the answer and the client alone can only disturb the types.
LEMMA Elsewhere ==
  ASSUME IInv, TypeOK', UNCHANGED <<to_client, sent, client_vars>>,
         service' \in {"request_line", "write"} => service \in {"request_line", "write"}
  PROVE  IInv'
<1>1. /\ AnswerBegins' /\ NothingRead' /\ NoHeaderYet' /\ WholeAnswer' /\ BehindStatusLine'
      /\ BehindHeaders' /\ Reported'
  BY DEF IInv, AnswerBegins, NothingRead, NoHeaderYet, WholeAnswer, BehindStatusLine, StatusTaken,
         BehindHeaders, Reported, ReportedAsSent, HeadersAsSent, client_vars
<1>2. InLoop'
  BY DEF IInv, InLoop, StatusTaken, client_vars
<1> QED BY <1>1, <1>2 DEF IInv

\* Nor does a step of the client's that comes in no read and ends in none disturb
\* where it stands in the answer.
LEMMA ClientElsewhere ==
  ASSUME IInv, TypeOK',
         UNCHANGED <<service, to_client, sent, message_buf, status, headers, loop, reported>>,
         \/ client' \in {"finished", "crashed"}
         \/ client \in {"write", "sent"} /\ client' \in {"sent", "status"},
         client' # "finished" => client # "finished"
  PROVE  IInv'
<1>1. client' \in {"sent", "status", "finished", "crashed"}
  OBVIOUS
<1>2. /\ AnswerBegins' /\ NothingRead' /\ BehindStatusLine' /\ InLoop' /\ BehindHeaders'
  BY <1>1 DEF IInv, AnswerBegins, NothingRead, BehindStatusLine, InLoop, BehindHeaders
<1>3. NoHeaderYet' /\ WholeAnswer' /\ Reported'
  BY DEF IInv, NoHeaderYet, WholeAnswer, Reported, ReportedAsSent, HeadersAsSent
<1> QED BY <1>2, <1>3 DEF IInv

LEMMA WriteRequestStep == IInv /\ WriteRequest => IInv'
<1> SUFFICES ASSUME IInv, WriteRequest PROVE IInv'
  OBVIOUS
<1>1. TypeOK'
  <2> DEFINE front == <<line, "cr", "lf", "host">>
             request == front \o BlankLine
  <2>1. line \in Parts /\ "host" \in Parts /\ "cr" \in Parts /\ "lf" \in Parts
    BY DEF IInv, TypeOK, Texts, Parts, Breaks
  <2>2. front \in Seq(Parts)
    BY <2>1
  <2> HIDE DEF front
  <2>3. request \in Seq(Parts)
    BY <2>2, Delimiters, JoinIs
  <2>4. to_service' = request
    BY DEF WriteRequest, front
  <2> HIDE DEF request
  <2> QED BY <2>3, <2>4 DEF IInv, TypeOK, WriteRequest, service_vars, Parts
<1>2. /\ client = "write" /\ client' = "sent"
      /\ UNCHANGED <<service, to_client, sent, message_buf, status, headers, loop, reported>>
  BY DEF WriteRequest, service_vars
<1> QED BY <1>1, <1>2, ClientElsewhere

LEMMA OnRequestSentStep == IInv /\ OnRequestSent => IInv'
<1> SUFFICES ASSUME IInv, OnRequestSent PROVE IInv'
  OBVIOUS
<1>1. TypeOK'
  <2>1. client' \in {"status", "crashed"} /\ client_fin' \in BOOLEAN
    BY DEF OnRequestSent, IInv, TypeOK
  <2> QED BY <2>1 DEF IInv, TypeOK, OnRequestSent, service_vars
<1>2. /\ client = "sent" /\ client' \in {"status", "crashed"}
      /\ UNCHANGED <<service, to_client, sent, message_buf, status, headers, loop, reported>>
  BY DEF OnRequestSent, service_vars
<1> QED BY <1>1, <1>2, ClientElsewhere

LEMMA ClientReceivesStep == IInv /\ ClientReceives => IInv'
<1> SUFFICES ASSUME IInv, ClientReceives PROVE IInv'
  OBVIOUS
<1>1. PICK n \in 1..Len(to_client) :
         /\ message_buf' = message_buf \o SubSeq(to_client, 1, n)
         /\ to_client' = From(to_client, n + 1)
  BY DEF ClientReceives
<1>2. /\ to_client \in Seq(Parts) /\ message_buf \in Seq(Parts) /\ Len(to_client) \in Nat
  BY Streams, LenProperties DEF IInv
<1>3. message_buf' \in Seq(Parts) /\ to_client' \in Seq(Parts)
  <2>1. n + 1 \in 1..Len(to_client) + 1 /\ 1 \in 1..Len(to_client) + 1 /\ n \in 0..Len(to_client)
    BY <1>2
  <2>2. SubSeq(to_client, 1, n) \in Seq(Parts) /\ From(to_client, n + 1) \in Seq(Parts)
    BY <1>2, <2>1, PartOf, FromIs
  <2> QED BY <1>1, <1>2, <2>2, JoinIs
<1>4. message_buf' \o to_client' = message_buf \o to_client
  BY <1>1, <1>2, MoveJoin
<1>5. to_client # <<>>
  BY <1>1, <1>2, EmptySeq
<1>6. TypeOK'
  BY <1>3 DEF IInv, TypeOK, ClientReceives, service_vars, Parts
<1>7. NothingRead'
  BY <1>5 DEF IInv, NothingRead, ClientReceives, service_vars
<1>8. WholeAnswer' /\ BehindStatusLine' /\ BehindHeaders'
  BY <1>4, <1>5 DEF IInv, WholeAnswer, BehindStatusLine, StatusTaken, BehindHeaders, ClientReceives,
                    service_vars
<1>9. InLoop'
  BY DEF InLoop, ClientReceives
<1> QED BY <1>6, <1>7, <1>8, <1>9 DEF IInv, ClientReceives, service_vars, AnswerBegins, NoHeaderYet,
                    Reported, ReportedAsSent, HeadersAsSent

LEMMA OnStatusLineReceivedStep == IInv /\ OnStatusLineReceived => IInv'
<1> SUFFICES ASSUME IInv, OnStatusLineReceived PROVE IInv'
  OBVIOUS
<1>1. /\ client = "status" /\ Holds(message_buf, Line) /\ message_buf[1] # "invalid"
      /\ status' = message_buf[1] /\ client' = "headers"
      /\ message_buf' = AfterLine(message_buf)
      /\ UNCHANGED <<to_client, sent, service, headers, reported>>
  BY DEF OnStatusLineReceived, Awaited, StatusOf, service_vars
<1>2. to_client \in Seq(Parts) /\ message_buf \in Seq(Parts) /\ sent \in Seq(Parts)
  BY Streams DEF IInv
<1>3. message_buf # <<>>
  BY <1>1, Empty
<1>4. message_buf \o to_client = sent
  BY <1>1, <1>3 DEF IInv, WholeAnswer
<1>5. /\ sent # <<>> /\ message_buf[1] = sent[1] /\ message_buf' \in Seq(Parts)
      /\ message_buf' \o to_client = From(sent, EndOfLine(sent) + 2)
  BY <1>1, <1>2, <1>4, StatusLineTaken
<1>6. sent[1] \in Texts
  BY <1>5 DEF IInv, AnswerBegins
<1>7. TypeOK'
  BY <1>1, <1>5, <1>6 DEF IInv, TypeOK, OnStatusLineReceived, service_vars, Parts
<1>8. NothingRead' /\ NoHeaderYet' /\ WholeAnswer' /\ InLoop' /\ BehindHeaders' /\ AnswerBegins'
  BY <1>1, <1>3 DEF IInv, NothingRead, NoHeaderYet, WholeAnswer, InLoop, BehindHeaders, AnswerBegins
<1>9. BehindStatusLine'
  BY <1>1, <1>5, <1>6 DEF BehindStatusLine, StatusTaken
<1>10. Reported'
  BY <1>1 DEF IInv, Reported, ReportedAsSent, HeadersAsSent
<1> QED BY <1>7, <1>8, <1>9, <1>10 DEF IInv

LEMMA OnInvalidStatusLineStep == IInv /\ OnInvalidStatusLine => IInv'
<1> SUFFICES ASSUME IInv, OnInvalidStatusLine PROVE IInv'
  OBVIOUS
<1>1. TypeOK'
  BY DEF IInv, TypeOK, OnInvalidStatusLine, service_vars
<1>2. /\ client' = "finished"
      /\ UNCHANGED <<service, to_client, sent, message_buf, status, headers, loop, reported>>
  BY DEF OnInvalidStatusLine, service_vars
<1> QED BY <1>1, <1>2, ClientElsewhere

LEMMA OnHeadersReceivedStep == IInv /\ OnHeadersReceived => IInv'
<1> SUFFICES ASSUME IInv, OnHeadersReceived PROVE IInv'
  OBVIOUS
<1>1. /\ client = "headers" /\ Holds(message_buf, BlankLine) /\ client' = "parsing"
      /\ loop' = LoopStart
      /\ UNCHANGED <<message_buf, to_client, sent, service, status, headers, reported>>
  BY DEF OnHeadersReceived, Awaited, service_vars
<1>2. loop'.header = <<>> /\ loop'.name = <<>> /\ loop'.good = TRUE
  BY <1>1 DEF LoopStart
<1>3. to_client \in Seq(Parts) /\ message_buf \in Seq(Parts) /\ sent \in Seq(Parts)
  BY Streams DEF IInv
<1>4. TypeOK'
  <2>1. <<>> \in Seq(Texts \cup Breaks)
    BY Empty DEF Parts
  <2> QED BY <1>1, <1>2, <2>1 DEF IInv, TypeOK, OnHeadersReceived, service_vars
<1>5. /\ StatusTaken /\ headers = <<>>
      /\ message_buf \o to_client = From(sent, EndOfLine(sent) + 2)
  BY <1>1 DEF IInv, BehindStatusLine, NoHeaderYet
<1>6. ASSUME Regular(sent)
      PROVE  \E n \in Nat : /\ Stands(sent, message_buf, to_client, n)
                                     /\ HeadersTo(Section(sent), n, <<>>, headers)
  <2>1. sent[1] \notin Breaks
    BY <1>5, FirstIsText DEF StatusTaken
  <2>2. Stands(sent, message_buf, to_client, 0)
    BY <1>1, <1>3, <1>5, <1>6, <2>1, LoopBegins
  <2>3. HeadersTo(Section(sent), 0, <<>>, headers)
    BY <1>5, HeadersToNone
  <2> QED BY <2>2, <2>3
<1>7. InLoop'
  BY <1>1, <1>2, <1>5, <1>6 DEF InLoop, StatusTaken
<1>8. /\ NothingRead' /\ NoHeaderYet' /\ WholeAnswer' /\ BehindStatusLine' /\ BehindHeaders'
      /\ AnswerBegins'
  BY <1>1 DEF IInv, NothingRead, NoHeaderYet, WholeAnswer, BehindStatusLine, BehindHeaders,
              AnswerBegins
<1>9. Reported'
  BY <1>1 DEF IInv, Reported, ReportedAsSent, HeadersAsSent
<1> QED BY <1>4, <1>7, <1>8, <1>9 DEF IInv

\* The line that is taken, of any answer.
LEMMA NextIs ==
  ASSUME TypeOK
  PROVE  NextHeader \in Seq(Parts) /\ AfterLine(message_buf) \in Seq(Parts)
<1> DEFINE e == EndOfLine(message_buf)
           f == e - 1
           g == e + 2
<1>1. message_buf \in Seq(Parts) /\ loop.header \in Seq(Parts) /\ Len(message_buf) \in Nat
  BY Streams, LenProperties
<1>2. IsEnd(message_buf, e)
  BY <1>1, EndIs
<1> HIDE DEF e
<1>3. f \in 0..Len(message_buf) /\ 1 \in 1..Len(message_buf) + 1 /\ g \in Nat /\ g > 0
  BY <1>1, <1>2 DEF IsEnd
<1> HIDE DEF f, g
<1>4. SubSeq(message_buf, 1, f) \in Seq(Parts)
  BY <1>1, <1>3, PartOf
<1>5. From(message_buf, g) \in Seq(Parts)
  BY <1>1, <1>3, FromAny
<1> QED BY <1>1, <1>4, <1>5 DEF NextHeader, AfterLine, e, f, g

\* A round in a regular answer ends the loop in front of the body, or takes one
\* line whole.
LEMMA RoundIs ==
  ASSUME IInv, client = "parsing", Regular(sent)
  PROVE  /\ loop.good
         /\ \/ /\ NextHeader = <<>>
               /\ AfterLine(message_buf) \o to_client = BodyOf(sent)
               /\ AreHeadersOf(headers, Section(sent))
            \/ /\ NextHeader # <<>>
               /\ EndOfLine(message_buf) < Len(message_buf)
               /\ \E n \in Nat :
                    /\ Stands(sent, AfterLine(message_buf), to_client, n)
                    /\ HeadersTo(Section(sent), n, HeaderName(NextHeader, loop.name),
                                 AddHeader(HeaderName(NextHeader, loop.name),
                                           HeaderValue(NextHeader), headers))
<1>1. /\ message_buf \in Seq(Parts) /\ to_client \in Seq(Parts) /\ sent \in Seq(Parts)
      /\ StatusTaken /\ loop.good
  BY Streams DEF IInv, InLoop
<1>2. sent[1] \notin Breaks
  BY <1>1, FirstIsText DEF StatusTaken
<1>3. PICK n \in Nat : /\ Stands(sent, message_buf, to_client, n)
                       /\ HeadersTo(Section(sent), n, loop.name, headers)
  BY DEF IInv, InLoop
<1>4. NextHeader = SubSeq(message_buf, 1, EndOfLine(message_buf) - 1)
  BY <1>1 DEF NextHeader
<1>5. CASE n = Len(Section(sent))
  <2>1. EndOfLine(message_buf) = 1 /\ AfterLine(message_buf) \o to_client = BodyOf(sent)
    BY <1>1, <1>2, <1>3, <1>5, LoopEnds
  <2>2. NextHeader = <<>>
    <3>1. 1 \in 1..Len(message_buf) + 1 /\ 0 \in 0..Len(message_buf) /\ 1 - 1 = 0
      BY <1>1, LenProperties
    <3>2. SubSeq(message_buf, 1, 0) \in Seq(Parts) /\ Len(SubSeq(message_buf, 1, 0)) = 0
      BY <1>1, <3>1, PartOf
    <3> QED BY <1>4, <2>1, <3>1, <3>2, EmptySeq
  <2>3. AreHeadersOf(headers, Section(sent))
    <3>1. Section(sent) \in Seq(Parts)
      BY <1>1, <1>2, SectionTyped
    <3> QED BY <1>3, <1>5, <3>1, HeadersToIsAreHeadersOf DEF HeadersTo
  <2> QED BY <1>1, <2>1, <2>2, <2>3
<1>6. CASE n # Len(Section(sent))
  <2> DEFINE t == message_buf[1]
             s == Section(sent)
             m == n + 3
  <2>1. /\ EndOfLine(message_buf) = 2 /\ 2 < Len(message_buf)
        /\ t = s[n + 1] /\ t \notin Breaks
        /\ s[n + 2] \in Breaks /\ s[n + 3] \in Breaks
        /\ Stands(sent, AfterLine(message_buf), to_client, n + 3)
    BY <1>1, <1>2, <1>3, <1>6, LoopGoesOn
  <2>2. NextHeader = <<t>> /\ t \in Parts
    BY <1>1, <1>4, <2>1, LineTaken
  <2>3. HeadersTo(s, n, loop.name, headers)
    BY <1>3
  <2> HIDE DEF t, s
  <2>4. HeadersTo(s, n + 3, HeaderName(<<t>>, loop.name),
                  AddHeader(HeaderName(<<t>>, loop.name), HeaderValue(<<t>>), headers))
    BY <2>1, <2>2, <2>3, RoundTaken
  <2>5. NextHeader # <<>>
    BY <2>2
  <2>6. n + 3 \in Nat
    OBVIOUS
  <2> QED BY <1>1, <2>1, <2>2, <2>4, <2>5, <2>6 DEF s
<1> QED BY <1>5, <1>6

LEMMA HeaderRoundStep == IInv /\ HeaderRound => IInv'
<1> SUFFICES ASSUME IInv, HeaderRound PROVE IInv'
  OBVIOUS
<1> DEFINE header == NextHeader
           name == HeaderName(header, loop.name)
           value == HeaderValue(header)
           good == loop.good /\ EndOfLine(message_buf) < Len(message_buf)
<1>1. /\ client = "parsing"
      /\ \/ header = <<>> /\ client' = "body" /\ UNCHANGED <<headers, loop>>
         \/ /\ header # <<>> /\ client' = "parsing"
            /\ headers' = AddHeader(name, value, headers)
            /\ loop' = [header |-> header, name |-> name, good |-> good]
      /\ message_buf' = IF loop.good THEN AfterLine(message_buf) ELSE message_buf
      /\ UNCHANGED <<to_client, sent, service, status, reported>>
  BY DEF HeaderRound, service_vars
<1>2. TypeOK
  BY DEF IInv
<1>3. header \in Seq(Parts) /\ name \in Seq(Parts) /\ message_buf' \in Seq(Parts)
  BY <1>1, <1>2, NextIs, NameIsText, Streams
<1>4. /\ StatusTaken
      /\ Regular(sent) =>
         /\ loop.good
         /\ \/ /\ header = <<>>
               /\ AfterLine(message_buf) \o to_client = BodyOf(sent)
               /\ AreHeadersOf(headers, Section(sent))
            \/ /\ header # <<>>
               /\ EndOfLine(message_buf) < Len(message_buf)
               /\ \E n \in Nat :
                    /\ Stands(sent, AfterLine(message_buf), to_client, n)
                    /\ HeadersTo(Section(sent), n, name, AddHeader(name, value, headers))
  BY <1>1, RoundIs DEF IInv, InLoop
<1>5. good \in BOOLEAN
  BY <1>2, Streams
<1>6. Regular(sent) /\ header # <<>> => good
  BY <1>4
<1> HIDE DEF header, name, value, good
<1>7. header # <<>> =>
        /\ loop'.header = header /\ loop'.name = name /\ loop'.good = good
        /\ DOMAIN headers' = DOMAIN headers \cup {name}
  BY <1>1 DEF AddHeader
<1>8. TypeOK'
  <2>1. /\ {loop'.header, loop'.name} \subseteq Seq(Parts) /\ loop'.good \in BOOLEAN
        /\ DOMAIN headers' \subseteq Seq(Parts)
    <3>1. /\ {loop.header, loop.name} \subseteq Seq(Parts) /\ loop.good \in BOOLEAN
          /\ DOMAIN headers \subseteq Seq(Parts)
      BY <1>2 DEF TypeOK, Parts
    <3> QED BY <1>1, <1>3, <1>5, <1>7, <3>1
  <2> QED BY <1>1, <1>2, <1>3, <2>1 DEF TypeOK, HeaderRound, service_vars, Parts
<1>9. InLoop'
  <2> SUFFICES ASSUME client' = "parsing" PROVE InLoop'
    BY DEF InLoop
  <2>1. header # <<>>
    BY <1>1
  <2>2. StatusTaken'
    BY <1>1, <1>4 DEF StatusTaken
  <2>3. ASSUME Regular(sent)
        PROVE  /\ loop'.good
               /\ \E n \in Nat : /\ Stands(sent, message_buf', to_client, n)
                                 /\ HeadersTo(Section(sent), n, loop'.name, headers')
    <3>1. message_buf' = AfterLine(message_buf) /\ headers' = AddHeader(name, value, headers)
      BY <1>1, <1>4, <2>1, <2>3
    <3> QED BY <1>4, <1>6, <1>7, <2>1, <2>3, <3>1
  <2> QED BY <1>1, <2>2, <2>3 DEF InLoop
<1>10. BehindHeaders'
  <2> SUFFICES ASSUME client' = "body" PROVE BehindHeaders'
    BY DEF BehindHeaders
  <2>1. header = <<>> /\ headers' = headers
    BY <1>1
  <2>2. StatusTaken'
    BY <1>1, <1>4 DEF StatusTaken
  <2> QED BY <1>1, <1>4, <2>1, <2>2 DEF BehindHeaders
<1>11. NothingRead' /\ NoHeaderYet' /\ WholeAnswer' /\ BehindStatusLine' /\ AnswerBegins'
  BY <1>1 DEF IInv, NothingRead, NoHeaderYet, WholeAnswer, BehindStatusLine, AnswerBegins
<1>12. Reported'
  BY <1>1 DEF IInv, Reported, ReportedAsSent, HeadersAsSent
<1> QED BY <1>8, <1>9, <1>10, <1>11, <1>12 DEF IInv

LEMMA OnResponseBodyReceivedStep == IInv /\ OnResponseBodyReceived => IInv'
<1> SUFFICES ASSUME IInv, OnResponseBodyReceived PROVE IInv'
  OBVIOUS
<1>1. /\ client = "body" /\ client' = "finished" /\ to_client = <<>>
      /\ reported' = [status |-> status, headers |-> headers, body |-> message_buf]
      /\ UNCHANGED <<to_client, sent, service, status, headers, message_buf>>
  BY DEF OnResponseBodyReceived, AtEof, service_vars
<1>2. /\ status = sent[1] /\ status \in Texts \ {"invalid"}
      /\ Regular(sent) => message_buf \o to_client = BodyOf(sent)
                          /\ AreHeadersOf(headers, Section(sent))
  BY <1>1 DEF IInv, BehindHeaders, StatusTaken
<1>3. Regular(sent) => message_buf = BodyOf(sent)
  BY <1>1, <1>2, Streams, Empty DEF IInv
<1>4. reported'.status = status /\ reported'.headers = headers /\ reported'.body = message_buf
  BY <1>1
<1>5. TypeOK'
  BY <1>2, <1>4 DEF IInv, TypeOK, OnResponseBodyReceived, service_vars
<1>6. Reported'
  BY <1>1, <1>2, <1>3, <1>4 DEF Reported, ReportedAsSent, HeadersAsSent
<1>7. /\ NothingRead' /\ NoHeaderYet' /\ WholeAnswer' /\ BehindStatusLine' /\ InLoop'
      /\ BehindHeaders' /\ AnswerBegins'
  BY <1>1 DEF IInv, NothingRead, NoHeaderYet, WholeAnswer, BehindStatusLine, InLoop, BehindHeaders,
              AnswerBegins
<1> QED BY <1>5, <1>6, <1>7 DEF IInv

LEMMA OnErrorStep == IInv /\ OnError => IInv'
<1> SUFFICES ASSUME IInv, OnError PROVE IInv'
  OBVIOUS
<1>1. TypeOK'
  BY DEF IInv, TypeOK, OnError, service_vars
<1>2. /\ client' = "finished" /\ client # "finished"
      /\ UNCHANGED <<service, to_client, sent, message_buf, status, headers, loop, reported>>
  BY DEF OnError, service_vars
<1> QED BY <1>1, <1>2, ClientElsewhere

LEMMA ServiceReceivesStep == IInv /\ ServiceReceives => IInv'
<1> SUFFICES ASSUME IInv, ServiceReceives PROVE IInv'
  OBVIOUS
<1>1. PICK n \in 1..Len(to_service) :
         /\ request_buf' = request_buf \o SubSeq(to_service, 1, n)
         /\ to_service' = From(to_service, n + 1)
  BY DEF ServiceReceives
<1>2. to_service \in Seq(Parts) /\ request_buf \in Seq(Parts) /\ Len(to_service) \in Nat
  BY Streams, LenProperties DEF IInv
<1>3. request_buf' \in Seq(Parts) /\ to_service' \in Seq(Parts)
  <2>1. n + 1 \in 1..Len(to_service) + 1 /\ 1 \in 1..Len(to_service) + 1 /\ n \in 0..Len(to_service)
    BY <1>2
  <2>2. SubSeq(to_service, 1, n) \in Seq(Parts) /\ From(to_service, n + 1) \in Seq(Parts)
    BY <1>2, <2>1, PartOf, FromIs
  <2> QED BY <1>1, <1>2, <2>2, JoinIs
<1>4. TypeOK'
  BY <1>3 DEF IInv, TypeOK, ServiceReceives, client_vars, Parts
<1> QED BY <1>4, Elsewhere DEF ServiceReceives

\* The Service has nothing to say but this.
LEMMA AnswerOfService ==
  ASSUME NEW code \in {"413", "501", "505"}
  PROVE  /\ <<StatusText(code)>> \o BlankLine \in Seq(Parts)
         /\ (<<StatusText(code)>> \o BlankLine)[1] \in Texts
<1> DEFINE front == <<StatusText(code)>>
<1>1. StatusText(code) \in Texts
  BY DEF StatusText, Texts, StatusTexts
<1>2. front \in Seq(Parts) /\ Len(front) = 1 /\ front[1] = StatusText(code)
  BY <1>1 DEF Parts
<1> HIDE DEF front
<1>3. BlankLine \in Seq(Parts) /\ 1 \in 1..Len(front)
  BY <1>2, Delimiters
<1>4. front \o BlankLine \in Seq(Parts) /\ (front \o BlankLine)[1] = front[1]
  BY <1>2, <1>3, JoinIs
<1> QED BY <1>1, <1>2, <1>4 DEF front

LEMMA OnRequestLineReceivedStep == IInv /\ OnRequestLineReceived => IInv'
<1> SUFFICES ASSUME IInv, OnRequestLineReceived PROVE IInv'
  OBVIOUS
<1>1. \E code \in {"413", "501", "505"} : SendResponse(code)
  <2>1. \A words : ResponseCode(RequestLineOf(words)) \in {"501", "505"}
    BY DEF ResponseCode, RequestLineOf
  <2> QED BY <2>1 DEF OnRequestLineReceived
<1>2. PICK code \in {"413", "501", "505"} : SendResponse(code)
  BY <1>1
<1>3. /\ sent' \in Seq(Parts) /\ (sent' # <<>> => sent'[1] \in Texts)
      /\ service = "request_line" /\ service' \in {"leaked", "write"}
      /\ UNCHANGED <<to_client, client_vars>>
  <2>1. sent' = sent \/ sent' = <<StatusText(code)>> \o BlankLine
    BY <1>2 DEF SendResponse
  <2>2. sent \in Seq(Parts) /\ (sent # <<>> => sent[1] \in Texts)
    BY Streams DEF IInv, AnswerBegins
  <2>3. service' \in {"leaked", "write"}
    BY <1>2 DEF SendResponse
  <2> QED BY <2>1, <2>2, <2>3, AnswerOfService DEF OnRequestLineReceived
<1>4. /\ to_client = <<>> /\ message_buf = <<>> /\ client \notin {"headers", "parsing", "body"}
      /\ reported = None
  BY <1>3 DEF IInv, NothingRead
<1>5. TypeOK'
  BY <1>3 DEF IInv, TypeOK, OnRequestLineReceived, client_vars, Parts
<1> QED BY <1>3, <1>4, <1>5 DEF IInv, AnswerBegins, NothingRead, NoHeaderYet, WholeAnswer,
           BehindStatusLine, InLoop, BehindHeaders, Reported, ReportedAsSent, HeadersAsSent,
           client_vars

LEMMA OnServiceErrorStep == IInv /\ OnServiceError => IInv'
<1> SUFFICES ASSUME IInv, OnServiceError PROVE IInv'
  OBVIOUS
<1>1. TypeOK'
  BY DEF IInv, TypeOK, OnServiceError, client_vars
<1> QED BY <1>1, Elsewhere DEF OnServiceError

LEMMA OnResponseSentStep == IInv /\ OnResponseSent => IInv'
<1> SUFFICES ASSUME IInv, OnResponseSent PROVE IInv'
  OBVIOUS
<1>1. /\ service = "write" /\ service' \in {"leaked", "deleted"}
      /\ to_client' = to_client \/ to_client' = sent
      /\ server_fin' \in BOOLEAN
      /\ UNCHANGED <<sent, client_vars>>
  BY DEF OnResponseSent
<1>2. /\ to_client = <<>> /\ message_buf = <<>> /\ client \notin {"headers", "parsing", "body"}
      /\ reported = None
  BY <1>1 DEF IInv, NothingRead
<1>3. message_buf' = <<>> /\ (to_client' = <<>> \/ message_buf' \o to_client' = sent)
  BY <1>1, <1>2, Streams, Empty DEF IInv, client_vars
<1>4. TypeOK'
  BY <1>1 DEF IInv, TypeOK, OnResponseSent, client_vars
<1> QED BY <1>1, <1>2, <1>3, <1>4 DEF IInv, AnswerBegins, NothingRead, NoHeaderYet, WholeAnswer,
           BehindStatusLine, InLoop, BehindHeaders, Reported, ReportedAsSent, HeadersAsSent,
           client_vars

LEMMA OtherServerAnswersStep == IInv /\ OtherServerAnswers => IInv'
<1> SUFFICES ASSUME IInv, OtherServerAnswers PROVE IInv'
  OBVIOUS
<1>0. PICK reply \in OtherReplies :
         \E answer \in Prefixes(reply) : sent' = answer /\ to_client' = answer
  BY DEF OtherServerAnswers
<1>1. PICK answer \in Prefixes(reply) : sent' = answer /\ to_client' = answer
  BY <1>0
<1>2. /\ service = "request_line" /\ service' = "deleted" /\ server_fin' = TRUE
      /\ to_service' = <<>> /\ UNCHANGED client_vars
  BY DEF OtherServerAnswers
<1>3. /\ to_client = <<>> /\ message_buf = <<>> /\ client \notin {"headers", "parsing", "body"}
      /\ reported = None
  BY <1>2 DEF IInv, NothingRead
<1>4. reply \in Seq(Parts)
  <2>1. reply \in Seq(Tokens \cup Breaks)
    BY HttpExchangeAssumption DEF HttpExchangeAssumption
  <2>2. \A i \in 1..Len(reply) : reply[i] \in Parts
    BY <2>1, ElementOfSeq DEF Parts, Texts
  <2> QED BY <2>1, <2>2
<1>5. answer \in Seq(Parts) /\ (answer # <<>> => answer[1] \in Texts)
  <2>1. PICK l \in 0..Len(reply) : answer = SubSeq(reply, 1, l)
    BY DEF Prefixes
  <2>2. /\ 1 \in 1..Len(reply) + 1 /\ answer \in Seq(Parts) /\ Len(answer) = l
        /\ \A k \in 1..l : answer[k] = reply[k]
    BY <1>4, <2>1, PartOf, LenProperties
  <2>3. ASSUME answer # <<>> PROVE answer[1] \in Texts
    <3>1. l # 0
      BY <2>2, <2>3, EmptySeq
    <3>2. answer[1] = reply[1] /\ Len(reply) # 0
      BY <1>4, <2>2, <3>1, LenProperties
    <3>3. reply # <<>>
      BY <3>2
    <3> QED BY <3>2, <3>3, HttpExchangeAssumption DEF HttpExchangeAssumption, Texts
  <2> QED BY <2>2, <2>3
<1>6. message_buf' = <<>> /\ message_buf' \o to_client' = sent'
  BY <1>1, <1>2, <1>3, <1>5, Empty DEF client_vars
<1>7. TypeOK'
  <2>1. /\ sent' \in Seq(Parts) /\ to_client' \in Seq(Parts) /\ to_service' \in Seq(Parts)
        /\ message_buf' = message_buf /\ request_buf' = request_buf
        /\ server_fin' = TRUE /\ service' = "deleted"
    BY <1>1, <1>2, <1>5, Empty DEF OtherServerAnswers, client_vars
  <2> QED BY <2>1 DEF IInv, TypeOK, OtherServerAnswers, client_vars, Parts
<1> QED BY <1>1, <1>2, <1>3, <1>5, <1>6, <1>7 DEF IInv, AnswerBegins, NothingRead, NoHeaderYet,
           WholeAnswer, BehindStatusLine, InLoop, BehindHeaders, Reported, ReportedAsSent,
           HeadersAsSent, client_vars

LEMMA BreakStep == IInv /\ Break => IInv'
<1> SUFFICES ASSUME IInv, Break PROVE IInv'
  OBVIOUS
<1>1. TypeOK'
  BY DEF IInv, TypeOK, Break, client_vars, service_vars
<1> QED BY <1>1, Elsewhere DEF Break, service_vars

LEMMA Inductive == IInv /\ [Next]_vars => IInv'
<1> SUFFICES ASSUME IInv, [Next]_vars PROVE IInv'
  OBVIOUS
<1>1. CASE ClientStep
  BY <1>1, WriteRequestStep, OnRequestSentStep, ClientReceivesStep, OnStatusLineReceivedStep,
     OnInvalidStatusLineStep, OnHeadersReceivedStep, HeaderRoundStep,
     OnResponseBodyReceivedStep, OnErrorStep
     DEF ClientStep
<1>2. CASE ServiceStep
  BY <1>2, ServiceReceivesStep, OnRequestLineReceivedStep, OnServiceErrorStep, OnResponseSentStep
     DEF ServiceStep
<1>3. CASE OtherServerAnswers
  BY <1>3, OtherServerAnswersStep
<1>4. CASE Break
  BY <1>4, BreakStep
<1>5. CASE UNCHANGED vars
  <2>1. TypeOK'
    BY <1>5 DEF IInv, TypeOK, vars
  <2> QED BY <1>5, <2>1, Elsewhere DEF vars, client_vars
<1> QED BY <1>1, <1>2, <1>3, <1>4, <1>5 DEF Next

\* Wherever the two stand in their exchange, the client has taken off the answer
\* what its handlers say, and nothing else.
THEOREM Invariance == Spec => []IInv
<1>1. Init => IInv
  BY Initially
<1>2. IInv /\ [Next]_vars => IInv'
  BY Inductive
<1> QED BY <1>1, <1>2, PTL DEF Spec

\* The types of the exchange's variables.
THEOREM TypeCorrect == Spec => []TypeOK
<1>1. IInv => TypeOK
  BY DEF IInv
<1> QED BY <1>1, Invariance, PTL

\* The code given to the callback is that of the answer, and the body that of a
\* regular one, however it was cut and wherever it broke off.
THEOREM AnswerReported == Spec => []ReportedAsSent
<1>1. IInv => ReportedAsSent
  BY DEF IInv, Reported
<1> QED BY <1>1, Invariance, PTL

\* So are the headers of a regular one: the last line of a name counts, and a line
\* without a colon empties the value of the name before it.
THEOREM HeadersReported == Spec => []HeadersAsSent
<1>1. IInv => HeadersAsSent
  BY DEF IInv, Reported
<1> QED BY <1>1, Invariance, PTL

\* In a regular answer the loop never meets the end of its buffer, so that no
\* round of it is wasted.
THEOREM LoopMeetsNoEnd == Spec => [](LoopsForEver => ~Regular(sent))
<1>1. IInv => (LoopsForEver => ~Regular(sent))
  BY DEF IInv, InLoop, LoopsForEver
<1> QED BY <1>1, Invariance, PTL
=============================================================================
