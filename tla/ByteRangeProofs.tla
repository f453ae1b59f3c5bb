--------------------------- MODULE ByteRangeProofs ---------------------------
(***************************************************************************)
(* Proofs about ByteRange, for files of any size, any layout of their      *)
(* characters, all limits of four bytes or more and every PREVIEW_LIMIT    *)
(* above six.                                                              *)
(*                                                                         *)
(* Everything rests on DecodedRun: what is decoded of the bytes from a to  *)
(* b is the run from the next boundary after a (Up) to the last one before *)
(* b (Down), and neither is more than three bytes away. A page is then a   *)
(* run between two boundaries, pages that follow each other join, and the  *)
(* two ends of a preview are runs of known length.                         *)
(***************************************************************************)
EXTENDS ByteRange, FiniteSetTheorems, NaturalsInduction, WellFoundedInduction, TLAPS

\* A text's characters.
TextOk ==
  /\ text.size \in Nat /\ text.starts \subseteq 0 .. (text.size - 1)
  /\ text.size > 0 => 0 \in text.starts
  /\ \A b \in text.starts : \E k \in 1 .. 4 : b + k \in text.starts \cup {text.size}

LEMMA TextsAreOk == ASSUME text \in Texts PROVE TextOk
<1>1. PICK n \in 0 .. MaxSize : text \in [size : {n}, starts : SUBSET (0 .. (n - 1))]
  BY DEF Texts
<1> QED
  BY <1>1, RangeAssumption DEF Texts, TextOk

-------------------------------------------------------------------------------
(* Least and greatest numbers, boundaries and characters.                  *)

\* A set of natural numbers that is not empty has a least element.
LEMMA LeastNumber ==
  ASSUME NEW S, S \subseteq Nat, S # {}
  PROVE  \E n \in S : \A m \in S : n <= m
<1> DEFINE R == {ss \in Nat \X Nat : ss[1] < ss[2]}
<1>1. IsWellFoundedOn(R, Nat)
  BY ONLY NatLessThanWellFounded, Zenon DEF OpToRel
<1> HIDE DEF R
<1>2. PICK n \in S : \A m \in S : <<m, n>> \notin R
  BY <1>1, WFMin
<1>3. \A m \in S : ~ (m < n)
  BY <1>2 DEF R
<1> QED
  BY <1>3

LEMMA MinIs ==
  ASSUME NEW S, S \subseteq Nat, S # {}
  PROVE  Min(S) \in S /\ Min(S) \in Nat /\ \A m \in S : Min(S) <= m
<1>1. PICK n \in S : \A m \in S : n =< m
  BY LeastNumber
<1> QED
  BY <1>1 DEF Min

LEMMA MaxIs ==
  ASSUME NEW n \in Nat, NEW S, S \subseteq 0 .. n, S # {}
  PROVE  Max(S) \in S /\ Max(S) \in Nat /\ \A m \in S : m <= Max(S)
<1> DEFINE T == {n - m : m \in S}
<1>1. T \subseteq Nat /\ T # {}
  <2>1. \A m \in S : m \in 0 .. n
    OBVIOUS
  <2>2. \A m \in 0 .. n : n - m \in Nat
    OBVIOUS
  <2>3. \A m \in S : n - m \in Nat /\ n - m \in T
    BY <2>1, <2>2
  <2> HIDE DEF T
  <2>4. T # {}
    BY <2>3
  <2> QED
    BY <2>3, <2>4 DEF T
<1>2. PICK t \in T : \A u \in T : t <= u
  BY <1>1, LeastNumber
<1>3. PICK x \in S : t = n - x
  BY <1>2
<1>4. \A y \in S : n - x <= n - y
  BY <1>2, <1>3
<1>5. \A y \in S : x >= y
  BY <1>4
<1>6. Max(S) \in S /\ \A y \in S : Max(S) >= y
  BY <1>5 DEF Max
<1> HIDE DEF T
<1>7. Max(S) \in Nat /\ \A y \in S : y \in Nat
  <2>1. \A y \in S : y \in 0 .. n
    OBVIOUS
  <2>2. \A y \in 0 .. n : y \in Nat
    OBVIOUS
  <2>3. Max(S) \in S
    BY <1>6
  <2> QED
    BY ONLY <2>1, <2>2, <2>3
<1>8. \A y \in S : y <= Max(S)
  BY <1>6, <1>7
<1> QED
  BY <1>6, <1>7, <1>8

Boundaries == text.starts \cup {text.size}

LEMMA BoundariesAre ==
  ASSUME TextOk
  PROVE  /\ text.size \in Nat /\ Boundaries \subseteq 0 .. text.size
         /\ 0 \in Boundaries /\ text.size \in Boundaries
         /\ \A b \in Boundaries : b # text.size => b \in text.starts
  BY DEF TextOk, Boundaries

\* Every byte is in one character, which is at most four bytes long.
LEMMA CharacterOf ==
  ASSUME TextOk, NEW b \in 0 .. (text.size - 1)
  PROVE  /\ First(b) \in text.starts /\ First(b) \in Nat /\ First(b) <= b
         /\ \A c \in Boundaries : c <= b => c <= First(b)
         /\ Following(b) \in Boundaries /\ Following(b) \in Nat /\ b < Following(b)
         /\ \A c \in Boundaries : b < c => Following(b) <= c
         /\ Following(b) <= First(b) + 4
<1>1. /\ text.size \in Nat /\ Boundaries \subseteq 0 .. text.size
      /\ text.size \in Boundaries /\ \A c \in Boundaries : c # text.size => c \in text.starts
  BY BoundariesAre
<1>2. b \in Nat /\ b < text.size
  BY <1>1
<1> DEFINE S == {c \in text.starts : c <= b}
           F == {c \in text.starts \cup {text.size} : c > b}
<1>3. S \subseteq 0 .. b /\ 0 \in S
  BY <1>1, <1>2 DEF TextOk
<1>4. F \subseteq Nat /\ text.size \in F
  BY <1>1, <1>2 DEF Boundaries
<1>5. First(b) = Max(S) /\ Following(b) = Min(F)
  BY DEF First, Following
<1> HIDE DEF S, F
<1>6. First(b) \in S /\ First(b) \in Nat /\ \A c \in S : c <= First(b)
  BY <1>2, <1>3, <1>5, MaxIs
<1>7. Following(b) \in F /\ Following(b) \in Nat /\ \A c \in F : Following(b) <= c
  BY <1>4, <1>5, MinIs
<1>8. /\ First(b) \in text.starts /\ First(b) <= b
      /\ \A c \in Boundaries : c <= b => c <= First(b)
  BY <1>1, <1>2, <1>6 DEF S
<1>9. /\ Following(b) \in Boundaries /\ b < Following(b)
      /\ \A c \in Boundaries : b < c => Following(b) <= c
  BY <1>1, <1>2, <1>7 DEF F, Boundaries
<1>10. PICK k \in 1 .. 4 : First(b) + k \in Boundaries
  BY <1>8 DEF TextOk, Boundaries
<1>11. ~ (First(b) + k <= b)
  BY <1>6, <1>8, <1>10
<1>12. Following(b) <= First(b) + k
  BY <1>1, <1>2, <1>6, <1>9, <1>10, <1>11
<1>13. Following(b) <= First(b) + 4
  BY <1>6, <1>7, <1>12
<1> QED
  BY <1>6, <1>7, <1>8, <1>9, <1>13

\* The next boundary from a byte on, and the last one up to a byte.
Up(a) == Min({e \in Boundaries : e >= a})
Down(b) == Max({e \in Boundaries : e <= b})

LEMMA UpIs ==
  ASSUME TextOk, NEW a \in 0 .. text.size
  PROVE  /\ Up(a) \in Boundaries /\ Up(a) \in Nat /\ a <= Up(a) /\ Up(a) <= text.size
         /\ \A e \in Boundaries : a <= e => Up(a) <= e
         /\ Up(a) <= a + 3
         /\ a \in Boundaries => Up(a) = a
<1>1. /\ text.size \in Nat /\ Boundaries \subseteq 0 .. text.size
      /\ text.size \in Boundaries /\ \A c \in Boundaries : c # text.size => c \in text.starts
  BY BoundariesAre
<1>2. a \in Nat /\ a <= text.size
  BY <1>1
<1> DEFINE S == {e \in Boundaries : e >= a}
<1>3. S \subseteq Nat /\ text.size \in S
  <2>1. \A e \in 0 .. text.size : e \in Nat
    BY <1>1
  <2>2. text.size >= a
    BY <1>1, <1>2
  <2> QED
    BY <1>1, <2>1, <2>2
<1>4. Up(a) = Min(S)
  BY DEF Up
<1> HIDE DEF S
<1>5. Up(a) \in S /\ Up(a) \in Nat /\ \A e \in S : Up(a) <= e
  BY <1>3, <1>4, MinIs
<1>6. /\ Up(a) \in Boundaries /\ a <= Up(a) /\ Up(a) <= text.size
      /\ \A e \in Boundaries : a <= e => Up(a) <= e
  BY <1>1, <1>2, <1>3, <1>5 DEF S
<1>7. a \in Boundaries => Up(a) = a
  BY <1>2, <1>5, <1>6
<1>8. CASE a \in Boundaries
  BY <1>2, <1>5, <1>6, <1>7, <1>8
<1>9. CASE a \notin Boundaries
  <2>1. a \in 0 .. (text.size - 1)
    BY <1>1, <1>2, <1>9
  <2>2. /\ First(a) \in Boundaries /\ First(a) \in Nat /\ First(a) <= a
        /\ Following(a) \in Boundaries /\ Following(a) \in Nat /\ a < Following(a)
        /\ Following(a) <= First(a) + 4
    BY <2>1, CharacterOf DEF Boundaries
  <2>3. First(a) < a
    BY <1>2, <1>9, <2>2
  <2>4. Up(a) <= Following(a)
    BY <1>2, <1>6, <2>2
  <2>5. Up(a) <= a + 3
    BY <1>2, <1>5, <2>2, <2>3, <2>4
  <2> QED
    BY <1>5, <1>6, <1>7, <2>5
<1> QED
  BY <1>8, <1>9

LEMMA DownIs ==
  ASSUME TextOk, NEW b \in 0 .. text.size
  PROVE  /\ Down(b) \in Boundaries /\ Down(b) \in Nat /\ Down(b) <= b
         /\ \A e \in Boundaries : e <= b => e <= Down(b)
         /\ b <= Down(b) + 3
         /\ b \in Boundaries => Down(b) = b
<1>1. /\ text.size \in Nat /\ Boundaries \subseteq 0 .. text.size
      /\ text.size \in Boundaries /\ 0 \in Boundaries
      /\ \A c \in Boundaries : c # text.size => c \in text.starts
  BY BoundariesAre
<1>2. b \in Nat /\ b <= text.size
  BY <1>1
<1> DEFINE S == {e \in Boundaries : e <= b}
<1>3. S \subseteq 0 .. b /\ 0 \in S
  <2>1. \A e \in 0 .. text.size : e <= b => e \in 0 .. b
    BY <1>1, <1>2
  <2>2. 0 <= b
    BY <1>2
  <2> QED
    BY <1>1, <2>1, <2>2
<1>4. Down(b) = Max(S)
  BY DEF Down
<1> HIDE DEF S
<1>5. Down(b) \in S /\ Down(b) \in Nat /\ \A e \in S : e <= Down(b)
  BY <1>2, <1>3, <1>4, MaxIs
<1>6. /\ Down(b) \in Boundaries /\ Down(b) <= b
      /\ \A e \in Boundaries : e <= b => e <= Down(b)
  BY <1>5 DEF S
<1>7. b \in Boundaries => Down(b) = b
  BY <1>2, <1>5, <1>6
<1>8. CASE b \in Boundaries
  BY <1>2, <1>5, <1>6, <1>7, <1>8
<1>9. CASE b \notin Boundaries
  <2>1. b \in 0 .. (text.size - 1)
    BY <1>1, <1>2, <1>9
  <2>2. /\ First(b) \in Boundaries /\ First(b) \in Nat /\ First(b) <= b
        /\ Following(b) \in Nat /\ b < Following(b)
        /\ Following(b) <= First(b) + 4
    BY <2>1, CharacterOf DEF Boundaries
  <2>3. First(b) <= Down(b)
    BY <1>6, <2>2
  <2>4. b <= Down(b) + 3
    BY <1>2, <1>5, <2>2, <2>3
  <2> QED
    BY <1>5, <1>6, <1>7, <2>4
<1> QED
  BY <1>8, <1>9

-------------------------------------------------------------------------------
(* Runs of bytes.                                                          *)

LEMMA BytesAre ==
  ASSUME NEW p \in Nat, NEW q \in Nat
  PROVE  /\ DOMAIN Bytes(p, q) = 1 .. (q - p)
         /\ \A n \in 1 .. (q - p) : Bytes(p, q)[n] = p + n - 1
         /\ p <= q => Bytes(p, q) \in Seq(Nat) /\ Len(Bytes(p, q)) = q - p
<1>1. \A n \in 1 .. (q - p) : p + n - 1 \in Nat
  OBVIOUS
<1>2. Bytes(p, q) = [n \in 1 .. (q - p) |-> p + n - 1]
  BY DEF Bytes
<1>3. p <= q => q - p \in Nat
  OBVIOUS
<1> QED
  BY <1>1, <1>2, <1>3

\* The members of a sequence from one place to another.
LEMMA SelectedInterval ==
  ASSUME NEW s, NEW i \in Nat, NEW j \in Int, i <= j + 1
  PROVE  Selected(s, i .. j) = [m \in 1 .. (j - i + 1) |-> s[i + m - 1]]
<1> DEFINE Place(m) == CHOOSE k \in i .. j : Cardinality({l \in i .. j : l <= k}) = m
<1>1. Cardinality(i .. j) = j - i + 1
  BY FS_Interval
<1>2. ASSUME NEW k \in i .. j PROVE Cardinality({l \in i .. j : l <= k}) = k - i + 1
  <2>1. {l \in i .. j : l <= k} = i .. k
    OBVIOUS
  <2>2. Cardinality(i .. k) = k - i + 1
    BY FS_Interval
  <2> QED
    BY <2>1, <2>2
<1>3. ASSUME NEW m \in 1 .. (j - i + 1) PROVE Place(m) = i + m - 1
  <2>1. i + m - 1 \in i .. j
    OBVIOUS
  <2>2. \A k \in i .. j : k - i + 1 = m <=> k = i + m - 1
    OBVIOUS
  <2>3. \A k \in i .. j : Cardinality({l \in i .. j : l <= k}) = m <=> k = i + m - 1
    BY <1>2, <2>2
  <2> QED
    BY <2>1, <2>3
<1>4. Selected(s, i .. j) = [m \in 1 .. (j - i + 1) |-> s[Place(m)]]
  BY <1>1 DEF Selected
<1> HIDE DEF Place
<1> QED
  BY <1>3, <1>4

\* The places of whole characters in a run of bytes.
Whole(bytes) ==
  {n \in DOMAIN bytes :
     \A c \in First(bytes[n]) .. (Following(bytes[n]) - 1) : \E m \in DOMAIN bytes : bytes[m] = c}

\* A byte of a run is kept if its character begins and ends in the run.
LEMMA WholeInRun ==
  ASSUME TextOk, NEW a \in 0 .. text.size, NEW b \in 0 .. text.size,
         NEW n \in 1 .. (b - a)
  PROVE  n \in Whole(Bytes(a, b)) <=> Up(a) <= a + n - 1 /\ a + n - 1 < Down(b)
<1> DEFINE s == Bytes(a, b)
           x == a + n - 1
<1>1. text.size \in Nat /\ a \in Nat /\ b \in Nat /\ n \in Nat
  BY BoundariesAre
<1>2. x \in 0 .. (text.size - 1) /\ a <= x /\ x < b /\ x \in Nat
  BY <1>1
<1>3. /\ DOMAIN s = 1 .. (b - a) /\ s[n] = x
      /\ \A m \in 1 .. (b - a) : s[m] = a + m - 1
  BY <1>1, BytesAre
<1> HIDE DEF s, x
<1>4. /\ First(x) \in Boundaries /\ First(x) \in Nat /\ First(x) <= x
      /\ \A c \in Boundaries : c <= x => c <= First(x)
      /\ Following(x) \in Boundaries /\ Following(x) \in Nat /\ x < Following(x)
      /\ \A c \in Boundaries : x < c => Following(x) <= c
  BY <1>2, CharacterOf DEF Boundaries
<1>5. \A c \in Nat : (\E m \in DOMAIN s : s[m] = c) <=> a <= c /\ c < b
  <2> SUFFICES ASSUME NEW c \in Nat PROVE (\E m \in DOMAIN s : s[m] = c) <=> a <= c /\ c < b
    OBVIOUS
  <2>1. ASSUME NEW m \in 1 .. (b - a), s[m] = c PROVE a <= c /\ c < b
    <3>1. c = a + m - 1
      BY <1>3, <2>1
    <3> QED
      BY <1>1, <3>1
  <2>2. ASSUME a <= c, c < b PROVE \E m \in 1 .. (b - a) : s[m] = c
    <3>1. c - a + 1 \in 1 .. (b - a) /\ a + (c - a + 1) - 1 = c
      BY <1>1, <2>2
    <3>2. s[c - a + 1] = c
      BY <1>3, <3>1
    <3> QED
      BY <3>1, <3>2
  <2> QED
    BY <1>3, <2>1, <2>2
<1>6. n \in Whole(s) <=> \A c \in First(x) .. (Following(x) - 1) : a <= c /\ c < b
  <2>1. \A c \in First(x) .. (Following(x) - 1) : c \in Nat
    BY <1>4
  <2>2. n \in DOMAIN s
    BY <1>3
  <2> QED
    BY <1>3, <1>5, <2>1, <2>2 DEF Whole
<1>7. (\A c \in First(x) .. (Following(x) - 1) : a <= c /\ c < b)
        <=> a <= First(x) /\ Following(x) <= b
  <2>1. First(x) \in First(x) .. (Following(x) - 1)
    BY <1>2, <1>4
  <2>2. Following(x) - 1 \in First(x) .. (Following(x) - 1)
    BY <1>2, <1>4
  <2>3. Following(x) - 1 < b <=> Following(x) <= b
    BY <1>1, <1>4
  <2>4. ASSUME a <= First(x), Following(x) <= b, NEW c \in First(x) .. (Following(x) - 1)
        PROVE  a <= c /\ c < b
    BY <1>1, <1>4, <2>4
  <2> QED
    BY <2>1, <2>2, <2>3, <2>4
<1>8. a <= First(x) <=> Up(a) <= x
  <2>1. Up(a) \in Boundaries /\ Up(a) \in Nat /\ a <= Up(a) /\ \A e \in Boundaries : a <= e => Up(a) <= e
    BY UpIs
  <2>2. ASSUME a <= First(x) PROVE Up(a) <= x
    <3>1. Up(a) <= First(x)
      BY <1>4, <2>1, <2>2
    <3> QED
      BY <1>2, <1>4, <2>1, <3>1
  <2>3. ASSUME Up(a) <= x PROVE a <= First(x)
    <3>1. Up(a) <= First(x)
      BY <1>4, <2>1, <2>3
    <3> QED
      BY <1>1, <1>4, <2>1, <3>1
  <2> QED
    BY <2>2, <2>3
<1>9. Following(x) <= b <=> x < Down(b)
  <2>1. Down(b) \in Boundaries /\ Down(b) \in Nat /\ Down(b) <= b /\ \A e \in Boundaries : e <= b => e <= Down(b)
    BY DownIs
  <2>2. ASSUME Following(x) <= b PROVE x < Down(b)
    <3>1. Following(x) <= Down(b)
      BY <1>4, <2>1, <2>2
    <3> QED
      BY <1>2, <1>4, <2>1, <3>1
  <2>3. ASSUME x < Down(b) PROVE Following(x) <= b
    <3>1. Following(x) <= Down(b)
      BY <1>4, <2>1, <2>3
    <3> QED
      BY <1>1, <1>4, <2>1, <3>1
  <2> QED
    BY <2>2, <2>3
<1>10. n \in Whole(s) <=> Up(a) <= x /\ x < Down(b)
  BY <1>6, <1>7, <1>8, <1>9
<1> QED
  BY <1>10 DEF s, x

\* What is decoded of a run of bytes is the run of its whole characters.
LEMMA DecodedRun ==
  ASSUME TextOk, NEW a \in 0 .. text.size, NEW b \in 0 .. text.size, a <= b
  PROVE  Decode(Bytes(a, b)) = Bytes(Up(a), Down(b))
<1> DEFINE s == Bytes(a, b)
           p == Up(a)
           q == Down(b)
<1>1. text.size \in Nat /\ a \in Nat /\ b \in Nat
  BY BoundariesAre
<1>2. p \in Nat /\ a <= p /\ q \in Nat /\ q <= b
  BY UpIs, DownIs
<1>3. DOMAIN s = 1 .. (b - a) /\ \A m \in 1 .. (b - a) : s[m] = a + m - 1
  BY <1>1, BytesAre
<1>4. Decode(s) = Selected(s, Whole(s))
  BY DEF Decode, Whole
<1>5. \A n \in 1 .. (b - a) : n \in Whole(s) <=> p <= a + n - 1 /\ a + n - 1 < q
  BY WholeInRun
<1>6. Whole(s) \subseteq 1 .. (b - a)
  BY <1>3 DEF Whole
<1> HIDE DEF s, p, q
<1>7. Whole(s) = (p - a + 1) .. (q - a)
  <2>1. \A n \in 1 .. (b - a) : p <= a + n - 1 /\ a + n - 1 < q <=> n \in (p - a + 1) .. (q - a)
    BY <1>1, <1>2
  <2>2. (p - a + 1) .. (q - a) \subseteq 1 .. (b - a)
    BY <1>1, <1>2
  <2> QED
    BY <1>5, <1>6, <2>1, <2>2
<1>8. Bytes(p, q) = [n \in 1 .. (q - p) |-> p + n - 1]
  BY DEF Bytes
<1>9. CASE p <= q
  <2> DEFINE i == p - a + 1
             j == q - a
  <2>1. i \in Nat /\ j \in Int /\ i <= j + 1 /\ j - i + 1 = q - p
    BY <1>1, <1>2, <1>9
  <2> HIDE DEF i, j
  <2>2. Selected(s, i .. j) = [m \in 1 .. (j - i + 1) |-> s[i + m - 1]]
    BY <2>1, SelectedInterval
  <2>3. ASSUME NEW m \in 1 .. (q - p) PROVE s[i + m - 1] = p + m - 1
    <3>1. i + m - 1 \in 1 .. (b - a) /\ a + (i + m - 1) - 1 = p + m - 1
      BY <1>1, <1>2 DEF i
    <3> QED
      BY <1>3, <3>1
  <2>4. Selected(s, i .. j) = [m \in 1 .. (q - p) |-> p + m - 1]
    BY <2>1, <2>2, <2>3
  <2> QED
    BY <1>4, <1>7, <1>8, <2>4 DEF i, j, s, p, q
<1>10. CASE ~ (p <= q)
  <2>1. (p - a + 1) .. (q - a) = 1 .. 0 /\ 1 .. (q - p) = {}
    BY <1>1, <1>2, <1>10
  <2> DEFINE i == 1
             j == 0
  <2>2. i \in Nat /\ j \in Int /\ i <= j + 1
    OBVIOUS
  <2>3. 1 .. (j - i + 1) = {} /\ i .. j = 1 .. 0
    OBVIOUS
  <2> HIDE DEF i, j
  <2>4. Selected(s, i .. j) = [m \in 1 .. (j - i + 1) |-> s[i + m - 1]]
    BY ONLY <2>2, SelectedInterval
  <2>5. [m \in 1 .. (j - i + 1) |-> s[i + m - 1]] = [n \in 1 .. (q - p) |-> p + n - 1]
    BY <2>1, <2>3
  <2>6. Decode(s) = Bytes(p, q)
    BY <1>4, <1>7, <1>8, <2>1, <2>3, <2>4, <2>5
  <2> QED
    BY <2>6 DEF s, p, q
<1> QED
  BY <1>9, <1>10

-------------------------------------------------------------------------------
(* Previews.                                                               *)

LEMMA HeadOfRun ==
  ASSUME NEW a \in Nat, NEW b \in Nat, NEW h \in Nat, a + h <= b
  PROVE  SubSeq(Bytes(a, b), 1, h) = Bytes(a, a + h)
<1>1. SubSeq(Bytes(a, b), 1, h) = [i \in 1 .. h |-> Bytes(a, b)[i]]
  BY BytesAre
<1>2. \A i \in 1 .. h : Bytes(a, b)[i] = a + i - 1
  BY BytesAre
<1>3. Bytes(a, a + h) = [i \in 1 .. h |-> a + i - 1]
  BY DEF Bytes
<1> QED
  BY <1>1, <1>2, <1>3

LEMMA TailOfRun ==
  ASSUME NEW a \in Nat, NEW b \in Nat, NEW h \in Nat, a + h <= b
  PROVE  SubSeq(Bytes(a, b), (b - a) - h + 1, b - a) = Bytes(b - h, b)
<1> DEFINE m == (b - a) - h + 1
           n == b - a
           s == Bytes(a, b)
<1>1. s \in Seq(Nat) /\ Len(s) = n /\ m \in Nat /\ n \in Nat /\ m >= 1 /\ 1 + n - m = h
  BY BytesAre
<1> HIDE DEF s
<1>2. SubSeq(s, m, n) = [i \in 1 .. (1 + n - m) |-> s[i + m - 1]]
  BY <1>1
<1>3. ASSUME NEW i \in 1 .. h PROVE s[i + m - 1] = b - h + i - 1
  <2>1. i + m - 1 \in 1 .. (b - a) /\ a + (i + m - 1) - 1 = b - h + i - 1
    OBVIOUS
  <2> QED
    BY <2>1, BytesAre DEF s
<1>4. Bytes(b - h, b) = [i \in 1 .. h |-> b - h + i - 1]
  BY DEF Bytes
<1>5. SubSeq(s, m, n) = Bytes(b - h, b)
  BY <1>1, <1>2, <1>3, <1>4
<1> QED
  BY <1>5 DEF s

\* A run's beginning is a prefix of it, and its end a suffix.
LEMMA PrefixOfRun ==
  ASSUME NEW a \in Nat, NEW b \in Nat, NEW q \in Nat, a <= q, q <= b
  PROVE  IsPrefix(Bytes(a, q), Bytes(a, b))
<1>1. Len(Bytes(a, q)) = q - a /\ Len(Bytes(a, b)) = b - a /\ Bytes(a, q) \in Seq(Nat)
  BY BytesAre
<1>2. q - a \in Nat /\ a + (q - a) = q /\ a + (q - a) <= b
  OBVIOUS
<1>3. SubSeq(Bytes(a, b), 1, q - a) = Bytes(a, q)
  BY <1>2, HeadOfRun
<1>4. SubSeq(Bytes(a, q), 1, q - a) = Bytes(a, q)
  BY <1>2, HeadOfRun
<1> QED
  BY <1>1, <1>3, <1>4 DEF IsPrefix

LEMMA SuffixOfRun ==
  ASSUME NEW a \in Nat, NEW b \in Nat, NEW u \in Nat, a <= u, u <= b
  PROVE  IsSuffix(Bytes(u, b), Bytes(a, b))
<1> DEFINE s == Reverse(Bytes(u, b))
           t == Reverse(Bytes(a, b))
<1>1. Len(Bytes(u, b)) = b - u /\ Len(Bytes(a, b)) = b - a
  BY BytesAre
<1>2. s = [i \in 1 .. (b - u) |-> Bytes(u, b)[(b - u - i) + 1]]
  BY <1>1 DEF Reverse
<1>3. t = [i \in 1 .. (b - a) |-> Bytes(a, b)[(b - a - i) + 1]]
  BY <1>1 DEF Reverse
<1>4. ASSUME NEW i \in 1 .. (b - u) PROVE s[i] = b - i
  <2>1. (b - u - i) + 1 \in 1 .. (b - u) /\ u + ((b - u - i) + 1) - 1 = b - i
    OBVIOUS
  <2> QED
    BY <1>2, <2>1, BytesAre
<1>5. ASSUME NEW i \in 1 .. (b - a) PROVE t[i] = b - i
  <2>1. (b - a - i) + 1 \in 1 .. (b - a) /\ a + ((b - a - i) + 1) - 1 = b - i
    OBVIOUS
  <2> QED
    BY <1>3, <2>1, BytesAre
<1>6. DOMAIN s = 1 .. (b - u) /\ DOMAIN t = 1 .. (b - a)
  BY <1>2, <1>3
<1>7. \A i \in 1 .. (b - u) : i \in 1 .. (b - a)
  OBVIOUS
<1>8. b - u \in Nat /\ b - a \in Nat /\ b - u <= b - a
  OBVIOUS
<1>9. Len(s) = b - u /\ Len(t) = b - a
  BY <1>2, <1>3, <1>8
<1> HIDE DEF s, t
<1>10. SubSeq(s, 1, b - u) = [i \in 1 .. (b - u) |-> s[i]]
  BY <1>8
<1>11. SubSeq(t, 1, b - u) = [i \in 1 .. (b - u) |-> t[i]]
  BY <1>8
<1>12. IsPrefix(s, t)
  BY <1>4, <1>5, <1>7, <1>8, <1>9, <1>10, <1>11 DEF IsPrefix
<1> QED
  BY <1>12 DEF IsSuffix, s, t

\* What was read shows the beginning and the end of a run of bytes.
ShowsEnds(raw, a, b) ==
  /\ raw \in Seq(Nat)
  /\ Len(raw) <= b - a \/ PreviewLimit < b - a
  /\ header + Len(raw) <= PreviewLimit => raw = Bytes(a, b)
  /\ \A h \in 0 .. Len(raw) : h + 3 <= PreviewLimit =>
       /\ SubSeq(raw, 1, h) = Bytes(a, a + h)
       /\ SubSeq(raw, Len(raw) - h + 1, Len(raw)) = Bytes(b - h, b)

\* What PreviewIsHonest says of a preview.
Honest(p, of) ==
  /\ p.length <= PreviewLimit
  /\ ~p.cut => p.head = of
  /\ p.cut =>
       /\ IsPrefix(p.head, of) /\ IsSuffix(p.tail, of)
       /\ Len(p.head) + Len(p.tail) < Len(of)
       /\ Decode(p.head) = p.head /\ Decode(p.tail) = p.tail

LEMMA PreviewOfRun ==
  ASSUME TextOk, header \in Headers, NEW a \in Boundaries, NEW b \in Boundaries, a <= b,
         NEW raw, ShowsEnds(raw, a, b)
  PROVE  Honest(Preview(raw), Bytes(a, b))
<1>1. /\ text.size \in Nat /\ a \in 0 .. text.size /\ b \in 0 .. text.size
      /\ a \in Nat /\ b \in Nat /\ b <= text.size
  BY BoundariesAre
<1>2. /\ header \in Nat /\ Marker \in Nat /\ PreviewLimit \in Nat /\ PreviewLimit > 6
      /\ header + Marker < PreviewLimit
  BY RangeAssumption
<1>3. Len(raw) \in Nat
  BY DEF ShowsEnds
<1>4. CASE header + Len(raw) <= PreviewLimit
  <2>1. Preview(raw) = [length |-> header + Len(raw), head |-> raw, tail |-> <<>>, cut |-> FALSE]
    BY <1>4 DEF Preview
  <2>2. raw = Bytes(a, b)
    BY <1>4 DEF ShowsEnds
  <2> QED
    BY <1>4, <2>1, <2>2 DEF Honest
<1>5. CASE ~ (header + Len(raw) <= PreviewLimit)
  <2> DEFINE budget == PreviewLimit - header - Marker
             half == budget \div 2
             rest == budget - half
  <2>1. /\ budget \in Nat /\ half \in Nat /\ rest \in Nat /\ half + rest = budget
        /\ half <= budget /\ rest <= half + 1
    BY <1>2
  <2>2. budget < Len(raw) /\ half + 3 <= PreviewLimit /\ rest + 3 <= PreviewLimit
    BY <1>2, <1>3, <1>5, <2>1
  <2> DEFINE head == Decode(SubSeq(raw, 1, half))
             tail == Decode(SubSeq(raw, Len(raw) - rest + 1, Len(raw)))
             p == [length |-> header + Len(head) + Marker + Len(tail),
                   head |-> head, tail |-> tail, cut |-> TRUE]
  <2>4. Preview(raw) = p
    BY <1>5 DEF Preview
  <2> HIDE DEF budget, half, rest
  <2>3. half \in 0 .. Len(raw) /\ rest \in 0 .. Len(raw)
    <3>1. half <= Len(raw) /\ rest <= Len(raw)
      BY ONLY <1>3, <2>1, <2>2
    <3> QED
      BY ONLY <1>3, <2>1, <3>1
  <2>5. SubSeq(raw, 1, half) = Bytes(a, a + half)
    BY <2>2, <2>3 DEF ShowsEnds
  <2>6. SubSeq(raw, Len(raw) - rest + 1, Len(raw)) = Bytes(b - rest, b)
    BY <2>2, <2>3 DEF ShowsEnds
  <2>7. budget < b - a
    <3>1. Len(raw) <= b - a \/ PreviewLimit < b - a
      BY DEF ShowsEnds
    <3>2. budget <= PreviewLimit
      BY <1>2 DEF budget
    <3> QED
      BY <1>1, <1>2, <1>3, <2>1, <2>2, <3>1, <3>2
  <2>8. a + half \in 0 .. text.size /\ a <= a + half /\ b - rest \in 0 .. text.size /\ b - rest <= b
    BY <1>1, <2>1, <2>7
  <2> DEFINE q == Down(a + half)
             u == Up(b - rest)
  <2>9. head = Bytes(a, q)
    <3>1. Decode(Bytes(a, a + half)) = Bytes(Up(a), q)
      BY <1>1, <2>8, DecodedRun
    <3>2. Up(a) = a
      BY <1>1, UpIs
    <3> QED
      BY <2>5, <3>1, <3>2
  <2>10. tail = Bytes(u, b)
    <3>1. Decode(Bytes(b - rest, b)) = Bytes(u, Down(b))
      BY <1>1, <2>8, DecodedRun
    <3>2. Down(b) = b
      BY <1>1, DownIs
    <3> QED
      BY <2>6, <3>1, <3>2
  <2>11. q \in Boundaries /\ q \in Nat /\ a <= q /\ q <= a + half
    BY <1>1, <2>8, DownIs
  <2>12. u \in Boundaries /\ u \in Nat /\ b - rest <= u /\ u <= b
    BY <1>1, <2>8, UpIs
  <2> HIDE DEF q, u, head, tail
  <2>13. q <= b /\ a <= u /\ q \in 0 .. text.size /\ u \in 0 .. text.size
    BY <1>1, <2>1, <2>7, <2>11, <2>12
  <2>14. /\ Len(head) = q - a /\ Len(tail) = b - u /\ Len(Bytes(a, b)) = b - a
    BY <1>1, <2>9, <2>10, <2>11, <2>12, BytesAre
  <2>15. Len(head) + Len(tail) <= budget /\ Len(head) + Len(tail) \in Nat
    BY <1>1, <2>1, <2>11, <2>12, <2>14
  <2>16. header + Len(head) + Marker + Len(tail) <= PreviewLimit
    BY <1>1, <1>2, <2>11, <2>12, <2>14, <2>15 DEF budget
  <2>17. Len(head) + Len(tail) < Len(Bytes(a, b))
    BY <1>1, <2>1, <2>7, <2>14, <2>15
  <2>18. IsPrefix(head, Bytes(a, b)) /\ IsSuffix(tail, Bytes(a, b))
    BY <1>1, <2>9, <2>10, <2>11, <2>12, <2>13, PrefixOfRun, SuffixOfRun
  <2>19. Decode(head) = head
    <3>1. Decode(Bytes(a, q)) = Bytes(Up(a), Down(q))
      BY <1>1, <2>11, <2>13, DecodedRun
    <3>2. Up(a) = a /\ Down(q) = q
      BY <1>1, <2>11, <2>13, UpIs, DownIs
    <3> QED
      BY <2>9, <3>1, <3>2
  <2>20. Decode(tail) = tail
    <3>1. Decode(Bytes(u, b)) = Bytes(Up(u), Down(b))
      BY <1>1, <2>12, <2>13, DecodedRun
    <3>2. Up(u) = u /\ Down(b) = b
      BY <1>1, <2>12, <2>13, UpIs, DownIs
    <3> QED
      BY <2>10, <3>1, <3>2
  <2>21. /\ p.length = header + Len(head) + Marker + Len(tail)
         /\ p.head = head /\ p.tail = tail /\ p.cut
    OBVIOUS
  <2> HIDE DEF p
  <2> QED
    BY <2>4, <2>16, <2>17, <2>18, <2>19, <2>20, <2>21 DEF Honest
<1> QED
  BY <1>4, <1>5

LEMMA ShowsRun ==
  ASSUME TextOk, NEW a \in Boundaries, NEW b \in Boundaries, a <= b
  PROVE  ShowsEnds(Bytes(a, b), a, b)
<1> DEFINE raw == Bytes(a, b)
<1>1. a \in Nat /\ b \in Nat
  BY BoundariesAre
<1>2. raw \in Seq(Nat) /\ Len(raw) = b - a
  BY <1>1, BytesAre
<1>3. ASSUME NEW h \in 0 .. (b - a)
      PROVE  /\ SubSeq(raw, 1, h) = Bytes(a, a + h)
             /\ SubSeq(raw, (b - a) - h + 1, b - a) = Bytes(b - h, b)
  <2>1. h \in Nat /\ a + h <= b
    BY <1>1
  <2> QED
    BY <1>1, <2>1, HeadOfRun, TailOfRun
<1>4. Len(raw) <= b - a
  BY <1>1, <1>2
<1>5. raw = Bytes(a, b)
  OBVIOUS
<1> HIDE DEF raw
<1>6. ShowsEnds(raw, a, b)
  BY <1>2, <1>3, <1>4, <1>5 DEF ShowsEnds
<1> QED
  BY <1>6 DEF raw

LEMMA Joined ==
  ASSUME NEW s \in Seq(Nat), NEW t \in Seq(Nat)
  PROVE  /\ s \o t \in Seq(Nat) /\ Len(s \o t) = Len(s) + Len(t)
         /\ \A i \in 1 .. Len(s) : (s \o t)[i] = s[i]
         /\ \A i \in 1 .. Len(t) : (s \o t)[Len(s) + i] = t[i]
<1>1. s \o t \in Seq(Nat) /\ Len(s \o t) = Len(s) + Len(t)
  OBVIOUS
<1>2. \A i \in 1 .. Len(s) : (s \o t)[i] = s[i]
  OBVIOUS
<1>3. ASSUME NEW i \in 1 .. Len(t) PROVE (s \o t)[Len(s) + i] = t[i]
  <2>1. Len(s) \in Nat /\ Len(t) \in Nat
    OBVIOUS
  <2>2. /\ Len(s) + i \in 1 .. (Len(s) + Len(t)) /\ (Len(s) + i) - Len(s) = i
        /\ ~ (Len(s) + i <= Len(s))
    BY <2>1
  <2> QED
    BY <2>2
<1> QED
  BY <1>1, <1>2, <1>3

\* Of a file too long to be shown the first and the last bytes are enough: they
\* may overlap, and hold more than the preview takes from either side.
LEMMA ShowsEdges ==
  ASSUME TextOk, header \in Headers
  PROVE  ShowsEnds(Edges, 0, text.size)
<1>1. text.size \in Nat /\ PreviewLimit \in Nat /\ PreviewLimit > 6
  BY BoundariesAre, RangeAssumption
<1>2. CASE text.size <= PreviewLimit
  <2>1. 0 \in Boundaries /\ text.size \in Boundaries /\ 0 <= text.size
    BY <1>1, BoundariesAre
  <2>2. ShowsEnds(Bytes(0, text.size), 0, text.size)
    BY <2>1, ShowsRun
  <2> QED
    BY <1>2, <2>2 DEF Edges
<1>3. CASE ~ (text.size <= PreviewLimit)
  <2> DEFINE n == text.size
             d == Down(PreviewLimit)
             u == Up(n - PreviewLimit)
             x == Bytes(0, d)
             y == Bytes(u, n)
  <2>1. /\ PreviewLimit \in 0 .. text.size /\ n - PreviewLimit \in 0 .. text.size
        /\ 0 \in 0 .. text.size /\ n \in 0 .. text.size /\ 0 <= PreviewLimit /\ n - PreviewLimit <= n
    BY <1>1, <1>3
  <2>2. d \in Nat /\ d <= PreviewLimit /\ PreviewLimit <= d + 3
    BY <2>1, DownIs
  <2>3. u \in Nat /\ u <= n /\ u <= (n - PreviewLimit) + 3
    BY <2>1, UpIs
  <2>4. Edges = x \o y
    <3>1. Decode(Bytes(0, PreviewLimit)) = Bytes(Up(0), d)
      BY <2>1, DecodedRun
    <3>2. Decode(Bytes(n - PreviewLimit, n)) = Bytes(u, Down(n))
      BY <2>1, DecodedRun
    <3>3. Up(0) = 0 /\ Down(n) = n
      BY <2>1, BoundariesAre, UpIs, DownIs
    <3> QED
      BY <1>3, <3>1, <3>2, <3>3 DEF Edges
  <2>5. x \in Seq(Nat) /\ Len(x) = d /\ \A i \in 1 .. d : x[i] = i - 1
    <3>1. \A i \in 1 .. (d - 0) : x[i] = 0 + i - 1
      BY <2>2, BytesAre
    <3>2. d - 0 = d /\ \A i \in 1 .. d : 0 + i - 1 = i - 1
      BY <2>2
    <3>3. x \in Seq(Nat) /\ Len(x) = d - 0
      <4>1. 0 \in Nat /\ 0 <= d
        BY <2>2
      <4> HIDE DEF d
      <4> QED
        BY <2>2, <4>1, BytesAre
    <3> QED
      BY <3>1, <3>2, <3>3
  <2>6. y \in Seq(Nat) /\ Len(y) = n - u /\ \A i \in 1 .. (n - u) : y[i] = u + i - 1
    BY <1>1, <2>3, BytesAre
  <2> DEFINE raw == x \o y
             k == d + (n - u)
  <2> HIDE DEF n, d, u, x, y
  <2>7. n \in Nat /\ PreviewLimit < n
    BY <1>1, <1>3 DEF n
  <2>8. raw \in Seq(Nat) /\ Len(raw) = k
    BY <2>5, <2>6, Joined
  <2>9. /\ \A i \in 1 .. d : raw[i] = i - 1
        /\ \A i \in 1 .. (n - u) : raw[d + i] = u + i - 1
    <3>1. \A i \in 1 .. d : raw[i] = x[i]
      BY <2>5, <2>6, Joined
    <3>2. \A i \in 1 .. (n - u) : raw[d + i] = y[i]
      BY <2>5, <2>6, Joined
    <3> QED
      BY <2>5, <2>6, <3>1, <3>2
  <2> HIDE DEF raw
  <2>10. k \in Nat /\ PreviewLimit < k
    BY <1>1, <2>2, <2>3, <2>7
  <2>11. ASSUME NEW h \in 0 .. Len(raw), h + 3 <= PreviewLimit
         PROVE  /\ SubSeq(raw, 1, h) = Bytes(0, 0 + h)
                /\ SubSeq(raw, Len(raw) - h + 1, Len(raw)) = Bytes(n - h, n)
    <3>1. h \in Nat /\ h <= d /\ h <= n - u
      BY <1>1, <2>2, <2>3, <2>7, <2>8, <2>10, <2>11
    <3>2. SubSeq(raw, 1, h) = [i \in 1 .. h |-> raw[i]]
      BY <3>1
    <3>3. \A i \in 1 .. h : raw[i] = i - 1
      BY <2>2, <2>9, <3>1
    <3>4. Bytes(0, 0 + h) = [i \in 1 .. h |-> i - 1]
      <4>1. (0 + h) - 0 = h /\ \A i \in 1 .. h : 0 + i - 1 = i - 1
        BY <3>1
      <4> QED
        BY <4>1 DEF Bytes
    <3> DEFINE m == k - h + 1
    <3>5. m \in Nat /\ m >= 1 /\ 1 + k - m = h
      BY <2>2, <2>3, <2>7, <2>10, <3>1
    <3> HIDE DEF k
    <3>6. SubSeq(raw, m, k) = [i \in 1 .. h |-> raw[i + m - 1]]
      <4> HIDE DEF m
      <4> QED
        BY <2>10, <3>5
    <3>7. ASSUME NEW i \in 1 .. h PROVE raw[i + m - 1] = n - h + i - 1
      <4> DEFINE j == (n - u) - h + i
      <4>1. j \in 1 .. (n - u) /\ i + m - 1 = d + j /\ u + j - 1 = n - h + i - 1
        BY <2>2, <2>3, <2>7, <3>1 DEF k
      <4> HIDE DEF j
      <4> QED
        BY <2>9, <4>1
    <3>8. Bytes(n - h, n) = [i \in 1 .. h |-> n - h + i - 1]
      <4>1. n - (n - h) = h
        BY <2>7, <3>1
      <4> QED
        BY <4>1 DEF Bytes
    <3>9. SubSeq(raw, 1, h) = Bytes(0, 0 + h)
      BY <3>2, <3>3, <3>4
    <3>10. SubSeq(raw, m, k) = Bytes(n - h, n)
      <4> HIDE DEF m
      <4> QED
        BY <3>6, <3>7, <3>8
    <3> QED
      BY <2>8, <3>9, <3>10
  <2>12. ~ (header + Len(raw) <= PreviewLimit)
    <3>1. header \in Nat
      BY RangeAssumption
    <3> QED
      BY <1>1, <2>8, <2>10, <3>1
  <2>13. ShowsEnds(raw, 0, n)
    <3>1. PreviewLimit < n - 0
      BY <2>7
    <3> QED
      BY <2>8, <2>11, <2>12, <3>1 DEF ShowsEnds
  <2> QED
    BY <2>4, <2>13 DEF raw, n
<1> QED
  BY <1>2, <1>3

-------------------------------------------------------------------------------
(* Pages.                                                                  *)

\* The offset that was asked for, moved back to the start of its character.
LEMMA StartIs ==
  ASSUME TextOk, NEW asked \in 0 .. text.size
  PROVE  /\ StartOf(asked) \in Boundaries /\ StartOf(asked) <= asked
         /\ asked < text.size => StartOf(asked) = First(asked)
         /\ asked \in Boundaries => StartOf(asked) = asked
<1>1. /\ text.size \in Nat /\ asked \in Nat /\ asked <= text.size
      /\ text.size \in Boundaries
  BY BoundariesAre
<1>2. CASE asked = text.size
  <2>1. StartOf(asked) = asked
    BY <1>2 DEF StartOf
  <2> QED
    BY <1>1, <1>2, <2>1
<1>3. CASE asked # text.size
  <2> DEFINE window == IF asked < 3 THEN 0 ELSE asked - 3
             S == {b \in window .. asked : b = window \/ b \in text.starts}
  <2>1. asked \in 0 .. (text.size - 1) /\ asked < text.size
    BY <1>1, <1>3
  <2>2. /\ First(asked) \in text.starts /\ First(asked) \in Nat /\ First(asked) <= asked
        /\ \A c \in Boundaries : c <= asked => c <= First(asked)
        /\ Following(asked) \in Nat /\ asked < Following(asked)
        /\ Following(asked) <= First(asked) + 4
    BY <2>1, CharacterOf
  <2>3. window \in Nat /\ window <= First(asked)
    BY <1>1, <2>2
  <2>4. StartOf(asked) = Max(S)
    BY <1>3 DEF StartOf
  <2> HIDE DEF window
  <2>5. First(asked) \in window .. asked
    BY <1>1, <2>2, <2>3
  <2>6. \A b \in window .. asked : b \in 0 .. asked
    BY <1>1, <2>3
  <2>7. S \subseteq 0 .. asked /\ First(asked) \in S
    BY <2>2, <2>5, <2>6
  <2>8. \A b \in S : b <= First(asked)
    <3>1. \A b \in window .. asked : b \in Nat /\ b <= asked
      BY <1>1, <2>3
    <3> QED
      BY <2>2, <2>3, <3>1 DEF Boundaries
  <2> HIDE DEF S
  <2>9. Max(S) \in S /\ Max(S) \in Nat /\ \A m \in S : m <= Max(S)
    BY <1>1, <2>7, MaxIs
  <2>10. Max(S) = First(asked)
    BY <2>2, <2>7, <2>8, <2>9
  <2>11. asked \in Boundaries => First(asked) = asked
    BY <1>1, <2>2
  <2> QED
    BY <2>2, <2>4, <2>10, <2>11 DEF Boundaries
<1> QED
  BY <1>2, <1>3

\* Where a page ends that begins at a boundary.
Reach(start, limit) == IF start + limit < text.size THEN start + limit ELSE text.size
EndOf(start, limit) == Down(Reach(start, limit))

LEMMA CutIs ==
  ASSUME TextOk, NEW start \in Boundaries, NEW limit \in Limits
  PROVE  /\ EndOf(start, limit) \in Boundaries /\ start <= EndOf(start, limit)
         /\ EndOf(start, limit) <= start + limit
         /\ Cut(start, limit) = Bytes(start, EndOf(start, limit))
         /\ Len(Cut(start, limit)) = EndOf(start, limit) - start
<1> DEFINE r == Reach(start, limit)
           e == EndOf(start, limit)
<1>1. /\ text.size \in Nat /\ start \in 0 .. text.size /\ start \in Nat /\ limit \in Nat
  BY BoundariesAre, RangeAssumption
<1>2. r \in 0 .. text.size /\ start <= r /\ r <= start + limit
  BY <1>1 DEF Reach
<1>3. Cut(start, limit) = Decode(Bytes(start, r))
  BY DEF Cut, Reach
<1>4. e = Down(r)
  BY DEF EndOf
<1> HIDE DEF r, e
<1>5. Decode(Bytes(start, r)) = Bytes(Up(start), e)
  BY <1>1, <1>2, <1>4, DecodedRun
<1>6. Up(start) = start
  BY <1>1, UpIs
<1>7. /\ e \in Boundaries /\ e \in Nat /\ e <= r
      /\ \A b \in Boundaries : b <= r => b <= e
  BY <1>2, <1>4, DownIs
<1>8. start <= e /\ e <= start + limit
  BY <1>1, <1>2, <1>7
<1>9. Len(Bytes(start, e)) = e - start
  BY <1>1, <1>7, <1>8, BytesAre
<1> QED
  BY <1>3, <1>5, <1>6, <1>7, <1>8, <1>9 DEF e

\* With four bytes or more there is room for the character that was asked for.
LEMMA AskedIsRead ==
  ASSUME TextOk, NEW asked \in 0 .. text.size, asked # text.size, NEW limit \in Limits
  PROVE  asked < EndOf(StartOf(asked), limit)
<1> DEFINE start == StartOf(asked)
           r == Reach(start, limit)
<1>1. text.size \in Nat /\ asked \in Nat /\ asked < text.size /\ asked \in 0 .. (text.size - 1)
  BY BoundariesAre
<1>2. limit \in Nat /\ 4 <= limit
  BY RangeAssumption
<1>3. /\ First(asked) \in Nat /\ First(asked) <= asked
      /\ Following(asked) \in Boundaries /\ Following(asked) \in Nat /\ asked < Following(asked)
      /\ Following(asked) <= First(asked) + 4
  BY <1>1, CharacterOf
<1>4. start = First(asked)
  BY <1>1, StartIs
<1>5. Following(asked) \in 0 .. text.size
  BY <1>3, BoundariesAre
<1> HIDE DEF start
<1>6. r \in 0 .. text.size /\ Following(asked) <= r
  BY <1>1, <1>2, <1>3, <1>4, <1>5 DEF Reach
<1> HIDE DEF r
<1>7. Down(r) \in Nat /\ Following(asked) <= Down(r)
  BY <1>3, <1>6, DownIs
<1>8. asked < Down(r)
  BY <1>1, <1>3, <1>7
<1> QED
  BY <1>8 DEF EndOf, r, start

-------------------------------------------------------------------------------
(* What holds in every state.                                              *)

\* The reader is between two characters, and has all that lies behind it.
Reader ==
  base \in Boundaries /\ offset \in Boundaries /\ base <= offset /\ got = Bytes(base, offset)

Inv == TextOk /\ header \in Headers /\ Reader /\ PageIsText /\ PreviewIsHonest

LEMMA InitInv == Init => Inv
<1> SUFFICES ASSUME Init PROVE Inv
  OBVIOUS
<1>1. TextOk /\ header \in Headers
  BY TextsAreOk DEF Init
<1>2. 0 \in Boundaries
  BY <1>1, BoundariesAre
<1>3. Bytes(0, 0) = <<>>
  BY DEF Bytes
<1>4. Reader
  BY <1>2, <1>3 DEF Init, Reader
<1>5. PageIsText
  BY DEF Init, PageIsText
<1>6. PreviewIsHonest
  <2>1. ShowsEnds(<<>>, 0, 0)
    BY <1>1, <1>2, <1>3, ShowsRun
  <2>2. Honest(Preview(<<>>), <<>>)
    BY <1>1, <1>2, <1>3, <2>1, PreviewOfRun
  <2>3. shown.preview = Preview(<<>>) /\ shown.of = <<>>
    BY DEF Init
  <2> QED
    BY <2>2, <2>3 DEF PreviewIsHonest, Honest
<1> QED
  BY <1>1, <1>4, <1>5, <1>6 DEF Inv

\* A preview that is honest for the text is so after a step, which leaves the
\* text alone.
DecodeIn(t, bytes) ==
  Selected(bytes, {n \in DOMAIN bytes :
    \A c \in Max({e \in t.starts : e <= bytes[n]})
             .. (Min({e \in t.starts \cup {t.size} : e > bytes[n]}) - 1) :
      \E m \in DOMAIN bytes : bytes[m] = c})

LEMMA StaysHonest ==
  ASSUME text' = text, Honest(shown'.preview, shown'.of)
  PROVE  PreviewIsHonest'
<1> DEFINE p == shown'.preview
<1>1. Decode(p.head) = DecodeIn(text, p.head) /\ Decode(p.tail) = DecodeIn(text, p.tail)
  BY DEF Decode, DecodeIn, First, Following
<1>2. Decode(shown.preview.head)' = DecodeIn(text', p.head)
  BY DEF Decode, DecodeIn, First, Following
<1>3. Decode(shown.preview.tail)' = DecodeIn(text', p.tail)
  BY DEF Decode, DecodeIn, First, Following
<1>4. Decode(shown.preview.head)' = Decode(p.head) /\ Decode(shown.preview.tail)' = Decode(p.tail)
  BY <1>1, <1>2, <1>3
<1> HIDE DEF p
<1> QED
  BY <1>4 DEF PreviewIsHonest, Honest, p

\* The parts of the invariant that speak of the text alone.
LEMMA TextStays ==
  ASSUME Inv, UNCHANGED <<text, header>>
  PROVE  TextOk' /\ header' \in Headers /\ Boundaries' = Boundaries
  BY DEF Inv, TextOk, Boundaries

\* A page of Inv's states: where it lies, and that it is shown as it should be.
LEMMA PageMoves ==
  ASSUME Inv, NEW asked \in 0 .. text.size, NEW limit \in Limits, Page(asked, limit)
  PROVE  /\ TextOk' /\ header' \in Headers /\ Boundaries' = Boundaries
         /\ StartOf(asked) \in Boundaries /\ offset' \in Boundaries /\ StartOf(asked) <= offset'
         /\ page'.start = StartOf(asked) /\ page'.bytes = Bytes(StartOf(asked), offset')
         /\ PageIsText' /\ PreviewIsHonest'
<1> DEFINE start == StartOf(asked)
           e == EndOf(start, limit)
           bytes == Cut(start, limit)
<1>1. TextOk /\ header \in Headers
  BY DEF Inv
<1>2. /\ page' = [asked |-> asked, limit |-> limit, start |-> start, bytes |-> bytes,
                  eof |-> start + Len(bytes) = text.size]
      /\ offset' = start + Len(bytes)
      /\ shown' = [preview |-> Preview(bytes), of |-> bytes]
      /\ UNCHANGED <<text, header>>
  BY DEF Page
<1>3. TextOk' /\ header' \in Headers /\ Boundaries' = Boundaries
  BY <1>2, TextStays
<1>4. start \in Boundaries /\ start <= asked
  BY <1>1, StartIs
<1>5. /\ e \in Boundaries /\ start <= e /\ e <= start + limit
      /\ bytes = Bytes(start, e) /\ Len(bytes) = e - start
  BY <1>1, <1>4, CutIs
<1>6. asked # text.size => asked < e
  BY <1>1, AskedIsRead
<1>7. /\ start \in Nat /\ e \in Nat /\ limit \in Nat /\ asked \in Nat /\ text.size \in Nat
  BY <1>1, <1>4, <1>5, BoundariesAre, RangeAssumption
<1> HIDE DEF start, e, bytes
<1>8. Honest(Preview(bytes), bytes)
  <2>1. ShowsEnds(Bytes(start, e), start, e)
    BY <1>1, <1>4, <1>5, ShowsRun
  <2> QED
    BY <1>1, <1>4, <1>5, <2>1, PreviewOfRun
<1>9. PreviewIsHonest'
  <2>1. shown'.preview = Preview(bytes) /\ shown'.of = bytes
    BY <1>2
  <2> QED
    BY <1>2, <1>8, <2>1, StaysHonest
<1>10. offset' = e
  BY <1>2, <1>5, <1>7
<1>11. /\ page'.asked = asked /\ page'.limit = limit /\ page'.start = start
       /\ page'.bytes = bytes /\ page'.eof = (start + Len(bytes) = text.size)
  BY <1>2
<1>12. PageIsText'
  <2>1. Len(bytes) <= limit /\ start + Len(bytes) = e
    BY <1>5, <1>7
  <2>2. start \in text'.starts \cup {text'.size} /\ e \in text'.starts \cup {text'.size}
    BY <1>3, <1>4, <1>5 DEF Boundaries
  <2>3. asked = text.size \/ \E n \in DOMAIN bytes : bytes[n] = asked
    <3>1. CASE asked < e
      <4>1. asked - start + 1 \in 1 .. (e - start) /\ start + (asked - start + 1) - 1 = asked
        BY <1>4, <1>7, <3>1
      <4>2. DOMAIN bytes = 1 .. (e - start) /\ bytes[asked - start + 1] = asked
        BY <1>5, <1>7, <4>1, BytesAre
      <4> QED
        BY <4>1, <4>2
    <3> QED
      BY <1>6, <3>1
  <2>4. text'.size = text.size
    BY <1>2
  <2> QED
    BY <1>11, <2>1, <2>2, <2>3, <2>4 DEF PageIsText, Boundary
<1> QED
  BY <1>3, <1>4, <1>5, <1>9, <1>10, <1>11, <1>12 DEF start

LEMMA JoinedRuns ==
  ASSUME NEW a \in Nat, NEW b \in Nat, NEW c \in Nat, a <= b, b <= c
  PROVE  Bytes(a, b) \o Bytes(b, c) = Bytes(a, c)
<1> DEFINE x == Bytes(a, b)
           y == Bytes(b, c)
           s == x \o y
           z == Bytes(a, c)
<1>1. /\ x \in Seq(Nat) /\ Len(x) = b - a /\ \A i \in 1 .. (b - a) : x[i] = a + i - 1
      /\ y \in Seq(Nat) /\ Len(y) = c - b /\ \A i \in 1 .. (c - b) : y[i] = b + i - 1
  BY BytesAre
<1>2. /\ a <= c /\ (b - a) + (c - b) = c - a
  OBVIOUS
<1>3. z \in Seq(Nat) /\ Len(z) = c - a /\ \A i \in 1 .. (c - a) : z[i] = a + i - 1
  BY <1>2, BytesAre
<1> HIDE DEF x, y, z
<1>4. /\ s \in Seq(Nat) /\ Len(s) = (b - a) + (c - b)
      /\ \A i \in 1 .. (b - a) : s[i] = x[i]
      /\ \A i \in 1 .. (c - b) : s[(b - a) + i] = y[i]
  <2>1. /\ s \in Seq(Nat) /\ Len(s) = Len(x) + Len(y)
        /\ \A i \in 1 .. Len(x) : s[i] = x[i]
        /\ \A i \in 1 .. Len(y) : s[Len(x) + i] = y[i]
    <3>1. x \in Seq(Nat) /\ y \in Seq(Nat)
      BY <1>1
    <3> QED
      BY ONLY <3>1, Joined
  <2>2. Len(x) = b - a /\ Len(y) = c - b
    BY <1>1
  <2> QED
    BY ONLY <2>1, <2>2
<1> HIDE DEF s
<1>5. ASSUME NEW i \in 1 .. (c - a) PROVE s[i] = a + i - 1
  <2>1. CASE i <= b - a
    <3>1. i \in 1 .. (b - a)
      BY <2>1
    <3> QED
      BY <1>1, <1>4, <3>1
  <2>2. CASE ~ (i <= b - a)
    <3> DEFINE j == i - (b - a)
    <3>1. j \in 1 .. (c - b) /\ (b - a) + j = i /\ b + j - 1 = a + i - 1
      BY <2>2
    <3> HIDE DEF j
    <3> QED
      BY <1>1, <1>4, <3>1
  <2> QED
    BY <2>1, <2>2
<1>6. s = z
  BY <1>2, <1>3, <1>4, <1>5
<1> QED
  BY <1>6 DEF s, x, y, z

LEMMA NextInv == Inv /\ [Next]_vars => Inv'
<1> SUFFICES ASSUME Inv, [Next]_vars PROVE Inv'
  OBVIOUS
<1>1. TextOk /\ header \in Headers /\ Reader /\ PageIsText /\ PreviewIsHonest
  BY DEF Inv
<1>2. /\ text.size \in Nat /\ Boundaries \subseteq 0 .. text.size
      /\ 0 \in Boundaries /\ text.size \in Boundaries
  BY <1>1, BoundariesAre
<1>3. CASE ReadFull
  <2>1. /\ shown' = [preview |-> Preview(Edges), of |-> Bytes(0, text.size)]
        /\ page' = NoPage /\ UNCHANGED <<text, header, base, offset, got>>
    BY <1>3 DEF ReadFull
  <2>2. TextOk' /\ header' \in Headers /\ Boundaries' = Boundaries
    BY <2>1, TextStays
  <2>3. Reader'
    BY <1>1, <2>1, <2>2 DEF Reader, Bytes
  <2>4. PageIsText'
    BY <2>1 DEF PageIsText, NoPage
  <2>5. Honest(Preview(Edges), Bytes(0, text.size))
    <3>1. ShowsEnds(Edges, 0, text.size)
      BY <1>1, ShowsEdges
    <3>2. 0 <= text.size
      BY <1>2
    <3> QED
      BY <1>1, <1>2, <3>1, <3>2, PreviewOfRun
  <2>6. PreviewIsHonest'
    <3>1. shown'.preview = Preview(Edges) /\ shown'.of = Bytes(0, text.size) /\ text' = text
      BY <2>1
    <3> QED
      BY <2>5, <3>1, StaysHonest
  <2> QED
    BY <2>2, <2>3, <2>4, <2>6 DEF Inv
<1>4. ASSUME NEW limit \in Limits, Follow(limit) PROVE Inv'
  <2>1. Page(offset, limit) /\ got' = got \o page'.bytes /\ base' = base
    BY <1>4 DEF Follow
  <2>2. offset \in 0 .. text.size /\ offset \in Boundaries
    BY <1>1, <1>2 DEF Reader
  <2>3. StartOf(offset) = offset
    BY <1>1, <2>2, StartIs
  <2>4. /\ TextOk' /\ header' \in Headers /\ Boundaries' = Boundaries
        /\ offset' \in Boundaries /\ offset <= offset'
        /\ page'.bytes = Bytes(offset, offset') /\ PageIsText' /\ PreviewIsHonest'
    BY <2>1, <2>2, <2>3, PageMoves
  <2>5. base \in Nat /\ offset \in Nat /\ offset' \in Nat /\ base <= offset
    BY <1>1, <1>2, <2>2, <2>4 DEF Reader
  <2>6. got' = Bytes(base, offset')
    BY <1>1, <2>1, <2>4, <2>5, JoinedRuns DEF Reader
  <2>7. base \in Boundaries /\ base <= offset'
    BY <1>1, <2>4, <2>5 DEF Reader
  <2>8. Reader'
    BY <2>1, <2>4, <2>6, <2>7 DEF Reader, Bytes
  <2> QED
    BY <2>4, <2>8 DEF Inv
<1>5. ASSUME NEW limit \in Limits, NEW asked \in 0 .. text.size, Jump(asked, limit) PROVE Inv'
  <2>1. Page(asked, limit) /\ got' = page'.bytes /\ base' = page'.start
    BY <1>5 DEF Jump
  <2>2. /\ TextOk' /\ header' \in Headers /\ Boundaries' = Boundaries
        /\ StartOf(asked) \in Boundaries /\ offset' \in Boundaries /\ StartOf(asked) <= offset'
        /\ page'.start = StartOf(asked) /\ page'.bytes = Bytes(StartOf(asked), offset')
        /\ PageIsText' /\ PreviewIsHonest'
    BY <2>1, PageMoves
  <2>3. Reader'
    <3>1. got' = Bytes(base', offset') /\ base' \in Boundaries /\ base' <= offset'
      BY <2>1, <2>2
    <3> QED
      BY <2>2, <3>1 DEF Reader, Bytes
  <2> QED
    BY <2>2, <2>3 DEF Inv
<1>6. CASE UNCHANGED vars
  <2>1. UNCHANGED <<text, header, base, offset, got, page, shown>>
    BY <1>6 DEF vars
  <2>2. TextOk' /\ header' \in Headers /\ Boundaries' = Boundaries
    BY <2>1, TextStays
  <2>3. Reader'
    BY <1>1, <2>1, <2>2 DEF Reader, Bytes
  <2>4. PageIsText'
    BY <1>1, <2>1 DEF PageIsText, Boundary
  <2>5. PreviewIsHonest'
    <3>1. Honest(shown.preview, shown.of)
      BY <1>1 DEF PreviewIsHonest, Honest
    <3> QED
      BY <2>1, <3>1, StaysHonest
  <2> QED
    BY <2>2, <2>3, <2>4, <2>5 DEF Inv
<1>7. CASE Next
  BY <1>3, <1>4, <1>5, <1>7, Zenon DEF Next
<1> QED
  BY <1>6, <1>7

LEMMA InvHolds == Spec => []Inv
  BY InitInv, NextInv, PTL DEF Spec

-------------------------------------------------------------------------------
\* Pages read by following next_offset join to the file, for every text, header,
\* limits of at least four bytes and wherever the reader began: the cut at the
\* last whole character and the move back to the first leave no gap
\* (tools/__init__.py:262-303).
THEOREM PagesAlwaysJoin == Spec => []PagesJoin
<1>1. Inv => PagesJoin
  BY DEF Inv, Reader, PagesJoin
<1> QED
  BY <1>1, InvHolds, PTL

\* Every page is a run of whole characters within its limit that holds the byte
\* that was asked for: a limit of four bytes is enough for any character, so a
\* reader never stands still (tools/__init__.py:262-303).
THEOREM PagesAreText == Spec => []PageIsText
<1>1. Inv => PageIsText
  BY DEF Inv
<1> QED
  BY <1>1, InvHolds, PTL

\* A preview keeps to PREVIEW_LIMIT, and what it shows is the beginning and the
\* end of what was read, in whole characters and without overlap, also where
\* read() kept no more than the edges of the file (tools/__init__.py:249-297).
THEOREM PreviewsAreHonest == Spec => []PreviewIsHonest
<1>1. Inv => PreviewIsHonest
  BY DEF Inv
<1> QED
  BY <1>1, InvHolds, PTL

==============================================================================
