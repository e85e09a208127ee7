------------------------- MODULE FrameChannelProofs -------------------------
(***************************************************************************)
(* Proofs about FrameChannel, for any frames, sizes and number of          *)
(* connections.                                                            *)
(*                                                                         *)
(* Two accounts are kept over every step.  Of the bytes an end has sent,   *)
(* each is on the wire, owed by the peer as an acknowledge, or             *)
(* acknowledged and not counted yet (Unread); the end's count is that sum  *)
(* on the first connection, and the client's is never less.  Of the data   *)
(* of the frames an end has queued there is one line of units (Line): what *)
(* the server's handlers of earlier connections have taken or can still    *)
(* take, one handler after the other, then what the peer's handler has     *)
(* taken, has read, has on its wire, and what the end has not written.  A  *)
(* frame taken stands there as its last unit.  The line is always in the   *)
(* order of the frames (Ordered): a step appends a frame at its end, or    *)
(* leaves out some of it where it stands, whichever handler takes the      *)
(* step.  On the first connection nothing is left out (Whole, Part).       *)
(*                                                                         *)
(* The first part is about sequences: sums, concatenations, the order of   *)
(* units.  The second says what each function of the handler does to both  *)
(* accounts, the third what each action does to the invariant.             *)
(***************************************************************************)
EXTENDS FrameChannel, NatLemmas, SequenceTheorems, TLAPS

\* Concatenation is associative, in a form that is easy to use.
Assoc(S) == \A x, y, z \in Seq(S) : (x \o y) \o z = x \o (y \o z)

LEMMA Associative == \A S : Assoc(S)
BY ConcatAssociative DEF Assoc

(***************************************************************************)
(* Sums.                                                                   *)
(***************************************************************************)
\* What a sequence adds up to after each of its numbers.
Sums(g, ns) ==
  /\ g \in [0 .. Len(ns) -> Nat]
  /\ g[0] = 0
  /\ \A n \in 1 .. Len(ns) : g[n] = g[n - 1] + ns[n]

\* The sums are a function by recursion over the numbers.
LEMMA SumsExist == ASSUME NEW ns \in Seq(Nat) PROVE \E g : Sums(g, ns)
<1> DEFINE L == Len(ns)
           step == [p \in Nat \X Nat |-> IF p[1] \in 1 .. L THEN p[2] + ns[p[1]] ELSE 0]
<1>1. L \in Nat /\ \A n \in 1 .. L : ns[n] \in Nat BY ElementOfSeq, LenProperties
<1>2. step \in Steps(Nat) BY <1>1 DEF Steps
<1>3. \A n \in 1 .. L, v \in Nat : step[<<n, v>>] = v + ns[n] BY <1>1
<1> HIDE DEF step
<1>4. PICK g \in [0 .. L -> Nat] : Recurs(g, L, 0, step) BY <1>1, <1>2, RangeRecursive
<1>5. ASSUME NEW n \in 1 .. L PROVE g[n] = g[n - 1] + ns[n]
  <2>1. n - 1 \in 0 .. L BY <1>1
  <2>2. g[n - 1] \in Nat BY <2>1
  <2> QED BY <1>3, <1>4, <2>2 DEF Recurs
<1> QED BY <1>4, <1>5 DEF Sums, Recurs

\* Total is the last of the sums.
LEMMA TotalIs ==
  ASSUME NEW ns \in Seq(Nat), NEW h, Sums(h, ns)
  PROVE  Total(ns) = h[Len(ns)]
<1> DEFINE L == Len(ns)
           Eq(g) == g = [n \in 0 .. L |-> IF n = 0 THEN 0 ELSE g[n - 1] + ns[n]]
           sum == CHOOSE g : Eq(g)
           T == {n \in Nat : n <= L => sum[n] = h[n]}
<1>0. L \in Nat BY LenProperties
<1>1. Eq(h)
  <2>1. \A n \in 0 .. L : h[n] = IF n = 0 THEN 0 ELSE h[n - 1] + ns[n] BY <1>0 DEF Sums
  <2>2. h = [n \in 0 .. L |-> h[n]] BY DEF Sums
  <2> QED BY <2>1, <2>2
<1>2. Eq(sum)
  <2> HIDE DEF Eq
  <2> QED BY <1>1
<1>3. Total(ns) = sum[L] BY DEF Total
<1>4. \A n \in 0 .. L : sum[n] = IF n = 0 THEN 0 ELSE sum[n - 1] + ns[n]
  <2> HIDE DEF sum
  <2> QED BY <1>2
<1> HIDE DEF sum, Eq
<1>5. 0 \in T BY <1>0, <1>4 DEF Sums
<1>6. ASSUME NEW n \in T PROVE n + 1 \in T
  <2> SUFFICES ASSUME n + 1 <= L PROVE sum[n + 1] = h[n + 1] OBVIOUS
  <2>1. n + 1 \in 1 .. L /\ n + 1 \in 0 .. L /\ (n + 1) - 1 = n /\ n + 1 # 0 BY <1>0
  <2>2. sum[n + 1] = sum[n] + ns[n + 1] BY <1>4, <2>1
  <2>3. h[n + 1] = h[n] + ns[n + 1] BY <2>1 DEF Sums
  <2>4. sum[n] = h[n] BY <1>0
  <2> QED BY <2>2, <2>3, <2>4
<1>7. T \in SUBSET Nat OBVIOUS
<1> HIDE DEF T
<1>8. T = Nat BY <1>5, <1>6, <1>7, NatInductive
<1> QED BY <1>0, <1>3, <1>8 DEF T

LEMMA TotalType == ASSUME NEW ns \in Seq(Nat) PROVE Total(ns) \in Nat
<1>1. PICK g : Sums(g, ns) BY SumsExist
<1>2. Len(ns) \in 0 .. Len(ns) BY LenProperties
<1> QED BY <1>1, <1>2, TotalIs DEF Sums

LEMMA TotalNone == Total(<< >>) = 0
<1>1. << >> \in Seq(Nat) /\ Len(<< >>) = 0 OBVIOUS
<1>2. Sums([n \in 0 .. 0 |-> 0], << >>) BY <1>1 DEF Sums
<1> QED BY <1>1, <1>2, TotalIs

\* The numbers of two sequences one after the other.
LEMMA TotalConcat ==
  ASSUME NEW s \in Seq(Nat), NEW t \in Seq(Nat)
  PROVE  Total(s \o t) = Total(s) + Total(t)
<1> DEFINE L == Len(s)
           M == Len(t)
<1>0. L \in Nat /\ M \in Nat BY LenProperties
<1>1. PICK g : Sums(g, s) BY SumsExist
<1>2. PICK h : Sums(h, t) BY SumsExist
<1>3. /\ s \o t \in Seq(Nat) /\ Len(s \o t) = L + M
      /\ \A i \in 1 .. L + M : (s \o t)[i] = IF i <= L THEN s[i] ELSE t[i - L]
  BY ConcatProperties
<1> DEFINE k == [n \in 0 .. L + M |-> IF n <= L THEN g[n] ELSE g[L] + h[n - L]]
<1>4. /\ g \in [0 .. L -> Nat] /\ g[0] = 0
      /\ \A n \in 1 .. L : g[n] = g[n - 1] + s[n] BY <1>1 DEF Sums
<1>5. /\ h \in [0 .. M -> Nat] /\ h[0] = 0
      /\ \A n \in 1 .. M : h[n] = h[n - 1] + t[n] BY <1>2 DEF Sums
<1> HIDE DEF L, M
<1>6. g[L] \in Nat BY <1>0, <1>4
<1>7. k \in [0 .. L + M -> Nat]
  <2>1. ASSUME NEW n \in 0 .. L + M PROVE (IF n <= L THEN g[n] ELSE g[L] + h[n - L]) \in Nat
    <3>1. CASE n <= L
      <4>1. n \in 0 .. L BY <3>1, <1>0
      <4> QED BY <3>1, <4>1, <1>4
    <3>2. CASE ~(n <= L)
      <4>1. n - L \in 0 .. M BY <3>2, <1>0
      <4>2. h[n - L] \in Nat BY <4>1, <1>5
      <4> QED BY <3>2, <4>2, <1>6
    <3> QED BY <3>1, <3>2
  <2> QED BY <2>1
<1>8. \A n \in 0 .. L : k[n] = g[n] BY <1>0
<1>9. \A n \in 0 .. M : k[L + n] = g[L] + h[n]
  <2> SUFFICES ASSUME NEW n \in 0 .. M PROVE k[L + n] = g[L] + h[n] OBVIOUS
  <2>1. CASE n = 0 BY <2>1, <1>0, <1>5, <1>6
  <2>2. CASE n # 0
    <3>1. L + n \in 0 .. L + M /\ ~(L + n <= L) /\ (L + n) - L = n BY <2>2, <1>0
    <3> QED BY <3>1
  <2> QED BY <2>1, <2>2
<1> HIDE DEF k
<1>10. ASSUME NEW n \in 1 .. L + M PROVE k[n] = k[n - 1] + (s \o t)[n]
  <2>1. CASE n <= L
    <3>1. n \in 1 .. L /\ n \in 0 .. L /\ n - 1 \in 0 .. L BY <2>1, <1>0
    <3>2. k[n] = g[n] /\ k[n - 1] = g[n - 1] BY <3>1, <1>8
    <3>3. (s \o t)[n] = s[n] BY <2>1, <1>3
    <3> QED BY <3>1, <3>2, <3>3, <1>4
  <2>2. CASE ~(n <= L)
    <3> DEFINE j == n - L
    <3>1. j \in 1 .. M /\ j \in 0 .. M /\ j - 1 \in 0 .. M /\ L + j = n /\ L + (j - 1) = n - 1
      BY <2>2, <1>0
    <3>2. (s \o t)[n] = t[j] BY <2>2, <1>3
    <3> HIDE DEF j
    <3>3. k[n] = g[L] + h[j] /\ k[n - 1] = g[L] + h[j - 1] BY <3>1, <1>9
    <3>4. h[j] = h[j - 1] + t[j] BY <3>1, <1>5
    <3>5. h[j - 1] \in Nat /\ h[j] \in Nat BY <3>1, <1>5
    <3>6. t[j] \in Nat BY <3>1, ElementOfSeq DEF M
    <3>7. g[L] \in Nat BY <1>6
    <3> DEFINE x == g[L]
               y == h[j - 1]
               z == t[j]
    <3>8. k[n] = x + (y + z) /\ k[n - 1] = x + y BY <3>3, <3>4
    <3>9. x \in Nat /\ y \in Nat /\ z \in Nat BY <3>5, <3>6, <3>7
    <3> HIDE DEF x, y, z
    <3>10. x + (y + z) = (x + y) + z BY <3>9
    <3> QED BY <3>2, <3>8, <3>10 DEF z
  <2> QED BY <2>1, <2>2
<1>11. k[0] = 0 BY <1>0, <1>4, <1>8
<1>12. Sums(k, s \o t) BY <1>3, <1>7, <1>10, <1>11 DEF Sums
<1>13. Total(s \o t) = k[L + M] BY <1>3, <1>12, TotalIs
<1>14. Total(s) = g[L] BY <1>1, TotalIs DEF L
<1>15. Total(t) = h[M] BY <1>2, TotalIs DEF M
<1>16. M \in 0 .. M BY <1>0
<1> QED BY <1>9, <1>13, <1>14, <1>15, <1>16

LEMMA TotalOne == ASSUME NEW x \in Nat PROVE Total(<<x>>) = x
<1>1. <<x>> \in Seq(Nat) /\ Len(<<x>>) = 1 /\ <<x>>[1] = x OBVIOUS
<1> DEFINE g == [n \in 0 .. 1 |-> IF n = 0 THEN 0 ELSE x]
<1>2. Sums(g, <<x>>) BY <1>1 DEF Sums
<1>3. g[1] = x OBVIOUS
<1> QED BY <1>1, <1>2, <1>3, TotalIs

(***************************************************************************)
(* Sequences of sequences, one after the other.                            *)
(***************************************************************************)
Flats(g, ss, S) ==
  /\ g \in [0 .. Len(ss) -> Seq(S)]
  /\ g[0] = << >>
  /\ \A n \in 1 .. Len(ss) : g[n] = g[n - 1] \o ss[n]

LEMMA FlatsExist == ASSUME NEW S, NEW ss \in Seq(Seq(S)) PROVE \E g : Flats(g, ss, S)
<1> DEFINE L == Len(ss)
           step == [p \in Nat \X Seq(S) |-> IF p[1] \in 1 .. L THEN p[2] \o ss[p[1]] ELSE << >>]
<1>1. L \in Nat /\ \A n \in 1 .. L : ss[n] \in Seq(S) BY ElementOfSeq, LenProperties
<1>2. step \in Steps(Seq(S))
  <2> SUFFICES ASSUME NEW p \in Nat \X Seq(S)
               PROVE  (IF p[1] \in 1 .. L THEN p[2] \o ss[p[1]] ELSE << >>) \in Seq(S)
    BY DEF Steps
  <2>1. p[2] \in Seq(S) /\ << >> \in Seq(S) OBVIOUS
  <2>2. ASSUME p[1] \in 1 .. L PROVE p[2] \o ss[p[1]] \in Seq(S)
    BY <1>1, <2>1, <2>2, ConcatProperties
  <2> QED BY <2>1, <2>2
<1>3. ASSUME NEW n \in 1 .. L, NEW v \in Seq(S) PROVE step[<<n, v>>] = v \o ss[n]
  <2>1. <<n, v>> \in Nat \X Seq(S) /\ <<n, v>>[1] = n /\ <<n, v>>[2] = v BY <1>1
  <2> QED BY <2>1
<1> HIDE DEF step
<1>4. << >> \in Seq(S) OBVIOUS
<1>5. PICK g \in [0 .. L -> Seq(S)] : Recurs(g, L, << >>, step)
  BY <1>1, <1>2, <1>4, RangeRecursive
<1>6. ASSUME NEW n \in 1 .. L PROVE g[n] = g[n - 1] \o ss[n]
  <2>1. n - 1 \in 0 .. L BY <1>1
  <2>2. g[n - 1] \in Seq(S) BY <2>1
  <2> QED BY <1>3, <1>5, <2>2 DEF Recurs
<1> QED BY <1>5, <1>6 DEF Flats, Recurs

\* FlattenSeq is the last of the concatenations.
LEMMA FlattenIs ==
  ASSUME NEW S, NEW ss \in Seq(Seq(S)), NEW h, Flats(h, ss, S)
  PROVE  FlattenSeq(ss) = h[Len(ss)]
<1> DEFINE L == Len(ss)
           Eq(g) == g = [n \in 1 .. L |-> IF n = 1 THEN ss[n] ELSE g[n - 1] \o ss[n]]
           flatten == CHOOSE g : Eq(g)
           k == [n \in 1 .. L |-> h[n]]
           T == {n \in Nat : n + 1 <= L => flatten[n + 1] = h[n + 1]}
<1>0. L \in Nat BY LenProperties
<1>1. CASE L = 0
  <2>1. ss = << >> BY <1>1, LenProperties
  <2>2. FlattenSeq(ss) = ss BY <1>1 DEF FlattenSeq
  <2> QED BY <1>1, <2>1, <2>2 DEF Flats
<1>2. CASE L # 0
  <2>0. h[0] = << >> /\ \A n \in 0 .. L : h[n] \in Seq(S) BY DEF Flats
  <2>1. ASSUME NEW n \in 1 .. L
        PROVE  k[n] = IF n = 1 THEN ss[n] ELSE k[n - 1] \o ss[n]
    <3>1. h[n] = h[n - 1] \o ss[n] BY DEF Flats
    <3>2. CASE n = 1
      <4>1. ss[1] \in Seq(S) BY <1>0, <1>2, ElementOfSeq
      <4>2. << >> \o ss[1] = ss[1] BY <4>1, ConcatEmptySeq
      <4>3. h[n - 1] = << >> BY <2>0, <3>2
      <4>4. h[n] = ss[1]
        <5> HIDE DEF L
        <5> QED BY <3>1, <3>2, <4>2, <4>3
      <4>5. k[n] = h[n] OBVIOUS
      <4> QED BY <3>2, <4>4, <4>5
    <3>3. CASE n # 1
      <4>1. n - 1 \in 1 .. L BY <3>3, <1>0
      <4> QED BY <3>1, <3>3, <4>1
    <3> QED BY <3>2, <3>3
  <2>2. Eq(k) BY <2>1
  <2>3. Eq(flatten)
    <3> HIDE DEF Eq, k
    <3> QED BY <2>2
  <2>4. FlattenSeq(ss) = flatten[L] BY <1>2 DEF FlattenSeq
  <2>5. \A n \in 1 .. L : flatten[n] = IF n = 1 THEN ss[n] ELSE flatten[n - 1] \o ss[n]
    <3> HIDE DEF flatten
    <3> QED BY <2>3
  <2>6. \A n \in 1 .. L : h[n] = IF n = 1 THEN ss[n] ELSE h[n - 1] \o ss[n]
    <3> SUFFICES ASSUME NEW n \in 1 .. L
                 PROVE  h[n] = IF n = 1 THEN ss[n] ELSE h[n - 1] \o ss[n]
      OBVIOUS
    <3>1. k[n] = h[n] OBVIOUS
    <3>2. n # 1 => k[n - 1] = h[n - 1] BY <1>0
    <3> HIDE DEF k
    <3> QED BY <2>1, <3>1, <3>2
  <2> HIDE DEF flatten, Eq, k
  <2>7. 0 \in T BY <1>0, <1>2, <2>5, <2>6
  <2>8. ASSUME NEW n \in T PROVE n + 1 \in T
    <3> SUFFICES ASSUME (n + 1) + 1 <= L PROVE flatten[(n + 1) + 1] = h[(n + 1) + 1] OBVIOUS
    <3> DEFINE m == (n + 1) + 1
    <3>1. m \in 1 .. L /\ m # 1 /\ m - 1 = n + 1 /\ n + 1 <= L BY <1>0
    <3>2. flatten[n + 1] = h[n + 1] BY <3>1
    <3> HIDE DEF m
    <3>3. flatten[m] = flatten[n + 1] \o ss[m] BY <2>5, <3>1
    <3>4. h[m] = h[n + 1] \o ss[m] BY <2>6, <3>1
    <3> QED BY <3>2, <3>3, <3>4 DEF m
  <2>9. T \in SUBSET Nat OBVIOUS
  <2> HIDE DEF T
  <2>10. T = Nat BY <2>7, <2>8, <2>9, NatInductive
  <2>11. L - 1 \in T /\ (L - 1) + 1 = L BY <1>0, <1>2, <2>10
  <2> QED BY <2>4, <2>11 DEF T
<1> QED BY <1>1, <1>2

LEMMA FlattenType ==
  ASSUME NEW S, NEW ss \in Seq(Seq(S)) PROVE FlattenSeq(ss) \in Seq(S)
<1>1. PICK g : Flats(g, ss, S) BY FlatsExist
<1>2. Len(ss) \in 0 .. Len(ss) BY LenProperties
<1> QED BY <1>1, <1>2, FlattenIs DEF Flats

LEMMA FlattenNone == FlattenSeq(<< >>) = << >>
BY DEF FlattenSeq

LEMMA FlattenOne == ASSUME NEW S, NEW s \in Seq(S) PROVE FlattenSeq(<<s>>) = s
<1>1. <<s>> \in Seq(Seq(S)) /\ Len(<<s>>) = 1 /\ <<s>>[1] = s OBVIOUS
<1> DEFINE g == [n \in 0 .. 1 |-> IF n = 0 THEN << >> ELSE s]
<1>2. << >> \o s = s /\ << >> \in Seq(S) BY ConcatEmptySeq
<1>3. g[0] = << >> /\ g[1] = s /\ g \in [0 .. 1 -> Seq(S)] BY <1>2
<1>4. Flats(g, <<s>>, S)
  <2> HIDE DEF g
  <2>1. \A n \in 1 .. 1 : g[n] = g[n - 1] \o <<s>>[n] BY <1>1, <1>2, <1>3
  <2> QED BY <1>1, <1>3, <2>1 DEF Flats
<1> QED BY <1>1, <1>3, <1>4, FlattenIs

\* Flattening two sequences of sequences one after the other.
LEMMA FlattenConcat ==
  ASSUME NEW S, NEW ss \in Seq(Seq(S)), NEW tt \in Seq(Seq(S))
  PROVE  FlattenSeq(ss \o tt) = FlattenSeq(ss) \o FlattenSeq(tt)
<1> DEFINE L == Len(ss)
           M == Len(tt)
<1>a. Assoc(S) BY Associative
<1>0. L \in Nat /\ M \in Nat BY LenProperties
<1>1. PICK g : Flats(g, ss, S) BY FlatsExist
<1>2. PICK h : Flats(h, tt, S) BY FlatsExist
<1>3. /\ ss \o tt \in Seq(Seq(S)) /\ Len(ss \o tt) = L + M
      /\ \A i \in 1 .. L + M : (ss \o tt)[i] = IF i <= L THEN ss[i] ELSE tt[i - L]
  BY ConcatProperties
<1> DEFINE k == [n \in 0 .. L + M |-> IF n <= L THEN g[n] ELSE g[L] \o h[n - L]]
<1>4. /\ g \in [0 .. L -> Seq(S)] /\ g[0] = << >>
      /\ \A n \in 1 .. L : g[n] = g[n - 1] \o ss[n] BY <1>1 DEF Flats
<1>5. /\ h \in [0 .. M -> Seq(S)] /\ h[0] = << >>
      /\ \A n \in 1 .. M : h[n] = h[n - 1] \o tt[n] BY <1>2 DEF Flats
<1> HIDE DEF L, M
<1>6. g[L] \in Seq(S) BY <1>0, <1>4
<1>7. k \in [0 .. L + M -> Seq(S)]
  <2>1. ASSUME NEW n \in 0 .. L + M PROVE (IF n <= L THEN g[n] ELSE g[L] \o h[n - L]) \in Seq(S)
    <3>1. CASE n <= L
      <4>1. n \in 0 .. L BY <3>1, <1>0
      <4> QED BY <3>1, <4>1, <1>4
    <3>2. CASE ~(n <= L)
      <4>1. n - L \in 0 .. M BY <3>2, <1>0
      <4>2. h[n - L] \in Seq(S) BY <4>1, <1>5
      <4>3. g[L] \o h[n - L] \in Seq(S) BY <4>2, <1>6, ConcatProperties
      <4> QED BY <3>2, <4>3
    <3> QED BY <3>1, <3>2
  <2> QED BY <2>1
<1>8. \A n \in 0 .. L : k[n] = g[n] BY <1>0
<1>9. \A n \in 0 .. M : k[L + n] = g[L] \o h[n]
  <2> SUFFICES ASSUME NEW n \in 0 .. M PROVE k[L + n] = g[L] \o h[n] OBVIOUS
  <2>1. CASE n = 0
    <3>1. g[L] \o << >> = g[L] BY <1>6, ConcatEmptySeq
    <3>2. L + n = L /\ L \in 0 .. L BY <2>1, <1>0
    <3> QED BY <2>1, <3>1, <3>2, <1>5, <1>8
  <2>2. CASE n # 0
    <3>1. L + n \in 0 .. L + M /\ ~(L + n <= L) /\ (L + n) - L = n BY <2>2, <1>0
    <3> QED BY <3>1
  <2> QED BY <2>1, <2>2
<1> HIDE DEF k
<1>10. ASSUME NEW n \in 1 .. L + M PROVE k[n] = k[n - 1] \o (ss \o tt)[n]
  <2>1. CASE n <= L
    <3>1. n \in 1 .. L /\ n \in 0 .. L /\ n - 1 \in 0 .. L BY <2>1, <1>0
    <3>2. k[n] = g[n] /\ k[n - 1] = g[n - 1] BY <3>1, <1>8
    <3>3. (ss \o tt)[n] = ss[n] BY <2>1, <1>3
    <3> QED BY <3>1, <3>2, <3>3, <1>4
  <2>2. CASE ~(n <= L)
    <3> DEFINE j == n - L
    <3>1. j \in 1 .. M /\ j \in 0 .. M /\ j - 1 \in 0 .. M /\ L + j = n /\ L + (j - 1) = n - 1
      BY <2>2, <1>0
    <3>2. (ss \o tt)[n] = tt[j] BY <2>2, <1>3
    <3> HIDE DEF j
    <3>3. k[n] = g[L] \o h[j] /\ k[n - 1] = g[L] \o h[j - 1] BY <3>1, <1>9
    <3>4. h[j] = h[j - 1] \o tt[j] BY <3>1, <1>5
    <3>5. h[j - 1] \in Seq(S) BY <3>1, <1>5
    <3>6. tt[j] \in Seq(S) BY <3>1, ElementOfSeq DEF M
    <3>7. (g[L] \o h[j - 1]) \o tt[j] = g[L] \o (h[j - 1] \o tt[j])
      BY <3>5, <3>6, <1>6, <1>a DEF Assoc
    <3> QED BY <3>2, <3>3, <3>4, <3>7
  <2> QED BY <2>1, <2>2
<1>11. k[0] = << >> BY <1>0, <1>4, <1>8
<1>12. Flats(k, ss \o tt, S) BY <1>3, <1>7, <1>10, <1>11 DEF Flats
<1>13. FlattenSeq(ss \o tt) = k[L + M] BY <1>3, <1>12, FlattenIs
<1>14. FlattenSeq(ss) = g[L] BY <1>1, FlattenIs DEF L
<1>15. FlattenSeq(tt) = h[M] BY <1>2, FlattenIs DEF M
<1>16. M \in 0 .. M BY <1>0
<1> QED BY <1>9, <1>13, <1>14, <1>15, <1>16

(***************************************************************************)
(* A function of each element of a sequence.                               *)
(***************************************************************************)
Maps(A, B) == [A -> B]
Mapped(F, s) == [i \in DOMAIN s |-> F[s[i]]]

LEMMA MappedType ==
  ASSUME NEW A, NEW B, NEW F \in Maps(A, B), NEW s \in Seq(A)
  PROVE  /\ Mapped(F, s) \in Seq(B)
         /\ Len(Mapped(F, s)) = Len(s)
         /\ \A i \in 1 .. Len(s) : Mapped(F, s)[i] = F[s[i]]
<1>1. Len(s) \in Nat /\ DOMAIN s = 1 .. Len(s) BY LenProperties
<1>2. \A i \in 1 .. Len(s) : F[s[i]] \in B BY ElementOfSeq DEF Maps
<1>3. Mapped(F, s) = [i \in 1 .. Len(s) |-> F[s[i]]] BY <1>1 DEF Mapped
<1>4. Mapped(F, s) \in [1 .. Len(s) -> B] BY <1>2, <1>3
<1>5. Mapped(F, s) \in Seq(B)
  <2>1. Len(s) \in Nat BY <1>1
  <2> HIDE DEF Mapped
  <2>2. Mapped(F, s) \in UNION {[1 .. n -> B] : n \in Nat} BY <1>4, <2>1, Zenon
  <2> QED BY <2>2, SeqDef, Zenon
<1>6. DOMAIN Mapped(F, s) = 1 .. Len(Mapped(F, s)) /\ Len(Mapped(F, s)) \in Nat
  BY <1>5, LenProperties
<1>7. DOMAIN Mapped(F, s) = 1 .. Len(s)
  <2> HIDE DEF Mapped
  <2> QED BY <1>3
<1>8. Len(Mapped(F, s)) = Len(s)
  <2>1. ASSUME NEW m \in Nat, NEW n \in Nat, 1 .. m = 1 .. n, m < n PROVE FALSE
    <3>1. n \in 1 .. n /\ n \notin 1 .. m BY <2>1
    <3> QED BY <2>1, <3>1
  <2>2. \A m, n \in Nat : 1 .. m = 1 .. n => m = n
    <3>1. \A m, n \in Nat : m < n \/ n < m \/ m = n OBVIOUS
    <3> QED BY <2>1, <3>1
  <2> HIDE DEF Mapped
  <2>3. 1 .. Len(Mapped(F, s)) = 1 .. Len(s) BY <1>6, <1>7
  <2> QED BY <1>1, <1>6, <2>2, <2>3
<1>9. \A i \in 1 .. Len(s) : Mapped(F, s)[i] = F[s[i]] BY <1>3
<1> QED BY <1>5, <1>8, <1>9

\* A function applied to each of a sequence, one sequence after the other.
LEMMA MappedConcat ==
  ASSUME NEW A, NEW B, NEW F \in Maps(A, B), NEW s \in Seq(A), NEW t \in Seq(A)
  PROVE  Mapped(F, s \o t) = Mapped(F, s) \o Mapped(F, t)
<1> DEFINE L == Len(s)
           M == Len(t)
           p == Mapped(F, s)
           q == Mapped(F, t)
           u == s \o t
           r == Mapped(F, u)
<1>0. L \in Nat /\ M \in Nat BY LenProperties
<1>1. /\ u \in Seq(A) /\ Len(u) = L + M
      /\ \A i \in 1 .. L + M : u[i] = IF i <= L THEN s[i] ELSE t[i - L]
  BY ConcatProperties
<1> HIDE DEF u
<1>2. p \in Seq(B) /\ Len(p) = L /\ \A i \in 1 .. L : p[i] = F[s[i]] BY MappedType
<1>3. q \in Seq(B) /\ Len(q) = M /\ \A i \in 1 .. M : q[i] = F[t[i]] BY MappedType
<1>4. r \in Seq(B) /\ Len(r) = L + M /\ \A i \in 1 .. L + M : r[i] = F[u[i]]
  <2>1. r \in Seq(B) /\ Len(r) = Len(u) /\ \A i \in 1 .. Len(u) : r[i] = F[u[i]]
    BY <1>1, MappedType
  <2>2. Len(u) = L + M BY <1>1
  <2> HIDE DEF L, M, r
  <2> QED BY <2>1, <2>2
<1> HIDE DEF L, M, p, q, r
<1>5. /\ p \o q \in Seq(B) /\ Len(p \o q) = L + M
      /\ \A i \in 1 .. L + M : (p \o q)[i] = IF i <= L THEN p[i] ELSE q[i - L]
  <2>1. p \in Seq(B) /\ q \in Seq(B) /\ Len(p) = L /\ Len(q) = M BY <1>2, <1>3
  <2>2. /\ p \o q \in Seq(B) /\ Len(p \o q) = Len(p) + Len(q)
        /\ \A i \in 1 .. Len(p) + Len(q) :
             (p \o q)[i] = IF i <= Len(p) THEN p[i] ELSE q[i - Len(p)]
    BY <2>1, ConcatProperties
  <2> QED BY <2>1, <2>2
<1>6. ASSUME NEW i \in 1 .. L + M PROVE r[i] = (p \o q)[i]
  <2>1. CASE i <= L
    <3>1. i \in 1 .. L BY <2>1, <1>0
    <3>2. u[i] = s[i] /\ (p \o q)[i] = p[i] BY <2>1, <1>1, <1>5
    <3> QED BY <3>1, <3>2, <1>2, <1>4
  <2>2. CASE ~(i <= L)
    <3>1. i - L \in 1 .. M BY <2>2, <1>0
    <3>2. u[i] = t[i - L] /\ (p \o q)[i] = q[i - L] BY <2>2, <1>1, <1>5
    <3> QED BY <3>1, <3>2, <1>3, <1>4
  <2> QED BY <2>1, <2>2
<1>7. r = p \o q BY <1>4, <1>5, <1>6, SeqEqual
<1> QED BY <1>7 DEF p, q, r, u

LEMMA MappedOne ==
  ASSUME NEW A, NEW B, NEW F \in Maps(A, B), NEW x \in A
  PROVE  Mapped(F, <<x>>) = <<F[x]>>
<1>1. DOMAIN <<x>> = 1 .. 1 /\ <<x>>[1] = x OBVIOUS
<1>2. Mapped(F, <<x>>) = [i \in 1 .. 1 |-> F[x]] BY <1>1 DEF Mapped
<1> QED BY <1>2

LEMMA MappedNone == ASSUME NEW F PROVE Mapped(F, << >>) = << >>
BY DEF Mapped

(***************************************************************************)
(* Segments and what they carry.                                           *)
(***************************************************************************)
Units == [frame : Frames, pos : Nat \ {0}]
Types == {TypeOf[f] : f \in Frames} \cup {None}

LineTests == [kind : {"test"}, size : Nat]
Acks == [kind : {"ack"}, size : Nat, amount : Nat]
OptionsSegments == [kind : {"options"}, size : Nat]
UserSegments == [kind : {"user"}, size : Nat, type : Types, data : Seq(Units)]
Segs == LineTests \cup Acks \cup OptionsSegments \cup UserSegments

DataOf(s) == IF s.kind = "user" THEN s.data ELSE << >>
Carried(segments) == FlattenSeq([i \in DOMAIN segments |-> DataOf(segments[i])])
Contents(frames) == FlattenSeq([i \in DOMAIN frames |-> Content(frames[i])])

\* What a segment of each kind carries and acknowledges.
LEMMA SegmentFacts ==
  ASSUME NEW s \in Segs
  PROVE  /\ s.kind \in {"test", "ack", "options", "user"}
         /\ s.size \in Nat
         /\ AmountOf(s) \in Nat
         /\ DataOf(s) \in Seq(Units)
         /\ s.kind = "ack" => s.amount \in Nat /\ AmountOf(s) = s.amount /\ DataOf(s) = << >>
         /\ s.kind = "user" => s.type \in Types /\ DataOf(s) = s.data /\ AmountOf(s) = 0
         /\ s.kind \in {"test", "options"} => DataOf(s) = << >> /\ AmountOf(s) = 0
<1>1. << >> \in Seq(Units) OBVIOUS
<1>2. CASE s \in LineTests BY <1>1, <1>2 DEF LineTests, AmountOf, IsAck, DataOf
<1>3. CASE s \in Acks BY <1>1, <1>3 DEF Acks, AmountOf, IsAck, DataOf
<1>4. CASE s \in OptionsSegments BY <1>1, <1>4 DEF OptionsSegments, AmountOf, IsAck, DataOf
<1>5. CASE s \in UserSegments BY <1>1, <1>5 DEF UserSegments, AmountOf, IsAck, DataOf
<1> QED BY <1>2, <1>3, <1>4, <1>5 DEF Segs

\* Sizes, amounts and data of segments one after the other.
LEMMA SizeOfConcat ==
  ASSUME NEW s \in Seq(Segs), NEW t \in Seq(Segs)
  PROVE  /\ SizeOf(s) \in Nat
         /\ SizeOf(s \o t) = SizeOf(s) + SizeOf(t)
<1> DEFINE F == [x \in Segs |-> x.size]
<1>1. F \in Maps(Segs, Nat) BY SegmentFacts DEF Maps
<1>2. ASSUME NEW u \in Seq(Segs) PROVE SizeOf(u) = Total(Mapped(F, u))
  <2>1. \A i \in DOMAIN u : u[i] \in Segs BY ElementOfSeq, LenProperties
  <2>2. [i \in DOMAIN u |-> u[i].size] = Mapped(F, u) BY <2>1 DEF Mapped
  <2> QED BY <2>2 DEF SizeOf
<1> HIDE DEF F
<1>3. s \o t \in Seq(Segs) BY ConcatProperties
<1>4. Mapped(F, s) \in Seq(Nat) /\ Mapped(F, t) \in Seq(Nat) BY <1>1, MappedType
<1>5. Mapped(F, s \o t) = Mapped(F, s) \o Mapped(F, t) BY <1>1, MappedConcat
<1>6. /\ SizeOf(s) = Total(Mapped(F, s)) /\ SizeOf(t) = Total(Mapped(F, t))
      /\ SizeOf(s \o t) = Total(Mapped(F, s \o t))
  BY <1>2, <1>3
<1>7. Total(Mapped(F, s)) \in Nat BY <1>4, TotalType
<1>8. Total(Mapped(F, s) \o Mapped(F, t)) = Total(Mapped(F, s)) + Total(Mapped(F, t))
  BY <1>4, TotalConcat
<1> QED BY <1>5, <1>6, <1>7, <1>8

LEMMA SizeOfFew ==
  /\ SizeOf(<< >>) = 0
  /\ \A x \in Segs : SizeOf(<<x>>) = x.size
<1>1. [i \in DOMAIN << >> |-> << >>[i].size] = << >> OBVIOUS
<1>2. ASSUME NEW x \in Segs PROVE SizeOf(<<x>>) = x.size
  <2>1. x.size \in Nat BY SegmentFacts
  <2>2. DOMAIN <<x>> = 1 .. 1 /\ <<x>>[1] = x OBVIOUS
  <2>3. [i \in DOMAIN <<x>> |-> <<x>>[i].size] = <<x.size>> BY <2>2
  <2> QED BY <2>1, <2>3, TotalOne DEF SizeOf
<1> QED BY <1>1, <1>2, TotalNone DEF SizeOf

LEMMA AmountInConcat ==
  ASSUME NEW s \in Seq(Segs), NEW t \in Seq(Segs)
  PROVE  /\ AmountIn(s) \in Nat
         /\ AmountIn(s \o t) = AmountIn(s) + AmountIn(t)
<1> DEFINE F == [x \in Segs |-> AmountOf(x)]
<1>1. F \in Maps(Segs, Nat) BY SegmentFacts DEF Maps
<1>2. ASSUME NEW u \in Seq(Segs) PROVE AmountIn(u) = Total(Mapped(F, u))
  <2>1. \A i \in DOMAIN u : u[i] \in Segs BY ElementOfSeq, LenProperties
  <2>2. [i \in DOMAIN u |-> AmountOf(u[i])] = Mapped(F, u) BY <2>1 DEF Mapped
  <2> QED BY <2>2 DEF AmountIn
<1> HIDE DEF F
<1>3. s \o t \in Seq(Segs) BY ConcatProperties
<1>4. Mapped(F, s) \in Seq(Nat) /\ Mapped(F, t) \in Seq(Nat) BY <1>1, MappedType
<1>5. Mapped(F, s \o t) = Mapped(F, s) \o Mapped(F, t) BY <1>1, MappedConcat
<1>6. /\ AmountIn(s) = Total(Mapped(F, s)) /\ AmountIn(t) = Total(Mapped(F, t))
      /\ AmountIn(s \o t) = Total(Mapped(F, s \o t))
  BY <1>2, <1>3
<1>7. Total(Mapped(F, s)) \in Nat BY <1>4, TotalType
<1>8. Total(Mapped(F, s) \o Mapped(F, t)) = Total(Mapped(F, s)) + Total(Mapped(F, t))
  BY <1>4, TotalConcat
<1> QED BY <1>5, <1>6, <1>7, <1>8

LEMMA AmountInFew ==
  /\ AmountIn(<< >>) = 0
  /\ \A x \in Segs : AmountIn(<<x>>) = AmountOf(x)
<1>1. [i \in DOMAIN << >> |-> AmountOf(<< >>[i])] = << >> OBVIOUS
<1>2. ASSUME NEW x \in Segs PROVE AmountIn(<<x>>) = AmountOf(x)
  <2>1. AmountOf(x) \in Nat BY SegmentFacts
  <2>2. DOMAIN <<x>> = 1 .. 1 /\ <<x>>[1] = x OBVIOUS
  <2>3. [i \in DOMAIN <<x>> |-> AmountOf(<<x>>[i])] = <<AmountOf(x)>> BY <2>2
  <2> QED BY <2>1, <2>3, TotalOne DEF AmountIn
<1> QED BY <1>1, <1>2, TotalNone DEF AmountIn

LEMMA CarriedConcat ==
  ASSUME NEW s \in Seq(Segs), NEW t \in Seq(Segs)
  PROVE  /\ Carried(s) \in Seq(Units)
         /\ Carried(s \o t) = Carried(s) \o Carried(t)
<1> DEFINE F == [x \in Segs |-> DataOf(x)]
<1>1. F \in Maps(Segs, Seq(Units)) BY SegmentFacts DEF Maps
<1>2. ASSUME NEW u \in Seq(Segs) PROVE Carried(u) = FlattenSeq(Mapped(F, u))
  <2>1. \A i \in DOMAIN u : u[i] \in Segs BY ElementOfSeq, LenProperties
  <2>2. [i \in DOMAIN u |-> DataOf(u[i])] = Mapped(F, u) BY <2>1 DEF Mapped
  <2> QED BY <2>2 DEF Carried
<1> HIDE DEF F
<1>3. s \o t \in Seq(Segs) BY ConcatProperties
<1>4. Mapped(F, s) \in Seq(Seq(Units)) /\ Mapped(F, t) \in Seq(Seq(Units))
  BY <1>1, MappedType
<1>5. Mapped(F, s \o t) = Mapped(F, s) \o Mapped(F, t) BY <1>1, MappedConcat
<1>6. /\ Carried(s) = FlattenSeq(Mapped(F, s)) /\ Carried(t) = FlattenSeq(Mapped(F, t))
      /\ Carried(s \o t) = FlattenSeq(Mapped(F, s \o t))
  BY <1>2, <1>3
<1>7. FlattenSeq(Mapped(F, s)) \in Seq(Units) BY <1>4, FlattenType
<1>8. FlattenSeq(Mapped(F, s) \o Mapped(F, t)) = FlattenSeq(Mapped(F, s)) \o FlattenSeq(Mapped(F, t))
  BY <1>4, FlattenConcat
<1> QED BY <1>5, <1>6, <1>7, <1>8

LEMMA CarriedFew ==
  /\ Carried(<< >>) = << >>
  /\ \A x \in Segs : Carried(<<x>>) = DataOf(x)
<1>1. [i \in DOMAIN << >> |-> DataOf(<< >>[i])] = << >> OBVIOUS
<1>2. ASSUME NEW x \in Segs PROVE Carried(<<x>>) = DataOf(x)
  <2>1. DataOf(x) \in Seq(Units) BY SegmentFacts
  <2>2. DOMAIN <<x>> = 1 .. 1 /\ <<x>>[1] = x OBVIOUS
  <2>3. [i \in DOMAIN <<x>> |-> DataOf(<<x>>[i])] = <<DataOf(x)>> BY <2>2
  <2> QED BY <2>1, <2>3, FlattenOne DEF Carried
<1> QED BY <1>1, <1>2, FlattenNone DEF Carried

(***************************************************************************)
(* Handlers.                                                               *)
(***************************************************************************)
Handlers ==
  [framesQueueOutput : Seq(Frames), outputSegments : Seq(Segs),
   bytesWaitingAcknowledge : Nat, maxUnAcknowledgedSize : {MinimalWindow, Window},
   outputAcknowledgesSize : Nat, setConnectionOptionsNeedSend : BOOLEAN,
   lineTestQueued : BOOLEAN, readBuffer : Seq(Segs), frameDataBuffer : Seq(Units),
   pendingReadType : Types]

\* The data an end has read and not taken as frames, in order.
Received(h) == h.frameDataBuffer \o Carried(h.readBuffer)

SameOutput(h, r) ==
  /\ r.framesQueueOutput = h.framesQueueOutput
  /\ r.outputSegments = h.outputSegments
  /\ r.setConnectionOptionsNeedSend = h.setConnectionOptionsNeedSend
  /\ r.lineTestQueued = h.lineTestQueued

\* The fields of a handler and what is computed from them.
LEMMA HandlerFields ==
  ASSUME NEW h \in Handlers
  PROVE  /\ h.framesQueueOutput \in Seq(Frames) /\ h.outputSegments \in Seq(Segs)
         /\ h.bytesWaitingAcknowledge \in Nat
         /\ h.maxUnAcknowledgedSize \in {MinimalWindow, Window}
         /\ h.maxUnAcknowledgedSize \in Nat \ {0}
         /\ h.outputAcknowledgesSize \in Nat
         /\ h.setConnectionOptionsNeedSend \in BOOLEAN /\ h.lineTestQueued \in BOOLEAN
         /\ h.readBuffer \in Seq(Segs) /\ h.frameDataBuffer \in Seq(Units)
         /\ h.pendingReadType \in Types
         /\ AmountIn(h.readBuffer) \in Nat /\ AmountIn(h.outputSegments) \in Nat
         /\ Carried(h.readBuffer) \in Seq(Units) /\ Carried(h.outputSegments) \in Seq(Units)
         /\ Received(h) \in Seq(Units)
<1>1. h.readBuffer \in Seq(Segs) /\ h.outputSegments \in Seq(Segs) /\ h.frameDataBuffer \in Seq(Units)
  BY DEF Handlers
<1>2. h.maxUnAcknowledgedSize \in Nat \ {0} BY ChannelAssumption DEF Handlers
<1>3. AmountIn(h.readBuffer) \in Nat /\ AmountIn(h.outputSegments) \in Nat
  BY <1>1, AmountInConcat
<1>4. Carried(h.readBuffer) \in Seq(Units) /\ Carried(h.outputSegments) \in Seq(Units)
  BY <1>1, CarriedConcat
<1>5. Received(h) \in Seq(Units) BY <1>1, <1>4, ConcatProperties DEF Received
<1> QED BY <1>1, <1>2, <1>3, <1>4, <1>5 DEF Handlers

\* What one segment that is read does to a handler: it or its data is kept in order, and
\* the amount it acknowledges is counted unless it is kept.
LEMMA ConsumeSegmentEffect ==
  ASSUME NEW h \in Handlers, NEW s \in Segs
  PROVE  LET r == ConsumeSegment(h, s) IN
         /\ r \in Handlers /\ SameOutput(h, r)
         /\ r.outputAcknowledgesSize = h.outputAcknowledgesSize
         /\ r.maxUnAcknowledgedSize >= h.maxUnAcknowledgedSize
         /\ r.bytesWaitingAcknowledge <= h.bytesWaitingAcknowledge
         /\ r.bytesWaitingAcknowledge + AmountIn(h.readBuffer) + AmountOf(s)
              >= h.bytesWaitingAcknowledge + AmountIn(r.readBuffer)
         /\ h.readBuffer # << >> \/ h.bytesWaitingAcknowledge >= AmountOf(s) =>
              r.bytesWaitingAcknowledge + AmountIn(h.readBuffer) + AmountOf(s)
                = h.bytesWaitingAcknowledge + AmountIn(r.readBuffer)
         /\ Received(r) = Received(h) \o DataOf(s)
<1> DEFINE r == ConsumeSegment(h, s)
           W == h.bytesWaitingAcknowledge
           a == AmountOf(s)
<1>a. Assoc(Units) BY Associative
<1>1. /\ s.size \in Nat /\ a \in Nat /\ DataOf(s) \in Seq(Units)
      /\ s.kind \in {"test", "ack", "options", "user"}
      /\ s.kind = "ack" => s.amount \in Nat /\ a = s.amount /\ DataOf(s) = << >>
      /\ s.kind = "user" => s.type \in Types /\ DataOf(s) = s.data /\ a = 0
      /\ s.kind \in {"test", "options"} => DataOf(s) = << >> /\ a = 0
  BY SegmentFacts
<1>2. /\ W \in Nat /\ h.readBuffer \in Seq(Segs) /\ h.frameDataBuffer \in Seq(Units)
      /\ Carried(h.readBuffer) \in Seq(Units) /\ AmountIn(h.readBuffer) \in Nat
      /\ Received(h) \in Seq(Units)
      /\ h.maxUnAcknowledgedSize \in {MinimalWindow, Window}
      /\ MinimalWindow \in Nat /\ Window \in Nat /\ MinimalWindow <= Window
  BY HandlerFields, ChannelAssumption
<1>n. /\ W \in Nat /\ AmountIn(h.readBuffer) \in Nat /\ a \in Nat
      /\ h.maxUnAcknowledgedSize \in Nat /\ Window \in Nat /\ Window >= h.maxUnAcknowledgedSize
  <2>1. h.maxUnAcknowledgedSize \in {MinimalWindow, Window} BY <1>2
  <2>2. MinimalWindow \in Nat /\ Window \in Nat /\ MinimalWindow <= Window BY <1>2
  <2>3. h.maxUnAcknowledgedSize \in Nat /\ Window >= h.maxUnAcknowledgedSize BY <2>1, <2>2
  <2> QED BY <1>1, <1>2, <2>2, <2>3
<1> HIDE DEF a
<1>3. Received(h) \o << >> = Received(h) BY <1>2, ConcatEmptySeq
<1>4. CASE h.readBuffer # << >>
  <2>1. r = [h EXCEPT !.readBuffer = Append(@, s)] BY <1>4 DEF ConsumeSegment
  <2>2. Append(h.readBuffer, s) = h.readBuffer \o <<s>> /\ <<s>> \in Seq(Segs)
    BY <1>2, AppendIsConcat
  <2>3. Append(h.readBuffer, s) \in Seq(Segs) BY <1>2
  <2>4. r \in Handlers BY <2>1, <2>3 DEF Handlers
  <2>5. /\ SameOutput(h, r) /\ r.outputAcknowledgesSize = h.outputAcknowledgesSize
        /\ r.bytesWaitingAcknowledge = W
        /\ r.maxUnAcknowledgedSize = h.maxUnAcknowledgedSize
        /\ r.readBuffer = h.readBuffer \o <<s>> /\ r.frameDataBuffer = h.frameDataBuffer
    BY <2>1, <2>2 DEF Handlers, SameOutput
  <2> HIDE DEF r
  <2>6. AmountIn(r.readBuffer) = AmountIn(h.readBuffer) + a
    BY <1>2, <2>2, <2>5, AmountInConcat, AmountInFew DEF a
  <2>7. Carried(r.readBuffer) = Carried(h.readBuffer) \o DataOf(s)
    BY <1>2, <2>2, <2>5, CarriedConcat, CarriedFew
  <2>8. Received(r) = Received(h) \o DataOf(s)
    <3>1. Received(r) = h.frameDataBuffer \o (Carried(h.readBuffer) \o DataOf(s))
      BY <2>5, <2>7 DEF Received
    <3>2. (h.frameDataBuffer \o Carried(h.readBuffer)) \o DataOf(s) =
            h.frameDataBuffer \o (Carried(h.readBuffer) \o DataOf(s))
      BY <1>1, <1>2, <1>a DEF Assoc
    <3> QED BY <3>1, <3>2 DEF Received
  <2>9. /\ W + AmountIn(h.readBuffer) + a = W + AmountIn(r.readBuffer) /\ W <= W
        /\ W + AmountIn(h.readBuffer) + a >= W + AmountIn(r.readBuffer)
    <3> DEFINE R == AmountIn(h.readBuffer)
               R2 == AmountIn(r.readBuffer)
    <3>1. W \in Nat /\ R \in Nat /\ a \in Nat /\ R2 = R + a BY <1>n, <2>6
    <3> HIDE DEF W, R, R2
    <3>2. W + R + a = W + R2 /\ W <= W /\ W + R + a >= W + R2 BY <3>1
    <3> QED BY <3>2 DEF W, R, R2
  <2>10. r.maxUnAcknowledgedSize >= h.maxUnAcknowledgedSize BY <1>2, <2>5
  <2> QED BY <2>4, <2>5, <2>8, <2>9, <2>10 DEF r, a
<1>5. CASE h.readBuffer = << >>
  <2>0. AmountIn(h.readBuffer) = 0 /\ Carried(h.readBuffer) = << >>
        /\ Received(h) = h.frameDataBuffer
    <3>1. AmountIn(<< >>) = 0 /\ Carried(<< >>) = << >> BY AmountInFew, CarriedFew
    <3>2. h.frameDataBuffer \o << >> = h.frameDataBuffer BY <1>2, ConcatEmptySeq
    <3> QED BY <1>5, <3>1, <3>2 DEF Received
  <2>1. CASE s.kind = "test"
    <3>1. r = h BY <1>5, <2>1 DEF ConsumeSegment
    <3> HIDE DEF r
    <3>2. a = 0 /\ DataOf(s) = << >> BY <1>1, <2>1
    <3>3. SameOutput(h, h) BY DEF SameOutput
    <3>4. W <= W /\ W + AmountIn(h.readBuffer) + a = W + AmountIn(h.readBuffer)
          /\ h.maxUnAcknowledgedSize >= h.maxUnAcknowledgedSize
      BY <1>n, <3>2
    <3>5. Received(h) = Received(h) \o DataOf(s) BY <1>3, <3>2
    <3>6. W + AmountIn(h.readBuffer) + a >= W + AmountIn(h.readBuffer)
      BY <1>n, <3>2
    <3> QED BY <3>1, <3>3, <3>4, <3>5, <3>6 DEF r, a
  <2>2. CASE s.kind = "options"
    <3>1. r = [h EXCEPT !.maxUnAcknowledgedSize = Window]
      BY <1>5, <2>2 DEF ConsumeSegment
    <3>2. r \in Handlers BY <3>1 DEF Handlers
    <3>3. /\ SameOutput(h, r) /\ r.outputAcknowledgesSize = h.outputAcknowledgesSize
          /\ r.bytesWaitingAcknowledge = W /\ r.maxUnAcknowledgedSize = Window
          /\ r.readBuffer = h.readBuffer /\ Received(r) = Received(h)
      BY <3>1 DEF Handlers, SameOutput, Received
    <3> HIDE DEF r
    <3>4. a = 0 /\ DataOf(s) = << >> BY <1>1, <2>2
    <3>5. /\ W <= W /\ W + AmountIn(h.readBuffer) + a = W + AmountIn(h.readBuffer)
          /\ W + AmountIn(h.readBuffer) + a >= W + AmountIn(h.readBuffer)
          /\ Window >= h.maxUnAcknowledgedSize
      BY <1>n, <3>4
    <3>6. Received(h) = Received(h) \o DataOf(s) BY <1>3, <3>4
    <3> QED BY <3>2, <3>3, <3>5, <3>6 DEF r, a
  <2>3. CASE s.kind = "ack"
    <3>1. r = [h EXCEPT !.bytesWaitingAcknowledge = W - Lesser(W, s.amount)]
      BY <1>5, <2>3 DEF ConsumeSegment
    <3>2. s.amount = a /\ DataOf(s) = << >> BY <1>1, <2>3
    <3> DEFINE W2 == W - Lesser(W, s.amount)
    <3>3. W2 \in Nat /\ W2 <= W /\ W2 + a >= W /\ (W >= a => W2 + a = W)
      <4>1. W \in Nat /\ a \in Nat /\ W2 = W - Lesser(W, a) BY <1>n, <3>2
      <4> HIDE DEF W, W2
      <4> QED BY <4>1 DEF Lesser
    <3> HIDE DEF W2
    <3>4. r \in Handlers BY <3>1, <3>3 DEF Handlers, W2
    <3>5. /\ SameOutput(h, r) /\ r.outputAcknowledgesSize = h.outputAcknowledgesSize
          /\ r.bytesWaitingAcknowledge = W2
          /\ r.maxUnAcknowledgedSize = h.maxUnAcknowledgedSize
          /\ r.readBuffer = h.readBuffer /\ Received(r) = Received(h)
      BY <3>1 DEF Handlers, SameOutput, Received, W2
    <3> HIDE DEF r
    <3>6. /\ W2 + AmountIn(h.readBuffer) + a >= W + AmountIn(h.readBuffer)
          /\ W >= a => W2 + AmountIn(h.readBuffer) + a = W + AmountIn(h.readBuffer)
          /\ h.maxUnAcknowledgedSize >= h.maxUnAcknowledgedSize
      <4> DEFINE R == AmountIn(h.readBuffer)
      <4>1. W \in Nat /\ R \in Nat /\ a \in Nat BY <1>n
      <4>2. h.maxUnAcknowledgedSize >= h.maxUnAcknowledgedSize BY <1>n
      <4> HIDE DEF W, R
      <4>3. W2 + R + a >= W + R BY <3>3, <4>1
      <4>4. W >= a => W2 + R + a = W + R BY <3>3, <4>1
      <4> QED BY <4>2, <4>3, <4>4 DEF W, R
    <3>7. Received(h) = Received(h) \o DataOf(s) BY <1>3, <3>2
    <3> QED BY <1>5, <3>3, <3>4, <3>5, <3>6, <3>7 DEF r, a
  <2>4. CASE s.kind = "user" /\ h.pendingReadType \in {None, s.type}
    <3>1. r = [h EXCEPT !.pendingReadType = s.type, !.frameDataBuffer = @ \o s.data]
      BY <1>5, <2>4 DEF ConsumeSegment
    <3>2. a = 0 /\ DataOf(s) = s.data /\ s.type \in Types BY <1>1, <2>4
    <3>3. h.frameDataBuffer \o s.data \in Seq(Units)
      BY <1>1, <1>2, <3>2, ConcatProperties
    <3>4. r \in Handlers BY <3>1, <3>2, <3>3 DEF Handlers
    <3>5. /\ SameOutput(h, r) /\ r.outputAcknowledgesSize = h.outputAcknowledgesSize
          /\ r.bytesWaitingAcknowledge = W
          /\ r.maxUnAcknowledgedSize = h.maxUnAcknowledgedSize
          /\ r.readBuffer = h.readBuffer
          /\ r.frameDataBuffer = h.frameDataBuffer \o s.data
      BY <3>1 DEF Handlers, SameOutput
    <3> HIDE DEF r
    <3>6. Received(r) = Received(h) \o DataOf(s)
      <4>1. r.frameDataBuffer \o << >> = r.frameDataBuffer BY <3>3, <3>5, ConcatEmptySeq
      <4>2. Received(r) = r.frameDataBuffer BY <2>0, <3>5, <4>1 DEF Received
      <4> QED BY <2>0, <3>2, <3>5, <4>2
    <3>7. /\ W <= W /\ W + AmountIn(h.readBuffer) + a = W + AmountIn(h.readBuffer)
          /\ W + AmountIn(h.readBuffer) + a >= W + AmountIn(h.readBuffer)
          /\ h.maxUnAcknowledgedSize >= h.maxUnAcknowledgedSize
      BY <1>n, <3>2
    <3> QED BY <3>4, <3>5, <3>6, <3>7 DEF r, a
  <2>5. CASE s.kind = "user" /\ ~(h.pendingReadType \in {None, s.type})
    <3>1. r = [h EXCEPT !.readBuffer = <<s>>]
      BY <1>5, <2>5 DEF ConsumeSegment
    <3>2. a = 0 /\ <<s>> \in Seq(Segs) BY <1>1, <2>5
    <3>3. r \in Handlers BY <3>1, <3>2 DEF Handlers
    <3>4. /\ SameOutput(h, r) /\ r.outputAcknowledgesSize = h.outputAcknowledgesSize
          /\ r.bytesWaitingAcknowledge = W
          /\ r.maxUnAcknowledgedSize = h.maxUnAcknowledgedSize
          /\ r.readBuffer = <<s>> /\ r.frameDataBuffer = h.frameDataBuffer
      BY <3>1 DEF Handlers, SameOutput
    <3> HIDE DEF r
    <3>5. AmountIn(r.readBuffer) = 0 /\ Carried(r.readBuffer) = DataOf(s)
      BY <3>2, <3>4, AmountInFew, CarriedFew DEF a
    <3>6. Received(r) = Received(h) \o DataOf(s) BY <2>0, <3>4, <3>5 DEF Received
    <3>7. /\ W <= W /\ W + AmountIn(h.readBuffer) + a = W + AmountIn(r.readBuffer)
          /\ W + AmountIn(h.readBuffer) + a >= W + AmountIn(r.readBuffer)
          /\ h.maxUnAcknowledgedSize >= h.maxUnAcknowledgedSize
      BY <1>2, <2>0, <3>2, <3>5
    <3> QED BY <3>3, <3>4, <3>6, <3>7 DEF r, a
  <2> QED BY <1>1, <2>1, <2>2, <2>3, <2>4, <2>5
<1> QED BY <1>4, <1>5

\* What reading some segments has made of a handler whose read buffer was empty.
Consumed(h, seen, r) ==
  /\ r \in Handlers /\ SameOutput(h, r)
  /\ r.outputAcknowledgesSize = h.outputAcknowledgesSize
  /\ r.maxUnAcknowledgedSize >= h.maxUnAcknowledgedSize
  /\ r.bytesWaitingAcknowledge <= h.bytesWaitingAcknowledge
  /\ r.bytesWaitingAcknowledge + AmountIn(seen)
       >= h.bytesWaitingAcknowledge + AmountIn(r.readBuffer)
  /\ h.bytesWaitingAcknowledge >= AmountIn(seen) =>
       r.bytesWaitingAcknowledge + AmountIn(seen)
         = h.bytesWaitingAcknowledge + AmountIn(r.readBuffer)
  /\ Received(r) = h.frameDataBuffer \o Carried(seen)

LEMMA ConsumedNext ==
  ASSUME NEW h \in Handlers, NEW seen \in Seq(Segs), NEW r, Consumed(h, seen, r),
         NEW s \in Segs
  PROVE  Consumed(h, seen \o <<s>>, ConsumeSegment(r, s))
<1> DEFINE q == ConsumeSegment(r, s)
           a == AmountOf(s)
           T == AmountIn(seen)
           W == h.bytesWaitingAcknowledge
<1>a. Assoc(Units) BY Associative
<1>1. /\ r \in Handlers /\ SameOutput(h, r)
      /\ r.outputAcknowledgesSize = h.outputAcknowledgesSize
      /\ r.maxUnAcknowledgedSize >= h.maxUnAcknowledgedSize
      /\ r.bytesWaitingAcknowledge <= W
      /\ r.bytesWaitingAcknowledge + T >= W + AmountIn(r.readBuffer)
      /\ W >= T => r.bytesWaitingAcknowledge + T = W + AmountIn(r.readBuffer)
      /\ Received(r) = h.frameDataBuffer \o Carried(seen)
  BY DEF Consumed
<1>2. /\ q \in Handlers /\ SameOutput(r, q)
      /\ q.outputAcknowledgesSize = r.outputAcknowledgesSize
      /\ q.maxUnAcknowledgedSize >= r.maxUnAcknowledgedSize
      /\ q.bytesWaitingAcknowledge <= r.bytesWaitingAcknowledge
      /\ q.bytesWaitingAcknowledge + AmountIn(r.readBuffer) + a
           >= r.bytesWaitingAcknowledge + AmountIn(q.readBuffer)
      /\ r.readBuffer # << >> \/ r.bytesWaitingAcknowledge >= a =>
           q.bytesWaitingAcknowledge + AmountIn(r.readBuffer) + a
             = r.bytesWaitingAcknowledge + AmountIn(q.readBuffer)
      /\ Received(q) = Received(r) \o DataOf(s)
  BY <1>1, ConsumeSegmentEffect
<1> HIDE DEF q
<1>3. /\ <<s>> \in Seq(Segs) /\ a \in Nat /\ DataOf(s) \in Seq(Units)
      /\ AmountIn(<<s>>) = a /\ Carried(<<s>>) = DataOf(s)
  BY SegmentFacts, AmountInFew, CarriedFew
<1>4. T \in Nat /\ AmountIn(seen \o <<s>>) = T + a
  BY <1>3, AmountInConcat
<1>5. Carried(seen) \in Seq(Units) /\ Carried(seen \o <<s>>) = Carried(seen) \o DataOf(s)
  BY <1>3, CarriedConcat
<1>6. /\ W \in Nat /\ r.bytesWaitingAcknowledge \in Nat /\ q.bytesWaitingAcknowledge \in Nat
      /\ AmountIn(r.readBuffer) \in Nat /\ AmountIn(q.readBuffer) \in Nat
      /\ h.maxUnAcknowledgedSize \in Nat /\ r.maxUnAcknowledgedSize \in Nat
      /\ q.maxUnAcknowledgedSize \in Nat /\ h.frameDataBuffer \in Seq(Units)
  BY <1>1, <1>2, HandlerFields
<1>7. Received(q) = h.frameDataBuffer \o Carried(seen \o <<s>>)
  <2>1. (h.frameDataBuffer \o Carried(seen)) \o DataOf(s) =
          h.frameDataBuffer \o (Carried(seen) \o DataOf(s))
    BY <1>3, <1>5, <1>6, <1>a DEF Assoc
  <2> QED BY <1>1, <1>2, <1>5, <2>1
<1> DEFINE rW == r.bytesWaitingAcknowledge
           rR == AmountIn(r.readBuffer)
           qW == q.bytesWaitingAcknowledge
           qR == AmountIn(q.readBuffer)
<1>b. /\ W \in Nat /\ T \in Nat /\ a \in Nat /\ rW \in Nat /\ rR \in Nat /\ qW \in Nat /\ qR \in Nat
      /\ rW + T >= W + rR /\ (W >= T => rW + T = W + rR)
      /\ qW + rR + a >= rW + qR /\ (rW >= a => qW + rR + a = rW + qR)
  BY <1>1, <1>2, <1>3, <1>4, <1>6
<1> HIDE DEF a, T, W, rW, rR, qW, qR
<1>8. qW + (T + a) >= W + qR BY <1>b
<1>9. W >= T + a => qW + (T + a) = W + qR BY <1>b
<1>10. /\ q.maxUnAcknowledgedSize >= h.maxUnAcknowledgedSize
       /\ q.bytesWaitingAcknowledge <= W
  <2>1. q.maxUnAcknowledgedSize >= r.maxUnAcknowledgedSize BY <1>2
  <2>2. r.maxUnAcknowledgedSize >= h.maxUnAcknowledgedSize BY <1>1
  <2>3. q.bytesWaitingAcknowledge <= r.bytesWaitingAcknowledge BY <1>2
  <2>4. r.bytesWaitingAcknowledge <= W BY <1>1
  <2> DEFINE qM == q.maxUnAcknowledgedSize
             rM == r.maxUnAcknowledgedSize
             hM == h.maxUnAcknowledgedSize
             w == q.bytesWaitingAcknowledge
             v == r.bytesWaitingAcknowledge
  <2>5. qM \in Nat /\ rM \in Nat /\ hM \in Nat /\ w \in Nat /\ v \in Nat /\ W \in Nat
    BY <1>6
  <2>6. qM >= rM /\ rM >= hM /\ w <= v /\ v <= W BY <2>1, <2>2, <2>3, <2>4
  <2> HIDE DEF qM, rM, hM, w, v
  <2>7. qM >= hM /\ w <= W BY <2>5, <2>6
  <2> QED BY <2>7 DEF qM, hM, w
<1>11. SameOutput(h, q) /\ q.outputAcknowledgesSize = h.outputAcknowledgesSize
  BY <1>1, <1>2 DEF SameOutput
<1> QED BY <1>2, <1>4, <1>7, <1>8, <1>9, <1>10, <1>11 DEF Consumed, q, W, qW, qR

\* ConsumeReadBuffer consumes what was left and what was read, segment by segment.
LEMMA ReadBufferEffect ==
  ASSUME NEW h \in Handlers, NEW segments \in Seq(Segs)
  PROVE  Consumed([h EXCEPT !.readBuffer = << >>,
                            !.outputAcknowledgesSize = @ + SizeOf(segments)],
                  h.readBuffer \o segments, ConsumeReadBuffer(h, segments))
<1> DEFINE start == [h EXCEPT !.readBuffer = << >>,
                              !.outputAcknowledgesSize = @ + SizeOf(segments)]
           all == h.readBuffer \o segments
           L == Len(all)
           Eq(g) == g = [n \in 0 .. L |-> IF n = 0 THEN start
                                          ELSE ConsumeSegment(g[n - 1], all[n])]
           consume == CHOOSE g : Eq(g)
           step == [p \in Nat \X Handlers |->
                      IF p[1] \in 1 .. L THEN ConsumeSegment(p[2], all[p[1]]) ELSE p[2]]
<1>1. all \in Seq(Segs) BY HandlerFields, ConcatProperties
<1>2. start \in Handlers
  <2>1. h.outputAcknowledgesSize + SizeOf(segments) \in Nat BY HandlerFields, SizeOfConcat
  <2>2. << >> \in Seq(Segs) OBVIOUS
  <2> QED BY <2>1, <2>2 DEF Handlers
<1>3. ConsumeReadBuffer(h, segments) = consume[L] BY DEF ConsumeReadBuffer
<1>4. start.frameDataBuffer \in Seq(Units) /\ start.bytesWaitingAcknowledge \in Nat
      /\ start.maxUnAcknowledgedSize \in Nat /\ start.readBuffer = << >>
  BY <1>2, HandlerFields DEF Handlers
<1> HIDE DEF start, all
<1>5. L \in Nat /\ \A n \in 1 .. L : all[n] \in Segs BY <1>1, LenProperties, ElementOfSeq
<1>6. \E g : Eq(g)
  <2>1. step \in Steps(Handlers)
    <3>1. ASSUME NEW p \in Nat \X Handlers
          PROVE  (IF p[1] \in 1 .. L THEN ConsumeSegment(p[2], all[p[1]]) ELSE p[2]) \in Handlers
      <4>1. p[2] \in Handlers OBVIOUS
      <4>2. p[1] \in 1 .. L => all[p[1]] \in Segs BY <1>5
      <4>3. p[1] \in 1 .. L => ConsumeSegment(p[2], all[p[1]]) \in Handlers
        BY <4>1, <4>2, ConsumeSegmentEffect
      <4> QED BY <4>1, <4>3
    <3> QED BY <3>1 DEF Steps
  <2>2. ASSUME NEW n \in 1 .. L, NEW v \in Handlers
        PROVE  step[<<n, v>>] = ConsumeSegment(v, all[n])
    <3>1. <<n, v>> \in Nat \X Handlers /\ <<n, v>>[1] = n /\ <<n, v>>[2] = v BY <1>5
    <3> QED BY <3>1
  <2> HIDE DEF step
  <2>3. PICK g \in [0 .. L -> Handlers] : Recurs(g, L, start, step)
    BY <1>2, <1>5, <2>1, RangeRecursive
  <2>4. ASSUME NEW n \in 0 .. L
        PROVE  g[n] = IF n = 0 THEN start ELSE ConsumeSegment(g[n - 1], all[n])
    <3>1. CASE n = 0 BY <2>3, <3>1 DEF Recurs
    <3>2. CASE n # 0
      <4>1. n \in 1 .. L /\ n - 1 \in 0 .. L BY <1>5, <3>2
      <4>2. g[n - 1] \in Handlers BY <4>1
      <4>3. g[n] = step[<<n, g[n - 1]>>] BY <2>3, <4>1 DEF Recurs
      <4>4. step[<<n, g[n - 1]>>] = ConsumeSegment(g[n - 1], all[n]) BY <2>2, <4>1, <4>2
      <4> QED BY <3>2, <4>3, <4>4
    <3> QED BY <3>1, <3>2
  <2>5. g = [n \in 0 .. L |-> g[n]] OBVIOUS
  <2>6. Eq(g) BY <2>4, <2>5
  <2> QED BY <2>6
<1>7. Eq(consume)
  <2> HIDE DEF Eq
  <2> QED BY <1>6
<1>8. \A n \in 0 .. L : consume[n] = IF n = 0 THEN start
                                     ELSE ConsumeSegment(consume[n - 1], all[n])
  <2> HIDE DEF consume
  <2> QED BY <1>7
<1> HIDE DEF consume, Eq
<1> DEFINE T == {n \in Nat : n <= L => Consumed(start, SubSeq(all, 1, n), consume[n])}
<1>9. 0 \in T
  <2>1. consume[0] = start BY <1>5, <1>8
  <2>2. SubSeq(all, 1, 0) = << >> BY SubSeqEmpty
  <2>3. AmountIn(<< >>) = 0 /\ Carried(<< >>) = << >> BY AmountInFew, CarriedFew
  <2>4. Received(start) = start.frameDataBuffer \o << >> BY <1>4, <2>3 DEF Received
  <2>5. Consumed(start, << >>, start)
    <3>1. SameOutput(start, start) BY DEF SameOutput
    <3> QED BY <1>2, <1>4, <2>3, <2>4, <3>1 DEF Consumed
  <2> QED BY <2>1, <2>2, <2>5
<1>10. ASSUME NEW n \in T PROVE n + 1 \in T
  <2> SUFFICES ASSUME n + 1 <= L
               PROVE  Consumed(start, SubSeq(all, 1, n + 1), consume[n + 1])
    OBVIOUS
  <2>1. n + 1 \in 1 .. L /\ n + 1 \in 0 .. L /\ (n + 1) - 1 = n /\ n + 1 # 0 /\ n <= L
    BY <1>5
  <2>2. Consumed(start, SubSeq(all, 1, n), consume[n]) BY <2>1
  <2>3. consume[n + 1] = ConsumeSegment(consume[n], all[n + 1]) BY <1>8, <2>1
  <2>4. all[n + 1] \in Segs BY <1>5, <2>1
  <2>5. SubSeq(all, 1, n + 1) = SubSeq(all, 1, n) \o <<all[n + 1]>>
    <3>1. 1 \in 1 .. Len(all) /\ n + 1 \in 1 .. Len(all) BY <2>1
    <3>2. SubSeq(all, 1, n + 1) = SubSeq(all, 1, (n + 1) - 1) \o <<all[n + 1]>>
      BY <1>1, <3>1, SubSeqRecursiveSecond
    <3> QED BY <3>2, <2>1
  <2>6. SubSeq(all, 1, n) \in Seq(Segs)
    <3>1. \A i \in 1 .. n : all[i] \in Segs BY <1>5, <2>1
    <3>2. n \in Int BY <2>1
    <3> QED BY <3>1, <3>2, SubSeqProperties
  <2> HIDE DEF T, L
  <2>7. Consumed(start, SubSeq(all, 1, n) \o <<all[n + 1]>>,
                 ConsumeSegment(consume[n], all[n + 1]))
    BY <1>2, <2>2, <2>4, <2>6, ConsumedNext
  <2> QED BY <2>3, <2>5, <2>7
<1>11. T \in SUBSET Nat OBVIOUS
<1> HIDE DEF T
<1>12. T = Nat BY <1>9, <1>10, <1>11, NatInductive
<1>13. Consumed(start, SubSeq(all, 1, L), consume[L]) BY <1>5, <1>12 DEF T
<1>14. SubSeq(all, 1, L) = all BY <1>1, SubSeqFull
<1> QED BY <1>3, <1>13, <1>14 DEF start, all

(***************************************************************************)
(* The order of the units of frames on their way.                          *)
(***************************************************************************)
Once(q) == \A i, j \in DOMAIN q : q[i] = q[j] => i = j
Member(q, f) == \E i \in DOMAIN q : q[i] = f
Before(q, u, v) ==
  \/ Position(q, u.frame) < Position(q, v.frame)
  \/ u.frame = v.frame /\ u.pos < v.pos

\* With q queued, the units are of frames that were queued, and in order.
Placed(q, units) ==
  \A i \in DOMAIN units : Member(q, units[i].frame) /\ units[i].pos <= LengthOf[units[i].frame]
Sorted(q, units) ==
  \A i, j \in DOMAIN units : i < j => Before(q, units[i], units[j])
Ordered(q, units) == Placed(q, units) /\ Sorted(q, units)

Taken == Frames \cup {None}

LEMMA ContentFacts ==
  ASSUME NEW f \in Frames
  PROVE  /\ LengthOf[f] \in Nat \ {0}
         /\ Content(f) \in Seq(Units)
         /\ Len(Content(f)) = LengthOf[f]
         /\ \A j \in 1 .. LengthOf[f] : Content(f)[j] = [frame |-> f, pos |-> j]
         /\ Content(f) # << >>
<1> DEFINE n == LengthOf[f]
<1>1. n \in Nat \ {0} BY ChannelAssumption
<1> HIDE DEF n
<1>2. Content(f) = [j \in 1 .. n |-> [frame |-> f, pos |-> j]] BY DEF Content, n
<1>3. \A j \in 1 .. n : [frame |-> f, pos |-> j] \in Units BY <1>1 DEF Units
<1>4. Content(f) \in Seq(Units) /\ Len(Content(f)) = n BY <1>1, <1>2, <1>3
<1>5. \A j \in 1 .. n : Content(f)[j] = [frame |-> f, pos |-> j] BY <1>2
<1>6. Content(f) # << >>
  <2>1. Len(<< >>) = 0 OBVIOUS
  <2> QED BY <1>1, <1>4, <2>1
<1> QED BY <1>1, <1>4, <1>5, <1>6 DEF n

\* Units may be lost: what is left is in order.
LEMMA OrderedThinned ==
  ASSUME NEW q, NEW a \in Seq(Units), NEW b \in Seq(Units), NEW c \in Seq(Units),
         Ordered(q, (a \o b) \o c)
  PROVE  Ordered(q, a \o c)
<1> DEFINE u == (a \o b) \o c
           v == a \o c
           M(i) == IF i <= Len(a) THEN i ELSE i + Len(b)
<1>1. Len(a) \in Nat /\ Len(b) \in Nat /\ Len(c) \in Nat BY LenProperties
<1>2. /\ a \o b \in Seq(Units) /\ Len(a \o b) = Len(a) + Len(b)
      /\ \A i \in 1 .. Len(a) + Len(b) : (a \o b)[i] = IF i <= Len(a) THEN a[i] ELSE b[i - Len(a)]
  BY ConcatProperties
<1> DEFINE ab == a \o b
<1> HIDE DEF ab
<1>3. /\ u \in Seq(Units) /\ Len(u) = Len(ab) + Len(c)
      /\ \A i \in 1 .. Len(ab) + Len(c) : u[i] = IF i <= Len(ab) THEN ab[i] ELSE c[i - Len(ab)]
  <2>1. ab \in Seq(Units) BY <1>2 DEF ab
  <2>2. /\ ab \o c \in Seq(Units) /\ Len(ab \o c) = Len(ab) + Len(c)
        /\ \A i \in 1 .. Len(ab) + Len(c) : (ab \o c)[i] = IF i <= Len(ab) THEN ab[i] ELSE c[i - Len(ab)]
    BY <2>1, ConcatProperties
  <2> QED BY <2>2 DEF ab
<1>4. /\ v \in Seq(Units) /\ Len(v) = Len(a) + Len(c)
      /\ \A i \in 1 .. Len(a) + Len(c) : v[i] = IF i <= Len(a) THEN a[i] ELSE c[i - Len(a)]
  BY ConcatProperties
<1>5. DOMAIN u = 1 .. Len(a) + Len(b) + Len(c) /\ DOMAIN v = 1 .. Len(a) + Len(c)
  BY <1>1, <1>2, <1>3, <1>4, LenProperties DEF ab
<1>6. Ordered(q, u) OBVIOUS
<1> HIDE DEF u, v
<1>7. ASSUME NEW i \in DOMAIN v PROVE M(i) \in DOMAIN u /\ v[i] = u[M(i)]
  <2>1. CASE i <= Len(a)
    <3>1. i \in 1 .. Len(a) + Len(b) /\ i \in 1 .. Len(a) + Len(c)
          /\ i \in 1 .. Len(a) + Len(b) + Len(c)
      BY <1>1, <1>5, <2>1
    <3>2. ab[i] = a[i] /\ Len(ab) = Len(a) + Len(b) BY <1>2, <2>1, <3>1 DEF ab
    <3>3. i <= Len(a) + Len(b) BY <1>1, <2>1, <3>1
    <3>4. u[i] = a[i] BY <1>3, <3>1, <3>2, <3>3
    <3> QED BY <1>4, <1>5, <2>1, <3>1, <3>4
  <2>2. CASE ~(i <= Len(a))
    <3> DEFINE j == i + Len(b)
    <3>1. /\ j \in 1 .. Len(a) + Len(b) + Len(c) /\ ~(j <= Len(a) + Len(b))
          /\ j - (Len(a) + Len(b)) = i - Len(a) /\ i \in 1 .. Len(a) + Len(c)
      BY <1>1, <1>5, <2>2
    <3>2. Len(ab) = Len(a) + Len(b) BY <1>2 DEF ab
    <3>3. v[i] = c[i - Len(a)] BY <1>4, <2>2, <3>1
    <3>4. M(i) = j BY <2>2
    <3> HIDE DEF j, M
    <3>5. u[j] = c[i - Len(a)] BY <1>3, <3>1, <3>2
    <3> QED BY <1>5, <3>1, <3>3, <3>4, <3>5
  <2> QED BY <2>1, <2>2
<1>8. ASSUME NEW i \in DOMAIN v, NEW j \in DOMAIN v, i < j PROVE M(i) < M(j)
  BY <1>1, <1>5, <1>8
<1> HIDE DEF M
<1>9. Placed(q, v) BY <1>6, <1>7 DEF Ordered, Placed
<1>10. Sorted(q, v)
  <2> SUFFICES ASSUME NEW i \in DOMAIN v, NEW j \in DOMAIN v, i < j
               PROVE  Before(q, v[i], v[j])
    BY DEF Sorted
  <2>1. M(i) \in DOMAIN u /\ M(j) \in DOMAIN u /\ M(i) < M(j) BY <1>7, <1>8
  <2>2. Before(q, u[M(i)], u[M(j)]) BY <1>6, <2>1 DEF Ordered, Sorted
  <2> QED BY <1>7, <2>2
<1> QED BY <1>9, <1>10 DEF Ordered, v

\* A frame that is queued comes after all others, and moves none.
LEMMA OnceAppend ==
  ASSUME NEW q \in Seq(Frames), NEW f \in Frames, Once(q), ~Member(q, f)
  PROVE  /\ Once(Append(q, f))
         /\ \A x : Member(Append(q, f), x) <=> Member(q, x) \/ x = f
         /\ \A x : Member(q, x) => Position(q, x) \in Nat
                                   /\ Position(Append(q, f), x) = Position(q, x)
                                   /\ Position(q, x) < Position(Append(q, f), f)
<1> DEFINE L == Len(q)
           p == Append(q, f)
<1>1. L \in Nat /\ DOMAIN q = 1 .. L BY LenProperties
<1>2. /\ DOMAIN p = 1 .. L + 1 /\ p[L + 1] = f /\ \A i \in 1 .. L : p[i] = q[i]
  BY <1>1
<1> HIDE DEF L, p
<1>3. \A i \in 1 .. L : q[i] # f BY <1>1 DEF Member
<1>4. Once(p)
  <2> SUFFICES ASSUME NEW i \in DOMAIN p, NEW j \in DOMAIN p, p[i] = p[j] PROVE i = j
    BY DEF Once
  <2>1. CASE i = L + 1 /\ j = L + 1 BY <2>1
  <2>2. CASE i # L + 1 /\ j # L + 1
    <3>1. i \in 1 .. L /\ j \in 1 .. L BY <1>1, <1>2, <2>2
    <3> QED BY <1>1, <1>2, <3>1 DEF Once
  <2>3. CASE i # L + 1 /\ j = L + 1
    <3>1. i \in 1 .. L BY <1>1, <1>2, <2>3
    <3> QED BY <1>2, <1>3, <2>3, <3>1
  <2>4. CASE i = L + 1 /\ j # L + 1
    <3>1. j \in 1 .. L BY <1>1, <1>2, <2>4
    <3> QED BY <1>2, <1>3, <2>4, <3>1
  <2> QED BY <2>1, <2>2, <2>3, <2>4
<1>5. ASSUME NEW x PROVE Member(p, x) <=> Member(q, x) \/ x = f
  <2>1. ASSUME Member(p, x) PROVE Member(q, x) \/ x = f
    <3>1. PICK i \in DOMAIN p : p[i] = x BY <2>1 DEF Member
    <3>2. CASE i = L + 1 BY <1>2, <3>1, <3>2
    <3>3. CASE i # L + 1
      <4>1. i \in DOMAIN q /\ q[i] = x BY <1>1, <1>2, <3>1, <3>3
      <4> QED BY <4>1 DEF Member
    <3> QED BY <3>2, <3>3
  <2>2. ASSUME Member(q, x) PROVE Member(p, x)
    <3>1. PICK i \in DOMAIN q : q[i] = x BY <2>2 DEF Member
    <3>2. i \in DOMAIN p /\ p[i] = x BY <1>1, <1>2, <3>1
    <3> QED BY <3>2 DEF Member
  <2>3. Member(p, f)
    <3>1. L + 1 \in DOMAIN p BY <1>1, <1>2
    <3> QED BY <1>2, <3>1 DEF Member
  <2> QED BY <2>1, <2>2, <2>3
<1>6. Position(p, f) = L + 1
  <2>1. L + 1 \in DOMAIN p /\ p[L + 1] = f BY <1>1, <1>2
  <2>2. \A i \in DOMAIN p : p[i] = f => i = L + 1 BY <1>1, <1>2, <1>3
  <2> QED BY <2>1, <2>2 DEF Position
<1>7. ASSUME NEW x, Member(q, x)
      PROVE  Position(q, x) \in Nat /\ Position(p, x) = Position(q, x) /\ Position(q, x) < L + 1
  <2>1. PICK i \in DOMAIN q : q[i] = x BY <1>7 DEF Member
  <2>2. \A j \in DOMAIN q : q[j] = x => j = i BY <2>1 DEF Once
  <2>3. Position(q, x) = i BY <2>1, <2>2 DEF Position
  <2>4. i \in DOMAIN p /\ p[i] = x BY <1>1, <1>2, <2>1
  <2>5. \A j \in DOMAIN p : p[j] = x => j = i BY <1>4, <2>4 DEF Once
  <2>6. Position(p, x) = i BY <2>4, <2>5 DEF Position
  <2> QED BY <1>1, <2>1, <2>3, <2>6
<1> QED BY <1>4, <1>5, <1>6, <1>7 DEF p

\* A frame is queued behind the others.
LEMMA OrderedQueue ==
  ASSUME NEW q \in Seq(Frames), NEW units \in Seq(Units), NEW f \in Frames,
         Once(q), ~Member(q, f), Ordered(q, units)
  PROVE  Ordered(Append(q, f), units \o Content(f))
<1> DEFINE p == Append(q, f)
           c == Content(f)
           n == LengthOf[f]
           L == Len(units)
           v == units \o c
<1>1. /\ c \in Seq(Units) /\ Len(c) = n /\ n \in Nat \ {0}
      /\ \A j \in 1 .. n : c[j] = [frame |-> f, pos |-> j]
  BY ContentFacts
<1>2. L \in Nat /\ DOMAIN units = 1 .. L BY LenProperties
<1>3. /\ \A x : Member(p, x) <=> Member(q, x) \/ x = f
      /\ \A x : Member(q, x) => Position(q, x) \in Nat /\ Position(p, x) = Position(q, x)
                                /\ Position(q, x) < Position(p, f)
  BY OnceAppend
<1> HIDE DEF c, p
<1>4. /\ v \in Seq(Units) /\ Len(v) = L + n
      /\ \A i \in 1 .. L + n : v[i] = IF i <= L THEN units[i] ELSE c[i - L]
  <2>1. /\ v \in Seq(Units) /\ Len(v) = L + Len(c)
        /\ \A i \in 1 .. L + Len(c) : v[i] = IF i <= L THEN units[i] ELSE c[i - L]
    BY <1>1, ConcatProperties
  <2> HIDE DEF v, L
  <2> QED BY <2>1, <1>1
<1> HIDE DEF v, L
<1>5. DOMAIN v = 1 .. L + n BY <1>4, LenProperties
<1> HIDE DEF n
\* An old unit, or one of the new frame.
<1>6. ASSUME NEW i \in DOMAIN v
      PROVE  \/ i <= L /\ i \in DOMAIN units /\ v[i] = units[i]
             \/ i > L /\ i - L \in 1 .. n /\ v[i] = [frame |-> f, pos |-> i - L]
  <2>1. CASE i <= L BY <1>1, <1>2, <1>4, <1>5, <2>1
  <2>2. CASE i > L
    <3>1. i - L \in 1 .. n BY <1>1, <1>2, <1>5, <2>2
    <3>2. v[i] = c[i - L] BY <1>1, <1>2, <1>4, <1>5, <2>2
    <3> QED BY <1>1, <2>2, <3>1, <3>2
  <2> QED BY <1>2, <1>5, <2>1, <2>2
<1>7. \A i \in DOMAIN units : Member(q, units[i].frame) /\ units[i].pos <= LengthOf[units[i].frame]
  BY DEF Ordered, Placed
<1>8. Placed(p, v)
  <2> SUFFICES ASSUME NEW i \in DOMAIN v
               PROVE  Member(p, v[i].frame) /\ v[i].pos <= LengthOf[v[i].frame]
    BY DEF Placed
  <2>1. CASE i <= L /\ i \in DOMAIN units /\ v[i] = units[i] BY <1>3, <1>7, <2>1
  <2>2. CASE i > L /\ i - L \in 1 .. n /\ v[i] = [frame |-> f, pos |-> i - L]
    <3>1. v[i].frame = f /\ v[i].pos = i - L BY <2>2
    <3>2. i - L <= n BY <1>1, <2>2
    <3> QED BY <1>3, <3>1, <3>2 DEF n
  <2> QED BY <1>6, <2>1, <2>2
<1>9. Sorted(p, v)
  <2> SUFFICES ASSUME NEW i \in DOMAIN v, NEW j \in DOMAIN v, i < j PROVE Before(p, v[i], v[j])
    BY DEF Sorted
  <2>0. i \in Int /\ j \in Int BY <1>5
  <2>1. CASE j <= L /\ j \in DOMAIN units /\ v[j] = units[j]
    <3>1. i \in DOMAIN units /\ v[i] = units[i] BY <1>2, <1>6, <2>0, <2>1
    <3>2. Before(q, units[i], units[j]) BY <2>1, <3>1 DEF Ordered, Sorted
    <3>3. Position(p, units[i].frame) = Position(q, units[i].frame)
          /\ Position(p, units[j].frame) = Position(q, units[j].frame)
      BY <1>3, <1>7, <2>1, <3>1
    <3> QED BY <2>1, <3>1, <3>2, <3>3 DEF Before
  <2>2. CASE j > L /\ v[j] = [frame |-> f, pos |-> j - L]
    <3>1. v[j].frame = f /\ v[j].pos = j - L BY <2>2
    <3>2. CASE i <= L /\ i \in DOMAIN units /\ v[i] = units[i]
      <4>1. Member(q, v[i].frame) BY <1>7, <3>2
      <4> QED BY <1>3, <3>1, <4>1 DEF Before
    <3>3. CASE i > L /\ v[i] = [frame |-> f, pos |-> i - L]
      <4>1. v[i].frame = f /\ v[i].pos = i - L BY <3>3
      <4>2. i - L < j - L BY <1>2, <2>0
      <4> QED BY <3>1, <4>1, <4>2 DEF Before
    <3> QED BY <1>6, <3>2, <3>3
  <2> QED BY <1>6, <2>1, <2>2
<1> QED BY <1>8, <1>9 DEF Ordered, p, v, c

(***************************************************************************)
(* The units of whole frames, with none missing.                           *)
(***************************************************************************)
LEMMA ContentsConcat ==
  ASSUME NEW s \in Seq(Frames), NEW t \in Seq(Frames)
  PROVE  /\ Contents(s) \in Seq(Units)
         /\ Contents(s \o t) = Contents(s) \o Contents(t)
<1> DEFINE F == [x \in Frames |-> Content(x)]
<1>1. F \in Maps(Frames, Seq(Units)) BY ContentFacts DEF Maps
<1>2. ASSUME NEW u \in Seq(Frames) PROVE Contents(u) = FlattenSeq(Mapped(F, u))
  <2>1. \A i \in DOMAIN u : u[i] \in Frames BY ElementOfSeq, LenProperties
  <2>2. [i \in DOMAIN u |-> Content(u[i])] = Mapped(F, u) BY <2>1 DEF Mapped
  <2> QED BY <2>2 DEF Contents
<1> HIDE DEF F
<1>3. s \o t \in Seq(Frames) BY ConcatProperties
<1>4. Mapped(F, s) \in Seq(Seq(Units)) /\ Mapped(F, t) \in Seq(Seq(Units))
  BY <1>1, MappedType
<1>5. Mapped(F, s \o t) = Mapped(F, s) \o Mapped(F, t) BY <1>1, MappedConcat
<1>6. /\ Contents(s) = FlattenSeq(Mapped(F, s)) /\ Contents(t) = FlattenSeq(Mapped(F, t))
      /\ Contents(s \o t) = FlattenSeq(Mapped(F, s \o t))
  BY <1>2, <1>3
<1>7. FlattenSeq(Mapped(F, s)) \in Seq(Units) BY <1>4, FlattenType
<1>8. FlattenSeq(Mapped(F, s) \o Mapped(F, t)) = FlattenSeq(Mapped(F, s)) \o FlattenSeq(Mapped(F, t))
  BY <1>4, FlattenConcat
<1> QED BY <1>5, <1>6, <1>7, <1>8

LEMMA ContentsFew ==
  /\ Contents(<< >>) = << >>
  /\ \A f \in Frames : Contents(<<f>>) = Content(f)
<1>1. [i \in DOMAIN << >> |-> Content(<< >>[i])] = << >> OBVIOUS
<1>2. ASSUME NEW f \in Frames PROVE Contents(<<f>>) = Content(f)
  <2>1. Content(f) \in Seq(Units) BY ContentFacts
  <2>2. DOMAIN <<f>> = 1 .. 1 /\ <<f>>[1] = f OBVIOUS
  <2>3. [i \in DOMAIN <<f>> |-> Content(<<f>>[i])] = <<Content(f)>> BY <2>2
  <2> QED BY <2>1, <2>3, FlattenOne DEF Contents
<1> QED BY <1>1, <1>2, FlattenNone DEF Contents

\* The two parts of a sequence.
TwoParts(S, data, n, c, d) ==
  /\ c \in Seq(S) /\ Len(c) = n /\ \A i \in 1 .. n : c[i] = data[i]
  /\ d \in Seq(S) /\ Len(d) = Len(data) - n
  /\ data = c \o d
LEMMA Parts ==
  ASSUME NEW S, NEW data \in Seq(S), NEW n \in 0 .. Len(data)
  PROVE  TwoParts(S, data, n, SubSeq(data, 1, n), SubSeq(data, n + 1, Len(data)))
<1> DEFINE c == SubSeq(data, 1, n)
           m == n + 1
           l == Len(data)
           d == SubSeq(data, m, l)
<1>1. Len(data) \in Nat /\ n \in Nat /\ n <= Len(data) BY LenProperties
<1>2. \A i \in 1 .. Len(data) : data[i] \in S BY ElementOfSeq
<1>3. /\ c \in Seq(S) /\ Len(c) = n /\ \A i \in 1 .. n : c[i] = data[i]
  <2>1. \A i \in 1 .. n : data[i] \in S BY <1>1, <1>2
  <2>2. n \in Int /\ 1 \in Int BY <1>1
  <2>3. c \in Seq(S) BY <2>1, <2>2, SubSeqProperties
  <2>4. Len(c) = IF 1 <= n THEN n - 1 + 1 ELSE 0 BY <2>1, <2>2, SubSeqProperties
  <2>5. \A i \in 1 .. n - 1 + 1 : c[i] = data[1 + i - 1] BY <2>1, <2>2, SubSeqProperties
  <2> HIDE DEF c
  <2> QED BY <1>1, <2>3, <2>4, <2>5
<1>4. d \in Seq(S) /\ Len(d) = Len(data) - n
  <2>1. m \in Int /\ l \in Int BY <1>1
  <2>2. \A i \in m .. l : data[i] \in S BY <1>1, <1>2
  <2>3. Len(d) = (IF m <= l THEN l - m + 1 ELSE 0) /\ d \in Seq(S)
    <3> HIDE DEF m, l
    <3>1. d \in Seq(S) BY <2>1, <2>2, SubSeqProperties
    <3>2. Len(d) = IF m <= l THEN l - m + 1 ELSE 0 BY <2>1, <2>2, SubSeqProperties
    <3> QED BY <3>1, <3>2
  <2> HIDE DEF d
  <2> QED BY <1>1, <2>3
<1>5. data = c \o d
  <2>1. 1 \in 1 .. Len(data) + 1 /\ n \in 1 - 1 .. Len(data) /\ Len(data) \in n .. Len(data)
    BY <1>1
  <2>2. c \o d = SubSeq(data, 1, Len(data)) BY <2>1, ConcatAdjacentSubSeq
  <2>3. SubSeq(data, 1, Len(data)) = data BY SubSeqFull
  <2> QED BY <2>2, <2>3
<1> HIDE DEF c, d
<1>6. TwoParts(S, data, n, c, d) BY <1>3, <1>4, <1>5 DEF TwoParts
<1> QED BY <1>6 DEF c, d, m, l

\* The first units of data, and what follows them.
LEMMA Divided ==
  ASSUME NEW S, NEW data \in Seq(S), NEW rest \in Seq(S), NEW n \in 0 .. Len(data)
  PROVE  /\ SubSeq(data, 1, n) \in Seq(S) /\ Len(SubSeq(data, 1, n)) = n
         /\ \A i \in 1 .. n : SubSeq(data, 1, n)[i] = data[i]
         /\ SubSeq(data, n + 1, Len(data)) \in Seq(S)
         /\ Len(SubSeq(data, n + 1, Len(data))) = Len(data) - n
         /\ SubSeq(data, n + 1, Len(data)) \o rest \in Seq(S)
         /\ data = SubSeq(data, 1, n) \o SubSeq(data, n + 1, Len(data))
         /\ data \o rest = SubSeq(data, 1, n) \o (SubSeq(data, n + 1, Len(data)) \o rest)
<1> DEFINE c == SubSeq(data, 1, n)
           d == SubSeq(data, n + 1, Len(data))
<1>a. Assoc(S) BY Associative
<1>p. TwoParts(S, data, n, c, d) BY Parts
<1> HIDE DEF c, d
<1>1. c \in Seq(S) /\ d \in Seq(S) BY <1>p DEF TwoParts
<1>2. d \o rest \in Seq(S) BY <1>1, ConcatProperties
<1>3. (c \o d) \o rest = c \o (d \o rest) BY <1>1, <1>a DEF Assoc
<1>4. data \o rest = c \o (d \o rest)
  <2>1. data = c \o d BY <1>p DEF TwoParts
  <2> QED BY <1>3, <2>1
<1>5. /\ Len(c) = n /\ Len(d) = Len(data) - n /\ data = c \o d
      /\ \A i \in 1 .. n : c[i] = data[i]
  BY <1>p DEF TwoParts
<1> QED BY <1>1, <1>2, <1>4, <1>5 DEF c, d

\* The same sequence, divided in two ways.
LEMMA DividedTwice ==
  ASSUME NEW S, NEW data \in Seq(S), NEW rest \in Seq(S), NEW c \in Seq(S), NEW w \in Seq(S),
         data \o rest = c \o w
  PROVE  /\ data # << >> /\ c # << >> => data[1] = c[1]
         /\ Len(c) <= Len(data) =>
              /\ SubSeq(data, 1, Len(c)) = c
              /\ SubSeq(data, Len(c) + 1, Len(data)) \o rest = w
<1>c. Assoc(S) BY Associative
<1> DEFINE u == data \o rest
<1>1. Len(data) \in Nat /\ Len(rest) \in Nat /\ Len(c) \in Nat /\ Len(w) \in Nat
  BY LenProperties
<1>2. /\ u \in Seq(S) /\ Len(u) = Len(data) + Len(rest)
      /\ \A i \in 1 .. Len(data) + Len(rest) : u[i] = IF i <= Len(data) THEN data[i] ELSE rest[i - Len(data)]
  BY ConcatProperties
<1>a. u = c \o w OBVIOUS
<1>3. /\ Len(u) = Len(c) + Len(w)
      /\ \A i \in 1 .. Len(c) + Len(w) : u[i] = IF i <= Len(c) THEN c[i] ELSE w[i - Len(c)]
  <2> HIDE DEF u
  <2> QED BY <1>a, ConcatProperties
<1>b. u = data \o rest OBVIOUS
<1> HIDE DEF u
<1>4. ASSUME NEW i \in 1 .. Len(c), i <= Len(data) PROVE data[i] = c[i]
  <2>1. i \in 1 .. Len(data) + Len(rest) /\ i \in 1 .. Len(c) + Len(w) /\ i <= Len(c)
    BY <1>1, <1>4
  <2> QED BY <1>2, <1>3, <1>4, <2>1
<1>5. ASSUME data # << >>, c # << >> PROVE data[1] = c[1]
  <2>1. Len(data) \in Nat \ {0} /\ Len(c) \in Nat \ {0} BY <1>5, EmptySeq
  <2> QED BY <1>4, <2>1
<1>6. ASSUME Len(c) <= Len(data)
      PROVE  SubSeq(data, 1, Len(c)) = c /\ SubSeq(data, Len(c) + 1, Len(data)) \o rest = w
  <2> DEFINE n == Len(c)
             k == SubSeq(data, 1, n)
             d == SubSeq(data, n + 1, Len(data))
  <2>0. n = Len(c) OBVIOUS
  <2>1. n \in 0 .. Len(data) BY <1>1, <1>6
  <2> HIDE DEF n
  <2>2. /\ k \in Seq(S) /\ d \in Seq(S) /\ Len(k) = n /\ d \o rest \in Seq(S)
        /\ \A i \in 1 .. n : k[i] = data[i]
        /\ data \o rest = k \o (d \o rest)
    <3>1. k \in Seq(S) BY <2>1, Divided
    <3>2. d \in Seq(S) BY <2>1, Divided
    <3>3. Len(k) = n BY <2>1, Divided
    <3>4. d \o rest \in Seq(S) BY <2>1, Divided
    <3>5. \A i \in 1 .. n : k[i] = data[i] BY <2>1, Divided
    <3>6. data \o rest = k \o (d \o rest)
      <4>p. TwoParts(S, data, n, k, d) BY <2>1, Parts
      <4> HIDE DEF k, d
      <4>1. data = k \o d BY <4>p DEF TwoParts
      <4>2. (k \o d) \o rest = k \o (d \o rest) BY <3>1, <3>2, <1>c DEF Assoc
      <4> QED BY <4>1, <4>2
    <3> QED BY <3>1, <3>2, <3>3, <3>4, <3>5, <3>6
  <2> HIDE DEF k, d
  <2>3. \A i \in 1 .. Len(k) : k[i] = c[i]
    <3> SUFFICES ASSUME NEW i \in 1 .. n PROVE k[i] = c[i] BY <2>2
    <3>1. i <= Len(data) /\ i \in 1 .. Len(c) BY <1>1, <2>0, <2>1
    <3> QED BY <1>4, <2>2, <3>1
  <2>4. k = c BY <2>0, <2>2, <2>3, SeqEqual
  <2>5. c \o (d \o rest) = c \o w BY <1>a, <1>b, <2>2, <2>4
  <2>6. \A x, y, z \in Seq(S) : x \o y = x \o z => y = z BY ConcatSimplifications
  <2>7. d \o rest = w BY <2>2, <2>5, <2>6
  <2> QED BY <2>0, <2>4, <2>7 DEF k, d
<1> QED BY <1>5, <1>6

\* With q queued, the first frames were taken and units are those of all the others.
Whole(q, done, units) ==
  \E m \in 0 .. Len(q) :
    done = SubSeq(q, 1, m) /\ units = Contents(SubSeq(q, m + 1, Len(q)))

\* Of whole frames, the first data is a frame, and without it the rest is whole.
LEMMA WholeHead ==
  ASSUME NEW q \in Seq(Frames), NEW done, NEW units, Whole(q, done, units), units # << >>
  PROVE  \E f \in Frames, w \in Seq(Units) :
           units = Content(f) \o w /\ Whole(q, Append(done, f), w)
<1> DEFINE L == Len(q)
<1>0. L \in Nat BY LenProperties
<1>1. PICK m \in 0 .. L : done = SubSeq(q, 1, m) /\ units = Contents(SubSeq(q, m + 1, L))
  BY DEF Whole
<1>2. m < L
  <2> SUFFICES ASSUME m = L PROVE FALSE BY <1>0
  <2>1. SubSeq(q, m + 1, L) = << >> BY <1>0, SubSeqEmpty
  <2> QED BY <1>1, <2>1, ContentsFew
<1> DEFINE f == q[m + 1]
           s == SubSeq(q, m + 2, L)
           w == Contents(s)
<1>3. m + 1 \in 1 .. L /\ f \in Frames
  <2>1. m + 1 \in 1 .. Len(q) BY <1>0, <1>2
  <2> QED BY <2>1, ElementOfSeq
<1>4. SubSeq(q, m + 1, L) = <<f>> \o s
  <2>1. m + 1 \in 1 .. Len(q) /\ Len(q) \in m + 1 .. Len(q) /\ (m + 1) + 1 = m + 2
    BY <1>0, <1>2, <1>3
  <2>2. SubSeq(q, m + 1, Len(q)) = <<q[m + 1]>> \o SubSeq(q, (m + 1) + 1, Len(q))
    BY <2>1, SubSeqRecursiveFirst
  <2> QED BY <2>1, <2>2
<1>5. s \in Seq(Frames)
  <2>1. \A i \in m + 2 .. L : q[i] \in Frames
    <3>1. \A i \in m + 2 .. L : i \in 1 .. Len(q) BY <1>0, <1>2
    <3> QED BY <3>1, ElementOfSeq
  <2>2. m + 2 \in Int /\ L \in Int BY <1>0
  <2> QED BY <2>1, <2>2, SubSeqProperties
<1>6. Append(done, f) = SubSeq(q, 1, m + 1)
  <2>1. 1 \in 1 .. Len(q) /\ m + 1 \in 1 .. Len(q) /\ (m + 1) - 1 = m BY <1>0, <1>3
  <2>2. SubSeq(q, 1, m + 1) = SubSeq(q, 1, (m + 1) - 1) \o <<q[m + 1]>>
    BY <2>1, SubSeqRecursiveSecond
  <2>3. done \in Seq(Frames)
    <3>1. \A i \in 1 .. m : q[i] \in Frames
      <4>1. \A i \in 1 .. m : i \in 1 .. Len(q) BY <1>0, <1>2
      <4> QED BY <4>1, ElementOfSeq
    <3>2. m \in Int BY <1>0
    <3> QED BY <1>1, <3>1, <3>2, SubSeqProperties
  <2>4. Append(done, f) = done \o <<f>> BY <1>3, <2>3, AppendIsConcat
  <2> QED BY <1>1, <2>1, <2>2, <2>4
<1> HIDE DEF f, s
<1>7. units = Content(f) \o w
  <2>1. <<f>> \in Seq(Frames) BY <1>3
  <2>2. Contents(<<f>> \o s) = Contents(<<f>>) \o Contents(s) BY <1>5, <2>1, ContentsConcat
  <2> QED BY <1>1, <1>3, <1>4, <2>2, ContentsFew
<1>8. w \in Seq(Units) BY <1>5, ContentsConcat
<1>9. Whole(q, Append(done, f), w)
  <2>1. m + 1 \in 0 .. Len(q) /\ (m + 1) + 1 = m + 2 BY <1>0, <1>2
  <2>2. w = Contents(SubSeq(q, (m + 1) + 1, Len(q))) BY <2>1 DEF s
  <2> HIDE DEF w
  <2> QED BY <1>6, <2>1, <2>2 DEF Whole
<1> QED BY <1>3, <1>7, <1>8, <1>9

LEMMA WholeQueue ==
  ASSUME NEW q \in Seq(Frames), NEW done, NEW units, NEW f \in Frames, Whole(q, done, units)
  PROVE  Whole(Append(q, f), done, units \o Content(f))
<1> DEFINE L == Len(q)
           p == Append(q, f)
<1>0. L \in Nat BY LenProperties
<1>1. PICK m \in 0 .. L : done = SubSeq(q, 1, m) /\ units = Contents(SubSeq(q, m + 1, L))
  BY DEF Whole
<1>2. /\ p \in Seq(Frames) /\ Len(p) = L + 1 /\ p[L + 1] = f
      /\ \A i \in 1 .. L : p[i] = q[i]
  BY <1>0, AppendProperties
<1> HIDE DEF p
<1>3. q = SubSeq(p, 1, L)
  <2>1. 1 \in 1 .. Len(p) /\ L + 1 \in 1 .. Len(p) BY <1>0, <1>2
  <2>2. \A i \in 1 .. L : p[i] \in Frames
    <3>1. \A i \in 1 .. L : i \in 1 .. Len(p) BY <1>0, <1>2
    <3> QED BY <1>2, <3>1, ElementOfSeq
  <2>3. L \in Int /\ 1 \in Int BY <1>0
  <2> DEFINE r == SubSeq(p, 1, L)
  <2>4. /\ r \in Seq(Frames) /\ Len(r) = IF 1 <= L THEN L - 1 + 1 ELSE 0
        /\ \A i \in 1 .. L - 1 + 1 : r[i] = p[1 + i - 1]
    BY <2>2, <2>3, SubSeqProperties
  <2> HIDE DEF r
  <2>5. Len(r) = L BY <1>0, <2>4
  <2>6. \A i \in 1 .. Len(q) : q[i] = r[i] BY <1>0, <1>2, <2>4
  <2>7. q = r BY <2>4, <2>5, <2>6, SeqEqual
  <2> QED BY <2>7 DEF r
<1>4. SubSeq(p, 1, m) = SubSeq(q, 1, m) /\ SubSeq(p, m + 1, L) = SubSeq(q, m + 1, L)
  <2>1. \A i \in 1 .. L : q[i] = p[i] BY <1>2
  <2>2. SubSeq(p, 1, m) = [i \in 1 .. m |-> p[i]] /\ SubSeq(q, 1, m) = [i \in 1 .. m |-> q[i]]
    BY <1>0
  <2>3. [i \in 1 .. m |-> p[i]] = [i \in 1 .. m |-> q[i]] BY <1>0, <2>1
  <2>4. SubSeq(p, m + 1, L) = [i \in 1 .. L - m |-> p[m + i]]
        /\ SubSeq(q, m + 1, L) = [i \in 1 .. L - m |-> q[m + i]]
    BY <1>0
  <2>5. [i \in 1 .. L - m |-> p[m + i]] = [i \in 1 .. L - m |-> q[m + i]]
    <3>1. \A i \in 1 .. L - m : m + i \in 1 .. L BY <1>0
    <3> QED BY <2>1, <3>1
  <2> QED BY <2>2, <2>3, <2>4, <2>5
<1>5. SubSeq(p, m + 1, L + 1) = SubSeq(q, m + 1, L) \o <<f>>
  <2>1. m + 1 \in 1 .. Len(p) /\ L + 1 \in m + 1 .. Len(p) /\ (L + 1) - 1 = L BY <1>0, <1>2
  <2>2. SubSeq(p, m + 1, L + 1) = SubSeq(p, m + 1, (L + 1) - 1) \o <<p[L + 1]>>
    BY <1>2, <2>1, SubSeqRecursiveSecond
  <2> QED BY <1>2, <1>4, <2>1, <2>2
<1>6. SubSeq(q, m + 1, L) \in Seq(Frames)
  <2>1. \A i \in m + 1 .. L : q[i] \in Frames
    <3>1. \A i \in m + 1 .. L : i \in 1 .. Len(q) BY <1>0
    <3> QED BY <3>1, ElementOfSeq
  <2>2. m + 1 \in Int /\ L \in Int BY <1>0
  <2> QED BY <2>1, <2>2, SubSeqProperties
<1>7. Contents(SubSeq(p, m + 1, L + 1)) = units \o Content(f)
  <2>1. <<f>> \in Seq(Frames) /\ Contents(<<f>>) = Content(f) BY ContentsFew
  <2> QED BY <1>1, <1>5, <1>6, <2>1, ContentsConcat
<1>8. m \in 0 .. Len(p) BY <1>0, <1>2
<1>9. done = SubSeq(p, 1, m) /\ units \o Content(f) = Contents(SubSeq(p, m + 1, Len(p)))
  BY <1>1, <1>2, <1>4, <1>7
<1> HIDE DEF L
<1> QED BY <1>8, <1>9 DEF Whole, p

\* What was taken of whole frames are the first that were queued.
LEMMA WholePrefix ==
  ASSUME NEW q \in Seq(Frames), NEW done, NEW units, Whole(q, done, units)
  PROVE  done \in Seq(Frames) /\ IsPrefix(done, q)
<1>0. Len(q) \in Nat BY LenProperties
<1>1. PICK m \in 0 .. Len(q) : done = SubSeq(q, 1, m) BY DEF Whole
<1>2. \A i \in 1 .. m : q[i] \in Frames
  <2>1. \A i \in 1 .. m : i \in 1 .. Len(q) BY <1>0
  <2> QED BY <2>1, ElementOfSeq
<1>3. m \in Int BY <1>0
<1>4. done \in Seq(Frames) /\ Len(done) = IF 1 <= m THEN m - 1 + 1 ELSE 0
  BY <1>1, <1>2, <1>3, SubSeqProperties
<1>5. Len(done) = m BY <1>0, <1>4
<1>6. SubSeq(done, 1, Len(done)) = done BY <1>4, SubSeqFull
<1> QED BY <1>0, <1>1, <1>4, <1>5, <1>6 DEF IsPrefix
(***************************************************************************)
(* What was taken, in the order of units: the last unit of each frame.     *)
(***************************************************************************)
Final(f) == [frame |-> f, pos |-> LengthOf[f]]
FinalOf(x) == IF x = None THEN << >> ELSE <<Final(x)>>
Finals(done) == FlattenSeq([i \in DOMAIN done |-> FinalOf(done[i])])

LEMMA FinalType ==
  /\ \A f \in Frames : Final(f) \in Units /\ f # None
  /\ \A x \in Taken : FinalOf(x) \in Seq(Units)
<1>1. ASSUME NEW f \in Frames PROVE Final(f) \in Units /\ f # None
  BY ChannelAssumption DEF Final, Units
<1>2. << >> \in Seq(Units) OBVIOUS
<1> QED BY <1>1, <1>2 DEF FinalOf, Taken

LEMMA FinalsConcat ==
  ASSUME NEW s \in Seq(Taken), NEW t \in Seq(Taken)
  PROVE  /\ Finals(s) \in Seq(Units)
         /\ Finals(s \o t) = Finals(s) \o Finals(t)
<1> DEFINE F == [x \in Taken |-> FinalOf(x)]
<1>1. F \in Maps(Taken, Seq(Units)) BY FinalType DEF Maps
<1>2. ASSUME NEW u \in Seq(Taken) PROVE Finals(u) = FlattenSeq(Mapped(F, u))
  <2>1. \A i \in DOMAIN u : u[i] \in Taken BY ElementOfSeq, LenProperties
  <2>2. [i \in DOMAIN u |-> FinalOf(u[i])] = Mapped(F, u) BY <2>1 DEF Mapped
  <2> QED BY <2>2 DEF Finals
<1> HIDE DEF F
<1>3. s \o t \in Seq(Taken) BY ConcatProperties
<1>4. Mapped(F, s) \in Seq(Seq(Units)) /\ Mapped(F, t) \in Seq(Seq(Units))
  BY <1>1, MappedType
<1>5. Mapped(F, s \o t) = Mapped(F, s) \o Mapped(F, t) BY <1>1, MappedConcat
<1>6. /\ Finals(s) = FlattenSeq(Mapped(F, s)) /\ Finals(t) = FlattenSeq(Mapped(F, t))
      /\ Finals(s \o t) = FlattenSeq(Mapped(F, s \o t))
  BY <1>2, <1>3
<1>7. FlattenSeq(Mapped(F, s)) \in Seq(Units) BY <1>4, FlattenType
<1>8. FlattenSeq(Mapped(F, s) \o Mapped(F, t)) = FlattenSeq(Mapped(F, s)) \o FlattenSeq(Mapped(F, t))
  BY <1>4, FlattenConcat
<1> QED BY <1>5, <1>6, <1>7, <1>8

LEMMA FinalsFew ==
  /\ Finals(<< >>) = << >>
  /\ \A x \in Taken : <<x>> \in Seq(Taken) /\ Finals(<<x>>) = FinalOf(x)
<1>1. [i \in DOMAIN << >> |-> FinalOf(<< >>[i])] = << >> OBVIOUS
<1>2. ASSUME NEW x \in Taken PROVE <<x>> \in Seq(Taken) /\ Finals(<<x>>) = FinalOf(x)
  <2>1. FinalOf(x) \in Seq(Units) BY FinalType
  <2>2. DOMAIN <<x>> = 1 .. 1 /\ <<x>>[1] = x OBVIOUS
  <2>3. [i \in DOMAIN <<x>> |-> FinalOf(<<x>>[i])] = <<FinalOf(x)>> BY <2>2
  <2> QED BY <2>1, <2>3, FlattenOne DEF Finals
<1> QED BY <1>1, <1>2, FlattenNone DEF Finals

LEMMA FinalsAppend ==
  ASSUME NEW s \in Seq(Taken), NEW x \in Taken
  PROVE  Finals(Append(s, x)) = Finals(s) \o FinalOf(x)
<1>1. <<x>> \in Seq(Taken) /\ Finals(<<x>>) = FinalOf(x) BY FinalsFew
<1>2. Append(s, x) = s \o <<x>> BY AppendIsConcat
<1>3. Finals(s \o <<x>>) = Finals(s) \o Finals(<<x>>) BY <1>1, FinalsConcat
<1> QED BY <1>1, <1>2, <1>3

\* The last unit of a frame is what its others come before.
LEMMA ContentFinal ==
  ASSUME NEW f \in Frames
  PROVE  \E k \in Seq(Units) : Content(f) = k \o <<Final(f)>>
<1> DEFINE n == LengthOf[f]
           c == Content(f)
           k == SubSeq(c, 1, n - 1)
<1>1. /\ n \in Nat \ {0} /\ c \in Seq(Units) /\ Len(c) = n
      /\ \A j \in 1 .. n : c[j] = [frame |-> f, pos |-> j]
  BY ContentFacts
<1>n. n = LengthOf[f] OBVIOUS
<1> HIDE DEF c, n
<1>2. 1 \in 1 .. Len(c) /\ n \in 1 .. Len(c) /\ n - 1 \in 0 .. Len(c) BY <1>1
<1>3. SubSeq(c, 1, n) = k \o <<c[n]>> BY <1>1, <1>2, SubSeqRecursiveSecond
<1>4. SubSeq(c, 1, n) = c BY <1>1, SubSeqFull
<1>5. c[n] = Final(f) BY <1>1, <1>2, <1>n DEF Final
<1>6. k \in Seq(Units) BY <1>1, <1>2, Divided
<1> HIDE DEF k
<1> QED BY <1>3, <1>4, <1>5, <1>6 DEF c

\* Concatenation of units, as an operator of which the provers only know these facts.
Cat(x, y) == x \o y
LEMMA CatFacts ==
  /\ \A x, y \in Seq(Units) : Cat(x, y) \in Seq(Units)
  /\ \A x, y, z \in Seq(Units) : Cat(Cat(x, y), z) = Cat(x, Cat(y, z))
  /\ \A x \in Seq(Units) : Cat(<< >>, x) = x /\ Cat(x, << >>) = x
<1>1. \A x, y \in Seq(Units) : Cat(x, y) \in Seq(Units) BY ConcatProperties DEF Cat
<1>2. Assoc(Units) BY Associative
<1>3. \A x, y, z \in Seq(Units) : Cat(Cat(x, y), z) = Cat(x, Cat(y, z)) BY <1>2 DEF Assoc, Cat
<1>4. \A x \in Seq(Units) : Cat(<< >>, x) = x /\ Cat(x, << >>) = x BY ConcatEmptySeq DEF Cat
<1> QED BY <1>1, <1>3, <1>4

\* Units lost from the middle of four parts.
LEMMA OrderedDrop ==
  ASSUME NEW q, NEW a \in Seq(Units), NEW m \in Seq(Units), NEW k \in Seq(Units),
         NEW w \in Seq(Units), Ordered(q, a \o (m \o (k \o w)))
  PROVE  Ordered(q, a \o (m \o w))
<1> DEFINE b == Cat(a, m)
<1>1. Cat(a, Cat(m, Cat(k, w))) = Cat(Cat(b, k), w) /\ b \in Seq(Units) BY CatFacts
<1>2. Cat(a, Cat(m, w)) = Cat(b, w) BY CatFacts
<1>3. Ordered(q, Cat(a, Cat(m, Cat(k, w)))) BY Zenon DEF Cat
<1> HIDE DEF b
<1>4. Ordered(q, Cat(Cat(b, k), w)) BY <1>1, <1>3, Zenon
<1>5. Ordered(q, Cat(b, w)) BY <1>1, <1>4, OrderedThinned DEF Cat
<1>6. Ordered(q, Cat(a, Cat(m, w))) BY <1>2, <1>5, Zenon
<1> QED BY <1>6, Zenon DEF Cat

\* A whole frame is taken.
LEMMA OrderedTake ==
  ASSUME NEW q, NEW a \in Seq(Units), NEW m \in Seq(Units), NEW f \in Frames,
         NEW w \in Seq(Units), Ordered(q, a \o (m \o (Content(f) \o w)))
  PROVE  Ordered(q, a \o ((m \o <<Final(f)>>) \o w))
<1> DEFINE l == <<Final(f)>>
<1>1. l \in Seq(Units) BY FinalType
<1>2. PICK k \in Seq(Units) : Content(f) = k \o l BY ContentFinal
<1> HIDE DEF l
<1>3. Cat(Cat(k, l), w) = Cat(k, Cat(l, w)) /\ Cat(l, w) \in Seq(Units) BY <1>1, CatFacts
<1>4. Ordered(q, Cat(a, Cat(m, Cat(Cat(k, l), w)))) BY <1>2, Zenon DEF Cat
<1>5. Ordered(q, Cat(a, Cat(m, Cat(k, Cat(l, w))))) BY <1>3, <1>4, Zenon
<1>6. Ordered(q, Cat(a, Cat(m, Cat(l, w))))
  <2> DEFINE v == Cat(l, w)
  <2>1. Ordered(q, a \o (m \o (k \o v))) /\ v \in Seq(Units) BY <1>3, <1>5, Zenon DEF Cat
  <2> HIDE DEF v
  <2>2. Ordered(q, a \o (m \o v)) BY <2>1, OrderedDrop
  <2> QED BY <2>2, Zenon DEF Cat, v
<1>7. Cat(m, Cat(l, w)) = Cat(Cat(m, l), w) BY <1>1, CatFacts
<1>8. Ordered(q, Cat(a, Cat(Cat(m, l), w))) BY <1>6, <1>7, Zenon
<1> QED BY <1>8, Zenon DEF Cat, l

\* Of two parts in order, each is, and all of one comes before all of the other.
LEMMA OrderedApart ==
  ASSUME NEW q, NEW a \in Seq(Units), NEW b \in Seq(Units), Ordered(q, a \o b)
  PROVE  /\ Ordered(q, a) /\ Ordered(q, b)
         /\ \A u, v : Member(a, u) /\ Member(b, v) => Before(q, u, v)
<1>1. << >> \in Seq(Units) /\ << >> \o a = a /\ << >> \o b = b /\ a \o << >> = a
      /\ (a \o b) \o << >> = a \o b
  <2>1. a \o b \in Seq(Units) BY ConcatProperties
  <2> QED BY <2>1, ConcatEmptySeq
<1>2. Ordered(q, a)
  <2>1. Ordered(q, (a \o b) \o << >>) BY <1>1
  <2>2. Ordered(q, a \o << >>) BY <1>1, <2>1, OrderedThinned
  <2> QED BY <1>1, <2>2
<1>3. Ordered(q, b)
  <2>1. Ordered(q, (<< >> \o a) \o b) BY <1>1
  <2>2. Ordered(q, << >> \o b) BY <1>1, <2>1, OrderedThinned
  <2> QED BY <1>1, <2>2
<1>4. ASSUME NEW i \in DOMAIN a, NEW j \in DOMAIN b PROVE Before(q, a[i], b[j])
  <2> DEFINE c == a \o b
             m == Len(a)
             n == m + j
  <2>1. m \in Nat /\ Len(b) \in Nat /\ i \in 1 .. m /\ j \in 1 .. Len(b) BY LenProperties
  <2>2. /\ c \in Seq(Units) /\ Len(c) = m + Len(b)
        /\ \A x \in 1 .. m + Len(b) : c[x] = IF x <= m THEN a[x] ELSE b[x - m]
    BY ConcatProperties
  <2>3. DOMAIN c = 1 .. m + Len(b) BY <2>2, LenProperties
  <2>4. Sorted(q, c) BY DEF Ordered
  <2> HIDE DEF c, m
  <2>5. i \in 1 .. m + Len(b) /\ n \in 1 .. m + Len(b) /\ i <= m /\ ~(n <= m) /\ n - m = j /\ i < n
    BY <2>1
  <2>6. c[i] = a[i] BY <2>2, <2>5
  <2> HIDE DEF n
  <2>7. c[n] = b[j] BY <2>2, <2>5
  <2>8. Before(q, c[i], c[n]) BY <2>3, <2>4, <2>5 DEF Sorted
  <2> QED BY <2>6, <2>7, <2>8
<1> QED BY <1>2, <1>3, <1>4 DEF Member

LEMMA MemberParts ==
  ASSUME NEW S, NEW a \in Seq(S), NEW b \in Seq(S), NEW u, Member(a, u) \/ Member(b, u)
  PROVE  Member(a \o b, u)
<1> DEFINE c == a \o b
           m == Len(a)
<1>1. m \in Nat /\ Len(b) \in Nat /\ DOMAIN a = 1 .. m /\ DOMAIN b = 1 .. Len(b)
  BY LenProperties
<1>2. /\ c \in Seq(S) /\ Len(c) = m + Len(b)
      /\ \A x \in 1 .. m + Len(b) : c[x] = IF x <= m THEN a[x] ELSE b[x - m]
  BY ConcatProperties
<1>3. DOMAIN c = 1 .. m + Len(b) BY <1>2, LenProperties
<1> HIDE DEF c, m
<1>4. ASSUME NEW i \in DOMAIN a, a[i] = u PROVE Member(c, u)
  <2>1. i \in DOMAIN c /\ i \in 1 .. m + Len(b) /\ i <= m BY <1>1, <1>3
  <2> QED BY <1>2, <1>4, <2>1 DEF Member
<1>5. ASSUME NEW j \in DOMAIN b, b[j] = u PROVE Member(c, u)
  <2>1. m + j \in DOMAIN c /\ m + j \in 1 .. m + Len(b) /\ ~(m + j <= m) /\ (m + j) - m = j
    BY <1>1, <1>3
  <2>2. c[m + j] = u BY <1>2, <1>5, <2>1
  <2> QED BY <2>1, <2>2 DEF Member
<1> QED BY <1>4, <1>5 DEF Member, c

\* A frame that was taken is there.
LEMMA FinalsMember ==
  ASSUME NEW done \in Seq(Taken), NEW i \in DOMAIN done, done[i] # None
  PROVE  /\ Member(Finals(SubSeq(done, 1, i)), Final(done[i]))
         /\ Member(Finals(SubSeq(done, i, Len(done))), Final(done[i]))
         /\ Member(Finals(done), Final(done[i]))
<1> DEFINE x == done[i]
           L == Len(done)
           a == SubSeq(done, 1, i - 1)
           b == SubSeq(done, i + 1, L)
           c == SubSeq(done, 1, i)
           d == SubSeq(done, i, L)
           u == Final(x)
<1>1. L \in Nat /\ i \in 1 .. L BY LenProperties
<1>2. x \in Taken /\ x # None BY <1>1, ElementOfSeq
<1>3. <<x>> \in Seq(Taken) /\ Finals(<<x>>) = <<u>> BY <1>2, FinalsFew DEF FinalOf
<1>4. a \in Seq(Taken) /\ b \in Seq(Taken)
  <2>1. i - 1 \in 0 .. Len(done) /\ i \in 0 .. Len(done) BY <1>1
  <2> QED BY <2>1, Divided
<1>5. c = a \o <<x>> /\ d = <<x>> \o b
  <2>1. 1 \in 1 .. Len(done) /\ i \in 1 .. Len(done) /\ L \in i .. Len(done) BY <1>1
  <2>2. c = a \o <<x>> BY <2>1, SubSeqRecursiveSecond
  <2>3. d = <<x>> \o b BY <2>1, SubSeqRecursiveFirst
  <2> QED BY <2>2, <2>3
<1>6. done = c \o b /\ c \in Seq(Taken)
  <2>1. i \in 0 .. Len(done) BY <1>1
  <2>2. TwoParts(Taken, done, i, c, b) BY <2>1, Parts
  <2> QED BY <2>2 DEF TwoParts
<1>7. Member(<<u>>, u) BY DEF Member
<1> HIDE DEF a, b, c, d, u, x
<1>8. /\ Finals(c) = Finals(a) \o <<u>> /\ Finals(a) \in Seq(Units)
      /\ Finals(d) = <<u>> \o Finals(b) /\ Finals(b) \in Seq(Units) /\ <<u>> \in Seq(Units)
      /\ Finals(done) = Finals(c) \o Finals(b) /\ Finals(c) \in Seq(Units)
  <2>1. Finals(a \o <<x>>) = Finals(a) \o Finals(<<x>>) /\ Finals(a) \in Seq(Units)
    BY <1>3, <1>4, FinalsConcat
  <2>2. Finals(<<x>> \o b) = Finals(<<x>>) \o Finals(b) /\ Finals(<<x>>) \in Seq(Units)
    BY <1>3, <1>4, FinalsConcat
  <2>3. Finals(c \o b) = Finals(c) \o Finals(b) /\ Finals(b) \in Seq(Units) /\ Finals(c) \in Seq(Units)
    BY <1>4, <1>6, FinalsConcat
  <2> QED BY <1>3, <1>5, <1>6, <2>1, <2>2, <2>3
<1>9. Member(Finals(c), u)
  <2>1. Member(Finals(a) \o <<u>>, u) BY <1>7, <1>8, MemberParts
  <2> QED BY <1>8, <2>1
<1>10. Member(Finals(d), u)
  <2>1. Member(<<u>> \o Finals(b), u) BY <1>7, <1>8, MemberParts
  <2> QED BY <1>8, <2>1
<1>11. Member(Finals(done), u)
  <2>1. Member(Finals(c) \o Finals(b), u) BY <1>8, <1>9, MemberParts
  <2> QED BY <1>8, <2>1
<1> QED BY <1>9, <1>10, <1>11 DEF c, d, u, x

LEMMA EarlierIs ==
  ASSUME NEW q, NEW f \in Taken, NEW g \in Taken,
         None \notin {f, g} => Before(q, Final(f), Final(g))
  PROVE  Earlier(q, f, g)
<1> SUFFICES ASSUME None \notin {f, g} PROVE Position(q, f) < Position(q, g) BY DEF Earlier
<1>1. f \in Frames /\ Final(f).pos \in Nat BY ChannelAssumption DEF Taken, Final
<1>2. Final(f).frame = f /\ Final(g).frame = g /\ (f = g => Final(f).pos = Final(g).pos)
  BY DEF Final
<1> QED BY <1>1, <1>2 DEF Before

\* The frames that were taken are in order, and before those taken of a later part.
LEMMA FinalsInOrder ==
  ASSUME NEW q, NEW done \in Seq(Taken), Ordered(q, Finals(done))
  PROVE  InOrder(q, done)
<1> SUFFICES ASSUME NEW i \in DOMAIN done, NEW j \in DOMAIN done, i < j
             PROVE  Earlier(q, done[i], done[j])
  BY DEF InOrder
<1> DEFINE L == Len(done)
           a == SubSeq(done, 1, i)
           b == SubSeq(done, i + 1, L)
           x == done[j]
<1>1. L \in Nat /\ i \in 1 .. L /\ j \in 1 .. L /\ j - i \in 1 .. L - i /\ DOMAIN done = 1 .. L
  BY LenProperties
<1>2. done[i] \in Taken /\ x \in Taken BY <1>1, ElementOfSeq
<1>3. i \in 0 .. Len(done) BY <1>1
<1>4. TwoParts(Taken, done, i, a, b) BY <1>3, Parts
<1>5. b[j - i] = x /\ j - i \in DOMAIN b
  <2>1. /\ a \in Seq(Taken) /\ Len(a) = i /\ b \in Seq(Taken) /\ Len(b) = L - i
        /\ done = a \o b
    BY <1>4 DEF TwoParts
  <2>2. L = Len(done) OBVIOUS
  <2> HIDE DEF a, b, L
  <2>3. \A n \in 1 .. Len(a) + Len(b) : done[n] = IF n <= Len(a) THEN a[n] ELSE b[n - Len(a)]
    BY <2>1, ConcatProperties
  <2>4. j \in 1 .. Len(a) + Len(b) /\ ~(j <= Len(a)) BY <1>1, <2>1
  <2>5. DOMAIN b = 1 .. L - i BY <2>1, LenProperties
  <2> QED BY <1>1, <2>1, <2>3, <2>4, <2>5
<1>6. a \in Seq(Taken) /\ b \in Seq(Taken) /\ done = a \o b BY <1>4 DEF TwoParts
<1>7. /\ Finals(done) = Finals(a) \o Finals(b)
      /\ Finals(a) \in Seq(Units) /\ Finals(b) \in Seq(Units)
  <2> HIDE DEF a, b
  <2> QED BY <1>6, FinalsConcat
<1> HIDE DEF b, x
<1>8. ASSUME done[i] # None, x # None PROVE Before(q, Final(done[i]), Final(x))
  <2>1. Member(Finals(a), Final(done[i])) BY <1>8, FinalsMember
  <2>2. Member(Finals(b), Final(x)) BY <1>5, <1>6, <1>8, FinalsMember
  <2> QED BY <1>7, <2>1, <2>2, OrderedApart
<1>9. Earlier(q, done[i], x) BY <1>2, <1>8, EarlierIs
<1> QED BY <1>9 DEF x

LEMMA FinalsApart ==
  ASSUME NEW q, NEW s \in Seq(Taken), NEW t \in Seq(Taken), NEW a \in Seq(Units),
         NEW b \in Seq(Units), Ordered(q, a \o b),
         \A u : Member(Finals(s), u) => Member(a, u),
         \A u : Member(Finals(t), u) => Member(b, u),
         NEW i \in DOMAIN s, NEW j \in DOMAIN t
  PROVE  Earlier(q, s[i], t[j])
<1>1. s[i] \in Taken /\ t[j] \in Taken BY ElementOfSeq, LenProperties
<1>2. ASSUME s[i] # None, t[j] # None PROVE Before(q, Final(s[i]), Final(t[j]))
  <2>1. Member(Finals(s), Final(s[i])) BY <1>2, FinalsMember
  <2>2. Member(Finals(t), Final(t[j])) BY <1>2, FinalsMember
  <2> QED BY <2>1, <2>2, OrderedApart
<1> QED BY <1>1, <1>2, EarlierIs

(***************************************************************************)
(* Frames taken from the data.                                             *)
(***************************************************************************)
Bufs == [data : Seq(Units), taken : Seq(Taken), stop : BOOLEAN, broken : BOOLEAN]

\* One call of ConsumeFrame takes nothing, or takes the first n units for x.
TakesNothing(b, c) == c.data = b.data /\ c.taken = b.taken
Takes(b, c, n, x) ==
  /\ c.data = SubSeq(b.data, n + 1, Len(b.data))
  /\ c.taken = Append(b.taken, x)
  /\ c.broken = b.broken

\* The parser takes one frame, some data for none, or nothing.
LEMMA ConsumeFrameEffect ==
  ASSUME NEW b \in Bufs, NEW g \in Garbage
  PROVE  LET c == ConsumeFrame(g, b) IN
         /\ c \in Bufs
         /\ \/ TakesNothing(b, c)
            \/ \E n \in 1 .. Len(b.data) : Takes(b, c, n, None)
            \/ \E x \in Frames : /\ LengthOf[x] <= Len(b.data)
                                 /\ SubSeq(b.data, 1, LengthOf[x]) = Content(x)
                                 /\ Takes(b, c, LengthOf[x], x)
         /\ b.data = << >> => TakesNothing(b, c) /\ c.broken = b.broken
         /\ \A x \in Frames : b.data # << >> /\ b.data[1] = [frame |-> x, pos |-> 1] =>
              \/ TakesNothing(b, c) /\ c.broken = b.broken
              \/ /\ LengthOf[x] <= Len(b.data)
                 /\ SubSeq(b.data, 1, LengthOf[x]) = Content(x) => Takes(b, c, LengthOf[x], x)
<1> DEFINE c == ConsumeFrame(g, b)
           d == b.data
           L == Len(d)
<1>1. d \in Seq(Units) /\ b.taken \in Seq(Taken) /\ L \in Nat BY LenProperties DEF Bufs
<1>2. None \in Taken /\ Frames \subseteq Taken BY DEF Taken
<1>3. ASSUME NEW n \in 1 .. L, NEW x \in Taken,
             c = [b EXCEPT !.data = SubSeq(@, n + 1, Len(@)), !.taken = Append(@, x)]
      PROVE  c \in Bufs /\ Takes(b, c, n, x)
  <2>1. SubSeq(d, n + 1, L) \in Seq(Units)
    <3>1. \A i \in n + 1 .. L : d[i] \in Units
      <4>1. \A i \in n + 1 .. L : i \in 1 .. Len(d) BY <1>1
      <4> QED BY <1>1, <4>1, ElementOfSeq
    <3>2. n + 1 \in Int /\ L \in Int BY <1>1
    <3> QED BY <3>1, <3>2, SubSeqProperties
  <2>2. Append(b.taken, x) \in Seq(Taken) BY <1>1
  <2>3. c = [b EXCEPT !.data = SubSeq(d, n + 1, L), !.taken = Append(b.taken, x)] BY <1>3
  <2> HIDE DEF c
  <2> QED BY <2>1, <2>2, <2>3 DEF Bufs, Takes
<1>4. ASSUME NEW s \in BOOLEAN, NEW k \in BOOLEAN, c = [b EXCEPT !.stop = s, !.broken = k]
      PROVE  c \in Bufs /\ TakesNothing(b, c) /\ c.broken = k
  <2> HIDE DEF c
  <2> QED BY <1>4 DEF Bufs, TakesNothing
<1>5. b = [b EXCEPT !.stop = b.stop, !.broken = b.broken] /\ b.stop \in BOOLEAN /\ b.broken \in BOOLEAN
  BY DEF Bufs
<1>6. CASE b.stop \/ d = << >>
  <2>1. c = b BY <1>6 DEF ConsumeFrame
  <2>2. c \in Bufs /\ TakesNothing(b, c) /\ c.broken = b.broken
    <3> HIDE DEF c
    <3> QED BY <2>1 DEF TakesNothing
  <2> HIDE DEF c
  <2> QED BY <2>2 DEF c
<1>7. CASE ~b.stop /\ d # << >> /\ Head(d).pos = 1
  <2> DEFINE f == Head(d).frame
             n == LengthOf[f]
             t == IF SubSeq(d, 1, n) = Content(f) THEN f ELSE None
  <2>1. d[1] \in Units /\ Head(d) = d[1] /\ L \in Nat \ {0}
    <3>1. L \in Nat \ {0} BY <1>1, <1>7, EmptySeq
    <3>2. 1 \in 1 .. Len(d) BY <3>1
    <3> QED BY <1>1, <3>1, <3>2, ElementOfSeq
  <2>2. f \in Frames /\ n \in Nat \ {0} BY <2>1, ContentFacts DEF Units
  <2>3. CASE L < n
    <3>1. c = [b EXCEPT !.stop = TRUE] BY <1>7, <2>3 DEF ConsumeFrame
    <3>2. c = [b EXCEPT !.stop = TRUE, !.broken = b.broken] BY <3>1 DEF Bufs
    <3>3. c \in Bufs /\ TakesNothing(b, c) /\ c.broken = b.broken
      <4> HIDE DEF c
      <4> QED BY <1>4, <1>5, <3>2 DEF c
    <3> HIDE DEF c
    <3> QED BY <1>7, <3>3 DEF c
  <2>4. CASE ~(L < n)
    <3>1. c = [b EXCEPT !.data = SubSeq(@, n + 1, Len(@)), !.taken = Append(@, t)]
      BY <1>7, <2>4 DEF ConsumeFrame
    <3>2. n \in 1 .. L /\ n <= L BY <1>1, <2>2, <2>4
    <3>3. t \in Taken
      <4>1. t = f \/ t = None OBVIOUS
      <4> HIDE DEF t, f
      <4> QED BY <1>2, <2>2, <4>1
    <3> HIDE DEF n
    <3>4. c \in Bufs /\ Takes(b, c, n, t) BY <1>3, <3>1, <3>2, <3>3
    <3>5. t = None \/ (t = f /\ SubSeq(d, 1, n) = Content(f)) OBVIOUS
    <3>6. ASSUME NEW x \in Frames, d[1] = [frame |-> x, pos |-> 1] PROVE x = f
      BY <2>1, <3>6
    <3>7. SubSeq(d, 1, n) = Content(f) => t = f OBVIOUS
    <3> HIDE DEF c, t, f
    <3>8. \/ \E m \in 1 .. Len(b.data) : Takes(b, c, m, None)
          \/ \E x \in Frames : /\ LengthOf[x] <= Len(b.data)
                               /\ SubSeq(b.data, 1, LengthOf[x]) = Content(x)
                               /\ Takes(b, c, LengthOf[x], x)
      BY <2>2, <3>2, <3>4, <3>5 DEF n
    <3>9. \A x \in Frames : d[1] = [frame |-> x, pos |-> 1] =>
             /\ LengthOf[x] <= Len(b.data)
             /\ SubSeq(b.data, 1, LengthOf[x]) = Content(x) => Takes(b, c, LengthOf[x], x)
      BY <3>2, <3>4, <3>6, <3>7 DEF n
    <3> QED BY <1>7, <3>4, <3>8, <3>9 DEF c
  <2> QED BY <2>3, <2>4
<1>8. CASE ~b.stop /\ d # << >> /\ Head(d).pos # 1
  <2>1. g \in Int BY ChannelAssumption DEF Garbage, Incomplete, Broken
  <2>2. Head(d) = d[1] BY <1>1, <1>8
  <2>3. \A x \in Frames : d[1] # [frame |-> x, pos |-> 1] BY <1>8, <2>2
  <2>4. CASE g = Broken
    <3>0. g = -1 /\ ~(g > 0) BY <2>4 DEF Broken
    <3>1. c = [b EXCEPT !.stop = TRUE, !.broken = TRUE]
      BY <1>8, <2>4, <3>0 DEF ConsumeFrame, Broken
    <3>2. c \in Bufs /\ TakesNothing(b, c) BY <1>4, <3>1
    <3> HIDE DEF c
    <3> QED BY <1>8, <2>3, <3>2 DEF c
  <2>5. CASE g # Broken /\ g > 0 /\ g <= L
    <3>1. c = [b EXCEPT !.data = SubSeq(@, g + 1, Len(@)), !.taken = Append(@, None)]
      BY <1>8, <2>5 DEF ConsumeFrame
    <3>2. g \in 1 .. L BY <1>1, <2>1, <2>5
    <3>3. c \in Bufs /\ Takes(b, c, g, None) BY <1>2, <1>3, <3>1, <3>2
    <3> HIDE DEF c
    <3> QED BY <1>8, <2>3, <3>2, <3>3 DEF c
  <2>6. CASE g # Broken /\ ~(g > 0 /\ g <= L)
    <3>1. c = [b EXCEPT !.stop = TRUE] BY <1>8, <2>6 DEF ConsumeFrame
    <3>2. c = [b EXCEPT !.stop = TRUE, !.broken = b.broken] BY <3>1 DEF Bufs
    <3>3. c \in Bufs /\ TakesNothing(b, c) /\ c.broken = b.broken
      <4> HIDE DEF c
      <4> QED BY <1>4, <1>5, <3>2 DEF c
    <3> HIDE DEF c
    <3> QED BY <1>8, <2>3, <3>3 DEF c
  <2> QED BY <2>4, <2>5, <2>6
<1> QED BY <1>6, <1>7, <1>8

LEMMA AppendLast ==
  ASSUME NEW S, NEW s \in Seq(S), NEW t \in Seq(S), NEW x \in S
  PROVE  Append(s, x) \in Seq(S) /\ s \o t \in Seq(S) /\ s \o Append(t, x) = Append(s \o t, x)
<1>a. Assoc(S) BY Associative
<1>1. s \o t \in Seq(S) /\ <<x>> \in Seq(S) BY ConcatProperties
<1>2. Append(t, x) = t \o <<x>> /\ Append(s \o t, x) = (s \o t) \o <<x>> BY <1>1, AppendIsConcat
<1>3. s \o (t \o <<x>>) = (s \o t) \o <<x>> BY <1>1, <1>a DEF Assoc
<1>4. Append(s, x) \in Seq(S) OBVIOUS
<1> QED BY <1>1, <1>2, <1>3, <1>4

LEMMA TakenAppended ==
  ASSUME NEW done \in Seq(Taken), NEW taken \in Seq(Taken), NEW x \in Taken
  PROVE  done \o Append(taken, x) = Append(done \o taken, x)
BY AppendLast

\* What taking frames of data makes of its order, whatever is before and to come: only the
\* last unit of a frame that was taken is left.
KeepsOrder(data, b) ==
  \A q, before, rest :
    before \in Seq(Units) /\ rest \in Seq(Units) /\ Ordered(q, before \o (data \o rest)) =>
      Ordered(q, before \o (Finals(b.taken) \o (b.data \o rest)))
KeepsWhole(data, b) ==
  \A q, done, rest :
    q \in Seq(Frames) /\ rest \in Seq(Units) /\ Whole(q, done, data \o rest) =>
      Whole(q, done \o b.taken, b.data \o rest) /\ ~b.broken
Kept(data, b) == b \in Bufs /\ KeepsOrder(data, b) /\ KeepsWhole(data, b)

LEMMA KeptNext ==
  ASSUME NEW data \in Seq(Units), NEW b, Kept(data, b), NEW g \in Garbage
  PROVE  Kept(data, ConsumeFrame(g, b))
<1> DEFINE c == ConsumeFrame(g, b)
           d == b.data
           L == Len(d)
<1>a. Assoc(Units) BY Associative
<1>1. b \in Bufs /\ KeepsOrder(data, b) /\ KeepsWhole(data, b) BY DEF Kept
<1>2. /\ c \in Bufs
      /\ \/ TakesNothing(b, c)
         \/ \E n \in 1 .. L : Takes(b, c, n, None)
         \/ \E x \in Frames : /\ LengthOf[x] <= L
                              /\ SubSeq(d, 1, LengthOf[x]) = Content(x)
                              /\ Takes(b, c, LengthOf[x], x)
      /\ d = << >> => TakesNothing(b, c) /\ c.broken = b.broken
      /\ \A x \in Frames : d # << >> /\ d[1] = [frame |-> x, pos |-> 1] =>
           \/ TakesNothing(b, c) /\ c.broken = b.broken
           \/ /\ LengthOf[x] <= L
              /\ SubSeq(d, 1, LengthOf[x]) = Content(x) => Takes(b, c, LengthOf[x], x)
  BY <1>1, ConsumeFrameEffect
<1> HIDE DEF c
<1>3. /\ d \in Seq(Units) /\ b.taken \in Seq(Taken) /\ L \in Nat
      /\ c.data \in Seq(Units) /\ c.taken \in Seq(Taken)
  BY <1>1, <1>2, LenProperties DEF Bufs
<1>4. None \in Taken /\ Frames \subseteq Taken BY DEF Taken
<1> HIDE DEF d, L
<1>5. ASSUME NEW q, NEW before \in Seq(Units), NEW rest \in Seq(Units),
             Ordered(q, before \o (data \o rest))
      PROVE  Ordered(q, before \o (Finals(c.taken) \o (c.data \o rest)))
  <2> DEFINE m == Finals(b.taken)
  <2>1. Ordered(q, before \o (m \o (d \o rest))) BY <1>1, <1>5 DEF KeepsOrder, d
  <2>2. m \in Seq(Units) BY <1>3, FinalsFew, FinalsConcat
  <2>3. CASE TakesNothing(b, c) BY <2>1, <2>3 DEF TakesNothing, d
\* What is taken is cut off, and leaves its last unit when it is a frame.
  <2>4. ASSUME NEW n \in 1 .. L, NEW x \in Taken, Takes(b, c, n, x)
        PROVE  \E k \in Seq(Units), w \in Seq(Units) :
                 /\ k = SubSeq(d, 1, n) /\ d \o rest = k \o w /\ c.data \o rest = w
                 /\ Finals(c.taken) = m \o FinalOf(x)
    <3>0. n \in 0 .. Len(d) BY <1>3 DEF L
    <3> DEFINE k == SubSeq(d, 1, n)
               e == SubSeq(d, n + 1, Len(d))
               w == e \o rest
    <3>p. TwoParts(Units, d, n, k, e) BY <1>3, <3>0, Parts
    <3>4. c.data = e BY <2>4 DEF Takes, d
    <3>5. c.taken = Append(b.taken, x) BY <2>4 DEF Takes
    <3>k. k = SubSeq(d, 1, n) OBVIOUS
    <3> HIDE DEF k, e, m
    <3>1. d = k \o e /\ e \in Seq(Units) /\ k \in Seq(Units) BY <3>p DEF TwoParts
    <3>2. (k \o e) \o rest = k \o (e \o rest) BY <3>1, <1>a, ZenonT(60) DEF Assoc
    <3>3. w \in Seq(Units) BY <3>1, ConcatProperties
    <3>6. Finals(c.taken) = m \o FinalOf(x)
      <4>1. Finals(Append(b.taken, x)) = Finals(b.taken) \o FinalOf(x) BY <1>3, FinalsAppend
      <4> QED BY <3>5, <4>1 DEF m
    <3>7. d \o rest = k \o w /\ c.data \o rest = w BY <3>1, <3>2, <3>4
    <3> HIDE DEF w
    <3> QED BY <3>1, <3>3, <3>6, <3>7, <3>k
  <2> HIDE DEF m
  <2>5. ASSUME NEW n \in 1 .. L, Takes(b, c, n, None)
        PROVE  Ordered(q, before \o (Finals(c.taken) \o (c.data \o rest)))
    <3>1. PICK k \in Seq(Units), w \in Seq(Units) :
            /\ d \o rest = k \o w /\ c.data \o rest = w
            /\ Finals(c.taken) = m \o FinalOf(None)
      BY <1>4, <2>4, <2>5
    <3>2. m \o FinalOf(None) = m BY <2>2, ConcatEmptySeq DEF FinalOf
    <3>3. Ordered(q, before \o (m \o (k \o w))) BY <2>1, <3>1
    <3>4. Ordered(q, before \o (m \o w)) BY <2>2, <3>3, OrderedDrop
    <3> QED BY <3>1, <3>2, <3>4
  <2>6. ASSUME NEW x \in Frames, LengthOf[x] <= L, SubSeq(d, 1, LengthOf[x]) = Content(x),
               Takes(b, c, LengthOf[x], x)
        PROVE  Ordered(q, before \o (Finals(c.taken) \o (c.data \o rest)))
    <3>0. LengthOf[x] \in 1 .. L /\ x \in Taken BY <1>3, <1>4, <2>6, ContentFacts
    <3>1. PICK k \in Seq(Units), w \in Seq(Units) :
            /\ k = SubSeq(d, 1, LengthOf[x])
            /\ d \o rest = k \o w /\ c.data \o rest = w
            /\ Finals(c.taken) = m \o FinalOf(x)
      BY <3>0, <2>4, <2>6
    <3>2. FinalOf(x) = <<Final(x)>> BY FinalType DEF FinalOf
    <3>3. Ordered(q, before \o (m \o (Content(x) \o w))) BY <2>1, <2>6, <3>1
    <3>4. Ordered(q, before \o ((m \o <<Final(x)>>) \o w)) BY <2>2, <3>3, OrderedTake
    <3> QED BY <3>1, <3>2, <3>4
  <2> QED BY <1>2, <2>3, <2>5, <2>6
<1>6. ASSUME NEW q \in Seq(Frames), NEW done, NEW rest \in Seq(Units),
             Whole(q, done, data \o rest)
      PROVE  Whole(q, done \o c.taken, c.data \o rest) /\ ~c.broken
  <2> DEFINE D == done \o b.taken
             u == d \o rest
  <2>1. Whole(q, D, u) /\ ~b.broken BY <1>1, <1>6 DEF KeepsWhole, d
  <2>2. ASSUME TakesNothing(b, c), c.broken = b.broken
        PROVE  Whole(q, done \o c.taken, c.data \o rest) /\ ~c.broken
    BY <2>1, <2>2 DEF TakesNothing, d
  <2>3. CASE d # << >>
    <3>1. u # << >>
      <4>1. Len(u) = L + Len(rest) /\ Len(rest) \in Nat
        <5>1. Len(d \o rest) = Len(d) + Len(rest) BY <1>3, ConcatProperties
        <5>2. Len(rest) \in Nat BY LenProperties
        <5> QED BY <5>1, <5>2 DEF L
      <4>2. L \in Nat \ {0} BY <1>3, <2>3, EmptySeq DEF L
      <4>3. Len(<< >>) = 0 OBVIOUS
      <4> HIDE DEF u
      <4>4. Len(u) # 0 BY <4>1, <4>2
      <4> QED BY <4>3, <4>4
    <3>u. u = d \o rest OBVIOUS
    <3> HIDE DEF u, D
    <3>2. PICK f \in Frames, w \in Seq(Units) :
            u = Content(f) \o w /\ Whole(q, Append(D, f), w)
      BY <2>1, <3>1, WholeHead
    <3> DEFINE n == LengthOf[f]
               k == Content(f)
    <3>3. k \in Seq(Units) /\ Len(k) = n /\ k # << >> /\ k[1] = [frame |-> f, pos |-> 1]
      <4>1. 1 \in 1 .. LengthOf[f] BY ContentFacts
      <4> QED BY <4>1, ContentFacts
    <3> HIDE DEF k, n
    <3>4. d \o rest = k \o w BY <3>2, <3>u DEF k
    <3>5. d[1] = k[1] BY <1>3, <2>3, <3>3, <3>4, DividedTwice
    <3>6. n <= L => SubSeq(d, 1, n) = k /\ SubSeq(d, n + 1, L) \o rest = w
      <4>1. Len(k) <= Len(d) => SubSeq(d, 1, Len(k)) = k /\ SubSeq(d, Len(k) + 1, Len(d)) \o rest = w
        BY <1>3, <3>3, <3>4, DividedTwice
      <4> QED BY <3>3, <4>1 DEF L
    <3>7. \/ TakesNothing(b, c) /\ c.broken = b.broken
          \/ n <= L /\ (SubSeq(d, 1, n) = k => Takes(b, c, n, f))
      <4>1. d[1] = [frame |-> f, pos |-> 1] BY <3>3, <3>5
      <4> QED BY <1>2, <2>3, <4>1 DEF n, k
    <3>8. ASSUME n <= L, Takes(b, c, n, f)
          PROVE  Whole(q, done \o c.taken, c.data \o rest) /\ ~c.broken
      <4>1. c.data \o rest = w BY <3>6, <3>8 DEF Takes, d, L
      <4>2. c.taken = Append(b.taken, f) /\ c.broken = b.broken BY <3>8 DEF Takes
      <4>3. done \in Seq(Taken)
        <5>1. done \in Seq(Frames)  BY <1>6, WholePrefix
        <5>2. \A i \in 1 .. Len(done) : done[i] \in Taken BY <1>4, <5>1, ElementOfSeq
        <5>3. Len(done) \in Nat /\ done = [i \in 1 .. Len(done) |-> done[i]] BY <5>1
        <5> QED BY <5>2, <5>3
      <4>4. f \in Taken BY <1>4
      <4>5. done \o c.taken = Append(D, f)
        <5>1. done \o Append(b.taken, f) = Append(done \o b.taken, f)
          <6>1. b.taken \in Seq(Taken) BY <1>3
          <6> QED BY <4>3, <4>4, <6>1, TakenAppended
        <5> QED BY <4>2, <5>1 DEF D
      <4>6. Whole(q, done \o c.taken, c.data \o rest) BY <3>2, <4>1, <4>5
      <4>7. ~c.broken BY <2>1, <4>2, Zenon
      <4> QED BY <4>6, <4>7
    <3> QED BY <2>2, <3>6, <3>7, <3>8
  <2>4. CASE d = << >> BY <1>2, <2>2, <2>4
  <2> QED BY <2>3, <2>4
<1>7. KeepsOrder(data, c) BY <1>5 DEF KeepsOrder
<1>8. KeepsWhole(data, c) BY <1>6 DEF KeepsWhole
<1> QED BY <1>2, <1>7, <1>8 DEF Kept, c

\* ConsumeFrameBuffer keeps order and wholeness, frame by frame.
LEMMA FrameBufferEffect ==
  ASSUME NEW data \in Seq(Units), NEW g \in Garbage
  PROVE  Kept(data, ConsumeFrameBuffer(data, g))
<1> DEFINE start == [data |-> data, taken |-> << >>, stop |-> FALSE, broken |-> FALSE]
           L == Len(data)
           Eq(f) == f = [n \in 0 .. L |-> IF n = 0 THEN start ELSE ConsumeFrame(g, f[n - 1])]
           consume == CHOOSE f : Eq(f)
           step == [p \in Nat \X Bufs |-> ConsumeFrame(g, p[2])]
<1>1. L \in Nat BY LenProperties
<1>2. start \in Bufs
  <2>1. << >> \in Seq(Taken) OBVIOUS
  <2> QED BY <2>1 DEF Bufs
<1>3. ConsumeFrameBuffer(data, g) = consume[L] BY DEF ConsumeFrameBuffer
<1>s. start.data = data /\ start.taken = << >> /\ start.broken = FALSE OBVIOUS
<1> HIDE DEF start, L
<1>4. \E f : Eq(f)
  <2>1. step \in Steps(Bufs)
    <3>1. ASSUME NEW p \in Nat \X Bufs PROVE ConsumeFrame(g, p[2]) \in Bufs
      <4>1. p[2] \in Bufs OBVIOUS
      <4> QED BY <4>1, ConsumeFrameEffect
    <3> QED BY <3>1 DEF Steps
  <2>2. ASSUME NEW n \in Nat, NEW v \in Bufs PROVE step[<<n, v>>] = ConsumeFrame(g, v)
    <3>1. <<n, v>> \in Nat \X Bufs /\ <<n, v>>[2] = v OBVIOUS
    <3> QED BY <3>1
  <2> HIDE DEF step
  <2>3. PICK f \in [0 .. L -> Bufs] : Recurs(f, L, start, step)
    BY <1>1, <1>2, <2>1, RangeRecursive
  <2>4. ASSUME NEW n \in 0 .. L
        PROVE  f[n] = IF n = 0 THEN start ELSE ConsumeFrame(g, f[n - 1])
    <3>1. CASE n = 0 BY <2>3, <3>1 DEF Recurs
    <3>2. CASE n # 0
      <4>1. n \in Nat /\ n \in 1 .. L /\ n - 1 \in 0 .. L BY <1>1, <3>2
      <4>2. f[n - 1] \in Bufs BY <4>1
      <4>3. f[n] = step[<<n, f[n - 1]>>] BY <2>3, <4>1 DEF Recurs
      <4>4. step[<<n, f[n - 1]>>] = ConsumeFrame(g, f[n - 1]) BY <2>2, <4>1, <4>2
      <4> QED BY <3>2, <4>3, <4>4
    <3> QED BY <3>1, <3>2
  <2>5. f = [n \in 0 .. L |-> f[n]] OBVIOUS
  <2>6. Eq(f) BY <2>4, <2>5
  <2> QED BY <2>6
<1>5. Eq(consume)
  <2> HIDE DEF Eq
  <2> QED BY <1>4
<1>6. \A n \in 0 .. L : consume[n] = IF n = 0 THEN start ELSE ConsumeFrame(g, consume[n - 1])
  <2> HIDE DEF consume
  <2> QED BY <1>5
<1> HIDE DEF consume, Eq
<1> DEFINE T == {n \in Nat : n <= L => Kept(data, consume[n])}
<1>7. 0 \in T
  <2>1. consume[0] = start BY <1>1, <1>6
  <2>2. KeepsOrder(data, start)
    <3>1. ASSUME NEW rest \in Seq(Units) PROVE Finals(<< >>) \o (data \o rest) = data \o rest
      <4>1. data \o rest \in Seq(Units) BY ConcatProperties
      <4> QED BY <4>1, FinalsFew, ConcatEmptySeq
    <3> QED BY <1>s, <3>1 DEF KeepsOrder
  <2>3. KeepsWhole(data, start)
    <3> SUFFICES ASSUME NEW q \in Seq(Frames), NEW done, NEW rest \in Seq(Units),
                        Whole(q, done, data \o rest)
                 PROVE  Whole(q, done \o << >>, data \o rest)
      BY <1>s DEF KeepsWhole
    <3>1. done \in Seq(Frames) BY WholePrefix
    <3>2. done \o << >> = done BY <3>1, ConcatEmptySeq
    <3> QED BY <3>2
  <2> QED BY <1>2, <2>1, <2>2, <2>3 DEF Kept
<1>8. ASSUME NEW n \in T PROVE n + 1 \in T
  <2> SUFFICES ASSUME n + 1 <= L PROVE Kept(data, consume[n + 1]) OBVIOUS
  <2>1. n + 1 \in 0 .. L /\ (n + 1) - 1 = n /\ n + 1 # 0 /\ n <= L BY <1>1
  <2>2. Kept(data, consume[n]) BY <2>1
  <2>3. consume[n + 1] = ConsumeFrame(g, consume[n]) BY <1>6, <2>1
  <2> HIDE DEF T
  <2>4. Kept(data, ConsumeFrame(g, consume[n])) BY <2>2, KeptNext
  <2> QED BY <2>3, <2>4
<1>9. T \in SUBSET Nat OBVIOUS
<1> HIDE DEF T
<1>10. T = Nat BY <1>7, <1>8, <1>9, NatInductive
<1>11. Kept(data, consume[L]) BY <1>1, <1>10 DEF T
<1> QED BY <1>3, <1>11

(***************************************************************************)
(* Reading.                                                                *)
(***************************************************************************)
\* What reading some segments makes of a handler, and of the frames it takes.
ReadOrder(h, segments, r, t) ==
  \A q, before, rest :
    before \in Seq(Units) /\ rest \in Seq(Units)
      /\ Ordered(q, before \o ((Received(h) \o Carried(segments)) \o rest)) =>
      Ordered(q, before \o (Finals(t) \o (Received(r) \o rest)))
ReadWhole(h, segments, r, t) ==
  \A q, done, rest :
    q \in Seq(Frames) /\ rest \in Seq(Units)
      /\ Whole(q, done, (Received(h) \o Carried(segments)) \o rest) =>
      /\ Whole(q, done \o t, Received(r) \o rest)
      /\ h.bytesWaitingAcknowledge >= AmountIn(h.readBuffer) + AmountIn(segments) =>
           r.bytesWaitingAcknowledge + (AmountIn(h.readBuffer) + AmountIn(segments))
             = h.bytesWaitingAcknowledge + AmountIn(r.readBuffer)
ReadCounts(h, segments, r) ==
  /\ r.outputAcknowledgesSize = h.outputAcknowledgesSize + SizeOf(segments)
  /\ r.maxUnAcknowledgedSize >= h.maxUnAcknowledgedSize
  /\ r.bytesWaitingAcknowledge <= h.bytesWaitingAcknowledge
  /\ r.bytesWaitingAcknowledge + (AmountIn(h.readBuffer) + AmountIn(segments))
       >= h.bytesWaitingAcknowledge + AmountIn(r.readBuffer)

\* ReadFrames: what is read is owed, acknowledges are counted or kept, data stays in order.
LEMMA ReadFramesEffect ==
  ASSUME NEW h \in Handlers, NEW segments \in Seq(Segs), NEW g \in Garbage
  PROVE  LET read == ReadFrames(h, segments, g) IN
         /\ read.handler \in Handlers /\ read.taken \in Seq(Taken)
         /\ SameOutput(h, read.handler)
         /\ ReadCounts(h, segments, read.handler)
         /\ ReadOrder(h, segments, read.handler, read.taken)
         /\ ReadWhole(h, segments, read.handler, read.taken)
<1>a. Assoc(Units) BY Associative
<1>h. /\ h.bytesWaitingAcknowledge \in Nat /\ h.outputAcknowledgesSize \in Nat
      /\ h.maxUnAcknowledgedSize \in Nat /\ AmountIn(h.readBuffer) \in Nat
      /\ h.readBuffer \in Seq(Segs) /\ h.frameDataBuffer \in Seq(Units)
      /\ Carried(h.readBuffer) \in Seq(Units) /\ Received(h) \in Seq(Units)
  BY HandlerFields
<1>s. /\ SizeOf(segments) \in Nat /\ AmountIn(segments) \in Nat /\ Carried(segments) \in Seq(Units)
  BY SizeOfConcat, AmountInConcat, CarriedConcat
<1>1. CASE segments = << >>
  <2> DEFINE r == ReadFrames(h, segments, g).handler
             t == ReadFrames(h, segments, g).taken
  <2>1. r = h /\ t = << >> BY <1>1 DEF ReadFrames
  <2>2. SizeOf(segments) = 0 /\ AmountIn(segments) = 0 /\ Carried(segments) = << >>
    BY <1>1, SizeOfFew, AmountInFew, CarriedFew
  <2>3. Received(h) \o Carried(segments) = Received(h) BY <1>h, <2>2, ConcatEmptySeq
  <2>4. << >> \in Seq(Taken) /\ \A done \in Seq(Taken) : done \o << >> = done
    BY ConcatEmptySeq
  <2> HIDE DEF r, t
  <2>5. ReadCounts(h, segments, r) BY <1>h, <2>1, <2>2 DEF ReadCounts
  <2>6. ReadOrder(h, segments, r, t)
    <3>1. ASSUME NEW rest \in Seq(Units)
          PROVE  Finals(t) \o (Received(h) \o rest) = Received(h) \o rest
      <4>1. Received(h) \o rest \in Seq(Units) BY <1>h, ConcatProperties
      <4> QED BY <2>1, <4>1, FinalsFew, ConcatEmptySeq
    <3> QED BY <2>1, <2>3, <3>1 DEF ReadOrder
  <2>7. ReadWhole(h, segments, r, t)
    <3> SUFFICES ASSUME NEW q \in Seq(Frames), NEW done, NEW rest \in Seq(Units),
                        Whole(q, done, Received(h) \o rest)
                 PROVE  Whole(q, done \o t, Received(r) \o rest)
      BY <1>h, <2>1, <2>2, <2>3 DEF ReadWhole
    <3>1. done \in Seq(Frames) BY WholePrefix
    <3>2. done \o t = done BY <2>1, <3>1, ConcatEmptySeq
    <3> QED BY <2>1, <3>2
  <2>8. SameOutput(h, r) BY <2>1 DEF SameOutput
  <2>9. r \in Handlers /\ t \in Seq(Taken) BY <2>1, <2>4
  <2> QED BY <2>5, <2>6, <2>7, <2>8, <2>9 DEF r, t
<1>2. CASE segments # << >>
  <2> DEFINE start == [h EXCEPT !.readBuffer = << >>,
                                !.outputAcknowledgesSize = @ + SizeOf(segments)]
             all == h.readBuffer \o segments
             p == ConsumeReadBuffer(h, segments)
             b == ConsumeFrameBuffer(p.frameDataBuffer, g)
             C == Carried(p.readBuffer)
             r == [p EXCEPT !.readBuffer = IF b.broken THEN << >> ELSE @,
                            !.frameDataBuffer = IF b.broken THEN << >> ELSE b.data,
                            !.pendingReadType = IF b.broken \/ b.data = << >> THEN None ELSE @]
  <2>1. ReadFrames(h, segments, g) = [handler |-> r, taken |-> b.taken]
    BY <1>2 DEF ReadFrames
  <2>2. Consumed(start, all, p) BY ReadBufferEffect
  <2>3. /\ start.outputAcknowledgesSize = h.outputAcknowledgesSize + SizeOf(segments)
        /\ start.bytesWaitingAcknowledge = h.bytesWaitingAcknowledge
        /\ start.maxUnAcknowledgedSize = h.maxUnAcknowledgedSize
        /\ start.frameDataBuffer = h.frameDataBuffer /\ SameOutput(h, start)
    BY DEF Handlers, SameOutput
  <2> HIDE DEF p, start
  <2>4. /\ p \in Handlers /\ SameOutput(start, p)
        /\ p.outputAcknowledgesSize = start.outputAcknowledgesSize
        /\ p.maxUnAcknowledgedSize >= start.maxUnAcknowledgedSize
        /\ p.bytesWaitingAcknowledge <= start.bytesWaitingAcknowledge
        /\ p.bytesWaitingAcknowledge + AmountIn(all)
             >= start.bytesWaitingAcknowledge + AmountIn(p.readBuffer)
        /\ start.bytesWaitingAcknowledge >= AmountIn(all) =>
             p.bytesWaitingAcknowledge + AmountIn(all)
               = start.bytesWaitingAcknowledge + AmountIn(p.readBuffer)
        /\ Received(p) = start.frameDataBuffer \o Carried(all)
    BY <2>2 DEF Consumed
  <2>5. AmountIn(all) = AmountIn(h.readBuffer) + AmountIn(segments) BY <1>h, AmountInConcat
  <2>6. Received(p) = Received(h) \o Carried(segments)
    <3>1. Carried(all) = Carried(h.readBuffer) \o Carried(segments) BY <1>h, CarriedConcat
    <3>2. (h.frameDataBuffer \o Carried(h.readBuffer)) \o Carried(segments)
            = h.frameDataBuffer \o (Carried(h.readBuffer) \o Carried(segments))
      BY <1>h, <1>s, <1>a DEF Assoc
    <3> QED BY <2>3, <2>4, <3>1, <3>2 DEF Received
  <2> HIDE DEF all
  <2>7. /\ p.frameDataBuffer \in Seq(Units) /\ p.readBuffer \in Seq(Segs) /\ C \in Seq(Units)
        /\ AmountIn(p.readBuffer) \in Nat /\ p.bytesWaitingAcknowledge \in Nat
        /\ p.pendingReadType \in Types
    BY <2>4, HandlerFields
  <2>8. Kept(p.frameDataBuffer, b) BY <2>7, FrameBufferEffect
  <2> HIDE DEF b
  <2>9. /\ b \in Bufs /\ KeepsOrder(p.frameDataBuffer, b) /\ KeepsWhole(p.frameDataBuffer, b)
    BY <2>8 DEF Kept
  <2>10. b.data \in Seq(Units) /\ b.taken \in Seq(Taken) /\ b.broken \in BOOLEAN
    BY <2>9 DEF Bufs
  <2>11. /\ r \in Handlers
         /\ SameOutput(p, r) /\ r.outputAcknowledgesSize = p.outputAcknowledgesSize
         /\ r.maxUnAcknowledgedSize = p.maxUnAcknowledgedSize
         /\ r.bytesWaitingAcknowledge = p.bytesWaitingAcknowledge
         /\ r.readBuffer = (IF b.broken THEN << >> ELSE p.readBuffer)
         /\ r.frameDataBuffer = (IF b.broken THEN << >> ELSE b.data)
    <3> DEFINE x == IF b.broken THEN << >> ELSE p.readBuffer
               y == IF b.broken THEN << >> ELSE b.data
               z == IF b.broken \/ b.data = << >> THEN None ELSE p.pendingReadType
    <3>1. x \in Seq(Segs) /\ y \in Seq(Units) /\ z \in Types BY <2>7, <2>10 DEF Types
    <3>2. r = [p EXCEPT !.readBuffer = x, !.frameDataBuffer = y, !.pendingReadType = z]
      OBVIOUS
    <3>3. x = (IF b.broken THEN << >> ELSE p.readBuffer) /\ y = (IF b.broken THEN << >> ELSE b.data)
      OBVIOUS
    <3> HIDE DEF x, y, z, r
    <3>4. /\ r \in Handlers
          /\ SameOutput(p, r) /\ r.outputAcknowledgesSize = p.outputAcknowledgesSize
          /\ r.maxUnAcknowledgedSize = p.maxUnAcknowledgedSize
          /\ r.bytesWaitingAcknowledge = p.bytesWaitingAcknowledge
          /\ r.readBuffer = x /\ r.frameDataBuffer = y
      BY <2>4, <3>1, <3>2 DEF Handlers, SameOutput
    <3> QED BY <3>3, <3>4
  <2> HIDE DEF r
  <2>12. SameOutput(h, r) BY <2>3, <2>4, <2>11 DEF SameOutput
  <2>13. /\ AmountIn(r.readBuffer) \in Nat /\ AmountIn(r.readBuffer) <= AmountIn(p.readBuffer)
         /\ ~b.broken => AmountIn(r.readBuffer) = AmountIn(p.readBuffer)
    BY <2>7, <2>11, AmountInFew
  <2>14. ReadCounts(h, segments, r)
    <3>1. /\ r.outputAcknowledgesSize = h.outputAcknowledgesSize + SizeOf(segments)
          /\ r.maxUnAcknowledgedSize >= h.maxUnAcknowledgedSize
          /\ r.bytesWaitingAcknowledge <= h.bytesWaitingAcknowledge
      BY <2>3, <2>4, <2>11
    <3>2. r.bytesWaitingAcknowledge + (AmountIn(h.readBuffer) + AmountIn(segments))
            >= h.bytesWaitingAcknowledge + AmountIn(r.readBuffer)
      <4> DEFINE a == AmountIn(h.readBuffer) + AmountIn(segments)
                 rR == AmountIn(r.readBuffer)
                 pR == AmountIn(p.readBuffer)
                 hW == h.bytesWaitingAcknowledge
                 pW == p.bytesWaitingAcknowledge
      <4>a. AmountIn(h.readBuffer) \in Nat /\ AmountIn(segments) \in Nat /\ hW \in Nat
        BY <1>h, <1>s
      <4>p. pR \in Nat /\ pW \in Nat BY <2>7
      <4>r. rR \in Nat BY <2>13
      <4>1. a \in Nat /\ rR \in Nat /\ pR \in Nat /\ hW \in Nat /\ pW \in Nat
        <5> HIDE DEF rR, pR, hW, pW
        <5> QED BY <4>a, <4>p, <4>r
      <4>2. pW + a >= hW + pR BY <2>3, <2>4, <2>5
      <4>3. rR <= pR BY <2>13
      <4>4. r.bytesWaitingAcknowledge = pW BY <2>11
      <4> HIDE DEF a, rR, pR, hW, pW
      <4>5. pW + a >= hW + rR BY <4>1, <4>2, <4>3
      <4> QED BY <4>4, <4>5 DEF a, rR, hW
    <3> QED BY <3>1, <3>2 DEF ReadCounts
  <2>15. ~b.broken => Received(r) = b.data \o C BY <2>11 DEF Received
  <2>16. b.broken => Received(r) = << >>
    <3>1. Carried(<< >>) = << >> /\ << >> \o << >> = << >> BY CarriedFew
    <3> QED BY <2>11, <3>1 DEF Received
  <2>d. Received(p) = p.frameDataBuffer \o C BY DEF Received
  <2> HIDE DEF C
  <2>17. ASSUME NEW rest \in Seq(Units)
         PROVE  /\ C \o rest \in Seq(Units) /\ b.data \o C \in Seq(Units)
                /\ Received(p) \o rest = p.frameDataBuffer \o (C \o rest)
                /\ (b.data \o C) \o rest = b.data \o (C \o rest)
    <3>1. C \o rest \in Seq(Units) /\ b.data \o C \in Seq(Units)
      BY <2>7, <2>10, ConcatProperties
    <3>2. (p.frameDataBuffer \o C) \o rest = p.frameDataBuffer \o (C \o rest)
      BY <2>7, <1>a DEF Assoc
    <3>3. (b.data \o C) \o rest = b.data \o (C \o rest) BY <2>7, <2>10, <1>a DEF Assoc
    <3> QED BY <2>d, <3>1, <3>2, <3>3
  <2>18. ReadOrder(h, segments, r, b.taken)
    <3> DEFINE m == Finals(b.taken)
    <3> SUFFICES ASSUME NEW q, NEW before \in Seq(Units), NEW rest \in Seq(Units),
                        Ordered(q, before \o (Received(p) \o rest))
                 PROVE  Ordered(q, before \o (m \o (Received(r) \o rest)))
      BY <2>6 DEF ReadOrder
    <3>m. m \in Seq(Units) BY <2>10, FinalsFew, FinalsConcat
    <3>1. Ordered(q, before \o (m \o (b.data \o (C \o rest))))
      <4>1. Ordered(q, before \o (p.frameDataBuffer \o (C \o rest))) BY <2>17
      <4>2. C \o rest \in Seq(Units) BY <2>17
      <4> QED BY <2>9, <4>1, <4>2 DEF KeepsOrder
    <3> HIDE DEF m
    <3>2. Ordered(q, before \o (m \o ((b.data \o C) \o rest))) BY <2>17, <3>1
    <3>3. CASE ~b.broken BY <2>15, <3>2, <3>3
    <3>4. CASE b.broken
      <4>1. b.data \o C \in Seq(Units) BY <2>7, <2>10, ConcatProperties
      <4>2. Ordered(q, before \o (m \o rest)) BY <3>m, <3>2, <4>1, OrderedDrop
      <4>3. << >> \o rest = rest BY ConcatEmptySeq
      <4> QED BY <2>16, <3>4, <4>2, <4>3
    <3> QED BY <3>3, <3>4, <2>10
  <2>19. ReadWhole(h, segments, r, b.taken)
    <3> SUFFICES ASSUME NEW q \in Seq(Frames), NEW done, NEW rest \in Seq(Units),
                        Whole(q, done, Received(p) \o rest)
                 PROVE  /\ Whole(q, done \o b.taken, Received(r) \o rest)
                        /\ h.bytesWaitingAcknowledge >= AmountIn(h.readBuffer) + AmountIn(segments) =>
                             r.bytesWaitingAcknowledge + (AmountIn(h.readBuffer) + AmountIn(segments))
                               = h.bytesWaitingAcknowledge + AmountIn(r.readBuffer)
      BY <2>6 DEF ReadWhole
    <3>1. Whole(q, done \o b.taken, b.data \o (C \o rest)) /\ ~b.broken
      <4>1. Whole(q, done, p.frameDataBuffer \o (C \o rest)) BY <2>17
      <4>2. C \o rest \in Seq(Units) BY <2>17
      <4> QED BY <2>9, <4>1, <4>2 DEF KeepsWhole
    <3>2. Whole(q, done \o b.taken, Received(r) \o rest) BY <2>15, <2>17, <3>1
    <3>3. ASSUME h.bytesWaitingAcknowledge >= AmountIn(h.readBuffer) + AmountIn(segments)
          PROVE  r.bytesWaitingAcknowledge + (AmountIn(h.readBuffer) + AmountIn(segments))
                   = h.bytesWaitingAcknowledge + AmountIn(r.readBuffer)
      BY <2>3, <2>4, <2>5, <2>11, <2>13, <3>1, <3>3
    <3> QED BY <3>2, <3>3
  <2> QED BY <2>1, <2>10, <2>11, <2>12, <2>14, <2>18, <2>19
<1> QED BY <1>1, <1>2

(***************************************************************************)
(* Writing.                                                                *)
(***************************************************************************)
\* Where the segments of a frame end: at multiples of the segments' size, the last at the
\* frame's end.
Bound(f, k) == Lesser(k * SegmentSize, LengthOf[f])
Count(f) == (LengthOf[f] + SegmentSize - 1) \div SegmentSize

LEMMA Divide ==
  ASSUME NEW a \in Nat, NEW b \in Nat \ {0}
  PROVE  a \div b \in Nat /\ (a \div b) * b <= a /\ a < (a \div b) * b + b
OBVIOUS

LEMMA Multiples ==
  ASSUME NEW i \in Nat, NEW j \in Nat, NEW b \in Nat, i <= j
  PROVE  i * b <= j * b /\ i * b \in Nat
<1>1. PICK d \in Nat : j = i + d
  <2>1. j - i \in Nat /\ j = i + (j - i) OBVIOUS
  <2> QED BY <2>1
<1>2. j * b = i * b + d * b BY <1>1
<1>3. d * b \in Nat /\ i * b \in Nat OBVIOUS
<1> QED BY <1>2, <1>3

\* The ends of the segments go up by steps and reach the length of the frame.
LEMMA Bounds ==
  ASSUME NEW f \in Frames
  PROVE  /\ Count(f) \in Nat
         /\ Bound(f, 0) = 0 /\ Bound(f, Count(f)) = LengthOf[f]
         /\ \A k \in 1 .. Count(f) :
              /\ (k - 1) * SegmentSize \in Nat /\ Bound(f, k - 1) = (k - 1) * SegmentSize
              /\ Bound(f, k - 1) < Bound(f, k) /\ Bound(f, k) \in 1 .. LengthOf[f]
<1> DEFINE L == LengthOf[f]
           S == SegmentSize
           c == Count(f)
<1>1. L \in Nat \ {0} /\ S \in Nat \ {0} BY ChannelAssumption
<1>2. c = (L + S - 1) \div S BY DEF Count
<1>3. \A k : Bound(f, k) = Lesser(k * S, L) BY DEF Bound
<1> HIDE DEF L, S, c
<1>4. L + S - 1 \in Nat BY <1>1
<1>5. c \in Nat /\ c * S <= L + S - 1 /\ L + S - 1 < c * S + S BY <1>1, <1>2, <1>4, Divide
<1>6. c * S \in Nat /\ c * S >= L /\ c * S <= L + S - 1 BY <1>1, <1>5
<1>7. Bound(f, 0) = 0 BY <1>1, <1>3 DEF Lesser
<1>8. Bound(f, c) = L BY <1>1, <1>3, <1>6 DEF Lesser
<1>9. ASSUME NEW k \in 1 .. c
      PROVE  /\ (k - 1) * S \in Nat /\ Bound(f, k - 1) = (k - 1) * S
             /\ Bound(f, k - 1) < Bound(f, k) /\ Bound(f, k) \in 1 .. L
  <2> DEFINE x == (k - 1) * S
             y == k * S
             z == (c - 1) * S
  <2>1. k - 1 \in Nat /\ c - 1 \in Nat /\ k - 1 <= c - 1 BY <1>5
  <2>2. x <= z /\ x \in Nat BY <1>1, <2>1, Multiples
  <2>3. z = c * S - S BY <1>1, <1>5
  <2>4. y = x + S BY <1>1, <1>5
  <2>5. Bound(f, k - 1) = Lesser(x, L) /\ Bound(f, k) = Lesser(y, L) BY <1>3
  <2> HIDE DEF x, y, z
  <2>6. z <= L - 1 BY <1>1, <1>6, <2>3
  <2>7. x <= L - 1 BY <1>1, <1>6, <2>2, <2>3, <2>6
  <2>8. Lesser(x, L) = x /\ x < Lesser(y, L) /\ Lesser(y, L) \in 1 .. L
    BY <1>1, <2>2, <2>4, <2>7 DEF Lesser
  <2> QED BY <2>2, <2>5, <2>8 DEF x
<1> QED BY <1>5, <1>7, <1>8, <1>9 DEF L, S, c

\* The segments of a frame carry its content, and acknowledge nothing.
LEMMA SegmentsOfFrame ==
  ASSUME NEW f \in Frames
  PROVE  /\ Segments(f) \in Seq(Segs)
         /\ Carried(Segments(f)) = Content(f)
         /\ AmountIn(Segments(f)) = 0
<1> DEFINE c == Count(f)
           B(k) == Bound(f, k)
           C == Content(f)
           ss == Segments(f)
<1>1. /\ c \in Nat /\ B(0) = 0 /\ B(c) = LengthOf[f]
      /\ \A k \in 1 .. c : /\ (k - 1) * SegmentSize \in Nat
                           /\ B(k - 1) = (k - 1) * SegmentSize
                           /\ B(k - 1) < B(k) /\ B(k) \in 1 .. LengthOf[f]
  BY Bounds
<1>2. ss = [k \in 1 .. c |-> Segment(f, (k - 1) * SegmentSize + 1, B(k))]
  BY DEF Segments, Count, Bound
<1> HIDE DEF c, B, ss
<1>3. /\ LengthOf[f] \in Nat \ {0} /\ C \in Seq(Units) /\ Len(C) = LengthOf[f]
      /\ \A j \in 1 .. LengthOf[f] : C[j] = [frame |-> f, pos |-> j]
  BY ContentFacts
<1> HIDE DEF C
<1>4. ASSUME NEW k \in 1 .. c
      PROVE  /\ ss[k] \in UserSegments
             /\ DataOf(ss[k]) = SubSeq(C, B(k - 1) + 1, B(k))
             /\ AmountOf(ss[k]) = 0
  <2> DEFINE a == B(k - 1)
             b == B(k)
             d == [j \in 1 .. b - a |-> [frame |-> f, pos |-> a + j]]
  <2>1. a \in Nat /\ b \in 1 .. LengthOf[f] /\ a < b /\ a = (k - 1) * SegmentSize BY <1>1
  <2>2. ss[k] = Segment(f, a + 1, b) BY <1>2, <2>1
  <2> HIDE DEF a, b
  <2>3. ss[k] = [kind |-> "user", size |-> 1 + b - (a + 1) + 1, type |-> TypeOf[f],
                 data |-> [j \in 1 .. b - (a + 1) + 1 |-> [frame |-> f, pos |-> (a + 1) + j - 1]]]
    BY <2>2 DEF Segment
  <2>4. [j \in 1 .. b - (a + 1) + 1 |-> [frame |-> f, pos |-> (a + 1) + j - 1]] = d
    <3>1. b - (a + 1) + 1 = b - a BY <1>3, <2>1
    <3>2. \A j \in 1 .. b - a : (a + 1) + j - 1 = a + j BY <1>3, <2>1
    <3> QED BY <3>1, <3>2
  <2>5. 1 + b - (a + 1) + 1 \in Nat BY <1>3, <2>1
  <2>6. d = SubSeq(C, a + 1, b)
    <3>1. SubSeq(C, a + 1, b) = [j \in 1 .. b - a |-> C[a + j]]
      <4>1. a \in Int /\ b \in Int BY <2>1
      <4> HIDE DEF d
      <4>2. SubSeq(C, a + 1, b) = [j \in 1 .. b - (a + 1) + 1 |-> C[(a + 1) + j - 1]]
        BY <4>1
      <4>3. b - (a + 1) + 1 = b - a BY <4>1
      <4>4. \A j \in 1 .. b - a : (a + 1) + j - 1 = a + j BY <4>1
      <4> QED BY <4>2, <4>3, <4>4
    <3>2. \A j \in 1 .. b - a : a + j \in 1 .. LengthOf[f] BY <1>3, <2>1
    <3> QED BY <1>3, <3>1, <3>2
  <2>7. d \in Seq(Units)
    <3>1. \A j \in 1 .. b - a : [frame |-> f, pos |-> a + j] \in Units BY <2>1 DEF Units
    <3>2. b - a \in Nat BY <1>3, <2>1
    <3> QED BY <3>1, <3>2
  <2> HIDE DEF d
  <2>8. ss[k] = [kind |-> "user", size |-> 1 + b - (a + 1) + 1, type |-> TypeOf[f], data |-> d]
    BY <2>3, <2>4
  <2>9. TypeOf[f] \in Types BY DEF Types
  <2>10. ss[k] \in UserSegments BY <2>5, <2>7, <2>8, <2>9 DEF UserSegments
  <2>11. DataOf(ss[k]) = d /\ AmountOf(ss[k]) = 0 BY <2>8 DEF DataOf, AmountOf, IsAck
  <2> QED BY <2>6, <2>10, <2>11 DEF a, b
<1>5. ss \in Seq(Segs) /\ Len(ss) = c /\ DOMAIN ss = 1 .. c
  <2>1. \A k \in 1 .. c : ss[k] \in Segs BY <1>4 DEF Segs
  <2>2. ss = [k \in 1 .. c |-> ss[k]] BY <1>2
  <2>3. DOMAIN ss = 1 .. c BY <1>2
  <2>4. ss \in Seq(Segs) /\ Len(ss) = c BY <1>1, <2>1, <2>2
  <2> QED BY <2>3, <2>4
<1>6. AmountIn(ss) = 0
  <2> DEFINE ns == [i \in 1 .. c |-> 0]
             h == [n \in 0 .. c |-> 0]
  <2>1. [i \in DOMAIN ss |-> AmountOf(ss[i])] = ns BY <1>4, <1>5
  <2>2. ns \in Seq(Nat) /\ Len(ns) = c BY <1>1
  <2>3. \A n \in 1 .. c : h[n] = h[n - 1] + ns[n]
    <3>1. \A n \in 1 .. c : n \in 0 .. c /\ n - 1 \in 0 .. c BY <1>1
    <3> QED BY <3>1
  <2>4. h \in [0 .. c -> Nat] /\ h[0] = 0 /\ h[c] = 0 BY <1>1
  <2> HIDE DEF ns, h
  <2>5. Sums(h, ns) BY <2>2, <2>3, <2>4 DEF Sums
  <2>6. Total(ns) = 0 BY <2>2, <2>4, <2>5, TotalIs
  <2> QED BY <2>1, <2>6 DEF AmountIn
<1>7. Carried(ss) = C
  <2> DEFINE ds == [i \in DOMAIN ss |-> DataOf(ss[i])]
             h == [n \in 0 .. c |-> SubSeq(C, 1, B(n))]
  <2>1. ds \in Seq(Seq(Units)) /\ Len(ds) = c /\ \A k \in 1 .. c : ds[k] = SubSeq(C, B(k - 1) + 1, B(k))
    <3>1. \A k \in 1 .. c : DataOf(ss[k]) \in Seq(Units)
      <4>1. \A k \in 1 .. c : ss[k] \in Segs BY <1>4 DEF Segs
      <4> QED BY <4>1, SegmentFacts
    <3>2. ds = [k \in 1 .. c |-> DataOf(ss[k])] BY <1>5
    <3>3. ds \in Seq(Seq(Units)) /\ Len(ds) = c BY <1>1, <3>1, <3>2
    <3>4. \A k \in 1 .. c : ds[k] = DataOf(ss[k]) BY <3>2
    <3> HIDE DEF ds
    <3> QED BY <1>4, <3>3, <3>4
  <2>2. \A n \in 0 .. c : B(n) \in 0 .. LengthOf[f]
    <3> SUFFICES ASSUME NEW n \in 0 .. c PROVE B(n) \in 0 .. LengthOf[f] OBVIOUS
    <3>1. CASE n = 0 BY <1>1, <1>3, <3>1
    <3>2. CASE n # 0
      <4>1. n \in 1 .. c BY <1>1, <3>2
      <4>2. B(n) \in 1 .. LengthOf[f] BY <1>1, <4>1
      <4> QED BY <1>3, <4>2
    <3> QED BY <3>1, <3>2
  <2>3. ASSUME NEW n \in 0 .. c PROVE SubSeq(C, 1, B(n)) \in Seq(Units)
    <3>1. B(n) \in 0 .. Len(C) BY <1>3, <2>2
    <3> QED BY <1>3, <3>1, Divided
  <2>4. ASSUME NEW k \in 1 .. c
        PROVE  SubSeq(C, 1, B(k)) = SubSeq(C, 1, B(k - 1)) \o SubSeq(C, B(k - 1) + 1, B(k))
    <3>1. k - 1 \in 0 .. c /\ B(k - 1) < B(k) BY <1>1
    <3>2. B(k - 1) \in 0 .. Len(C) /\ B(k) \in 1 .. Len(C) BY <1>1, <1>3, <2>2, <3>1
    <3>3. 1 \in 1 .. Len(C) + 1 /\ B(k - 1) \in 1 - 1 .. Len(C) /\ B(k) \in B(k - 1) .. Len(C)
      BY <1>3, <3>1, <3>2
    <3> QED BY <1>3, <3>3, ConcatAdjacentSubSeq
  <2>5. h \in [0 .. c -> Seq(Units)] BY <2>3
  <2>6. h[0] = << >> /\ h[c] = C
    <3>1. SubSeq(C, 1, 0) = << >> BY SubSeqEmpty
    <3>2. SubSeq(C, 1, Len(C)) = C BY <1>3, SubSeqFull
    <3> QED BY <1>1, <1>3, <3>1, <3>2
  <2>7. \A n \in 1 .. c : h[n] = h[n - 1] \o ds[n]
    <3> SUFFICES ASSUME NEW n \in 1 .. c PROVE h[n] = h[n - 1] \o ds[n] OBVIOUS
    <3>1. n \in 0 .. c /\ n - 1 \in 0 .. c BY <1>1
    <3>2. h[n] = SubSeq(C, 1, B(n)) /\ h[n - 1] = SubSeq(C, 1, B(n - 1)) BY <3>1
    <3> HIDE DEF h, ds
    <3> QED BY <2>1, <2>4, <3>2
  <2> HIDE DEF h, ds
  <2>8. Flats(h, ds, Units) BY <2>1, <2>5, <2>6, <2>7 DEF Flats
  <2>9. FlattenSeq(ds) = C BY <2>1, <2>6, <2>8, FlattenIs
  <2> QED BY <2>9 DEF Carried, ds
<1> QED BY <1>5, <1>6, <1>7 DEF ss, C

LEMMA SegmentsOfFrames ==
  ASSUME NEW s \in Seq(Frames)
  PROVE  /\ AllSegments(s) \in Seq(Segs)
         /\ Carried(AllSegments(s)) = Contents(s)
         /\ AmountIn(AllSegments(s)) = 0
<1> DEFINE F == [f \in Frames |-> Segments(f)]
           Good(t) == /\ AllSegments(t) \in Seq(Segs)
                      /\ Carried(AllSegments(t)) = Contents(t)
                      /\ AmountIn(AllSegments(t)) = 0
           L == Len(s)
           T == {n \in Nat : n <= L => Good(SubSeq(s, 1, n))}
<1>1. F \in Maps(Frames, Seq(Segs)) BY SegmentsOfFrame DEF Maps
<1>2. ASSUME NEW t \in Seq(Frames) PROVE AllSegments(t) = FlattenSeq(Mapped(F, t))
  <2>1. \A i \in DOMAIN t : t[i] \in Frames BY ElementOfSeq, LenProperties
  <2>2. [i \in DOMAIN t |-> Segments(t[i])] = Mapped(F, t) BY <2>1 DEF Mapped
  <2> QED BY <2>2 DEF AllSegments
<1>F. \A f \in Frames : F[f] = Segments(f) OBVIOUS
<1> HIDE DEF F
<1>3. L \in Nat /\ \A i \in 1 .. L : s[i] \in Frames BY LenProperties, ElementOfSeq
<1>4. 0 \in T
  <2>1. SubSeq(s, 1, 0) = << >> BY SubSeqEmpty
  <2>2. << >> \in Seq(Frames) /\ << >> \in Seq(Segs) OBVIOUS
  <2>3. AllSegments(<< >>) = << >> BY <1>2, <2>2, MappedNone, FlattenNone
  <2>4. Good(<< >>) BY <2>2, <2>3, CarriedFew, AmountInFew, ContentsFew
  <2> HIDE DEF Good
  <2> QED BY <2>1, <2>4
<1>5. ASSUME NEW n \in T PROVE n + 1 \in T
  <2> SUFFICES ASSUME n + 1 <= L PROVE Good(SubSeq(s, 1, n + 1))
    <3> HIDE DEF Good
    <3> QED OBVIOUS
  <2> DEFINE t == SubSeq(s, 1, n)
             f == s[n + 1]
             a == AllSegments(t)
  <2>1. n + 1 \in 1 .. L /\ n <= L /\ n \in Nat /\ (n + 1) - 1 = n BY <1>3
  <2>2. Good(t) BY <2>1
  <2>3. f \in Frames BY <1>3, <2>1
  <2>4. t \in Seq(Frames)
    <3>1. \A i \in 1 .. n : s[i] \in Frames BY <1>3, <2>1
    <3>2. n \in Int BY <2>1
    <3> QED BY <3>1, <3>2, SubSeqProperties
  <2>5. SubSeq(s, 1, n + 1) = t \o <<f>>
    <3>1. 1 \in 1 .. Len(s) /\ n + 1 \in 1 .. Len(s) BY <1>3, <2>1
    <3>2. SubSeq(s, 1, n + 1) = SubSeq(s, 1, (n + 1) - 1) \o <<s[n + 1]>>
      BY <3>1, SubSeqRecursiveSecond
    <3> QED BY <2>1, <3>2
  <2> HIDE DEF t, f, T
  <2>6. <<f>> \in Seq(Frames) /\ t \o <<f>> \in Seq(Frames) BY <2>3, <2>4, ConcatProperties
  <2>7. AllSegments(t \o <<f>>) = a \o Segments(f)
    <3>1. Mapped(F, t \o <<f>>) = Mapped(F, t) \o Mapped(F, <<f>>)
      <4> DEFINE u == <<f>>
      <4>1. u \in Seq(Frames) BY <2>6
      <4> HIDE DEF u
      <4>2. Mapped(F, t \o u) = Mapped(F, t) \o Mapped(F, u)
        BY <1>1, <2>4, <4>1, MappedConcat
      <4> QED BY <4>2 DEF u
    <3>2. Mapped(F, <<f>>) = <<Segments(f)>> BY <1>1, <1>F, <2>3, MappedOne
    <3>3. Mapped(F, t) \in Seq(Seq(Segs)) BY <1>1, <2>4, MappedType
    <3>4. Segments(f) \in Seq(Segs) BY <2>3, SegmentsOfFrame
    <3>5. <<Segments(f)>> \in Seq(Seq(Segs)) BY <3>4
    <3>6. FlattenSeq(Mapped(F, t) \o <<Segments(f)>>) =
            FlattenSeq(Mapped(F, t)) \o FlattenSeq(<<Segments(f)>>)
      BY <3>3, <3>5, FlattenConcat
    <3>7. FlattenSeq(<<Segments(f)>>) = Segments(f) BY <3>4, FlattenOne
    <3> QED BY <1>2, <2>4, <2>6, <3>1, <3>2, <3>6, <3>7
  <2> HIDE DEF a
  <2>8. /\ a \in Seq(Segs) /\ Carried(a) = Contents(t) /\ AmountIn(a) = 0 BY <2>2 DEF a
  <2>9. /\ Segments(f) \in Seq(Segs) /\ Carried(Segments(f)) = Content(f)
        /\ AmountIn(Segments(f)) = 0
    BY <2>3, SegmentsOfFrame
  <2>10. a \o Segments(f) \in Seq(Segs) BY <2>8, <2>9, ConcatProperties
  <2>11. AmountIn(a \o Segments(f)) = 0 BY <2>8, <2>9, AmountInConcat
  <2>12. Carried(a \o Segments(f)) = Contents(t \o <<f>>)
    <3>1. Carried(a \o Segments(f)) = Contents(t) \o Content(f)
      BY <2>8, <2>9, CarriedConcat
    <3>2. Contents(t \o <<f>>) = Contents(t) \o Contents(<<f>>) BY <2>4, <2>6, ContentsConcat
    <3>3. Contents(<<f>>) = Content(f) BY <2>3, ContentsFew
    <3> QED BY <3>1, <3>2, <3>3
  <2>13. Good(t \o <<f>>) BY <2>7, <2>10, <2>11, <2>12
  <2> HIDE DEF Good
  <2> QED BY <2>5, <2>13
<1>6. T \in SUBSET Nat OBVIOUS
<1> HIDE DEF T
<1>7. T = Nat BY <1>4, <1>5, <1>6, NatInductive
<1>8. Good(SubSeq(s, 1, L))
  <2> HIDE DEF Good
  <2> QED BY <1>3, <1>7 DEF T
<1>9. SubSeq(s, 1, L) = s BY SubSeqFull
<1> QED BY <1>8, <1>9

\* What a handler owes its peer: what it read and has not acknowledged on the wire.
Owed(h) == h.outputAcknowledgesSize + AmountIn(h.outputSegments)
\* The data it has not written.
Unsent(h) == Carried(h.outputSegments) \o Contents(h.framesQueueOutput)

SameInput(h, r) ==
  /\ r.readBuffer = h.readBuffer
  /\ r.frameDataBuffer = h.frameDataBuffer
  /\ r.maxUnAcknowledgedSize = h.maxUnAcknowledgedSize
Queues(h, r) ==
  /\ r \in Handlers /\ SameInput(h, r)
  /\ r.bytesWaitingAcknowledge = h.bytesWaitingAcknowledge
  /\ Owed(r) = Owed(h) /\ Unsent(r) = Unsent(h)

LEMMA OwedType ==
  ASSUME NEW h \in Handlers
  PROVE  Owed(h) \in Nat /\ Unsent(h) \in Seq(Units) /\ Contents(h.framesQueueOutput) \in Seq(Units)
<1>1. h.outputAcknowledgesSize \in Nat /\ AmountIn(h.outputSegments) \in Nat BY HandlerFields
<1>2. h.framesQueueOutput \in Seq(Frames) /\ Carried(h.outputSegments) \in Seq(Units)
  BY HandlerFields
<1>3. Contents(h.framesQueueOutput) \in Seq(Units) BY <1>2, ContentsConcat
<1> QED BY <1>1, <1>2, <1>3, ConcatProperties DEF Owed, Unsent

LEMMA QueuesAgain ==
  ASSUME NEW h, NEW r, NEW s, Queues(h, r), Queues(r, s)
  PROVE  Queues(h, s)
BY DEF Queues, SameInput

\* Each step of WriteFrames before the writing moves what is owed and unsent, and loses none.
LEMMA WithAckEffect == ASSUME NEW h \in Handlers PROVE Queues(h, WithAck(h))
<1> DEFINE n == h.outputAcknowledgesSize
           os == h.outputSegments
           a == Ack(n)
           r == WithAck(h)
<1>0. n \in Nat /\ os \in Seq(Segs) /\ h.framesQueueOutput \in Seq(Frames) BY HandlerFields
<1>1. CASE n > AcknowledgeMinimalReadSize
  <2>1. a \in Segs /\ AmountOf(a) = n /\ DataOf(a) = << >>
    <3>1. AckSize \in Nat BY ChannelAssumption
    <3> QED BY <1>0, <3>1 DEF Ack, Segs, Acks, AmountOf, IsAck, DataOf
  <2>2. r = [h EXCEPT !.outputSegments = <<a>> \o os, !.outputAcknowledgesSize = 0]
    BY <1>1 DEF WithAck
  <2> HIDE DEF a
  <2>3. <<a>> \in Seq(Segs) /\ <<a>> \o os \in Seq(Segs) BY <1>0, <2>1, ConcatProperties
  <2>4. r \in Handlers
    <3> DEFINE x == <<a>> \o os
    <3>1. r = [h EXCEPT !.outputSegments = x, !.outputAcknowledgesSize = 0] BY <2>2
    <3>2. x \in Seq(Segs) BY <2>3
    <3> HIDE DEF x, r
    <3> QED BY <3>1, <3>2 DEF Handlers
  <2>5. /\ r.outputSegments = <<a>> \o os /\ r.outputAcknowledgesSize = 0
        /\ SameInput(h, r) /\ r.bytesWaitingAcknowledge = h.bytesWaitingAcknowledge
        /\ r.framesQueueOutput = h.framesQueueOutput
    BY <2>2 DEF Handlers, SameInput
  <2> HIDE DEF r
  <2>6. AmountIn(<<a>> \o os) = n + AmountIn(os) /\ AmountIn(os) \in Nat
    <3>1. AmountIn(<<a>>) = n BY <2>1, AmountInFew
    <3>2. AmountIn(<<a>> \o os) = AmountIn(<<a>>) + AmountIn(os) /\ AmountIn(os) \in Nat
      BY <1>0, <2>3, AmountInConcat
    <3> QED BY <3>1, <3>2
  <2>7. Carried(<<a>> \o os) = Carried(os)
    <3>1. Carried(<<a>>) = << >> BY <2>1, CarriedFew
    <3>2. Carried(<<a>> \o os) = Carried(<<a>>) \o Carried(os) /\ Carried(os) \in Seq(Units)
      BY <1>0, <2>3, CarriedConcat
    <3>3. << >> \o Carried(os) = Carried(os) BY <3>2, ConcatEmptySeq
    <3> QED BY <3>1, <3>2, <3>3
  <2>8. Owed(r) = Owed(h) BY <1>0, <2>5, <2>6 DEF Owed
  <2>9. Unsent(r) = Unsent(h) BY <2>5, <2>7 DEF Unsent
  <2> QED BY <2>4, <2>5, <2>8, <2>9 DEF Queues, r
<1>2. CASE ~(n > AcknowledgeMinimalReadSize)
  <2>1. r = h BY <1>2 DEF WithAck
  <2> QED BY <2>1 DEF Queues, SameInput
<1> QED BY <1>1, <1>2

LEMMA WithLineTestEffect ==
  ASSUME NEW h \in Handlers, NEW test \in BOOLEAN PROVE Queues(h, WithLineTest(h, test))
<1> DEFINE os == h.outputSegments
           a == LineTest
           r == WithLineTest(h, test)
<1>0. os \in Seq(Segs) /\ h.framesQueueOutput \in Seq(Frames) BY HandlerFields
<1>1. CASE test
  <2>1. a \in Segs /\ AmountOf(a) = 0 /\ DataOf(a) = << >>
    BY DEF LineTest, Segs, LineTests, AmountOf, IsAck, DataOf
  <2>2. r = [h EXCEPT !.outputSegments = <<a>> \o os, !.lineTestQueued = TRUE]
    BY <1>1 DEF WithLineTest
  <2> HIDE DEF a
  <2>3. <<a>> \in Seq(Segs) /\ <<a>> \o os \in Seq(Segs) BY <1>0, <2>1, ConcatProperties
  <2>4. r \in Handlers BY <2>2, <2>3 DEF Handlers
  <2>5. /\ r.outputSegments = <<a>> \o os
        /\ r.outputAcknowledgesSize = h.outputAcknowledgesSize
        /\ SameInput(h, r) /\ r.bytesWaitingAcknowledge = h.bytesWaitingAcknowledge
        /\ r.framesQueueOutput = h.framesQueueOutput
    BY <2>2 DEF Handlers, SameInput
  <2> HIDE DEF r
  <2>6. AmountIn(<<a>> \o os) = AmountIn(os) /\ AmountIn(os) \in Nat
    <3>1. AmountIn(<<a>>) = 0 BY <2>1, AmountInFew
    <3>2. AmountIn(<<a>> \o os) = AmountIn(<<a>>) + AmountIn(os) /\ AmountIn(os) \in Nat
      BY <1>0, <2>3, AmountInConcat
    <3> QED BY <3>1, <3>2
  <2>7. Carried(<<a>> \o os) = Carried(os)
    <3>1. Carried(<<a>>) = << >> BY <2>1, CarriedFew
    <3>2. Carried(<<a>> \o os) = Carried(<<a>>) \o Carried(os) /\ Carried(os) \in Seq(Units)
      BY <1>0, <2>3, CarriedConcat
    <3>3. << >> \o Carried(os) = Carried(os) BY <3>2, ConcatEmptySeq
    <3> QED BY <3>1, <3>2, <3>3
  <2>8. Owed(r) = Owed(h) BY <2>5, <2>6 DEF Owed
  <2>9. Unsent(r) = Unsent(h) BY <2>5, <2>7 DEF Unsent
  <2> QED BY <2>4, <2>5, <2>8, <2>9 DEF Queues, r
<1>2. CASE ~test
  <2>1. r = h BY <1>2 DEF WithLineTest
  <2> QED BY <2>1 DEF Queues, SameInput
<1> QED BY <1>1, <1>2

LEMMA WithOptionsEffect == ASSUME NEW h \in Handlers PROVE Queues(h, WithOptions(h))
<1> DEFINE os == h.outputSegments
           a == Options
           r == WithOptions(h)
<1>0. os \in Seq(Segs) /\ h.framesQueueOutput \in Seq(Frames) BY HandlerFields
<1>1. CASE h.setConnectionOptionsNeedSend
  <2>1. a \in Segs /\ AmountOf(a) = 0 /\ DataOf(a) = << >>
    <3>1. OptionsSize \in Nat BY ChannelAssumption
    <3> QED BY <3>1 DEF Options, Segs, OptionsSegments, AmountOf, IsAck, DataOf
  <2>2. r = [h EXCEPT !.outputSegments = Append(@, a), !.setConnectionOptionsNeedSend = FALSE]
    BY <1>1 DEF WithOptions
  <2>a. Append(os, a) = os \o <<a>> BY <1>0, <2>1, AppendIsConcat
  <2> HIDE DEF a
  <2>3. <<a>> \in Seq(Segs) /\ os \o <<a>> \in Seq(Segs) BY <1>0, <2>1, ConcatProperties
  <2>b. r = [h EXCEPT !.outputSegments = os \o <<a>>, !.setConnectionOptionsNeedSend = FALSE]
    BY <2>2, <2>a
  <2>4. r \in Handlers BY <2>b, <2>3 DEF Handlers
  <2>5. /\ r.outputSegments = os \o <<a>>
        /\ r.outputAcknowledgesSize = h.outputAcknowledgesSize
        /\ SameInput(h, r) /\ r.bytesWaitingAcknowledge = h.bytesWaitingAcknowledge
        /\ r.framesQueueOutput = h.framesQueueOutput
    BY <2>b DEF Handlers, SameInput
  <2> HIDE DEF r
  <2>6. AmountIn(os \o <<a>>) = AmountIn(os) /\ AmountIn(os) \in Nat
    <3>1. AmountIn(<<a>>) = 0 BY <2>1, AmountInFew
    <3>2. AmountIn(os \o <<a>>) = AmountIn(os) + AmountIn(<<a>>) /\ AmountIn(os) \in Nat
      BY <1>0, <2>3, AmountInConcat
    <3> QED BY <3>1, <3>2
  <2>7. Carried(os \o <<a>>) = Carried(os)
    <3>1. Carried(<<a>>) = << >> BY <2>1, CarriedFew
    <3>2. /\ Carried(os \o <<a>>) = Carried(os) \o Carried(<<a>>)
          /\ Carried(os) \in Seq(Units)
      BY <1>0, <2>3, CarriedConcat
    <3> QED BY <3>1, <3>2, ConcatEmptySeq
  <2>8. Owed(r) = Owed(h) BY <2>5, <2>6 DEF Owed
  <2>9. Unsent(r) = Unsent(h) BY <2>5, <2>7 DEF Unsent
  <2> QED BY <2>4, <2>5, <2>8, <2>9 DEF Queues, r
<1>2. CASE ~h.setConnectionOptionsNeedSend
  <2>1. r = h BY <1>2 DEF WithOptions
  <2> QED BY <2>1 DEF Queues, SameInput
<1>3. h.setConnectionOptionsNeedSend \in BOOLEAN BY HandlerFields
<1> QED BY <1>1, <1>2, <1>3

LEMMA WithFramesEffect == ASSUME NEW h \in Handlers PROVE Queues(h, WithFrames(h))
<1> DEFINE os == h.outputSegments
           q == h.framesQueueOutput
           a == AllSegments(q)
           r == WithFrames(h)
<1>0. os \in Seq(Segs) /\ q \in Seq(Frames) BY HandlerFields
<1>1. a \in Seq(Segs) /\ AmountIn(a) = 0 /\ Carried(a) = Contents(q) BY <1>0, SegmentsOfFrames
<1>2. r = [h EXCEPT !.outputSegments = os \o a, !.framesQueueOutput = << >>]
  BY DEF WithFrames
<1> HIDE DEF a
<1>3. os \o a \in Seq(Segs) BY <1>0, <1>1, ConcatProperties
<1>4. r \in Handlers
  <2>1. << >> \in Seq(Frames) OBVIOUS
  <2> QED BY <1>2, <1>3, <2>1 DEF Handlers
<1>5. /\ r.outputSegments = os \o a
      /\ r.outputAcknowledgesSize = h.outputAcknowledgesSize
      /\ SameInput(h, r) /\ r.bytesWaitingAcknowledge = h.bytesWaitingAcknowledge
      /\ r.framesQueueOutput = << >>
  BY <1>2 DEF Handlers, SameInput
<1> HIDE DEF r
<1>6. AmountIn(os \o a) = AmountIn(os) /\ AmountIn(os) \in Nat
  <2>1. AmountIn(os \o a) = AmountIn(os) + AmountIn(a) /\ AmountIn(os) \in Nat
    BY <1>0, <1>1, AmountInConcat
  <2> QED BY <1>1, <2>1
<1>7. Carried(os \o a) = Carried(os) \o Contents(q) BY <1>0, <1>1, CarriedConcat
<1>8. Owed(r) = Owed(h) BY <1>5, <1>6 DEF Owed
<1>9. Unsent(r) = Unsent(h)
  <2>1. Carried(os) \o Contents(q) \in Seq(Units)
    BY <1>0, CarriedConcat, ContentsConcat, ConcatProperties
  <2>2. (Carried(os) \o Contents(q)) \o << >> = Carried(os) \o Contents(q)
    BY <2>1, ConcatEmptySeq
  <2>3. Contents(<< >>) = << >> BY ContentsFew
  <2> QED BY <1>5, <1>7, <2>2, <2>3 DEF Unsent
<1> QED BY <1>4, <1>5, <1>8, <1>9 DEF Queues, r

LEMMA PreparedEffect ==
  ASSUME NEW h \in Handlers, NEW test \in BOOLEAN PROVE Queues(h, Prepared(h, test))
<1> DEFINE a == WithAck(h)
           b == WithLineTest(a, test)
           c == WithOptions(b)
           d == WithFrames(c)
<1>1. Queues(h, a) BY WithAckEffect
<1>2. a \in Handlers BY <1>1 DEF Queues
<1> HIDE DEF a
<1>3. Queues(a, b) BY <1>2, WithLineTestEffect
<1>4. b \in Handlers BY <1>3 DEF Queues
<1> HIDE DEF b
<1>5. Queues(b, c) BY <1>4, WithOptionsEffect
<1>6. c \in Handlers BY <1>5 DEF Queues
<1> HIDE DEF c
<1>7. Queues(c, d) BY <1>6, WithFramesEffect
<1> HIDE DEF d
<1>8. Queues(h, b) BY <1>1, <1>3, QueuesAgain
<1>9. Queues(h, c) BY <1>5, <1>8, QueuesAgain
<1>10. Queues(h, d) BY <1>7, <1>9, QueuesAgain
<1> QED BY <1>10 DEF Prepared, a, b, c, d

LEMMA OutgoingEffect ==
  ASSUME NEW h \in Handlers, NEW test \in BOOLEAN PROVE Queues(h, Outgoing(h, test))
<1>1. Queues(h, h) BY DEF Queues, SameInput
<1>2. Queues(h, Prepared(h, test)) BY PreparedEffect
<1> QED BY <1>1, <1>2 DEF Outgoing

\* There is a number of segments that fit, the next of which does not.
LEMMA WritableIs ==
  ASSUME NEW h \in Handlers
  PROVE  Writable(h) \in 0 .. Len(h.outputSegments) /\ CanWrite(h, Writable(h))
<1> DEFINE L == Len(h.outputSegments)
           Good(n) == CanWrite(h, n) /\ (n < L => ~CanWrite(h, n + 1))
           T == {n \in 1 .. L : ~CanWrite(h, n)}
<1>1. L \in Nat
  <2>1. h.outputSegments \in Seq(Segs) BY HandlerFields
  <2> QED BY <2>1, LenProperties
<1>2. CanWrite(h, 0) BY DEF CanWrite
<1>w. Writable(h) = CHOOSE n \in 0 .. L : Good(n) BY DEF Writable
<1> HIDE DEF L
<1>3. \E n \in 0 .. L : Good(n)
  <2>1. CASE T = {}
    <3>1. CanWrite(h, L)
      <4>1. CASE L = 0 BY <1>2, <4>1
      <4>2. CASE L # 0
        <5>1. L \in 1 .. L BY <1>1, <4>2
        <5> QED BY <2>1, <5>1
      <4> QED BY <4>1, <4>2
    <3>2. L \in 0 .. L /\ ~(L < L) BY <1>1
    <3>3. Good(L) BY <3>1, <3>2
    <3> HIDE DEF Good
    <3> QED BY <3>2, <3>3
  <2>2. CASE T # {}
    <3>1. T \in SUBSET Nat BY <1>1
    <3>2. PICK m \in T : \A n \in T : m <= n BY <2>2, <3>1, LeastMember
    <3>3. m \in 1 .. L /\ ~CanWrite(h, m) BY <3>2
    <3>4. m - 1 \in 0 .. L /\ (m - 1) + 1 = m BY <1>1, <3>3
    <3>5. CanWrite(h, m - 1)
      <4>1. CASE m = 1 BY <1>2, <4>1
      <4>2. CASE m # 1
        <5>1. m - 1 \in 1 .. L /\ ~(m <= m - 1) BY <1>1, <3>3, <4>2
        <5>2. m - 1 \notin T BY <3>2, <5>1
        <5> QED BY <5>1, <5>2
      <4> QED BY <4>1, <4>2
    <3>6. Good(m - 1) BY <3>3, <3>4, <3>5
    <3> HIDE DEF Good
    <3> QED BY <3>4, <3>6
  <2> QED BY <2>1, <2>2
<1>4. Writable(h) \in 0 .. L /\ Good(Writable(h))
  <2> HIDE DEF Good
  <2> QED BY <1>3, <1>w
<1> QED BY <1>4 DEF L

\* Writing moves segments from the queue to the wire and counts them.
LEMMA WrittenEffect ==
  ASSUME NEW h \in Handlers, NEW n \in 0 .. Len(h.outputSegments)
  PROVE  LET r == Written(h, n)
             sent == SubSeq(h.outputSegments, 1, n)
         IN /\ sent \in Seq(Segs) /\ r \in Handlers /\ SameInput(h, r)
            /\ r.outputSegments = SubSeq(h.outputSegments, n + 1, Len(h.outputSegments))
            /\ r.framesQueueOutput = h.framesQueueOutput
            /\ r.bytesWaitingAcknowledge = h.bytesWaitingAcknowledge + SizeOf(sent)
            /\ Owed(r) + AmountIn(sent) = Owed(h)
            /\ Carried(sent) \o Unsent(r) = Unsent(h)
<1> DEFINE os == h.outputSegments
           r == Written(h, n)
           s == SubSeq(os, 1, n)
           t == SubSeq(os, n + 1, Len(os))
           W == h.bytesWaitingAcknowledge
           z == h.lineTestQueued /\ n = 0
<1>a. Assoc(Units) BY Associative
<1>1. /\ os \in Seq(Segs) /\ W \in Nat /\ h.framesQueueOutput \in Seq(Frames)
      /\ h.outputAcknowledgesSize \in Nat
  BY HandlerFields
<1>p. TwoParts(Segs, os, n, s, t)
  <2>1. n \in 0 .. Len(os) OBVIOUS
  <2> HIDE DEF os
  <2> QED BY <1>1, <2>1, Parts
<1>4. s \in Seq(Segs) /\ t \in Seq(Segs) /\ os = s \o t
  <2> HIDE DEF s, t, os
  <2> QED BY <1>p DEF TwoParts
<1>2. s \in Seq(Segs) BY <1>4
<1>3. t \in Seq(Segs) BY <1>4
<1>5. z \in BOOLEAN OBVIOUS
<1>6. r = [h EXCEPT !.outputSegments = t, !.bytesWaitingAcknowledge = W + SizeOf(s),
                    !.lineTestQueued = z]
  BY DEF Written
<1> HIDE DEF s, t, z, r
<1>7. SizeOf(s) \in Nat BY <1>2, SizeOfConcat
<1>8. r \in Handlers
  <2> DEFINE x == W + SizeOf(s)
  <2>1. x \in Nat BY <1>1, <1>7
  <2>2. r = [h EXCEPT !.outputSegments = t, !.bytesWaitingAcknowledge = x, !.lineTestQueued = z]
    BY <1>6
  <2> HIDE DEF x
  <2> QED BY <1>3, <1>5, <2>1, <2>2 DEF Handlers
<1>9. /\ SameInput(h, r) /\ r.outputSegments = t /\ r.framesQueueOutput = h.framesQueueOutput
      /\ r.bytesWaitingAcknowledge = W + SizeOf(s)
      /\ r.outputAcknowledgesSize = h.outputAcknowledgesSize
  BY <1>6 DEF Handlers, SameInput
<1>10. AmountIn(os) = AmountIn(s) + AmountIn(t) /\ AmountIn(s) \in Nat /\ AmountIn(t) \in Nat
  BY <1>2, <1>3, <1>4, AmountInConcat
<1>11. Owed(r) + AmountIn(s) = Owed(h) BY <1>1, <1>9, <1>10 DEF Owed
<1>12. Carried(s) \o Unsent(r) = Unsent(h)
  <2> DEFINE q == Contents(h.framesQueueOutput)
             x == Carried(s)
             y == Carried(t)
  <2>1. x \in Seq(Units) /\ y \in Seq(Units) /\ Carried(os) = x \o y
    BY <1>2, <1>3, <1>4, CarriedConcat
  <2>2. q \in Seq(Units) BY <1>1, ContentsConcat
  <2>3. Unsent(r) = y \o q /\ Unsent(h) = (x \o y) \o q BY <1>9, <2>1 DEF Unsent
  <2> HIDE DEF x, y, q
  <2>4. (x \o y) \o q = x \o (y \o q) BY <2>1, <2>2, <1>a DEF Assoc
  <2> QED BY <2>3, <2>4 DEF x
<1> QED BY <1>2, <1>8, <1>9, <1>11, <1>12 DEF r, s, t

\* What is written fits into the window, also when a write fails before it is all written.
LEMMA WrittenFits ==
  ASSUME NEW h \in Handlers, h.bytesWaitingAcknowledge <= h.maxUnAcknowledgedSize
  PROVE  /\ ToWrite(h) \in 0 .. Len(h.outputSegments)
         /\ \A n \in 0 .. ToWrite(h) :
              h.bytesWaitingAcknowledge + SizeOf(SubSeq(h.outputSegments, 1, n))
                <= h.maxUnAcknowledgedSize
<1> DEFINE os == h.outputSegments
           W == h.bytesWaitingAcknowledge
           m == h.maxUnAcknowledgedSize
           w == Writable(h)
<1>1. os \in Seq(Segs) /\ W \in Nat /\ m \in Nat BY HandlerFields
<1>2. Len(os) \in Nat BY <1>1, LenProperties
<1>3. w \in 0 .. Len(os) /\ CanWrite(h, w) BY WritableIs
<1>4. ASSUME NEW k \in 1 .. w
      PROVE  /\ W + SizeOf(SubSeq(os, 1, k - 1)) < m
             /\ \/ os[k].size <= m - (W + SizeOf(SubSeq(os, 1, k - 1)))
                \/ os[k].size <= 1
  BY <1>3 DEF CanWrite
<1> HIDE DEF w
<1>5. ToWrite(h) \in 0 .. w /\ ToWrite(h) \in 0 .. Len(os)
  <2>1. ToWrite(h) = 0 \/ ToWrite(h) = w BY DEF ToWrite, w
  <2> QED BY <1>2, <1>3, <2>1
<1>6. ASSUME NEW n \in 0 .. w PROVE W + SizeOf(SubSeq(os, 1, n)) <= m
  <2>1. CASE n = 0
    <3>1. SubSeq(os, 1, 0) = << >> BY SubSeqEmpty
    <3>2. SizeOf(SubSeq(os, 1, n)) = 0 BY <2>1, <3>1, SizeOfFew
    <3> QED BY <1>1, <3>2
  <2>2. CASE n # 0
    <3> DEFINE s == SubSeq(os, 1, n - 1)
               x == os[n]
    <3>1. n \in 1 .. w /\ n \in 1 .. Len(os) /\ n - 1 \in 0 .. Len(os) BY <1>2, <1>3, <2>2
    <3>2. W + SizeOf(s) < m /\ (x.size <= m - (W + SizeOf(s)) \/ x.size <= 1) BY <1>4, <3>1
    <3>3. s \in Seq(Segs) BY <1>1, <3>1, Divided
    <3>4. x \in Segs BY <1>1, <3>1, ElementOfSeq
    <3>5. x.size \in Nat BY <3>4, SegmentFacts
    <3>6. SubSeq(os, 1, n) = s \o <<x>>
      <4>1. 1 \in 1 .. Len(os) BY <1>2, <3>1
      <4> QED BY <1>1, <3>1, <4>1, SubSeqRecursiveSecond
    <3> HIDE DEF s, x
    <3>7. SizeOf(s \o <<x>>) = SizeOf(s) + x.size
      <4>1. <<x>> \in Seq(Segs) /\ SizeOf(<<x>>) = x.size BY <3>4, SizeOfFew
      <4>2. SizeOf(s \o <<x>>) = SizeOf(s) + SizeOf(<<x>>) BY <3>3, <4>1, SizeOfConcat
      <4> QED BY <4>1, <4>2
    <3>8. SizeOf(s) \in Nat BY <3>3, SizeOfConcat
    <3> DEFINE a == SizeOf(s)
               b == x.size
    <3>9. a \in Nat /\ b \in Nat /\ W + a < m /\ (b <= m - (W + a) \/ b <= 1)
      BY <3>2, <3>5, <3>8
    <3>10. SizeOf(SubSeq(os, 1, n)) = a + b BY <3>6, <3>7
    <3> HIDE DEF a, b, W, m
    <3>11. W + (a + b) <= m BY <1>1, <3>9
    <3> QED BY <3>10, <3>11
  <2> QED BY <2>1, <2>2
<1>7. \A n \in 0 .. ToWrite(h) : n \in 0 .. w BY <1>2, <1>3, <1>5
<1> QED BY <1>5, <1>6, <1>7

\* After a write that fails: the segment it was for is gone.
LEMMA FailedEffect ==
  ASSUME NEW h \in Handlers, NEW n \in 0 .. Len(h.outputSegments), n < Len(h.outputSegments)
  PROVE  LET r == [Written(h, n) EXCEPT !.outputSegments = Tail(@)] IN
         /\ r \in Handlers /\ SameInput(h, r)
         /\ r.bytesWaitingAcknowledge =
              h.bytesWaitingAcknowledge + SizeOf(SubSeq(h.outputSegments, 1, n))
         /\ Owed(r) + AmountIn(SubSeq(h.outputSegments, 1, n)) <= Owed(h)
         /\ \E lost \in Seq(Units) :
              Unsent(h) = Carried(SubSeq(h.outputSegments, 1, n)) \o (lost \o Unsent(r))
<1> DEFINE os == h.outputSegments
           w == Written(h, n)
           s == SubSeq(os, 1, n)
           t == w.outputSegments
           r == [w EXCEPT !.outputSegments = Tail(@)]
<1>a. Assoc(Units) BY Associative
<1>1. os \in Seq(Segs) /\ h.framesQueueOutput \in Seq(Frames) BY HandlerFields
<1>2. /\ s \in Seq(Segs) /\ w \in Handlers /\ SameInput(h, w)
      /\ t = SubSeq(os, n + 1, Len(os)) /\ w.framesQueueOutput = h.framesQueueOutput
      /\ w.bytesWaitingAcknowledge = h.bytesWaitingAcknowledge + SizeOf(s)
      /\ Owed(w) + AmountIn(s) = Owed(h)
      /\ Carried(s) \o Unsent(w) = Unsent(h)
  BY WrittenEffect
<1> HIDE DEF w, s
<1>3. t \in Seq(Segs) /\ t # << >>
  <2>1. Len(os) \in Nat BY <1>1, LenProperties
  <2> DEFINE u == SubSeq(os, n + 1, Len(os))
  <2>2. Len(u) = Len(os) - n BY <1>1, Divided
  <2>3. u \in Seq(Segs) BY <1>1, Divided
  <2> HIDE DEF u
  <2>4. Len(u) # 0 BY <2>1, <2>2
  <2>5. Len(<< >>) = 0 OBVIOUS
  <2>6. u # << >> BY <2>4, <2>5
  <2> QED BY <1>2, <2>3, <2>6 DEF u
<1>t. t = w.outputSegments OBVIOUS
<1> HIDE DEF t
<1>4. /\ Head(t) \in Segs /\ Tail(t) \in Seq(Segs) /\ t = <<Head(t)>> \o Tail(t)
  <2>1. Head(t) \in Segs /\ Tail(t) \in Seq(Segs) BY <1>3, HeadTailProperties
  <2>2. t = <<Head(t)>> \o Tail(t) BY <1>3, HeadTailProperties
  <2> QED BY <2>1, <2>2
<1> DEFINE x == Head(t)
           y == Tail(t)
<1>5. r = [w EXCEPT !.outputSegments = y] BY <1>t
<1>6. x \in Segs /\ y \in Seq(Segs) /\ t = <<x>> \o y BY <1>4
<1> HIDE DEF x, y, r
<1>7. r \in Handlers BY <1>2, <1>5, <1>6 DEF Handlers
<1>8. /\ SameInput(w, r) /\ r.outputSegments = y /\ r.framesQueueOutput = w.framesQueueOutput
      /\ r.bytesWaitingAcknowledge = w.bytesWaitingAcknowledge
      /\ r.outputAcknowledgesSize = w.outputAcknowledgesSize
  BY <1>2, <1>5 DEF Handlers, SameInput
<1>9. SameInput(h, r) BY <1>2, <1>8 DEF SameInput
<1>10. Unsent(w) = DataOf(x) \o Unsent(r)
  <2> DEFINE q == Contents(h.framesQueueOutput)
             c == Carried(y)
             d == DataOf(x)
  <2>1. <<x>> \in Seq(Segs) /\ Carried(<<x>>) = d /\ d \in Seq(Units)
    BY <1>6, CarriedFew, SegmentFacts
  <2>2. c \in Seq(Units) BY <1>6, CarriedConcat
  <2>3. Carried(t) = d \o c
    <3>1. Carried(<<x>> \o y) = Carried(<<x>>) \o Carried(y) BY <1>6, <2>1, CarriedConcat
    <3> QED BY <1>6, <2>1, <3>1
  <2>4. q \in Seq(Units) BY <1>1, ContentsConcat
  <2>5. Unsent(w) = (d \o c) \o q /\ Unsent(r) = c \o q BY <1>2, <1>8, <1>t, <2>3 DEF Unsent
  <2> HIDE DEF c, d, q
  <2>6. (d \o c) \o q = d \o (c \o q) BY <2>1, <2>2, <2>4, <1>a DEF Assoc
  <2> QED BY <2>5, <2>6 DEF d
<1>11. DataOf(x) \in Seq(Units) /\ Unsent(h) = Carried(s) \o (DataOf(x) \o Unsent(r))
  BY <1>2, <1>6, <1>10, SegmentFacts
\* The lost segment may have been an acknowledge.
<1>12. Owed(r) + AmountIn(s) <= Owed(h)
  <2> DEFINE a == AmountIn(y)
             b == AmountIn(<<x>>)
             c == AmountIn(s)
             o == w.outputAcknowledgesSize
  <2>1. <<x>> \in Seq(Segs) BY <1>6
  <2>2. a \in Nat /\ b \in Nat /\ AmountIn(<<x>> \o y) = b + a BY <1>6, <2>1, AmountInConcat
  <2>3. c \in Nat /\ o \in Nat BY <1>2, AmountInConcat, HandlerFields
  <2>4. Owed(w) = o + (b + a) /\ Owed(r) = o + a BY <1>6, <1>8, <1>t, <2>2 DEF Owed
  <2>5. Owed(w) + c = Owed(h) BY <1>2
  <2> HIDE DEF a, b, c, o
  <2>6. (o + a) + c <= Owed(h) BY <2>2, <2>3, <2>4, <2>5
  <2> QED BY <2>4, <2>6 DEF c
<1>13. \E lost \in Seq(Units) : Unsent(h) = Carried(s) \o (lost \o Unsent(r)) BY <1>11
<1> QED BY <1>2, <1>7, <1>8, <1>9, <1>12, <1>13 DEF r, w, s

(***************************************************************************)
(* One Quant of a handler.                                                 *)
(***************************************************************************)
\* The acknowledges it had left to read and those among what it reads.
ToCount(h, segments) == AmountIn(h.readBuffer) + AmountIn(segments)

StaysWhole(h, segments, r, t) ==
  \A q, done, rest :
    q \in Seq(Frames) /\ rest \in Seq(Units)
      /\ Whole(q, done, (Received(h) \o Carried(segments)) \o rest) =>
      Whole(q, done \o t, Received(r) \o rest)

\* What a Quant that has sent these segments makes of the handler: what is read is owed or
\* was acknowledged, and what is sent was not sent before; a segment may be lost.
Gives(h, segments, r, t, sent) ==
  /\ t \in Seq(Taken) /\ r \in Handlers /\ sent \in Seq(Segs)
  /\ r.bytesWaitingAcknowledge <= r.maxUnAcknowledgedSize
  /\ Owed(r) + AmountIn(sent) <= Owed(h) + SizeOf(segments)
  /\ \E lost \in Seq(Units) : Unsent(h) = Carried(sent) \o (lost \o Unsent(r))
  /\ r.bytesWaitingAcknowledge + ToCount(h, segments)
       >= h.bytesWaitingAcknowledge + AmountIn(r.readBuffer) + SizeOf(sent)
  /\ ReadOrder(h, segments, r, t)
  /\ StaysWhole(h, segments, r, t)
\* When nothing is lost.
GivesAll(h, segments, r, t, sent) ==
  /\ Owed(r) + AmountIn(sent) = Owed(h) + SizeOf(segments)
  /\ Carried(sent) \o Unsent(r) = Unsent(h)
  /\ \A q, done, rest :
       q \in Seq(Frames) /\ rest \in Seq(Units)
         /\ Whole(q, done, (Received(h) \o Carried(segments)) \o rest)
         /\ h.bytesWaitingAcknowledge >= ToCount(h, segments) =>
         r.bytesWaitingAcknowledge + ToCount(h, segments)
           = h.bytesWaitingAcknowledge + AmountIn(r.readBuffer) + SizeOf(sent)

\* A Quant up to its writing.
LEMMA QuantRead ==
  ASSUME NEW h \in Handlers, NEW segments \in Seq(Segs), NEW g \in Garbage, NEW test \in BOOLEAN,
         h.bytesWaitingAcknowledge <= h.maxUnAcknowledgedSize
  PROVE  LET read == ReadFrames(h, segments, g)
             o == Outgoing(read.handler, test)
         IN /\ read.taken \in Seq(Taken) /\ o \in Handlers
            /\ o.bytesWaitingAcknowledge <= o.maxUnAcknowledgedSize
            /\ Owed(o) = Owed(h) + SizeOf(segments)
            /\ Unsent(o) = Unsent(h)
            /\ o.bytesWaitingAcknowledge + ToCount(h, segments)
                 >= h.bytesWaitingAcknowledge + AmountIn(o.readBuffer)
            /\ ReadOrder(h, segments, o, read.taken)
            /\ ReadWhole(h, segments, o, read.taken)
<1> DEFINE a == ReadFrames(h, segments, g).handler
           t == ReadFrames(h, segments, g).taken
           o == Outgoing(a, test)
<1>1. /\ a \in Handlers /\ t \in Seq(Taken) /\ SameOutput(h, a)
      /\ ReadCounts(h, segments, a)
      /\ ReadOrder(h, segments, a, t) /\ ReadWhole(h, segments, a, t)
  BY ReadFramesEffect
<1> HIDE DEF a, t
<1>2. Queues(a, o) BY <1>1, OutgoingEffect
<1> HIDE DEF o
<1>3. /\ o \in Handlers /\ o.readBuffer = a.readBuffer /\ o.frameDataBuffer = a.frameDataBuffer
      /\ o.maxUnAcknowledgedSize = a.maxUnAcknowledgedSize
      /\ o.bytesWaitingAcknowledge = a.bytesWaitingAcknowledge
      /\ Owed(o) = Owed(a) /\ Unsent(o) = Unsent(a)
  BY <1>2 DEF Queues, SameInput
<1>4. Received(o) = Received(a) BY <1>3 DEF Received
<1>5. /\ h.bytesWaitingAcknowledge \in Nat /\ h.maxUnAcknowledgedSize \in Nat
      /\ a.bytesWaitingAcknowledge \in Nat /\ a.maxUnAcknowledgedSize \in Nat
      /\ h.outputAcknowledgesSize \in Nat /\ AmountIn(h.outputSegments) \in Nat
      /\ SizeOf(segments) \in Nat
  BY <1>1, HandlerFields, SizeOfConcat
<1>6. o.bytesWaitingAcknowledge <= o.maxUnAcknowledgedSize
  <2>1. /\ a.bytesWaitingAcknowledge <= h.bytesWaitingAcknowledge
        /\ a.maxUnAcknowledgedSize >= h.maxUnAcknowledgedSize
    BY <1>1 DEF ReadCounts
  <2>2. a.bytesWaitingAcknowledge <= a.maxUnAcknowledgedSize BY <1>5, <2>1
  <2> QED BY <1>3, <2>2
<1>7. Owed(o) = Owed(h) + SizeOf(segments)
  <2>1. a.outputAcknowledgesSize = h.outputAcknowledgesSize + SizeOf(segments)
        /\ a.outputSegments = h.outputSegments
    BY <1>1 DEF ReadCounts, SameOutput
  <2>2. Owed(a) = (h.outputAcknowledgesSize + SizeOf(segments)) + AmountIn(h.outputSegments)
    BY <2>1 DEF Owed
  <2>3. Owed(h) = h.outputAcknowledgesSize + AmountIn(h.outputSegments) BY DEF Owed
  <2> QED BY <1>3, <1>5, <2>2, <2>3
<1>8. Unsent(o) = Unsent(h) BY <1>1, <1>3 DEF Unsent, SameOutput
<1>9. o.bytesWaitingAcknowledge + ToCount(h, segments)
        >= h.bytesWaitingAcknowledge + AmountIn(o.readBuffer)
  BY <1>1, <1>3 DEF ReadCounts, ToCount
<1>10. ReadOrder(h, segments, o, t) BY <1>1, <1>4 DEF ReadOrder
<1>11. ReadWhole(h, segments, o, t) BY <1>1, <1>3, <1>4 DEF ReadWhole
<1> QED BY <1>1, <1>3, <1>6, <1>7, <1>8, <1>9, <1>10, <1>11 DEF o, a, t

\* A whole Quant.
LEMMA QuantEffect ==
  ASSUME NEW h \in Handlers, NEW segments \in Seq(Segs), NEW g \in Garbage, NEW test \in BOOLEAN,
         h.bytesWaitingAcknowledge <= h.maxUnAcknowledgedSize
  PROVE  LET read == ReadFrames(h, segments, g)
             o == Outgoing(read.handler, test)
             n == ToWrite(o)
             r == Written(o, n)
             sent == SubSeq(o.outputSegments, 1, n)
         IN Gives(h, segments, r, read.taken, sent) /\ GivesAll(h, segments, r, read.taken, sent)
<1> DEFINE t == ReadFrames(h, segments, g).taken
           o == Outgoing(ReadFrames(h, segments, g).handler, test)
           n == ToWrite(o)
           r == Written(o, n)
           s == SubSeq(o.outputSegments, 1, n)
<1>1. /\ t \in Seq(Taken) /\ o \in Handlers
      /\ o.bytesWaitingAcknowledge <= o.maxUnAcknowledgedSize
      /\ Owed(o) = Owed(h) + SizeOf(segments)
      /\ Unsent(o) = Unsent(h)
      /\ o.bytesWaitingAcknowledge + ToCount(h, segments)
           >= h.bytesWaitingAcknowledge + AmountIn(o.readBuffer)
      /\ ReadOrder(h, segments, o, t) /\ ReadWhole(h, segments, o, t)
  BY QuantRead
<1> HIDE DEF t, o
<1>2. /\ n \in 0 .. Len(o.outputSegments)
      /\ \A m \in 0 .. n : o.bytesWaitingAcknowledge + SizeOf(SubSeq(o.outputSegments, 1, m))
                             <= o.maxUnAcknowledgedSize
  BY <1>1, WrittenFits
<1> HIDE DEF n
<1>3. /\ s \in Seq(Segs) /\ r \in Handlers /\ SameInput(o, r)
      /\ r.bytesWaitingAcknowledge = o.bytesWaitingAcknowledge + SizeOf(s)
      /\ Owed(r) + AmountIn(s) = Owed(o)
      /\ Carried(s) \o Unsent(r) = Unsent(o)
  BY <1>1, <1>2, WrittenEffect
<1>4. o.bytesWaitingAcknowledge + SizeOf(s) <= o.maxUnAcknowledgedSize
  <2>1. n \in 0 .. n BY <1>2
  <2> QED BY <1>2, <2>1
<1> HIDE DEF r, s
<1>5. /\ r.readBuffer = o.readBuffer /\ r.maxUnAcknowledgedSize = o.maxUnAcknowledgedSize
      /\ Received(r) = Received(o)
  BY <1>3 DEF SameInput, Received
<1>6. /\ SizeOf(s) \in Nat /\ o.bytesWaitingAcknowledge \in Nat /\ h.bytesWaitingAcknowledge \in Nat
      /\ AmountIn(o.readBuffer) \in Nat /\ ToCount(h, segments) \in Nat
  <2>1. SizeOf(s) \in Nat /\ AmountIn(segments) \in Nat BY <1>3, SizeOfConcat, AmountInConcat
  <2>2. /\ o.bytesWaitingAcknowledge \in Nat /\ h.bytesWaitingAcknowledge \in Nat
        /\ AmountIn(o.readBuffer) \in Nat /\ AmountIn(h.readBuffer) \in Nat
    BY <1>1, HandlerFields
  <2> QED BY <2>1, <2>2 DEF ToCount
<1>7. r.bytesWaitingAcknowledge <= r.maxUnAcknowledgedSize BY <1>3, <1>4, <1>5
<1>8. Owed(r) + AmountIn(s) = Owed(h) + SizeOf(segments) BY <1>1, <1>3
<1>9. Carried(s) \o Unsent(r) = Unsent(h) BY <1>1, <1>3
<1> DEFINE x == SizeOf(s)
           oW == o.bytesWaitingAcknowledge
           hW == h.bytesWaitingAcknowledge
           c == ToCount(h, segments)
           b == AmountIn(o.readBuffer)
<1>10. (oW + x) + c >= hW + b + x
  <2>1. x \in Nat /\ oW \in Nat /\ hW \in Nat /\ b \in Nat /\ c \in Nat /\ oW + c >= hW + b
    BY <1>1, <1>6
  <2> HIDE DEF x, oW, hW, b, c
  <2> QED BY <2>1
<1>11. oW + c = hW + b => (oW + x) + c = hW + b + x
  <2>1. x \in Nat /\ oW \in Nat /\ hW \in Nat /\ b \in Nat /\ c \in Nat BY <1>6
  <2> HIDE DEF x, oW, hW, b, c
  <2> QED BY <2>1
<1>12. ReadOrder(h, segments, r, t) BY <1>1, <1>5 DEF ReadOrder
<1>13. StaysWhole(h, segments, r, t) BY <1>1, <1>5 DEF StaysWhole, ReadWhole
<1>e. ASSUME NEW q \in Seq(Frames), NEW done, NEW rest \in Seq(Units),
             Whole(q, done, (Received(h) \o Carried(segments)) \o rest),
             h.bytesWaitingAcknowledge >= ToCount(h, segments)
      PROVE  r.bytesWaitingAcknowledge + ToCount(h, segments)
               = h.bytesWaitingAcknowledge + AmountIn(r.readBuffer) + SizeOf(s)
  <2>1. oW + c = hW + b BY <1>1, <1>e DEF ReadWhole, ToCount
  <2>2. (oW + x) + c = hW + b + x BY <1>11, <2>1
  <2>3. r.bytesWaitingAcknowledge = oW + x /\ AmountIn(r.readBuffer) = b BY <1>3, <1>5
  <2> QED BY <2>2, <2>3
<1>14. r.bytesWaitingAcknowledge + ToCount(h, segments)
         >= h.bytesWaitingAcknowledge + AmountIn(r.readBuffer) + SizeOf(s)
  <2>4. r.bytesWaitingAcknowledge = oW + x /\ AmountIn(r.readBuffer) = b BY <1>3, <1>5
  <2> QED BY <1>10, <2>4
<1>15. \E lost \in Seq(Units) : Unsent(h) = Carried(s) \o (lost \o Unsent(r))
  <2>1. Unsent(r) \in Seq(Units) /\ << >> \in Seq(Units) BY <1>3, OwedType
  <2>2. << >> \o Unsent(r) = Unsent(r) BY <2>1, ConcatEmptySeq
  <2>3. Unsent(h) = Carried(s) \o (<< >> \o Unsent(r)) BY <1>9, <2>2
  <2> QED BY <2>1, <2>3
<1>16. Owed(r) + AmountIn(s) <= Owed(h) + SizeOf(segments)
  <2>1. Owed(h) \in Nat /\ SizeOf(segments) \in Nat BY OwedType, SizeOfConcat
  <2> QED BY <1>8, <2>1
<1>17. Gives(h, segments, r, t, s)
  BY <1>1, <1>3, <1>7, <1>12, <1>13, <1>14, <1>15, <1>16 DEF Gives
<1>18. GivesAll(h, segments, r, t, s) BY <1>8, <1>9, <1>e DEF GivesAll
<1> QED BY <1>17, <1>18 DEF r, s, n, t, o

\* A Quant whose write fails.
LEMMA QuantFails ==
  ASSUME NEW h \in Handlers, NEW segments \in Seq(Segs), NEW g \in Garbage,
         h.bytesWaitingAcknowledge <= h.maxUnAcknowledgedSize,
         NEW n \in 0 .. ToWrite(Outgoing(ReadFrames(h, segments, g).handler, FALSE)) - 1
  PROVE  LET read == ReadFrames(h, segments, g)
             o == Outgoing(read.handler, FALSE)
             r == [Written(o, n) EXCEPT !.outputSegments = Tail(@)]
         IN Gives(h, segments, r, read.taken, SubSeq(o.outputSegments, 1, n))
<1> DEFINE t == ReadFrames(h, segments, g).taken
           o == Outgoing(ReadFrames(h, segments, g).handler, FALSE)
           r == [Written(o, n) EXCEPT !.outputSegments = Tail(@)]
           s == SubSeq(o.outputSegments, 1, n)
<1>1. /\ t \in Seq(Taken) /\ o \in Handlers
      /\ o.bytesWaitingAcknowledge <= o.maxUnAcknowledgedSize
      /\ Owed(o) = Owed(h) + SizeOf(segments)
      /\ Unsent(o) = Unsent(h)
      /\ o.bytesWaitingAcknowledge + ToCount(h, segments)
           >= h.bytesWaitingAcknowledge + AmountIn(o.readBuffer)
      /\ ReadOrder(h, segments, o, t) /\ ReadWhole(h, segments, o, t)
  BY QuantRead
<1>n. n \in 0 .. ToWrite(o) - 1 OBVIOUS
<1> HIDE DEF t, o
<1>2. /\ ToWrite(o) \in 0 .. Len(o.outputSegments)
      /\ \A m \in 0 .. ToWrite(o) :
           o.bytesWaitingAcknowledge + SizeOf(SubSeq(o.outputSegments, 1, m))
             <= o.maxUnAcknowledgedSize
  BY <1>1, WrittenFits
<1>3. n \in 0 .. ToWrite(o) /\ n \in 0 .. Len(o.outputSegments) /\ n < Len(o.outputSegments)
  <2>1. o.outputSegments \in Seq(Segs) BY <1>1, HandlerFields
  <2>2. Len(o.outputSegments) \in Nat BY <2>1, LenProperties
  <2> QED BY <1>n, <1>2, <2>2
<1>4. o.bytesWaitingAcknowledge + SizeOf(s) <= o.maxUnAcknowledgedSize BY <1>2, <1>3
<1>5. s \in Seq(Segs) BY <1>1, <1>3, WrittenEffect
<1>6. /\ r \in Handlers /\ SameInput(o, r)
      /\ r.bytesWaitingAcknowledge = o.bytesWaitingAcknowledge + SizeOf(s)
      /\ Owed(r) + AmountIn(s) <= Owed(o)
      /\ \E lost \in Seq(Units) : Unsent(o) = Carried(s) \o (lost \o Unsent(r))
  BY <1>1, <1>3, FailedEffect
<1> HIDE DEF r, s
<1>7. /\ r.readBuffer = o.readBuffer /\ r.maxUnAcknowledgedSize = o.maxUnAcknowledgedSize
      /\ Received(r) = Received(o)
  BY <1>6 DEF SameInput, Received
<1>8. r.bytesWaitingAcknowledge <= r.maxUnAcknowledgedSize BY <1>4, <1>6, <1>7
<1>9. r.bytesWaitingAcknowledge + ToCount(h, segments)
        >= h.bytesWaitingAcknowledge + AmountIn(r.readBuffer) + SizeOf(s)
  <2> DEFINE x == SizeOf(s)
             oW == o.bytesWaitingAcknowledge
             hW == h.bytesWaitingAcknowledge
             c == ToCount(h, segments)
             b == AmountIn(o.readBuffer)
  <2>1. x \in Nat BY <1>5, SizeOfConcat
  <2>2. oW \in Nat /\ hW \in Nat /\ b \in Nat BY <1>1, HandlerFields
  <2>3. c \in Nat
    <3>1. AmountIn(h.readBuffer) \in Nat BY HandlerFields
    <3>2. AmountIn(segments) \in Nat BY AmountInConcat
    <3> QED BY <3>1, <3>2 DEF ToCount
  <2>4. oW + c >= hW + b BY <1>1
  <2>5. r.bytesWaitingAcknowledge = oW + x /\ AmountIn(r.readBuffer) = b BY <1>6, <1>7
  <2> HIDE DEF x, oW, hW, c, b
  <2>6. (oW + x) + c >= hW + b + x BY <2>1, <2>2, <2>3, <2>4
  <2> QED BY <2>5, <2>6 DEF hW, c, x
<1>10. ReadOrder(h, segments, r, t) BY <1>1, <1>7 DEF ReadOrder
<1>11. StaysWhole(h, segments, r, t) BY <1>1, <1>7 DEF StaysWhole, ReadWhole
<1>12. \E lost \in Seq(Units) : Unsent(h) = Carried(s) \o (lost \o Unsent(r)) BY <1>1, <1>6
<1>13. Owed(r) + AmountIn(s) <= Owed(h) + SizeOf(segments) BY <1>1, <1>6
<1>14. Gives(h, segments, r, t, s)
  BY <1>1, <1>5, <1>6, <1>8, <1>9, <1>10, <1>11, <1>12, <1>13 DEF Gives
<1> QED BY <1>14 DEF r, s, t, o

(***************************************************************************)
(* The invariant.                                                          *)
(***************************************************************************)
HandlersOfEnds == [Ends -> Handlers]
Wires == [Ends -> Seq(Segs)]
NoWires == [e \in Ends |-> << >>]

\* The data on its way from an end: read and not taken, on the wire, and not written.
Stream(hs, ws, e) == Received(hs[Peer(e)]) \o (Carried(ws[e]) \o Unsent(hs[e]))
Unread(hs, ws, e) ==
  SizeOf(ws[e]) + Owed(hs[Peer(e)]) + AmountIn(ws[Peer(e)]) + AmountIn(hs[e].readBuffer)

\* What a server's handler that was left behind has taken, and what it can still take.
Behinds ==
  [readBuffer : Seq(Segs), frameDataBuffer : Seq(Units), pendingReadType : Types,
   unread : Seq(Segs), taken : Seq(Taken)]
Pending(l) == Received(l) \o Carried(l.unread)
Bygone(l) == Finals(l.taken) \o Pending(l)
Past(ls) == FlattenSeq([c \in DOMAIN ls |-> Bygone(ls[c])])

\* All that is left of an end's frames, in the order in which they were queued: on the
\* connections that are over, on this one, and what was not written.
Start(ls, e) == IF e = "client" THEN Past(ls) ELSE << >>
Line(ls, ps, hs, ws, e) == Start(ls, e) \o (Finals(ps[e]) \o Stream(hs, ws, e))

\* With q queued, the first frames were taken and units are those that follow.
Part(q, done, units) == \E rest \in Seq(Units) : Whole(q, done, units \o rest)

ChannelTypeOK ==
  /\ handlers \in HandlersOfEnds
  /\ wire \in Wires
  /\ connection \in [number : Nat, open : {{}, {"client"}, Ends}]
  /\ left \in Seq(Behinds)
  /\ queued \in [Ends -> Seq(Frames)]
  /\ processed \in [Ends -> Seq(Taken)]
  /\ forgotten \in BOOLEAN

\* What is not there without a connection, or when one end has left it, and the handlers
\* before the first.
ServerGone(hs, ws, ps) ==
  ws["client"] = << >> /\ hs["server"] = NewHandler /\ ps["client"] = << >>
Fresh ==
  /\ connection.open = {} => wire = NoWires
  /\ ~Both => ServerGone(handlers, wire, processed)
  /\ Len(left) = IF Both THEN connection.number - 1 ELSE connection.number
  /\ connection.number = 0 =>
       /\ connection.open = {}
       /\ handlers["client"] =
            [NewHandler EXCEPT !.framesQueueOutput = handlers["client"].framesQueueOutput]

Covered(hs, ws) == hs["client"].bytesWaitingAcknowledge >= Unread(hs, ws, "client")
Accounts ==
  LET Waiting(e) == handlers[e].bytesWaitingAcknowledge IN
  /\ \A e \in Ends : Waiting(e) <= handlers[e].maxUnAcknowledgedSize
  /\ ~forgotten => Covered(handlers, wire)
  /\ Both /\ connection.number = 1 => \A e \in Ends : Waiting(e) = Unread(handlers, wire, e)

StreamOK(e) ==
  /\ Once(queued[e])
  /\ Ordered(queued[e], Line(left, processed, handlers, wire, e))
  /\ connection.number = 0 \/ (Both /\ connection.number = 1) =>
       Whole(queued[e], processed[e], Stream(handlers, wire, e))
Streams == \A e \in Ends : StreamOK(e)

\* What is left of the first connection.
FirstPart(hs, ws, ps, e) == Part(queued[e], ps[e], Received(hs[Peer(e)]) \o Carried(ws[e]))
FirstLeft == left # << >> => Part(queued["client"], left[1].taken, Pending(left[1]))
FirstOver ==
  ~Both /\ connection.number = 1 => FirstPart(handlers, wire, processed, "server")

ChannelInv == ChannelTypeOK /\ Fresh /\ Accounts /\ Streams /\ FirstLeft /\ FirstOver

LEMMA Peers ==
  /\ \A e \in Ends : Peer(e) \in Ends /\ Peer(e) # e /\ Peer(Peer(e)) = e
  /\ \A e, d \in Ends : d = e \/ d = Peer(e)
  /\ "client" \in Ends /\ "server" \in Ends
  /\ Peer("client") = "server" /\ Peer("server") = "client"
BY DEF Ends, Peer

\* The types of what the accounts are made of.
LEMMA UnreadIs ==
  ASSUME NEW hs \in HandlersOfEnds, NEW ws \in Wires, NEW e \in Ends
  PROVE  /\ SizeOf(ws[e]) \in Nat /\ AmountIn(ws[e]) \in Nat /\ Owed(hs[e]) \in Nat
         /\ AmountIn(hs[e].readBuffer) \in Nat /\ hs[e].bytesWaitingAcknowledge \in Nat
         /\ Unread(hs, ws, e) \in Nat
         /\ Carried(ws[e]) \in Seq(Units) /\ Unsent(hs[e]) \in Seq(Units)
         /\ Received(hs[e]) \in Seq(Units) /\ Stream(hs, ws, e) \in Seq(Units)
         /\ hs[e] \in Handlers /\ ws[e] \in Seq(Segs)
<1>1. \A d \in Ends : hs[d] \in Handlers /\ ws[d] \in Seq(Segs) BY DEF HandlersOfEnds, Wires
<1>2. ASSUME NEW d \in Ends
      PROVE  /\ SizeOf(ws[d]) \in Nat /\ AmountIn(ws[d]) \in Nat /\ Owed(hs[d]) \in Nat
             /\ AmountIn(hs[d].readBuffer) \in Nat /\ hs[d].bytesWaitingAcknowledge \in Nat
             /\ Carried(ws[d]) \in Seq(Units) /\ Unsent(hs[d]) \in Seq(Units)
             /\ Received(hs[d]) \in Seq(Units)
  <2>1. hs[d] \in Handlers /\ ws[d] \in Seq(Segs) BY <1>1
  <2>2. SizeOf(ws[d]) \in Nat /\ AmountIn(ws[d]) \in Nat /\ Carried(ws[d]) \in Seq(Units)
    BY <2>1, SizeOfConcat, AmountInConcat, CarriedConcat
  <2>3. Owed(hs[d]) \in Nat /\ Unsent(hs[d]) \in Seq(Units) BY <2>1, OwedType
  <2>4. /\ AmountIn(hs[d].readBuffer) \in Nat /\ hs[d].bytesWaitingAcknowledge \in Nat
        /\ Received(hs[d]) \in Seq(Units)
    BY <2>1, HandlerFields
  <2> QED BY <2>2, <2>3, <2>4
<1>3. Peer(e) \in Ends BY Peers
<1>4. Unread(hs, ws, e) \in Nat
  <2>1. SizeOf(ws[e]) \in Nat /\ AmountIn(ws[Peer(e)]) \in Nat /\ Owed(hs[Peer(e)]) \in Nat
    BY <1>2, <1>3
  <2>2. AmountIn(hs[e].readBuffer) \in Nat BY <1>2
  <2> QED BY <2>1, <2>2 DEF Unread
<1>5. Stream(hs, ws, e) \in Seq(Units)
  <2> DEFINE a == Received(hs[Peer(e)])
             b == Carried(ws[e])
             c == Unsent(hs[e])
  <2>1. a \in Seq(Units) /\ b \in Seq(Units) /\ c \in Seq(Units) BY <1>2, <1>3
  <2>2. Stream(hs, ws, e) = a \o (b \o c) BY DEF Stream
  <2> HIDE DEF a, b, c
  <2>3. b \o c \in Seq(Units) BY <2>1, ConcatProperties
  <2>4. a \o (b \o c) \in Seq(Units) BY <2>1, <2>3, ConcatProperties
  <2> QED BY <2>2, <2>4
<1> QED BY <1>1, <1>2, <1>4, <1>5

\* The property's sum is that of the account.
LEMMA UnacknowledgedIs ==
  ASSUME handlers \in HandlersOfEnds, wire \in Wires, NEW e \in Ends
  PROVE  Unacknowledged(e) = Unread(handlers, wire, e)
<1> DEFINE p == Peer(e)
           hs == handlers
           ws == wire
           a == SizeOf(ws[e])
           b == hs[p].outputAcknowledgesSize
           c == AmountIn(hs[p].outputSegments)
           d == AmountIn(ws[p])
           f == AmountIn(hs[e].readBuffer)
<1>1. p \in Ends BY Peers
<1>2. a \in Nat /\ d \in Nat /\ f \in Nat /\ hs[p] \in Handlers BY <1>1, UnreadIs
<1>3. b \in Nat /\ c \in Nat BY <1>2, HandlerFields
<1>4. Unacknowledged(e) = a + b + c + d + f BY DEF Unacknowledged
<1>5. Unread(handlers, wire, e) = a + (b + c) + d + f BY DEF Unread, Owed
<1> HIDE DEF a, b, c, d, f
<1> QED BY <1>2, <1>3, <1>4, <1>5

(***************************************************************************)
(* The handlers that were left behind.                                     *)
(***************************************************************************)
LEMMA BehindIs ==
  ASSUME NEW l \in Behinds
  PROVE  /\ l.readBuffer \in Seq(Segs) /\ l.unread \in Seq(Segs) /\ l.taken \in Seq(Taken)
         /\ Received(l) \in Seq(Units) /\ Carried(l.unread) \in Seq(Units)
         /\ Pending(l) \in Seq(Units) /\ Finals(l.taken) \in Seq(Units)
         /\ Bygone(l) \in Seq(Units)
<1>1. /\ l.readBuffer \in Seq(Segs) /\ l.unread \in Seq(Segs) /\ l.taken \in Seq(Taken)
      /\ l.frameDataBuffer \in Seq(Units)
  BY DEF Behinds
<1>2. Carried(l.readBuffer) \in Seq(Units) /\ Carried(l.unread) \in Seq(Units)
  BY <1>1, CarriedConcat
<1>3. Received(l) \in Seq(Units) BY <1>1, <1>2, ConcatProperties DEF Received
<1>4. Pending(l) \in Seq(Units) BY <1>2, <1>3, ConcatProperties DEF Pending
<1>5. Finals(l.taken) \in Seq(Units) BY <1>1, FinalsFew, FinalsConcat
<1>6. Bygone(l) \in Seq(Units) BY <1>4, <1>5, ConcatProperties DEF Bygone
<1> QED BY <1>1, <1>2, <1>3, <1>4, <1>5, <1>6

LEMMA PastConcat ==
  ASSUME NEW s \in Seq(Behinds), NEW t \in Seq(Behinds)
  PROVE  /\ Past(s) \in Seq(Units)
         /\ Past(s \o t) = Past(s) \o Past(t)
<1> DEFINE F == [l \in Behinds |-> Bygone(l)]
<1>1. F \in Maps(Behinds, Seq(Units)) BY BehindIs DEF Maps
<1>2. ASSUME NEW u \in Seq(Behinds) PROVE Past(u) = FlattenSeq(Mapped(F, u))
  <2>1. \A i \in DOMAIN u : u[i] \in Behinds BY ElementOfSeq, LenProperties
  <2>2. [i \in DOMAIN u |-> Bygone(u[i])] = Mapped(F, u) BY <2>1 DEF Mapped
  <2> QED BY <2>2 DEF Past
<1> HIDE DEF F
<1>3. s \o t \in Seq(Behinds) BY ConcatProperties
<1>4. Mapped(F, s) \in Seq(Seq(Units)) /\ Mapped(F, t) \in Seq(Seq(Units))
  BY <1>1, MappedType
<1>5. Mapped(F, s \o t) = Mapped(F, s) \o Mapped(F, t) BY <1>1, MappedConcat
<1>6. /\ Past(s) = FlattenSeq(Mapped(F, s)) /\ Past(t) = FlattenSeq(Mapped(F, t))
      /\ Past(s \o t) = FlattenSeq(Mapped(F, s \o t))
  BY <1>2, <1>3
<1>7. FlattenSeq(Mapped(F, s)) \in Seq(Units) BY <1>4, FlattenType
<1>8. FlattenSeq(Mapped(F, s) \o Mapped(F, t)) = FlattenSeq(Mapped(F, s)) \o FlattenSeq(Mapped(F, t))
  BY <1>4, FlattenConcat
<1> QED BY <1>5, <1>6, <1>7, <1>8

LEMMA PastFew ==
  /\ Past(<< >>) = << >>
  /\ \A l \in Behinds : <<l>> \in Seq(Behinds) /\ Past(<<l>>) = Bygone(l)
<1>1. [i \in DOMAIN << >> |-> Bygone(<< >>[i])] = << >> OBVIOUS
<1>2. ASSUME NEW l \in Behinds PROVE <<l>> \in Seq(Behinds) /\ Past(<<l>>) = Bygone(l)
  <2>1. Bygone(l) \in Seq(Units) BY BehindIs
  <2>2. DOMAIN <<l>> = 1 .. 1 /\ <<l>>[1] = l OBVIOUS
  <2>3. [i \in DOMAIN <<l>> |-> Bygone(<<l>>[i])] = <<Bygone(l)>> BY <2>2
  <2> QED BY <2>1, <2>3, FlattenOne DEF Past
<1> QED BY <1>1, <1>2, FlattenNone DEF Past

\* A sequence around one of its elements.
LEMMA Around ==
  ASSUME NEW S, NEW s \in Seq(S), NEW c \in 1 .. Len(s)
  PROVE  LET a == SubSeq(s, 1, c - 1)
             b == SubSeq(s, c + 1, Len(s))
         IN /\ a \in Seq(S) /\ b \in Seq(S) /\ s[c] \in S /\ <<s[c]>> \in Seq(S)
            /\ s = (a \o <<s[c]>>) \o b
<1> DEFINE L == Len(s)
           x == s[c]
           a == SubSeq(s, 1, c - 1)
           b == SubSeq(s, c + 1, L)
           d == SubSeq(s, 1, c)
<1>1. L \in Nat BY LenProperties
<1>2. x \in S BY ElementOfSeq
<1>3. a \in Seq(S) /\ b \in Seq(S)
  <2>1. c - 1 \in 0 .. Len(s) /\ c \in 0 .. Len(s) BY <1>1
  <2> QED BY <2>1, Divided
<1>4. d = a \o <<x>>
  <2>1. 1 \in 1 .. Len(s) /\ c \in 1 .. Len(s) BY <1>1
  <2> QED BY <2>1, SubSeqRecursiveSecond
<1>5. s = d \o b
  <2>1. c \in 0 .. Len(s) BY <1>1
  <2>2. TwoParts(S, s, c, d, b) BY <2>1, Parts
  <2> QED BY <2>2 DEF TwoParts
<1> HIDE DEF a, b, d, x
<1>6. <<x>> \in Seq(S) BY <1>2
<1> QED BY <1>2, <1>3, <1>4, <1>5, <1>6 DEF a, b, x

LEMMA PastAround ==
  ASSUME NEW a \in Seq(Behinds), NEW b \in Seq(Behinds), NEW l \in Behinds
  PROVE  /\ Past((a \o <<l>>) \o b) = Past(a) \o (Bygone(l) \o Past(b))
         /\ Past(a) \in Seq(Units) /\ Past(b) \in Seq(Units) /\ Bygone(l) \in Seq(Units)
<1> DEFINE d == a \o <<l>>
<1>1. <<l>> \in Seq(Behinds) /\ Past(<<l>>) = Bygone(l) BY PastFew
<1>2. d \in Seq(Behinds) BY <1>1, ConcatProperties
<1>3. Past(a \o <<l>>) = Past(a) \o Past(<<l>>) /\ Past(a) \in Seq(Units)
  BY <1>1, PastConcat
<1> HIDE DEF d
<1>4. Past(d \o b) = Past(d) \o Past(b) BY <1>2, PastConcat
<1>5. Past(b) \in Seq(Units) BY PastConcat
<1>6. Bygone(l) \in Seq(Units) BY BehindIs
<1> DEFINE x == Past(a)
           y == Bygone(l)
           z == Past(b)
<1>7. Past(d) = x \o y BY <1>1, <1>3 DEF d
<1>8. x \in Seq(Units) /\ y \in Seq(Units) /\ z \in Seq(Units) BY <1>3, <1>5, <1>6
<1>9. Past(d \o b) = (x \o y) \o z BY <1>4, <1>7
<1>a. Assoc(Units) BY Associative
<1> HIDE DEF x, y, z
<1>10. (x \o y) \o z = x \o (y \o z) BY <1>8, <1>a, ZenonT(60) DEF Assoc
<1>11. Past(d \o b) = x \o (y \o z) BY <1>9, <1>10
<1> QED BY <1>8, <1>11 DEF x, y, z, d

LEMMA PastSplit ==
  ASSUME NEW ls \in Seq(Behinds), NEW c \in 1 .. Len(ls)
  PROVE  \E a, b \in Seq(Units) : Past(ls) = a \o (Bygone(ls[c]) \o b)
<1> DEFINE a == SubSeq(ls, 1, c - 1)
           b == SubSeq(ls, c + 1, Len(ls))
<1>1. /\ a \in Seq(Behinds) /\ b \in Seq(Behinds) /\ ls[c] \in Behinds
      /\ ls = (a \o <<ls[c]>>) \o b
  BY Around
<1> HIDE DEF a, b
<1>2. /\ Past((a \o <<ls[c]>>) \o b) = Past(a) \o (Bygone(ls[c]) \o Past(b))
      /\ Past(a) \in Seq(Units) /\ Past(b) \in Seq(Units)
  BY <1>1, PastAround
<1>3. Past(ls) = Past(a) \o (Bygone(ls[c]) \o Past(b)) BY <1>1, <1>2
<1> QED BY <1>2, <1>3

\* One of them reads some more.
LEMMA PastReplaced ==
  ASSUME NEW ls \in Seq(Behinds), NEW c \in 1 .. Len(ls), NEW l \in Behinds
  PROVE  LET ms == [ls EXCEPT ![c] = l] IN
         /\ ms \in Seq(Behinds) /\ Len(ms) = Len(ls) /\ ms[c] = l
         /\ \A i \in 1 .. Len(ls) : i # c => ms[i] = ls[i]
         /\ \E a, b \in Seq(Units) :
              /\ Past(ls) = a \o (Bygone(ls[c]) \o b)
              /\ Past(ms) = a \o (Bygone(l) \o b)
<1> DEFINE ms == [ls EXCEPT ![c] = l]
           L == Len(ls)
           a == SubSeq(ls, 1, c - 1)
           b == SubSeq(ls, c + 1, L)
<1>1. L \in Nat /\ DOMAIN ls = 1 .. L BY LenProperties
<1>2. /\ ms \in Seq(Behinds) /\ Len(ms) = L /\ ms[c] = l
      /\ \A i \in 1 .. L : i # c => ms[i] = ls[i]
  <2>1. ms = [i \in 1 .. L |-> IF i = c THEN l ELSE ls[i]] BY <1>1
  <2>2. \A i \in 1 .. L : (IF i = c THEN l ELSE ls[i]) \in Behinds BY <1>1, ElementOfSeq
  <2> HIDE DEF L
  <2>3. ms \in Seq(Behinds) /\ Len(ms) = L BY <1>1, <2>1, <2>2
  <2> HIDE DEF ms
  <2>4. c \in 1 .. L BY DEF L
  <2> QED BY <2>1, <2>3, <2>4
<1>3. SubSeq(ms, 1, c - 1) = a /\ SubSeq(ms, c + 1, L) = b
  <2>1. SubSeq(ms, 1, c - 1) = [i \in 1 .. c - 1 |-> ms[i]] /\ a = [i \in 1 .. c - 1 |-> ls[i]]
    BY <1>1
  <2>2. SubSeq(ms, c + 1, L) = [i \in 1 .. L - c |-> ms[c + i]]
        /\ b = [i \in 1 .. L - c |-> ls[c + i]]
    BY <1>1
  <2>3. \A i \in 1 .. c - 1 : i \in 1 .. L /\ i # c BY <1>1
  <2>4. \A i \in 1 .. L - c : c + i \in 1 .. L /\ c + i # c BY <1>1
  <2> HIDE DEF ms, a, b, L
  <2>5. [i \in 1 .. c - 1 |-> ms[i]] = [i \in 1 .. c - 1 |-> ls[i]] BY <1>2, <2>3
  <2>6. [i \in 1 .. L - c |-> ms[c + i]] = [i \in 1 .. L - c |-> ls[c + i]] BY <1>2, <2>4
  <2> QED BY <2>1, <2>2, <2>5, <2>6
<1>4. /\ a \in Seq(Behinds) /\ b \in Seq(Behinds) /\ ls[c] \in Behinds
      /\ ls = (a \o <<ls[c]>>) \o b
  BY Around
<1> HIDE DEF ms
<1>5. ms = (SubSeq(ms, 1, c - 1) \o <<ms[c]>>) \o SubSeq(ms, c + 1, Len(ms))
  <2>1. c \in 1 .. Len(ms) BY <1>2
  <2> QED BY <1>2, <2>1, Around
<1> HIDE DEF a, b, L
<1>6. ms = (a \o <<l>>) \o b BY <1>2, <1>3, <1>5
<1>7. Past(ls) = Past(a) \o (Bygone(ls[c]) \o Past(b)) /\ Past(a) \in Seq(Units) /\ Past(b) \in Seq(Units)
  <2>1. Past((a \o <<ls[c]>>) \o b) = Past(a) \o (Bygone(ls[c]) \o Past(b))
        /\ Past(a) \in Seq(Units) /\ Past(b) \in Seq(Units)
    BY <1>4, PastAround
  <2> QED BY <1>4, <2>1
<1>8. Past(ms) = Past(a) \o (Bygone(l) \o Past(b))
  <2>1. Past((a \o <<l>>) \o b) = Past(a) \o (Bygone(l) \o Past(b)) BY <1>4, PastAround
  <2> QED BY <1>6, <2>1
<1> QED BY <1>2, <1>7, <1>8 DEF ms, L

LEMMA PastAppend ==
  ASSUME NEW ls \in Seq(Behinds), NEW l \in Behinds
  PROVE  Append(ls, l) \in Seq(Behinds) /\ Past(Append(ls, l)) = Past(ls) \o Bygone(l)
<1>1. <<l>> \in Seq(Behinds) /\ Past(<<l>>) = Bygone(l) BY PastFew
<1>2. Append(ls, l) = ls \o <<l>> BY AppendIsConcat
<1>3. Past(ls \o <<l>>) = Past(ls) \o Past(<<l>>) BY <1>1, PastConcat
<1>4. Append(ls, l) \in Seq(Behinds) OBVIOUS
<1> QED BY <1>1, <1>2, <1>3, <1>4

\* What was taken by one of them is part of the past.
LEMMA PastMember ==
  ASSUME NEW ls \in Seq(Behinds), NEW c \in 1 .. Len(ls), NEW u,
         Member(Finals(ls[c].taken), u)
  PROVE  Member(Past(ls), u)
<1> DEFINE l == ls[c]
           a == SubSeq(ls, 1, c - 1)
           b == SubSeq(ls, c + 1, Len(ls))
<1>1. /\ a \in Seq(Behinds) /\ b \in Seq(Behinds) /\ l \in Behinds
      /\ ls = (a \o <<l>>) \o b
  BY Around
<1> HIDE DEF a, b, l
<1>2. /\ Past((a \o <<l>>) \o b) = Past(a) \o (Bygone(l) \o Past(b))
      /\ Past(a) \in Seq(Units) /\ Past(b) \in Seq(Units) /\ Bygone(l) \in Seq(Units)
  BY <1>1, PastAround
<1>3. Member(Bygone(l), u)
  <2>1. Finals(l.taken) \in Seq(Units) /\ Pending(l) \in Seq(Units) BY <1>1, BehindIs
  <2>2. Member(Finals(l.taken), u) BY DEF l
  <2>3. Member(Finals(l.taken) \o Pending(l), u) BY <2>1, <2>2, MemberParts
  <2> QED BY <2>3 DEF Bygone
<1>4. Member(Bygone(l) \o Past(b), u) BY <1>2, <1>3, MemberParts
<1> DEFINE r == Bygone(l) \o Past(b)
<1>5. r \in Seq(Units) BY <1>2, ConcatProperties
<1>6. Member(r, u) BY <1>4
<1> HIDE DEF r
<1>7. Member(Past(a) \o r, u) BY <1>2, <1>5, <1>6, MemberParts
<1>8. Past(ls) = Past(a) \o r BY <1>1, <1>2 DEF r
<1> QED BY <1>7, <1>8

\* A handler is made with nothing read, owed or counted.
LEMMA NewHandlerIs ==
  ASSUME NEW q \in Seq(Frames)
  PROVE  LET h == [NewHandler EXCEPT !.framesQueueOutput = q] IN
         /\ NewHandler \in Handlers /\ h \in Handlers
         /\ h.bytesWaitingAcknowledge = 0 /\ h.maxUnAcknowledgedSize = MinimalWindow
         /\ AmountIn(h.readBuffer) = 0 /\ Owed(h) = 0 /\ Received(h) = << >>
         /\ Unsent(h) = Contents(q)
         /\ NewHandler = [NewHandler EXCEPT !.framesQueueOutput = << >>]
<1> DEFINE h == [NewHandler EXCEPT !.framesQueueOutput = q]
<1>1. /\ << >> \in Seq(Frames) /\ << >> \in Seq(Segs) /\ << >> \in Seq(Units)
      /\ MinimalWindow \in Nat /\ None \in Types
  BY ChannelAssumption DEF Types
<1>2. NewHandler \in Handlers BY <1>1 DEF NewHandler, Handlers
<1>3. h \in Handlers BY <1>1 DEF NewHandler, Handlers
<1>4. /\ h.bytesWaitingAcknowledge = 0 /\ h.maxUnAcknowledgedSize = MinimalWindow
      /\ h.readBuffer = << >> /\ h.frameDataBuffer = << >> /\ h.outputSegments = << >>
      /\ h.outputAcknowledgesSize = 0 /\ h.framesQueueOutput = q
  BY DEF NewHandler
<1>5. NewHandler = [NewHandler EXCEPT !.framesQueueOutput = << >>]
  <2>1. \A n \in Handlers : n = [n EXCEPT !.framesQueueOutput = n.framesQueueOutput]
    BY DEF Handlers
  <2>2. NewHandler.framesQueueOutput = << >> BY DEF NewHandler
  <2>3. NewHandler = [NewHandler EXCEPT !.framesQueueOutput = NewHandler.framesQueueOutput]
    BY <1>2, <2>1
  <2> HIDE DEF h
  <2> QED BY <2>2, <2>3, Zenon
<1> HIDE DEF h
<1>6. AmountIn(<< >>) = 0 /\ Carried(<< >>) = << >> BY AmountInFew, CarriedFew
<1>7. Contents(q) \in Seq(Units) BY ContentsConcat
<1>8. << >> \o << >> = << >> /\ << >> \o Contents(q) = Contents(q) BY <1>7, ConcatEmptySeq
<1>9. Owed(h) = 0 BY <1>4, <1>6 DEF Owed
<1>10. Received(h) = << >> /\ Unsent(h) = Contents(q) BY <1>4, <1>6, <1>8 DEF Received, Unsent
<1> QED BY <1>2, <1>3, <1>4, <1>5, <1>6, <1>9, <1>10 DEF h

(***************************************************************************)
(* What the invariant is for.                                              *)
(***************************************************************************)
\* What the invariant says of one end.
LEMMA InvFacts ==
  ASSUME ChannelInv, NEW e \in Ends
  PROVE  /\ handlers \in HandlersOfEnds /\ wire \in Wires /\ left \in Seq(Behinds)
         /\ handlers[e] \in Handlers /\ wire[e] \in Seq(Segs)
         /\ queued[e] \in Seq(Frames) /\ processed[e] \in Seq(Taken)
         /\ connection.number \in Nat /\ forgotten \in BOOLEAN
         /\ connection.open \in {{}, {"client"}, Ends}
         /\ connection \in [number : Nat, open : {{}, {"client"}, Ends}]
         /\ processed \in [Ends -> Seq(Taken)] /\ queued \in [Ends -> Seq(Frames)]
         /\ handlers[e].bytesWaitingAcknowledge <= handlers[e].maxUnAcknowledgedSize
         /\ Once(queued[e])
         /\ Ordered(queued[e], Line(left, processed, handlers, wire, e))
         /\ Start(left, e) \in Seq(Units) /\ Finals(processed[e]) \in Seq(Units)
         /\ Stream(handlers, wire, e) \in Seq(Units)
         /\ connection.number = 0 \/ (Both /\ connection.number = 1) =>
              Whole(queued[e], processed[e], Stream(handlers, wire, e))
<1>1. /\ handlers \in HandlersOfEnds /\ wire \in Wires /\ left \in Seq(Behinds)
      /\ connection \in [number : Nat, open : {{}, {"client"}, Ends}] /\ forgotten \in BOOLEAN
      /\ processed \in [Ends -> Seq(Taken)] /\ queued \in [Ends -> Seq(Frames)]
  BY DEF ChannelInv, ChannelTypeOK
<1>2. /\ handlers[e] \in Handlers /\ wire[e] \in Seq(Segs)
      /\ queued[e] \in Seq(Frames) /\ processed[e] \in Seq(Taken)
  BY <1>1 DEF HandlersOfEnds, Wires
<1>3. StreamOK(e) /\ handlers[e].bytesWaitingAcknowledge <= handlers[e].maxUnAcknowledgedSize
  BY DEF ChannelInv, Streams, Accounts
<1>4. Start(left, e) \in Seq(Units)
  <2>1. Past(left) \in Seq(Units) BY <1>1, PastConcat
  <2>2. << >> \in Seq(Units) OBVIOUS
  <2> QED BY <2>1, <2>2 DEF Start
<1>5. Finals(processed[e]) \in Seq(Units) BY <1>2, FinalsConcat
<1>6. Stream(handlers, wire, e) \in Seq(Units) BY <1>1, UnreadIs
<1>7. connection.number \in Nat /\ connection.open \in {{}, {"client"}, Ends} BY <1>1
<1> QED BY <1>1, <1>2, <1>3, <1>4, <1>5, <1>6, <1>7 DEF StreamOK

LEMMA PartPrefix ==
  ASSUME NEW q \in Seq(Frames), NEW done, NEW units, Part(q, done, units)
  PROVE  IsPrefix(done, q)
BY WholePrefix DEF Part

\* The parts of a line.
LEMMA LineParts ==
  ASSUME ChannelInv, NEW e \in Ends
  PROVE  /\ Start(left, e) \o Finals(processed[e]) \in Seq(Units)
         /\ Ordered(queued[e], Start(left, e) \o Finals(processed[e]))
<1> DEFINE q == queued[e]
           s == Start(left, e)
           f == Finals(processed[e])
           t == Stream(handlers, wire, e)
<1>1. /\ s \in Seq(Units) /\ f \in Seq(Units) /\ t \in Seq(Units)
      /\ Ordered(q, s \o (f \o t))
  BY InvFacts DEF Line
<1>a. Assoc(Units) BY Associative
<1> HIDE DEF q, s, f, t
<1>2. (s \o f) \o t = s \o (f \o t) BY <1>1, <1>a, ZenonT(60) DEF Assoc
<1>3. s \o f \in Seq(Units) BY <1>1, ConcatProperties
<1> DEFINE u == s \o f
<1>4. Ordered(q, u \o t) BY <1>1, <1>2
<1>5. u \in Seq(Units) BY <1>3
<1> HIDE DEF u
<1>6. Ordered(q, u) BY <1>1, <1>4, <1>5, OrderedApart
<1> QED BY <1>5, <1>6 DEF u, q, s, f

\* The frames taken on a connection, between those of earlier and later ones.
LEMMA PastApart ==
  ASSUME ChannelInv, NEW c \in 1 .. Len(left)
  PROVE  LET b == SubSeq(left, c + 1, Len(left))
             f == Finals(processed["client"])
         IN /\ Past(SubSeq(left, 1, c)) \in Seq(Units) /\ Past(b) \o f \in Seq(Units)
            /\ Past(b) \in Seq(Units) /\ f \in Seq(Units)
            /\ Ordered(queued["client"], Past(SubSeq(left, 1, c)) \o (Past(b) \o f))
<1> DEFINE a == SubSeq(left, 1, c)
           b == SubSeq(left, c + 1, Len(left))
           x == Past(a)
           y == Past(b)
           f == Finals(processed["client"])
<1>1. "client" \in Ends /\ Start(left, "client") = Past(left) BY Peers DEF Start
<1>2. /\ left \in Seq(Behinds) /\ Ordered(queued["client"], Past(left) \o f)
      /\ f \in Seq(Units)
  BY <1>1, InvFacts, LineParts
<1>3. a \in Seq(Behinds) /\ b \in Seq(Behinds) /\ left = a \o b
  <2>1. Len(left) \in Nat BY <1>2, LenProperties
  <2>2. c \in 0 .. Len(left) BY <2>1
  <2>3. TwoParts(Behinds, left, c, a, b) BY <1>2, <2>2, Parts
  <2> QED BY <2>3 DEF TwoParts
<1> HIDE DEF a, b
<1>4. Past(a \o b) = x \o y /\ x \in Seq(Units) /\ y \in Seq(Units) BY <1>3, PastConcat
<1>5. Past(left) = x \o y BY <1>3, <1>4
<1>a. Assoc(Units) BY Associative
<1>6. Ordered(queued["client"], (x \o y) \o f) BY <1>2, <1>5
<1> HIDE DEF x, y, f
<1>7. (x \o y) \o f = x \o (y \o f) BY <1>2, <1>4, <1>a, ZenonT(60) DEF Assoc
<1>8. y \o f \in Seq(Units) BY <1>2, <1>4, ConcatProperties
<1>9. Ordered(queued["client"], x \o (y \o f)) BY <1>6, <1>7
<1> QED BY <1>2, <1>4, <1>8, <1>9 DEF x, y, f, a, b

LEMMA TakenInOrder ==
  ASSUME ChannelInv, NEW c \in 1 .. connection.number, NEW d \in 1 .. connection.number, c < d,
         NEW i \in DOMAIN TakenOn(c), NEW j \in DOMAIN TakenOn(d)
  PROVE  Earlier(queued["client"], TakenOn(c)[i], TakenOn(d)[j])
<1> DEFINE L == Len(left)
           b == SubSeq(left, c + 1, L)
           x == Past(SubSeq(left, 1, c))
           f == Finals(processed["client"])
           y == Past(b) \o f
           s == TakenOn(c)
           t == TakenOn(d)
<1>1. "client" \in Ends BY Peers
<1>2. /\ left \in Seq(Behinds) /\ connection.number \in Nat /\ processed["client"] \in Seq(Taken)
  BY <1>1, InvFacts
<1>3. L \in Nat /\ DOMAIN left = 1 .. L BY <1>2, LenProperties
<1>4. L = connection.number \/ L = connection.number - 1 BY DEF ChannelInv, Fresh
<1>5. c \in 1 .. L BY <1>2, <1>3, <1>4
<1>6. /\ x \in Seq(Units) /\ y \in Seq(Units) /\ Past(b) \in Seq(Units) /\ f \in Seq(Units)
      /\ Ordered(queued["client"], x \o y)
  BY <1>5, PastApart
<1>7. s = left[c].taken /\ s \in Seq(Taken)
  <2>1. s = left[c].taken BY <1>3, <1>5 DEF TakenOn
  <2>2. left[c] \in Behinds BY <1>2, <1>5, ElementOfSeq
  <2> QED BY <2>1, <2>2, BehindIs
<1>8. ASSUME NEW u, Member(Finals(s), u) PROVE Member(x, u)
  <2> DEFINE a == SubSeq(left, 1, c)
  <2>1. c \in 0 .. Len(left) BY <1>3, <1>5
  <2>2. a \in Seq(Behinds) /\ Len(a) = c BY <1>2, <2>1, Divided
  <2>3. a[c] = left[c] BY <1>3, <1>5
  <2>4. c \in 1 .. Len(a) BY <1>5, <2>2
  <2> HIDE DEF a
  <2>5. Member(Finals(a[c].taken), u) BY <1>7, <1>8, <2>3
  <2>6. Member(Past(a), u) BY <2>2, <2>4, <2>5, PastMember
  <2> QED BY <2>6 DEF a
<1>9. t \in Seq(Taken) /\ \A u : Member(Finals(t), u) => Member(y, u)
  <2>1. CASE d \in 1 .. L
    <3>1. t = left[d].taken BY <1>3, <2>1 DEF TakenOn
    <3>2. left[d] \in Behinds BY <1>2, <2>1, ElementOfSeq
    <3>3. t \in Seq(Taken) BY <3>1, <3>2, BehindIs
    <3>4. ASSUME NEW u, Member(Finals(t), u) PROVE Member(y, u)
      <4>1. c \in 0 .. Len(left) BY <1>3, <1>5
      <4>2. b \in Seq(Behinds) /\ Len(b) = L - c BY <1>2, <4>1, Divided
      <4>3. b[d - c] = left[d] /\ d - c \in 1 .. L - c
        <5>1. d - c \in 1 .. L - c /\ (c + 1) + (d - c) - 1 = d BY <1>3, <1>5, <2>1
        <5>2. b = [n \in 1 .. L - c |-> left[c + n]] BY <1>3, <1>5
        <5> HIDE DEF b, L
        <5>3. b[d - c] = left[c + (d - c)] BY <5>1, <5>2
        <5>4. c + (d - c) = d BY <1>3, <1>5, <2>1
        <5> QED BY <5>1, <5>3, <5>4
      <4>4. Member(Finals(b[d - c].taken), u) BY <3>1, <3>4, <4>3
      <4> HIDE DEF b
      <4>5. d - c \in 1 .. Len(b) BY <4>2, <4>3
      <4>6. Member(Past(b), u) BY <4>2, <4>4, <4>5, PastMember
      <4> QED BY <1>6, <4>6, MemberParts
    <3> QED BY <3>3, <3>4
  <2>2. CASE d \notin 1 .. L
    <3>1. t = processed["client"] BY <1>3, <2>2 DEF TakenOn
    <3>2. ASSUME NEW u, Member(Finals(t), u) PROVE Member(y, u)
      <4>1. Member(f, u) BY <3>1, <3>2
      <4> HIDE DEF f, b
      <4> QED BY <1>6, <4>1, MemberParts
    <3> QED BY <1>2, <3>1, <3>2
  <2> QED BY <2>1, <2>2
<1> HIDE DEF x, y, s, t
<1>10. Earlier(queued["client"], s[i], t[j])
  <2>1. i \in DOMAIN s /\ j \in DOMAIN t BY DEF s, t
  <2> QED BY <1>6, <1>7, <1>8, <1>9, <2>1, FinalsApart
<1> QED BY <1>10 DEF s, t

LEMMA InvImplies == ChannelInv => WindowExact /\ FramesInOrder
<1> SUFFICES ASSUME ChannelInv PROVE WindowExact /\ FramesInOrder OBVIOUS
<1>0. "client" \in Ends /\ "server" \in Ends BY Peers
<1>1. WindowExact
  <2>1. \A e \in Ends : Unacknowledged(e) = Unread(handlers, wire, e)
    BY UnacknowledgedIs DEF ChannelInv, ChannelTypeOK
  <2> QED BY <1>0, <2>1 DEF WindowExact, ChannelInv, Accounts, Covered
<1>2. /\ left \in Seq(Behinds) /\ connection.number \in Nat
      /\ \A e \in Ends : processed[e] \in Seq(Taken) /\ queued[e] \in Seq(Frames)
  BY <1>0, InvFacts
<1>3. Len(left) \in Nat /\ DOMAIN left = 1 .. Len(left) BY <1>2, LenProperties
<1>4. InOrder(queued["server"], processed["server"])
  <2> DEFINE f == Finals(processed["server"])
  <2>1. Start(left, "server") = << >> BY DEF Start
  <2>2. f \in Seq(Units) BY <1>0, InvFacts
  <2>3. << >> \o f = f BY <2>2, ConcatEmptySeq
  <2>4. Ordered(queued["server"], Start(left, "server") \o f) BY <1>0, LineParts
  <2>5. Ordered(queued["server"], f) BY <2>1, <2>3, <2>4
  <2> QED BY <1>0, <1>2, <2>5, FinalsInOrder
<1>5. ASSUME NEW c \in 1 .. connection.number
      PROVE  InOrder(queued["client"], TakenOn(c))
  <2>1. CASE c \in DOMAIN left
    <3> DEFINE l == left[c]
               m == Finals(l.taken)
    <3>1. c \in 1 .. Len(left) /\ l \in Behinds BY <1>2, <1>3, <2>1, ElementOfSeq
    <3>2. TakenOn(c) = l.taken BY <2>1 DEF TakenOn
    <3> HIDE DEF l
    <3>3. l.taken \in Seq(Taken) /\ m \in Seq(Units) /\ Pending(l) \in Seq(Units)
      BY <3>1, BehindIs
    <3>4. PICK a, b \in Seq(Units) : Past(left) = a \o (Bygone(l) \o b)
      <4>1. \E a, b \in Seq(Units) : Past(left) = a \o (Bygone(left[c]) \o b)
        BY <1>2, <3>1, PastSplit
      <4> QED BY <4>1 DEF l
    <3> DEFINE g == Bygone(l)
               r == g \o b
               f == Finals(processed["client"])
    <3>5. g \in Seq(Units) /\ f \in Seq(Units) /\ Past(left) \in Seq(Units)
      BY <1>0, <1>2, <3>1, BehindIs, InvFacts, PastConcat
    <3>6. Ordered(queued["client"], Past(left) \o f) BY <1>0, LineParts DEF Start
    <3>7. Ordered(queued["client"], Past(left))
      <4> HIDE DEF f
      <4> QED BY <3>5, <3>6, OrderedApart
    <3>8. r \in Seq(Units) BY <3>5, ConcatProperties
    <3>9. Past(left) = a \o r BY <3>4
    <3>10. Ordered(queued["client"], r)
      <4> HIDE DEF r
      <4> QED BY <3>7, <3>8, <3>9, OrderedApart
    <3>11. Ordered(queued["client"], g)
      <4>1. Ordered(queued["client"], g \o b) BY <3>10
      <4> HIDE DEF g
      <4> QED BY <3>5, <4>1, OrderedApart
    <3>12. Ordered(queued["client"], m)
      <4>1. Ordered(queued["client"], m \o Pending(l)) BY <3>11 DEF Bygone
      <4> HIDE DEF m
      <4> QED BY <3>3, <4>1, OrderedApart
    <3> QED BY <3>2, <3>3, <3>12, FinalsInOrder
  <2>2. CASE c \notin DOMAIN left
    <3> DEFINE f == Finals(processed["client"])
               s == Start(left, "client")
    <3>1. TakenOn(c) = processed["client"] BY <2>2 DEF TakenOn
    <3>2. s \in Seq(Units) /\ f \in Seq(Units) /\ Ordered(queued["client"], s \o f)
      BY <1>0, InvFacts, LineParts
    <3> HIDE DEF s
    <3>3. Ordered(queued["client"], f)
      <4> HIDE DEF f
      <4> QED BY <3>2, OrderedApart
    <3> QED BY <1>0, <1>2, <3>1, <3>3, FinalsInOrder
  <2> QED BY <2>1, <2>2
<1>6. connection.number >= 1 => IsPrefix(TakenOn(1), queued["client"])
  <2> SUFFICES ASSUME connection.number >= 1 PROVE IsPrefix(TakenOn(1), queued["client"])
    OBVIOUS
  <2>1. CASE 1 \in DOMAIN left
    <3>1. left # << >> BY <2>1
    <3>2. Part(queued["client"], left[1].taken, Pending(left[1]))
      BY <3>1 DEF ChannelInv, FirstLeft
    <3>3. IsPrefix(left[1].taken, queued["client"]) BY <1>0, <1>2, <3>2, PartPrefix
    <3> QED BY <2>1, <3>3 DEF TakenOn
  <2>2. CASE 1 \notin DOMAIN left
    <3>1. Len(left) = 0 BY <1>3, <2>2
    <3>2. Len(left) = IF Both THEN connection.number - 1 ELSE connection.number
      BY DEF ChannelInv, Fresh
    <3>3. Both /\ connection.number = 1 BY <1>2, <3>1, <3>2
    <3>4. Whole(queued["client"], processed["client"], Stream(handlers, wire, "client"))
      BY <1>0, <3>3, InvFacts
    <3>5. IsPrefix(processed["client"], queued["client"]) BY <1>0, <1>2, <3>4, WholePrefix
    <3> QED BY <2>2, <3>5 DEF TakenOn
  <2> QED BY <2>1, <2>2
<1>7. connection.number <= 1 => IsPrefix(processed["server"], queued["server"])
  <2> SUFFICES ASSUME connection.number <= 1 PROVE IsPrefix(processed["server"], queued["server"])
    OBVIOUS
  <2>1. CASE connection.number = 1 /\ ~Both
    <3>1. FirstPart(handlers, wire, processed, "server") BY <2>1 DEF ChannelInv, FirstOver
    <3> QED BY <1>0, <1>2, <3>1, PartPrefix DEF FirstPart
  <2>2. CASE ~(connection.number = 1 /\ ~Both)
    <3>1. connection.number = 0 \/ (Both /\ connection.number = 1) BY <1>2, <2>2
    <3>2. Whole(queued["server"], processed["server"], Stream(handlers, wire, "server"))
      BY <1>0, <3>1, InvFacts
    <3> QED BY <1>0, <1>2, <3>2, WholePrefix
  <2> QED BY <2>1, <2>2
<1>8. \A c, d \in 1 .. connection.number : c < d =>
        \A i \in DOMAIN TakenOn(c), j \in DOMAIN TakenOn(d) :
          Earlier(queued["client"], TakenOn(c)[i], TakenOn(d)[j])
  BY TakenInOrder
<1>9. FramesInOrder BY <1>4, <1>5, <1>6, <1>7, <1>8 DEF FramesInOrder
<1> QED BY <1>1, <1>9

LEMMA InitInv == Init => ChannelInv
<1> SUFFICES ASSUME Init PROVE ChannelInv OBVIOUS
<1>0. /\ << >> \in Seq(Frames) /\ << >> \in Seq(Segs) /\ << >> \in Seq(Taken)
      /\ << >> \in Seq(Behinds)
  OBVIOUS
<1>1. NewHandler = [NewHandler EXCEPT !.framesQueueOutput = << >>] /\ NewHandler \in Handlers
  BY <1>0, NewHandlerIs
<1>2. /\ NewHandler.bytesWaitingAcknowledge = 0
      /\ NewHandler.maxUnAcknowledgedSize = MinimalWindow
      /\ AmountIn(NewHandler.readBuffer) = 0 /\ Received(NewHandler) = << >>
      /\ Unsent(NewHandler) = << >> /\ Owed(NewHandler) = 0
  <2> DEFINE h == [NewHandler EXCEPT !.framesQueueOutput = << >>]
  <2>1. /\ h.bytesWaitingAcknowledge = 0 /\ h.maxUnAcknowledgedSize = MinimalWindow
        /\ AmountIn(h.readBuffer) = 0 /\ Received(h) = << >> /\ Unsent(h) = Contents(<< >>)
        /\ Owed(h) = 0
    BY <1>0, NewHandlerIs
  <2>2. Contents(<< >>) = << >> BY ContentsFew
  <2>3. h = NewHandler BY <1>1
  <2> HIDE DEF h
  <2> QED BY <2>1, <2>2, <2>3
<1>3. /\ \A e \in Ends : /\ handlers[e] = NewHandler /\ wire[e] = << >> /\ queued[e] = << >>
                         /\ processed[e] = << >>
      /\ connection.number = 0 /\ connection.open = {} /\ forgotten = FALSE /\ left = << >>
      /\ wire = NoWires
  BY DEF Init, NoWires
<1>5. "client" \in Ends /\ "server" \in Ends BY Peers
<1>b. ~Both BY <1>3, <1>5 DEF Both
<1>4. ChannelTypeOK
  <2>1. handlers \in HandlersOfEnds /\ wire \in Wires
    BY <1>0, <1>1 DEF Init, HandlersOfEnds, Wires
  <2>2. queued \in [Ends -> Seq(Frames)] /\ processed \in [Ends -> Seq(Taken)]
    BY <1>0 DEF Init
  <2>3. connection \in [number : Nat, open : {{}, {"client"}, Ends}] /\ forgotten \in BOOLEAN
    BY DEF Init
  <2> QED BY <1>0, <1>3, <2>1, <2>2, <2>3 DEF ChannelTypeOK
<1>6. Fresh
  <2>1. NewHandler.framesQueueOutput = << >> BY DEF NewHandler
  <2>2. handlers["client"].framesQueueOutput = << >> BY <1>3, <1>5, <2>1
  <2>3. Len(left) = 0 BY <1>3
  <2>4. ServerGone(handlers, wire, processed) BY <1>3, <1>5 DEF ServerGone
  <2> QED BY <1>1, <1>3, <1>5, <1>b, <2>2, <2>3, <2>4 DEF Fresh
<1>7. Accounts
  <2>1. MinimalWindow \in Nat BY ChannelAssumption
  <2>2. SizeOf(<< >>) = 0 /\ AmountIn(<< >>) = 0 BY SizeOfFew, AmountInFew
  <2>3. Unread(handlers, wire, "client") = 0 + 0 + 0 + 0
    BY <1>2, <1>3, <1>5, <2>2, Peers DEF Unread
  <2>4. Covered(handlers, wire) BY <1>2, <1>3, <1>5, <2>3 DEF Covered
  <2> QED BY <1>2, <1>3, <1>5, <1>b, <2>1, <2>4 DEF Accounts
<1>8. ASSUME NEW e \in Ends PROVE StreamOK(e)
  <2>1. Stream(handlers, wire, e) = << >>
    <3>1. Peer(e) \in Ends BY Peers
    <3>2. Carried(<< >>) = << >> BY CarriedFew
    <3>3. << >> \o (<< >> \o << >>) = << >> OBVIOUS
    <3> QED BY <1>2, <1>3, <3>1, <3>2, <3>3 DEF Stream
  <2>2. Ordered(<< >>, << >>) BY DEF Ordered, Placed, Sorted
  <2>3. Once(<< >>) BY DEF Once
  <2>4. Whole(<< >>, << >>, << >>)
    <3>1. SubSeq(<< >>, 1, 0) = << >> BY SubSeqEmpty
    <3>2. SubSeq(<< >>, 0 + 1, Len(<< >>)) = << >> /\ 0 \in 0 .. Len(<< >>) OBVIOUS
    <3> QED BY <3>1, <3>2, ContentsFew DEF Whole
  <2>5. Line(left, processed, handlers, wire, e) = << >>
    <3>1. Start(left, e) = << >> BY <1>3, PastFew DEF Start
    <3>2. Finals(processed[e]) = << >> BY <1>3, FinalsFew
    <3>3. << >> \o (<< >> \o << >>) = << >> OBVIOUS
    <3> QED BY <2>1, <3>1, <3>2, <3>3 DEF Line
  <2> QED BY <1>3, <2>1, <2>2, <2>3, <2>4, <2>5 DEF StreamOK
<1>9. FirstLeft /\ FirstOver BY <1>3 DEF FirstLeft, FirstOver
<1> QED BY <1>4, <1>6, <1>7, <1>8, <1>9 DEF ChannelInv, Streams

(***************************************************************************)
(* The steps.                                                              *)
(***************************************************************************)
\* What is left of a line when the end, or the middle as well, is lost.
LEMMA OrderedLess ==
  ASSUME NEW q, NEW a \in Seq(Units), NEW m \in Seq(Units), NEW r \in Seq(Units),
         NEW u \in Seq(Units), NEW v \in Seq(Units), NEW w \in {u, << >>},
         Ordered(q, a \o (m \o (r \o (u \o v))))
  PROVE  /\ Ordered(q, a \o (m \o (r \o (w \o << >>))))
         /\ Ordered(q, (a \o (m \o (r \o w))) \o v)
<1> DEFINE b == Cat(a, Cat(m, r))
<1>0. << >> \in Seq(Units) OBVIOUS
<1>1. << >> \in Seq(Units) /\ w \in Seq(Units) BY <1>0
<1>2. b \in Seq(Units) BY CatFacts
<1>3. \A x, y \in Seq(Units) : /\ Cat(a, Cat(m, Cat(r, Cat(x, y)))) = Cat(Cat(b, x), y)
                               /\ Cat(Cat(a, Cat(m, Cat(r, x))), y) = Cat(Cat(b, x), y)
  <2>1. ASSUME NEW x \in Seq(Units) PROVE Cat(a, Cat(m, Cat(r, x))) = Cat(b, x)
    BY CatFacts
  <2>2. ASSUME NEW x \in Seq(Units), NEW y \in Seq(Units)
        PROVE  /\ Cat(a, Cat(m, Cat(r, Cat(x, y)))) = Cat(Cat(b, x), y)
               /\ Cat(Cat(a, Cat(m, Cat(r, x))), y) = Cat(Cat(b, x), y)
    <3> DEFINE z == Cat(x, y)
    <3>1. z \in Seq(Units) BY CatFacts
    <3> HIDE DEF b
    <3>2. Cat(b, z) = Cat(Cat(b, x), y) BY <1>2, CatFacts
    <3> HIDE DEF z
    <3>3. Cat(a, Cat(m, Cat(r, z))) = Cat(b, z) BY <2>1, <3>1
    <3>4. Cat(a, Cat(m, Cat(r, z))) = Cat(Cat(b, x), y) BY <3>2, <3>3
    <3> QED BY <2>1, <3>4 DEF z
  <2> QED BY <2>2
<1>4. Ordered(q, Cat(a, Cat(m, Cat(r, Cat(u, v))))) BY Zenon DEF Cat
<1> HIDE DEF b
<1>5. Ordered(q, Cat(Cat(b, u), v)) BY <1>3, <1>4
<1>6. Ordered(q, Cat(Cat(b, w), v))
  <2>1. CASE w = << >>
    <3>1. Ordered(q, Cat(b, v)) BY <1>2, <1>5, OrderedThinned DEF Cat
    <3>2. Cat(b, << >>) = b BY <1>2, CatFacts
    <3> QED BY <2>1, <3>1, <3>2
  <2> QED BY <1>5, <2>1
<1> DEFINE d == Cat(b, w)
<1>7. d \in Seq(Units) BY <1>1, <1>2, CatFacts
<1>8. Ordered(q, Cat(d, v)) BY <1>6
<1> HIDE DEF d
<1>9. Ordered(q, d) BY <1>7, <1>8, OrderedApart DEF Cat
<1>10. Cat(d, << >>) = d BY <1>7, CatFacts
<1>11. Ordered(q, Cat(Cat(b, w), << >>)) BY <1>9, <1>10 DEF d
<1>12. Ordered(q, Cat(a, Cat(m, Cat(r, Cat(w, << >>))))) BY <1>1, <1>3, <1>11
<1>13. Ordered(q, Cat(Cat(a, Cat(m, Cat(r, w))), v)) BY <1>1, <1>3, <1>6
<1> QED BY <1>12, <1>13, Zenon DEF Cat

\* What is left when x is sent, or not even that, and l is lost.
LEMMA OrderedSent ==
  ASSUME NEW q, NEW s \in Seq(Units), NEW f \in Seq(Units), NEW r \in Seq(Units),
         NEW c \in Seq(Units), NEW x \in Seq(Units), NEW l \in Seq(Units), NEW u \in Seq(Units),
         Ordered(q, s \o (f \o (r \o (c \o (x \o (l \o u))))))
  PROVE  /\ Ordered(q, s \o (f \o (r \o ((c \o x) \o u))))
         /\ Ordered(q, s \o (f \o (r \o (c \o u))))
<1> DEFINE b == Cat(s, Cat(f, Cat(r, c)))
           d == Cat(b, x)
<1>1. b \in Seq(Units) /\ d \in Seq(Units) BY CatFacts
<1>2. Cat(s, Cat(f, Cat(r, Cat(c, u)))) = Cat(b, u) BY CatFacts
<1>3. Cat(s, Cat(f, Cat(r, Cat(Cat(c, x), u)))) = Cat(d, u)
  <2> DEFINE y == Cat(x, u)
  <2>1. y \in Seq(Units) /\ Cat(Cat(c, x), u) = Cat(c, y) BY CatFacts
  <2>2. Cat(b, y) = Cat(d, u)
    <3> HIDE DEF b
    <3> QED BY <1>1, CatFacts
  <2> HIDE DEF y
  <2>3. Cat(s, Cat(f, Cat(r, Cat(c, y)))) = Cat(b, y) BY <2>1, CatFacts
  <2> QED BY <2>1, <2>2, <2>3
<1>4. Cat(s, Cat(f, Cat(r, Cat(c, Cat(x, Cat(l, u)))))) = Cat(Cat(d, l), u)
  <2> DEFINE y == Cat(x, Cat(l, u))
  <2>1. y \in Seq(Units) BY CatFacts
  <2>2. Cat(b, y) = Cat(Cat(d, l), u)
    <3> HIDE DEF b
    <3> QED BY <1>1, CatFacts
  <2> HIDE DEF y
  <2>3. Cat(s, Cat(f, Cat(r, Cat(c, y)))) = Cat(b, y) BY <2>1, CatFacts
  <2>4. Cat(s, Cat(f, Cat(r, Cat(c, y)))) = Cat(Cat(d, l), u) BY <2>2, <2>3
  <2> QED BY <2>4 DEF y
<1>5. Ordered(q, Cat(s, Cat(f, Cat(r, Cat(c, Cat(x, Cat(l, u))))))) BY Zenon DEF Cat
<1> HIDE DEF b, d
<1>6. Ordered(q, Cat(Cat(d, l), u)) BY <1>4, <1>5, Zenon
<1>7. Ordered(q, Cat(d, u)) BY <1>1, <1>6, OrderedThinned DEF Cat
<1>8. Ordered(q, Cat(b, u))
  <2>1. Ordered(q, Cat(Cat(b, x), u)) BY <1>7 DEF d
  <2> QED BY <1>1, <2>1, OrderedThinned DEF Cat
<1>9. Ordered(q, Cat(s, Cat(f, Cat(r, Cat(Cat(c, x), u))))) BY <1>3, <1>7, Zenon
<1>10. Ordered(q, Cat(s, Cat(f, Cat(r, Cat(c, u))))) BY <1>2, <1>8, Zenon
<1> QED BY <1>9, <1>10, Zenon DEF Cat

LEMMA PartLess ==
  ASSUME NEW q, NEW done, NEW u \in Seq(Units), NEW v \in Seq(Units), Part(q, done, u \o v)
  PROVE  Part(q, done, u)
<1>1. PICK rest \in Seq(Units) : Whole(q, done, (u \o v) \o rest) BY DEF Part
<1>a. Assoc(Units) BY Associative
<1>2. (u \o v) \o rest = u \o (v \o rest) BY <1>a DEF Assoc
<1>3. v \o rest \in Seq(Units) BY ConcatProperties
<1> QED BY <1>1, <1>2, <1>3 DEF Part

LEMMA PartQueue ==
  ASSUME NEW q \in Seq(Frames), NEW done, NEW u \in Seq(Units), NEW f \in Frames,
         Part(q, done, u)
  PROVE  Part(Append(q, f), done, u)
<1> DEFINE c == Content(f)
<1>0. c \in Seq(Units) BY ContentFacts
<1>1. PICK rest \in Seq(Units) : Whole(q, done, u \o rest) BY DEF Part
<1>2. Whole(Append(q, f), done, (u \o rest) \o c) BY <1>1, WholeQueue
<1>a. Assoc(Units) BY Associative
<1> HIDE DEF c
<1>3. (u \o rest) \o c = u \o (rest \o c) BY <1>0, <1>a DEF Assoc
<1>4. rest \o c \in Seq(Units) BY <1>0, ConcatProperties
<1> QED BY <1>2, <1>3, <1>4 DEF Part

\* What a Quant, or what an end does before it leaves, makes of the handlers, the wire and
\* the frames taken.
Mid(hs, ws, ps) ==
  /\ hs \in HandlersOfEnds /\ ws \in Wires /\ ps \in [Ends -> Seq(Taken)]
  /\ \A e \in Ends : hs[e].bytesWaitingAcknowledge <= hs[e].maxUnAcknowledgedSize
  /\ \A e \in Ends : Ordered(queued[e], Line(left, ps, hs, ws, e))
  /\ connection.number = 1 => \A e \in Ends : Both \/ e = "server" => FirstPart(hs, ws, ps, e)
  /\ ~Both => ServerGone(hs, ws, ps)

\* A new handler.
LEMMA NewHandlerFacts ==
  /\ NewHandler \in Handlers /\ NewHandler.bytesWaitingAcknowledge = 0
  /\ NewHandler.maxUnAcknowledgedSize = MinimalWindow /\ MinimalWindow \in Nat
  /\ AmountIn(NewHandler.readBuffer) = 0 /\ Owed(NewHandler) = 0
  /\ Received(NewHandler) = << >> /\ Unsent(NewHandler) = << >>
<1> DEFINE h == [NewHandler EXCEPT !.framesQueueOutput = << >>]
<1>1. << >> \in Seq(Frames) /\ Contents(<< >>) = << >> BY ContentsFew
<1>2. /\ NewHandler \in Handlers /\ h.bytesWaitingAcknowledge = 0
      /\ h.maxUnAcknowledgedSize = MinimalWindow
      /\ AmountIn(h.readBuffer) = 0 /\ Owed(h) = 0
      /\ Received(h) = << >> /\ Unsent(h) = << >> /\ NewHandler = h
  BY <1>1, NewHandlerIs
<1> HIDE DEF h
<1> QED BY <1>2, ChannelAssumption

\* What is there when an end has left: the server's handler and what was written to it
\* are gone.
LEMMA LeaveFacts ==
  ASSUME ChannelInv, NEW e \in connection.open, NEW hs, NEW ws, NEW ps, Mid(hs, ws, ps),
         Leave(e, hs, ws, ps)
  PROVE  /\ e \in Ends /\ (~Both => e = "client")
         /\ connection'.number = connection.number /\ connection.number \in Nat \ {0}
         /\ connection'.open = IF e = "client" THEN {} ELSE {"client"}
         /\ ~Both'
         /\ handlers' \in HandlersOfEnds /\ wire' \in Wires /\ processed' \in [Ends -> Seq(Taken)]
         /\ handlers'["client"] = hs["client"] /\ handlers'["server"] = NewHandler
         /\ processed'["server"] = ps["server"] /\ processed'["client"] = << >>
         /\ wire'["client"] = << >>
         /\ wire'["server"] = IF e = "server" THEN ws["server"] ELSE << >>
<1>1. "client" \in Ends /\ "server" \in Ends /\ \A d \in Ends : d = "client" \/ d = "server"
  BY DEF Ends
<1>2. /\ hs \in HandlersOfEnds /\ ws \in Wires /\ ps \in [Ends -> Seq(Taken)]
      /\ (~Both => ServerGone(hs, ws, ps))
  BY DEF Mid
<1>3. connection.open \in {{}, {"client"}, Ends} /\ connection.number \in Nat
      /\ (connection.number = 0 => connection.open = {})
      /\ connection \in [number : Nat, open : {{}, {"client"}, Ends}]
  BY <1>1, InvFacts DEF ChannelInv, Fresh
<1>4. e \in Ends /\ (~Both => e = "client") /\ connection.number # 0 BY <1>1, <1>3 DEF Both
<1>5. /\ connection'.number = connection.number
      /\ connection'.open = IF e = "client" THEN {} ELSE {"client"}
  BY <1>3 DEF Leave
<1>6. ~Both'
  <2>1. connection'.open = {} \/ connection'.open = {"client"} BY <1>5
  <2>2. Ends # {} /\ Ends # {"client"} BY DEF Ends
  <2> QED BY <2>1, <2>2 DEF Both
<1>7. << >> \in Seq(Segs) /\ << >> \in Seq(Taken) /\ NewHandler \in Handlers BY NewHandlerFacts
<1>8. wire' = [end \in Ends |-> IF e = "server" /\ end = "server" THEN ws[end] ELSE << >>]
  BY DEF Leave
<1>9. /\ wire' \in Wires /\ wire'["client"] = << >>
      /\ wire'["server"] = IF e = "server" THEN ws["server"] ELSE << >>
  <2>1. ws["server"] \in Seq(Segs) BY <1>1, <1>2 DEF Wires
  <2> QED BY <1>1, <1>7, <1>8, <2>1 DEF Wires
<1>10. /\ handlers' \in HandlersOfEnds
       /\ handlers'["client"] = hs["client"] /\ handlers'["server"] = NewHandler
  <2>1. CASE Both
    <3>1. handlers' = [hs EXCEPT !["server"] = NewHandler] BY <2>1 DEF Leave
    <3> QED BY <1>1, <1>2, <1>7, <3>1 DEF HandlersOfEnds
  <2>2. CASE ~Both
    <3>1. handlers' = hs BY <2>2 DEF Leave
    <3> QED BY <1>2, <2>2, <3>1 DEF ServerGone
  <2> QED BY <2>1, <2>2
<1>11. /\ processed' \in [Ends -> Seq(Taken)]
       /\ processed'["server"] = ps["server"] /\ processed'["client"] = << >>
  <2>1. CASE Both
    <3>1. processed' = [ps EXCEPT !["client"] = << >>] BY <2>1 DEF Leave
    <3> QED BY <1>1, <1>2, <1>7, <3>1
  <2>2. CASE ~Both
    <3>1. processed' = ps BY <2>2 DEF Leave
    <3> QED BY <1>2, <2>2, <3>1 DEF ServerGone
  <2> QED BY <2>1, <2>2
<1> QED BY <1>3, <1>4, <1>5, <1>6, <1>9, <1>10, <1>11

\* The handler of the server that is left behind.
LEMMA LeaveBehind ==
  ASSUME ChannelInv, NEW e \in connection.open, NEW hs, NEW ws, NEW ps, Mid(hs, ws, ps),
         Leave(e, hs, ws, ps), Both
  PROVE  \E l \in Behinds, u \in Seq(Segs) :
           /\ u = ws["client"] \/ u = << >>
           /\ left' = Append(left, l) /\ l.taken = ps["client"]
           /\ Pending(l) = Received(hs["server"]) \o Carried(u)
<1> DEFINE u == IF e = "client" THEN ws["client"] ELSE << >>
           h == hs["server"]
           l == Behind(h, u, ps["client"])
<1>1. "client" \in Ends /\ "server" \in Ends BY Peers
<1>2. /\ hs \in HandlersOfEnds /\ ws \in Wires /\ ps \in [Ends -> Seq(Taken)] BY DEF Mid
<1>3. left' = Append(left, l) BY DEF Leave
<1>4. h \in Handlers /\ ws["client"] \in Seq(Segs) /\ ps["client"] \in Seq(Taken)
  BY <1>1, <1>2 DEF HandlersOfEnds, Wires
<1>5. u \in Seq(Segs)
  <2>1. << >> \in Seq(Segs) OBVIOUS
  <2> QED BY <1>4, <2>1
<1>6. u = ws["client"] \/ u = << >> OBVIOUS
<1> HIDE DEF h, u
<1>7. l \in Behinds BY <1>4, <1>5 DEF Behinds, Behind, Handlers
<1>8. l.taken = ps["client"] /\ Pending(l) = Received(h) \o Carried(u)
  BY DEF Behind, Pending, Received
<1> HIDE DEF l
<1> QED BY <1>3, <1>5, <1>6, <1>7, <1>8 DEF h

\* The line of the server's frames after it.
LEMMA LeaveServerLine ==
  ASSUME ChannelInv, NEW e \in connection.open, NEW hs, NEW ws, NEW ps, Mid(hs, ws, ps),
         Leave(e, hs, ws, ps)
  PROVE  Ordered(queued["server"], Line(left', processed', handlers', wire', "server"))
<1> DEFINE q == queued["server"]
           s == << >>
           m == Finals(ps["server"])
           r == Received(hs["client"])
           u == Carried(ws["server"])
           w == Carried(wire'["server"])
           v == Unsent(hs["server"])
<1>1. "client" \in Ends /\ "server" \in Ends /\ Peer("server") = "client" BY Peers
<1>2. /\ hs \in HandlersOfEnds /\ ws \in Wires /\ ps["server"] \in Seq(Taken)
      /\ Ordered(q, Line(left, ps, hs, ws, "server"))
  BY <1>1 DEF Mid
<1>3. /\ handlers'["client"] = hs["client"] /\ handlers'["server"] = NewHandler
      /\ processed'["server"] = ps["server"]
      /\ wire'["server"] = IF e = "server" THEN ws["server"] ELSE << >>
  BY LeaveFacts
<1>4. s \in Seq(Units) /\ m \in Seq(Units) /\ r \in Seq(Units) /\ u \in Seq(Units) /\ v \in Seq(Units)
  <2>1. s \in Seq(Units) OBVIOUS
  <2>2. m \in Seq(Units) BY <1>2, FinalsConcat
  <2>3. r \in Seq(Units) /\ u \in Seq(Units) /\ v \in Seq(Units) BY <1>1, <1>2, UnreadIs
  <2> QED BY <2>1, <2>2, <2>3
<1>5. w \in {u, << >>} BY <1>3, CarriedFew
<1>6. Line(left, ps, hs, ws, "server") = s \o (m \o (r \o (u \o v)))
  BY <1>1 DEF Line, Start, Stream
<1>7. Line(left', processed', handlers', wire', "server") = s \o (m \o (r \o (w \o << >>)))
  BY <1>1, <1>3, NewHandlerFacts DEF Line, Start, Stream
<1> HIDE DEF q, s, m, r, u, w, v
<1>8. Ordered(q, s \o (m \o (r \o (u \o v)))) BY <1>2, <1>6
<1>9. Ordered(q, s \o (m \o (r \o (w \o << >>)))) BY <1>4, <1>5, <1>8, OrderedLess
<1> QED BY <1>7, <1>9 DEF q

\* That of the client's frames: what the server's handler can still take stays in its place.
LEMMA LeaveClientLine ==
  ASSUME ChannelInv, NEW e \in connection.open, NEW hs, NEW ws, NEW ps, Mid(hs, ws, ps),
         Leave(e, hs, ws, ps)
  PROVE  /\ left' \in Seq(Behinds)
         /\ Len(left') = IF Both THEN Len(left) + 1 ELSE Len(left)
         /\ Ordered(queued["client"], Line(left', processed', handlers', wire', "client"))
<1> DEFINE q == queued["client"]
           a == Past(left)
           m == Finals(ps["client"])
           r == Received(hs["server"])
           u == Carried(ws["client"])
           v == Unsent(hs["client"])
<1>1. "client" \in Ends /\ "server" \in Ends /\ Peer("client") = "server" BY Peers
<1>2. /\ hs \in HandlersOfEnds /\ ws \in Wires /\ ps["client"] \in Seq(Taken)
      /\ Ordered(q, Line(left, ps, hs, ws, "client"))
      /\ (~Both => ServerGone(hs, ws, ps))
  BY <1>1 DEF Mid
<1>3. /\ handlers'["client"] = hs["client"] /\ handlers'["server"] = NewHandler
      /\ processed'["client"] = << >> /\ wire'["client"] = << >>
  BY LeaveFacts
<1>4. left \in Seq(Behinds) BY <1>1, InvFacts
<1>5. a \in Seq(Units) /\ m \in Seq(Units) /\ r \in Seq(Units) /\ u \in Seq(Units) /\ v \in Seq(Units)
  BY <1>1, <1>2, <1>4, UnreadIs, FinalsConcat, PastConcat
<1>6. Line(left, ps, hs, ws, "client") = a \o (m \o (r \o (u \o v)))
  BY <1>1 DEF Line, Start, Stream
<1>f. Finals(<< >>) = << >> /\ Carried(<< >>) = << >> BY FinalsFew, CarriedFew
<1>7. CASE Both
  <2>1. PICK l \in Behinds, x \in Seq(Segs) :
          /\ x = ws["client"] \/ x = << >>
          /\ left' = Append(left, l) /\ l.taken = ps["client"]
          /\ Pending(l) = Received(hs["server"]) \o Carried(x)
    BY <1>7, LeaveBehind
  <2> DEFINE w == Carried(x)
             b == a \o (m \o (r \o w))
  <2>2. left' \in Seq(Behinds) /\ Past(left') = a \o Bygone(l) BY <1>4, <2>1, PastAppend
  <2>3. Len(left') = Len(left) + 1 BY <1>4, <2>1
  <2>4. Bygone(l) = m \o (r \o w) BY <2>1 DEF Bygone
  <2>5. w \in {u, << >>} BY <1>f, <2>1
  <2>6. Line(left', processed', handlers', wire', "client") = b \o (<< >> \o (<< >> \o (<< >> \o v)))
    BY <1>1, <1>3, <1>f, <2>2, <2>4, NewHandlerFacts DEF Line, Start, Stream
  <2>7. << >> \o (<< >> \o (<< >> \o v)) = v
    <3> HIDE DEF v
    <3>1. << >> \o v = v BY <1>5, ConcatEmptySeq
    <3> QED BY <3>1
  <2>8. Line(left', processed', handlers', wire', "client") = b \o v BY <2>6, <2>7
  <2>9. Ordered(q, b \o v)
    <3> HIDE DEF q, a, m, r, u, v, w
    <3>1. Ordered(q, a \o (m \o (r \o (u \o v)))) BY <1>2, <1>6
    <3> QED BY <1>5, <2>5, <3>1, OrderedLess
  <2> QED BY <1>7, <2>2, <2>3, <2>8, <2>9
<1>8. CASE ~Both
  <2>1. left' = left BY <1>8 DEF Leave
  <2>2. hs["server"] = NewHandler /\ ps["client"] = << >> /\ ws["client"] = << >>
    BY <1>2, <1>8 DEF ServerGone
  <2>3. Line(left', processed', handlers', wire', "client") = Line(left, ps, hs, ws, "client")
    BY <1>1, <1>3, <2>1, <2>2 DEF Line, Start, Stream
  <2> QED BY <1>2, <1>4, <1>8, <2>1, <2>3
<1> QED BY <1>7, <1>8

\* An end leaves the connection.
LEMMA LeaveInv ==
  ASSUME ChannelInv, NEW e \in connection.open, NEW hs, NEW ws, NEW ps, Mid(hs, ws, ps),
         Leave(e, hs, ws, ps), queued' = queued, forgotten' \in BOOLEAN,
         ~forgotten' => \/ Covered(hs, ws)
                        \/ e = "client" /\ hs["client"].bytesWaitingAcknowledge
                                             >= AmountIn(hs["client"].readBuffer)
  PROVE  ChannelInv'
<1>1. "client" \in Ends /\ "server" \in Ends /\ \A d \in Ends : d = "client" \/ d = "server"
  BY DEF Ends
<1>2. /\ hs \in HandlersOfEnds /\ ws \in Wires /\ ps \in [Ends -> Seq(Taken)]
      /\ \A d \in Ends : hs[d].bytesWaitingAcknowledge <= hs[d].maxUnAcknowledgedSize
  BY DEF Mid
<1>3. /\ (~Both => e = "client")
      /\ connection'.number = connection.number /\ connection.number \in Nat \ {0}
      /\ connection'.open = IF e = "client" THEN {} ELSE {"client"}
      /\ ~Both'
      /\ handlers' \in HandlersOfEnds /\ wire' \in Wires /\ processed' \in [Ends -> Seq(Taken)]
      /\ handlers'["client"] = hs["client"] /\ handlers'["server"] = NewHandler
      /\ processed'["server"] = ps["server"] /\ processed'["client"] = << >>
      /\ wire'["client"] = << >>
      /\ wire'["server"] = IF e = "server" THEN ws["server"] ELSE << >>
  BY LeaveFacts
<1>4. /\ left' \in Seq(Behinds)
      /\ Len(left') = IF Both THEN Len(left) + 1 ELSE Len(left)
      /\ Ordered(queued["client"], Line(left', processed', handlers', wire', "client"))
  BY LeaveClientLine
<1>5. Ordered(queued["server"], Line(left', processed', handlers', wire', "server"))
  BY LeaveServerLine
<1>6. left \in Seq(Behinds) /\ queued \in [Ends -> Seq(Frames)] /\ Len(left) \in Nat
      /\ Len(left) = IF Both THEN connection.number - 1 ELSE connection.number
  <2>1. left \in Seq(Behinds) /\ queued \in [Ends -> Seq(Frames)] BY <1>1, InvFacts
  <2>2. Len(left) \in Nat BY <2>1, LenProperties
  <2> QED BY <2>1, <2>2 DEF ChannelInv, Fresh
<1>7. ChannelTypeOK'
  <2>1. connection' \in [number : Nat, open : {{}, {"client"}, Ends}]
    <3>1. connection \in [number : Nat, open : {{}, {"client"}, Ends}] BY <1>1, InvFacts
    <3> QED BY <3>1 DEF Leave
  <2> QED BY <1>3, <1>4, <1>6, <2>1 DEF ChannelTypeOK
<1>8. Fresh'
  <2>1. connection'.open = {} => wire' = NoWires
    <3>1. wire' \in [Ends -> Seq(Segs)] BY <1>3 DEF Wires
    <3>2. ASSUME connection'.open = {} PROVE \A d \in Ends : wire'[d] = << >> BY <1>1, <1>3, <3>2
    <3> QED BY <3>1, <3>2 DEF NoWires
  <2>2. Len(left') = connection'.number BY <1>3, <1>4, <1>6
  <2>3. ServerGone(handlers, wire, processed)' BY <1>3 DEF ServerGone
  <2> QED BY <1>3, <2>1, <2>2, <2>3 DEF Fresh
<1>9. Accounts'
  <2>1. \A d \in Ends : handlers'[d].bytesWaitingAcknowledge <= handlers'[d].maxUnAcknowledgedSize
    <3>1. 0 <= MinimalWindow BY NewHandlerFacts
    <3>2. NewHandler.bytesWaitingAcknowledge <= NewHandler.maxUnAcknowledgedSize
      BY <3>1, NewHandlerFacts
    <3> QED BY <1>1, <1>2, <1>3, <3>2
  <2>2. ASSUME ~forgotten' PROVE Covered(handlers, wire)'
    <3> DEFINE x == AmountIn(wire'["server"])
               y == AmountIn(hs["client"].readBuffer)
               W == hs["client"].bytesWaitingAcknowledge
    <3>1. Unread(handlers', wire', "client") = 0 + 0 + x + y
      BY <1>3, NewHandlerFacts, SizeOfFew, Peers DEF Unread
    <3>2. y \in Nat /\ W \in Nat BY <1>1, <1>2, UnreadIs
    <3>3. x \in Nat BY <1>1, <1>3, UnreadIs
    <3>4. CASE e = "client" /\ W >= y
      <4>1. x = 0 BY <1>3, <3>4, AmountInFew
      <4>2. W >= 0 + 0 + 0 + y
        <5> HIDE DEF W, y
        <5> QED BY <3>2, <3>4
      <4> QED BY <1>3, <3>1, <4>1, <4>2 DEF Covered
    <3>5. CASE Covered(hs, ws)
      <4> DEFINE a == SizeOf(ws["client"])
                 b == Owed(hs["server"])
                 c == AmountIn(ws["server"])
      <4>1. W >= a + b + c + y BY <3>5, Peers DEF Covered, Unread
      <4>2. a \in Nat /\ b \in Nat /\ c \in Nat BY <1>1, <1>2, UnreadIs
      <4>3. x = c \/ x = 0 BY <1>3, AmountInFew
      <4>4. W >= 0 + 0 + x + y
        <5> HIDE DEF W, a, b, c, x, y
        <5> QED BY <3>2, <3>3, <4>1, <4>2, <4>3
      <4> QED BY <1>3, <3>1, <4>4 DEF Covered
    <3> QED BY <2>2, <3>4, <3>5
  <2> QED BY <1>3, <2>1, <2>2 DEF Accounts
<1>10. Streams'
  <2> SUFFICES ASSUME NEW d \in Ends PROVE StreamOK(d)' BY DEF Streams
  <2>1. Once(queued[d]) BY InvFacts
  <2>2. Ordered(queued[d], Line(left', processed', handlers', wire', d)) BY <1>1, <1>4, <1>5
  <2> QED BY <1>3, <2>1, <2>2 DEF StreamOK
<1>11. FirstLeft'
  <2>1. CASE left # << >>
    <3>1. left'[1] = left[1]
      <4>1. CASE Both
        <5>1. PICK l \in Behinds : left' = Append(left, l) BY <4>1, LeaveBehind
        <5>2. 1 \in 1 .. Len(left) BY <1>6, <2>1, EmptySeq
        <5> QED BY <1>6, <5>1, <5>2
      <4>2. CASE ~Both BY <4>2 DEF Leave
      <4> QED BY <4>1, <4>2
    <3>2. Part(queued["client"], left[1].taken, Pending(left[1]))
      BY <2>1 DEF ChannelInv, FirstLeft
    <3> QED BY <3>1, <3>2 DEF FirstLeft
  <2>2. CASE left = << >> /\ Both
    <3>1. PICK l \in Behinds, x \in Seq(Segs) :
            /\ x = ws["client"] \/ x = << >>
            /\ left' = Append(left, l) /\ l.taken = ps["client"]
            /\ Pending(l) = Received(hs["server"]) \o Carried(x)
      BY <2>2, LeaveBehind
    <3>2. left'[1] = l BY <2>2, <3>1
    <3> DEFINE q == queued["client"]
               r == Received(hs["server"])
               u == Carried(ws["client"])
               t == l.taken
    <3>3. connection.number = 1 BY <1>3, <1>6, <2>2
    <3>4. Part(q, t, r \o u) BY <1>1, <2>2, <3>1, <3>3, Peers DEF Mid, FirstPart
    <3>5. r \in Seq(Units) /\ u \in Seq(Units) BY <1>1, <1>2, UnreadIs
    <3>6. Part(q, t, Pending(l))
      <4>1. CASE x = ws["client"] BY <3>1, <3>4, <4>1
      <4>2. CASE x = << >>
        <5>1. Pending(l) = r \o << >> BY <3>1, <4>2, CarriedFew
        <5> HIDE DEF q, r, u, t
        <5>2. Part(q, t, r) BY <3>4, <3>5, PartLess
        <5>3. r \o << >> = r BY <3>5, ConcatEmptySeq
        <5> QED BY <5>1, <5>2, <5>3
      <4> QED BY <3>1, <4>1, <4>2
    <3> QED BY <3>2, <3>6 DEF FirstLeft
  <2>3. CASE left = << >> /\ ~Both
    <3>1. left' = left BY <2>3 DEF Leave
    <3> QED BY <2>3, <3>1 DEF FirstLeft
  <2> QED BY <2>1, <2>2, <2>3
<1>12. FirstOver'
  <2> SUFFICES ASSUME connection.number = 1
               PROVE  Part(queued["server"], ps["server"],
                           Received(hs["client"]) \o Carried(wire'["server"]))
    BY <1>3, Peers DEF FirstOver, FirstPart
  <2> DEFINE q == queued["server"]
             r == Received(hs["client"])
             u == Carried(ws["server"])
             t == ps["server"]
  <2>1. Part(q, t, r \o u) BY <1>1, Peers DEF Mid, FirstPart
  <2>2. r \in Seq(Units) /\ u \in Seq(Units) BY <1>1, <1>2, UnreadIs
  <2>3. Part(q, t, r \o << >>)
    <3> HIDE DEF q, r, u, t
    <3>1. Part(q, t, r) BY <2>1, <2>2, PartLess
    <3>2. r \o << >> = r BY <2>2, ConcatEmptySeq
    <3> QED BY <3>1, <3>2
  <2> QED BY <1>3, <2>1, <2>3, CarriedFew
<1> QED BY <1>7, <1>8, <1>9, <1>10, <1>11, <1>12 DEF ChannelInv

\* What is left of the first connection's frames while it is there.
LEMMA FirstNow ==
  ASSUME ChannelInv, connection.number = 1, NEW e \in Ends, Both \/ e = "server"
  PROVE  FirstPart(handlers, wire, processed, e)
<1>1. CASE Both
  <2> DEFINE q == queued[e]
             r == Received(handlers[Peer(e)])
             c == Carried(wire[e])
             u == Unsent(handlers[e])
  <2>1. Whole(q, processed[e], r \o (c \o u)) BY <1>1, InvFacts DEF Stream
  <2>2. handlers \in HandlersOfEnds /\ wire \in Wires BY InvFacts
  <2>3. r \in Seq(Units) /\ c \in Seq(Units) /\ u \in Seq(Units) BY <2>2, Peers, UnreadIs
  <2>4. Part(q, processed[e], r \o c)
    <3> HIDE DEF q, r, c, u
    <3>a. Assoc(Units) BY Associative
    <3>1. (r \o c) \o u = r \o (c \o u) BY <2>3, <3>a DEF Assoc
    <3> QED BY <2>1, <2>3, <3>1 DEF Part
  <2> QED BY <2>4 DEF FirstPart
<1>2. CASE ~Both BY <1>2 DEF ChannelInv, FirstOver
<1> QED BY <1>1, <1>2

\* A handler whose counts or flags change.
LEMMA MidHandler ==
  ASSUME ChannelInv, NEW x \in connection.open, NEW r \in Handlers,
         r.readBuffer = handlers[x].readBuffer,
         r.frameDataBuffer = handlers[x].frameDataBuffer,
         r.outputSegments = handlers[x].outputSegments,
         r.framesQueueOutput = handlers[x].framesQueueOutput,
         r.bytesWaitingAcknowledge <= r.maxUnAcknowledgedSize
  PROVE  /\ Mid([handlers EXCEPT ![x] = r], wire, processed)
         /\ x \in Ends
<1> DEFINE ks == [handlers EXCEPT ![x] = r]
<1>1. "client" \in Ends /\ "server" \in Ends BY Peers
<1>2. /\ handlers \in HandlersOfEnds /\ wire \in Wires /\ processed \in [Ends -> Seq(Taken)]
      /\ connection.open \in {{}, {"client"}, Ends}
  BY <1>1, InvFacts
<1>3. x \in Ends /\ (~Both => x = "client") BY <1>1, <1>2 DEF Both
<1>4. Received(r) = Received(handlers[x]) /\ Unsent(r) = Unsent(handlers[x])
  BY DEF Received, Unsent
<1>5. /\ ks \in HandlersOfEnds /\ ks[x] = r
      /\ \A e \in Ends : e # x => ks[e] = handlers[e]
  BY <1>2, <1>3 DEF HandlersOfEnds
<1> HIDE DEF ks
<1>6. \A e \in Ends : /\ Received(ks[e]) = Received(handlers[e])
                      /\ Unsent(ks[e]) = Unsent(handlers[e])
                      /\ ks[e].bytesWaitingAcknowledge <= ks[e].maxUnAcknowledgedSize
  BY <1>4, <1>5, InvFacts
<1>7. ASSUME NEW e \in Ends PROVE Ordered(queued[e], Line(left, processed, ks, wire, e))
  <2>1. Stream(ks, wire, e) = Stream(handlers, wire, e) BY <1>6, Peers DEF Stream
  <2>2. Line(left, processed, ks, wire, e) = Line(left, processed, handlers, wire, e)
    BY <2>1 DEF Line
  <2> QED BY <2>2, InvFacts
<1>8. ASSUME connection.number = 1, NEW e \in Ends, Both \/ e = "server"
      PROVE  FirstPart(ks, wire, processed, e)
  <2>1. FirstPart(handlers, wire, processed, e) BY <1>8, FirstNow
  <2> QED BY <1>6, <2>1, Peers DEF FirstPart
<1>9. ~Both => ServerGone(ks, wire, processed)
  <2>1. ~Both => ServerGone(handlers, wire, processed) BY DEF ChannelInv, Fresh
  <2> QED BY <1>1, <1>3, <1>5, <2>1 DEF ServerGone
<1>10. Mid(ks, wire, processed) BY <1>2, <1>5, <1>6, <1>7, <1>8, <1>9 DEF Mid
<1> QED BY <1>3, <1>10 DEF ks

LEMMA LoseInv ==
  ASSUME ChannelInv, NEW e \in Ends, NEW inactive \in BOOLEAN, Lose(e, inactive)
  PROVE  ChannelInv'
<1> DEFINE h == handlers[e]
           r == [h EXCEPT !.setConnectionOptionsNeedSend = @ \/ inactive]
           ks == [handlers EXCEPT ![e] = r]
<1>1. h \in Handlers /\ handlers \in HandlersOfEnds /\ wire \in Wires
      /\ h.bytesWaitingAcknowledge <= h.maxUnAcknowledgedSize
  BY InvFacts
<1>2. /\ e \in connection.open /\ queued' = queued /\ forgotten' = forgotten
      /\ Leave(e, [handlers EXCEPT ![e].setConnectionOptionsNeedSend = @ \/ inactive],
               wire, processed)
  BY DEF Lose
<1>3. [handlers EXCEPT ![e].setConnectionOptionsNeedSend = @ \/ inactive] = ks
  BY <1>1 DEF HandlersOfEnds
<1>4. /\ r \in Handlers /\ r.bytesWaitingAcknowledge = h.bytesWaitingAcknowledge
      /\ r.maxUnAcknowledgedSize = h.maxUnAcknowledgedSize
      /\ r.readBuffer = h.readBuffer /\ r.frameDataBuffer = h.frameDataBuffer
      /\ r.outputSegments = h.outputSegments /\ r.framesQueueOutput = h.framesQueueOutput
      /\ r.outputAcknowledgesSize = h.outputAcknowledgesSize
  <2>1. (h.setConnectionOptionsNeedSend \/ inactive) \in BOOLEAN OBVIOUS
  <2> QED BY <1>1, <2>1 DEF Handlers
<1> HIDE DEF r
<1>5. Leave(e, ks, wire, processed) BY <1>2, <1>3
<1>6. Mid(ks, wire, processed)
  <2>1. r.bytesWaitingAcknowledge <= r.maxUnAcknowledgedSize BY <1>1, <1>4
  <2> QED BY <1>2, <1>4, <2>1, MidHandler
<1>7. ~forgotten => Covered(ks, wire)
  <2>1. \A d \in Ends : /\ ks[d].bytesWaitingAcknowledge = handlers[d].bytesWaitingAcknowledge
                        /\ ks[d].readBuffer = handlers[d].readBuffer
                        /\ Owed(ks[d]) = Owed(handlers[d])
    BY <1>1, <1>4 DEF HandlersOfEnds, Owed
  <2>2. ~forgotten => Covered(handlers, wire) BY DEF ChannelInv, Accounts
  <2> HIDE DEF ks
  <2> QED BY <2>1, <2>2, Peers DEF Covered, Unread
<1>8. forgotten' \in BOOLEAN BY <1>2, InvFacts
<1> HIDE DEF ks
<1> QED BY <1>2, <1>5, <1>6, <1>7, <1>8, LeaveInv

LEMMA AckTimeoutInv == ASSUME ChannelInv, NEW e \in Ends, AckTimeout(e) PROVE ChannelInv'
<1> DEFINE h == handlers[e]
           r == [h EXCEPT !.bytesWaitingAcknowledge = 0]
           ks == [handlers EXCEPT ![e] = r]
<1>1. h \in Handlers /\ handlers \in HandlersOfEnds /\ wire \in Wires
  BY InvFacts
<1>2. /\ e \in connection.open /\ queued' = queued
      /\ forgotten' = (forgotten \/ (e = "client" /\ AmountIn(h.readBuffer) > 0))
      /\ Leave(e, [handlers EXCEPT ![e].bytesWaitingAcknowledge = 0], wire, processed)
  BY DEF AckTimeout
<1>3. [handlers EXCEPT ![e].bytesWaitingAcknowledge = 0] = ks BY <1>1 DEF HandlersOfEnds
<1>4. /\ r \in Handlers /\ r.bytesWaitingAcknowledge = 0
      /\ r.maxUnAcknowledgedSize = h.maxUnAcknowledgedSize
      /\ r.readBuffer = h.readBuffer /\ r.frameDataBuffer = h.frameDataBuffer
      /\ r.outputSegments = h.outputSegments /\ r.framesQueueOutput = h.framesQueueOutput
  BY <1>1 DEF Handlers
<1> HIDE DEF r
<1>5. Leave(e, ks, wire, processed) BY <1>2, <1>3
<1>6. Mid(ks, wire, processed)
  <2>1. r.maxUnAcknowledgedSize \in Nat BY <1>4, HandlerFields
  <2>2. r.bytesWaitingAcknowledge <= r.maxUnAcknowledgedSize BY <1>4, <2>1
  <2> QED BY <1>2, <1>4, <2>2, MidHandler
<1>7. ~forgotten' => \/ Covered(ks, wire)
                     \/ e = "client" /\ ks["client"].bytesWaitingAcknowledge
                                          >= AmountIn(ks["client"].readBuffer)
  <2> SUFFICES ASSUME ~forgotten' PROVE \/ Covered(ks, wire)
                                        \/ e = "client" /\ ks["client"].bytesWaitingAcknowledge
                                             >= AmountIn(ks["client"].readBuffer)
    OBVIOUS
  <2>1. AmountIn(h.readBuffer) \in Nat BY <1>1, HandlerFields
  <2>2. CASE e = "client"
    <3>1. ~(AmountIn(h.readBuffer) > 0) BY <1>2, <2>2
    <3>2. AmountIn(r.readBuffer) = 0 BY <1>4, <2>1, <3>1
    <3>3. ks["client"] = r BY <1>1, <2>2 DEF HandlersOfEnds
    <3> HIDE DEF ks
    <3> QED BY <1>4, <2>2, <3>2, <3>3
  <2>3. CASE e # "client"
    <3>1. e = "server" BY <2>3 DEF Ends
    <3>2. ks["client"] = handlers["client"] /\ ks["server"] = r
      BY <1>1, <3>1, Peers DEF HandlersOfEnds
    <3>3. Owed(r) = Owed(h)
      <4>1. r.outputAcknowledgesSize = h.outputAcknowledgesSize BY <1>1 DEF r, Handlers
      <4> QED BY <1>4, <4>1 DEF Owed
    <3>4. Covered(handlers, wire) BY <1>2 DEF ChannelInv, Accounts
    <3> HIDE DEF ks
    <3>5. Covered(ks, wire) BY <3>1, <3>2, <3>3, <3>4, Peers DEF Covered, Unread
    <3> QED BY <3>5
  <2> QED BY <2>2, <2>3
<1>8. forgotten' \in BOOLEAN BY <1>2, InvFacts
<1> HIDE DEF ks
<1> QED BY <1>2, <1>5, <1>6, <1>7, <1>8, LeaveInv

\* The wire before and after the place up to which it is read.
LEMMA WireCut ==
  ASSUME NEW w \in Seq(Segs), NEW k \in 0 .. Len(w)
  PROVE  LET segs == SubSeq(w, 1, k)
             rest == SubSeq(w, k + 1, Len(w))
         IN /\ segs \in Seq(Segs) /\ rest \in Seq(Segs)
            /\ SizeOf(segs) \in Nat /\ SizeOf(rest) \in Nat
            /\ AmountIn(segs) \in Nat /\ AmountIn(rest) \in Nat
            /\ Carried(segs) \in Seq(Units) /\ Carried(rest) \in Seq(Units)
            /\ SizeOf(w) = SizeOf(segs) + SizeOf(rest)
            /\ AmountIn(w) = AmountIn(segs) + AmountIn(rest)
            /\ Carried(w) = Carried(segs) \o Carried(rest)
<1> DEFINE segs == SubSeq(w, 1, k)
           rest == SubSeq(w, k + 1, Len(w))
<1>p. TwoParts(Segs, w, k, segs, rest) BY Parts
<1> HIDE DEF segs, rest
<1>1. segs \in Seq(Segs) /\ rest \in Seq(Segs) /\ w = segs \o rest BY <1>p DEF TwoParts
<1>2. /\ SizeOf(segs) \in Nat /\ SizeOf(rest) \in Nat
      /\ SizeOf(segs \o rest) = SizeOf(segs) + SizeOf(rest)
  BY <1>1, SizeOfConcat
<1>3. /\ AmountIn(segs) \in Nat /\ AmountIn(rest) \in Nat
      /\ AmountIn(segs \o rest) = AmountIn(segs) + AmountIn(rest)
  BY <1>1, AmountInConcat
<1>4. /\ Carried(segs) \in Seq(Units) /\ Carried(rest) \in Seq(Units)
      /\ Carried(segs \o rest) = Carried(segs) \o Carried(rest)
  BY <1>1, CarriedConcat
<1> QED BY <1>1, <1>2, <1>3, <1>4 DEF segs, rest

\* The stream of the peer, with what is read of it in one Quant.
LEMMA StreamRead ==
  ASSUME NEW hs \in HandlersOfEnds, NEW ws \in Wires, NEW e \in Ends,
         NEW k \in 0 .. Len(ws[Peer(e)])
  PROVE  LET p == Peer(e)
             segs == SubSeq(ws[p], 1, k)
             rest == SubSeq(ws[p], k + 1, Len(ws[p]))
         IN /\ Stream(hs, ws, p) =
                 (Received(hs[e]) \o Carried(segs)) \o (Carried(rest) \o Unsent(hs[p]))
            /\ Carried(rest) \o Unsent(hs[p]) \in Seq(Units)
<1> DEFINE p == Peer(e)
           a == Received(hs[e])
           b == Carried(SubSeq(ws[p], 1, k))
           c == Carried(SubSeq(ws[p], k + 1, Len(ws[p])))
           d == Unsent(hs[p])
<1>1. p \in Ends /\ Peer(p) = e BY Peers
<1>2. a \in Seq(Units) /\ d \in Seq(Units) /\ ws[p] \in Seq(Segs) BY <1>1, UnreadIs
<1>3. b \in Seq(Units) /\ c \in Seq(Units) /\ Carried(ws[p]) = b \o c BY <1>2, WireCut
<1>4. Stream(hs, ws, p) = a \o ((b \o c) \o d) BY <1>1, <1>3 DEF Stream
<1>t. a \in Seq(Units) /\ b \in Seq(Units) /\ c \in Seq(Units) /\ d \in Seq(Units) BY <1>2, <1>3
<1> HIDE DEF a, b, c, d
<1>5. a \o ((b \o c) \o d) = (a \o b) \o (c \o d) /\ c \o d \in Seq(Units)
  <2>a. Assoc(Units) BY Associative
  <2>1. c \o d \in Seq(Units) BY <1>t, ConcatProperties
  <2>2. (b \o c) \o d = b \o (c \o d) BY <1>t, <2>a, ZenonT(60) DEF Assoc
  <2>3. (a \o b) \o (c \o d) = a \o (b \o (c \o d)) BY <1>t, <2>1, <2>a, ZenonT(60) DEF Assoc
  <2> QED BY <2>1, <2>2, <2>3
<1>6. Stream(hs, ws, p) = (a \o b) \o (c \o d) BY <1>4, <1>5
<1> QED BY <1>5, <1>6 DEF a, b, c, d

LEMMA WireIs ==
  ASSUME ChannelInv, NEW e \in connection.open, NEW k \in Arrived(e), NEW sent \in Seq(Segs)
  PROVE  LET p == Peer(e)
             vs == Wire(e, k, sent)
         IN /\ e \in Ends /\ (~Both => e = "client") /\ p \in Ends /\ p # e /\ Peer(p) = e
            /\ k \in 0 .. Len(wire[p]) /\ vs \in Wires
            /\ vs[p] = SubSeq(wire[p], k + 1, Len(wire[p]))
            /\ Both => vs[e] = wire[e] \o sent
            /\ ~Both => vs[e] = wire[e]
<1> DEFINE p == Peer(e)
           vs == Wire(e, k, sent)
<1>1. "client" \in Ends /\ connection.open \in {{}, {"client"}, Ends} /\ wire \in Wires
  BY Peers, InvFacts
<1>2. e \in Ends /\ (~Both => e = "client") BY <1>1 DEF Both
<1>3. p \in Ends /\ p # e /\ Peer(p) = e BY <1>2, Peers
<1>4. wire[p] \in Seq(Segs) /\ wire[e] \in Seq(Segs) BY <1>1, <1>2, <1>3 DEF Wires
<1>5. k \in 0 .. Len(wire[p]) BY DEF Arrived
<1>6. /\ vs[p] = SubSeq(wire[p], k + 1, Len(wire[p]))
      /\ Both => vs[e] = wire[e] \o sent
      /\ ~Both => vs[e] = wire[e]
  BY <1>2, <1>3 DEF Wire
<1>7. vs[p] \in Seq(Segs) BY <1>4, <1>5, <1>6, WireCut
<1>8. vs[e] \in Seq(Segs)
  <2>1. wire[e] \o sent \in Seq(Segs) BY <1>4, ConcatProperties
  <2> HIDE DEF vs
  <2> QED BY <1>4, <1>6, <2>1
<1>9. vs \in Wires
  <2>1. \A d \in Ends : d = e \/ d = p BY <1>2, Peers
  <2>2. \A d \in Ends : vs[d] \in Seq(Segs)
    <3> HIDE DEF vs, p
    <3> QED BY <1>7, <1>8, <2>1
  <2>3. vs = [d \in Ends |-> vs[d]] BY DEF Wire
  <2> HIDE DEF vs
  <2> QED BY <2>2, <2>3 DEF Wires
<1> QED BY <1>2, <1>3, <1>5, <1>6, <1>9

\* What an end has read, and written, leaves of the lines.
LEMMA MidRead ==
  ASSUME ChannelInv, NEW e \in connection.open, NEW k \in Arrived(e), NEW r, NEW t, NEW sent,
         Gives(handlers[e], SubSeq(wire[Peer(e)], 1, k), r, t, sent)
  PROVE  Mid([handlers EXCEPT ![e] = r], Wire(e, k, sent), [processed EXCEPT ![Peer(e)] = @ \o t])
<1> DEFINE p == Peer(e)
           h == handlers[e]
           segs == SubSeq(wire[p], 1, k)
           rest == SubSeq(wire[p], k + 1, Len(wire[p]))
           ks == [handlers EXCEPT ![e] = r]
           vs == Wire(e, k, sent)
           ps == [processed EXCEPT ![p] = @ \o t]
<1>1. /\ t \in Seq(Taken) /\ r \in Handlers /\ sent \in Seq(Segs)
      /\ r.bytesWaitingAcknowledge <= r.maxUnAcknowledgedSize
      /\ \E lost \in Seq(Units) : Unsent(h) = Carried(sent) \o (lost \o Unsent(r))
      /\ ReadOrder(h, segs, r, t) /\ StaysWhole(h, segs, r, t)
  BY DEF Gives
<1>2. /\ e \in Ends /\ (~Both => e = "client") /\ p \in Ends /\ p # e /\ Peer(p) = e
      /\ k \in 0 .. Len(wire[p]) /\ vs \in Wires
      /\ vs[p] = rest
      /\ Both => vs[e] = wire[e] \o sent
      /\ ~Both => vs[e] = wire[e]
  BY <1>1, WireIs
<1>3. /\ handlers \in HandlersOfEnds /\ wire \in Wires /\ processed \in [Ends -> Seq(Taken)]
      /\ \A d \in Ends : /\ queued[d] \in Seq(Frames) /\ processed[d] \in Seq(Taken)
                         /\ Start(left, d) \in Seq(Units) /\ Finals(processed[d]) \in Seq(Units)
  BY <1>2, InvFacts
<1> HIDE DEF vs
<1>4. /\ ks \in HandlersOfEnds /\ ks[e] = r /\ ks[p] = handlers[p]
      /\ ps \in [Ends -> Seq(Taken)] /\ ps[p] = processed[p] \o t /\ ps[e] = processed[e]
  <2>1. processed[p] \o t \in Seq(Taken) BY <1>1, <1>2, <1>3, ConcatProperties
  <2> QED BY <1>1, <1>2, <1>3, <2>1 DEF HandlersOfEnds
<1>5. /\ Stream(handlers, wire, p) =
           (Received(h) \o Carried(segs)) \o (Carried(rest) \o Unsent(handlers[p]))
      /\ Carried(rest) \o Unsent(handlers[p]) \in Seq(Units)
  BY <1>2, <1>3, StreamRead
<1>6. /\ Carried(rest) \in Seq(Units) /\ Carried(segs) \in Seq(Units)
      /\ Carried(wire[p]) = Carried(segs) \o Carried(rest)
      /\ Unsent(handlers[p]) \in Seq(Units) /\ Received(handlers[p]) \in Seq(Units)
      /\ Received(h) \in Seq(Units) /\ Carried(wire[e]) \in Seq(Units)
      /\ Carried(sent) \in Seq(Units)
      /\ Carried(wire[e] \o sent) = Carried(wire[e]) \o Carried(sent)
  <2>1. wire[p] \in Seq(Segs) /\ wire[e] \in Seq(Segs) BY <1>2, <1>3 DEF Wires
  <2>2. /\ Carried(rest) \in Seq(Units) /\ Carried(segs) \in Seq(Units)
        /\ Carried(wire[p]) = Carried(segs) \o Carried(rest)
    BY <1>2, <2>1, WireCut
  <2>3. /\ Unsent(handlers[p]) \in Seq(Units) /\ Received(handlers[p]) \in Seq(Units)
        /\ Received(h) \in Seq(Units) /\ Carried(wire[e]) \in Seq(Units)
    BY <1>2, <1>3, UnreadIs
  <2>4. Carried(sent) \in Seq(Units)
        /\ Carried(wire[e] \o sent) = Carried(wire[e]) \o Carried(sent)
    BY <1>1, <2>1, CarriedConcat
  <2> QED BY <2>2, <2>3, <2>4
<1>7. Received(r) \in Seq(Units) /\ Unsent(r) \in Seq(Units)
  BY <1>1, HandlerFields, OwedType
<1>8. PICK lost \in Seq(Units) : Unsent(h) = Carried(sent) \o (lost \o Unsent(r)) BY <1>1
<1> HIDE DEF h, segs, rest, ks, ps
<1>9. Ordered(queued[p], Line(left, ps, ks, vs, p))
  <2> DEFINE q == queued[p]
             s == Start(left, p)
             f == Finals(processed[p])
             g == Finals(t)
             x == Received(r) \o (Carried(rest) \o Unsent(handlers[p]))
             b == s \o f
  <2>1. s \in Seq(Units) /\ f \in Seq(Units) BY <1>2, <1>3
  <2>2. g \in Seq(Units) BY <1>1, FinalsConcat
  <2>3. x \in Seq(Units) BY <1>5, <1>7, ConcatProperties
  <2>4. Finals(ps[p]) = f \o g BY <1>1, <1>2, <1>3, <1>4, FinalsConcat
  <2>5. Line(left, ps, ks, vs, p) = s \o ((f \o g) \o x)
    BY <1>2, <1>4, <2>4 DEF Line, Stream
  <2>6. Ordered(q, s \o (f \o Stream(handlers, wire, p))) BY <1>2, InvFacts DEF Line
  <2>a. Assoc(Units) BY Associative
  <2>7. Stream(handlers, wire, p) \in Seq(Units) BY <1>2, <1>3, UnreadIs
  <2> DEFINE y == Stream(handlers, wire, p)
  <2> HIDE DEF q, s, f, y
  <2>8. b \o y = s \o (f \o y) /\ b \in Seq(Units)
    <3>1. y \in Seq(Units) BY <2>7 DEF y
    <3>2. b \in Seq(Units) BY <2>1, ConcatProperties
    <3>3. (s \o f) \o y = s \o (f \o y) BY <2>1, <2>a, <3>1, ZenonT(60) DEF Assoc
    <3> HIDE DEF b
    <3> QED BY <3>2, <3>3 DEF b
  <2>9. Ordered(q, b \o y) BY <2>6, <2>8 DEF y
  <2> HIDE DEF b
  <2>10. Ordered(q, b \o (g \o x))
    <3> DEFINE z == Carried(rest) \o Unsent(handlers[p])
    <3>1. Ordered(q, b \o ((Received(h) \o Carried(segs)) \o z)) BY <1>5, <2>9 DEF y
    <3>2. z \in Seq(Units) BY <1>5
    <3> HIDE DEF z
    <3>3. Ordered(q, b \o (Finals(t) \o (Received(r) \o z))) BY <1>1, <2>8, <3>1, <3>2 DEF ReadOrder
    <3> QED BY <3>3 DEF z
  <2> HIDE DEF g, x
  <2>11. b \o (g \o x) = s \o ((f \o g) \o x)
    <3>1. \A u, v \in Seq(Units) : Cat(Cat(s, f), Cat(u, v)) = Cat(s, Cat(Cat(f, u), v))
      BY <2>1, CatFacts
    <3>2. Cat(Cat(s, f), Cat(g, x)) = Cat(s, Cat(Cat(f, g), x)) BY <2>2, <2>3, <3>1
    <3> QED BY <3>2, Zenon DEF b, Cat
  <2> QED BY <2>5, <2>10, <2>11 DEF q
<1>10. Ordered(queued[e], Line(left, ps, ks, vs, e))
  <2> DEFINE q == queued[e]
             s == Start(left, e)
             f == Finals(processed[e])
             a == Received(handlers[p])
             c == Carried(wire[e])
             x == Carried(sent)
             u == Unsent(r)
  <2>1. Ordered(q, s \o (f \o (a \o (c \o (x \o (lost \o u))))))
    <3>1. Stream(handlers, wire, e) = a \o (c \o (x \o (lost \o u)))
      BY <1>8 DEF Stream, h
    <3>2. Ordered(q, s \o (f \o Stream(handlers, wire, e))) BY <1>2, InvFacts DEF Line
    <3> HIDE DEF q, s, f
    <3> QED BY <3>1, <3>2
  <2>2. /\ s \in Seq(Units) /\ f \in Seq(Units) /\ a \in Seq(Units) /\ c \in Seq(Units)
        /\ x \in Seq(Units) /\ u \in Seq(Units)
    BY <1>2, <1>3, <1>6, <1>7
  <2>3. CASE Both
    <3>1. Line(left, ps, ks, vs, e) = s \o (f \o (a \o ((c \o x) \o u)))
      BY <1>2, <1>4, <1>6, <2>3 DEF Line, Stream
    <3> HIDE DEF q, s, f, a, c, x, u
    <3>2. Ordered(q, s \o (f \o (a \o ((c \o x) \o u)))) BY <2>1, <2>2, OrderedSent
    <3> QED BY <3>1, <3>2 DEF q
  <2>4. CASE ~Both
    <3>1. Line(left, ps, ks, vs, e) = s \o (f \o (a \o (c \o u)))
      BY <1>2, <1>4, <2>4 DEF Line, Stream
    <3> HIDE DEF q, s, f, a, c, x, u
    <3>2. Ordered(q, s \o (f \o (a \o (c \o u)))) BY <2>1, <2>2, OrderedSent
    <3> QED BY <3>1, <3>2 DEF q
  <2> QED BY <2>3, <2>4
<1>11. ASSUME connection.number = 1, Both \/ p = "server"
       PROVE  FirstPart(ks, vs, ps, p)
  <2> DEFINE q == queued[p]
             d == processed[p]
             a == Received(h)
             c == Carried(segs)
             b == Carried(rest)
             n == Received(r)
  <2>1. Part(q, d, a \o (c \o b))
    <3>1. FirstPart(handlers, wire, processed, p) BY <1>2, <1>11, FirstNow
    <3> QED BY <1>2, <1>6, <3>1 DEF FirstPart, h
  <2>2. q \in Seq(Frames) BY <1>2, <1>3
  <2>3. a \in Seq(Units) /\ b \in Seq(Units) /\ c \in Seq(Units) /\ n \in Seq(Units)
    BY <1>6, <1>7
  <2>4. \A z : z \in Seq(Units) /\ Whole(q, d, (a \o c) \o z) => Whole(q, d \o t, n \o z)
    BY <1>1, <2>2 DEF StaysWhole
  <2> HIDE DEF q, d, a, b, c, n
  <2>5. PICK z \in Seq(Units) : Whole(q, d, (a \o (c \o b)) \o z) BY <2>1 DEF Part
  <2> DEFINE y == b \o z
  <2>6. y \in Seq(Units) BY <2>3, ConcatProperties
  <2>7. (a \o (c \o b)) \o z = (a \o c) \o y
    <3>1. Cat(Cat(a, Cat(c, b)), z) = Cat(Cat(a, c), Cat(b, z)) BY <2>3, CatFacts
    <3> QED BY <3>1, Zenon DEF Cat
  <2>8. n \o y = (n \o b) \o z
    <3>1. Cat(n, Cat(b, z)) = Cat(Cat(n, b), z) BY <2>3, CatFacts
    <3> QED BY <3>1, Zenon DEF Cat
  <2> HIDE DEF y
  <2>9. Whole(q, d \o t, n \o y) BY <2>4, <2>5, <2>6, <2>7
  <2>10. Part(q, d \o t, n \o b) BY <2>8, <2>9 DEF Part
  <2>11. Received(ks[Peer(p)]) \o Carried(vs[p]) = n \o b BY <1>2, <1>4 DEF n, b
  <2> QED BY <1>4, <2>10, <2>11 DEF FirstPart, q, d
<1>12. ASSUME connection.number = 1, Both
       PROVE  FirstPart(ks, vs, ps, e)
  <2> DEFINE q == queued[e]
             d == processed[e]
             a == Received(handlers[p])
             c == Carried(wire[e])
             x == Carried(sent)
             u == Unsent(r)
  <2>1. Whole(q, d, a \o (c \o (x \o (lost \o u))))
    <3>1. Whole(q, d, Stream(handlers, wire, e)) BY <1>2, <1>12, InvFacts
    <3>2. Stream(handlers, wire, e) = a \o (c \o (x \o (lost \o u)))
      BY <1>8 DEF Stream, h
    <3> QED BY <3>1, <3>2
  <2>2. /\ a \in Seq(Units) /\ c \in Seq(Units) /\ x \in Seq(Units) /\ u \in Seq(Units)
    BY <1>2, <1>6, <1>7
  <2> HIDE DEF q, d, a, c, x, u
  <2> DEFINE y == lost \o u
  <2>3. y \in Seq(Units) BY <2>2, ConcatProperties
  <2>4. Whole(q, d, a \o (c \o (x \o y))) BY <2>1
  <2> HIDE DEF y
  <2>5. a \o (c \o (x \o y)) = (a \o (c \o x)) \o y
    <3>1. Cat(a, Cat(c, Cat(x, y))) = Cat(Cat(a, Cat(c, x)), y) BY <2>2, <2>3, CatFacts
    <3> QED BY <3>1, Zenon DEF Cat
  <2>6. Part(q, d, a \o (c \o x)) BY <2>3, <2>4, <2>5 DEF Part
  <2>7. Received(ks[Peer(e)]) \o Carried(vs[e]) = a \o (c \o x)
    BY <1>2, <1>4, <1>6, <1>12 DEF a, c, x
  <2> QED BY <1>4, <2>6, <2>7 DEF FirstPart, q, d
<1>13. \A d \in Ends : d = e \/ d = p BY <1>2, Peers DEF p
<1>14. ASSUME connection.number = 1, NEW d \in Ends, Both \/ d = "server"
       PROVE  FirstPart(ks, vs, ps, d)
  BY <1>2, <1>11, <1>12, <1>13, <1>14
<1>15. \A d \in Ends : ks[d].bytesWaitingAcknowledge <= ks[d].maxUnAcknowledgedSize
  <2>1. handlers[p].bytesWaitingAcknowledge <= handlers[p].maxUnAcknowledgedSize
    BY <1>2, InvFacts
  <2> QED BY <1>1, <1>4, <1>13, <2>1
<1>16. ~Both => ServerGone(ks, vs, ps)
  <2> SUFFICES ASSUME ~Both PROVE ServerGone(ks, vs, ps) OBVIOUS
  <2>1. e = "client" /\ p = "server" BY <1>2, Peers
  <2>2. ServerGone(handlers, wire, processed) BY DEF ChannelInv, Fresh
  <2> QED BY <1>2, <1>4, <2>1, <2>2 DEF ServerGone
<1> HIDE DEF p
<1>17. Mid(ks, vs, ps)
  BY <1>2, <1>4, <1>9, <1>10, <1>13, <1>14, <1>15, <1>16 DEF Mid
<1> QED BY <1>17 DEF ks, vs, ps, p

\* What a Quant does to the accounts.
LEMMA CoversRead ==
  ASSUME ChannelInv, NEW e \in connection.open, NEW k \in Arrived(e), NEW r, NEW t, NEW sent,
         Gives(handlers[e], SubSeq(wire[Peer(e)], 1, k), r, t, sent),
         Covered(handlers, wire)
  PROVE  Covered([handlers EXCEPT ![e] = r], Wire(e, k, sent))
<1> DEFINE p == Peer(e)
           h == handlers[e]
           segs == SubSeq(wire[p], 1, k)
           rest == SubSeq(wire[p], k + 1, Len(wire[p]))
           ks == [handlers EXCEPT ![e] = r]
           vs == Wire(e, k, sent)
<1>1. /\ r \in Handlers /\ sent \in Seq(Segs)
      /\ Owed(r) + AmountIn(sent) <= Owed(h) + SizeOf(segs)
      /\ r.bytesWaitingAcknowledge + ToCount(h, segs)
           >= h.bytesWaitingAcknowledge + AmountIn(r.readBuffer) + SizeOf(sent)
  BY DEF Gives
<1>2. /\ e \in Ends /\ (~Both => e = "client") /\ p \in Ends /\ p # e /\ Peer(p) = e
      /\ k \in 0 .. Len(wire[p]) /\ vs \in Wires
      /\ vs[p] = rest
      /\ Both => vs[e] = wire[e] \o sent
      /\ ~Both => vs[e] = wire[e]
  BY <1>1, WireIs
<1>3. handlers \in HandlersOfEnds /\ wire \in Wires BY <1>2, InvFacts
<1> HIDE DEF vs
<1>4. ks \in HandlersOfEnds /\ ks[e] = r /\ ks[p] = handlers[p]
  BY <1>1, <1>2, <1>3 DEF HandlersOfEnds
<1>5. wire[p] \in Seq(Segs) /\ wire[e] \in Seq(Segs) BY <1>2, <1>3 DEF Wires
<1>6. /\ SizeOf(segs) \in Nat /\ SizeOf(rest) \in Nat
      /\ AmountIn(segs) \in Nat /\ AmountIn(rest) \in Nat
      /\ SizeOf(wire[p]) = SizeOf(segs) + SizeOf(rest)
      /\ AmountIn(wire[p]) = AmountIn(segs) + AmountIn(rest)
  BY <1>2, <1>5, WireCut
<1>7. /\ SizeOf(sent) \in Nat /\ AmountIn(sent) \in Nat
      /\ SizeOf(wire[e]) \in Nat /\ AmountIn(wire[e]) \in Nat
      /\ SizeOf(vs[e]) <= SizeOf(wire[e]) + SizeOf(sent)
      /\ AmountIn(vs[e]) <= AmountIn(wire[e]) + AmountIn(sent)
      /\ SizeOf(vs[e]) \in Nat /\ AmountIn(vs[e]) \in Nat
  <2>1. SizeOf(sent) \in Nat /\ SizeOf(wire[e]) \in Nat
        /\ SizeOf(wire[e] \o sent) = SizeOf(wire[e]) + SizeOf(sent)
    BY <1>1, <1>5, SizeOfConcat
  <2>2. AmountIn(sent) \in Nat /\ AmountIn(wire[e]) \in Nat
        /\ AmountIn(wire[e] \o sent) = AmountIn(wire[e]) + AmountIn(sent)
    BY <1>1, <1>5, AmountInConcat
  <2>3. SizeOf(vs[e]) \in Nat /\ AmountIn(vs[e]) \in Nat BY <1>2, <1>4, UnreadIs
  <2>4. SizeOf(vs[e]) <= SizeOf(wire[e]) + SizeOf(sent)
        /\ AmountIn(vs[e]) <= AmountIn(wire[e]) + AmountIn(sent)
    <3>1. CASE Both
      <4>1. vs[e] = wire[e] \o sent BY <1>2, <3>1
      <4> QED BY <2>1, <2>2, <2>3, <4>1
    <3>2. CASE ~Both
      <4>1. vs[e] = wire[e] BY <1>2, <3>2
      <4> QED BY <2>1, <2>2, <4>1
    <3> QED BY <3>1, <3>2
  <2> QED BY <2>1, <2>2, <2>3, <2>4
<1>8. /\ Owed(h) \in Nat /\ Owed(r) \in Nat /\ Owed(handlers[p]) \in Nat
      /\ AmountIn(h.readBuffer) \in Nat /\ AmountIn(r.readBuffer) \in Nat
      /\ AmountIn(handlers[p].readBuffer) \in Nat
      /\ h.bytesWaitingAcknowledge \in Nat /\ r.bytesWaitingAcknowledge \in Nat
      /\ handlers[p].bytesWaitingAcknowledge \in Nat
  BY <1>2, <1>3, <1>4, UnreadIs
<1> HIDE DEF ks, segs, rest
<1>9. CASE e = "client"
  <2> DEFINE x == SizeOf(wire[e])
             x1 == SizeOf(vs[e])
             y == SizeOf(sent)
             z == Owed(handlers[p])
             c1 == AmountIn(segs)
             c2 == AmountIn(rest)
             f == AmountIn(h.readBuffer)
             b == AmountIn(r.readBuffer)
             W == h.bytesWaitingAcknowledge
             V == r.bytesWaitingAcknowledge
  <2>1. W >= x + z + (c1 + c2) + f BY <1>6, <1>9 DEF Covered, Unread
  <2>2. V + (f + c1) >= W + b + y BY <1>1 DEF ToCount
  <2>3. Unread(ks, vs, "client") = x1 + z + c2 + b BY <1>2, <1>4, <1>9 DEF Unread
  <2>4. ks["client"] = r BY <1>4, <1>9
  <2>5. V >= x1 + z + c2 + b
    <3> HIDE DEF x, x1, y, z, c1, c2, f, b, W, V
    <3>1. x1 <= x + y BY <1>7 DEF x, x1, y
    <3>2. x \in Nat /\ x1 \in Nat /\ y \in Nat /\ z \in Nat /\ c1 \in Nat /\ c2 \in Nat
          /\ f \in Nat /\ b \in Nat /\ W \in Nat /\ V \in Nat
      BY <1>6, <1>7, <1>8 DEF x, x1, y, z, c1, c2, f, b, W, V
    <3> QED BY <2>1, <2>2, <3>1, <3>2
  <2>6. Covered(ks, vs) BY <2>3, <2>4, <2>5 DEF Covered
  <2> QED BY <2>6 DEF ks, vs
<1>10. CASE e # "client"
  <2>1. p = "client" /\ e = "server" BY <1>2, <1>10 DEF Ends
  <2> DEFINE a1 == SizeOf(segs)
             a2 == SizeOf(rest)
             b1 == Owed(r)
             b2 == Owed(h)
             c1 == AmountIn(sent)
             c2 == AmountIn(wire[e])
             c3 == AmountIn(vs[e])
             d == AmountIn(handlers[p].readBuffer)
             W == handlers[p].bytesWaitingAcknowledge
  <2>2. W >= (a1 + a2) + b2 + c2 + d BY <1>2, <1>6, <2>1 DEF Covered, Unread
  <2>3. Unread(ks, vs, "client") = a2 + b1 + c3 + d BY <1>2, <1>4, <2>1 DEF Unread
  <2>4. ks["client"].bytesWaitingAcknowledge = W BY <1>4, <2>1
  <2>5. W >= a2 + b1 + c3 + d
    <3> HIDE DEF a1, a2, b1, b2, c1, c2, c3, d, W
    <3>1. c3 <= c2 + c1 BY <1>7 DEF c1, c2, c3
    <3>2. /\ a1 \in Nat /\ a2 \in Nat /\ b1 \in Nat /\ b2 \in Nat /\ c1 \in Nat /\ c2 \in Nat
          /\ c3 \in Nat /\ d \in Nat /\ W \in Nat
      BY <1>6, <1>7, <1>8 DEF a1, a2, b1, b2, c1, c2, c3, d, W
    <3>3. b1 + c1 <= b2 + a1 BY <1>1 DEF a1, b1, b2, c1
    <3> QED BY <2>2, <3>1, <3>2, <3>3
  <2>6. Covered(ks, vs) BY <2>3, <2>4, <2>5 DEF Covered
  <2> QED BY <2>6 DEF ks, vs
<1> QED BY <1>9, <1>10

LEMMA WriteFailsInv ==
  ASSUME ChannelInv, NEW e \in Ends, NEW k \in Arrived(e), NEW g \in Garbage,
         WriteFails(e, k, g)
  PROVE  ChannelInv'
<1> DEFINE h == handlers[e]
           segs == SubSeq(wire[Peer(e)], 1, k)
           read == ReadFrames(h, segs, g)
           t == read.taken
           o == Outgoing(read.handler, FALSE)
<1>1. /\ e \in connection.open /\ queued' = queued /\ forgotten' = forgotten
  BY DEF WriteFails
<1>2. PICK n \in 0 .. ToWrite(o) - 1 :
        Leave(e, [handlers EXCEPT ![e] = [Written(o, n) EXCEPT !.outputSegments = Tail(@)]],
              Wire(e, k, SubSeq(o.outputSegments, 1, n)),
              [processed EXCEPT ![Peer(e)] = @ \o t])
  BY DEF WriteFails
<1> DEFINE r == [Written(o, n) EXCEPT !.outputSegments = Tail(@)]
           sent == SubSeq(o.outputSegments, 1, n)
           ks == [handlers EXCEPT ![e] = r]
           vs == Wire(e, k, sent)
           ps == [processed EXCEPT ![Peer(e)] = @ \o t]
<1>3. h \in Handlers /\ h.bytesWaitingAcknowledge <= h.maxUnAcknowledgedSize /\ wire \in Wires
  BY InvFacts
<1>4. segs \in Seq(Segs)
  <2>1. wire[Peer(e)] \in Seq(Segs) BY <1>3, Peers DEF Wires
  <2>2. k \in 0 .. Len(wire[Peer(e)]) BY DEF Arrived
  <2> QED BY <2>1, <2>2, WireCut
<1>5. Gives(h, segs, r, t, sent) BY <1>2, <1>3, <1>4, QuantFails
<1>6. Leave(e, ks, vs, ps) BY <1>2
<1> HIDE DEF r, o, t, read, sent
<1>7. Mid(ks, vs, ps) BY <1>1, <1>5, MidRead
<1>8. ~forgotten' => Covered(ks, vs)
  <2>1. ~forgotten => Covered(handlers, wire) BY DEF ChannelInv, Accounts
  <2> QED BY <1>1, <1>5, <2>1, CoversRead
<1>9. forgotten' \in BOOLEAN BY <1>1, InvFacts
<1> HIDE DEF ks, vs, ps, h, segs
<1> QED BY <1>1, <1>6, <1>7, <1>8, <1>9, LeaveInv

\* On the first connection nothing is lost, and the counts are exact.
LEMMA QuantFirst ==
  ASSUME ChannelInv, Both, connection.number = 1,
         NEW e \in connection.open, NEW k \in Arrived(e), NEW r, NEW t, NEW sent,
         Gives(handlers[e], SubSeq(wire[Peer(e)], 1, k), r, t, sent),
         GivesAll(handlers[e], SubSeq(wire[Peer(e)], 1, k), r, t, sent),
         NEW d \in Ends
  PROVE  LET ks == [handlers EXCEPT ![e] = r]
             vs == Wire(e, k, sent)
             ps == [processed EXCEPT ![Peer(e)] = @ \o t]
         IN /\ ks[d].bytesWaitingAcknowledge = Unread(ks, vs, d)
            /\ Whole(queued[d], ps[d], Stream(ks, vs, d))
<1> DEFINE p == Peer(e)
           h == handlers[e]
           segs == SubSeq(wire[p], 1, k)
           rest == SubSeq(wire[p], k + 1, Len(wire[p]))
           ks == [handlers EXCEPT ![e] = r]
           vs == Wire(e, k, sent)
           ps == [processed EXCEPT ![p] = @ \o t]
           w == wire[e] \o sent
<1>1. /\ t \in Seq(Taken) /\ r \in Handlers /\ sent \in Seq(Segs) /\ StaysWhole(h, segs, r, t)
  BY DEF Gives
<1>2. /\ Owed(r) + AmountIn(sent) = Owed(h) + SizeOf(segs)
      /\ Carried(sent) \o Unsent(r) = Unsent(h)
      /\ \A q, done, more :
           q \in Seq(Frames) /\ more \in Seq(Units)
             /\ Whole(q, done, (Received(h) \o Carried(segs)) \o more)
             /\ h.bytesWaitingAcknowledge >= ToCount(h, segs) =>
             r.bytesWaitingAcknowledge + ToCount(h, segs)
               = h.bytesWaitingAcknowledge + AmountIn(r.readBuffer) + SizeOf(sent)
  BY DEF GivesAll
<1>3. /\ e \in Ends /\ p \in Ends /\ p # e /\ Peer(p) = e
      /\ k \in 0 .. Len(wire[p]) /\ vs \in Wires /\ vs[p] = rest /\ vs[e] = w
  BY <1>1, WireIs
<1>4. /\ handlers \in HandlersOfEnds /\ wire \in Wires /\ processed \in [Ends -> Seq(Taken)]
      /\ queued[p] \in Seq(Frames)
      /\ Whole(queued[e], processed[e], Stream(handlers, wire, e))
      /\ Whole(queued[p], processed[p], Stream(handlers, wire, p))
      /\ wire[p] \in Seq(Segs) /\ wire[e] \in Seq(Segs)
  BY <1>3, InvFacts
<1>5. \A c \in Ends : handlers[c].bytesWaitingAcknowledge = Unread(handlers, wire, c)
  BY DEF ChannelInv, Accounts
<1>6. /\ Stream(handlers, wire, p) =
           (Received(h) \o Carried(segs)) \o (Carried(rest) \o Unsent(handlers[p]))
      /\ Carried(rest) \o Unsent(handlers[p]) \in Seq(Units)
  BY <1>3, <1>4, StreamRead
<1>7. /\ SizeOf(segs) \in Nat /\ SizeOf(rest) \in Nat
      /\ AmountIn(segs) \in Nat /\ AmountIn(rest) \in Nat
      /\ SizeOf(wire[p]) = SizeOf(segs) + SizeOf(rest)
      /\ AmountIn(wire[p]) = AmountIn(segs) + AmountIn(rest)
  BY <1>3, <1>4, WireCut
<1>8. /\ SizeOf(w) = SizeOf(wire[e]) + SizeOf(sent)
      /\ AmountIn(w) = AmountIn(wire[e]) + AmountIn(sent)
      /\ Carried(w) = Carried(wire[e]) \o Carried(sent)
      /\ SizeOf(sent) \in Nat /\ AmountIn(sent) \in Nat /\ Carried(sent) \in Seq(Units)
      /\ SizeOf(wire[e]) \in Nat /\ AmountIn(wire[e]) \in Nat /\ Carried(wire[e]) \in Seq(Units)
  <2>1. SizeOf(w) = SizeOf(wire[e]) + SizeOf(sent) /\ SizeOf(sent) \in Nat /\ SizeOf(wire[e]) \in Nat
    BY <1>1, <1>4, SizeOfConcat
  <2>2. /\ AmountIn(w) = AmountIn(wire[e]) + AmountIn(sent)
        /\ AmountIn(sent) \in Nat /\ AmountIn(wire[e]) \in Nat
    BY <1>1, <1>4, AmountInConcat
  <2>3. /\ Carried(w) = Carried(wire[e]) \o Carried(sent) /\ Carried(sent) \in Seq(Units)
        /\ Carried(wire[e]) \in Seq(Units)
    BY <1>1, <1>4, CarriedConcat
  <2> QED BY <2>1, <2>2, <2>3
<1> HIDE DEF vs, w, segs, rest
<1>9. /\ ks \in HandlersOfEnds /\ ks[e] = r /\ ks[p] = handlers[p]
      /\ ps[p] = processed[p] \o t /\ ps[e] = processed[e]
  BY <1>1, <1>3, <1>4 DEF HandlersOfEnds
<1>10. /\ Owed(h) \in Nat /\ Owed(r) \in Nat /\ Owed(handlers[p]) \in Nat
       /\ AmountIn(h.readBuffer) \in Nat /\ AmountIn(r.readBuffer) \in Nat
       /\ AmountIn(handlers[p].readBuffer) \in Nat
       /\ h.bytesWaitingAcknowledge \in Nat /\ r.bytesWaitingAcknowledge \in Nat
       /\ Unsent(r) \in Seq(Units)
  BY <1>3, <1>4, <1>9, UnreadIs
<1> HIDE DEF ks, ps
\* What the peer has sent: read by the handler or still on the wire.
<1>11. Unread(ks, vs, p) = Unread(handlers, wire, p)
  <2> DEFINE a1 == SizeOf(segs)
             a2 == SizeOf(rest)
             b1 == Owed(r)
             b2 == Owed(h)
             c1 == AmountIn(sent)
             c2 == AmountIn(wire[e])
             x == AmountIn(handlers[p].readBuffer)
  <2>1. Unread(ks, vs, p) = a2 + b1 + (c2 + c1) + x
    BY <1>3, <1>8, <1>9 DEF Unread
  <2>2. Unread(handlers, wire, p) = (a1 + a2) + b2 + c2 + x BY <1>3, <1>7 DEF Unread
  <2>3. /\ a1 \in Nat /\ a2 \in Nat /\ b1 \in Nat /\ b2 \in Nat /\ c1 \in Nat /\ c2 \in Nat
        /\ x \in Nat /\ b1 + c1 = b2 + a1
    BY <1>2, <1>7, <1>8, <1>10
  <2> HIDE DEF a1, a2, b1, b2, c1, c2, x
  <2> QED BY <2>1, <2>2, <2>3
\* What the handler has sent, before and after.
<1>12. r.bytesWaitingAcknowledge = Unread(ks, vs, e)
  <2> DEFINE x == SizeOf(wire[e])
             y == SizeOf(sent)
             z == Owed(handlers[p])
             c1 == AmountIn(segs)
             c2 == AmountIn(rest)
             f == AmountIn(h.readBuffer)
             b == AmountIn(r.readBuffer)
             W == h.bytesWaitingAcknowledge
             V == r.bytesWaitingAcknowledge
  <2>1. /\ Unread(handlers, wire, e) = x + z + (c1 + c2) + f
        /\ Unread(ks, vs, e) = (x + y) + z + c2 + b
        /\ ToCount(h, segs) = f + c1
    BY <1>3, <1>7, <1>8, <1>9 DEF Unread, ToCount
  <2>2. /\ x \in Nat /\ y \in Nat /\ z \in Nat /\ c1 \in Nat /\ c2 \in Nat /\ f \in Nat
        /\ b \in Nat /\ W \in Nat /\ V \in Nat
    BY <1>7, <1>8, <1>10
  <2>3. W = x + z + (c1 + c2) + f BY <1>3, <1>5, <2>1
  <2>4. W >= f + c1
    <3> HIDE DEF x, y, z, c1, c2, f, b, W, V
    <3> QED BY <2>2, <2>3
  <2>5. V + (f + c1) = W + b + y
    <3>1. W >= ToCount(h, segs) BY <2>1, <2>4
    <3> HIDE DEF h
    <3>2. r.bytesWaitingAcknowledge + ToCount(h, segs)
            = h.bytesWaitingAcknowledge + AmountIn(r.readBuffer) + SizeOf(sent)
      BY <1>2, <1>4, <1>6, <3>1
    <3> QED BY <2>1, <3>2
  <2>6. V = (x + y) + z + c2 + b
    <3> HIDE DEF x, y, z, c1, c2, f, b, W, V
    <3>1. V + (f + c1) = (x + z + (c1 + c2) + f) + b + y BY <2>3, <2>5
    <3> QED BY <2>2, <3>1
  <2> QED BY <2>1, <2>6
\* The streams.
<1>13. Stream(ks, vs, e) = Stream(handlers, wire, e)
  <2> DEFINE u == Received(handlers[p])
             v1 == Carried(wire[e])
             v2 == Carried(sent)
             v3 == Unsent(r)
  <2>1. Stream(ks, vs, e) = u \o ((v1 \o v2) \o v3) BY <1>3, <1>8, <1>9 DEF Stream
  <2>2. Stream(handlers, wire, e) = u \o (v1 \o (v2 \o v3)) BY <1>2 DEF Stream
  <2>3. v1 \in Seq(Units) /\ v2 \in Seq(Units) /\ v3 \in Seq(Units) BY <1>8, <1>10
  <2>a. Assoc(Units) BY Associative
  <2> HIDE DEF u, v1, v2, v3
  <2>4. (v1 \o v2) \o v3 = v1 \o (v2 \o v3) BY <2>3, <2>a DEF Assoc
  <2> QED BY <2>1, <2>2, <2>4
<1>14. Whole(queued[p], ps[p], Stream(ks, vs, p))
  <2> DEFINE y == Carried(rest) \o Unsent(handlers[p])
             q == queued[p]
             done == processed[p]
  <2>1. Stream(ks, vs, p) = Received(r) \o y BY <1>3, <1>9 DEF Stream
  <2>2. Whole(q, done, (Received(h) \o Carried(segs)) \o y) /\ y \in Seq(Units) /\ q \in Seq(Frames)
    BY <1>4, <1>6
  <2> HIDE DEF y, q, done, h
  <2>3. Whole(q, done \o t, Received(r) \o y) BY <1>1, <2>2 DEF StaysWhole
  <2> QED BY <1>9, <2>1, <2>3 DEF q, done
<1>15. Whole(queued[e], ps[e], Stream(ks, vs, e)) BY <1>4, <1>9, <1>13
<1>16. /\ ks[e].bytesWaitingAcknowledge = Unread(ks, vs, e)
       /\ ks[p].bytesWaitingAcknowledge = Unread(ks, vs, p)
  BY <1>3, <1>5, <1>9, <1>11, <1>12
<1>17. d = e \/ d = p BY <1>3, Peers DEF p
<1>18. /\ ks[d].bytesWaitingAcknowledge = Unread(ks, vs, d)
       /\ Whole(queued[d], ps[d], Stream(ks, vs, d))
  <2> HIDE DEF p
  <2> QED BY <1>14, <1>15, <1>16, <1>17
<1> QED BY <1>18 DEF ks, vs, ps, p

LEMMA QuantInv ==
  ASSUME ChannelInv, NEW e \in Ends, NEW k \in Arrived(e), NEW g \in Garbage,
         NEW test \in BOOLEAN, Quant(e, k, g, test)
  PROVE  ChannelInv'
<1> DEFINE h == handlers[e]
           segs == SubSeq(wire[Peer(e)], 1, k)
           read == ReadFrames(h, segs, g)
           t == read.taken
           o == Outgoing(read.handler, test)
           n == ToWrite(o)
           r == Written(o, n)
           sent == SubSeq(o.outputSegments, 1, n)
           ks == [handlers EXCEPT ![e] = r]
           vs == Wire(e, k, sent)
           ps == [processed EXCEPT ![Peer(e)] = @ \o t]
<1>1. /\ e \in connection.open /\ connection' = connection /\ queued' = queued /\ left' = left
      /\ forgotten' = forgotten /\ handlers' = ks /\ wire' = vs /\ processed' = ps
  BY DEF Quant
<1>2. h \in Handlers /\ h.bytesWaitingAcknowledge <= h.maxUnAcknowledgedSize /\ wire \in Wires
  BY InvFacts
<1>3. segs \in Seq(Segs)
  <2>1. wire[Peer(e)] \in Seq(Segs) BY <1>2, Peers DEF Wires
  <2>2. k \in 0 .. Len(wire[Peer(e)]) BY DEF Arrived
  <2> QED BY <2>1, <2>2, WireCut
<1>4. Gives(h, segs, r, t, sent) /\ GivesAll(h, segs, r, t, sent)
  <2> HIDE DEF h, segs
  <2> QED BY <1>2, <1>3, QuantEffect
<1> HIDE DEF r, o, n, t, read, sent
<1>5. Mid(ks, vs, ps) BY <1>1, <1>4, MidRead
<1>6. ~forgotten => Covered(ks, vs)
  <2>1. ~forgotten => Covered(handlers, wire) BY DEF ChannelInv, Accounts
  <2> QED BY <1>1, <1>4, <2>1, CoversRead
<1>7. ASSUME Both, connection.number = 1, NEW d \in Ends
      PROVE  /\ ks[d].bytesWaitingAcknowledge = Unread(ks, vs, d)
             /\ Whole(queued[d], ps[d], Stream(ks, vs, d))
  BY <1>1, <1>4, <1>7, QuantFirst
<1> HIDE DEF ks, vs, ps
<1>8. connection.number # 0 BY <1>1 DEF ChannelInv, Fresh
<1>b. Both' = Both BY <1>1 DEF Both
<1>9. ChannelTypeOK' BY <1>1, <1>5 DEF ChannelInv, ChannelTypeOK, Mid
<1>10. Fresh'
  <2>1. /\ connection.open # {} /\ (~Both => ServerGone(ks, vs, ps))
        /\ Len(left) = IF Both THEN connection.number - 1 ELSE connection.number
    BY <1>1, <1>5 DEF ChannelInv, Fresh, Mid
  <2> QED BY <1>1, <1>8, <1>b, <2>1 DEF Fresh
<1>11. Accounts' BY <1>1, <1>5, <1>6, <1>7, <1>b DEF Accounts, Mid
<1>12. Streams'
  <2> SUFFICES ASSUME NEW d \in Ends PROVE StreamOK(d)' BY DEF Streams
  <2>1. Once(queued[d]) BY InvFacts
  <2>2. Ordered(queued[d], Line(left, ps, ks, vs, d)) BY <1>5 DEF Mid
  <2> QED BY <1>1, <1>7, <1>8, <1>b, <2>1, <2>2 DEF StreamOK
<1>13. FirstLeft' BY <1>1 DEF ChannelInv, FirstLeft
<1>14. FirstOver'
  <2> SUFFICES ASSUME ~Both, connection.number = 1 PROVE FirstPart(ks, vs, ps, "server")
    BY <1>1, <1>b DEF FirstOver, FirstPart
  <2> QED BY <1>5, Peers DEF Mid
<1> QED BY <1>9, <1>10, <1>11, <1>12, <1>13, <1>14 DEF ChannelInv

\* What stands between two parts of a line, told apart in two ways.
LEMMA Regrouped ==
  ASSUME NEW a \in Seq(Units), NEW d \in Seq(Units), NEW z \in Seq(Units),
         NEW b \in Seq(Units), NEW y \in Seq(Units)
  PROVE  Cat(Cat(a, Cat(Cat(d, z), b)), y) = Cat(Cat(a, d), Cat(z, Cat(b, y)))
<1> DEFINE v == Cat(b, y)
           w == Cat(d, z)
           x == Cat(z, v)
           u == Cat(w, b)
<1>1. /\ v \in Seq(Units) /\ w \in Seq(Units) BY CatFacts
<1>2. Cat(u, y) = Cat(w, v) /\ u \in Seq(Units)
  <2> HIDE DEF w
  <2> QED BY <1>1, CatFacts
<1>3. Cat(w, v) = Cat(d, x) /\ x \in Seq(Units)
  <2> HIDE DEF v
  <2> QED BY <1>1, CatFacts
<1> HIDE DEF u, x, v, w
<1>4. Cat(Cat(a, u), y) = Cat(a, Cat(u, y)) BY <1>2, CatFacts
<1>5. Cat(Cat(a, d), x) = Cat(a, Cat(d, x)) BY <1>3, CatFacts
<1>6. Cat(Cat(a, u), y) = Cat(Cat(a, d), x) BY <1>2, <1>3, <1>4, <1>5
<1> QED BY <1>6 DEF u, v, w, x

\* A handler that was left behind reads: what it takes and has read stays in its place.
LEMMA QuantLeftInv ==
  ASSUME ChannelInv, NEW c \in DOMAIN left, NEW k \in 1 .. Len(left[c].unread),
         NEW g \in Garbage, QuantLeft(c, k, g)
  PROVE  ChannelInv'
<1> DEFINE l == left[c]
           h == [NewHandler EXCEPT !.readBuffer = l.readBuffer,
                                   !.frameDataBuffer = l.frameDataBuffer,
                                   !.pendingReadType = l.pendingReadType]
           segs == SubSeq(l.unread, 1, k)
           rest == SubSeq(l.unread, k + 1, Len(l.unread))
           read == ReadFrames(h, segs, g)
           r == read.handler
           t == read.taken
           m == Behind(r, rest, l.taken \o t)
           q == queued["client"]
<1>1. /\ left' = [left EXCEPT ![c] = m] /\ handlers' = handlers /\ wire' = wire
      /\ connection' = connection /\ queued' = queued /\ processed' = processed
      /\ forgotten' = forgotten
  BY DEF QuantLeft
<1>2. "client" \in Ends /\ left \in Seq(Behinds) /\ q \in Seq(Frames)
      /\ processed["client"] \in Seq(Taken)
  BY Peers, InvFacts
<1>3. c \in 1 .. Len(left) /\ l \in Behinds BY <1>2, LenProperties, ElementOfSeq
<1>4. /\ l.unread \in Seq(Segs) /\ l.taken \in Seq(Taken) /\ Received(l) \in Seq(Units)
      /\ Finals(l.taken) \in Seq(Units) /\ Pending(l) \in Seq(Units)
  BY <1>3, BehindIs
<1>5. h \in Handlers /\ h.readBuffer = l.readBuffer /\ h.frameDataBuffer = l.frameDataBuffer
  <2>1. /\ l.readBuffer \in Seq(Segs) /\ l.frameDataBuffer \in Seq(Units)
        /\ l.pendingReadType \in Types
    BY <1>3 DEF Behinds
  <2>2. NewHandler \in Handlers BY NewHandlerFacts
  <2> HIDE DEF l
  <2> QED BY <2>1, <2>2 DEF Handlers
<1>6. Received(h) = Received(l) BY <1>5 DEF Received
<1>7. k \in 0 .. Len(l.unread)
  <2>1. Len(l.unread) \in Nat BY <1>4, LenProperties
  <2> QED BY <2>1
<1>8. /\ segs \in Seq(Segs) /\ rest \in Seq(Segs)
      /\ Carried(segs) \in Seq(Units) /\ Carried(rest) \in Seq(Units)
      /\ Carried(l.unread) = Carried(segs) \o Carried(rest)
  BY <1>4, <1>7, WireCut
<1> HIDE DEF h, segs, rest
<1>9. /\ r \in Handlers /\ t \in Seq(Taken) /\ ReadOrder(h, segs, r, t)
      /\ ReadWhole(h, segs, r, t)
  BY <1>5, <1>8, ReadFramesEffect
<1>10. l.taken \o t \in Seq(Taken) /\ Finals(l.taken \o t) = Finals(l.taken) \o Finals(t)
       /\ Finals(t) \in Seq(Units) /\ Received(r) \in Seq(Units)
  <2>1. l.taken \o t \in Seq(Taken) BY <1>4, <1>9, ConcatProperties
  <2>2. Finals(l.taken \o t) = Finals(l.taken) \o Finals(t) /\ Finals(t) \in Seq(Units)
    BY <1>4, <1>9, FinalsConcat
  <2>3. Received(r) \in Seq(Units) BY <1>9, HandlerFields
  <2> QED BY <2>1, <2>2, <2>3
<1> HIDE DEF read
<1>11. m \in Behinds /\ m.taken = l.taken \o t /\ Pending(m) = Received(r) \o Carried(rest)
  <2>1. m \in Behinds
    <3> DEFINE x == l.taken \o t
    <3>1. x \in Seq(Taken) BY <1>10
    <3> HIDE DEF x, r
    <3>2. Behind(r, rest, x) \in Behinds BY <1>8, <1>9, <3>1 DEF Behind, Behinds, Handlers, r
    <3> QED BY <3>2 DEF x, r
  <2>2. m.taken = l.taken \o t /\ Pending(m) = Received(r) \o Carried(rest)
    BY DEF Behind, Pending, Received
  <2> QED BY <2>1, <2>2
<1> HIDE DEF m, r, t
<1>12. left' \in Seq(Behinds) /\ Len(left') = Len(left)
       /\ left'[c] = m /\ \A i \in 1 .. Len(left) : i # c => left'[i] = left[i]
  BY <1>1, <1>2, <1>3, <1>11, PastReplaced
<1>13. PICK a, b \in Seq(Units) : /\ Past(left) = a \o (Bygone(l) \o b)
                                  /\ Past(left') = a \o (Bygone(m) \o b)
  <2>1. \E a, b \in Seq(Units) : /\ Past(left) = a \o (Bygone(left[c]) \o b)
                                 /\ Past([left EXCEPT ![c] = m]) = a \o (Bygone(m) \o b)
    BY <1>2, <1>3, <1>11, PastReplaced
  <2> QED BY <1>1, <2>1 DEF l
<1>14. Ordered(q, Line(left', processed, handlers, wire, "client"))
  <2> DEFINE f == Finals(processed["client"])
             s == Stream(handlers, wire, "client")
             y == f \o s
             d == Finals(l.taken)
             e == Finals(t)
             u == Received(l)
             v == Received(r)
             n == Carried(segs)
             x == Carried(rest)
  <2>1. f \in Seq(Units) /\ s \in Seq(Units)
    BY <1>2, InvFacts
  <2>2. y \in Seq(Units) BY <2>1, ConcatProperties
  <2>3. Line(left, processed, handlers, wire, "client") = (a \o ((d \o (u \o (n \o x))) \o b)) \o y
    BY <1>8, <1>13 DEF Line, Start, Bygone, Pending
  <2>4. Line(left', processed, handlers, wire, "client") = (a \o (((d \o e) \o (v \o x)) \o b)) \o y
    BY <1>10, <1>11, <1>13 DEF Line, Start, Bygone
  <2>5. Ordered(q, Line(left, processed, handlers, wire, "client")) BY <1>2, InvFacts
  <2>6. /\ d \in Seq(Units) /\ e \in Seq(Units) /\ u \in Seq(Units) /\ v \in Seq(Units)
        /\ n \in Seq(Units) /\ x \in Seq(Units)
    BY <1>4, <1>8, <1>10
  <2>7. \A before, more : before \in Seq(Units) /\ more \in Seq(Units)
             /\ Ordered(q, before \o ((u \o n) \o more)) =>
             Ordered(q, before \o (e \o (v \o more)))
    BY <1>6, <1>9 DEF ReadOrder
  <2> HIDE DEF y, d, e, u, v, n, x
  <2> DEFINE before == a \o d
             more == x \o (b \o y)
  <2>8. before \in Seq(Units) /\ more \in Seq(Units)
    <3>1. b \o y \in Seq(Units) BY <2>2, ConcatProperties
    <3> QED BY <2>6, <3>1, ConcatProperties
  <2>9. (a \o ((d \o (u \o (n \o x))) \o b)) \o y = before \o ((u \o n) \o more)
    <3> DEFINE z == Cat(Cat(u, n), x)
    <3>1. Cat(d, Cat(u, Cat(n, x))) = Cat(d, z) /\ z \in Seq(Units) BY <2>6, CatFacts
    <3>2. Cat(Cat(u, n), Cat(x, Cat(b, y))) = Cat(z, Cat(b, y))
      <4> DEFINE w == Cat(b, y)
                 t1 == Cat(u, n)
      <4>1. w \in Seq(Units) /\ t1 \in Seq(Units) BY <2>2, <2>6, CatFacts
      <4> HIDE DEF w, t1
      <4>2. Cat(t1, Cat(x, w)) = Cat(Cat(t1, x), w) BY <2>6, <4>1, CatFacts
      <4> QED BY <4>2 DEF w, t1
    <3> HIDE DEF z
    <3>a. d \in Seq(Units) /\ z \in Seq(Units) /\ y \in Seq(Units) BY <2>2, <2>6, <3>1
    <3>3. Cat(Cat(a, Cat(Cat(d, z), b)), y) = Cat(Cat(a, d), Cat(z, Cat(b, y)))
      BY <3>a, Regrouped
    <3>4. Cat(Cat(a, Cat(Cat(d, Cat(u, Cat(n, x))), b)), y)
            = Cat(Cat(a, d), Cat(Cat(u, n), Cat(x, Cat(b, y))))
      BY <3>1, <3>2, <3>3
    <3> QED BY <3>4, Zenon DEF Cat
  <2>10. before \o (e \o (v \o more)) = (a \o (((d \o e) \o (v \o x)) \o b)) \o y
    <3> DEFINE z == Cat(e, Cat(v, x))
    <3>1. Cat(Cat(d, e), Cat(v, x)) = Cat(d, z) /\ z \in Seq(Units) BY <2>6, CatFacts
    <3>2. Cat(e, Cat(v, Cat(x, Cat(b, y)))) = Cat(z, Cat(b, y))
      <4> DEFINE w == Cat(b, y)
      <4>1. w \in Seq(Units) BY <2>2, CatFacts
      <4> HIDE DEF w
      <4>2. Cat(e, Cat(v, Cat(x, w))) = Cat(z, w) BY <2>6, <4>1, CatFacts
      <4> QED BY <4>2 DEF w
    <3> HIDE DEF z
    <3>a. d \in Seq(Units) /\ z \in Seq(Units) /\ y \in Seq(Units) BY <2>2, <2>6, <3>1
    <3>3. Cat(Cat(a, Cat(Cat(d, z), b)), y) = Cat(Cat(a, d), Cat(z, Cat(b, y)))
      BY <3>a, Regrouped
    <3>4. Cat(Cat(a, Cat(Cat(Cat(d, e), Cat(v, x)), b)), y)
            = Cat(Cat(a, d), Cat(e, Cat(v, Cat(x, Cat(b, y)))))
      BY <3>1, <3>2, <3>3
    <3> QED BY <3>4, Zenon DEF Cat
  <2>11. Ordered(q, before \o ((u \o n) \o more)) BY <2>3, <2>5, <2>9
  <2> HIDE DEF before, more, q
  <2>12. Ordered(q, before \o (e \o (v \o more))) BY <2>7, <2>8, <2>11
  <2> QED BY <2>4, <2>10, <2>12
<1>15. Line(left', processed, handlers, wire, "server") = Line(left, processed, handlers, wire, "server")
  BY DEF Line, Start
<1>16. FirstLeft'
  <2> SUFFICES ASSUME left' # << >> PROVE Part(q, left'[1].taken, Pending(left'[1]))
    BY <1>1 DEF FirstLeft
  <2>1. 1 \in 1 .. Len(left) BY <1>3
  <2>2. left # << >> BY <1>3
  <2>3. Part(q, left[1].taken, Pending(left[1])) BY <2>2 DEF ChannelInv, FirstLeft
  <2>4. CASE c = 1
    <3> DEFINE u == Received(l)
               v == Received(r)
               n == Carried(segs)
               x == Carried(rest)
               d == l.taken
    <3>1. Part(q, d, u \o (n \o x)) BY <1>8, <2>3, <2>4 DEF Pending
    <3>2. PICK z \in Seq(Units) : Whole(q, d, (u \o (n \o x)) \o z) BY <3>1 DEF Part
    <3>3. u \in Seq(Units) /\ v \in Seq(Units) /\ n \in Seq(Units) /\ x \in Seq(Units)
      BY <1>4, <1>8, <1>10
    <3>4. \A y : y \in Seq(Units) /\ Whole(q, d, (u \o n) \o y) => Whole(q, d \o t, v \o y)
      BY <1>2, <1>6, <1>9 DEF ReadWhole
    <3> HIDE DEF u, v, n, x, d, q
    <3> DEFINE y == x \o z
    <3>5. y \in Seq(Units) BY <3>3, ConcatProperties
    <3>6. (u \o (n \o x)) \o z = (u \o n) \o y
      <4>1. Cat(Cat(u, Cat(n, x)), z) = Cat(Cat(u, n), Cat(x, z)) BY <3>3, CatFacts
      <4> QED BY <4>1, Zenon DEF Cat
    <3>7. v \o y = (v \o x) \o z
      <4>1. Cat(v, Cat(x, z)) = Cat(Cat(v, x), z) BY <3>3, CatFacts
      <4> QED BY <4>1, Zenon DEF Cat
    <3> HIDE DEF y
    <3>8. Whole(q, d \o t, v \o y) BY <3>2, <3>4, <3>5, <3>6
    <3>9. Part(q, d \o t, v \o x) BY <3>7, <3>8 DEF Part
    <3>10. left'[1] = m BY <1>12, <2>4
    <3> QED BY <1>11, <3>9, <3>10 DEF d, v, x
  <2>5. CASE c # 1 BY <1>12, <2>1, <2>3, <2>5
  <2> QED BY <2>4, <2>5
<1>17. ChannelTypeOK' BY <1>1, <1>12 DEF ChannelInv, ChannelTypeOK
<1>b. Both' = Both BY <1>1 DEF Both
<1>18. Fresh' BY <1>1, <1>12, <1>b DEF ChannelInv, Fresh, ServerGone
<1>19. Accounts' BY <1>1, <1>b DEF ChannelInv, Accounts, Covered
<1>20. Streams'
  <2> SUFFICES ASSUME NEW d \in Ends PROVE StreamOK(d)' BY DEF Streams
  <2>1. StreamOK(d) BY DEF ChannelInv, Streams
  <2>2. Ordered(queued[d], Line(left', processed, handlers, wire, d))
    <3>1. CASE d = "client" BY <1>14, <3>1
    <3>2. CASE d = "server" BY <1>15, <2>1, <3>2 DEF StreamOK
    <3> QED BY <3>1, <3>2 DEF Ends
  <2> QED BY <1>1, <1>b, <2>1, <2>2 DEF StreamOK
<1>21. FirstOver' BY <1>1, <1>b DEF ChannelInv, FirstOver, FirstPart
<1> QED BY <1>16, <1>17, <1>18, <1>19, <1>20, <1>21 DEF ChannelInv

LEMMA ConnectInv == ASSUME ChannelInv, Connect PROVE ChannelInv'
<1>1. "client" \in Ends /\ "server" \in Ends /\ \A e \in Ends : e = "client" \/ e = "server"
  BY DEF Ends
<1>2. /\ handlers' = handlers /\ wire' = wire /\ left' = left /\ queued' = queued
      /\ processed' = processed /\ forgotten' = forgotten
      /\ connection' = [number |-> connection.number + 1, open |-> Ends]
      /\ "client" \notin connection.open
  BY DEF Connect
<1>3. /\ handlers \in HandlersOfEnds /\ wire \in Wires /\ connection.number \in Nat
      /\ connection.open \in {{}, {"client"}, Ends}
  BY <1>1, InvFacts
<1>4. connection.open = {} /\ ~Both BY <1>1, <1>2, <1>3 DEF Both
<1>5. Both' /\ connection'.number = connection.number + 1 /\ connection'.open # {}
  <2>1. connection'.open = Ends BY <1>2
  <2> QED BY <1>1, <1>2, <2>1 DEF Both
<1>6. /\ wire = NoWires /\ handlers["server"] = NewHandler
      /\ Len(left) = connection.number
  BY <1>4 DEF ChannelInv, Fresh, ServerGone
\* Before the first connection nothing was counted.
<1>7. ASSUME connection.number = 0, NEW e \in Ends
      PROVE  handlers[e].bytesWaitingAcknowledge = 0 /\ Unread(handlers, wire, e) = 0
  <2> DEFINE q == handlers["client"].framesQueueOutput
             h == [NewHandler EXCEPT !.framesQueueOutput = q]
  <2>1. q \in Seq(Frames) BY <1>1, <1>3, UnreadIs, HandlerFields
  <2>2. h.bytesWaitingAcknowledge = 0 /\ AmountIn(h.readBuffer) = 0 /\ Owed(h) = 0
    BY <2>1, NewHandlerIs
  <2>3. handlers["client"] = h BY <1>7 DEF ChannelInv, Fresh
  <2> HIDE DEF h
  <2>4. \A d \in Ends : /\ handlers[d].bytesWaitingAcknowledge = 0
                        /\ AmountIn(handlers[d].readBuffer) = 0 /\ Owed(handlers[d]) = 0
    BY <1>1, <1>6, <2>2, <2>3, NewHandlerFacts
  <2>5. /\ \A d \in Ends : wire[d] = << >>
        /\ SizeOf(<< >>) = 0 /\ AmountIn(<< >>) = 0
    BY <1>6, SizeOfFew, AmountInFew DEF NoWires
  <2>6. Peer(e) \in Ends BY Peers
  <2>7. Unread(handlers, wire, e) = 0 + 0 + 0 + 0 BY <2>4, <2>5, <2>6 DEF Unread
  <2> QED BY <2>4, <2>7
<1>8. ChannelTypeOK'
  <2>1. connection' \in [number : Nat, open : {{}, {"client"}, Ends}] BY <1>2, <1>3
  <2> QED BY <1>2, <2>1 DEF ChannelInv, ChannelTypeOK
<1>9. Fresh' BY <1>2, <1>3, <1>5, <1>6 DEF Fresh
<1>10. Accounts'
  <2>1. /\ \A e \in Ends : handlers[e].bytesWaitingAcknowledge <= handlers[e].maxUnAcknowledgedSize
        /\ ~forgotten => Covered(handlers, wire)
    BY DEF ChannelInv, Accounts
  <2>2. connection'.number = 1 =>
          \A e \in Ends : handlers[e].bytesWaitingAcknowledge = Unread(handlers, wire, e)
    BY <1>3, <1>5, <1>7
  <2> QED BY <1>2, <2>1, <2>2 DEF Accounts
<1>11. Streams'
  <2> SUFFICES ASSUME NEW e \in Ends PROVE StreamOK(e)' BY DEF Streams
  <2>1. StreamOK(e) BY DEF ChannelInv, Streams
  <2>2. connection'.number # 0 /\ (connection'.number = 1 => connection.number = 0)
    BY <1>3, <1>5
  <2> QED BY <1>2, <2>1, <2>2 DEF StreamOK
<1>12. FirstLeft' BY <1>2 DEF ChannelInv, FirstLeft
<1>13. FirstOver' BY <1>5 DEF FirstOver
<1> QED BY <1>8, <1>9, <1>10, <1>11, <1>12, <1>13 DEF ChannelInv

LEMMA QueueFrameInv == ASSUME ChannelInv, NEW x \in Frames, QueueFrame(x) PROVE ChannelInv'
<1> DEFINE e == SenderOf[x]
           p == Peer(e)
           h == handlers[e]
           q == h.framesQueueOutput
           r == [h EXCEPT !.framesQueueOutput = Append(@, x)]
           ks == [handlers EXCEPT ![e] = r]
<1>1. e \in Ends /\ p \in Ends /\ p # e /\ Peer(p) = e BY Peers, ChannelAssumption
<1>c. \A d \in Ends : d = e \/ d = p BY <1>1, Peers
<1>2. /\ handlers \in HandlersOfEnds /\ wire \in Wires /\ h \in Handlers
      /\ queued[e] \in Seq(Frames) /\ queued \in [Ends -> Seq(Frames)]
      /\ processed[e] \in Seq(Taken)
  BY <1>1, InvFacts
<1>3. /\ handlers' = ks /\ queued' = [queued EXCEPT ![e] = Append(@, x)]
      /\ wire' = wire /\ connection' = connection /\ processed' = processed
      /\ left' = left /\ forgotten' = forgotten
      /\ ~Member(queued[e], x) /\ (e = "server" => Both)
  <2>1. handlers' = [handlers EXCEPT ![e].framesQueueOutput = Append(@, x)] BY DEF QueueFrame
  <2>2. handlers' = ks BY <1>1, <1>2, <2>1 DEF HandlersOfEnds
  <2>3. e = "server" => Both
    <3>1. e = "server" => "server" \in connection.open BY DEF QueueFrame
    <3>2. connection.open \in {{}, {"client"}, Ends} BY <1>1, InvFacts
    <3> QED BY <3>1, <3>2 DEF Both
  <2> QED BY <2>2, <2>3 DEF QueueFrame, Member
<1>4. q \in Seq(Frames) /\ Append(q, x) \in Seq(Frames) /\ Append(q, x) = q \o <<x>>
      /\ <<x>> \in Seq(Frames)
  <2>1. q \in Seq(Frames) BY <1>2, HandlerFields
  <2> HIDE DEF q
  <2>2. Append(q, x) \in Seq(Frames) BY <2>1, AppendProperties
  <2>3. Append(q, x) = q \o <<x>> BY <2>1
  <2> QED BY <2>1, <2>2, <2>3
<1>5. /\ r \in Handlers /\ r.framesQueueOutput = Append(q, x)
      /\ r.bytesWaitingAcknowledge = h.bytesWaitingAcknowledge
      /\ r.maxUnAcknowledgedSize = h.maxUnAcknowledgedSize
      /\ r.readBuffer = h.readBuffer /\ r.frameDataBuffer = h.frameDataBuffer
      /\ r.outputSegments = h.outputSegments
      /\ r.outputAcknowledgesSize = h.outputAcknowledgesSize
  BY <1>2, <1>4 DEF Handlers
<1>6. Received(r) = Received(h) /\ Owed(r) = Owed(h) BY <1>5 DEF Received, Owed
<1>7. ks \in HandlersOfEnds /\ ks[e] = r /\ ks[p] = handlers[p]
  BY <1>1, <1>2, <1>5 DEF HandlersOfEnds
<1>q. queued'[e] = Append(queued[e], x) /\ queued'[p] = queued[p]
      /\ queued' \in [Ends -> Seq(Frames)]
  <2>1. Append(queued[e], x) \in Seq(Frames) BY <1>2, AppendProperties
  <2> QED BY <1>1, <1>2, <1>3, <2>1
<1>8. /\ Content(x) \in Seq(Units) /\ Contents(q) \in Seq(Units)
      /\ Carried(h.outputSegments) \in Seq(Units)
      /\ Contents(Append(q, x)) = Contents(q) \o Content(x)
  <2>1. Contents(q \o <<x>>) = Contents(q) \o Contents(<<x>>) /\ Contents(q) \in Seq(Units)
    BY <1>4, ContentsConcat
  <2>2. Contents(<<x>>) = Content(x) /\ Content(x) \in Seq(Units) BY ContentsFew, ContentFacts
  <2>3. Carried(h.outputSegments) \in Seq(Units) BY <1>2, HandlerFields
  <2>4. Contents(Append(q, x)) = Contents(q \o <<x>>) BY <1>4
  <2> HIDE DEF q
  <2> QED BY <2>1, <2>2, <2>3, <2>4
<1>9. Unsent(r) = Unsent(h) \o Content(x)
  <2> DEFINE a == Carried(h.outputSegments)
             b == Contents(q)
             c == Content(x)
  <2>1. Unsent(r) = a \o (b \o c) /\ Unsent(h) = a \o b BY <1>5, <1>8 DEF Unsent
  <2>a. Assoc(Units) BY Associative
  <2>2. a \in Seq(Units) /\ b \in Seq(Units) /\ c \in Seq(Units) BY <1>8
  <2> HIDE DEF a, b, c
  <2>3. (a \o b) \o c = a \o (b \o c) BY <2>2, <2>a DEF Assoc
  <2> QED BY <2>1, <2>3 DEF c
<1> HIDE DEF r, ks, q
<1>10. Stream(ks, wire, p) = Stream(handlers, wire, p)
  BY <1>1, <1>6, <1>7 DEF Stream
<1>11. Stream(ks, wire, e) = Stream(handlers, wire, e) \o Content(x)
  <2> DEFINE a == Received(handlers[p])
             b == Carried(wire[e])
             c == Unsent(h)
             d == Content(x)
  <2>1. Stream(ks, wire, e) = a \o (b \o (c \o d)) BY <1>7, <1>9 DEF Stream
  <2>2. Stream(handlers, wire, e) = a \o (b \o c) BY DEF Stream
  <2>3. a \in Seq(Units) /\ b \in Seq(Units) /\ c \in Seq(Units) /\ d \in Seq(Units)
    BY <1>1, <1>2, <1>8, UnreadIs
  <2>a. Assoc(Units) BY Associative
  <2> HIDE DEF a, b, c, d
  <2>4. b \o c \in Seq(Units) BY <2>3, ConcatProperties
  <2>5. (a \o (b \o c)) \o d = a \o ((b \o c) \o d) BY <2>3, <2>4, <2>a, ZenonT(60) DEF Assoc
  <2>6. (b \o c) \o d = b \o (c \o d) BY <2>3, <2>a, ZenonT(60) DEF Assoc
  <2> QED BY <2>1, <2>2, <2>5, <2>6 DEF d
<1>12. \A d \in Ends : Unread(ks, wire, d) = Unread(handlers, wire, d)
  <2>1. \A d \in Ends : Owed(ks[d]) = Owed(handlers[d]) /\ ks[d].readBuffer = handlers[d].readBuffer
    BY <1>5, <1>6, <1>7, <1>c
  <2> HIDE DEF h, e, p
  <2> QED BY <2>1, Peers DEF Unread
<1>13. \A d \in Ends : /\ ks[d].bytesWaitingAcknowledge = handlers[d].bytesWaitingAcknowledge
                       /\ ks[d].maxUnAcknowledgedSize = handlers[d].maxUnAcknowledgedSize
                       /\ AmountIn(ks[d].readBuffer) = AmountIn(handlers[d].readBuffer)
  BY <1>5, <1>7, <1>c
<1>14. Line(left, processed, ks, wire, e)
         = Line(left, processed, handlers, wire, e) \o Content(x)
  <2> DEFINE a == Start(left, e)
             b == Finals(processed[e])
             c == Stream(handlers, wire, e)
             d == Content(x)
  <2>1. a \in Seq(Units) /\ b \in Seq(Units) /\ c \in Seq(Units) /\ d \in Seq(Units)
    BY <1>1, <1>8, InvFacts
  <2>2. /\ Line(left, processed, ks, wire, e) = a \o (b \o (c \o d))
        /\ Line(left, processed, handlers, wire, e) = a \o (b \o c)
    BY <1>11 DEF Line
  <2> HIDE DEF a, b, c, d
  <2>3. Cat(a, Cat(b, Cat(c, d))) = Cat(Cat(a, Cat(b, c)), d) BY <2>1, CatFacts
  <2>4. a \o (b \o (c \o d)) = (a \o (b \o c)) \o d BY <2>3, Zenon DEF Cat
  <2> QED BY <2>2, <2>4 DEF d
<1>15. Line(left, processed, ks, wire, p) = Line(left, processed, handlers, wire, p)
  BY <1>10 DEF Line
<1>16. ChannelTypeOK' BY <1>3, <1>7, <1>q DEF ChannelInv, ChannelTypeOK
<1>b. Both' = Both BY <1>3 DEF Both
<1>s. ks["server"] = handlers["server"] \/ (e = "server" /\ Both)
  <2>1. "server" = e \/ "server" = p BY <1>1, <1>c, Peers
  <2> QED BY <1>3, <1>7, <2>1
<1>17. Fresh'
  <2>1. connection.number = 0 => /\ connection.open = {}
                                 /\ ks["client"] =
                                      [NewHandler EXCEPT !.framesQueueOutput =
                                         ks["client"].framesQueueOutput]
    <3> SUFFICES ASSUME connection.number = 0
                 PROVE  /\ connection.open = {}
                        /\ ks["client"] = [NewHandler EXCEPT !.framesQueueOutput =
                                             ks["client"].framesQueueOutput]
      OBVIOUS
    <3>1. /\ connection.open = {}
          /\ handlers["client"] = [NewHandler EXCEPT !.framesQueueOutput =
                                     handlers["client"].framesQueueOutput]
      BY DEF ChannelInv, Fresh
    <3>0. ~Both BY <3>1 DEF Both, Ends
    <3>2. e = "client" /\ p = "server" BY <1>1, <1>3, <3>0 DEF Ends, Peer
    <3>3. \A n : [[NewHandler EXCEPT !.framesQueueOutput = n]
                    EXCEPT !.framesQueueOutput = Append(@, x)]
                   = [NewHandler EXCEPT !.framesQueueOutput = Append(n, x)]
      BY DEF NewHandler
    <3>4. h = [NewHandler EXCEPT !.framesQueueOutput = q] BY <3>1, <3>2 DEF q
    <3>5. r = [NewHandler EXCEPT !.framesQueueOutput = Append(q, x)]
      BY <3>3, <3>4, Zenon DEF r
    <3> QED BY <1>5, <1>7, <3>1, <3>2, <3>5
  <2>2. ~Both => ServerGone(ks, wire, processed)
    <3>1. ~Both => ServerGone(handlers, wire, processed) BY DEF ChannelInv, Fresh
    <3> HIDE DEF e, p, h
    <3> QED BY <1>s, <3>1 DEF ServerGone
  <2>3. /\ connection.open = {} => wire = NoWires
        /\ Len(left) = IF Both THEN connection.number - 1 ELSE connection.number
    BY DEF ChannelInv, Fresh
  <2> HIDE DEF e, p, h
  <2> QED BY <1>3, <1>b, <2>1, <2>2, <2>3 DEF Fresh
<1> HIDE DEF p, h, e
<1>18. Accounts'
  <2>1. "client" \in Ends BY DEF Ends
  <2>2. ~forgotten => Covered(ks, wire)
    BY <1>12, <1>13, <2>1 DEF ChannelInv, Accounts, Covered
  <2> QED BY <1>3, <1>b, <1>12, <1>13, <2>1, <2>2 DEF ChannelInv, Accounts
<1>19. StreamOK(p)'
  <2>1. StreamOK(p) BY <1>1 DEF ChannelInv, Streams
  <2> QED BY <1>3, <1>b, <1>10, <1>15, <1>q, <2>1 DEF StreamOK
<1>20. StreamOK(e)'
  <2>1. StreamOK(e) BY <1>1 DEF ChannelInv, Streams
  <2> DEFINE u == Line(left, processed, handlers, wire, e)
             v == Stream(handlers, wire, e)
  <2>2. u \in Seq(Units)
    <3> DEFINE a == Start(left, e)
               b == Finals(processed[e])
    <3>1. a \in Seq(Units) /\ b \in Seq(Units) /\ v \in Seq(Units) BY <1>1, InvFacts
    <3>2. u = a \o (b \o v) BY DEF Line
    <3> HIDE DEF a, b, u, v
    <3>3. b \o v \in Seq(Units) BY <3>1, ConcatProperties
    <3> QED BY <3>1, <3>2, <3>3, ConcatProperties
  <2>3. Once(queued[e]) /\ Ordered(queued[e], u) BY <2>1 DEF StreamOK
  <2> HIDE DEF u
  <2>4. Once(Append(queued[e], x)) BY <1>2, <1>3, <2>3, OnceAppend
  <2>5. Ordered(Append(queued[e], x), u \o Content(x))
    BY <1>2, <1>3, <2>2, <2>3, OrderedQueue
  <2>6. Whole(queued[e], processed[e], v) =>
          Whole(Append(queued[e], x), processed[e], v \o Content(x))
    BY <1>2, WholeQueue
  <2>7. Ordered(Append(queued[e], x), Line(left, processed, ks, wire, e))
    BY <1>14, <2>5 DEF u
  <2>8. connection.number = 0 \/ (Both /\ connection.number = 1) =>
          Whole(Append(queued[e], x), processed[e], Stream(ks, wire, e))
    BY <1>11, <2>1, <2>6 DEF StreamOK
  <2> QED BY <1>3, <1>b, <1>q, <2>4, <2>7, <2>8 DEF StreamOK
<1>21. Streams'
  <2>1. \A d \in Ends : d = e \/ d = p BY <1>1, Peers DEF p
  <2> QED BY <1>19, <1>20, <2>1 DEF Streams
<1>22. ASSUME NEW d \in Ends, NEW done, NEW u \in Seq(Units), Part(queued[d], done, u)
       PROVE  Part(queued'[d], done, u)
  <2>1. CASE d = e BY <1>2, <1>22, <1>q, <2>1, PartQueue
  <2>2. CASE d # e
    <3>1. d = p BY <1>1, <2>2, Peers DEF p
    <3> QED BY <1>22, <1>q, <3>1
  <2> QED BY <2>1, <2>2
<1>23. "client" \in Ends /\ "server" \in Ends /\ Peer("server") = "client" BY Peers
<1>24. FirstLeft'
  <2> SUFFICES ASSUME left # << >>
               PROVE  Part(queued'["client"], left[1].taken, Pending(left[1]))
    BY <1>3 DEF FirstLeft
  <2>1. Part(queued["client"], left[1].taken, Pending(left[1])) BY DEF ChannelInv, FirstLeft
  <2>2. left \in Seq(Behinds) BY <1>23, InvFacts
  <2>3. Len(left) \in Nat /\ Len(left) # 0 BY <2>2, LenProperties, EmptySeq
  <2>4. 1 \in 1 .. Len(left) BY <2>3
  <2>5. left[1] \in Behinds BY <2>2, <2>4, ElementOfSeq
  <2>6. Pending(left[1]) \in Seq(Units) BY <2>5, BehindIs
  <2> QED BY <1>22, <1>23, <2>1, <2>6
<1>25. FirstOver'
  <2> SUFFICES ASSUME ~Both, connection.number = 1
               PROVE  Part(queued'["server"], processed'["server"],
                            Received(handlers'["client"]) \o Carried(wire'["server"]))
    BY <1>3, <1>b, <1>23 DEF FirstOver, FirstPart
  <2> DEFINE u == Received(handlers["client"]) \o Carried(wire["server"])
  <2>1. FirstPart(handlers, wire, processed, "server") BY DEF ChannelInv, FirstOver
  <2>2. Part(queued["server"], processed["server"], u) BY <1>23, <2>1 DEF FirstPart
  <2>3. u \in Seq(Units)
    <3>1. Received(handlers["client"]) \in Seq(Units) /\ Carried(wire["server"]) \in Seq(Units)
      BY <1>2, <1>23, UnreadIs
    <3> QED BY <3>1, ConcatProperties
  <2>4. Received(ks["client"]) = Received(handlers["client"])
    BY <1>6, <1>7, <1>23, <1>c DEF h
  <2> HIDE DEF u
  <2>5. Part(queued'["server"], processed["server"], u) BY <1>22, <1>23, <2>2, <2>3
  <2>6. Part(queued'["server"], processed["server"],
             Received(ks["client"]) \o Carried(wire["server"]))
    BY <2>4, <2>5 DEF u
  <2> QED BY <1>3, <2>6
<1> QED BY <1>16, <1>17, <1>18, <1>21, <1>24, <1>25 DEF ChannelInv

\* Every step keeps the invariant.
LEMMA NextInv == ChannelInv /\ [Next]_vars => ChannelInv'
<1> SUFFICES ASSUME ChannelInv, [Next]_vars PROVE ChannelInv' OBVIOUS
<1>1. ASSUME NEW e \in Ends, NEW k \in Arrived(e), NEW g \in Garbage, NEW test \in BOOLEAN,
             Quant(e, k, g, test)
      PROVE  ChannelInv'
  BY <1>1, QuantInv
<1>2. ASSUME NEW e \in Ends, NEW k \in Arrived(e), NEW g \in Garbage, WriteFails(e, k, g)
      PROVE  ChannelInv'
  BY <1>2, WriteFailsInv
<1>3. ASSUME NEW e \in Ends, AckTimeout(e) PROVE ChannelInv' BY <1>3, AckTimeoutInv
<1>4. ASSUME NEW e \in Ends, NEW inactive \in BOOLEAN, Lose(e, inactive) PROVE ChannelInv'
  BY <1>4, LoseInv
<1>5. CASE Connect BY <1>5, ConnectInv
<1>6. ASSUME NEW c \in DOMAIN left, NEW k \in 1 .. Len(left[c].unread), NEW g \in Garbage,
             QuantLeft(c, k, g)
      PROVE  ChannelInv'
  BY <1>6, QuantLeftInv
<1>7. ASSUME NEW f \in Frames, QueueFrame(f) PROVE ChannelInv' BY <1>7, QueueFrameInv
<1>8. CASE UNCHANGED vars
  <2>1. /\ handlers' = handlers /\ wire' = wire /\ connection' = connection /\ left' = left
        /\ queued' = queued /\ processed' = processed /\ forgotten' = forgotten
    BY <1>8 DEF vars
  <2>2. ChannelTypeOK' /\ Fresh' BY <2>1 DEF ChannelInv, ChannelTypeOK, Fresh, Both
  <2>3. Accounts' BY <2>1 DEF ChannelInv, Accounts, Both
  <2>4. Streams' BY <2>1 DEF ChannelInv, Streams, StreamOK, Both
  <2>5. FirstLeft' /\ FirstOver'
    BY <2>1 DEF ChannelInv, FirstLeft, FirstOver, FirstPart, Both
  <2> QED BY <2>2, <2>3, <2>4, <2>5 DEF ChannelInv
<1> QED BY <1>1, <1>2, <1>3, <1>4, <1>5, <1>6, <1>7, <1>8 DEF Next

LEMMA ChannelInvariant == Spec => []ChannelInv
BY InitInv, NextInv, PTL DEF Spec

\* The queues, buffers and counts of the handlers hold what they are declared for
\* (SocketFrameHandler.h), whatever the threads do: no count is ever negative.
THEOREM ChannelTypeCorrect == Spec => []ChannelTypeOK
<1>1. ChannelInv => ChannelTypeOK BY DEF ChannelInv
<1> QED BY <1>1, ChannelInvariant, PTL

\* WriteFrames never subtracts a larger number from m_maxUnAcknowledgedSize, the client's
\* m_bytesWaitingAcknowledge covers what it has on the way, and on the first connection
\* both counts are exact (WriteFrames, ConsumeReadBuffer), for frames, segments,
\* acknowledges and windows of any size.
THEOREM ChannelWindowExact == Spec => []WindowExact
<1>1. ChannelInv => WindowExact BY InvImplies
<1> QED BY <1>1, ChannelInvariant, PTL

\* The client takes the server's frames in the order of their queue, none twice; so does
\* each handler of the server with those of its connection, and none that was queued after
\* one of a later connection, in whatever order the handlers' threads read: for frames and
\* windows of any size and any number of connections (QueueFrame, WriteFrames, ReadFrames,
\* ConsumeReadBuffer, ConsumeFrameBuffer, DisconnectChannel).  On the first connection the
\* frames taken are the first ones queued, without a gap.
THEOREM ChannelFramesInOrder == Spec => []FramesInOrder
<1>1. ChannelInv => FramesInOrder BY InvImplies
<1> QED BY <1>1, ChannelInvariant, PTL
=============================================================================
