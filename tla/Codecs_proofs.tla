--------------------------- MODULE Codecs_proofs ---------------------------
(* Proofs about Codecs, for every packet, policy, frame and request, every   *)
(* size of a byte and every dictionary.                                      *)
(*                                                                           *)
(* The formats are read and written by recursive functions and folds. That   *)
(* such a function exists, and what it gives, is proved by induction over a  *)
(* set of numbers (NatSetInduction): the first number outside would have a   *)
(* predecessor inside.                                                       *)
EXTENDS Codecs, TLAPS, WellFoundedInduction, FiniteSetTheorems

-----------------------------------------------------------------------------
(* Numbers. *)

LEMMA NatSetInduction ==
    ASSUME NEW T, 0 \in T, \A n \in Nat : n \in T => n + 1 \in T
    PROVE  Nat \subseteq T
<1> SUFFICES ASSUME Nat \ T # {} PROVE FALSE
  OBVIOUS
<1>1. PICK x \in Nat \ T : \A y \in Nat \ T : <<y, x>> \notin OpToRel(<, Nat)
  BY NatLessThanWellFounded, WFMin
<1>2. x # 0 /\ x - 1 \in Nat /\ x - 1 < x /\ (x - 1) + 1 = x
  OBVIOUS
<1>3. <<x - 1, x>> \in OpToRel(<, Nat)
  BY <1>2 DEF OpToRel
<1> QED
  BY <1>1, <1>2, <1>3

LEMMA LeastExists ==
    ASSUME NEW S \in SUBSET Nat, S # {}
    PROVE  \E x \in S : \A y \in S : x <= y
<1>1. PICK x \in S : \A y \in S : <<y, x>> \notin OpToRel(<, Nat)
  BY NatLessThanWellFounded, WFMin
<1>2. \A y \in S : ~(y < x)
  BY <1>1 DEF OpToRel
<1> QED
  BY <1>2

-----------------------------------------------------------------------------
(* What is sent comes from the input. *)

CodecInv ==
    /\ input.kind \in {"padi", "padr"} => input.data.packet \in Packets
    /\ input.kind = "padi" =>
          /\ input.data.policy \in Policies
          /\ output \in {None, Pado(ParseTags(input.data.packet), input.data.policy, Cookie)}
    /\ input.kind = "padr" => output \in {None, Pads(ParseTags(input.data.packet))}
    /\ input.kind = "frame" => input.data \in Frames
    /\ input.kind = "request" => /\ input.data \in Requests
                                /\ output \in {None, SerializeAvps(Attributes(input.data))}

LEMMA CodecInit == Init => CodecInv
<1> SUFFICES ASSUME Init PROVE CodecInv
  OBVIOUS
<1>0. output = None
  BY DEF Init
<1>1. ASSUME NEW packet \in Packets, NEW policy \in Policies,
             input = Case("padi", [packet |-> packet, policy |-> policy])
      PROVE  CodecInv
  BY <1>0, <1>1 DEF CodecInv, Case
<1>2. ASSUME NEW packet \in Packets, input = Case("padr", [packet |-> packet])
      PROVE  CodecInv
  BY <1>0, <1>2 DEF CodecInv, Case
<1>3. ASSUME NEW tags \in Frames, input = Case("frame", tags)
      PROVE  CodecInv
  BY <1>3 DEF CodecInv, Case
<1>4. ASSUME NEW request \in Requests, input = Case("request", request)
      PROVE  CodecInv
  BY <1>0, <1>4 DEF CodecInv, Case
<1> QED
  BY <1>1, <1>2, <1>3, <1>4 DEF Init

LEMMA CodecStep == CodecInv /\ [Next]_vars => CodecInv'
<1> SUFFICES ASSUME CodecInv, [Next]_vars PROVE CodecInv'
  OBVIOUS
<1>1. UNCHANGED input
  BY DEF Next, vars
<1>2. input.kind = "padi" =>
         output' \in {None, Pado(ParseTags(input.data.packet), input.data.policy, Cookie)}
  BY DEF CodecInv, Next, vars, ProcessPadi, ProcessPadr, ProcessFrame, SendRequest
<1>3. input.kind = "padr" => output' \in {None, Pads(ParseTags(input.data.packet))}
  BY DEF CodecInv, Next, vars, ProcessPadi, ProcessPadr, ProcessFrame, SendRequest
<1>4. input.kind = "request" => output' \in {None, SerializeAvps(Attributes(input.data))}
  BY DEF CodecInv, Next, vars, ProcessPadi, ProcessPadr, ProcessFrame, SendRequest
<1> QED
  BY <1>1, <1>2, <1>3, <1>4 DEF CodecInv

-----------------------------------------------------------------------------
(* Frames. *)

LEMMA LineOfOne ==
    ASSUME NEW tags \in Seq(Nat), Len(tags) <= 1
    PROVE  /\ Line(tags).outer = (IF tags = <<>> THEN 0 ELSE tags[1])
           /\ Line(tags).inner = 0
           /\ tags # <<>> => tags = <<tags[1]>>
<1>1. CASE tags = <<>>
  BY <1>1 DEF Line, InFrame, Aux
<1>2. CASE tags # <<>>
  <2>1. Len(tags) = 1 /\ Tail(tags) = <<>> /\ Head(tags) = tags[1]
    <3>2. Len(tags) = 1
      BY <1>2
    <3>3. Tail(tags) = <<>>
      <4>1. Tail(tags) \in Seq(Nat) /\ Len(Tail(tags)) = 0
        BY <1>2, <3>2
      <4> QED
        BY <4>1
    <3>4. Head(tags) = tags[1]
      BY <1>2
    <3> QED
      BY <3>2, <3>3, <3>4
  <2>2. tags = <<tags[1]>>
    <3>1. tags = [i \in 1..1 |-> tags[1]]
      BY <2>1
    <3>2. <<tags[1]>> = [i \in 1..1 |-> tags[1]]
      OBVIOUS
    <3> QED
      BY <3>1, <3>2
  <2>3. Aux(tags) = tags[1] /\ InFrame(tags) = <<>>
    BY <1>2, <2>1 DEF InFrame, Aux
  <2>4. Line(tags) = [outer |-> tags[1], inner |-> 0]
    BY <2>3 DEF Line
  <2> QED
    BY <1>2, <2>2, <2>4
<1> QED
  BY <1>1, <1>2

LEMMA OneTagGoesBack ==
    ASSUME NEW tags \in Seq(Nat), Len(tags) <= 1
    PROVE  GoesBack(tags)
<1>1. CASE tags = <<>>
  <2>1. Untagged(tags) = <<>>
    BY <1>1 DEF Untagged
  <2> QED
    BY <1>1, <2>1, LineOfOne DEF GoesBack, HasGap, Header
<1>2. CASE tags # <<>>
  <2>1. tags = <<tags[1]>> /\ tags[1] \in Nat
    BY <1>2, LineOfOne
  <2>2. Untagged(tags) = IF tags[1] = 0 THEN <<>> ELSE tags
    BY <2>1 DEF Untagged
  <2> QED
    BY <1>2, <2>1, <2>2, LineOfOne DEF GoesBack, HasGap, Header
<1> QED
  BY <1>1, <1>2

LEMMA OneLineOneTag ==
    ASSUME NEW s \in Seq(Nat), Len(s) <= 1, NEW t \in Seq(Nat), Len(t) <= 1, Line(s) = Line(t)
    PROVE  Untagged(s) = Untagged(t)
BY OneTagGoesBack DEF GoesBack

\* The answer to a frame with one VLAN tag or none carries what the frame had, and
\* frames with other tags are of another line (encapsulation_t, parsePacket).
THEOREM AnswersGoBack == Spec => []AnswerGoesBack
<1>1. CodecInv => AnswerGoesBack
  <2> SUFFICES ASSUME CodecInv, input.kind = "frame", Len(input.data) <= 1
               PROVE  /\ GoesBack(input.data)
                      /\ \A tags \in Frames : Len(tags) <= 1 /\ Line(tags) = Line(input.data)
                                   => Untagged(tags) = Untagged(input.data)
    BY DEF AnswerGoesBack
  <2>1. input.data \in Seq(Nat)
    BY FrameAssumption DEF CodecInv
  <2> QED
    BY <2>1, FrameAssumption, OneTagGoesBack, OneLineOneTag
<1> QED
  BY CodecInit, CodecStep, <1>1, PTL DEF Spec

-----------------------------------------------------------------------------
(* The size of an answer. *)

LEMMA MaxOfTop ==
    ASSUME NEW n \in Nat, NEW s \in SUBSET (1..(n + 1)), n + 1 \in s
    PROVE  Max(s) = n + 1
<1>1. \A y \in s : n + 1 >= y /\ (y >= n + 1 => y = n + 1)
  OBVIOUS
<1>2. \A x \in s : (\A y \in s : x >= y) <=> x = n + 1
  BY <1>1
<1> QED
  BY <1>1, <1>2 DEF Max

LEMMA MaxIn ==
    ASSUME NEW n \in Nat, NEW s \in SUBSET (1..n), s # {}
    PROVE  Max(s) \in s
<1> DEFINE T == {m \in Nat : \A t \in SUBSET (1..m) : t # {} => \E x \in t : \A y \in t : x >= y}
<1>1. 0 \in T
  <2>1. 1..0 = {}
    OBVIOUS
  <2> QED
    BY <2>1
<1>2. ASSUME NEW m \in Nat, m \in T PROVE m + 1 \in T
  <2> SUFFICES ASSUME NEW t \in SUBSET (1..(m + 1)), t # {} PROVE \E x \in t : \A y \in t : x >= y
    OBVIOUS
  <2>1. CASE m + 1 \in t
    BY <2>1
  <2>2. CASE m + 1 \notin t
    <3>1. t \in SUBSET (1..m)
      BY <2>2
    <3> QED
      BY <1>2, <3>1
  <2> QED
    BY <2>1, <2>2
<1> HIDE DEF T
<1>3. n \in T
  BY <1>1, <1>2, NatSetInduction
<1> QED
  BY <1>3 DEF T, Max

\* f sums up sizes over sets of places.
Sums(f, sizes, n) ==
    f = [s \in SUBSET (1..n) |-> IF s = {} THEN 0 ELSE f[s \ {Max(s)}] + sizes[Max(s)]]

LEMMA SumExists ==
    ASSUME NEW sizes, NEW n \in Nat
    PROVE  \E f : Sums(f, sizes, n)
<1> DEFINE T == {m \in Nat : \E f : Sums(f, sizes, m)}
<1>1. 0 \in T
  <2>1. SUBSET (1..0) = {{}}
    OBVIOUS
  <2>2. Sums([s \in {{}} |-> 0], sizes, 0)
    BY <2>1 DEF Sums
  <2> QED
    BY <2>2
<1>2. ASSUME NEW m \in Nat, m \in T PROVE m + 1 \in T
  <2>1. PICK f : Sums(f, sizes, m)
    BY <1>2
  <2> DEFINE g == [s \in SUBSET (1..(m + 1)) |->
                      IF m + 1 \in s THEN f[s \ {m + 1}] + sizes[m + 1] ELSE f[s]]
  <2>2. ASSUME NEW s \in SUBSET (1..(m + 1))
        PROVE  g[s] = IF s = {} THEN 0 ELSE g[s \ {Max(s)}] + sizes[Max(s)]
    <3>1. CASE m + 1 \in s
      <4>1. Max(s) = m + 1
        BY <3>1, MaxOfTop
      <4>2. g[s \ {m + 1}] = f[s \ {m + 1}]
        OBVIOUS
      <4> QED
        BY <3>1, <4>1, <4>2
    <3>2. CASE m + 1 \notin s
      <4>1. s \in SUBSET (1..m) /\ g[s] = f[s]
        BY <3>2
      <4>2. f[s] = IF s = {} THEN 0 ELSE f[s \ {Max(s)}] + sizes[Max(s)]
        BY <2>1, <4>1 DEF Sums
      <4>3. g[s \ {Max(s)}] = f[s \ {Max(s)}]
        BY <3>2
      <4> QED
        BY <4>1, <4>2, <4>3
    <3> QED
      BY <3>1, <3>2
  <2>3. Sums(g, sizes, m + 1)
    <3>1. g = [s \in SUBSET (1..(m + 1)) |-> g[s]]
      OBVIOUS
    <3> HIDE DEF g
    <3> QED
      BY <2>2, <3>1 DEF Sums
  <2> QED
    BY <2>3
<1> HIDE DEF T
<1>3. n \in T
  BY <1>1, <1>2, NatSetInduction
<1> QED
  BY <1>3 DEF T

LEMMA SumAdds ==
    ASSUME NEW sizes, NEW n \in Nat, NEW f, Sums(f, sizes, n), NEW m \in Nat, m < n
    PROVE  f[1..0] = 0 /\ f[1..(m + 1)] = f[1..m] + sizes[m + 1]
<1>1. 1..0 = {} /\ {} \in SUBSET (1..n)
  OBVIOUS
<1>2. f[1..0] = 0
  BY <1>1 DEF Sums
<1> DEFINE s == 1..(m + 1)
<1>3. s \ {m + 1} = 1..m
  OBVIOUS
<1>4. m + 1 \in s
  OBVIOUS
<1>5. s \in SUBSET (1..n)
  <2>1. \A i \in 1..(m + 1) : i \in 1..n
    OBVIOUS
  <2> QED
    BY <2>1
<1>6. s \in SUBSET (1..(m + 1))
  OBVIOUS
<1> HIDE DEF s
<1>7. Max(s) = m + 1
  BY <1>4, <1>6, MaxOfTop
<1>8. f[s] = f[1..m] + sizes[m + 1]
  <2>1. s # {}
    BY <1>4
  <2> QED
    BY <1>3, <1>5, <1>7, <2>1 DEF Sums
<1> QED
  BY <1>2, <1>8 DEF s

LEMMA AddBoth ==
    ASSUME NEW a \in Nat, NEW b \in Nat, NEW c \in Nat, NEW d \in Nat, a <= b, c <= d
    PROVE  /\ a + c \in Nat /\ b + d \in Nat /\ a + c <= b + d
           /\ a + c = b + d <=> a = b /\ c = d
OBVIOUS

\* Of two lists of sizes the first is nowhere the larger one: the sums are equal
\* when all sizes are.
LEMMA SumsCompare ==
    \A n \in Nat : \A small, large \in [1..n -> Nat] : (\A i \in 1..n : small[i] <= large[i]) =>
        \A f : Sums(f, small, n) => \A g : Sums(g, large, n) =>
            ((f[1..n] = g[1..n]) <=> (\A i \in 1..n : small[i] = large[i]))
<1> TAKE n \in Nat
<1> TAKE small, large \in [1..n -> Nat]
<1> HAVE \A i \in 1..n : small[i] <= large[i]
<1> TAKE f
<1> HAVE Sums(f, small, n)
<1> TAKE g
<1> HAVE Sums(g, large, n)
<1> DEFINE T == {m \in Nat : m <= n =>
                    /\ f[1..m] \in Nat /\ g[1..m] \in Nat /\ f[1..m] <= g[1..m]
                    /\ f[1..m] = g[1..m] <=> \A i \in 1..m : small[i] = large[i]}
<1>1. 0 \in T
  <2>1. f[1..0] = 0 /\ g[1..0] = 0
    <3>1. 1..0 = {} /\ {} \in SUBSET (1..n)
      OBVIOUS
    <3> QED
      BY <3>1 DEF Sums
  <2>2. \A i \in 1..0 : small[i] = large[i]
    OBVIOUS
  <2> QED
    BY <2>1, <2>2
<1>2. ASSUME NEW m \in Nat, m \in T PROVE m + 1 \in T
  <2> SUFFICES ASSUME m + 1 <= n PROVE m + 1 \in T
    OBVIOUS
  <2>1. /\ f[1..m] \in Nat /\ g[1..m] \in Nat /\ f[1..m] <= g[1..m]
        /\ f[1..m] = g[1..m] <=> \A i \in 1..m : small[i] = large[i]
    BY <1>2
  <2>2. f[1..(m + 1)] = f[1..m] + small[m + 1] /\ g[1..(m + 1)] = g[1..m] + large[m + 1]
    <3> HIDE DEF T
    <3>1. m < n
      OBVIOUS
    <3>2. f[1..(m + 1)] = f[1..m] + small[m + 1]
      BY <3>1, SumAdds
    <3>3. g[1..(m + 1)] = g[1..m] + large[m + 1]
      BY <3>1, SumAdds
    <3> QED
      BY <3>2, <3>3
  <2>3. m + 1 \in 1..n /\ small[m + 1] \in Nat /\ large[m + 1] \in Nat /\ small[m + 1] <= large[m + 1]
    OBVIOUS
  <2>4. (\A i \in 1..(m + 1) : small[i] = large[i]) <=>
           (\A i \in 1..m : small[i] = large[i]) /\ small[m + 1] = large[m + 1]
    OBVIOUS
  <2>5. /\ f[1..(m + 1)] \in Nat /\ g[1..(m + 1)] \in Nat /\ f[1..(m + 1)] <= g[1..(m + 1)]
        /\ f[1..(m + 1)] = g[1..(m + 1)] <=> f[1..m] = g[1..m] /\ small[m + 1] = large[m + 1]
    <3> DEFINE a == f[1..m]
               b == g[1..m]
               c == small[m + 1]
               d == large[m + 1]
    <3>1. a \in Nat /\ b \in Nat /\ c \in Nat /\ d \in Nat /\ a <= b /\ c <= d
      BY <2>1, <2>3
    <3> HIDE DEF a, b, c, d
    <3>2. /\ a + c \in Nat /\ b + d \in Nat /\ a + c <= b + d
          /\ a + c = b + d <=> a = b /\ c = d
      BY ONLY <3>1, AddBoth
    <3>3. f[1..(m + 1)] = a + c /\ g[1..(m + 1)] = b + d
      BY <2>2 DEF a, b, c, d
    <3>4. /\ f[1..(m + 1)] \in Nat /\ g[1..(m + 1)] \in Nat /\ f[1..(m + 1)] <= g[1..(m + 1)]
          /\ f[1..(m + 1)] = g[1..(m + 1)] <=> a = b /\ c = d
      BY ONLY <3>2, <3>3
    <3> QED
      BY ONLY <3>4 DEF a, b, c, d
  <2> QED
    BY <2>1, <2>4, <2>5
<1> HIDE DEF T
<1>3. n \in T
  BY <1>1, <1>2, NatSetInduction
<1> QED
  BY <1>3 DEF T

InsertedSums(f, tags) ==
    f = [s \in SUBSET (DOMAIN tags) |->
            IF s = {} THEN 0 ELSE f[s \ {Max(s)}] + InsertedSize(tags[Max(s)])]

FullSums(f, tags) ==
    f = [s \in SUBSET (DOMAIN tags) |->
            IF s = {} THEN 0 ELSE f[s \ {Max(s)}] + FullSize(tags[Max(s)])]

LEMMA SumsOfTags ==
    ASSUME NEW tags, NEW n \in Nat, DOMAIN tags = 1..n, NEW f
    PROVE  /\ Sums(f, [i \in 1..n |-> InsertedSize(tags[i])], n) <=> InsertedSums(f, tags)
           /\ Sums(f, [i \in 1..n |-> FullSize(tags[i])], n) <=> FullSums(f, tags)
<1>1. \A s \in SUBSET (1..n) : s # {} => Max(s) \in 1..n
  BY MaxIn
<1> DEFINE ins == [i \in 1..n |-> InsertedSize(tags[i])]
           full == [i \in 1..n |-> FullSize(tags[i])]
<1>2. [s \in SUBSET (1..n) |-> IF s = {} THEN 0 ELSE f[s \ {Max(s)}] + ins[Max(s)]] =
      [s \in SUBSET (1..n) |-> IF s = {} THEN 0 ELSE f[s \ {Max(s)}] + InsertedSize(tags[Max(s)])]
  <2>1. \A s \in SUBSET (1..n) : s # {} => ins[Max(s)] = InsertedSize(tags[Max(s)])
    BY <1>1
  <2> HIDE DEF ins
  <2> QED
    BY <2>1
<1>3. [s \in SUBSET (1..n) |-> IF s = {} THEN 0 ELSE f[s \ {Max(s)}] + full[Max(s)]] =
      [s \in SUBSET (1..n) |-> IF s = {} THEN 0 ELSE f[s \ {Max(s)}] + FullSize(tags[Max(s)])]
  <2>1. \A s \in SUBSET (1..n) : s # {} => full[Max(s)] = FullSize(tags[Max(s)])
    BY <1>1
  <2> HIDE DEF full
  <2> QED
    BY <2>1
<1> HIDE DEF ins, full
<1>4. Sums(f, ins, n) <=> InsertedSums(f, tags)
  BY <1>2, Zenon DEF Sums, InsertedSums
<1>5. Sums(f, full, n) <=> FullSums(f, tags)
  BY <1>3, Zenon DEF Sums, FullSums
<1> QED
  BY <1>4, <1>5 DEF ins, full

LEMMA InAByte ==
    ASSUME NEW size \in Nat
    PROVE  /\ size % Byte \in Nat /\ size % Byte <= size
           /\ size % Byte = size <=> size < Byte
BY ByteAssumption

\* The length field of an answer is right when, and only when, no tag is too long.
LEMMA IntactMeansShort ==
    ASSUME NEW tags, NEW n \in Nat, DOMAIN tags = 1..n,
           \A i \in 1..n : Size(tags[i].value) \in Nat
    PROVE  Intact(tags) <=> Short(tags)
<1> DEFINE ins == [i \in 1..n |-> InsertedSize(tags[i])]
           full == [i \in 1..n |-> FullSize(tags[i])]
           f == CHOOSE h : InsertedSums(h, tags)
           g == CHOOSE h : FullSums(h, tags)
<1>1. Sums(f, ins, n) /\ Sums(g, full, n)
  <2>1. (\E h : Sums(h, ins, n)) /\ (\E h : Sums(h, full, n))
    BY SumExists
  <2>2. (\E h : InsertedSums(h, tags)) /\ (\E h : FullSums(h, tags))
    BY <2>1, SumsOfTags
  <2>3. InsertedSums(f, tags) /\ FullSums(g, tags)
    BY <2>2
  <2> HIDE DEF f, g
  <2> QED
    BY <2>3, SumsOfTags
<1>2. TagLen(tags) = f[1..n]
  BY Zenon DEF TagLen, FoldLeft, MapThenFoldSet, InsertedSums
<1>3. FoldLeft(LAMBDA sum, tag : sum + FullSize(tag), 0, tags) = g[1..n]
  BY Zenon DEF FoldLeft, MapThenFoldSet, FullSums
<1> HIDE DEF f, g
<1>4. ASSUME NEW i \in 1..n
      PROVE  /\ full[i] \in Nat /\ ins[i] \in Nat /\ ins[i] <= full[i]
             /\ ins[i] = full[i] <=> FullSize(tags[i]) < Byte
  <2>1. FullSize(tags[i]) \in Nat
    BY DEF FullSize, HeaderSize
  <2> QED
    BY <2>1, InAByte DEF InsertedSize
<1>5. ins \in [1..n -> Nat] /\ full \in [1..n -> Nat]
  BY <1>4
<1> HIDE DEF ins, full
<1>6. f[1..n] = g[1..n] <=> \A i \in 1..n : ins[i] = full[i]
  <2>1. \A i \in 1..n : ins[i] <= full[i]
    BY <1>4
  <2> QED
    <3>2. \A x : Sums(x, ins, n) => \A y : Sums(y, full, n) =>
             ((x[1..n] = y[1..n]) <=> (\A i \in 1..n : ins[i] = full[i]))
      BY <1>5, <2>1, SumsCompare
    <3> QED
      BY ONLY <1>1, <3>2
<1>7. Intact(tags) <=> f[1..n] = g[1..n]
  BY <1>2, <1>3, Zenon DEF Intact
<1> QED
  BY <1>4, <1>6, <1>7 DEF Short

-----------------------------------------------------------------------------
(* The tags of an answer. *)

\* s has the tags of S, each once, and of one type one.
Lists(s, S) ==
    /\ s \in Seq(S)
    /\ S = {s[i] : i \in DOMAIN s}
    /\ \A i, j \in DOMAIN s : i < j => s[i].type # s[j].type

LEMMA ListsNothing == Lists(<<>>, {})
<1>1. <<>> \in Seq({}) /\ DOMAIN <<>> = {}
  OBVIOUS
<1> QED
  BY <1>1 DEF Lists

LEMMA ListsOne == ASSUME NEW tag PROVE Lists(<<tag>>, {tag})
<1>1. <<tag>> \in Seq({tag}) /\ DOMAIN <<tag>> = {1} /\ <<tag>>[1] = tag
  OBVIOUS
<1>2. {<<tag>>[i] : i \in DOMAIN <<tag>>} = {tag}
  BY <1>1
<1>3. \A i, j \in DOMAIN <<tag>> : ~(i < j)
  BY <1>1
<1> QED
  BY <1>1, <1>2, <1>3 DEF Lists

LEMMA ListsBoth ==
    ASSUME NEW s, NEW S, Lists(s, S), NEW t, NEW T, Lists(t, T),
           \A x \in S, y \in T : x.type # y.type
    PROVE  Lists(s \o t, S \cup T)
<1> DEFINE both == s \o t
           m == Len(s)
           n == Len(t)
<1>1. /\ m \in Nat /\ n \in Nat /\ DOMAIN s = 1..m /\ DOMAIN t = 1..n
      /\ s \in Seq(S \cup T) /\ t \in Seq(S \cup T)
  BY DEF Lists
<1>2. /\ both \in Seq(S \cup T) /\ DOMAIN both = 1..(m + n)
      /\ \A i \in 1..(m + n) : both[i] = IF i <= m THEN s[i] ELSE t[i - m]
  BY <1>1
<1>3. /\ \A i \in 1..m : i \in 1..(m + n) /\ i <= m /\ s[i] \in S
      /\ \A i \in 1..n : i + m \in 1..(m + n) /\ ~(i + m <= m) /\ (i + m) - m = i /\ t[i] \in T
      /\ \A i \in 1..(m + n) : ~(i <= m) => i - m \in 1..n
      /\ \A i \in 1..(m + n) : i <= m => i \in 1..m
  BY <1>1 DEF Lists
<1> HIDE DEF both, m, n
<1>4. S \cup T = {both[i] : i \in DOMAIN both}
  <2>1. ASSUME NEW x \in S PROVE x \in {both[i] : i \in DOMAIN both}
    <3>1. PICK i \in 1..m : x = s[i]
      BY <1>1 DEF Lists
    <3>2. both[i] = x /\ i \in DOMAIN both
      BY <1>2, <1>3, <3>1
    <3> QED
      BY <3>2
  <2>2. ASSUME NEW x \in T PROVE x \in {both[i] : i \in DOMAIN both}
    <3>1. PICK i \in 1..n : x = t[i]
      BY <1>1 DEF Lists
    <3>2. both[i + m] = x /\ i + m \in DOMAIN both
      BY <1>2, <1>3, <3>1
    <3> QED
      BY <3>2
  <2>3. ASSUME NEW i \in DOMAIN both PROVE both[i] \in S \cup T
    BY <1>2, <1>3
  <2> QED
    BY <2>1, <2>2, <2>3
<1>5. ASSUME NEW i \in DOMAIN both, NEW j \in DOMAIN both, i < j
      PROVE  both[i].type # both[j].type
  <2>1. CASE j <= m
    <3>1. i <= m
      BY <1>1, <1>2, <1>5, <2>1
    <3>2. i \in DOMAIN s /\ j \in DOMAIN s /\ both[i] = s[i] /\ both[j] = s[j]
      BY <1>1, <1>2, <1>3, <2>1, <3>1
    <3> QED
      BY <1>5, <3>2 DEF Lists
  <2>2. CASE ~(i <= m)
    <3>1. ~(j <= m)
      BY <1>1, <1>2, <1>5, <2>2
    <3>2. i - m \in DOMAIN t /\ j - m \in DOMAIN t /\ both[i] = t[i - m] /\ both[j] = t[j - m]
      BY <1>1, <1>2, <1>3, <2>2, <3>1
    <3>3. i - m < j - m
      BY <1>1, <1>2, <1>5
    <3> QED
      BY <3>2, <3>3 DEF Lists
  <2>3. CASE i <= m /\ ~(j <= m)
    BY <1>1, <1>2, <1>3, <2>3
  <2> QED
    BY <2>1, <2>2, <2>3
<1>6. Lists(both, S \cup T)
  BY <1>2, <1>4, <1>5 DEF Lists
<1> QED
  BY <1>6 DEF both

\* What insertTag() wrote, parseTags() reads.
LEMMA ParsesBack ==
    ASSUME NEW s, NEW S, Lists(s, S), \A x \in S : x.type # "END_OF_LIST"
    PROVE  /\ ~ParseFails(s)
           /\ DOMAIN ParseTags(s) = {x.type : x \in S}
           /\ \A x \in S : ParseTags(s)[x.type] = x.value
<1>0. DOMAIN s = 1..Len(s) /\ \A i \in DOMAIN s : s[i] \in S
  BY DEF Lists
<1>1. UpToEnd(s) = s
  <2>1. {i \in 1..Len(s) : s[i].type = "END_OF_LIST"} = {}
    BY <1>0
  <2>2. SelectInSeq(s, LAMBDA tag : tag.type = "END_OF_LIST") = 0
    BY <2>1, Zenon DEF SelectInSeq
  <2> QED
    BY <2>2, Zenon DEF UpToEnd
<1>2. ~ParseFails(s)
  BY <1>1 DEF ParseFails, Repeats, Lists
<1>3. ParseTags(s) = [type \in {s[i].type : i \in DOMAIN s} |->
                         (CHOOSE tag \in ToSet(s) : tag.type = type).value]
  BY <1>1 DEF ParseTags
<1>4. ToSet(s) = S /\ {s[i].type : i \in DOMAIN s} = {x.type : x \in S}
  BY DEF Lists, ToSet
<1>5. ASSUME NEW x \in S, NEW y \in S, x.type = y.type PROVE x = y
  <2>1. PICK i \in DOMAIN s, j \in DOMAIN s : x = s[i] /\ y = s[j]
    BY DEF Lists
  <2>2. ~(i < j) /\ ~(j < i)
    BY <1>5, <2>1 DEF Lists
  <2>3. i = j
    BY <1>0, <2>2
  <2> QED
    BY <2>1, <2>3
<1>6. ASSUME NEW x \in S PROVE ParseTags(s)[x.type] = x.value
  <2>1. (CHOOSE tag \in ToSet(s) : tag.type = x.type) = x
    BY <1>4, <1>5
  <2>2. x.type \in {s[i].type : i \in DOMAIN s}
    BY <1>4
  <2>3. ParseTags(s)[x.type] = (CHOOSE tag \in ToSet(s) : tag.type = x.type).value
    BY <1>3, <2>2
  <2> QED
    BY <2>1, <2>3
<1> QED
  BY <1>2, <1>3, <1>4, <1>6

\* The tags Echo() gives.
EchoOf(type, tags) == IF type \in DOMAIN tags THEN {Tag(type, tags[type])} ELSE {}

LEMMA ListsEcho == ASSUME NEW type, NEW tags PROVE Lists(Echo(type, tags), EchoOf(type, tags))
BY ListsNothing, ListsOne DEF Echo, EchoOf

LEMMA EchoOfType ==
    ASSUME NEW type, NEW tags, NEW x \in EchoOf(type, tags)
    PROVE  x = Tag(type, tags[type]) /\ x.type = type /\ x.value = tags[type] /\ type \in DOMAIN tags
BY DEF EchoOf, Tag

\* An answer with what Echo() gives for both types of a subscriber's own tags,
\* and others of other types.
LEMMA EchoesBoth ==
    ASSUME NEW answer, NEW tags, NEW More,
           Lists(answer, More \cup EchoOf("HOST_UNIQ", tags) \cup EchoOf("SERVICE_NAME", tags)),
           \A x \in More : x.type \notin {"HOST_UNIQ", "SERVICE_NAME", "END_OF_LIST"},
           \A x \in More : Size(x.value) \in Nat,
           \A type \in DOMAIN tags : Size(tags[type]) \in Nat
    PROVE  IF Short(answer) THEN Echoes(answer, tags) ELSE ~Intact(answer)
<1> DEFINE S == More \cup EchoOf("HOST_UNIQ", tags) \cup EchoOf("SERVICE_NAME", tags)
<1>1. \A x \in S : x.type # "END_OF_LIST"
  BY EchoOfType
<1>2. \A x \in S : Size(x.value) \in Nat
  BY EchoOfType
<1>3. ASSUME NEW type \in {"HOST_UNIQ", "SERVICE_NAME"}
      PROVE  Echo(type, ParseTags(answer)) = Echo(type, tags)
  <2>1. type \in DOMAIN ParseTags(answer) <=> \E x \in S : x.type = type
    <3>1. Lists(answer, S)
      OBVIOUS
    <3> HIDE DEF S
    <3>2. DOMAIN ParseTags(answer) = {x.type : x \in S}
      BY <1>1, <3>1, ParsesBack
    <3> QED
      BY <3>2
  <2>2. CASE type \in DOMAIN tags
    <3>1. Tag(type, tags[type]) \in S
      BY <2>2 DEF EchoOf
    <3>2. Tag(type, tags[type]).type = type /\ Tag(type, tags[type]).value = tags[type]
      BY DEF Tag
    <3>3. type \in DOMAIN ParseTags(answer) /\ ParseTags(answer)[type] = tags[type]
      BY <1>1, <2>1, <3>1, <3>2, ParsesBack
    <3> QED
      BY <2>2, <3>3 DEF Echo
  <2>3. CASE type \notin DOMAIN tags
    <3>1. \A x \in S : x.type # type
      BY <2>3, EchoOfType
    <3> QED
      BY <2>1, <2>3, <3>1 DEF Echo
  <2> QED
    BY <2>2, <2>3
<1>4. ~ParseFails(answer)
  BY <1>1, ParsesBack
<1> HIDE DEF S
<1>5. Intact(answer) <=> Short(answer)
  <2>1. Lists(answer, S)
    BY DEF S
  <2>2. Len(answer) \in Nat /\ DOMAIN answer = 1..Len(answer) /\ \A i \in 1..Len(answer) : answer[i] \in S
    BY <2>1 DEF Lists
  <2> QED
    BY <1>2, <2>2, IntactMeansShort
<1> QED
  BY <1>3, <1>4, <1>5 DEF Echoes

\* What a subscriber sent has a size.
LEMMA TagsHaveSizes ==
    ASSUME NEW packet \in Packets, NEW type \in DOMAIN ParseTags(packet)
    PROVE  Size(ParseTags(packet)[type]) \in Nat
<1> DEFINE read == UpToEnd(packet)
           I == {i \in 1..Len(packet) : packet[i].type = "END_OF_LIST"}
           end == SelectInSeq(packet, LAMBDA tag : tag.type = "END_OF_LIST")
<1>1. packet \in Seq([type : STRING, value : Values])
  BY PacketAssumption
<1>2. Len(packet) \in Nat /\ DOMAIN packet = 1..Len(packet) /\ \A i \in DOMAIN packet : packet[i].value \in Values
  <2> DEFINE Tags == [type : STRING, value : Values]
  <2>1. \A tag \in Tags : tag.value \in Values
    OBVIOUS
  <2>2. packet \in Seq(Tags)
    BY <1>1
  <2> HIDE DEF Tags
  <2>3. Len(packet) \in Nat /\ DOMAIN packet = 1..Len(packet) /\ \A i \in DOMAIN packet : packet[i] \in Tags
    BY <2>2
  <2> QED
    BY <2>1, <2>3
<1>3. end = IF I # {} THEN Min(I) ELSE 0
  BY Zenon DEF SelectInSeq
<1>4. I # {} => Min(I) \in I
  <2> SUFFICES ASSUME I # {} PROVE \E x \in I : \A y \in I : x <= y
    BY DEF Min
  <2>1. I \subseteq Nat
    BY <1>2
  <2> HIDE DEF I
  <2>2. PICK x \in I : \A y \in I : <<y, x>> \notin OpToRel(<, Nat)
    BY <2>1, NatLessThanWellFounded, WFMin
  <2>3. \A y \in I : ~(y < x)
    BY <2>1, <2>2, Zenon DEF OpToRel
  <2> QED
    BY <2>1, <2>3
<1>5. \A i \in DOMAIN read : read[i].value \in Values
  <2>1. read = IF end = 0 THEN packet ELSE SubSeq(packet, 1, end - 1)
    BY Zenon DEF UpToEnd
  <2>2. end \in 0..Len(packet)
    BY <1>2, <1>3, <1>4
  <2> HIDE DEF end, read
  <2>3. CASE end = 0
    BY <1>2, <2>1, <2>3
  <2>4. CASE end # 0
    <3>1. DOMAIN read = 1..(end - 1) /\ \A i \in 1..(end - 1) : read[i] = packet[i]
      BY <1>1, <1>2, <2>1, <2>2, <2>4
    <3>2. \A i \in 1..(end - 1) : i \in DOMAIN packet
      BY <1>2, <2>2
    <3> QED
      BY <1>2, <3>1, <3>2
  <2> QED
    BY <2>3, <2>4
<1>6. type \in {read[i].type : i \in DOMAIN read}
  BY DEF ParseTags
<1>7. ParseTags(packet)[type] = (CHOOSE tag \in ToSet(read) : tag.type = type).value
  BY <1>6 DEF ParseTags
<1> HIDE DEF read
<1>8. \E i \in DOMAIN read : read[i].type = type
  BY <1>6
<1>9. (CHOOSE tag \in ToSet(read) : tag.type = type) \in ToSet(read)
  BY <1>8 DEF ToSet
<1>10. \A x \in ToSet(read) : x.value \in Values
  BY <1>5 DEF ToSet
<1> QED
  BY <1>7, <1>9, <1>10, SizeAssumption

LEMMA PadoEchoes ==
    ASSUME NEW packet \in Packets, NEW policy \in Policies
    PROVE  LET tags   == ParseTags(packet)
               answer == Pado(tags, policy, Cookie)
           IN  IF Short(answer) THEN Echoes(answer, tags) ELSE ~Intact(answer)
<1> DEFINE tags == ParseTags(packet)
           name == Tag("AC_NAME", policy.ac_name)
           Hosts == EchoOf("HOST_UNIQ", tags)
           Asked == EchoOf("SERVICE_NAME", tags)
           last == IF policy.insert_cookie THEN <<Tag("AC_COOKIE", Cookie)>> ELSE <<>>
           Last1 == IF policy.insert_cookie THEN {Tag("AC_COOKIE", Cookie)} ELSE {}
           host == Echo("HOST_UNIQ", tags)
           service == Echo("SERVICE_NAME", tags)
<1>1. Lists(<<name>>, {name}) /\ Lists(host, Hosts) /\ Lists(service, Asked) /\ Lists(last, Last1)
  BY ListsNothing, ListsOne, ListsEcho
<1>2. /\ name.type = "AC_NAME" /\ name.value = policy.ac_name
      /\ \A x \in Hosts : x.type = "HOST_UNIQ"
      /\ \A x \in Asked : x.type = "SERVICE_NAME"
      /\ \A x \in Last1 : x.type = "AC_COOKIE" /\ x.value = Cookie
  BY EchoOfType DEF Tag
<1>3. \A type \in DOMAIN tags : Size(tags[type]) \in Nat
  BY TagsHaveSizes
<1>4. Size(policy.ac_name) \in Nat /\ Size(Cookie) \in Nat
  BY PolicyAssumption, SizeAssumption
<1>5. Pado(tags, policy, Cookie) = ((<<name>> \o host) \o service) \o last
  BY DEF Pado
<1> HIDE DEF tags, name, host, service, last, Hosts, Asked, Last1
<1>6. Lists(<<name>> \o host, {name} \cup Hosts)
  BY <1>1, <1>2, ListsBoth
<1>7. Lists((<<name>> \o host) \o service, {name} \cup Hosts \cup Asked)
  BY <1>1, <1>2, <1>6, ListsBoth
<1>8. Lists(((<<name>> \o host) \o service) \o last, {name} \cup Hosts \cup Asked \cup Last1)
  BY <1>1, <1>2, <1>7, ListsBoth
<1>9. {name} \cup Hosts \cup Asked \cup Last1 = ({name} \cup Last1) \cup Hosts \cup Asked
  OBVIOUS
<1>10. Lists(Pado(tags, policy, Cookie), ({name} \cup Last1) \cup Hosts \cup Asked)
  BY <1>5, <1>8, <1>9
<1> DEFINE More == {name} \cup Last1
<1>11. /\ \A x \in More : x.type \notin {"HOST_UNIQ", "SERVICE_NAME", "END_OF_LIST"}
       /\ \A x \in More : Size(x.value) \in Nat
  BY <1>2, <1>4
<1> HIDE DEF More
<1>12. Lists(Pado(tags, policy, Cookie), More \cup EchoOf("HOST_UNIQ", tags) \cup EchoOf("SERVICE_NAME", tags))
  BY <1>10 DEF More, Hosts, Asked
<1>13. IF Short(Pado(tags, policy, Cookie)) THEN Echoes(Pado(tags, policy, Cookie), tags)
       ELSE ~Intact(Pado(tags, policy, Cookie))
  BY <1>3, <1>11, <1>12, EchoesBoth
<1> QED
  BY <1>13 DEF tags

LEMMA PadsEchoes ==
    ASSUME NEW packet \in Packets
    PROVE  LET tags   == ParseTags(packet)
               answer == Pads(tags)
           IN  IF Short(answer) THEN Echoes(answer, tags) ELSE ~Intact(answer)
<1> DEFINE tags == ParseTags(packet)
           Hosts == EchoOf("HOST_UNIQ", tags)
           Asked == EchoOf("SERVICE_NAME", tags)
<1>1. Lists(Pads(tags), Asked \cup Hosts)
  <2>1. \A x \in Asked, y \in Hosts : x.type # y.type
    BY EchoOfType
  <2> HIDE DEF Asked, Hosts
  <2>2. Lists(Echo("SERVICE_NAME", tags), Asked) /\ Lists(Echo("HOST_UNIQ", tags), Hosts)
    BY ListsEcho DEF Asked, Hosts
  <2> QED
    BY <2>1, <2>2, ListsBoth DEF Pads
<1>2. \A type \in DOMAIN tags : Size(tags[type]) \in Nat
  BY TagsHaveSizes
<1>3. Asked \cup Hosts = {} \cup EchoOf("HOST_UNIQ", tags) \cup EchoOf("SERVICE_NAME", tags)
  OBVIOUS
<1> HIDE DEF tags, Hosts, Asked
<1> DEFINE More == {}
<1>6. (\A x \in More : x.type \notin {"HOST_UNIQ", "SERVICE_NAME", "END_OF_LIST"}) /\ (\A x \in More : Size(x.value) \in Nat)
  OBVIOUS
<1>4. Lists(Pads(tags), More \cup EchoOf("HOST_UNIQ", tags) \cup EchoOf("SERVICE_NAME", tags))
  BY <1>1, <1>3
<1>5. IF Short(Pads(tags)) THEN Echoes(Pads(tags), tags) ELSE ~Intact(Pads(tags))
  <2> HIDE DEF More
  <2> QED
    BY <1>2, <1>4, <1>6, EchoesBoth
<1> QED
  BY <1>5 DEF tags

\* A PADO or PADS is read by the subscriber as the answer to what it sent, or has
\* a tag longer than its 8-bit size and a length field that is wrong
\* (process_padi, process_padr, insertTag).
THEOREM EveryAnswerEchoes == Spec => []AnswersEcho
<1>1. CodecInv => AnswersEcho
  <2> SUFFICES ASSUME CodecInv, input.kind \in {"padi", "padr"}, output # None
               PROVE  IF Short(output) THEN Echoes(output, ParseTags(input.data.packet)) ELSE ~Intact(output)
    BY DEF AnswersEcho
  <2>1. CASE input.kind = "padi"
    <3>1. output = Pado(ParseTags(input.data.packet), input.data.policy, Cookie)
      BY <2>1 DEF CodecInv
    <3> QED
      BY <2>1, <3>1, PadoEchoes DEF CodecInv
  <2>2. CASE input.kind = "padr"
    <3>1. output = Pads(ParseTags(input.data.packet))
      BY <2>2 DEF CodecInv
    <3> QED
      BY <2>2, <3>1, PadsEchoes DEF CodecInv
  <2> QED
    BY <2>1, <2>2
<1> QED
  BY CodecInit, CodecStep, <1>1, PTL DEF Spec

-----------------------------------------------------------------------------
(* The attributes of a request, in the order they are sent. *)

Below(m) == {k \in Nat : k < m}

LEMMA IncreasingExists ==
    ASSUME NEW m \in Nat, NEW S \in SUBSET Below(m)
    PROVE  /\ IsFiniteSet(S)
           /\ \E s \in [1..Cardinality(S) -> S] : \A i, j \in 1..Cardinality(S) : i < j => s[i] < s[j]
<1> DEFINE Listed(A) == /\ IsFiniteSet(A)
                        /\ \E s \in [1..Cardinality(A) -> A] :
                              \A i, j \in 1..Cardinality(A) : i < j => s[i] < s[j]
           T == {n \in Nat : \A A \in SUBSET Below(n) : Listed(A)}
<1>1. 0 \in T
  <2>1. Below(0) = {}
    BY DEF Below
  <2>2. IsFiniteSet({}) /\ Cardinality({}) = 0
    BY FS_EmptySet
  <2>3. 1..0 = {} /\ [i \in {} |-> 0] \in [{} -> {}]
    OBVIOUS
  <2>4. Listed({})
    BY <2>2, <2>3
  <2> QED
    BY <2>1, <2>4
<1>2. ASSUME NEW n \in Nat, n \in T PROVE n + 1 \in T
  <2> SUFFICES ASSUME NEW A \in SUBSET Below(n + 1) PROVE Listed(A)
    OBVIOUS
  <2>1. A \ {n} \in SUBSET Below(n)
    BY DEF Below
  <2>2. Listed(A \ {n})
    BY <1>2, <2>1
  <2>3. CASE n \notin A
    <3>1. A \ {n} = A
      BY <2>3
    <3> QED
      BY <2>2, <3>1
  <2>4. CASE n \in A
    <3> DEFINE B == A \ {n}
               c == Cardinality(B)
    <3>1. IsFiniteSet(B) /\ n \notin B /\ B \cup {n} = A
      BY <2>2, <2>4
    <3>2. PICK s \in [1..c -> B] : \A i, j \in 1..c : i < j => s[i] < s[j]
      BY <2>2
    <3>3. \A x \in B : x \in Nat /\ x < n
      BY <2>1 DEF Below
    <3> HIDE DEF B
    <3>4. c \in Nat /\ IsFiniteSet(A) /\ Cardinality(A) = c + 1
      BY <3>1, FS_AddElement, FS_CardinalityType
    <3> HIDE DEF c
    <3> DEFINE t == [i \in 1..(c + 1) |-> IF i = c + 1 THEN n ELSE s[i]]
    <3>5. \A i \in 1..(c + 1) : i # c + 1 => i \in 1..c
      BY <3>4
    <3>6. t \in [1..(c + 1) -> A]
      BY <3>1, <3>2, <3>5
    <3>7. ASSUME NEW i \in 1..(c + 1), NEW j \in 1..(c + 1), i < j PROVE t[i] < t[j]
      <4>1. i # c + 1
        BY <3>4, <3>7
      <4>2. t[i] = s[i] /\ i \in 1..c
        BY <3>5, <4>1
      <4>3. CASE j = c + 1
        BY <3>2, <3>3, <4>2, <4>3
      <4>4. CASE j # c + 1
        <5>1. t[j] = s[j] /\ j \in 1..c
          BY <3>5, <4>4
        <5> QED
          BY <3>2, <3>7, <4>2, <5>1
      <4> QED
        BY <4>3, <4>4
    <3> HIDE DEF t
    <3> QED
      BY <3>4, <3>6, <3>7
  <2> QED
    BY <2>3, <2>4
<1> HIDE DEF T
<1>3. m \in T
  BY <1>1, <1>2, NatSetInduction
<1> QED
  BY <1>3 DEF T

Enumerates(s, S) ==
    /\ Cardinality(S) \in Nat
    /\ DOMAIN s = 1..Cardinality(S)
    /\ S = {s[i] : i \in DOMAIN s}

\* A std::set gives each of its elements once.
LEMMA IncreasingLists ==
    ASSUME NEW m \in Nat, NEW S \in SUBSET Below(m)
    PROVE  Enumerates(Increasing(S), S)
<1> DEFINE n == Cardinality(S)
           Smaller(x) == {y \in S : y < x}
<1>1. IsFiniteSet(S) /\ n \in Nat /\ \A x \in S : x \in Nat
  BY IncreasingExists, FS_CardinalityType DEF Below
<1>2. PICK t \in [1..n -> S] : \A i, j \in 1..n : i < j => t[i] < t[j]
  BY IncreasingExists
<1> HIDE DEF n
<1>3. \A i, j \in 1..n : t[i] = t[j] => i = j
  BY <1>1, <1>2
<1>4. \A x \in S : \E i \in 1..n : t[i] = x
  <2>1. t \in Injection(1..n, S)
    BY <1>2, <1>3 DEF Injection, IsInjective
  <2>2. IsFiniteSet(1..n) /\ Cardinality(1..n) = Cardinality(S)
    BY <1>1, FS_Interval DEF n
  <2>3. t \in Surjection(1..n, S)
    BY <1>1, <2>1, <2>2, FS_Injection
  <2> QED
    BY <2>3 DEF Surjection
<1>5. ASSUME NEW i \in 1..n PROVE Cardinality(Smaller(t[i])) = i - 1
  <2> DEFINE before == [j \in 1..(i - 1) |-> t[j]]
  <2>1. \A j \in 1..(i - 1) : j \in 1..n /\ j < i
    BY <1>1
  <2>2. before \in [1..(i - 1) -> Smaller(t[i])]
    BY <1>2, <2>1
  <2>3. \A x \in Smaller(t[i]) : \E j \in 1..(i - 1) : before[j] = x
    <3> TAKE x \in Smaller(t[i])
    <3>1. PICK j \in 1..n : t[j] = x
      BY <1>4
    <3>2. t[j] < t[i] /\ t[j] \in Nat /\ t[i] \in Nat
      BY <1>1, <1>2, <3>1
    <3>3. j # i /\ ~(i < j)
      BY <1>2, <3>2
    <3>4. j \in 1..(i - 1)
      BY <1>1, <3>3
    <3> QED
      BY <3>1, <3>4
  <2>4. \A j, k \in 1..(i - 1) : before[j] = before[k] => j = k
    BY <1>3, <2>1
  <2> HIDE DEF before, Smaller
  <2>5. before \in Bijection(1..(i - 1), Smaller(t[i]))
    BY <2>2, <2>3, <2>4 DEF Bijection, Injection, Surjection, IsInjective
  <2>6. IsFiniteSet(1..(i - 1)) /\ Cardinality(1..(i - 1)) = i - 1
    BY <1>1, FS_Interval
  <2> QED
    BY <2>5, <2>6, FS_Bijection DEF ExistsBijection
<1>6. ASSUME NEW i \in 1..n PROVE Increasing(S)[i] = t[i]
  <2>1. t[i] \in S /\ Cardinality(Smaller(t[i])) = i - 1
    BY <1>2, <1>5
  <2>2. \A x \in S : Cardinality(Smaller(x)) = i - 1 => x = t[i]
    <3> TAKE x \in S
    <3>1. PICK k \in 1..n : t[k] = x
      BY <1>4
    <3>2. Cardinality(Smaller(x)) = k - 1
      BY <1>5, <3>1
    <3> HIDE DEF Smaller
    <3> QED
      BY <1>1, <3>1, <3>2
  <2>3. Increasing(S)[i] = CHOOSE x \in S : Cardinality(Smaller(x)) = i - 1
    BY DEF Increasing, n
  <2> HIDE DEF Smaller
  <2> QED
    BY <2>1, <2>2, <2>3
<1>7. DOMAIN Increasing(S) = 1..n
  BY DEF Increasing, n
<1>8. S = {Increasing(S)[i] : i \in 1..n}
  BY <1>2, <1>4, <1>6
<1> QED
  BY <1>1, <1>7, <1>8 DEF n, Enumerates

\* The attributes as they were given.
AvpsOf(attributes) == [i \in DOMAIN attributes |-> Avp(attributes[i])]

\* Of each number the set has the first attribute.
LEMMA SetHasKept ==
    ASSUME NEW attributes, NEW n \in Nat, DOMAIN attributes = 1..n, NEW m \in Nat,
           \A i \in 1..n : Avp(attributes[i]).type = IdByName(attributes[i].name),
           \A i \in 1..n : Avp(attributes[i]).type \in Below(m)
    PROVE  \E c \in Nat :
              /\ DOMAIN AsSet(attributes) = 1..c
              /\ {AsSet(attributes)[i] : i \in 1..c} = {Avp(attribute) : attribute \in Kept(attributes)}
<1> DEFINE avps == AvpsOf(attributes)
           First(type) == avps[SelectInSeq(avps, LAMBDA avp : avp.type = type)]
           S == {avps[i].type : i \in DOMAIN avps}
           types == Increasing(S)
           Same(k) == {i \in 1..n : avps[i].type = avps[k].type}
           heads == {k \in 1..n : \A i \in Same(k) : k <= i}
<1>1. DOMAIN avps = 1..n /\ Len(avps) = n /\ \A i \in 1..n : avps[i] = Avp(attributes[i])
  BY DEF AvpsOf
<1>2. AsSet(attributes) = [i \in DOMAIN types |-> First(types[i])]
  BY Zenon DEF AsSet, AvpsOf
<1>3. ASSUME NEW k \in 1..n
      PROVE  \E h \in heads : avps[h].type = avps[k].type /\ First(avps[k].type) = avps[h]
  <2> DEFINE I == {i \in 1..Len(avps) : avps[i].type = avps[k].type}
  <2>1. SelectInSeq(avps, LAMBDA avp : avp.type = avps[k].type) = IF I # {} THEN Min(I) ELSE 0
    BY Zenon DEF SelectInSeq
  <2>2. I = Same(k) /\ k \in I /\ I \in SUBSET Nat
    BY <1>1
  <2>3. Min(I) \in I /\ \A i \in I : Min(I) <= i
    <3> HIDE DEF I
    <3>1. \E x \in I : \A y \in I : x <= y
      BY <2>2, LeastExists
    <3> QED
      BY <3>1 DEF Min
  <2>4. Min(I) \in heads /\ avps[Min(I)].type = avps[k].type
    BY <2>2, <2>3
  <2>5. SelectInSeq(avps, LAMBDA avp : avp.type = avps[k].type) = Min(I)
    <3> HIDE DEF I
    <3> QED
      BY <2>1, <2>2
  <2> QED
    BY <2>4, <2>5, Zenon
<1> HIDE DEF First
<1>4. S = {avps[i].type : i \in 1..n} /\ S \in SUBSET Below(m)
  BY <1>1
<1>5. {Avp(attribute) : attribute \in Kept(attributes)} = {avps[h] : h \in heads}
  <2>1. Kept(attributes) = {attributes[h] : h \in heads}
    <3>1. \A i, j \in 1..n : /\ ~(i <= j) <=> j < i
                             /\ avps[j].type = avps[i].type
                                   <=> IdByName(attributes[j].name) = IdByName(attributes[i].name)
      BY <1>1
    <3>2. heads = {i \in 1..n : \A j \in 1..n :
                       j < i => IdByName(attributes[j].name) # IdByName(attributes[i].name)}
      BY <3>1
    <3> HIDE DEF heads
    <3> QED
      BY <3>2 DEF Kept
  <2>2. \A h \in heads : avps[h] = Avp(attributes[h])
    BY <1>1
  <2> HIDE DEF heads, avps
  <2> QED
    BY <2>1, <2>2
<1> HIDE DEF avps, S, types
<1>6. /\ Cardinality(S) \in Nat
      /\ DOMAIN types = 1..Cardinality(S)
      /\ S = {types[i] : i \in DOMAIN types}
  <2>1. Enumerates(types, S)
    BY <1>4, IncreasingLists DEF types
  <2> QED
    BY <2>1 DEF Enumerates
<1>7. {First(types[i]) : i \in DOMAIN types} = {avps[h] : h \in heads}
  <2>1. ASSUME NEW i \in DOMAIN types PROVE First(types[i]) \in {avps[h] : h \in heads}
    <3>1. PICK k \in 1..n : types[i] = avps[k].type
      BY <1>4, <1>6
    <3> QED
      BY <1>3, <3>1
  <2>2. ASSUME NEW h \in heads PROVE avps[h] \in {First(types[i]) : i \in DOMAIN types}
    <3>0. h \in 1..n
      OBVIOUS
    <3> HIDE DEF heads
    <3>1. PICK i \in DOMAIN types : types[i] = avps[h].type
      <4>1. avps[h].type \in S
        BY <1>4, <3>0
      <4> QED
        BY <1>6, <4>1
    <3>2. PICK k \in heads : avps[k].type = avps[h].type /\ First(avps[h].type) = avps[k]
      BY <1>3, <3>0
    <3>3. k = h
      <4>1. k \in Same(h) /\ h \in Same(k)
        BY <3>2 DEF heads
      <4>2. k \in 1..n /\ h \in 1..n /\ k <= h /\ h <= k
        BY <4>1 DEF heads
      <4> QED
        BY <4>2
    <3> QED
      BY <3>1, <3>2, <3>3
  <2> HIDE DEF heads
  <2> QED
    BY <2>1, <2>2
<1> DEFINE set == AsSet(attributes)
           c == Cardinality(S)
<1>8. DOMAIN set = 1..c /\ \A i \in 1..c : set[i] = First(types[i])
  BY <1>2, <1>6
<1> HIDE DEF set, c, heads
<1>9. {set[i] : i \in 1..c} = {Avp(attribute) : attribute \in Kept(attributes)}
  <2>1. DOMAIN types = 1..c
    BY <1>6 DEF c
  <2>2. {set[i] : i \in 1..c} = {First(types[i]) : i \in 1..c}
    BY <1>8
  <2> QED
    BY <1>5, <1>7, <2>1, <2>2
<1> QED
  BY <1>6, <1>8, <1>9 DEF set, c

-----------------------------------------------------------------------------
(* The bytes of a request. *)

\* all is the first n of parts one behind the other, the i-th ending at e[i].
Joined(S, all, parts, n, e) ==
    /\ all \in Seq(S) /\ e \in [0..n -> Nat] /\ e[0] = 0 /\ e[n] = Len(all)
    /\ \A i \in 0..(n - 1) : e[i + 1] = e[i] + Len(parts[i + 1])
    /\ \A i \in 0..(n - 1) : \A k \in 1..Len(parts[i + 1]) : all[e[i] + k] = parts[i + 1][k]
    /\ \A i \in 0..n : e[i] <= Len(all)

LEMMA JoinedOne ==
    ASSUME NEW S, NEW parts, parts[1] \in Seq(S)
    PROVE  \E e : Joined(S, parts[1], parts, 1, e)
<1> DEFINE all == parts[1]
           e == [i \in 0..1 |-> IF i = 0 THEN 0 ELSE Len(all)]
<1>1. all \in Seq(S) /\ Len(all) \in Nat
  OBVIOUS
<1>2. e \in [0..1 -> Nat] /\ e[0] = 0 /\ e[1] = Len(all) /\ \A i \in 0..1 : e[i] <= Len(all)
  BY <1>1
<1>3. \A i \in 0..(1 - 1) : i = 0
  OBVIOUS
<1>4. \A k \in 1..Len(all) : e[0] + k = k
  BY <1>1, <1>2
<1> HIDE DEF e
<1>5. Joined(S, all, parts, 1, e)
  <2>1. 0 + 1 = 1 /\ e[1] = e[0] + Len(parts[0 + 1])
    BY <1>1, <1>2
  <2> QED
    BY <1>1, <1>2, <1>3, <1>4, <2>1 DEF Joined
<1> QED
  BY <1>5

LEMMA JoinedMore ==
    ASSUME NEW S, NEW parts, NEW n \in Nat, \A i \in 0..n : parts[i + 1] \in Seq(S),
           NEW all, NEW e, Joined(S, all, parts, n, e)
    PROVE  \E f : Joined(S, all \o parts[n + 1], parts, n + 1, f)
<1> DEFINE part == parts[n + 1]
           whole == all \o part
           f == [i \in 0..(n + 1) |-> IF i = n + 1 THEN Len(whole) ELSE e[i]]
<1>1. /\ all \in Seq(S) /\ part \in Seq(S) /\ e \in [0..n -> Nat] /\ e[0] = 0 /\ e[n] = Len(all)
      /\ \A i \in 0..n : e[i] <= Len(all)
  BY DEF Joined
<1> HIDE DEF part
<1>2. /\ whole \in Seq(S) /\ Len(whole) = Len(all) + Len(part)
      /\ Len(all) \in Nat /\ Len(part) \in Nat
      /\ \A k \in 1..Len(all) : whole[k] = all[k]
      /\ \A k \in 1..Len(part) : whole[Len(all) + k] = part[k]
  BY <1>1
<1> HIDE DEF whole
<1>3. \A i \in 0..(n + 1) : i # n + 1 => i \in 0..n
  OBVIOUS
<1>4. f \in [0..(n + 1) -> Nat] /\ f[0] = 0 /\ f[n + 1] = Len(whole) /\ \A i \in 0..n : f[i] = e[i]
  BY <1>1, <1>2, <1>3
<1> HIDE DEF f
<1>5. ASSUME NEW i \in 0..n
      PROVE  /\ f[i + 1] = f[i] + Len(parts[i + 1])
             /\ \A k \in 1..Len(parts[i + 1]) : whole[f[i] + k] = parts[i + 1][k]
  <2>1. CASE i = n
    BY <1>1, <1>2, <1>4, <2>1 DEF part
  <2>2. CASE i # n
    <3>1. i \in 0..(n - 1) /\ i + 1 \in 0..n
      BY <2>2
    <3>2. /\ f[i + 1] = e[i + 1] /\ f[i] = e[i] /\ e[i] \in Nat /\ e[i + 1] \in Nat
          /\ e[i + 1] = e[i] + Len(parts[i + 1]) /\ e[i + 1] <= Len(all)
          /\ \A k \in 1..Len(parts[i + 1]) : all[e[i] + k] = parts[i + 1][k]
      BY <1>1, <1>4, <3>1 DEF Joined
    <3>3. ASSUME NEW k \in 1..Len(parts[i + 1])
          PROVE  whole[f[i] + k] = parts[i + 1][k]
      <4> DEFINE size == Len(parts[i + 1])
                 place == e[i] + k
      <4>1. parts[i + 1] \in Seq(S)
        OBVIOUS
      <4>2. size \in Nat /\ k \in Nat /\ 1 <= k /\ k <= size
        BY <4>1
      <4>3. e[i] + size <= Len(all)
        BY <3>2
      <4>4. place \in 1..Len(all)
        <5>1. e[i] \in Nat /\ Len(all) \in Nat
          BY <1>2, <3>2
        <5> HIDE DEF size
        <5> QED
          BY ONLY <4>2, <4>3, <5>1
      <4>5. whole[place] = all[place]
        BY <1>2, <4>4
      <4> QED
        BY <3>2, <4>5
    <3> QED
      BY <3>2, <3>3
  <2> QED
    BY <2>1, <2>2
<1>6. ASSUME NEW i \in 0..(n + 1) PROVE f[i] <= Len(whole)
  <2>1. CASE i = n + 1
    BY <1>2, <1>4, <2>1
  <2>2. CASE i # n + 1
    <3>1. f[i] = e[i] /\ e[i] \in Nat /\ e[i] <= Len(all)
      BY <1>1, <1>3, <1>4, <2>2
    <3> QED
      BY <1>2, <3>1
  <2> QED
    BY <2>1, <2>2
<1>7. (n + 1) - 1 = n
  OBVIOUS
<1>8. Joined(S, whole, parts, n + 1, f)
  BY <1>2, <1>4, <1>5, <1>6, <1>7 DEF Joined
<1> QED
  BY <1>8 DEF whole, part

\* FlattenSeq's function.
Flattens(g, parts, n) == g = [i \in 1..n |-> IF i = 1 THEN parts[i] ELSE g[i - 1] \o parts[i]]

LEMMA FlattensExists ==
    ASSUME NEW parts, NEW n \in Nat
    PROVE  \E g : Flattens(g, parts, n)
<1> DEFINE T == {m \in Nat : \E g : Flattens(g, parts, m)}
<1>1. 0 \in T
  <2>1. 1..0 = {}
    OBVIOUS
  <2>2. Flattens([i \in {} |-> 0], parts, 0)
    BY <2>1 DEF Flattens
  <2> QED
    BY <2>2
<1>2. ASSUME NEW m \in Nat, m \in T PROVE m + 1 \in T
  <2>1. PICK g : Flattens(g, parts, m)
    BY <1>2
  <2> DEFINE h == [i \in 1..(m + 1) |->
                      IF i = m + 1 THEN (IF i = 1 THEN parts[i] ELSE g[i - 1] \o parts[i]) ELSE g[i]]
  <2>2. ASSUME NEW i \in 1..(m + 1) PROVE h[i] = IF i = 1 THEN parts[i] ELSE h[i - 1] \o parts[i]
    <3>1. i # 1 => i - 1 \in 1..m /\ h[i - 1] = g[i - 1]
      OBVIOUS
    <3>2. CASE i = m + 1
      BY <3>1, <3>2
    <3>3. CASE i # m + 1
      <4>1. i \in 1..m /\ h[i] = g[i]
        BY <3>3
      <4>2. g[i] = IF i = 1 THEN parts[i] ELSE g[i - 1] \o parts[i]
        BY <2>1, <4>1 DEF Flattens
      <4> HIDE DEF h
      <4> QED
        BY <3>1, <4>1, <4>2
    <3> QED
      BY <3>2, <3>3
  <2>3. h = [i \in 1..(m + 1) |-> h[i]]
    OBVIOUS
  <2> HIDE DEF h
  <2>4. Flattens(h, parts, m + 1)
    BY <2>2, <2>3 DEF Flattens
  <2> QED
    BY <2>4
<1> HIDE DEF T
<1>3. n \in T
  BY <1>1, <1>2, NatSetInduction
<1> QED
  BY <1>3 DEF T

LEMMA FlattenJoins ==
    ASSUME NEW S, NEW n \in Nat, NEW parts \in [1..n -> Seq(S)]
    PROVE  \E e : Joined(S, FlattenSeq(parts), parts, n, e)
<1>0. Len(parts) = n /\ parts \in Seq(Seq(S)) /\ DOMAIN parts = 1..n
  OBVIOUS
<1>1. CASE n = 0
  <2>1. FlattenSeq(parts) = parts
    BY <1>0, <1>1 DEF FlattenSeq
  <2>2. parts \in Seq(S) /\ Len(parts) = 0
    BY <1>0, <1>1
  <2> DEFINE e == [i \in 0..0 |-> 0]
  <2>3. e \in [0..0 -> Nat] /\ e[0] = 0 /\ 0..(0 - 1) = {} /\ \A i \in 0..0 : e[i] = 0
    OBVIOUS
  <2> HIDE DEF e
  <2>4. Joined(S, parts, parts, 0, e)
    BY <2>2, <2>3 DEF Joined
  <2> QED
    BY <1>1, <2>1, <2>4
<1>2. CASE n # 0
  <2> DEFINE g == CHOOSE h : Flattens(h, parts, n)
  <2>1. Flattens(g, parts, n)
    BY FlattensExists
  <2>2. FlattenSeq(parts) = g[n]
    BY <1>0, <1>2, Zenon DEF FlattenSeq, Flattens
  <2> HIDE DEF g
  <2>3. g[1] = parts[1] /\ \A i \in 1..n : i # 1 => g[i] = g[i - 1] \o parts[i]
    <3>1. \A i \in 1..n : g[i] = IF i = 1 THEN parts[i] ELSE g[i - 1] \o parts[i]
      BY <2>1, Zenon DEF Flattens
    <3>2. 1 \in 1..n
      BY <1>2
    <3> QED
      BY <3>1, <3>2, Zenon
  <2> DEFINE T == {m \in Nat : m < n => \E e : Joined(S, g[m + 1], parts, m + 1, e)}
  <2>4. 0 \in T
    <3>1. parts[1] \in Seq(S)
      BY <1>2
    <3>2. \E e : Joined(S, g[1], parts, 1, e)
      BY <2>3, <3>1, JoinedOne
    <3> QED
      BY <3>2
  <2>5. ASSUME NEW m \in Nat, m \in T PROVE m + 1 \in T
    <3> SUFFICES ASSUME m + 1 < n PROVE \E e : Joined(S, g[(m + 1) + 1], parts, (m + 1) + 1, e)
      OBVIOUS
    <3> DEFINE k == m + 1
    <3>1. PICK e : Joined(S, g[k], parts, k, e)
      BY <2>5
    <3>2. k \in Nat /\ k + 1 \in 1..n /\ k + 1 # 1 /\ (k + 1) - 1 = k
      OBVIOUS
    <3> HIDE DEF k
    <3>3. g[k + 1] = g[k] \o parts[k + 1] /\ parts[k + 1] \in Seq(S)
      BY <2>3, <3>2
    <3>4. \A i \in 0..k : parts[i + 1] \in Seq(S)
      BY <3>2
    <3>5. \E f : Joined(S, g[k + 1], parts, k + 1, f)
      BY <3>1, <3>2, <3>3, <3>4, JoinedMore
    <3> QED
      BY <3>5 DEF k
  <2> HIDE DEF T
  <2>6. n - 1 \in T
    <3>1. Nat \subseteq T
      BY <2>4, <2>5, NatSetInduction
    <3> QED
      BY <1>2, <3>1
  <2>7. n - 1 < n /\ (n - 1) + 1 = n
    OBVIOUS
  <2> QED
    BY <2>2, <2>6, <2>7 DEF T
<1> QED
  BY <1>1, <1>2

-----------------------------------------------------------------------------
(* What parseAVP() reads. *)

NextAt(memory, i) == i + memory[i + 1]

AvpAt(memory, i) == [type |-> memory[i], value |-> SubSeq(memory, i + 2, NextAt(memory, i) - 1)]

GivesUp(memory, L, i) == i >= L \/ memory[i + 1] < 2

\* ParseAvps' function for a packet of length L, on some of its places.
Reads(f, memory, L, places) ==
    f = [i \in places |->
            IF GivesUp(memory, L, i) THEN <<>>
            ELSE <<AvpAt(memory, i)>>
                 \o (IF NextAt(memory, i) > L + 1 THEN <<>> ELSE f[NextAt(memory, i)])]

LEMMA NextIsLater ==
    ASSUME NEW L \in Nat, NEW memory \in Seq(Nat), L <= Len(memory),
           NEW i \in 1..(L + 1), ~GivesUp(memory, L, i)
    PROVE  NextAt(memory, i) \in Nat /\ NextAt(memory, i) >= i + 2 /\ i < L
<1>1. i + 1 \in 1..Len(memory) /\ i < L /\ memory[i + 1] \in Nat
  BY DEF GivesUp
<1> QED
  BY <1>1 DEF GivesUp, NextAt

LEMMA ReadsExists ==
    ASSUME NEW L \in Nat, NEW memory \in Seq(Nat), L <= Len(memory)
    PROVE  \E f : Reads(f, memory, L, 1..(L + 1))
<1> DEFINE Places(m) == {i \in 1..(L + 1) : i + m > L + 1}
           T == {m \in Nat : \E f : Reads(f, memory, L, Places(m))}
<1>1. 0 \in T
  <2>1. Places(0) = {}
    OBVIOUS
  <2>2. Reads([i \in {} |-> 0], memory, L, Places(0))
    BY <2>1 DEF Reads
  <2> QED
    BY <2>2
<1>2. ASSUME NEW m \in Nat, m \in T PROVE m + 1 \in T
  <2>1. PICK f : Reads(f, memory, L, Places(m))
    BY <1>2
  <2> DEFINE Body(h, i) ==
                IF GivesUp(memory, L, i) THEN <<>>
                ELSE <<AvpAt(memory, i)>>
                     \o (IF NextAt(memory, i) > L + 1 THEN <<>> ELSE h[NextAt(memory, i)])
             g == [i \in Places(m + 1) |-> IF i \in Places(m) THEN f[i] ELSE Body(f, i)]
  <2>2. \A i \in Places(m) : f[i] = Body(f, i)
    BY <2>1, Zenon DEF Reads
  <2>3. ASSUME NEW i \in Places(m + 1), ~GivesUp(memory, L, i), ~(NextAt(memory, i) > L + 1)
        PROVE  NextAt(memory, i) \in Places(m + 1) /\ NextAt(memory, i) \in Places(m)
    <3> DEFINE next == NextAt(memory, i)
    <3>1. i \in Nat /\ i >= 1 /\ i + (m + 1) > L + 1
      OBVIOUS
    <3>2. next \in Nat /\ next >= i + 2 /\ next <= L + 1
      BY <2>3, NextIsLater
    <3> HIDE DEF next
    <3>3. next \in 1..(L + 1) /\ next + m > L + 1 /\ next + (m + 1) > L + 1
      BY <3>1, <3>2
    <3> QED
      BY <3>3 DEF next
  <2>4. \A i \in Places(m) : i \in Places(m + 1)
    OBVIOUS
  <2> HIDE DEF Places
  <2>5. ASSUME NEW i \in Places(m + 1) PROVE g[i] = Body(g, i)
    <3>1. g[i] = Body(f, i)
      BY <2>2
    <3>2. ~GivesUp(memory, L, i) /\ ~(NextAt(memory, i) > L + 1)
             => g[NextAt(memory, i)] = f[NextAt(memory, i)]
      BY <2>3
    <3> HIDE DEF g
    <3> QED
      BY <3>1, <3>2
  <2>6. g = [i \in Places(m + 1) |-> g[i]]
    OBVIOUS
  <2> HIDE DEF g
  <2>7. g = [i \in Places(m + 1) |-> Body(g, i)]
    BY <2>5, <2>6
  <2>8. Reads(g, memory, L, Places(m + 1))
    BY <2>7, Zenon DEF Reads
  <2> QED
    BY <2>8
<1>3. L + 1 \in T
  <2> HIDE DEF T
  <2>1. Nat \subseteq T
    BY <1>1, <1>2, NatSetInduction
  <2> QED
    BY <2>1
<1>4. Places(L + 1) = 1..(L + 1)
  OBVIOUS
<1> QED
  BY <1>3, <1>4

\* What is read at a place of the packet.
ReadAt(bytes, beyond, i) ==
    (CHOOSE f : Reads(f, bytes \o beyond, Len(bytes), 1..(Len(bytes) + 1)))[i]

LEMMA ReadFrom ==
    ASSUME NEW bytes \in Seq(Nat), NEW beyond \in Seq(Nat)
    PROVE  LET memory == bytes \o beyond
               L == Len(bytes)
           IN  /\ ParseAvps(bytes, beyond) = ReadAt(bytes, beyond, 1)
               /\ \A i \in 1..(L + 1) :
                     ReadAt(bytes, beyond, i) =
                        IF GivesUp(memory, L, i) THEN <<>>
                        ELSE <<AvpAt(memory, i)>>
                             \o (IF NextAt(memory, i) > L + 1 THEN <<>>
                                 ELSE ReadAt(bytes, beyond, NextAt(memory, i)))
<1> DEFINE memory == bytes \o beyond
           L == Len(bytes)
           At == CHOOSE f : Reads(f, memory, L, 1..(L + 1))
<1>1. memory \in Seq(Nat) /\ L \in Nat /\ L <= Len(memory)
  OBVIOUS
<1>2. ParseAvps(bytes, beyond) = At[1]
  BY Zenon DEF ParseAvps, Reads, GivesUp, AvpAt, NextAt
<1>3. \A i : ReadAt(bytes, beyond, i) = At[i]
  BY Zenon DEF ReadAt
<1> HIDE DEF memory, L
<1>4. Reads(At, memory, L, 1..(L + 1))
  BY <1>1, ReadsExists
<1> HIDE DEF At
<1>5. \A i \in 1..(L + 1) :
         At[i] = IF GivesUp(memory, L, i) THEN <<>>
                 ELSE <<AvpAt(memory, i)>>
                      \o (IF NextAt(memory, i) > L + 1 THEN <<>> ELSE At[NextAt(memory, i)])
  BY <1>4, Zenon DEF Reads
<1> QED
  BY <1>2, <1>3, <1>5, Zenon DEF memory, L

LEMMA PartOf ==
    ASSUME NEW s \in Seq(Nat), NEW a \in 1..(Len(s) + 1), NEW b \in 0..Len(s), a <= b + 1
    PROVE  /\ SubSeq(s, a, b) \in Seq(Nat) /\ Len(SubSeq(s, a, b)) = b - a + 1
           /\ \A k \in 1..(b - a + 1) : SubSeq(s, a, b)[k] = s[(a + k) - 1]
OBVIOUS

\* One more attribute in front.
LEMMA OneMore ==
    ASSUME NEW S, NEW x \in S, NEW rest \in Seq(S)
    PROVE  <<x>> \o rest \in Seq(S) /\ ToSet(<<x>> \o rest) = {x} \cup ToSet(rest)
<1> DEFINE all == <<x>> \o rest
<1>1. /\ all \in Seq(S) /\ Len(rest) \in Nat /\ DOMAIN all = 1..(1 + Len(rest)) /\ DOMAIN rest = 1..Len(rest)
      /\ all[1] = x /\ \A k \in 1..Len(rest) : all[1 + k] = rest[k]
  OBVIOUS
<1> HIDE DEF all
<1>2. \A k \in 1..(1 + Len(rest)) : k # 1 => k - 1 \in 1..Len(rest) /\ 1 + (k - 1) = k
  BY <1>1
<1>3. 1 \in 1..(1 + Len(rest)) /\ \A k \in 1..Len(rest) : 1 + k \in 1..(1 + Len(rest))
  BY <1>1
<1>4. ASSUME NEW y \in ToSet(all) PROVE y \in {x} \cup ToSet(rest)
  <2>1. PICK k \in 1..(1 + Len(rest)) : y = all[k]
    BY <1>1 DEF ToSet
  <2>2. CASE k = 1
    BY <1>1, <2>1, <2>2
  <2>3. CASE k # 1
    <3>1. k - 1 \in 1..Len(rest) /\ 1 + (k - 1) = k
      BY <1>2, <2>3
    <3>2. y = rest[k - 1] /\ k - 1 \in DOMAIN rest
      BY <1>1, <2>1, <3>1
    <3> QED
      BY <3>2 DEF ToSet
  <2> QED
    BY <2>2, <2>3
<1>5. ASSUME NEW y \in ToSet(rest) PROVE y \in ToSet(all)
  <2>1. PICK k \in 1..Len(rest) : y = rest[k]
    BY <1>1 DEF ToSet
  <2> QED
    BY <1>1, <1>3, <2>1 DEF ToSet
<1>6. x \in ToSet(all)
  BY <1>1, <1>3 DEF ToSet
<1>7. all \in Seq(S) /\ ToSet(all) = {x} \cup ToSet(rest)
  BY <1>1, <1>4, <1>5, <1>6
<1> QED
  BY <1>7 DEF all

LEMMA SeqOfMore ==
    ASSUME NEW S, NEW T, S \subseteq T, NEW s \in Seq(S)
    PROVE  s \in Seq(T)
<1>1. Len(s) \in Nat /\ s \in [1..Len(s) -> S]
  OBVIOUS
<1>2. s \in [1..Len(s) -> T]
  BY <1>1
<1> QED
  BY <1>1, <1>2

LEMMA ItemsOf ==
    ASSUME NEW S, NEW s \in Seq(S)
    PROVE  Len(s) \in Nat /\ \A k \in 1..Len(s) : s[k] \in S
OBVIOUS

LEMMA AtMostOne ==
    ASSUME NEW S, NEW x \in S
    PROVE  <<>> \in Seq(S) /\ <<x>> \in Seq(S)
OBVIOUS

\* A length is a byte, so that no value is read that is longer than a byte allows.
Readable == {avp \in [type : Nat, value : Seq(Nat)] : Len(avp.value) + 2 < Octet}

LEMMA ReadsAreShort ==
    ASSUME NEW bytes \in Bytes, NEW beyond \in Bytes, Len(beyond) >= Octet
    PROVE  \A avp \in ToSet(ParseAvps(bytes, beyond)) : avp \in Readable
<1> DEFINE L == Len(bytes)
           memory == bytes \o beyond
           T == {m \in Nat : \A i \in 1..(L + 1) :
                                i + m > L => ReadAt(bytes, beyond, i) \in Seq(Readable)}
<1>0. /\ bytes \in Seq(Nat) /\ beyond \in Seq(Nat)
      /\ \A n \in 0..(Octet - 1) : n \in Nat /\ n < Octet
      /\ Octet \in Nat
  <2>1. 0..(Octet - 1) \subseteq Nat
    BY OctetAssumption
  <2> HIDE DEF L, memory, T
  <2> QED
    BY <2>1, OctetAssumption, SeqOfMore DEF Bytes
<1>1. /\ L \in Nat /\ memory \in Bytes /\ memory \in Seq(Nat) /\ Len(memory) >= L + Octet
      /\ \A k \in 1..Len(memory) : memory[k] \in Nat /\ memory[k] < Octet
  <2>1. L \in Nat /\ memory \in Bytes /\ memory \in Seq(Nat) /\ Len(memory) = L + Len(beyond)
    BY <1>0 DEF Bytes
  <2>2. Len(beyond) \in Nat
    BY <1>0
  <2> HIDE DEF memory, L
  <2>3. \A k \in 1..Len(memory) : memory[k] \in 0..(Octet - 1)
    BY <2>1, ItemsOf DEF Bytes
  <2> QED
    BY <1>0, <2>1, <2>2, <2>3
<1>2. /\ ParseAvps(bytes, beyond) = ReadAt(bytes, beyond, 1)
      /\ \A i \in 1..(L + 1) :
            ReadAt(bytes, beyond, i) =
               IF GivesUp(memory, L, i) THEN <<>>
               ELSE <<AvpAt(memory, i)>>
                    \o (IF NextAt(memory, i) > L + 1 THEN <<>>
                        ELSE ReadAt(bytes, beyond, NextAt(memory, i)))
  BY <1>0, ReadFrom
<1> HIDE DEF L, memory
<1>3. ASSUME NEW i \in 1..(L + 1), ~GivesUp(memory, L, i) PROVE AvpAt(memory, i) \in Readable
  <2> DEFINE size == memory[i + 1]
             sub == SubSeq(memory, i + 2, NextAt(memory, i) - 1)
  <2>1. /\ i \in Nat /\ i >= 1 /\ i < L /\ i \in 1..Len(memory) /\ i + 1 \in 1..Len(memory)
    BY <1>0, <1>1, <1>3 DEF GivesUp
  <2>2. size \in Nat /\ size < Octet /\ size >= 2 /\ memory[i] \in Nat /\ NextAt(memory, i) = i + size
    BY <1>1, <1>3, <2>1 DEF GivesUp, NextAt
  <2> HIDE DEF size
  <2>3. /\ i + 2 \in 1..(Len(memory) + 1) /\ (i + size) - 1 \in 0..Len(memory)
        /\ i + 2 <= ((i + size) - 1) + 1 /\ (((i + size) - 1) - (i + 2)) + 1 = size - 2
    <3> DEFINE M == Len(memory)
    <3>1. M \in Nat /\ M >= L + Octet /\ L \in Nat /\ Octet \in Nat
      BY <1>0, <1>1, ItemsOf
    <3> HIDE DEF M
    <3>2. /\ i \in Nat /\ i >= 1 /\ i < L /\ size \in Nat /\ size < Octet /\ size >= 2
      BY <2>1, <2>2
    <3>3. /\ i + 2 \in 1..(M + 1) /\ (i + size) - 1 \in 0..M
          /\ i + 2 <= ((i + size) - 1) + 1 /\ (((i + size) - 1) - (i + 2)) + 1 = size - 2
      BY ONLY <3>1, <3>2
    <3> QED
      BY ONLY <3>3 DEF M
  <2>4. sub \in Seq(Nat) /\ Len(sub) = size - 2
    BY <1>1, <2>2, <2>3, PartOf
  <2>5. AvpAt(memory, i) = [type |-> memory[i], value |-> sub]
    BY DEF AvpAt
  <2> HIDE DEF sub
  <2>6. Len(sub) + 2 < Octet
    BY <1>0, <2>2, <2>4
  <2> QED
    BY <2>2, <2>4, <2>5, <2>6 DEF Readable
<1>4. <<>> \in Seq(Readable)
  OBVIOUS
<1>5. 0 \in T
  <2> SUFFICES ASSUME NEW i \in 1..(L + 1), i + 0 > L PROVE ReadAt(bytes, beyond, i) \in Seq(Readable)
    OBVIOUS
  <2>1. GivesUp(memory, L, i)
    BY <1>1 DEF GivesUp
  <2> QED
    BY <1>2, <1>4, <2>1
<1>6. ASSUME NEW m \in Nat, m \in T PROVE m + 1 \in T
  <2> SUFFICES ASSUME NEW i \in 1..(L + 1), i + (m + 1) > L
               PROVE  ReadAt(bytes, beyond, i) \in Seq(Readable)
    OBVIOUS
  <2>1. CASE GivesUp(memory, L, i)
    BY <1>2, <1>4, <2>1
  <2>2. CASE ~GivesUp(memory, L, i)
    <3> DEFINE next == NextAt(memory, i)
               rest == IF next > L + 1 THEN <<>> ELSE ReadAt(bytes, beyond, next)
    <3>1. next \in Nat /\ next >= i + 2
      <4>1. L <= Len(memory)
        BY <1>0, <1>1
      <4> QED
        BY <1>1, <2>2, <4>1, NextIsLater
    <3>2. ~(next > L + 1) => next \in 1..(L + 1) /\ next + m > L
      <4> HIDE DEF next
      <4> QED
        BY <1>1, <3>1
    <3>3. ~(next > L + 1) => ReadAt(bytes, beyond, next) \in Seq(Readable)
      <4> HIDE DEF next
      <4> QED
        BY <1>6, <3>2
    <3>4. rest \in Seq(Readable)
      BY <1>4, <3>3
    <3>5. ReadAt(bytes, beyond, i) = <<AvpAt(memory, i)>> \o rest
      BY <1>2, <2>2
    <3> HIDE DEF rest
    <3> QED
      BY <1>3, <2>2, <3>4, <3>5, OneMore
  <2> QED
    BY <2>1, <2>2
<1>7. ReadAt(bytes, beyond, 1) \in Seq(Readable)
  <2> HIDE DEF T
  <2>1. L \in T
    BY <1>1, <1>5, <1>6, NatSetInduction
  <2> QED
    BY <1>1, <2>1 DEF T
<1> QED
  BY <1>2, <1>7 DEF ToSet

\* Each part is the bytes of an attribute.
Written(types, values, c, parts) ==
    /\ types \in [1..c -> Nat] /\ values \in [1..c -> Seq(Nat)]
    /\ \A i \in 1..c : parts[i] = <<types[i], 2 + Len(values[i])>> \o values[i]

\* The attributes one after the other give back, read from the (i+1)-th on, all
\* but the first i.
LEMMA ReadsJoined ==
    ASSUME NEW c \in Nat, NEW types, NEW values, NEW parts, Written(types, values, c, parts),
           NEW bytes, NEW e, Joined(Nat, bytes, parts, c, e), NEW beyond \in Seq(Nat)
    PROVE  ToSet(ParseAvps(bytes, beyond)) = {[type |-> types[i], value |-> values[i]] : i \in 1..c}
<1> DEFINE L == Len(bytes)
           memory == bytes \o beyond
           avp == [i \in 1..c |-> [type |-> types[i], value |-> values[i]]]
           After(i) == {avp[j] : j \in (i + 1)..c}
           S == {avp[j] : j \in 1..c}
           At == [i \in 1..(L + 1) |-> ReadAt(bytes, beyond, i)]
<1>0. /\ types \in [1..c -> Nat] /\ values \in [1..c -> Seq(Nat)]
      /\ \A i \in 1..c : parts[i] = <<types[i], 2 + Len(values[i])>> \o values[i]
  BY DEF Written
<1>1. /\ bytes \in Seq(Nat) /\ L \in Nat /\ e \in [0..c -> Nat] /\ e[0] = 0 /\ e[c] = L
      /\ \A i \in 0..c : e[i] <= L
  BY DEF Joined
<1>2. /\ ParseAvps(bytes, beyond) = ReadAt(bytes, beyond, 1)
      /\ \A i \in 1..(L + 1) :
            ReadAt(bytes, beyond, i) =
               IF GivesUp(memory, L, i) THEN <<>>
               ELSE <<AvpAt(memory, i)>>
                    \o (IF NextAt(memory, i) > L + 1 THEN <<>>
                        ELSE ReadAt(bytes, beyond, NextAt(memory, i)))
  BY <1>1, ReadFrom
<1>3. memory \in Seq(Nat) /\ Len(memory) >= L /\ \A k \in 1..L : memory[k] = bytes[k]
  BY <1>1
<1> HIDE DEF memory
<1>4. \A i \in 1..(L + 1) :
         /\ At[i] = ReadAt(bytes, beyond, i)
         /\ GivesUp(memory, L, i) => At[i] = <<>>
         /\ ~GivesUp(memory, L, i) /\ NextAt(memory, i) \in 1..(L + 1)
               => At[i] = <<AvpAt(memory, i)>> \o At[NextAt(memory, i)]
  <2> TAKE i \in 1..(L + 1)
  <2>1. At[i] = ReadAt(bytes, beyond, i)
    OBVIOUS
  <2>2. ASSUME NextAt(memory, i) \in 1..(L + 1)
        PROVE  /\ ~(NextAt(memory, i) > L + 1)
               /\ At[NextAt(memory, i)] = ReadAt(bytes, beyond, NextAt(memory, i))
    <3>1. At[NextAt(memory, i)] = ReadAt(bytes, beyond, NextAt(memory, i))
      BY <2>2
    <3> HIDE DEF At
    <3> QED
      BY <1>1, <2>2, <3>1
  <2> HIDE DEF At, L
  <2> QED
    BY <1>2, <2>1, <2>2
<1> HIDE DEF At
<1>5. ASSUME NEW i \in 0..(c - 1)
      PROVE  /\ e[i] + 1 \in 1..(L + 1) /\ ~GivesUp(memory, L, e[i] + 1)
             /\ NextAt(memory, e[i] + 1) = e[i + 1] + 1 /\ e[i + 1] + 1 \in 1..(L + 1)
             /\ AvpAt(memory, e[i] + 1) = avp[i + 1]
  <2> DEFINE value == values[i + 1]
             n == Len(value)
             p == e[i] + 1
             part == parts[i + 1]
  <2>1. i \in 0..c /\ i + 1 \in 0..c /\ i + 1 \in 1..c
    OBVIOUS
  <2>2. value \in Seq(Nat) /\ n \in Nat /\ types[i + 1] \in Nat
    BY <1>0, <2>1
  <2>3. e[i] \in Nat /\ e[i + 1] \in Nat /\ e[i + 1] <= L
    BY <1>1, <2>1
  <2> HIDE DEF value
  <2>4. /\ part = <<types[i + 1], 2 + n>> \o value
    BY <1>0, <2>1 DEF value
  <2>5. /\ Len(part) = 2 + n /\ part[1] = types[i + 1] /\ part[2] = 2 + n
        /\ \A k \in 1..n : part[2 + k] = value[k]
    BY <2>2, <2>4
  <2>6. /\ e[i + 1] = e[i] + Len(part)
        /\ \A k \in 1..Len(part) : bytes[e[i] + k] = part[k]
    BY DEF Joined
  <2> HIDE DEF part, n
  <2>7. e[i + 1] = e[i] + (2 + n)
    BY <2>5, <2>6
  <2>8. bytes[p] = types[i + 1] /\ bytes[p + 1] = 2 + n
    <3>1. 1 \in 1..Len(part) /\ 2 \in 1..Len(part)
      BY <2>2, <2>5
    <3>2. e[i] + 2 = p + 1
      BY <2>3
    <3> QED
      BY <2>5, <2>6, <3>1, <3>2
  <2>9. \A k \in 1..n : bytes[p + (1 + k)] = value[k]
    <3> TAKE k \in 1..n
    <3>1. 2 + k \in 1..Len(part) /\ e[i] + (2 + k) = p + (1 + k)
      <4>1. k \in Nat /\ k >= 1 /\ k <= n
        BY <2>2
      <4>2. p = e[i] + 1 /\ e[i] \in Nat /\ Len(part) = 2 + n
        BY <2>3, <2>5
      <4> DEFINE a == e[i]
                 l == Len(part)
      <4>3. p = a + 1 /\ a \in Nat /\ l = 2 + n
        BY <4>2
      <4> HIDE DEF p, a, l
      <4>4. 2 + k \in 1..l /\ a + (2 + k) = p + (1 + k)
        BY ONLY <2>2, <4>1, <4>3
      <4> QED
        BY ONLY <4>4 DEF a, l
    <3> QED
      BY <2>5, <2>6, <3>1
  <2> HIDE DEF L
  <2>10. p \in 1..(L + 1) /\ ~(p >= L) /\ p \in Nat /\ p + (2 + n) = e[i + 1] + 1 /\ e[i + 1] + 1 <= L + 1
    <3>1. p = e[i] + 1 /\ L \in Nat
      BY <1>1
    <3> DEFINE a == e[i]
               b == e[i + 1]
    <3>2. p = a + 1 /\ a \in Nat /\ b \in Nat /\ b <= L /\ b = a + (2 + n)
      BY <2>3, <2>7
    <3> HIDE DEF p, a, b
    <3>3. p \in 1..(L + 1) /\ ~(p >= L) /\ p \in Nat /\ p + (2 + n) = b + 1 /\ b + 1 <= L + 1
      <4>1. n \in Nat /\ L \in Nat
        BY <2>2, <3>1
      <4>2. p \in Nat
        BY ONLY <3>2
      <4>3. p + (2 + n) = b + 1
        BY ONLY <3>2, <4>1
      <4>4. p + 1 <= b
        BY ONLY <3>2, <4>1
      <4>5. p + 1 <= L
        BY ONLY <3>2, <4>1, <4>2, <4>4
      <4>6. p >= 1
        BY ONLY <3>2
      <4>7. b + 1 <= L + 1
        BY ONLY <3>2, <4>1
      <4>8. p \in 1..(L + 1) /\ ~(p >= L)
        BY ONLY <4>1, <4>2, <4>5, <4>6
      <4> QED
        BY ONLY <4>2, <4>3, <4>7, <4>8
    <3> QED
      BY ONLY <3>3 DEF b
  <2> HIDE DEF p
  <2>11. p \in 1..L /\ p + 1 \in 1..L /\ \A k \in 1..n : p + (1 + k) \in 1..L
    <3>1. L \in Nat /\ n \in Nat /\ e[i + 1] \in Nat
      BY <1>1, <2>2, <2>3
    <3> DEFINE b == e[i + 1]
    <3>2. b \in Nat /\ p + (2 + n) = b + 1 /\ b + 1 <= L + 1
      BY <2>10, <3>1
    <3> HIDE DEF b
    <3> QED
      BY <2>10, <3>1, <3>2
  <2>12. /\ memory[p] = types[i + 1] /\ memory[p + 1] = 2 + n
         /\ \A k \in 1..n : memory[p + (1 + k)] = value[k]
    BY <1>3, <2>8, <2>9, <2>11
  <2>13. NextAt(memory, p) = e[i + 1] + 1 /\ e[i + 1] + 1 \in 1..(L + 1) /\ ~GivesUp(memory, L, p)
    <3>1. NextAt(memory, p) = e[i + 1] + 1
      BY <2>10, <2>12 DEF NextAt
    <3>2. e[i + 1] + 1 \in 1..(L + 1)
      BY <1>1, <2>3
    <3>3. ~(2 + n < 2)
      BY <2>2
    <3> QED
      BY <2>10, <2>12, <3>1, <3>2, <3>3 DEF GivesUp
  <2>14. SubSeq(memory, p + 2, NextAt(memory, p) - 1) = value
    <3>1. NextAt(memory, p) - 1 = (p + 1) + n /\ (p + 1) + n <= L
      BY <1>1, <2>2, <2>3, <2>10, <2>13
    <3> DEFINE sub == SubSeq(memory, p + 2, (p + 1) + n)
    <3>2. sub \in Seq(Nat) /\ Len(sub) = n /\ \A k \in 1..n : sub[k] = memory[p + (1 + k)]
      <4>1. /\ memory \in Seq(Nat) /\ p + 2 \in 1..(Len(memory) + 1) /\ (p + 1) + n \in 0..Len(memory)
            /\ p + 2 <= ((p + 1) + n) + 1
            /\ ((p + 1) + n) - (p + 2) + 1 = n
        <5> DEFINE M == Len(memory)
        <5>1. memory \in Seq(Nat) /\ M \in Nat /\ M >= L /\ L \in Nat /\ n \in Nat
          BY <1>1, <1>3, <2>2, ItemsOf
        <5> HIDE DEF M
        <5>2. p \in Nat /\ p >= 1 /\ (p + 1) + n <= L
          BY <2>10, <3>1
        <5>3. /\ p + 2 \in 1..(M + 1) /\ (p + 1) + n \in 0..M
              /\ p + 2 <= ((p + 1) + n) + 1
              /\ ((p + 1) + n) - (p + 2) + 1 = n
          BY ONLY <5>1, <5>2
        <5> QED
          BY ONLY <5>1, <5>3 DEF M
      <4>2. /\ sub \in Seq(Nat) /\ Len(sub) = n
            /\ \A k \in 1..n : sub[k] = memory[((p + 2) + k) - 1]
        <5> DEFINE a == p + 2
                   b == (p + 1) + n
        <5>1. memory \in Seq(Nat) /\ a \in 1..(Len(memory) + 1) /\ b \in 0..Len(memory) /\ a <= b + 1
          BY <4>1
        <5>2. b - a + 1 = n /\ sub = SubSeq(memory, a, b)
          BY <4>1
        <5> HIDE DEF a, b, sub
        <5>3. sub \in Seq(Nat) /\ Len(sub) = n /\ \A k \in 1..n : sub[k] = memory[(a + k) - 1]
          BY <5>1, <5>2, PartOf
        <5> QED
          BY <5>3 DEF a
      <4>3. \A k \in 1..n : ((p + 2) + k) - 1 = p + (1 + k)
        BY <2>2, <2>10
      <4> QED
        BY <4>2, <4>3
    <3> HIDE DEF sub
    <3>3. Len(sub) = Len(value) /\ \A k \in 1..Len(value) : sub[k] = value[k]
      BY <2>2, <2>12, <3>2 DEF n
    <3>4. sub = value
      <4>1. sub = [k \in 1..Len(sub) |-> sub[k]] /\ value = [k \in 1..Len(value) |-> value[k]]
        BY <2>2, <3>2
      <4> QED
        BY <3>3, <4>1
    <3> QED
      BY <3>1, <3>4 DEF sub
  <2>15. AvpAt(memory, p) = [type |-> types[i + 1], value |-> value]
    BY <2>12, <2>14 DEF AvpAt
  <2> QED
    BY <2>1, <2>10, <2>13, <2>15 DEF p, value
<1> DEFINE Gives(i) == At[e[i] + 1] \in Seq(S) /\ ToSet(At[e[i] + 1]) = After(i)
           T == {m \in Nat : m <= c => Gives(c - m)}
<1>6. 0 \in T
  <2>1. c - 0 = c /\ L + 1 \in 1..(L + 1) /\ L + 1 >= L /\ (c + 1)..c = {}
    BY <1>1
  <2>2. At[e[c] + 1] = <<>>
    BY <1>1, <1>4, <2>1 DEF GivesUp
  <2>3. <<>> \in Seq(S) /\ ToSet(<<>>) = {}
    BY DEF ToSet
  <2> QED
    BY <2>1, <2>2, <2>3
<1>7. ASSUME NEW m \in Nat, m \in T PROVE m + 1 \in T
  <2> HIDE DEF Gives
  <2> SUFFICES ASSUME m + 1 <= c PROVE Gives(c - (m + 1))
    OBVIOUS
  <2> USE DEF Gives
  <2> DEFINE i == c - (m + 1)
             rest == At[e[i + 1] + 1]
             all == At[e[i] + 1]
  <2>1. i \in 0..(c - 1) /\ c - m = i + 1 /\ m <= c
    OBVIOUS
  <2>2. rest \in Seq(S) /\ ToSet(rest) = After(i + 1)
    BY <1>7, <2>1
  <2> HIDE DEF i
  <2>3. all = <<avp[i + 1]>> \o rest
    BY <1>4, <1>5, <2>1
  <2>4. avp[i + 1] \in S
    BY <2>1
  <2> HIDE DEF rest, all, avp, S
  <2>5. all \in Seq(S) /\ ToSet(all) = {avp[i + 1]} \cup ToSet(rest)
    BY <2>2, <2>3, <2>4, OneMore
  <2>6. After(i) = {avp[i + 1]} \cup After(i + 1)
    <3>1. i + 1 \in (i + 1)..c /\ \A j \in (i + 1)..c : j # i + 1 => j \in ((i + 1) + 1)..c
      BY <2>1
    <3>2. \A j \in ((i + 1) + 1)..c : j \in (i + 1)..c
      BY <2>1
    <3> QED
      BY <3>1, <3>2
  <2> QED
    BY <2>2, <2>5, <2>6 DEF i, all
<1>8. c \in T
  <2> HIDE DEF T
  <2>1. Nat \subseteq T
    BY <1>6, <1>7, NatSetInduction
  <2> QED
    BY <2>1
<1>9. ToSet(At[1]) = After(0)
  <2>1. c - c = 0 /\ c <= c /\ 0 + 1 = 1
    OBVIOUS
  <2> HIDE DEF After
  <2> QED
    BY <1>1, <1>8, <2>1
<1>10. After(0) = {[type |-> types[i], value |-> values[i]] : i \in 1..c}
  <2>1. 0 + 1 = 1 /\ \A i \in 1..c : avp[i] = [type |-> types[i], value |-> values[i]]
    OBVIOUS
  <2> HIDE DEF avp
  <2> QED
    BY <2>1
<1>11. ParseAvps(bytes, beyond) = At[1]
  <2>1. 1 \in 1..(L + 1)
    BY <1>1
  <2> QED
    BY <1>2, <1>4, <2>1
<1> QED
  BY <1>9, <1>10, <1>11

-----------------------------------------------------------------------------
(* A request is read as it was given. *)

Names == Fields("pap") \cup Fields("chap") \cup Fields("acct")

Attribute == [name : Names, value : Bytes]

LEMMA WordsAreBytes == ASSUME NEW number \in 0..(Octet - 1) PROVE BE32(number) \in Bytes
<1> DEFINE Octets == 0..(Octet - 1)
<1>1. 0 \in Octets /\ number \in Octets
  BY OctetAssumption
<1> HIDE DEF Octets
<1>2. <<0, 0, 0, number>> \in Seq(Octets)
  BY <1>1
<1> QED
  BY <1>2 DEF BE32, Bytes, Octets

\* One of the texts a request is given.
Good(field, name) ==
    name \in Names /\ field[name] \in Bytes /\ Value(name, field[name]) \in 0..(Octet - 1)

LEMMA TextIs ==
    ASSUME NEW name \in Names, NEW text \in Bytes, Value(name, text) \in 0..(Octet - 1)
    PROVE  Text(name, text) \in Attribute
<1> DEFINE number == Value(name, text)
           sent == IF number = 0 THEN text ELSE BE32(number)
<1>1. sent \in Bytes
  BY WordsAreBytes
<1>2. Text(name, text) = [name |-> name, value |-> sent]
  BY DEF Text, Word
<1> HIDE DEF sent
<1> QED
  BY <1>1, <1>2 DEF Attribute

\* A field that may be left out.
LEMMA FieldIs ==
    ASSUME NEW field, NEW name, Good(field, name)
    PROVE  /\ Text(name, field[name]) \in Attribute /\ Word(name, field[name]) \in Attribute
           /\ Optional(name, field) \in Seq(Attribute) /\ Numbered(name, field) \in Seq(Attribute)
<1> DEFINE text == field[name]
           word == Word(name, BE32(Value(name, text)))
<1>1. Text(name, text) \in Attribute
  BY TextIs DEF Good
<1>2. Word(name, text) \in Attribute /\ word \in Attribute
  BY WordsAreBytes DEF Good, Word, Attribute
<1>3. Optional(name, field) \in {<<>>, <<Text(name, text)>>}
  BY DEF Optional
<1>4. Numbered(name, field) \in {<<>>, <<word>>}
  BY DEF Numbered
<1>5. <<>> \in Seq(Attribute) /\ <<Text(name, text)>> \in Seq(Attribute) /\ <<word>> \in Seq(Attribute)
  BY <1>1, <1>2, AtMostOne
<1> HIDE DEF word
<1> QED
  BY <1>1, <1>2, <1>3, <1>4, <1>5

LEMMA BehindEachOther ==
    ASSUME NEW S, NEW s \in Seq(S), NEW t \in Seq(S)
    PROVE  s \o t \in Seq(S)
OBVIOUS

LEMMA PortIs ==
    ASSUME NEW field, \A name \in PortNames : Good(field, name)
    PROVE  Port(field) \in Seq(Attribute)
<1>1. Good(field, "Calling-Station-Id") /\ Good(field, "NAS-Port-Id")
  BY DEF PortNames
<1>2. Optional("Calling-Station-Id", field) \in Seq(Attribute)
  BY <1>1, FieldIs
<1>3. Optional("NAS-Port-Id", field) \in Seq(Attribute)
  BY <1>1, FieldIs
<1> QED
  BY <1>2, <1>3, BehindEachOther DEF Port

LEMMA ServiceIs ==
    ASSUME NEW field, \A name \in ServiceNames : Good(field, name)
    PROVE  Service(field) \in Seq(Attribute)
<1>1. /\ Good(field, "NAS-Identifier") /\ Good(field, "Framed-Protocol") /\ Good(field, "Service-Type")
      /\ \A name \in PortNames : Good(field, name)
  BY DEF ServiceNames
<1> DEFINE a == Optional("NAS-Identifier", field)
           b == Numbered("Framed-Protocol", field)
           d == Numbered("Service-Type", field)
           port == Port(field)
<1>2. a \in Seq(Attribute)
  BY <1>1, FieldIs
<1>3. b \in Seq(Attribute)
  BY <1>1, FieldIs
<1>4. d \in Seq(Attribute)
  BY <1>1, FieldIs
<1>5. port \in Seq(Attribute)
  BY <1>1, PortIs
<1>6. Service(field) = a \o b \o d \o port
  BY DEF Service
<1> HIDE DEF a, b, d, port
<1> QED
  BY <1>2, <1>3, <1>4, <1>5, <1>6, BehindEachOther

LEMMA AttributesAre ==
    ASSUME NEW request \in Requests
    PROVE  Attributes(request) \in Seq(Attribute)
<1> DEFINE field == request.field
           hidden == Hide(Pad(field["User-Password"]))
<1>1. /\ request.kind \in {"pap", "chap", "acct"}
      /\ \A name \in Fields(request.kind) : Good(field, name)
  <2>1. /\ request.kind \in {"pap", "chap", "acct"}
        /\ \A name \in Fields(request.kind) :
              field[name] \in Bytes /\ Value(name, field[name]) \in 0..(Octet - 1)
    BY RequestAssumption
  <2>2. Fields(request.kind) \subseteq Names
    BY <2>1 DEF Names
  <2> QED
    BY <2>1, <2>2 DEF Good
<1>2. request.kind = "pap" => hidden \in Bytes /\ Value("User-Password", hidden) \in 0..(Octet - 1)
  BY RequestAssumption
<1> HIDE DEF field, hidden
<1>3. CASE request.kind = "pap"
  <2>1. Good(field, "User-Name") /\ Good(field, "User-Password") /\ \A name \in ServiceNames : Good(field, name)
    BY <1>1, <1>3 DEF Fields
  <2> DEFINE first == <<Text("User-Name", field["User-Name"]), Text("User-Password", hidden)>>
  <2>2. Text("User-Name", field["User-Name"]) \in Attribute
    BY <2>1, FieldIs
  <2>3. Text("User-Password", hidden) \in Attribute
    BY <1>2, <1>3, <2>1, TextIs DEF Good
  <2>4. first \in Seq(Attribute)
    BY <2>2, <2>3
  <2>5. Service(field) \in Seq(Attribute)
    BY <2>1, ServiceIs
  <2>6. PapAttributes(field) = first \o Service(field)
    BY DEF PapAttributes, hidden
  <2> HIDE DEF first
  <2>7. PapAttributes(field) \in Seq(Attribute)
    BY <2>4, <2>5, <2>6, BehindEachOther
  <2> QED
    BY <1>3, <2>7 DEF Attributes, field
<1>4. CASE request.kind = "chap"
  <2>1. /\ Good(field, "User-Name") /\ Good(field, "CHAP-Password") /\ Good(field, "CHAP-Challenge")
        /\ \A name \in ServiceNames : Good(field, name)
    BY <1>1, <1>4 DEF Fields
  <2> DEFINE first == <<Text("User-Name", field["User-Name"]),
                        Text("CHAP-Password", field["CHAP-Password"]),
                        Text("CHAP-Challenge", field["CHAP-Challenge"])>>
  <2>2. Text("User-Name", field["User-Name"]) \in Attribute
    BY <2>1, FieldIs
  <2>3. Text("CHAP-Password", field["CHAP-Password"]) \in Attribute
    BY <2>1, FieldIs
  <2>4. Text("CHAP-Challenge", field["CHAP-Challenge"]) \in Attribute
    BY <2>1, FieldIs
  <2>5. first \in Seq(Attribute)
    BY <2>2, <2>3, <2>4
  <2>6. Service(field) \in Seq(Attribute)
    BY <2>1, ServiceIs
  <2>7. ChapAttributes(field) = first \o Service(field)
    BY DEF ChapAttributes
  <2> HIDE DEF first
  <2>8. ChapAttributes(field) \in Seq(Attribute)
    BY <2>5, <2>6, <2>7, BehindEachOther
  <2> QED
    BY <1>4, <2>8 DEF Attributes, field
<1>5. CASE request.kind = "acct"
  <2>1. /\ Good(field, "Acct-Session-Id") /\ Good(field, "User-Name")
        /\ Good(field, "Acct-Status-Type") /\ Good(field, "NAS-Identifier")
        /\ Good(field, "Acct-Input-Packets") /\ Good(field, "Acct-Output-Packets")
        /\ Good(field, "Acct-Input-Octets") /\ Good(field, "Acct-Output-Octets")
        /\ \A name \in PortNames : Good(field, name)
    BY <1>1, <1>5 DEF Fields, Counters
  <2> DEFINE first == <<Text("Acct-Session-Id", field["Acct-Session-Id"]),
                        Text("User-Name", field["User-Name"]),
                        Word("Acct-Input-Packets", field["Acct-Input-Packets"]),
                        Word("Acct-Output-Packets", field["Acct-Output-Packets"]),
                        Word("Acct-Input-Octets", field["Acct-Input-Octets"]),
                        Word("Acct-Output-Octets", field["Acct-Output-Octets"])>>
             a == Optional("Acct-Status-Type", field)
             b == Optional("NAS-Identifier", field)
             port == Port(field)
  <2>2. Text("Acct-Session-Id", field["Acct-Session-Id"]) \in Attribute
    BY <2>1, FieldIs
  <2>3. Text("User-Name", field["User-Name"]) \in Attribute
    BY <2>1, FieldIs
  <2>4. Word("Acct-Input-Packets", field["Acct-Input-Packets"]) \in Attribute
    BY <2>1, FieldIs
  <2>5. Word("Acct-Output-Packets", field["Acct-Output-Packets"]) \in Attribute
    BY <2>1, FieldIs
  <2>6. Word("Acct-Input-Octets", field["Acct-Input-Octets"]) \in Attribute
    BY <2>1, FieldIs
  <2>7. Word("Acct-Output-Octets", field["Acct-Output-Octets"]) \in Attribute
    BY <2>1, FieldIs
  <2>8. first \in Seq(Attribute)
    BY <2>2, <2>3, <2>4, <2>5, <2>6, <2>7
  <2>9. a \in Seq(Attribute)
    BY <2>1, FieldIs
  <2>10. b \in Seq(Attribute)
    BY <2>1, FieldIs
  <2>11. port \in Seq(Attribute)
    BY <2>1, PortIs
  <2>12. AcctAttributes(field) = first \o a \o b \o port
    BY DEF AcctAttributes
  <2> HIDE DEF first, a, b, port
  <2>13. AcctAttributes(field) \in Seq(Attribute)
    BY <2>8, <2>9, <2>10, <2>11, <2>12, BehindEachOther
  <2> QED
    BY <1>5, <2>13 DEF Attributes, field
<1> QED
  BY <1>1, <1>3, <1>4, <1>5

LEMMA AvpOf ==
    ASSUME NEW attribute \in Attribute
    PROVE  LET avp == Avp(attribute)
               size == Len(attribute.value)
           IN  /\ avp.type = IdByName(attribute.name) /\ avp.value = attribute.value
               /\ avp.type \in 0..(Octet - 1) /\ avp.length \in 0..(Octet - 1)
               /\ avp.value \in Bytes /\ size \in Nat
               /\ size + 2 < Octet => avp.length = 2 + size
               /\ Serialize(avp) \in Bytes
<1> DEFINE value == attribute.value
           size == Len(value)
           type == IdByName(attribute.name)
           length == (2 + size) % Octet
           Octets == 0..(Octet - 1)
<1>1. value \in Bytes /\ size \in Nat
  BY DEF Attribute, Bytes
<1>2. type \in Octets
  BY CodeAssumption, OctetAssumption DEF IdByName
<1>3. length \in Octets /\ (size + 2 < Octet => length = 2 + size)
  <2> HIDE DEF size
  <2> QED
    BY <1>1, OctetAssumption
<1>4. Avp(attribute) = [type |-> type, length |-> length, value |-> value]
  BY DEF Avp
<1> HIDE DEF value, size, type, length, Octets
<1>5. Serialize(Avp(attribute)) = <<type, length>> \o value
  BY <1>4 DEF Serialize
<1>6. Serialize(Avp(attribute)) \in Seq(Octets)
  <2>1. <<type, length>> \in Seq(Octets) /\ value \in Seq(Octets)
    BY <1>1, <1>2, <1>3 DEF Bytes, Octets
  <2> QED
    BY <1>5, <2>1
<1> QED
  BY <1>1, <1>2, <1>3, <1>4, <1>6 DEF value, size, type, Bytes, Octets

LEMMA RequestIsReadBack ==
    ASSUME NEW attributes \in Seq(Attribute), NEW beyond \in Beyond
    PROVE  ReadsBack(SerializeAvps(attributes), beyond, attributes) <=> Fit(attributes)
<1> DEFINE n == Len(attributes)
           set == AsSet(attributes)
           kept == Kept(attributes)
           parts == [i \in DOMAIN set |-> Serialize(set[i])]
           bytes == FlattenSeq(parts)
           read == {[type |-> IdByName(attribute.name), value |-> attribute.value] : attribute \in kept}
           Octets == 0..(Octet - 1)
<1>1. n \in Nat /\ DOMAIN attributes = 1..n /\ \A i \in 1..n : attributes[i] \in Attribute
  OBVIOUS
<1>2. kept \subseteq Attribute
  BY <1>1 DEF Kept
<1>3. PICK c \in Nat : DOMAIN set = 1..c /\ {set[i] : i \in 1..c} = {Avp(attribute) : attribute \in kept}
  <2>1. \A i \in 1..n : /\ Avp(attributes[i]).type = IdByName(attributes[i].name)
                        /\ Avp(attributes[i]).type \in Below(Octet)
    <3>1. 0..(Octet - 1) = Below(Octet)
      BY OctetAssumption DEF Below
    <3> QED
      BY <1>1, <3>1, AvpOf
  <2> QED
    BY <1>1, <2>1, OctetAssumption, SetHasKept
<1>4. SerializeAvps(attributes) = bytes
  BY Zenon DEF SerializeAvps
<1>5. \A i \in 1..c : \E attribute \in kept : set[i] = Avp(attribute)
  BY <1>3
<1>6. \A attribute \in kept : \E i \in 1..c : set[i] = Avp(attribute)
  BY <1>3
<1>7. Octets \subseteq Nat /\ Bytes = Seq(Octets)
  BY OctetAssumption DEF Bytes
<1> HIDE DEF n, set, kept, Octets
<1>8. ASSUME NEW i \in 1..c PROVE parts[i] \in Bytes
  <2>1. PICK attribute \in kept : set[i] = Avp(attribute)
    BY <1>5
  <2> QED
    BY <1>2, <1>3, <2>1, AvpOf
<1>9. parts \in [1..c -> Bytes]
  BY <1>3, <1>8
<1> HIDE DEF parts
<1>10. PICK e : Joined(Octets, bytes, parts, c, e)
  BY <1>7, <1>9, FlattenJoins
<1>11. bytes \in Bytes /\ beyond \in Bytes /\ Len(beyond) >= Octet
  BY <1>7, <1>10, BeyondAssumption DEF Joined
<1> HIDE DEF bytes
<1>12. ASSUME Fit(attributes) PROVE ToSet(ParseAvps(bytes, beyond)) = read
  <2> DEFINE types == [i \in 1..c |-> set[i].type]
             values == [i \in 1..c |-> set[i].value]
  <2>1. ASSUME NEW i \in 1..c
        PROVE  /\ set[i].type \in Nat /\ set[i].value \in Seq(Nat)
               /\ Serialize(set[i]) = <<set[i].type, 2 + Len(set[i].value)>> \o set[i].value
    <3>1. PICK attribute \in kept : set[i] = Avp(attribute)
      BY <1>5
    <3>2. attribute \in Attribute /\ Len(attribute.value) + 2 < Octet
      BY <1>2, <1>12 DEF Fit, kept
    <3>3. /\ set[i].type \in Octets /\ set[i].value \in Bytes
          /\ set[i].length = 2 + Len(set[i].value)
      BY <3>1, <3>2, AvpOf DEF Octets
    <3> QED
      BY <1>7, <3>3, SeqOfMore DEF Serialize
  <2>2. Written(types, values, c, parts)
    BY <1>3, <2>1 DEF parts, Written
  <2>3. Joined(Nat, bytes, parts, c, e)
    BY <1>7, <1>10, SeqOfMore DEF Joined
  <2>4. beyond \in Seq(Nat)
    BY <1>7, <1>11, SeqOfMore
  <2>5. \A i \in 1..c : [type |-> types[i], value |-> values[i]] = [type |-> set[i].type, value |-> set[i].value]
    OBVIOUS
  <2> HIDE DEF types, values, read
  <2>6. ToSet(ParseAvps(bytes, beyond)) = {[type |-> types[i], value |-> values[i]] : i \in 1..c}
    BY <2>2, <2>3, <2>4, ReadsJoined
  <2>7. {[type |-> types[i], value |-> values[i]] : i \in 1..c} = read
    <3>1. \A attribute \in kept :
             /\ Avp(attribute).type = IdByName(attribute.name)
             /\ Avp(attribute).value = attribute.value
      BY <1>2, AvpOf
    <3>2. ASSUME NEW i \in 1..c PROVE [type |-> types[i], value |-> values[i]] \in read
      <4>1. PICK attribute \in kept : set[i] = Avp(attribute)
        BY <1>5
      <4>2. [type |-> types[i], value |-> values[i]]
                = [type |-> IdByName(attribute.name), value |-> attribute.value]
        BY <2>5, <3>1, <4>1
      <4> QED
        BY <4>2 DEF read
    <3>3. ASSUME NEW x \in read PROVE \E i \in 1..c : x = [type |-> types[i], value |-> values[i]]
      <4>1. PICK attribute \in kept : x = [type |-> IdByName(attribute.name), value |-> attribute.value]
        BY DEF read
      <4>2. PICK i \in 1..c : set[i] = Avp(attribute)
        BY <1>6
      <4> QED
        BY <2>5, <3>1, <4>1, <4>2
    <3> QED
      BY <3>2, <3>3
  <2> QED
    BY <2>6, <2>7
<1>13. ASSUME ~Fit(attributes) PROVE ToSet(ParseAvps(bytes, beyond)) # read
  <2>1. PICK attribute \in kept : ~(Len(attribute.value) + 2 < Octet)
    BY <1>13 DEF Fit, kept
  <2> DEFINE x == [type |-> IdByName(attribute.name), value |-> attribute.value]
  <2>2. x \in read /\ x \notin Readable
    BY <2>1 DEF Readable
  <2>3. \A avp \in ToSet(ParseAvps(bytes, beyond)) : avp \in Readable
    BY <1>11, ReadsAreShort
  <2> QED
    BY <2>2, <2>3
<1> QED
  BY <1>4, <1>12, <1>13 DEF ReadsBack, kept

\* From the bytes of a request parseAVP() reads the attributes serializeAVP() was
\* given, of one number only the first, in whatever order the std::set puts them,
\* exactly when every value fits its 8-bit length, whatever lies behind the
\* packet (serialize of the three requests, serializeAVP, parseAVP).
THEOREM RequestsReadBack == Spec => []RequestReadsBack
<1>1. CodecInv => RequestReadsBack
  <2> SUFFICES ASSUME CodecInv, input.kind = "request", output # None, NEW beyond \in Beyond
               PROVE  ReadsBack(output, beyond, Attributes(input.data)) <=> Fit(Attributes(input.data))
    BY DEF RequestReadsBack
  <2>1. input.data \in Requests /\ output = SerializeAvps(Attributes(input.data))
    BY DEF CodecInv
  <2>2. Attributes(input.data) \in Seq(Attribute)
    BY <2>1, AttributesAre
  <2> QED
    BY <2>1, <2>2, RequestIsReadBack
<1> QED
  BY CodecInit, CodecStep, <1>1, PTL DEF Spec
=============================================================================
