------------------------ MODULE CommandLine_proofs -------------------------
(* Proofs about CommandLine, for every set of commands, whatever the         *)
(* operator types.                                                           *)
(*                                                                           *)
(* An answer is for the command typed because the client waits for one       *)
(* answer at a time, on one stream (Orderly), and a command is found along   *)
(* the words in their order (Along), by induction over how many of them      *)
(* call_cmd() has seen. An answer in two parts breaks the former: this is    *)
(* what split records.                                                       *)
EXTENDS CommandLine, TLAPS, WellFoundedInduction

-----------------------------------------------------------------------------
(* Commands are found along the words. *)

LEMMA NatSetInduction ==
    ASSUME NEW T, 0 \in T, \A n \in Nat : n \in T => n + 1 \in T
    PROVE  Nat \subseteq T
<1> SUFFICES ASSUME Nat \ T # {} PROVE FALSE
  OBVIOUS
<1>1. PICK x \in Nat \ T : \A y \in Nat \ T : <<y, x>> \notin OpToRel(<, Nat)
  BY NatLessThanWellFounded, WFMin
<1>2. x # 0 /\ x - 1 \in Nat /\ x - 1 < x /\ (x - 1) + 1 = x
  OBVIOUS
<1>3. <<x - 1, x>> \in OpToRel(<, Nat)
  BY <1>2 DEF OpToRel
<1> QED
  BY <1>1, <1>2, <1>3

LEMMA MaxOfTop ==
    ASSUME NEW n \in Nat, NEW s \in SUBSET (1..(n + 1)), n + 1 \in s
    PROVE  Max(s) = n + 1
<1>1. \A y \in s : n + 1 >= y /\ (y >= n + 1 => y = n + 1)
  OBVIOUS
<1>2. \A x \in s : (\A y \in s : x >= y) <=> x = n + 1
  BY <1>1
<1> QED
  BY <1>1, <1>2 DEF Max

\* The walk of call_cmd() along n words: f gives the node it reaches with some of
\* them.
Walk(words, n, f) ==
    f = [s \in SUBSET (1..n) |->
            IF s = {} THEN <<>> ELSE Step(f[s \ {Max(s)}], words[Max(s)])]

LEMMA WalkExists ==
    ASSUME NEW words, NEW n \in Nat
    PROVE  \E f : Walk(words, n, f)
<1> DEFINE T == {m \in Nat : \E f : Walk(words, m, f)}
<1>1. 0 \in T
  <2>1. SUBSET (1..0) = {{}}
    OBVIOUS
  <2>2. Walk(words, 0, [s \in {{}} |-> <<>>])
    BY <2>1 DEF Walk
  <2> QED
    BY <2>2
<1>2. ASSUME NEW m \in Nat, m \in T PROVE m + 1 \in T
  <2>1. PICK f : Walk(words, m, f)
    BY <1>2
  <2> DEFINE g == [s \in SUBSET (1..(m + 1)) |->
                      IF m + 1 \in s THEN Step(f[s \ {m + 1}], words[m + 1]) ELSE f[s]]
  <2>2. ASSUME NEW s \in SUBSET (1..(m + 1))
        PROVE  g[s] = IF s = {} THEN <<>> ELSE Step(g[s \ {Max(s)}], words[Max(s)])
    <3>1. CASE m + 1 \in s
      <4>1. Max(s) = m + 1
        BY <3>1, MaxOfTop
      <4>2. g[s \ {m + 1}] = f[s \ {m + 1}]
        OBVIOUS
      <4> QED
        BY <3>1, <4>1, <4>2
    <3>2. CASE m + 1 \notin s
      <4>1. s \in SUBSET (1..m) /\ g[s] = f[s]
        BY <3>2
      <4>2. f[s] = IF s = {} THEN <<>> ELSE Step(f[s \ {Max(s)}], words[Max(s)])
        BY <2>1, <4>1 DEF Walk
      <4>3. g[s \ {Max(s)}] = f[s \ {Max(s)}]
        BY <3>2
      <4> QED
        BY <4>1, <4>2, <4>3
    <3> QED
      BY <3>1, <3>2
  <2>3. Walk(words, m + 1, g)
    <3>1. g = [s \in SUBSET (1..(m + 1)) |-> g[s]]
      OBVIOUS
    <3> HIDE DEF g
    <3> QED
      BY <2>2, <3>1 DEF Walk
  <2> QED
    BY <2>3
<1> HIDE DEF T
<1>3. n \in T
  BY <1>1, <1>2, NatSetInduction
<1> QED
  BY <1>3 DEF T

\* The words of node are among the first n words, in this order.
Along(node, words, n) ==
    /\ node \in Seq(STRING)
    /\ \E place \in [DOMAIN node -> 1..n] :
          \A i, j \in DOMAIN node : node[i] = words[place[i]] /\ (i < j => place[i] < place[j])

LEMMA AlongGrows ==
    ASSUME NEW words \in Seq(STRING), NEW n \in Nat, n + 1 \in DOMAIN words, NEW node,
           Along(node, words, n)
    PROVE  Along(Append(node, words[n + 1]), words, n + 1)
<1> DEFINE longer == Append(node, words[n + 1])
<1>1. PICK place \in [DOMAIN node -> 1..n] :
         \A i, j \in DOMAIN node : node[i] = words[place[i]] /\ (i < j => place[i] < place[j])
  BY DEF Along
<1>2. /\ longer \in Seq(STRING) /\ DOMAIN longer = 1..(Len(node) + 1) /\ DOMAIN node = 1..Len(node)
      /\ Len(node) \in Nat /\ longer[Len(node) + 1] = words[n + 1]
      /\ \A i \in 1..Len(node) : longer[i] = node[i]
  BY DEF Along
<1> HIDE DEF longer
<1> DEFINE further == [i \in 1..(Len(node) + 1) |-> IF i = Len(node) + 1 THEN n + 1 ELSE place[i]]
<1>3. further \in [DOMAIN longer -> 1..(n + 1)]
  BY <1>2
<1>4. ASSUME NEW i \in DOMAIN longer
      PROVE  longer[i] = words[further[i]]
  BY <1>1, <1>2, <1>4
<1>5. ASSUME NEW i \in DOMAIN longer, NEW j \in DOMAIN longer, i < j
      PROVE  further[i] < further[j]
  <2>1. i \in DOMAIN node /\ further[i] = place[i] /\ place[i] \in 1..n
    BY <1>2, <1>5
  <2>2. CASE j = Len(node) + 1
    BY <1>2, <2>1, <2>2
  <2>3. CASE j # Len(node) + 1
    <3>1. j \in DOMAIN node /\ further[j] = place[j]
      BY <1>2, <1>5, <2>3
    <3> QED
      BY <1>1, <1>5, <2>1, <3>1
  <2> QED
    BY <2>2, <2>3
<1> HIDE DEF further
<1>6. Along(longer, words, n + 1)
  BY <1>2, <1>3, <1>4, <1>5 DEF Along
<1> QED
  BY <1>6 DEF longer

LEMMA AlongStays ==
    ASSUME NEW words, NEW n \in Nat, NEW node, Along(node, words, n)
    PROVE  Along(node, words, n + 1)
<1>1. PICK place \in [DOMAIN node -> 1..n] :
         \A i, j \in DOMAIN node : node[i] = words[place[i]] /\ (i < j => place[i] < place[j])
  BY DEF Along
<1>2. place \in [DOMAIN node -> 1..(n + 1)]
  OBVIOUS
<1> QED
  BY <1>1, <1>2 DEF Along

LEMMA WalkIsAlong ==
    ASSUME NEW words \in Seq(STRING), NEW f, Walk(words, Len(words), f)
    PROVE  Along(f[1..Len(words)], words, Len(words))
<1> DEFINE N == Len(words)
           T == {n \in Nat : n <= N => Along(f[1..n], words, n)}
<1>0. N \in Nat /\ DOMAIN words = 1..N
  OBVIOUS
<1>1. 0 \in T
  <2>1. 1..0 = {} /\ {} \in SUBSET (1..N)
    OBVIOUS
  <2>2. f[{}] = <<>>
    BY <2>1 DEF Walk
  <2>3. Along(<<>>, words, 0)
    <3>1. <<>> \in Seq(STRING) /\ DOMAIN <<>> = {}
      OBVIOUS
    <3>2. [i \in {} |-> i] \in [{} -> 1..0]
      OBVIOUS
    <3> QED
      BY <3>1, <3>2 DEF Along
  <2> QED
    BY <2>1, <2>2, <2>3
<1>2. ASSUME NEW n \in Nat, n \in T PROVE n + 1 \in T
  <2> SUFFICES ASSUME n + 1 <= N PROVE Along(f[1..(n + 1)], words, n + 1)
    OBVIOUS
  <2>1. Along(f[1..n], words, n) /\ n + 1 \in DOMAIN words
    BY <1>0, <1>2
  <2> DEFINE s == 1..(n + 1)
  <2>2. /\ s \in SUBSET (1..N) /\ n + 1 \in s /\ s \in SUBSET (1..(n + 1)) /\ s # {}
        /\ s \ {n + 1} = 1..n
    <3>1. \A i \in 1..(n + 1) : i \in 1..N
      BY <1>0
    <3>2. s \in SUBSET (1..N)
      BY <3>1
    <3>3. s \ {n + 1} = 1..n
      OBVIOUS
    <3>4. n + 1 \in s
      OBVIOUS
    <3> QED
      BY <3>2, <3>3, <3>4
  <2>3. Max(s) = n + 1
    BY <2>2, MaxOfTop
  <2> HIDE DEF s
  <2>4. f[s] = Step(f[1..n], words[n + 1])
    BY <2>2, <2>3 DEF Walk
  <2>5. Along(f[s], words, n + 1)
    BY <2>1, <2>4, AlongGrows, AlongStays DEF Step
  <2> QED
    BY <2>5 DEF s
<1> HIDE DEF T
<1>3. N \in T
  BY <1>0, <1>1, <1>2, NatSetInduction
<1> QED
  BY <1>0, <1>3 DEF T

LEMMA CallCmdInOrder ==
    ASSUME NEW words \in Seq(STRING), CallCmd(words) # None
    PROVE  CallCmd(words) \in Commands /\ InOrder(CallCmd(words), words)
<1> DEFINE N == Len(words)
           f == CHOOSE g : Walk(words, N, g)
<1>1. N \in Nat /\ DOMAIN words = 1..N
  OBVIOUS
<1>2. FoldLeft(Step, <<>>, words) = f[1..N]
  BY <1>1, Zenon DEF FoldLeft, MapThenFoldSet, Walk
<1>3. Walk(words, N, f)
  BY <1>1, WalkExists
<1> HIDE DEF f
<1>4. Along(f[1..N], words, N)
  BY <1>3, WalkIsAlong
<1>5. CallCmd(words) = f[1..N] /\ CallCmd(words) \in Commands
  BY <1>2 DEF CallCmd
<1> QED
  BY <1>1, <1>4, <1>5 DEF Along, InOrder

-----------------------------------------------------------------------------
(* One answer at a time. *)

\* An answer of one piece, whole or broken off.
OnlyPiece(command, whole) == [command |-> command, part |-> 1, of |-> 1, ends |-> whole]

\* Unless an answer was split, a client has at most one command out and no answer
\* but the one to it.
Orderly ==
    ~split =>
       /\ client = "typing" => requests = <<>> /\ answers = <<>>
       /\ client = "waiting" =>
             \/ requests = <<CallCmd(typed)>> /\ answers = <<>>
             \/ /\ requests = <<>>
                /\ \E whole \in BOOLEAN :
                      answers = <<OnlyPiece(CallCmd(typed), whole)>>
       /\ shown # None => shown = CallCmd(typed)

AnswersInv == typed \in Seq(STRING) /\ Orderly

LEMMA AnswersInit == Init => AnswersInv
BY DEF Init, AnswersInv, Orderly

LEMMA EnterKeeps ==
    ASSUME AnswersInv, NEW words \in Inputs, Enter(words)
    PROVE  AnswersInv'
<1>1. typed' = words /\ words \in Seq(STRING) /\ shown' = None
  BY WordAssumption DEF Enter
<1> SUFFICES ASSUME ~split' PROVE Orderly'
  BY <1>1 DEF AnswersInv, Orderly
<1>2. ~split /\ client = "typing" /\ requests = <<>> /\ answers = <<>> /\ answers' = <<>>
  BY DEF Enter, AnswersInv, Orderly
<1> DEFINE command == CallCmd(words)
<1>3. CallCmd(typed)' = command
  BY <1>1 DEF CallCmd
<1>4. \/ client' = "typing" /\ requests' = <<>>
      \/ client' = "gone"
      \/ client' = "waiting" /\ requests' = <<command>>
  BY <1>2 DEF Enter
<1> HIDE DEF command
<1> QED
  BY <1>1, <1>2, <1>3, <1>4 DEF Orderly

LEMMA ReadKeeps == ASSUME AnswersInv, Read PROVE AnswersInv'
<1>1. UNCHANGED <<typed, requests, split>> /\ client = "waiting" /\ client' = "typing"
  BY DEF Read
<1> SUFFICES ASSUME ~split PROVE Orderly'
  BY <1>1 DEF AnswersInv, Orderly
<1> DEFINE command == CallCmd(typed)
<1>2. PICK whole \in BOOLEAN :
         requests = <<>> /\ answers = <<OnlyPiece(command, whole)>>
  <2>1. DOMAIN answers # {}
    BY DEF Read
  <2> QED
    BY <1>1, <2>1 DEF AnswersInv, Orderly
<1>3. answers[1].command = command /\ DOMAIN answers = 1..1 /\ Len(answers) = 1
  BY <1>2 DEF OnlyPiece
<1>4. answers' = <<>> /\ shown' \in {command, None}
  <2>0. PICK end \in DOMAIN answers : \E n \in end..Len(answers) :
           /\ answers' = SubSeq(answers, n + 1, Len(answers))
           /\ shown' = IF \E w \in end..n : IsAnswer(w) THEN answers[1].command ELSE None
    BY DEF Read
  <2>1. PICK n \in end..Len(answers) :
           /\ answers' = SubSeq(answers, n + 1, Len(answers))
           /\ shown' = IF \E w \in end..n : IsAnswer(w) THEN answers[1].command ELSE None
    BY <2>0
  <2>2. n = 1
    BY <1>3, <2>0, <2>1
  <2> QED
    BY <1>3, <2>1, <2>2, <1>2
<1>5. CallCmd(typed)' = command
  BY <1>1 DEF CallCmd
<1> HIDE DEF command
<1> QED
  BY <1>1, <1>2, <1>4, <1>5 DEF Orderly

LEMMA Single == ASSUME NEW x PROVE [i \in 1..1 |-> x] = <<x>>
<1>1. DOMAIN <<x>> = 1..1 /\ <<x>>[1] = x
  OBVIOUS
<1>2. <<x>> = [i \in 1..1 |-> <<x>>[i]]
  BY <1>1
<1> QED
  BY <1>1, <1>2

LEMMA BrokenOff ==
    ASSUME NEW S, NEW command \in S, NEW k \in 1..1
    PROVE  [i \in 1..k |-> [Answer(command, 1)[i] EXCEPT !.ends = i < k]] = <<OnlyPiece(command, FALSE)>>
<1>1. Answer(command, 1)[1] = [command |-> command, part |-> 1, of |-> 1, ends |-> TRUE]
  BY DEF Answer, Piece
<1>2. [Answer(command, 1)[1] EXCEPT !.ends = FALSE] = OnlyPiece(command, FALSE)
  <2>1. ASSUME NEW w \in BOOLEAN
        PROVE  [[command |-> command, part |-> 1, of |-> 1, ends |-> TRUE] EXCEPT !.ends = w] =
                  OnlyPiece(command, w)
    BY DEF OnlyPiece
  <2> QED
    BY <1>1, <2>1, Zenon
<1>3. k = 1 /\ \A i \in 1..k : i = 1 /\ (i < k) = FALSE
  OBVIOUS
<1>4. [i \in 1..k |-> [Answer(command, 1)[i] EXCEPT !.ends = i < k]] =
         [i \in 1..1 |-> OnlyPiece(command, FALSE)]
  BY <1>2, <1>3, Zenon
<1> QED
  BY <1>4, Single, Zenon

LEMMA Unbroken ==
    ASSUME NEW command
    PROVE  Answer(command, 1) = <<OnlyPiece(command, TRUE)>>
<1>1. Answer(command, 1) = [i \in 1..1 |-> OnlyPiece(command, TRUE)]
  BY DEF Answer, Piece, OnlyPiece
<1> QED
  BY <1>1, Single, Zenon

LEMMA RunCmdKeeps == ASSUME AnswersInv, RunCmd PROVE AnswersInv'
<1>1. UNCHANGED <<typed, client, shown>> /\ client # "gone" /\ requests # <<>>
  BY DEF RunCmd
<1> SUFFICES ASSUME ~split' PROVE Orderly'
  BY <1>1 DEF AnswersInv, Orderly
<1> DEFINE command == CallCmd(typed)
<1>2. PICK n \in 1..MaxParts :
          /\ split' = (split \/ n > 1)
          /\ \/ answers' = answers \o Answer(Head(requests), n)
             \/ \E k \in 1..n :
                   answers' = answers \o [i \in 1..k |->
                                    [Answer(Head(requests), n)[i] EXCEPT !.ends = i < k]]
  BY DEF RunCmd
<1>3. n = 1 /\ ~split
  <2>1. ~split /\ ~(n > 1)
    BY <1>2, Zenon
  <2> QED
    BY <2>1, BoundAssumption
<1>4. \/ client = "typing" /\ FALSE
      \/ client = "waiting" /\ requests = <<command>> /\ answers = <<>>
      \/ client \notin {"typing", "waiting", "gone"}
  BY <1>1, <1>3 DEF AnswersInv, Orderly
<1>5. CallCmd(typed)' = command
  BY <1>1 DEF CallCmd
<1>6. CASE client = "waiting"
  <2>1. requests = <<command>> /\ answers = <<>> /\ Head(requests) = command /\ requests' = <<>>
    <3>1. requests = <<command>> /\ answers = <<>>
      BY <1>4, <1>6
    <3>2. requests' = Tail(requests)
      BY Zenon DEF RunCmd
    <3> HIDE DEF command
    <3> QED
      BY <3>1, <3>2
  <2>5. \E whole \in BOOLEAN : answers' = <<OnlyPiece(command, whole)>>
    <3> HIDE DEF command
    <3>1. CASE answers' = answers \o Answer(Head(requests), n)
      <4>1. answers' = <<>> \o <<OnlyPiece(command, TRUE)>>
        BY <1>3, <2>1, <3>1, Unbroken, Zenon
      <4>2. answers' = <<OnlyPiece(command, TRUE)>>
        BY <4>1
      <4> QED
        BY <4>2, Zenon
    <3>2. CASE \E k \in 1..n : answers' = answers \o [i \in 1..k |->
                                    [Answer(Head(requests), n)[i] EXCEPT !.ends = i < k]]
      <4>1. answers' = <<>> \o <<OnlyPiece(command, FALSE)>>
        <5>1. PICK k \in 1..1 : answers' = <<>> \o [i \in 1..k |-> [Answer(command, 1)[i] EXCEPT !.ends = i < k]]
          BY <1>3, <2>1, <3>2, Zenon
        <5> QED
          BY <5>1, BrokenOff, Zenon
      <4>2. answers' = <<OnlyPiece(command, FALSE)>>
        BY <4>1
      <4> QED
        BY <4>2, Zenon
    <3> QED
      BY <1>2, <3>1, <3>2
  <2> HIDE DEF command
  <2> QED
    BY <1>1, <1>3, <1>5, <1>6, <2>1, <2>5 DEF Orderly, AnswersInv
<1>7. CASE client # "waiting"
  BY <1>1, <1>3, <1>4, <1>5, <1>7 DEF Orderly, AnswersInv
<1> QED
  BY <1>6, <1>7

LEMMA AnswersStep == AnswersInv /\ [Next]_vars => AnswersInv'
<1> SUFFICES ASSUME AnswersInv, [Next]_vars PROVE AnswersInv'
  OBVIOUS
<1>1. ASSUME NEW words \in Inputs, Enter(words) PROVE AnswersInv'
  BY <1>1, EnterKeeps
<1>2. CASE Read
  BY <1>2, ReadKeeps
<1>3. CASE Leave
  <2>1. typed' = <<>> /\ shown' = None /\ client' = "gone" /\ <<>> \in Seq(STRING)
    BY <1>3 DEF Leave
  <2> QED
    BY <2>1 DEF AnswersInv, Orderly
<1>4. CASE RunCmd
  BY <1>4, RunCmdKeeps
<1>5. ASSUME UNCHANGED <<client, typed, shown, requests, answers, split>> PROVE AnswersInv'
  BY <1>5 DEF AnswersInv, Orderly, CallCmd
<1>6. CASE Accept
  <2>1. /\ typed' = <<>> /\ shown' = None /\ client' = "typing" /\ requests' = <<>> /\ answers' = <<>>
        /\ <<>> \in Seq(STRING)
    BY <1>6 DEF Accept
  <2> QED
    BY <2>1 DEF AnswersInv, Orderly
<1> QED
  BY <1>1, <1>2, <1>3, <1>4, <1>5, <1>6 DEF Next, Daemon, Written, Closed, vars

\* What pppctl shows after a line is the answer to the command on that line, which
\* the line's words spell in this order, unless an answer came in two parts
\* (process_input, run_cmd, call_cmd).
THEOREM AnswersAreForTheirCommands == Spec => []AnswerIsForCommand
<1>1. AnswersInv => AnswerIsForCommand
  BY CallCmdInOrder DEF AnswersInv, Orderly, AnswerIsForCommand
<1> QED
  BY AnswersInit, AnswersStep, <1>1, PTL DEF Spec
=============================================================================
