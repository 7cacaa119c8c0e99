---------------------------- MODULE CommandLine ----------------------------
(* pppctl and the daemon's end of its unix socket (pppctl.cpp, cli.cpp): one *)
(* command at a time goes to the daemon, its answer comes back, both end in  *)
(* "\r\n\r\n". The answer is binary data: it may contain these four bytes,   *)
(* and is written with one async_write_some(), which may take only a part.   *)
EXTENDS Naturals, SequencesExt

CONSTANTS
    Commands,   \* sequences of words: what CLICMD() adds
    Inputs,     \* sequences of words a user may type
    Exit,       \* the command that ends pppctl
    None,
    MaxParts,   \* bound: pieces of an answer, each ends where "\r\n\r\n" is
    MaxBacklog  \* bound: left in the socket both ways when a user still goes on

ASSUME CommandAssumption == Exit \in Commands /\ None \notin Commands
ASSUME BoundAssumption == MaxParts \in Nat \ {0} /\ MaxBacklog \in Nat
ASSUME WordAssumption == Commands \cup Inputs \subseteq Seq(STRING)

VARIABLES
    client,     \* "typing", "waiting" in read_until(), or "gone"
    typed,      \* what was typed last
    shown,      \* the command whose answer it printed for that; None: an error, or nothing yet
    session,    \* CLISession: "reading", "writing", or "closed"
    requests,   \* the socket, to the daemon
    answers,    \* the socket, to pppctl: pieces of answers
    split, cut  \* history: an answer contained "\r\n\r\n"; only a part was written

vars == <<client, typed, shown, session, requests, answers, split, cut>>

Init ==
    /\ client = "typing" /\ typed = <<>> /\ shown = None
    /\ session = "reading" /\ requests = <<>> /\ answers = <<>>
    /\ split = FALSE /\ cut = FALSE

-----------------------------------------------------------------------------
(* CLICMD: the words of a command are a path in a tree. *)

Nodes == UNION {Prefixes(c) : c \in Commands}

\* Seeded fault: an unknown word takes the first way there is.
StepAnyway(node, word) ==
    IF Append(node, word) \in Nodes THEN Append(node, word)
    ELSE IF \E n \in Nodes : Len(n) = Len(node) + 1 /\ IsPrefix(node, n)
         THEN CHOOSE n \in Nodes : Len(n) = Len(node) + 1 /\ IsPrefix(node, n)
         ELSE node

\* A word that leads nowhere is passed over.
Step(node, word) == IF Append(node, word) \in Nodes THEN Append(node, word) ELSE node

\* call_cmd(): the command the words end at, None if they end at no command.
CallCmd(words) ==
    LET node == FoldLeft(Step, <<>>, words)
    IN  IF node \in Commands THEN node ELSE None

-----------------------------------------------------------------------------
(* pppctl. *)

\* process_input(): what is no command is an error and sends nothing.
Enter(words) ==
    /\ client = "typing" /\ Len(requests \o answers) <= MaxBacklog
    /\ LET command == CallCmd(words)
       IN  \/ command = None /\ UNCHANGED <<client, requests>>
           \/ command = Exit /\ client' = "gone" /\ UNCHANGED requests
           \/ /\ command \notin {None, Exit} /\ client' = "waiting"
              /\ requests' = Append(requests, command)
    /\ typed' = words /\ shown' = None
    /\ UNCHANGED <<session, answers, split, cut>>

\* The first n pieces are one whole answer. Otherwise deserialize() throws.
IsAnswer(n) ==
    /\ answers[1].part = 1 /\ answers[n].part = answers[n].of
    /\ \A i \in 1..n : answers[i].part = i

\* read_until() ends at the first "\r\n\r\n", but may have read on; what it read
\* too much is lost with its buffer.
Read ==
    /\ client = "waiting"
    /\ \E end \in DOMAIN answers :
          /\ answers[end].ends /\ \A i \in 1..(end - 1) : ~answers[i].ends
          /\ \E n \in end..Len(answers) :
                /\ answers' = SubSeq(answers, n + 1, Len(answers))
                /\ shown' = IF \E whole \in end..n : IsAnswer(whole) THEN answers[1].command ELSE None
    /\ client' = "typing"
    /\ UNCHANGED <<typed, session, requests, split, cut>>

\* SIGINT or SIGTERM, also in the middle of a command.
Leave ==
    /\ client # "gone" /\ client' = "gone"
    /\ typed' = <<>> /\ shown' = None /\ requests' = <<>> /\ answers' = <<>>
    /\ UNCHANGED <<session, split, cut>>

-----------------------------------------------------------------------------
(* CLISession. *)

Piece(command, i, n) == [command |-> command, part |-> i, of |-> n, ends |-> TRUE]

\* Seeded fault: the answer is sent without "\r\n\r\n".
AnswerUnended(command, n) ==
    [i \in 1..n |-> [Piece(command, i, n) EXCEPT !.ends = i < n]]

Answer(command, n) == [i \in 1..n |-> Piece(command, i, n)]

\* run_cmd() and do_write().
RunCmd ==
    /\ session = "reading" /\ client # "gone" /\ requests # <<>>
    /\ requests' = Tail(requests) /\ session' = "writing"
    /\ \E n \in 1..MaxParts :
          /\ split' = (split \/ n > 1)
          /\ \/ answers' = answers \o Answer(Head(requests), n) /\ UNCHANGED cut
             \/ \E k \in 1..n :   \* piece k is broken off
                   /\ cut' = TRUE
                   /\ answers' = answers \o [i \in 1..k |->
                                    [Answer(Head(requests), n)[i] EXCEPT !.ends = i < k]]
    /\ UNCHANGED <<client, typed, shown>>

\* The handler of the write reads again, whatever was written.
Written ==
    /\ session = "writing" /\ session' = IF client = "gone" THEN "closed" ELSE "reading"
    /\ UNCHANGED <<client, typed, shown, requests, answers, split, cut>>

\* The handler of the read finds the socket closed.
Closed ==
    /\ session = "reading" /\ client = "gone" /\ session' = "closed"
    /\ UNCHANGED <<client, typed, shown, requests, answers, split, cut>>

\* CLIServer::do_accept(): another pppctl, with a socket and a session of its own.
Accept ==
    /\ session = "closed"
    /\ client' = "typing" /\ typed' = <<>> /\ shown' = None /\ session' = "reading"
    /\ requests' = <<>> /\ answers' = <<>> /\ split' = FALSE /\ cut' = FALSE

-----------------------------------------------------------------------------

Daemon == RunCmd \/ Written \/ Closed \/ Accept

Next == (\E words \in Inputs : Enter(words)) \/ Read \/ Leave \/ Daemon

\* The daemon's loop runs its handlers, and pppctl its read.
Spec == Init /\ [][Next]_vars /\ WF_vars(Read) /\ WF_vars(Daemon)

-----------------------------------------------------------------------------
(* Properties. *)

\* All of s is in t, in this order.
InOrder(s, t) ==
    \E place \in [DOMAIN s -> DOMAIN t] :
        \A i, j \in DOMAIN s : s[i] = t[place[i]] /\ (i < j => place[i] < place[j])

\* What is printed is the answer to the command that was typed, of which every
\* word was typed in its order, unless an answer contained "\r\n\r\n": from then
\* on a command may get the answer of the one before.
AnswerIsForCommand ==
    shown # None /\ ~split => shown = CallCmd(typed) /\ InOrder(shown, typed)

\* A command is answered, or fails, or pppctl is stopped, unless only a part of
\* an answer was written: then pppctl waits for the end of the answer and the
\* daemon for the next command.
EveryCommandEnds == client = "waiting" ~> (client # "waiting" \/ cut)
=============================================================================
