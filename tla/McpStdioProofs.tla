--------------------------- MODULE McpStdioProofs ---------------------------
(***************************************************************************)
(* Theorems of McpStdio, for any timeout, any number of calls and any      *)
(* server, one that sends requests of its own included.                    *)
(*                                                                         *)
(* AnswersMatch is not inductive: it says nothing of what is still to      *)
(* come.  Attribution adds that, of every line in the pipe and of every    *)
(* request the server has not answered: its id was given out on this       *)
(* connection, and if it is the id that is waited for, it is the latest    *)
(* request of all.  Progress says what the client holds in each step.      *)
(***************************************************************************)
EXTENDS McpStdio, TLAPS

USE DEF Outcomes

\* Where the caller is says what it holds, and what was counted.
Progress ==
  /\ step # "idle" => outcome # "answered"
  /\ step = "idle" => connection # "opening"
  /\ step = "starting" => connection = "none"
  /\ step \in {"writing", "waiting", "notifying"} => connection # "none"
  /\ step = "notifying" => connection = "opening"
  /\ connection = "none" => ~child /\ owed = {} /\ pipe = <<>>
  /\ connects + (IF connection = "opening" THEN 1 ELSE 0) <= spawns
  /\ spawns + (IF step = "starting" THEN 1 ELSE 0) <= calls

\* An id and a tag that were given out.
Given(x) == x.id < nextId /\ x.tag <= requests

\* Only the request that is waited for carries the id that is waited for.
Fits(x) == (step = "waiting" /\ x.id = nextId - 1) => x.tag = requests

\* What a line may be: the answer to a request of this connection, a request of the
\* server's with any id, or chatter, which carries none.
Proper(line) ==
  \/ line.kind \in {"answer", "error"} /\ Given(line) /\ Fits(line)
  \/ line.kind \in {"notice", "garbage"} /\ line.id = 0
  \/ line.kind = "request"

Attribution ==
  /\ step = "waiting" => nextId > 1
  /\ \A r \in owed : Given(r) /\ Fits(r)
  /\ \A i \in 1..Len(pipe) : Proper(pipe[i])

Inv == TypeOK /\ Progress /\ Attribution /\ AnswersMatch

-----------------------------------------------------------------------------
(* Pieces that several actions share.                                      *)

\* What is left of a sequence after its head, and with a line at its end.
LEMMA PipeFacts ==
  ASSUME NEW q \in Seq(Line)
  PROVE  /\ q # <<>> => /\ Head(q) \in Line /\ Tail(q) \in Seq(Line)
                        /\ Len(q) >= 1 /\ Head(q) = q[1] /\ Len(Tail(q)) = Len(q) - 1
                        /\ \A i \in 1..Len(Tail(q)) : Tail(q)[i] = q[i + 1]
         /\ \A line \in Line :
              /\ Append(q, line) \in Seq(Line)
              /\ Len(Append(q, line)) = Len(q) + 1
              /\ \A i \in 1..Len(q) : Append(q, line)[i] = q[i]
              /\ Append(q, line)[Len(q) + 1] = line
  OBVIOUS

LEMMA EmptyPipe == <<>> \in Seq(Line) /\ Len(<<>>) = 0
  OBVIOUS

LEMMA NoLineIsALine == NoLine \in Line
  BY DEF NoLine, Line

\* A call may end in any state: with a failure, or with the answer to it.
LEMMA Ending ==
  ASSUME Inv, NEW result \in Outcomes, NEW line \in Line, NEW rest \in Seq(Line),
         connection # "none" \/ rest = <<>>,
         step # "idle",
         \A i \in 1..Len(rest) : Proper(rest[i]),
         result = "answered" => (line.kind = "answer" /\ line.tag = requests) \/ Mistaken(line),
         EndWith(result, line, rest)
  PROVE  Inv'
  <1> USE DEF EndWith, counts
  <1>1. TypeOK'
    <2>1. CASE connection = "opening" \/ result \in Transport
      BY <2>1, EmptyPipe DEF Inv, TypeOK, Drop
    <2>2. CASE ~(connection = "opening" \/ result \in Transport)
      BY <2>2 DEF Inv, TypeOK, Keep
    <2> QED BY <2>1, <2>2
  <1>2. Progress'
    <2>1. CASE connection = "opening" \/ result \in Transport
      BY <2>1 DEF Inv, TypeOK, Progress, Drop
    <2>2. CASE ~(connection = "opening" \/ result \in Transport)
      BY <2>2 DEF Inv, TypeOK, Progress, Keep
    <2> QED BY <2>1, <2>2
  <1>3. Attribution'
    <2>1. CASE connection = "opening" \/ result \in Transport
      BY <2>1, EmptyPipe DEF Inv, TypeOK, Attribution, Drop
    <2>2. CASE ~(connection = "opening" \/ result \in Transport)
      <3>1. owed' = owed /\ pipe' = rest /\ step' = "idle" /\ UNCHANGED <<nextId, requests>>
        BY <2>2 DEF Keep
      <3>2. \A i \in 1..Len(rest) : Proper(rest[i])'
        BY <3>1 DEF Proper, Given, Fits
      <3> QED BY <3>1, <3>2 DEF Inv, Attribution, Given, Fits
    <2> QED BY <2>1, <2>2
  <1>4. AnswersMatch'
    BY DEF AnswersMatch, Mistaken
  <1> QED BY <1>1, <1>2, <1>3, <1>4 DEF Inv

\* A call may end without a line in a state in which nothing is left to read.
LEMMA EndingEmpty ==
  ASSUME Inv, NEW result \in Outcomes \ {"answered"}, step # "idle",
         EndWith(result, NoLine, <<>>)
  PROVE  Inv'
  <1> DEFINE rest == <<>>
  <1>1. rest \in Seq(Line) /\ Len(rest) = 0
    BY EmptyPipe
  <1>2. \A i \in 1..Len(rest) : Proper(rest[i])
    BY <1>1
  <1>3. rest = <<>> /\ EndWith(result, NoLine, rest)
    OBVIOUS
  <1> HIDE DEF rest
  <1> QED BY <1>1, <1>2, <1>3, Ending, NoLineIsALine

\* The lines that are left when one is read are as they were.
LEMMA Reads ==
  ASSUME Inv, Reading
  PROVE  /\ Head(pipe) \in Line /\ Proper(Head(pipe))
         /\ Tail(pipe) \in Seq(Line) /\ Tail(pipe) = Tail(pipe)
         /\ \A i \in 1..Len(Tail(pipe)) : Proper(Tail(pipe)[i])
         /\ connection # "none"
  <1>1. pipe \in Seq(Line) /\ pipe # <<>> /\ Len(pipe) \in Nat
    BY DEF Inv, TypeOK, Reading
  <1>2. /\ Head(pipe) \in Line /\ Tail(pipe) \in Seq(Line)
        /\ Len(pipe) >= 1 /\ Head(pipe) = pipe[1] /\ Len(Tail(pipe)) = Len(pipe) - 1
        /\ \A i \in 1..Len(Tail(pipe)) : Tail(pipe)[i] = pipe[i + 1]
    BY <1>1, PipeFacts
  <1>3. Proper(Head(pipe))
    BY <1>1, <1>2 DEF Inv, Attribution
  <1>4. \A i \in 1..Len(Tail(pipe)) : Proper(Tail(pipe)[i])
    <2> SUFFICES ASSUME NEW i \in 1..Len(Tail(pipe)) PROVE Proper(pipe[i + 1])
      BY <1>2
    <2>1. i + 1 \in 1..Len(pipe)
      BY <1>1, <1>2
    <2> QED BY <2>1 DEF Inv, Attribution
  <1> QED BY <1>2, <1>3, <1>4 DEF Inv, Progress, Reading

\* A step that only takes what was read off the pipe.
LEMMA Reading1 ==
  ASSUME Inv, Reading, pipe' = Tail(pipe),
         UNCHANGED <<connection, nextId, waited, outcome, got, child, owed, counts>>,
         step' \in {"waiting", "notifying"},
         step' = "notifying" => connection = "opening"
  PROVE  Inv'
  <1> USE DEF counts
  <1>1. TypeOK' /\ Progress' /\ AnswersMatch'
    BY Reads DEF Inv, TypeOK, Progress, Reading, AnswersMatch
  <1>2. \A i \in 1..Len(pipe') : Proper(pipe[i])'
    BY Reads DEF Proper, Given, Fits, Reading
  <1>3. Attribution'
    BY <1>2 DEF Inv, Attribution, Given, Fits, Reading
  <1> QED BY <1>1, <1>3 DEF Inv

\* A step in which nothing is sent or read, and nothing is waited for anew.
LEMMA Quiet ==
  ASSUME Inv, TypeOK', Progress', AnswersMatch',
         UNCHANGED <<nextId, owed, pipe, requests>>,
         step' = "waiting" => step = "waiting"
  PROVE  Inv'
  <1>1. \A i \in 1..Len(pipe) : Proper(pipe[i])'
    BY DEF Inv, Attribution, Proper, Given, Fits
  <1>2. Attribution'
    BY <1>1 DEF Inv, Attribution, Given, Fits
  <1> QED BY <1>2 DEF Inv

-----------------------------------------------------------------------------
(* One lemma per group of actions.                                         *)

LEMMA ClientStarts ==
  ASSUME Inv, Call \/ Spawn \/ CannotStart
  PROVE  Inv'
  <1>1. CASE Call
    <2>1. TypeOK' /\ Progress' /\ AnswersMatch'
      <3>1. CASE connection = "open"
        BY <1>1, <3>1, NoLineIsALine DEF Call, Inv, TypeOK, Progress, AnswersMatch, Mistaken, server
      <3>2. CASE connection # "open"
        BY <1>1, <3>2, NoLineIsALine DEF Call, Inv, TypeOK, Progress, AnswersMatch, Mistaken, server
      <3> QED BY <3>1, <3>2
    <2> QED BY <1>1, <2>1, Quiet DEF Call, server
  <1>2. CASE Spawn
    <2>1. TypeOK' /\ Progress' /\ AnswersMatch'
      BY <1>2, EmptyPipe DEF Spawn, Inv, TypeOK, Progress, AnswersMatch
    <2>2. Attribution'
      BY <1>2, EmptyPipe DEF Spawn, Attribution
    <2> QED BY <2>1, <2>2 DEF Inv
  <1>3. CASE CannotStart
    <2>1. step # "idle" /\ pipe = <<>> /\ pipe \in Seq(Line)
      BY <1>3 DEF CannotStart, Inv, Progress, TypeOK
    <2> QED BY <1>3, <2>1, EndingEmpty DEF CannotStart
  <1> QED BY <1>1, <1>2, <1>3

LEMMA ClientWrites ==
  ASSUME Inv, Write \/ CannotWrite
  PROVE  Inv'
  <1>1. CASE Write
    <2> DEFINE new == [id |-> nextId, tag |-> requests + 1]
    <2>1. new \in Request /\ new.id = nextId /\ new.tag = requests + 1
      BY DEF Inv, TypeOK, Request
    <2>2. owed' = owed \cup {new} /\ pipe' = pipe /\ nextId' = nextId + 1
          /\ requests' = requests + 1 /\ step' = "waiting" /\ waited' = 0
      BY <1>1 DEF Write
    <2> HIDE DEF new
    <2>3. TypeOK'
      BY <1>1, <2>1, <2>2, BoundsAssumption DEF Write, Inv, TypeOK
    <2>4. Progress' /\ AnswersMatch'
      <3>1. outcome # "answered"
        BY <1>1 DEF Inv, Progress, Write
      <3> QED BY <1>1, <2>2 DEF Write, Inv, TypeOK, Progress, AnswersMatch
    <2>5. Attribution'
      <3>1. \A r \in owed' : Given(r)' /\ Fits(r)'
        BY <2>1, <2>2 DEF Inv, TypeOK, Attribution, Given, Fits, Request
      <3>2. \A i \in 1..Len(pipe) : Proper(pipe[i])'
        <4> SUFFICES ASSUME NEW i \in 1..Len(pipe) PROVE Proper(pipe[i])'
          OBVIOUS
        <4>1. Proper(pipe[i])
          BY DEF Inv, Attribution
        <4>2. pipe \in Seq(Line)
          BY DEF Inv, TypeOK
        <4>3. pipe[i] \in Line
          BY <4>2
        <4>4. pipe[i].id \in Nat /\ pipe[i].tag \in Nat
          BY <4>3 DEF Line
        <4> QED BY <4>1, <4>4, <2>2 DEF Inv, TypeOK, Proper, Given, Fits
      <3> QED BY <3>1, <3>2, <2>2 DEF Attribution, Inv, TypeOK
    <2> QED BY <2>3, <2>4, <2>5 DEF Inv
  <1>2. CASE CannotWrite
    BY <1>2, EndingEmpty DEF CannotWrite
  <1> QED BY <1>1, <1>2

LEMMA ClientReads ==
  ASSUME Inv, Skip \/ ReadGarbage \/ ReadError \/ ReadAnswer \/ ReadOddHandshake
  PROVE  Inv'
  <1>1. CASE Skip
    BY <1>1, Reading1 DEF Skip, client, Reading
  <1>2. CASE ReadGarbage
    BY <1>2, Reads, Ending DEF ReadGarbage, Reading
  <1>3. CASE ReadError
    BY <1>3, Reads, Ending DEF ReadError, Reading
  <1>4. CASE ReadAnswer
    <2>1. CASE connection = "open"
      <3>1. (Head(pipe).kind = "answer" /\ Head(pipe).tag = requests) \/ Mistaken(Head(pipe))
        <4>1. Reading /\ ~Unreadable /\ Head(pipe).id = nextId - 1 /\ Head(pipe).kind # "error"
          BY <1>4 DEF ReadAnswer, Ours
        <4>2. nextId - 1 # 0 /\ step = "waiting"
          BY <4>1 DEF Inv, TypeOK, Attribution, Reading
        <4>3. Proper(Head(pipe))
          BY <4>1, Reads
        <4> QED BY <4>1, <4>2, <4>3 DEF Proper, Fits, Unreadable, Mistaken
      <3> QED BY <1>4, <2>1, <3>1, Reads, Ending DEF ReadAnswer, Reading
    <2>2. CASE connection # "open"
      <3>1. connection = "opening"
        BY <1>4, <2>2 DEF ReadAnswer, Inv, TypeOK, Progress, Reading
      <3> QED BY <1>4, <2>2, <3>1, Reading1 DEF ReadAnswer
    <2> QED BY <2>1, <2>2
  <1>5. CASE ReadOddHandshake
    BY <1>5, Reads, Ending DEF ReadOddHandshake, Reading
  <1> QED BY <1>1, <1>2, <1>3, <1>4, <1>5

LEMMA ClientWaits ==
  ASSUME Inv, Notify \/ SeeEnd \/ TimeOut \/ Tick \/ Shutdown
  PROVE  Inv'
  <1>1. CASE Notify
    <2>1. TypeOK' /\ Progress' /\ AnswersMatch'
      BY <1>1 DEF Notify, Inv, TypeOK, Progress, AnswersMatch, Mistaken, server
    <2> QED BY <1>1, <2>1, Quiet DEF Notify, server
  <1>2. CASE SeeEnd
    BY <1>2, EndingEmpty DEF SeeEnd
  <1>3. CASE TimeOut
    <2>1. connection # "none" /\ pipe \in Seq(Line) /\ \A i \in 1..Len(pipe) : Proper(pipe[i])
      BY <1>3 DEF TimeOut, Inv, Progress, Attribution, TypeOK
    <2> QED BY <1>3, <2>1, Ending, NoLineIsALine DEF TimeOut
  <1>4. CASE Tick
    <2>1. TypeOK' /\ Progress' /\ AnswersMatch'
      BY <1>4, BoundsAssumption DEF Tick, Inv, TypeOK, Progress, AnswersMatch, server, counts
    <2> QED BY <1>4, <2>1, Quiet DEF Tick, server, counts
  <1>5. CASE Shutdown
    <2>1. TypeOK' /\ Progress' /\ AnswersMatch'
      BY <1>5, EmptyPipe DEF Shutdown, Drop, Inv, TypeOK, Progress, AnswersMatch, counts, Mistaken
    <2>2. Attribution'
      BY <1>5, EmptyPipe DEF Shutdown, Drop, Attribution
    <2> QED BY <2>1, <2>2 DEF Inv
  <1> QED BY <1>1, <1>2, <1>3, <1>4, <1>5

\* What the server sends keeps the pipe proper when the line is.
LEMMA Sending ==
  ASSUME Inv, NEW line \in Line, Proper(line), Send(line),
         owed' \subseteq owed, UNCHANGED <<client, child, counts>>
  PROVE  Inv'
  <1> USE DEF client, counts
  <1>1. pipe \in Seq(Line) /\ pipe' = Append(pipe, line) /\ Len(pipe) \in Nat
    BY DEF Inv, TypeOK, Send
  <1>2. /\ pipe' \in Seq(Line) /\ Len(pipe') = Len(pipe) + 1
        /\ \A i \in 1..Len(pipe) : pipe'[i] = pipe[i]
        /\ pipe'[Len(pipe) + 1] = line
    BY <1>1, PipeFacts
  <1>3. TypeOK' /\ Progress' /\ AnswersMatch'
    BY <1>2 DEF Inv, TypeOK, Progress, AnswersMatch, Send, Mistaken
  <1>4. \A i \in 1..Len(pipe') : Proper(pipe'[i])
    <2> SUFFICES ASSUME NEW i \in 1..Len(pipe') PROVE Proper(pipe'[i])
      OBVIOUS
    <2>1. CASE i = Len(pipe) + 1
      BY <2>1, <1>2
    <2>2. CASE i \in 1..Len(pipe)
      BY <2>2, <1>2 DEF Inv, Attribution
    <2> QED BY <1>1, <1>2, <2>1, <2>2
  <1>5. Attribution'
    BY <1>4 DEF Inv, Attribution, Proper, Given, Fits
  <1> QED BY <1>3, <1>5 DEF Inv

LEMMA ServerActs ==
  ASSUME Inv, Server
  PROVE  Inv'
  <1>1. CASE \E request \in owed, kind \in {"answer", "error"} : Answer(request, kind)
    <2>1. PICK request \in owed, kind \in {"answer", "error"} : Answer(request, kind)
      BY <1>1
    <2> DEFINE line == [kind |-> kind, id |-> request.id, tag |-> request.tag]
    <2>2. request \in Request /\ Given(request) /\ Fits(request)
      BY <2>1 DEF Inv, TypeOK, Attribution
    <2>3. line \in Line /\ line.id = request.id /\ line.tag = request.tag /\ line.kind = kind
      BY <2>1, <2>2 DEF Line, Request
    <2>4. Send(line) /\ owed' \subseteq owed /\ UNCHANGED <<client, child, counts>>
      BY <2>1 DEF Answer
    <2> HIDE DEF line
    <2>5. Proper(line)
      BY <2>2, <2>3 DEF Proper, Given, Fits
    <2> QED BY <2>3, <2>4, <2>5, Sending
  <1>2. CASE \E kind \in {"notice", "request", "garbage"}, id \in 1..MaxId : Chat(kind, id)
    <2>1. PICK kind \in {"notice", "request", "garbage"}, id \in 1..MaxId : Chat(kind, id)
      BY <1>2
    <2> DEFINE its == IF kind = "request" THEN id ELSE 0
               line == [kind |-> kind, id |-> its, tag |-> 0]
    <2>2. its \in Nat /\ (kind # "request" => its = 0)
      BY BoundsAssumption
    <2> HIDE DEF its
    <2>3. line \in Line /\ line.id = its /\ line.kind = kind
      BY <2>2 DEF Line
    <2>4. Send(line) /\ owed' \subseteq owed /\ UNCHANGED <<client, child, counts>>
      BY <2>1 DEF Chat, its
    <2> HIDE DEF line
    <2>5. Proper(line)
      BY <2>1, <2>2, <2>3 DEF Proper
    <2> QED BY <2>3, <2>4, <2>5, Sending
  <1>3. CASE Exit
    <2>1. TypeOK' /\ Progress' /\ AnswersMatch'
      BY <1>3 DEF Exit, Inv, TypeOK, Progress, AnswersMatch, client, counts, Mistaken
    <2>2. \A i \in 1..Len(pipe) : Proper(pipe[i])'
      BY <1>3 DEF Exit, Inv, Attribution, Proper, Given, Fits, client, counts
    <2>3. Attribution'
      BY <1>3, <2>2 DEF Exit, Inv, Attribution, client
    <2> QED BY <2>1, <2>3 DEF Inv
  <1> QED BY <1>1, <1>2, <1>3 DEF Server

-----------------------------------------------------------------------------
\* The invariant holds whatever the server says.
THEOREM Invariant == Spec => []Inv
  <1>1. Init => Inv
    <2> SUFFICES ASSUME Init PROVE Inv
      OBVIOUS
    <2>1. TypeOK
      <3>1. got \in Line /\ pipe \in Seq(Line) /\ waited \in 0..Patience
        BY NoLineIsALine, EmptyPipe, BoundsAssumption DEF Init
      <3>2. owed \subseteq Request /\ child \in BOOLEAN
        BY DEF Init
      <3> QED BY <3>1, <3>2 DEF Init, TypeOK
    <2>2. Progress /\ Attribution /\ AnswersMatch
      BY EmptyPipe DEF Init, Progress, Attribution, AnswersMatch
    <2> QED BY <2>1, <2>2 DEF Inv
  <1>2. Inv /\ [Next]_vars => Inv'
    <2> SUFFICES ASSUME Inv, [Next]_vars PROVE Inv'
      OBVIOUS
    <2>1. CASE Call \/ Spawn \/ CannotStart
      BY <2>1, ClientStarts
    <2>2. CASE Write \/ CannotWrite
      BY <2>2, ClientWrites
    <2>3. CASE Skip \/ ReadGarbage \/ ReadError \/ ReadAnswer \/ ReadOddHandshake
      BY <2>3, ClientReads
    <2>4. CASE Notify \/ SeeEnd \/ TimeOut \/ Tick \/ Shutdown
      BY <2>4, ClientWaits
    <2>5. CASE Server
      BY <2>5, ServerActs
    <2>6. CASE UNCHANGED vars
      <3>1. TypeOK' /\ Progress' /\ AnswersMatch'
        BY <2>6 DEF Inv, vars, client, server, counts, TypeOK, Progress, AnswersMatch, Mistaken
      <3> QED BY <2>6, <3>1, Quiet DEF vars, client, server, counts
    <2> QED BY <2>1, <2>2, <2>3, <2>4, <2>5, <2>6 DEF Next, Client
  <1> QED BY <1>1, <1>2, PTL DEF Spec

\* The client's and the server's state is always typed.
THEOREM TypeCorrect == Spec => []TypeOK
  <1>1. Inv => TypeOK
    BY DEF Inv
  <1> QED BY <1>1, Invariant, PTL

\* A call that succeeds returns the answer to that very request, whatever the
\* server sent before, late or twice, and however often it was started again.
THEOREM Attributed == Spec => []AnswersMatch
  <1>1. Inv => AnswersMatch
    BY DEF Inv
  <1> QED BY <1>1, Invariant, PTL

\* A server that dies on starting is started once for each call at most.
THEOREM StartsBounded == Spec => []OneStartPerCall
  <1>1. Inv => OneStartPerCall
    BY DEF Inv, TypeOK, Progress, OneStartPerCall
  <1> QED BY <1>1, Invariant, PTL

\* A server process is running only while the client holds its connection.
THEOREM NoneStrays == Spec => []NoStrayServer
  <1>1. Inv => NoStrayServer
    BY DEF Inv, TypeOK, Progress, NoStrayServer
  <1> QED BY <1>1, Invariant, PTL
=============================================================================
