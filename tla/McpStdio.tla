------------------------------ MODULE McpStdio ------------------------------
(***************************************************************************)
(* A client of an MCP server that is a child process (stdio.rs): calls are *)
(* made one at a time over a pair of pipes, the process is started by the  *)
(* first call that finds none, and dropped when a call loses it.           *)
(*                                                                         *)
(* The server is any program that reads what it is sent: it answers, or    *)
(* not, in any order, says other things in between, and exits when it      *)
(* likes.  Ids begin again with every process, so requests also carry a    *)
(* tag of the model, counted over all of them, that says whose answer a    *)
(* line really is.  Time is counted in parts of the request timeout.       *)
(*                                                                         *)
(* Abstracted: what is asked and answered.  A line is an answer, an error, *)
(* a notice (or blank), a request of the server, or not readable at all.   *)
(***************************************************************************)
EXTENDS Naturals, Sequences

CONSTANTS
  Patience,   \* REQUEST_TIMEOUT
  MaxCalls, MaxLines, MaxId   \* bounds of the model

ASSUME BoundsAssumption ==
  /\ Patience \in Nat /\ MaxCalls \in Nat /\ MaxLines \in Nat /\ MaxId \in Nat

VARIABLES
  step,       \* where the caller is
  connection, \* "none", "opening" while the handshake lasts, "open"
  nextId,     \* of this connection
  waited,     \* since the request was written
  outcome,    \* of the call made last
  got,        \* the line that ended it, if one did
  child,      \* a server process is running that the client started
  owed,       \* requests the server has not answered
  pipe,       \* lines the client has not read
  calls, connects, spawns, requests   \* counted

client == <<step, connection, nextId, waited, outcome, got>>
server == <<child, owed, pipe>>
counts == <<calls, connects, spawns, requests>>
vars == <<client, server, counts>>

-----------------------------------------------------------------------------
Line == [kind : {"answer", "error", "notice", "request", "garbage"}, id : Nat, tag : Nat]
NoLine == [kind |-> "notice", id |-> 0, tag |-> 0]

Outcomes == {"none", "answered", "refused", "malformed", "lost", "timeout", "unstarted"}

\* Errors after which the connection is not kept: Disconnected and Timeout.
Transport == {"lost", "timeout"}

Init ==
  /\ step = "idle" /\ connection = "none"
  /\ nextId = 1 /\ waited = 0
  /\ outcome = "none" /\ got = NoLine
  /\ child = FALSE /\ owed = {} /\ pipe = <<>>
  /\ calls = 0 /\ connects = 0 /\ spawns = 0 /\ requests = 0

-----------------------------------------------------------------------------
(* The client.                                                             *)

\* A connection that is dropped takes the process and its pipes with it.
Drop == connection' = "none" /\ child' = FALSE /\ owed' = {} /\ pipe' = <<>>
Keep == UNCHANGED <<connection, child, owed>>

\* A call ends.  While the handshake lasts, whatever ends it drops the
\* connection, which is not the client's yet.
EndWith(result, line, rest) ==
  /\ step' = "idle"
  /\ outcome' = result /\ got' = line
  /\ IF connection = "opening" \/ result \in Transport
     THEN Drop
     ELSE Keep /\ pipe' = rest
  /\ UNCHANGED <<nextId, waited, counts>>

Call ==
  /\ step = "idle" /\ calls < MaxCalls
  /\ calls' = calls + 1
  /\ outcome' = "none" /\ got' = NoLine
  /\ step' = IF connection = "open" THEN "writing" ELSE "starting"
  /\ UNCHANGED <<connection, nextId, waited, server, connects, spawns, requests>>

Spawn ==
  /\ step = "starting"
  /\ spawns' = spawns + 1
  /\ connection' = "opening" /\ nextId' = 1
  /\ child' = TRUE /\ owed' = {} /\ pipe' = <<>>
  /\ step' = "writing"
  /\ UNCHANGED <<waited, outcome, got, calls, connects, requests>>

CannotStart ==
  /\ step = "starting"
  /\ EndWith("unstarted", NoLine, pipe)
  /\ UNCHANGED server

\* The deadline is counted from here: writing itself has none.
Write ==
  /\ step = "writing" /\ child
  /\ owed' = owed \cup {[id |-> nextId, tag |-> requests + 1]}
  /\ nextId' = nextId + 1 /\ requests' = requests + 1
  /\ step' = "waiting" /\ waited' = 0
  /\ UNCHANGED <<connection, outcome, got, child, pipe, calls, connects, spawns>>

CannotWrite ==
  /\ step \in {"writing", "notifying"} /\ ~child
  /\ EndWith("lost", NoLine, <<>>)

\* A line is the answer when it carries the id of the request.
Unreadable == Head(pipe).kind = "garbage"
OursByLuck == ~Unreadable
Ours == ~Unreadable /\ Head(pipe).id = nextId - 1
Reading == step = "waiting" /\ pipe # <<>>

SkipPatiently ==
  /\ Reading /\ ~Ours /\ ~Unreadable
  /\ pipe' = Tail(pipe)
  /\ waited' = 0
  /\ UNCHANGED <<step, connection, nextId, outcome, got, child, owed, counts>>

Skip ==
  /\ Reading /\ ~Ours /\ ~Unreadable
  /\ pipe' = Tail(pipe)
  /\ UNCHANGED <<client, child, owed, counts>>

ReadGarbage == Reading /\ Unreadable /\ EndWith("malformed", Head(pipe), Tail(pipe))

ReadError == Reading /\ Ours /\ Head(pipe).kind = "error" /\ EndWith("refused", Head(pipe), Tail(pipe))

\* A line without an error is a success, with or without a result.
ReadAnswer ==
  /\ Reading /\ Ours /\ Head(pipe).kind # "error"
  /\ IF connection = "open"
     THEN EndWith("answered", Head(pipe), Tail(pipe))
     ELSE /\ step' = "notifying" /\ pipe' = Tail(pipe)
          /\ UNCHANGED <<connection, nextId, waited, outcome, got, child, owed, counts>>

\* The handshake's answer is not one.
ReadOddHandshake ==
  /\ Reading /\ Ours /\ Head(pipe).kind # "error" /\ connection = "opening"
  /\ EndWith("malformed", Head(pipe), Tail(pipe))

\* "notifications/initialized"; only then is the connection the client's, and
\* the call it was made for is written.
Notify ==
  /\ step = "notifying" /\ child
  /\ connection' = "open" /\ connects' = connects + 1
  /\ step' = "writing"
  /\ UNCHANGED <<nextId, waited, outcome, got, server, calls, spawns, requests>>

SeeEnd == step = "waiting" /\ pipe = <<>> /\ ~child /\ EndWith("lost", NoLine, <<>>)

TimeOut == step = "waiting" /\ waited >= Patience /\ EndWith("timeout", NoLine, pipe)

Tick ==
  /\ step = "waiting" /\ waited < Patience
  /\ waited' = waited + 1
  /\ UNCHANGED <<step, connection, nextId, outcome, got, server, counts>>

\* Between calls: stdin is closed, and the process ends or is killed.
Shutdown ==
  /\ step = "idle" /\ connection = "open"
  /\ Drop
  /\ UNCHANGED <<step, nextId, waited, outcome, got, counts>>

-----------------------------------------------------------------------------
(* The server.                                                             *)

Send(line) ==
  /\ child /\ Len(pipe) < MaxLines
  /\ pipe' = Append(pipe, line)

Answer(request, kind) ==
  /\ Send([kind |-> kind, id |-> request.id, tag |-> request.tag])
  /\ owed' = owed \ {request}
  /\ UNCHANGED <<client, child, counts>>

\* Something nobody asked for; a request carries an id of the server's choice.
Chat(kind, id) ==
  /\ Send([kind |-> kind, id |-> IF kind = "request" THEN id ELSE 0, tag |-> 0])
  /\ UNCHANGED <<client, child, owed, counts>>

Exit ==
  /\ child
  /\ child' = FALSE /\ owed' = {}
  /\ UNCHANGED <<client, pipe, counts>>

-----------------------------------------------------------------------------
Client ==
  \/ Spawn \/ CannotStart \/ Write \/ CannotWrite
  \/ Skip \/ ReadGarbage \/ ReadError \/ ReadAnswer \/ ReadOddHandshake
  \/ Notify \/ SeeEnd \/ TimeOut

Server ==
  \/ \E request \in owed, kind \in {"answer", "error"} : Answer(request, kind)
  \/ \E kind \in {"notice", "request", "garbage"}, id \in 1..MaxId : Chat(kind, id)
  \/ Exit

Next == Call \/ Client \/ Tick \/ Shutdown \/ Server

Spec == Init /\ [][Next]_vars

\* The client is scheduled and time passes.  The server owes nothing.
FairSpec == Spec /\ WF_vars(Client) /\ WF_vars(Tick) /\ WF_vars(TimeOut)

-----------------------------------------------------------------------------
(* Properties.                                                             *)

Request == [id : Nat, tag : Nat]

TypeOK ==
  /\ step \in {"idle", "starting", "writing", "waiting", "notifying"}
  /\ connection \in {"none", "opening", "open"}
  /\ nextId \in Nat \ {0} /\ waited \in 0..Patience
  /\ outcome \in Outcomes /\ got \in Line
  /\ child \in BOOLEAN /\ owed \subseteq Request /\ pipe \in Seq(Line)
  /\ calls \in Nat /\ connects \in Nat /\ spawns \in Nat /\ requests \in Nat

\* A call that succeeds returns the server's answer to that very request: not a late
\* one to a call that failed on something else, nor one of another process, nor
\* something the server says of its own accord.  One thing is mistaken for the answer:
\* a request of the server's own that happens to bear the id of the call, for only ids
\* are compared (stdio.rs, request: "misattribute one of those to whatever call
\* happened to be in flight").
Mistaken(line) == line.kind = "request" /\ line.id = nextId - 1
AnswersMatch ==
  outcome = "answered" => (got.kind = "answer" /\ got.tag = requests) \/ Mistaken(got)

\* A process is only started for a call, one for each at most, so a server that
\* dies on starting is not started again and again (stdio.rs: "eager
\* reconnection against a server that crashes on startup spins").
OneStartPerCall == connects <= spawns /\ spawns <= calls

\* No process is left to itself: one is running only while the client holds its
\* connection, or is opening it.
NoStrayServer ==
  /\ child => connection # "none"
  /\ step = "idle" => connection # "opening"

\* Every call ends although the server may be silent, or never stop talking.
CallsReturn == step # "idle" ~> step = "idle"
=============================================================================
