------------------------------ MODULE McpHttp ------------------------------
(***************************************************************************)
(* One MCP server over HTTP (revlocal-mcp/src/http.rs) and what discovery  *)
(* remembers of it (discovery.rs).  A session is opened on the first call  *)
(* and again after one that failed in transport; the list of tools is kept *)
(* for as long as the session it was read over.  The server may be         *)
(* replaced by another build at any moment.                                *)
(***************************************************************************)
EXTENDS Integers, Sequences

CONSTANTS
  KeepsSessions,   \* the server hands out a session id and knows its own
  MaxAsked,        \* bound: calls
  MaxBuilds        \* bound: builds of the server

NoSession == [id |-> 0]
NoTools == [build |-> 0, generation |-> 0]

VARIABLES
  keychain,    \* what the keychain holds for the header: "value", "unprintable", "missing"
  session,     \* NoSession, or the session that is open
  opening,     \* the session whose handshake is under way
  hops,        \* sessions opened: the generation of the connection
  phase,       \* "idle", "connecting", "announcing", "sending"
  method,      \* the call that is made: "tools/list", "tools/call"
  result,      \* how the last call ended
  cached,      \* NoTools, or the tools as read over a connection
  lastError,   \* of the last list that failed, "none" after one that did not
  asked, build, known   \* the server: its build, and the sessions it knows

httpClient == <<session, opening, hops, phase, method, result, cached, lastError, asked>>
httpServer == <<build, known>>
hcVars == <<httpClient, httpServer, keychain>>

HttpInit ==
  /\ keychain \in {"value", "unprintable", "missing"}
  /\ session = NoSession /\ opening = NoSession /\ hops = 0
  /\ phase = "idle" /\ method = "tools/list" /\ result = "none"
  /\ cached = NoTools /\ lastError = "none"
  /\ asked = 0 /\ build = 1 /\ known = {}

-----------------------------------------------------------------------------
(* Replies.                                                                *)

\* A reply is JSON, or a stream of events of which the last is taken.
Bodies == {<<"answer">>, <<"notice", "answer">>, <<"answer", "notice">>, <<"error">>, << >>}
Parsed(body) ==
  IF body = << >> THEN "malformed"
  ELSE CASE body[Len(body)] = "answer" -> "ok"
         [] body[Len(body)] = "error"  -> "protocol"
         [] OTHER                      -> "malformed"   \* null is no result

Trouble == {"timeout", "transport", "unauthorized", "limited", "failed", "refused"}

\* A session that the server does not know is answered 404.
Replies(s) ==
  Trouble \cup IF s.id # 0 /\ s.id \notin known THEN {"gone"} ELSE {Parsed(b) : b \in Bodies}

IsTransport(error) == error \in {"timeout", "transport"}

Retryable(error) ==
  CASE error \in {"timeout", "transport", "limited", "failed"} -> "yes"
    [] error = "protocol" -> "unknown"
    [] OTHER -> "no"

\* What becomes of a header that refers to the keychain.
HeaderError ==
  CASE keychain = "missing" -> "secret"
    [] keychain = "unprintable" -> "bad_header"
    [] OTHER -> "none"

-----------------------------------------------------------------------------
(* Discovery.                                                              *)

\* With a defect: a list outlives the connection it was read over.
FreshWhileConnected == session # NoSession /\ cached # NoTools

\* `is_fresh`: the connection is up, and it is the one the list was read over.
Fresh == session # NoSession /\ cached # NoTools /\ cached.generation = hops

Health ==
  IF Fresh THEN [state |-> "reachable", retryable |-> "none"]
  ELSE IF lastError # "none" THEN [state |-> "unreachable", retryable |-> Retryable(lastError)]
  ELSE [state |-> "unknown", retryable |-> "none"]

\* What `tools` keeps of a list that ended with `ending`; a call keeps nothing.
Remember(ending) ==
  IF method = "tools/list"
  THEN /\ cached' = IF ending = "ok" THEN [build |-> build, generation |-> hops] ELSE NoTools
       /\ lastError' = IF ending = "ok" THEN "none" ELSE ending
  ELSE UNCHANGED <<cached, lastError>>

-----------------------------------------------------------------------------
(* The client.                                                             *)

Finish(ending) ==
  /\ phase' = "idle" /\ result' = ending
  /\ Remember(ending)

\* A fresh list is answered from memory, without a call.
Ask(what) ==
  /\ phase = "idle" /\ asked < MaxAsked
  /\ what = "tools/list" => ~Fresh
  /\ method' = what /\ asked' = asked + 1
  /\ phase' = IF session = NoSession THEN "connecting" ELSE "sending"
  /\ UNCHANGED <<session, opening, hops, result, cached, lastError, httpServer, keychain>>

\* Secrets are resolved now, and not before.
CannotAuthenticate ==
  /\ phase = "connecting" /\ HeaderError # "none"
  /\ Finish(HeaderError)
  /\ UNCHANGED <<session, opening, hops, method, asked, httpServer, keychain>>

\* "initialize"; the reply names the session.
Initialize(reply) ==
  /\ phase = "connecting" /\ HeaderError = "none"
  /\ reply \in Replies(NoSession)
  /\ IF reply = "ok"
     THEN /\ opening' = [id |-> IF KeepsSessions THEN asked ELSE 0, open |-> TRUE]
          /\ known' = IF KeepsSessions THEN known \cup {asked} ELSE known
          /\ phase' = "announcing"
          /\ UNCHANGED <<result, cached, lastError>>
     ELSE Finish(reply) /\ UNCHANGED <<opening, known>>
  /\ UNCHANGED <<session, hops, method, asked, build, keychain>>

\* "notifications/initialized": whether it arrives makes no difference.
Announce ==
  /\ phase = "announcing"
  /\ session' = opening /\ opening' = NoSession
  /\ hops' = hops + 1
  /\ phase' = "sending"
  /\ UNCHANGED <<method, result, cached, lastError, asked, httpServer, keychain>>

\* The call itself.  Only a failure in transport gives the session up.
Transmit(reply) ==
  /\ phase = "sending" /\ reply \in Replies(session)
  /\ session' = IF IsTransport(reply) THEN NoSession ELSE session
  /\ Finish(reply)
  /\ UNCHANGED <<opening, hops, method, asked, httpServer, keychain>>

Disconnect ==
  /\ phase = "idle" /\ session # NoSession
  /\ session' = NoSession
  /\ UNCHANGED <<opening, hops, phase, method, result, cached, lastError, asked, httpServer, keychain>>

-----------------------------------------------------------------------------
(* The surroundings.                                                       *)

\* Another build starts, which knows none of the sessions.
Replace ==
  /\ build < MaxBuilds
  /\ build' = build + 1 /\ known' = {}
  /\ UNCHANGED <<httpClient, keychain>>

StoreSecret ==
  /\ keychain # "value" /\ keychain' = "value"
  /\ UNCHANGED <<httpClient, httpServer>>

HttpNext ==
  \/ \E what \in {"tools/list", "tools/call"} : Ask(what)
  \/ CannotAuthenticate
  \/ \E reply \in Replies(NoSession) : Initialize(reply)
  \/ Announce
  \/ \E reply \in Replies(session) : Transmit(reply)
  \/ Disconnect \/ Replace \/ StoreSecret

HttpSpec == HttpInit /\ [][HttpNext]_hcVars

-----------------------------------------------------------------------------
(* Properties.                                                             *)

\* Tools that are handed out without asking are those of the build that runs, as
\* far as a client can know: while the server still knows the session (discovery.rs:
\* "a cache that survives a reconnect is a cache that can hand out names the server
\* no longer has").
ToolsAreCurrent == Fresh /\ session.id \in known => cached.build = build

\* A list that could not be read is reported, with its failure, and one that was is.
HealthIsTold ==
  phase = "idle" /\ method = "tools/list" /\ asked > 0 =>
    IF result = "ok" THEN session # NoSession => Health.state = "reachable"
    ELSE Health = [state |-> "unreachable", retryable |-> Retryable(result)]

\* What discovery says of a server is true of it (discovery.rs, tools and health).
DiscoveryIsTrue == ToolsAreCurrent /\ HealthIsTold
=============================================================================
