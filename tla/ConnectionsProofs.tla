-------------------------- MODULE ConnectionsProofs --------------------------
(***************************************************************************)
(* What rev-local is connected to and how that is set up, for every size:  *)
(* what discovery says of an HTTP server is true of it (McpHttp), one      *)
(* repository's rows and cursor never become another's (Repositories), a   *)
(* webhook command leaves what it was not asked to change (WebhookSwitch), *)
(* no edit loses a choice of tools made before it (McpTargets), and the    *)
(* hook installer leaves an owner's commands as they are (Hooks).          *)
(***************************************************************************)
EXTENDS McpHttp, Repositories, WebhookSwitch, McpTargets, Hooks, WellFoundedInduction, TLAPS

-----------------------------------------------------------------------------
(* The smallest and the largest of a set of numbers.                       *)

\* A set of natural numbers that is not empty has a smallest element.
LEMMA Smallest ==
  ASSUME NEW S \in SUBSET Nat, S # {}
  PROVE  \E m \in S : \A i \in S : m <= i
<1> DEFINE Less == {ss \in Nat \X Nat : ss[1] < ss[2]}
<1>1. IsWellFoundedOn(Less, Nat)
  BY NatLessThanWellFounded DEF OpToRel
<1>2. \A i, j \in Nat : i < j => <<i, j>> \in Less
  OBVIOUS
<1> HIDE DEF Less
<1>3. PICK m \in S : \A i \in S : <<i, m>> \notin Less
  BY <1>1, WFMin
<1>4. ASSUME NEW i \in S PROVE m <= i
  <2>1. i \in Nat /\ m \in Nat
    OBVIOUS
  <2>2. ~(i < m)
    BY <1>2, <1>3, <2>1
  <2> QED
    BY <2>1, <2>2
<1> QED
  BY <1>4

\* One that has an upper bound has a largest.
LEMMA Largest ==
  ASSUME NEW n \in Nat, NEW S \in SUBSET (0..n), S # {}
  PROVE  \E m \in S : \A i \in S : i <= m
<1> DEFINE T == {n - i : i \in S}
<1>0. \A i \in S : i \in Nat /\ n - i \in Nat /\ n - i \in T
  OBVIOUS
<1>1. T \in SUBSET Nat /\ T # {}
  BY <1>0
<1>2. PICK k \in T : \A j \in T : k <= j
  BY <1>1, Smallest
<1>3. PICK m \in S : k = n - m
  BY <1>2
<1>4. \A i \in S : i <= m
  <2> TAKE i \in S
  <2>1. n - m <= n - i /\ i \in Nat /\ m \in Nat
    BY <1>0, <1>2, <1>3
  <2> QED
    BY <2>1
<1> QED
  BY <1>4
-----------------------------------------------------------------------------
(* Discovery over HTTP.                                                    *)

Errors == Trouble \cup {"gone", "protocol", "malformed", "secret", "bad_header"}
OpenSessions == [id : Nat, open : {TRUE}]

HttpTypeOK ==
  /\ keychain \in {"value", "unprintable", "missing"}
  /\ session \in {NoSession} \cup OpenSessions
  /\ opening \in {NoSession} \cup OpenSessions
  /\ hops \in Nat /\ asked \in Nat /\ build \in Nat \ {0}
  /\ phase \in {"idle", "connecting", "announcing", "sending"}
  /\ method \in {"tools/list", "tools/call"}
  /\ result \in Errors \cup {"ok", "none"}
  /\ cached \in [build : Nat, generation : Nat]
  /\ lastError \in Errors \cup {"none"}
  /\ known \subseteq Nat \ {0}

\* A call is under way only once one was made; one that opens a session has none.
Underway ==
  /\ phase # "idle" => asked > 0
  /\ phase \in {"connecting", "announcing"} => session = NoSession

\* A list was read over this connection or an earlier one.
ReadEarlier == cached.generation <= hops

\* What is remembered is how the last list ended.
RemembersLast ==
  phase = "idle" /\ method = "tools/list" /\ asked > 0 =>
    /\ result = "ok" => cached # NoTools /\ cached.generation = hops
    /\ result # "ok" => cached = NoTools /\ lastError = result /\ result # "none"

HttpInv == HttpTypeOK /\ Underway /\ ReadEarlier /\ ToolsAreCurrent /\ RemembersLast

-----------------------------------------------------------------------------
\* Whatever the server sends is read as a result or as one of the errors.
LEMMA ReplyKinds == \A s : Replies(s) \subseteq Errors \cup {"ok"}
<1>1. \A body : Parsed(body) \in {"malformed", "ok", "protocol"}
  BY DEF Parsed
<1> QED
  BY <1>1 DEF Replies, Errors, Trouble

\* How a call that ends, with `ending`, leaves what is remembered.
LEMMA CallEnded ==
  ASSUME HttpInv, NEW ending \in Errors \cup {"ok"}, Finish(ending), UNCHANGED <<method, hops, asked, build>>
  PROVE  /\ phase' = "idle" /\ result' = ending
         /\ cached' \in [build : Nat, generation : Nat] /\ lastError' \in Errors \cup {"none"}
         /\ ReadEarlier' /\ RemembersLast'
         /\ cached' \in {cached, NoTools, [build |-> build, generation |-> hops]}
<1> USE DEF HttpInv, HttpTypeOK, Finish, Remember
<1>1. "none" \notin Errors /\ "ok" \notin Errors
  BY DEF Errors, Trouble
<1>2. NoTools \in [build : Nat, generation : Nat] /\ NoTools.generation = 0
  BY DEF NoTools
<1>3. CASE method = "tools/call"
  BY <1>3 DEF ReadEarlier, RemembersLast
<1>4. CASE method = "tools/list" /\ ending = "ok"
  <2>1. cached' = [build |-> build, generation |-> hops] /\ lastError' = "none"
    BY <1>4
  <2>2. cached' # NoTools
    BY <2>1 DEF NoTools
  <2> QED
    BY <1>4, <2>1, <2>2 DEF ReadEarlier, RemembersLast
<1>5. CASE method = "tools/list" /\ ending # "ok"
  <2>1. cached' = NoTools /\ lastError' = ending
    BY <1>5
  <2> QED
    BY <1>1, <1>2, <1>5, <2>1 DEF ReadEarlier, RemembersLast
<1> QED
  BY <1>3, <1>4, <1>5

-----------------------------------------------------------------------------
LEMMA HttpInitInv == HttpInit => HttpInv
  BY DEF HttpInit, HttpInv, HttpTypeOK, Underway, ReadEarlier, ToolsAreCurrent, RemembersLast, Fresh,
         NoTools, NoSession

\* Every step keeps the invariant.
LEMMA HttpStepInv == HttpInv /\ [HttpNext]_hcVars => HttpInv'
<1> SUFFICES ASSUME HttpInv, [HttpNext]_hcVars PROVE HttpInv'
  OBVIOUS
<1> USE DEF HttpInv
<1>1. ASSUME NEW what \in {"tools/list", "tools/call"}, Ask(what) PROVE HttpInv'
  BY <1>1 DEF Ask, HttpTypeOK, Underway, ReadEarlier, ToolsAreCurrent, RemembersLast, Fresh, httpServer
<1>2. CASE CannotAuthenticate
  <2>1. HeaderError \in Errors
    BY <1>2 DEF CannotAuthenticate, HeaderError, Errors
  <2>2. Finish(HeaderError) /\ UNCHANGED <<session, opening, hops, method, asked, httpServer, keychain>>
        /\ phase = "connecting"
    BY <1>2 DEF CannotAuthenticate
  <2>3. UNCHANGED <<method, hops, asked, build>>
    BY <2>2 DEF httpServer
  <2>4. /\ phase' = "idle" /\ result' = HeaderError
        /\ cached' \in [build : Nat, generation : Nat] /\ lastError' \in Errors \cup {"none"}
        /\ ReadEarlier' /\ RemembersLast'
    BY <2>1, <2>2, <2>3, CallEnded
  <2>5. session' = NoSession
    BY <2>2 DEF Underway
  <2> QED
    BY <2>1, <2>2, <2>4, <2>5 DEF HttpTypeOK, Underway, ToolsAreCurrent, Fresh, httpServer
<1>3. ASSUME NEW reply \in Replies(NoSession), Initialize(reply) PROVE HttpInv'
  <2>1. reply \in Errors \cup {"ok"}
    BY ReplyKinds
  <2>2. session' = NoSession /\ UNCHANGED <<hops, method, asked, build, keychain>> /\ asked > 0
    BY <1>3 DEF Initialize, Underway
  <2>3. CASE reply = "ok"
    <3>1. opening' \in OpenSessions
      <4>1. opening' = [id |-> IF KeepsSessions THEN asked ELSE 0, open |-> TRUE]
        BY <1>3, <2>3 DEF Initialize
      <4>2. (IF KeepsSessions THEN asked ELSE 0) \in Nat
        BY DEF HttpTypeOK
      <4> QED
        BY <4>1, <4>2 DEF OpenSessions
    <3>2. known' \subseteq Nat \ {0}
      <4>1. known' = known \/ known' = known \cup {asked}
        BY <1>3, <2>3 DEF Initialize
      <4>2. known \subseteq Nat \ {0} /\ asked \in Nat \ {0}
        BY <2>2 DEF HttpTypeOK
      <4> QED
        BY <4>1, <4>2
    <3>3. phase' = "announcing" /\ UNCHANGED <<result, cached, lastError>>
      BY <1>3, <2>3 DEF Initialize
    <3> QED
      BY <2>2, <3>1, <3>2, <3>3 DEF HttpTypeOK, Underway, ReadEarlier, ToolsAreCurrent, RemembersLast, Fresh
  <2>4. CASE reply # "ok"
    <3>1. Finish(reply) /\ UNCHANGED <<opening, known>>
      BY <1>3, <2>4 DEF Initialize
    <3>2. /\ phase' = "idle" /\ result' = reply
          /\ cached' \in [build : Nat, generation : Nat] /\ lastError' \in Errors \cup {"none"}
          /\ ReadEarlier' /\ RemembersLast'
      BY <2>1, <2>2, <3>1, CallEnded
    <3> QED
      BY <2>1, <2>2, <3>1, <3>2 DEF HttpTypeOK, Underway, ToolsAreCurrent, Fresh
  <2> QED
    BY <2>3, <2>4
<1>4. CASE Announce
  <2>1. cached.generation # hops + 1 /\ hops + 1 \in Nat
    BY DEF HttpTypeOK, ReadEarlier
  <2> QED
    BY <1>4, <2>1 DEF Announce, HttpTypeOK, Underway, ReadEarlier, ToolsAreCurrent, RemembersLast, Fresh, httpServer
<1>5. ASSUME NEW reply \in Replies(session), Transmit(reply) PROVE HttpInv'
  <2>1. reply \in Errors \cup {"ok"}
    BY ReplyKinds
  <2>2. /\ phase = "sending" /\ Finish(reply) /\ session' \in {session, NoSession}
        /\ UNCHANGED <<opening, hops, method, asked, build, known, keychain>>
    BY <1>5 DEF Transmit, httpServer
  <2>3. /\ phase' = "idle" /\ result' = reply
        /\ cached' \in [build : Nat, generation : Nat] /\ lastError' \in Errors \cup {"none"}
        /\ ReadEarlier' /\ RemembersLast'
        /\ cached' \in {cached, NoTools, [build |-> build, generation |-> hops]}
    BY <2>1, <2>2, CallEnded
  <2>4. ToolsAreCurrent'
    BY <2>2, <2>3 DEF ToolsAreCurrent, Fresh
  <2> QED
    BY <2>1, <2>2, <2>3, <2>4 DEF HttpTypeOK, Underway
<1>6. CASE Disconnect
  BY <1>6 DEF Disconnect, HttpTypeOK, Underway, ReadEarlier, ToolsAreCurrent, RemembersLast, Fresh, httpServer
<1>7. CASE Replace
  BY <1>7 DEF Replace, HttpTypeOK, Underway, ReadEarlier, ToolsAreCurrent, RemembersLast, Fresh, httpClient
<1>8. CASE StoreSecret
  BY <1>8 DEF StoreSecret, HttpTypeOK, Underway, ReadEarlier, ToolsAreCurrent, RemembersLast, Fresh, httpClient, httpServer
<1>9. CASE UNCHANGED hcVars
  BY <1>9 DEF hcVars, httpClient, httpServer, HttpTypeOK, Underway, ReadEarlier, ToolsAreCurrent, RemembersLast, Fresh
<1> QED
  BY <1>1, <1>2, <1>3, <1>4, <1>5, <1>6, <1>7, <1>8, <1>9 DEF HttpNext

\* What is remembered of the last list is what the screen is told of it.
LEMMA InvTells == HttpInv => DiscoveryIsTrue
<1> SUFFICES ASSUME HttpInv, phase = "idle", method = "tools/list", asked > 0
             PROVE  IF result = "ok" THEN session # NoSession => Health.state = "reachable"
                    ELSE Health = [state |-> "unreachable", retryable |-> Retryable(result)]
  BY DEF HttpInv, DiscoveryIsTrue, HealthIsTold
<1>1. CASE result = "ok"
  BY <1>1 DEF HttpInv, RemembersLast, Health, Fresh
<1>2. CASE result # "ok"
  <2>1. ~Fresh /\ lastError = result /\ lastError # "none"
    BY <1>2 DEF HttpInv, RemembersLast, Fresh
  <2> QED
    BY <1>2, <2>1 DEF Health
<1> QED
  BY <1>1, <1>2

-----------------------------------------------------------------------------
\* The invariant holds of every behaviour (http.rs, call; discovery.rs, tools).
THEOREM HttpInvariant == HttpSpec => []HttpInv
<1>1. HttpInit => HttpInv
  BY HttpInitInv
<1>2. HttpInv /\ [HttpNext]_hcVars => HttpInv'
  BY HttpStepInv
<1> QED
  BY <1>1, <1>2, PTL DEF HttpSpec

\* Tools that are handed out without asking are those of the server that runs, and
\* the health that is shown is that of the last list (discovery.rs, is_fresh, health).
THEOREM Discovered == HttpSpec => []DiscoveryIsTrue
<1>1. HttpInv => DiscoveryIsTrue
  BY InvTells
<1> QED
  BY <1>1, HttpInvariant, PTL

-----------------------------------------------------------------------------
(* Repositories.                                                           *)

\* Every id has a row or none; a row has the name and the kind it was added with, and
\* an id that nobody has is at the start of no history.
ReposInv ==
  /\ rows = [i \in Ids |-> rows[i]] /\ cursor = [i \in Ids |-> cursor[i]]
  /\ doing = [p \in Programs |-> doing[p]]
  /\ \A i \in Ids : rows[i] = NoRow => cursor[i] = 0
  /\ \A i \in Ids : rows[i] # NoRow => {"name", "kind"} \subseteq DOMAIN rows[i]
  /\ \A p \in Programs : doing[p].does = "add" => {"name", "kind"} \subseteq DOMAIN doing[p].row

\* The id that is given out is nobody's (repos.rs, insert: INTEGER PRIMARY KEY).
LEMMA IdIsFree == NextId \notin There
<1>1. CASE There = {}
  BY <1>1
<1>2. CASE There # {}
  <2>1. There \in SUBSET (0..MaxRepoId) /\ There \subseteq Int /\ MaxRepoId \in Nat
    BY IdsAssumption DEF There, Ids
  <2>2. \E m \in There : \A j \in There : j <= m
    BY <1>2, <2>1, Largest
  <2>3. PICK m \in There : m = (CHOOSE i \in There : \A j \in There : j <= i) /\ \A j \in There : j <= m
    BY <2>2
  <2>4. NextId = 1 + m
    BY <1>2, <2>3 DEF NextId
  <2>5. m \in Int /\ ~(1 + m <= m)
    BY <2>1
  <2> QED
    BY <2>3, <2>4, <2>5
<1> QED
  BY <1>1, <1>2
LEMMA ReposInitInv == ReposInit => ReposInv
  BY DEF ReposInit, ReposInv, Idle

\* Every step keeps the invariant.
LEMMA ReposStepInv == ReposInv /\ [ReposNext]_reVars => ReposInv'
<1> SUFFICES ASSUME ReposInv, [ReposNext]_reVars PROVE ReposInv'
  OBVIOUS
<1>0. "kind" \notin DOMAIN NoRow
  BY DEF NoRow
<1>1. ASSUME NEW p \in Programs, NEW does, NEW name, NEW id, NEW row, Begin(p, does, name, id, row),
             does = "add" => {"name", "kind"} \subseteq DOMAIN row
      PROVE  ReposInv'
  BY <1>1 DEF Begin, ReposInv, env
<1>2. ASSUME NEW p \in Programs, NEW name, NEW kind, Add(p, name, kind) PROVE ReposInv'
  <2>1. {"name", "kind"} \subseteq DOMAIN Drafted(name, kind, 0)
    BY DEF Drafted
  <2> QED
    BY <1>1, <1>2, <2>1 DEF Add
<1>3. ASSUME NEW p \in Programs, NEW name, Remove(p, name) PROVE ReposInv'
  BY <1>1, <1>3 DEF Remove
<1>4. ASSUME NEW p \in Programs, NEW name, NEW pairs, Set(p, name, pairs) PROVE ReposInv'
  BY <1>1, <1>4 DEF Set
<1>5. ASSUME NEW p \in Programs, Save(p) PROVE ReposInv'
  BY <1>1, <1>5 DEF Save
<1>6. ASSUME NEW p \in Programs, Insert(p) PROVE ReposInv'
  <2>1. CASE UNCHANGED rows
    BY <1>6, <2>1 DEF Insert, End, Idle, ReposInv
  <2>2. CASE rows' = [rows EXCEPT ![NextId] = [doing[p].row EXCEPT !.born = births + 1]]
    <3> DEFINE new == [doing[p].row EXCEPT !.born = births + 1]
    <3>1. {"name", "kind"} \subseteq DOMAIN new
      BY <1>6 DEF Insert, ReposInv
    <3>2. new # NoRow
      BY <1>0, <3>1
    <3>3. rows' = [rows EXCEPT ![NextId] = new]
      BY <2>2
    <3>4. UNCHANGED cursor /\ doing' = [doing EXCEPT ![p] = Idle]
      BY <1>6 DEF Insert, End
    <3> HIDE DEF new
    <3> QED
      BY <3>1, <3>2, <3>3, <3>4 DEF ReposInv, Idle
  <2> QED
    BY <1>6, <2>1, <2>2 DEF Insert
<1>7. ASSUME NEW p \in Programs, Gone(p) PROVE ReposInv'
  BY <1>7 DEF Gone, Delete, End, Idle, ReposInv
<1>8. ASSUME NEW p \in Programs, WriteRow(p) PROVE ReposInv'
  <2> DEFINE id == doing[p].id
             new == Updated(id, doing[p].row)
  <2>1. {"name", "kind"} \subseteq DOMAIN new
    BY DEF Updated
  <2>2. rows' = (IF id \in There THEN [rows EXCEPT ![id] = new] ELSE rows) /\ UNCHANGED cursor
        /\ doing' = [doing EXCEPT ![p] = Idle]
    BY <1>8 DEF WriteRow, End
  <2>3. new # NoRow
    BY <1>0, <2>1
  <2> HIDE DEF id, new
  <2> QED
    BY <2>1, <2>2, <2>3 DEF There, ReposInv, Idle
<1>9. ASSUME NEW p \in Programs, Die(p) PROVE ReposInv'
  BY <1>9 DEF Die, End, Idle, ReposInv
<1>10. ASSUME NEW id \in Ids, Open(id) \/ Watch(id) PROVE ReposInv'
  BY <1>10 DEF Open, Watch, ReposInv
<1>11. ASSUME NEW id \in Ids, Damage(id) PROVE ReposInv'
  <2> DEFINE new == [rows[id] EXCEPT !.config = "damaged"]
  <2>1. {"name", "kind"} \subseteq DOMAIN new
    BY <1>11 DEF Damage, There, ReposInv
  <2>2. rows' = [rows EXCEPT ![id] = new] /\ UNCHANGED <<cursor, doing>>
    BY <1>11 DEF Damage
  <2>3. new # NoRow /\ rows[id] # NoRow
    BY <1>0, <1>11, <2>1 DEF Damage, There
  <2> HIDE DEF new
  <2> QED
    BY <2>1, <2>2, <2>3 DEF ReposInv
<1>12. CASE Type \/ Close
  BY <1>12 DEF Type, Close, ReposInv
<1>13. CASE Advance
  BY <1>13 DEF Advance, There, ReposInv
<1>14. CASE UNCHANGED reVars
  BY <1>14 DEF reVars, ReposInv
<1>15. ASSUME NEW p \in Programs, NEW name \in RepoNames,
              \/ \E kind \in {"git", "svn"} : Add(p, name, kind)
              \/ Remove(p, name)
              \/ \E pairs \in Settings : Set(p, name, pairs)
       PROVE  ReposInv'
  BY <1>2, <1>3, <1>4, <1>15
<1>16. ASSUME NEW p \in Programs, Insert(p) \/ Gone(p) \/ Save(p) \/ WriteRow(p) \/ Die(p) PROVE ReposInv'
  BY <1>5, <1>6, <1>7, <1>8, <1>9, <1>16
<1> QED
  BY <1>10, <1>11, <1>12, <1>13, <1>14, <1>15, <1>16 DEF ReposNext

\* What one step does to one id.
LEMMA StepApart ==
  ASSUME ReposInv, [ReposNext]_reVars, NEW i \in Ids
  PROVE  /\ rows[i] = NoRow /\ rows'[i] # NoRow => cursor'[i] = 0
         /\ rows[i] # NoRow /\ rows'[i] # NoRow =>
              rows'[i].name = rows[i].name /\ rows'[i].kind = rows[i].kind
<1> DEFINE Goal == /\ rows[i] = NoRow /\ rows'[i] # NoRow => cursor'[i] = 0
                   /\ rows[i] # NoRow /\ rows'[i] # NoRow =>
                        rows'[i].name = rows[i].name /\ rows'[i].kind = rows[i].kind
<1>1. CASE UNCHANGED rows
  BY <1>1
<1>2. ASSUME NEW p \in Programs, Insert(p) PROVE Goal
  <2>1. CASE rows' = [rows EXCEPT ![NextId] = [doing[p].row EXCEPT !.born = births + 1]]
    <3>1. i = NextId => rows[i] = NoRow
      BY IdIsFree DEF There
    <3>2. UNCHANGED cursor /\ (rows[i] = NoRow => cursor[i] = 0)
      BY <1>2 DEF Insert, ReposInv
    <3>3. i # NextId => rows'[i] = rows[i]
      BY <2>1 DEF ReposInv
    <3> QED
      BY <3>1, <3>2, <3>3
  <2> QED
    BY <1>1, <1>2, <2>1 DEF Insert
<1>3. ASSUME NEW p \in Programs, Gone(p) PROVE Goal
  <2>1. rows' = rows \/ rows' = [rows EXCEPT ![doing[p].id] = NoRow]
    BY <1>3 DEF Gone, Delete
  <2>2. rows'[i] = rows[i] \/ rows'[i] = NoRow
    BY <2>1 DEF ReposInv
  <2>3. rows[i] = NoRow => cursor'[i] = 0
    BY <1>3 DEF Gone, Delete, ReposInv
  <2> QED
    BY <2>2, <2>3
<1>4. ASSUME NEW p \in Programs, WriteRow(p) PROVE Goal
  <2>1. rows' = rows \/ rows' = [rows EXCEPT ![doing[p].id] = Updated(doing[p].id, doing[p].row)]
    BY <1>4 DEF WriteRow
  <2>2. i # doing[p].id => rows'[i] = rows[i]
    BY <2>1 DEF ReposInv
  <2>3. Updated(i, doing[p].row).name = rows[i].name /\ Updated(i, doing[p].row).kind = rows[i].kind
    BY DEF Updated
  <2>4. rows'[i] # rows[i] => i = doing[p].id /\ rows'[i] = Updated(i, doing[p].row)
    BY <2>1, <2>2 DEF ReposInv
  <2>5. rows[i] = NoRow => rows'[i] = NoRow
    BY <1>4, <2>2 DEF WriteRow, There, ReposInv
  <2> QED
    BY <2>3, <2>4, <2>5
<1>5. ASSUME NEW id \in Ids, Damage(id) PROVE Goal
  <2> DEFINE new == [rows[id] EXCEPT !.config = "damaged"]
  <2>1. rows' = [rows EXCEPT ![id] = new] /\ rows[id] # NoRow
    BY <1>5 DEF Damage, There
  <2>2. new.name = rows[id].name /\ new.kind = rows[id].kind
    BY <2>1 DEF ReposInv
  <2> HIDE DEF new
  <2> QED
    BY <2>1, <2>2 DEF ReposInv
<1>6. \/ UNCHANGED rows
      \/ \E p \in Programs : Insert(p) \/ Gone(p) \/ WriteRow(p)
      \/ \E id \in Ids : Damage(id)
  <2>1. ASSUME NEW p \in Programs, NEW name \in RepoNames,
               \/ \E kind \in {"git", "svn"} : Add(p, name, kind)
               \/ Remove(p, name)
               \/ \E pairs \in Settings : Set(p, name, pairs)
        PROVE  UNCHANGED rows
    BY <2>1 DEF Add, Remove, Set, Begin
  <2>2. ASSUME NEW p \in Programs, Save(p) \/ Die(p) PROVE UNCHANGED rows
    BY <2>2 DEF Save, Die, Begin
  <2>3. ASSUME NEW id \in Ids, Open(id) \/ Watch(id) PROVE UNCHANGED rows
    BY <2>3 DEF Open, Watch
  <2>4. Type \/ Close \/ Advance => UNCHANGED rows
    BY DEF Type, Close, Advance
  <2>5. UNCHANGED reVars => UNCHANGED rows
    BY DEF reVars
  <2> QED
    BY <2>1, <2>2, <2>3, <2>4, <2>5 DEF ReposNext
<1> QED
  BY <1>1, <1>2, <1>3, <1>4, <1>5, <1>6

\* A repository starts unread and keeps its name and kind, however many programs write
\* at once and however often an id is given out again (repos.rs, update).
THEOREM Separate == ReposSpec => Apart
<1>1. ReposInit => ReposInv
  BY ReposInitInv
<1>2. ReposInv /\ [ReposNext]_reVars => ReposInv'
  BY ReposStepInv
<1>3. ReposInv /\ [ReposNext]_reVars =>
        [\A i \in Ids :
           /\ rows[i] = NoRow /\ rows'[i] # NoRow => cursor'[i] = 0
           /\ rows[i] # NoRow /\ rows'[i] # NoRow =>
                rows'[i].name = rows[i].name /\ rows'[i].kind = rows[i].kind]_reVars
  BY StepApart
<1> QED
  BY <1>1, <1>2, <1>3, PTL DEF ReposSpec, Apart

-----------------------------------------------------------------------------
(* The webhook switch.                                                     *)

SwitchTypeOK ==
  run \in [Runs -> [does : {"none", "start", "stop", "status"},
                    step : {"none", "survey", "switch", "tunnel", "recall"},
                    provider : Given, was : BOOLEAN,
                    found : {"unset", "true", "false"} \X Given, alone : BOOLEAN]]

StoredTypeOK == enabled \in {"unset", "true", "false"} /\ tunnel \in Given

\* A process goes through the steps of the command it runs.
StepsOf(c) ==
  /\ c.does = "status" => c.step = "survey"
  /\ c.does = "start" => c.step \in {"survey", "switch", "tunnel"}
  /\ c.does = "stop" => c.step \in {"switch", "recall", "survey"}
  /\ c.does = "none" <=> c.step = "none"

\* What a command that nobody came in between has changed by the step it is at.
KeptSoFar(c) ==
  c.step # "none" /\ c.alone =>
    /\ c.does = "status" \/ (c.does = "start" /\ c.step \in {"survey", "switch"})
         => <<enabled, tunnel>> = c.found
    /\ c.does \in {"start", "stop"} => tunnel = c.found[2]
    /\ c.does = "stop" /\ c.step # "switch" => enabled = "false"

SwitchInv ==
  /\ SwitchTypeOK /\ StoredTypeOK
  /\ \A r \in Runs : StepsOf(run[r]) /\ KeptSoFar(run[r])

LEMMA SwitchInitInv == SwitchInit => SwitchInv
  BY DEF SwitchInit, SwitchInv, SwitchTypeOK, StoredTypeOK, StepsOf, KeptSoFar, None, Given, Providers

\* Every step keeps the invariant.
LEMMA SwitchStepInv == SwitchInv /\ [SwitchNext]_wsVars => SwitchInv'
<1> SUFFICES ASSUME SwitchInv, [SwitchNext]_wsVars PROVE SwitchInv'
  OBVIOUS
<1> DEFINE Commands == [does : {"none", "start", "stop", "status"},
                        step : {"none", "survey", "switch", "tunnel", "recall"},
                        provider : Given, was : BOOLEAN,
                        found : {"unset", "true", "false"} \X Given, alone : BOOLEAN]
<1>1. None \in Commands /\ StepsOf(None)
  BY DEF None, StepsOf, Given, Providers
<1>2. ASSUME NEW r \in Runs, NEW c \in Commands, StepsOf(c), KeptSoFar(c),
             run' = [run EXCEPT ![r] = c], UNCHANGED stored
      PROVE  SwitchInv'
  <2>1. SwitchTypeOK' /\ StoredTypeOK'
    BY <1>2 DEF SwitchInv, SwitchTypeOK, StoredTypeOK, stored
  <2>2. ASSUME NEW o \in Runs PROVE StepsOf(run'[o]) /\ KeptSoFar(run[o])'
    <3>1. run'[o] = IF o = r THEN c ELSE run[o]
      BY <1>2 DEF SwitchInv, SwitchTypeOK
    <3>2. KeptSoFar(run'[o])
      BY <1>2, <3>1 DEF SwitchInv
    <3> QED
      BY <1>2, <3>1, <3>2 DEF SwitchInv, KeptSoFar, stored
  <2> QED
    BY <2>1, <2>2 DEF SwitchInv, StepsOf
<1>3. KeptSoFar(None)
  BY DEF KeptSoFar, None
<1>4. ASSUME NEW r \in Runs, NEW action \in {"start", "stop", "status"}, NEW given \in Given,
             Invoke(r, action, given)
      PROVE  SwitchInv'
  <2> DEFINE first == IF action = "stop" THEN "switch" ELSE "survey"
             takes == IF given = "none" \/ action = "stop" THEN tunnel ELSE given
             on == (enabled = "true")
             c == [does |-> action, step |-> first, provider |-> takes,
                   was |-> on, found |-> <<enabled, tunnel>>, alone |-> TRUE]
  <2>1. on \in BOOLEAN
    OBVIOUS
  <2>2. first \in {"survey", "switch"} /\ takes \in Given
    BY DEF SwitchInv, StoredTypeOK
  <2>3. (action = "stop" => first = "switch") /\ (action # "stop" => first = "survey")
    OBVIOUS
  <2>4. run' = [run EXCEPT ![r] = c] /\ UNCHANGED stored
    BY <1>4 DEF Invoke
  <2> HIDE DEF first, takes, on
  <2>5. c \in Commands
    BY <2>1, <2>2 DEF SwitchInv, StoredTypeOK
  <2>6. StepsOf(c) /\ KeptSoFar(c)
    BY <2>3 DEF StepsOf, KeptSoFar
  <2> HIDE DEF c, Commands
  <2> QED
    BY <1>2, <2>4, <2>5, <2>6
<1>5. ASSUME NEW r \in Runs, Ends(r), UNCHANGED stored PROVE SwitchInv'
  BY <1>1, <1>2, <1>3, <1>5 DEF Ends
<1>6. ASSUME NEW r \in Runs, Survey(r) PROVE SwitchInv'
  <2>1. UNCHANGED stored /\ run[r].step = "survey"
    BY <1>6 DEF Survey
  <2>2. CASE Ends(r)
    BY <1>5, <2>1, <2>2
  <2>3. CASE run[r].does = "start" /\ Goes(r, "switch")
    <3> DEFINE c == [run[r] EXCEPT !.step = "switch"]
    <3>1. c \in Commands /\ run' = [run EXCEPT ![r] = c]
      BY <2>3 DEF Goes, SwitchInv, SwitchTypeOK
    <3>2. /\ c.does = "start" /\ c.step = "switch" /\ c.found = run[r].found /\ c.alone = run[r].alone
          /\ StepsOf(run[r]) /\ KeptSoFar(run[r])
      BY <2>3 DEF SwitchInv, SwitchTypeOK
    <3> HIDE DEF c
    <3>3. StepsOf(c) /\ KeptSoFar(c)
      BY <2>1, <2>3, <3>2 DEF StepsOf, KeptSoFar
    <3> QED
      BY <1>2, <2>1, <3>1, <3>3
  <2> QED
    BY <1>6, <2>2, <2>3 DEF Survey
<1>7. ASSUME NEW r \in Runs, NEW c \in Commands, StepsOf(c), KeptSoFar(c)', Writes(r, c), StoredTypeOK'
      PROVE  SwitchInv'
  <2>1. ASSUME NEW o \in Runs, o # r
        PROVE  run'[o] \in Commands /\ StepsOf(run'[o]) /\ ~run'[o].alone
    <3>1. run'[o] = [run[o] EXCEPT !.alone = FALSE] /\ run[o] \in Commands /\ StepsOf(run[o])
      BY <1>7, <2>1 DEF Writes, SwitchInv, SwitchTypeOK
    <3> QED
      BY <3>1 DEF StepsOf
  <2>2. run'[r] = c
    BY <1>7 DEF Writes
  <2>3. SwitchTypeOK'
    <3>1. run' = [o \in Runs |-> run'[o]] /\ \A o \in Runs : run'[o] \in Commands
      BY <1>7, <2>1, <2>2 DEF Writes
    <3> HIDE DEF Commands
    <3>2. run' \in [Runs -> Commands]
      BY <3>1
    <3> QED
      BY <3>2 DEF SwitchTypeOK, Commands
  <2>4. ASSUME NEW o \in Runs PROVE StepsOf(run[o])' /\ KeptSoFar(run[o])'
    BY <1>7, <2>1, <2>2 DEF StepsOf, KeptSoFar
  <2> QED
    BY <1>7, <2>3, <2>4 DEF SwitchInv
<1>8. ASSUME NEW r \in Runs, Switch(r) PROVE SwitchInv'
  <2>1. run[r].step = "switch" /\ run[r].does \in {"start", "stop"} /\ UNCHANGED tunnel
        /\ run[r] \in Commands /\ KeptSoFar(run[r]) /\ StoredTypeOK'
    BY <1>8 DEF Switch, SwitchInv, SwitchTypeOK, StepsOf, StoredTypeOK
  <2>2. CASE run[r].does = "start"
    <3> DEFINE on == (enabled = "true")
               next == Now(r, "tunnel", run[r].provider, on)
    <3>1. on \in BOOLEAN
      OBVIOUS
    <3> HIDE DEF on
    <3>2. next \in Commands /\ StepsOf(next) /\ next.does = "start" /\ next.step = "tunnel"
          /\ next.found = run[r].found /\ next.alone = run[r].alone
      BY <2>1, <2>2, <3>1 DEF Now, StepsOf
    <3>3. Writes(r, next)
      BY <1>8, <2>2 DEF Switch, on
    <3> HIDE DEF next, Commands
    <3>4. PICK c \in Commands : c = next
      BY <3>2
    <3>5. c.alone => tunnel' = c.found[2]
      BY <2>1, <2>2, <3>2, <3>4 DEF KeptSoFar
    <3>6. KeptSoFar(c)'
      BY <3>2, <3>4, <3>5 DEF KeptSoFar
    <3> QED
      BY <1>7, <2>1, <3>2, <3>3, <3>4, <3>6
  <2>3. CASE run[r].does = "stop"
    <3> DEFINE next == Now(r, "recall", run[r].provider, run[r].was)
    <3>1. next \in Commands /\ StepsOf(next) /\ next.does = "stop" /\ next.step = "recall"
          /\ next.found = run[r].found /\ next.alone = run[r].alone
      BY <2>1, <2>3 DEF Now, StepsOf
    <3>2. enabled' = "false" /\ Writes(r, next)
      BY <1>8, <2>3 DEF Switch
    <3> HIDE DEF next, Commands
    <3>3. PICK c \in Commands : c = next
      BY <3>1
    <3>4. c.alone => tunnel' = c.found[2]
      BY <2>1, <2>3, <3>1, <3>3 DEF KeptSoFar
    <3>5. KeptSoFar(c)'
      BY <3>1, <3>2, <3>3, <3>4 DEF KeptSoFar
    <3> QED
      BY <1>7, <2>1, <3>1, <3>2, <3>3, <3>5
  <2> QED
    BY <2>1, <2>2, <2>3
<1>9. ASSUME NEW r \in Runs, Recall(r) PROVE SwitchInv'
  <2> DEFINE c == Now(r, "survey", tunnel, run[r].was)
  <2>1. run[r].step = "recall" /\ run[r].does = "stop" /\ run[r] \in Commands /\ KeptSoFar(run[r])
        /\ run' = [run EXCEPT ![r] = c] /\ UNCHANGED stored
    BY <1>9 DEF Recall, SwitchInv, SwitchTypeOK, StepsOf
  <2>2. c \in Commands /\ StepsOf(c) /\ KeptSoFar(c)
    BY <2>1 DEF Now, StepsOf, KeptSoFar, SwitchInv, StoredTypeOK
  <2> HIDE DEF c, Commands
  <2> QED
    BY <1>2, <2>1, <2>2
<1>10. ASSUME NEW r \in Runs, ChooseTunnel(r) PROVE SwitchInv'
  <2>1. Writes(r, None) /\ StoredTypeOK' /\ KeptSoFar(None)'
    BY <1>10 DEF ChooseTunnel, SwitchInv, SwitchTypeOK, StoredTypeOK, KeptSoFar, None
  <2> QED
    BY <1>1, <1>7, <2>1
<1>11. ASSUME NEW r \in Runs, Interrupted(r) PROVE SwitchInv'
  BY <1>5, <1>11 DEF Interrupted
<1>12. ASSUME UNCHANGED <<run, stored>> PROVE SwitchInv'
  BY <1>12 DEF SwitchInv, SwitchTypeOK, StoredTypeOK, StepsOf, KeptSoFar, stored
<1> QED
  BY <1>4, <1>6, <1>8, <1>9, <1>10, <1>11, <1>12 DEF SwitchNext, Change, wsVars, stored

\* A command that ends leaves what SwitchKept says.
LEMMA StepKept ==
  ASSUME SwitchInv, [SwitchNext]_wsVars, NEW r \in Runs,
         run[r].step # "none", run'[r] = None, run[r].alone
  PROVE  /\ run[r].does = "status" \/ (run[r].does = "start" /\ run[r].step = "survey")
              => <<enabled', tunnel'>> = run[r].found
         /\ run[r].does = "stop" => tunnel' = run[r].found[2]
         /\ run[r].does = "start" /\ run[r].step = "tunnel" /\ run[r].provider = run[r].found[2]
              => tunnel' = run[r].found[2]
         /\ run[r].does = "stop" /\ run[r].step = "survey" => enabled' = "false"
<1>1. StepsOf(run[r]) /\ KeptSoFar(run[r])
  BY DEF SwitchInv
<1>2. CASE UNCHANGED stored
  BY <1>1, <1>2 DEF StepsOf, KeptSoFar, stored
<1>3. ASSUME NEW o \in Runs, Switch(o) PROVE FALSE
  <2>1. run'[r].step # "none"
    BY <1>3 DEF Switch, Writes, Now, SwitchInv, SwitchTypeOK
  <2> QED
    BY <2>1 DEF None
<1>4. ASSUME NEW o \in Runs, ChooseTunnel(o) PROVE o = r /\ run[r].does = "start" /\ run[r].step = "tunnel"
  <2>1. o # r => run'[r].step # "none"
    BY <1>4 DEF ChooseTunnel, Writes, SwitchInv, SwitchTypeOK
  <2> QED
    BY <1>1, <1>4, <2>1 DEF ChooseTunnel, None, StepsOf, SwitchInv, SwitchTypeOK
<1>5. \/ UNCHANGED stored
      \/ \E o \in Runs : Switch(o) \/ ChooseTunnel(o)
  BY DEF SwitchNext, Invoke, Survey, Recall, Interrupted, Change, wsVars, stored
<1>6. CASE \E o \in Runs : ChooseTunnel(o)
  BY <1>1, <1>4, <1>6 DEF ChooseTunnel, KeptSoFar
<1> QED
  BY <1>2, <1>3, <1>5, <1>6

\* A command leaves what it was not asked to change, however it ends (webhook.rs,
\* start, stop and status).
THEOREM SwitchRemembers == SwitchSpec => SwitchKept
<1>1. SwitchInit => SwitchInv
  BY SwitchInitInv
<1>2. SwitchInv /\ [SwitchNext]_wsVars => SwitchInv'
  BY SwitchStepInv
<1>3. SwitchInv /\ [SwitchNext]_wsVars =>
        [\A r \in Runs : run[r].step # "none" /\ run'[r] = None /\ run[r].alone =>
           /\ run[r].does = "status" \/ (run[r].does = "start" /\ run[r].step = "survey")
                => <<enabled', tunnel'>> = run[r].found
           /\ run[r].does = "stop" => tunnel' = run[r].found[2]
           /\ run[r].does = "start" /\ run[r].step = "tunnel" /\ run[r].provider = run[r].found[2]
                => tunnel' = run[r].found[2]
           /\ run[r].does = "stop" /\ run[r].step = "survey" => enabled' = "false"]_wsVars
  BY StepKept
<1> QED
  BY <1>1, <1>2, <1>3, PTL DEF SwitchSpec, SwitchKept

-----------------------------------------------------------------------------
(* The tools of targets.                                                   *)

\* While an edit is `alone` in the file, what it holds is what was last written and its
\* own choice; and a whole file holds what was last written.
HeldRight(e) ==
  /\ held[e].step \in {"idle", "loaded", "writing"}
  /\ held[e].step # "idle" =>
       /\ held[e].pair \in Pairs
       /\ held[e].alone => held[e].entries = [saved EXCEPT ![held[e].pair] = held[e].entry]
TargetsInv ==
  /\ table \in TargetTables
  /\ held \in [Editors -> [step : {"idle", "loaded", "writing"}, pair : Pairs \cup {<<"none", "none">>},
                           entry : Overrides \cup {Nothing}, entries : [Pairs -> Overrides \cup {Nothing}],
                           alone : BOOLEAN]]
  /\ saved \in [Pairs -> Overrides \cup {Nothing}]
  /\ file.entries \in [Pairs -> Overrides \cup {Nothing}] /\ file.state \in {"absent", "damaged", "whole"}
  /\ file.state = "whole" => file.entries = saved
  /\ file.state = "absent" => saved = NoEntries
  /\ \A e \in Editors : HeldRight(e)
  /\ EachOnce

\* The first candidate that the server has is one of its tools.
LEMMA ResolveRight ==
  ASSUME table \in TargetTables, NEW t \in DOMAIN table \cup DOMAIN Builtins
  PROVE  /\ \A b \in Resolve(t).bound : b.tool \in DOMAIN tools /\ b.capability \notin Resolve(t).unmapped
         /\ \A a, b \in Resolve(t).bound : a.capability = b.capability => a = b
         /\ DOMAIN Profile(t).wants = {b.capability : b \in Resolve(t).bound} \cup Resolve(t).unmapped
<1> DEFINE wants == Profile(t).wants
           Offered(c) == \E i \in DOMAIN wants[c].candidates : wants[c].candidates[i] \in DOMAIN tools
           IsBest(c, i) == /\ wants[c].candidates[i] \in DOMAIN tools
                           /\ \A j \in 1..(i - 1) : wants[c].candidates[j] \notin DOMAIN tools
           Best(c) == CHOOSE i \in DOMAIN wants[c].candidates : IsBest(c, i)
           found == {c \in DOMAIN wants : Offered(c)}
           bind(c) == Binding(c, wants[c].candidates[Best(c)], wants[c].args, FALSE)
<1>1. \A c \in DOMAIN wants : wants[c].candidates \in Seq(STRING)
  BY ProfilesAssumption DEF Profile
<1>2. ASSUME NEW c \in found PROVE wants[c].candidates[Best(c)] \in DOMAIN tools
  <2> DEFINE there == {i \in DOMAIN wants[c].candidates : wants[c].candidates[i] \in DOMAIN tools}
  <2>1. there # {} /\ there \in SUBSET Nat /\ DOMAIN wants[c].candidates \subseteq 1..Len(wants[c].candidates)
    BY <1>1
  <2>2. PICK i \in there : \A j \in there : i <= j
    <3> HIDE DEF there
    <3> QED
      BY <2>1, Smallest
  <2>3. ASSUME NEW j \in 1..(i - 1), wants[c].candidates[j] \in DOMAIN tools PROVE FALSE
    <3>1. wants[c].candidates \in Seq(STRING) /\ i \in DOMAIN wants[c].candidates
      BY <1>1, <2>2
    <3>2. j \in there
      BY <2>3, <3>1
    <3>3. i <= j
      BY <2>2, <3>2
    <3> QED
      BY <2>1, <2>2, <3>3
  <2>4. \E k \in DOMAIN wants[c].candidates : IsBest(c, k)
    BY <2>2, <2>3
  <2>5. IsBest(c, Best(c))
    BY <2>4
  <2> QED
    BY <2>5
<1>3. Resolve(t) = [bound |-> {bind(c) : c \in found}, unmapped |-> DOMAIN wants \ found]
  BY DEF Resolve
<1>4. \A c \in found : bind(c).capability = c /\ bind(c).tool = wants[c].candidates[Best(c)]
  BY DEF Binding
<1> HIDE DEF bind, Best
<1>5. \A b \in Resolve(t).bound : b.capability \in found /\ b = bind(b.capability)
  BY <1>3, <1>4
<1>6. {b.capability : b \in Resolve(t).bound} = found
  BY <1>3, <1>4, <1>5
<1>7. \A b \in Resolve(t).bound : b.tool \in DOMAIN tools /\ b.capability \notin Resolve(t).unmapped
  BY <1>2, <1>3, <1>4, <1>5
<1>8. \A a, b \in Resolve(t).bound : a.capability = b.capability => a = b
  BY <1>5
<1> QED
  BY <1>3, <1>6, <1>7, <1>8

\* What was chosen takes the place of what was resolved.
LEMMA ApplyRight ==
  ASSUME NEW t, NEW mapping, NEW wants, NEW entries,
         \A b \in mapping.bound : b.tool \in DOMAIN tools /\ b.capability \notin mapping.unmapped,
         \A a, b \in mapping.bound : a.capability = b.capability => a = b,
         wants = {b.capability : b \in mapping.bound} \cup mapping.unmapped
  PROVE  LET all == Apply(t, mapping, entries)
         IN  /\ \A b \in all.bound : b.tool \in DOMAIN tools /\ b.capability \notin all.unmapped
             /\ \A a, b \in all.bound : a.capability = b.capability => a = b
             /\ wants \subseteq {b.capability : b \in all.bound} \cup all.unmapped
<1> DEFINE chosen == Chosen(t, entries)
           there == {c \in chosen : entries[<<t, c>>].tool \in DOMAIN tools}
           bind(c) == Binding(c, entries[<<t, c>>].tool, entries[<<t, c>>].args, TRUE)
           rest == {b \in mapping.bound : b.capability \notin chosen}
           all == Apply(t, mapping, entries)
<1>1. all.bound = rest \cup {bind(c) : c \in there} /\ all.unmapped = (mapping.unmapped \ chosen) \cup (chosen \ there)
  BY DEF Apply
<1>2. \A c \in there : bind(c).capability = c /\ bind(c).tool \in DOMAIN tools /\ c \in chosen
  BY DEF Binding
<1>0. \A b : b \in rest <=> b \in mapping.bound /\ b.capability \notin chosen
  OBVIOUS
<1> HIDE DEF bind, chosen, all, there, rest
<1>6. ASSUME NEW b \in all.bound
      PROVE  \/ b \in mapping.bound /\ b.capability \notin chosen
             \/ b.capability \in there /\ b = bind(b.capability) /\ b.capability \in chosen
  <2>1. b \in rest \/ \E c \in there : b = bind(c)
    BY <1>1
  <2> QED
    BY <1>0, <1>2, <2>1
<1>3. ASSUME NEW b \in all.bound PROVE b.tool \in DOMAIN tools /\ b.capability \notin all.unmapped
  BY <1>1, <1>2, <1>6
<1>4. \A a, b \in all.bound : a.capability = b.capability => a = b
  BY <1>6
<1>5. ASSUME NEW c \in wants PROVE c \in {b.capability : b \in all.bound} \cup all.unmapped
  <2>1. CASE c \in there
    <3>1. bind(c) \in all.bound /\ bind(c).capability = c
      BY <1>1, <1>2, <2>1
    <3> QED
      BY <3>1
  <2>2. CASE c \in chosen \ there
    BY <1>1, <2>2
  <2>3. CASE c \notin chosen
    <3>1. CASE c \in mapping.unmapped
      BY <1>1, <2>3, <3>1
    <3>2. CASE \E b \in mapping.bound : c = b.capability
      <4>1. PICK b \in mapping.bound : c = b.capability
        BY <3>2
      <4>2. b \in all.bound
        BY <1>0, <1>1, <2>3, <4>1
      <4> QED
        BY <4>1, <4>2
    <3> QED
      BY <3>1, <3>2
  <2> QED
    BY <2>1, <2>2, <2>3
<1> QED
  BY <1>3, <1>4, <1>5 DEF all

\* What is shown is as it should be, if nothing but what is shown and the file changes.
LEMMA ShownRight ==
  ASSUME TargetsInv, NEW t \in DOMAIN table \cup DOMAIN Builtins, NEW mapping, Show(t, mapping),
         \A b \in mapping.bound : b.tool \in DOMAIN tools /\ b.capability \notin mapping.unmapped,
         \A a, b \in mapping.bound : a.capability = b.capability => a = b,
         DOMAIN Profile(t).wants \subseteq {b.capability : b \in mapping.bound} \cup mapping.unmapped
  PROVE  EachOnce'
<1>1. /\ shown'.bound = mapping.bound /\ shown'.unmapped = mapping.unmapped
      /\ shown'.server = tools /\ shown'.target = t
  BY DEF Show
<1>2. Profile(t)' = Profile(t)
  BY DEF Show, Profile
<1> QED
  BY <1>1, <1>2 DEF EachOnce

LEMMA SameShown == ASSUME TargetsInv, UNCHANGED <<table, shown>> PROVE EachOnce'
<1>1. Profile(shown.target)' = Profile(shown.target)
  BY DEF Profile
<1> QED
  BY <1>1 DEF TargetsInv, EachOnce

\* What an edit in hand holds stays so while nobody writes.
LEMMA SameHeld ==
  ASSUME TargetsInv, UNCHANGED <<table, file, saved, held>>, EachOnce' PROVE TargetsInv'
  BY DEF TargetsInv, HeldRight

LEMMA ShowsInv ==
  ASSUME TargetsInv, NEW t \in Targets, List(t) \/ Test(t) \/ Gather(t) PROVE TargetsInv'
<1>0. table \in TargetTables
  BY DEF TargetsInv
<1>1. CASE List(t)
  <2>1. t \in DOMAIN table /\ Show(t, Resolve(t))
    BY <1>1 DEF List
  <2>2. EachOnce'
    BY <1>0, <2>1, ResolveRight, ShownRight
  <2> QED
    BY <2>1, <2>2, SameHeld DEF Show
<1>2. ASSUME t \in DOMAIN table \cup DOMAIN Builtins, Show(t, Apply(t, Resolve(t), Entries)) PROVE TargetsInv'
  <2> DEFINE all == Apply(t, Resolve(t), Entries)
  <2>1. /\ \A b \in Resolve(t).bound : b.tool \in DOMAIN tools /\ b.capability \notin Resolve(t).unmapped
        /\ \A a, b \in Resolve(t).bound : a.capability = b.capability => a = b
        /\ DOMAIN Profile(t).wants = {b.capability : b \in Resolve(t).bound} \cup Resolve(t).unmapped
    BY <1>0, <1>2, ResolveRight
  <2>2. /\ \A b \in all.bound : b.tool \in DOMAIN tools /\ b.capability \notin all.unmapped
        /\ \A a, b \in all.bound : a.capability = b.capability => a = b
        /\ DOMAIN Profile(t).wants \subseteq {b.capability : b \in all.bound} \cup all.unmapped
    BY <2>1, ApplyRight
  <2>3. Show(t, all)
    BY <1>2
  <2>4. EachOnce'
    <3> HIDE DEF all
    <3> QED
      BY <1>2, <2>2, <2>3, ShownRight
  <2> QED
    BY <1>2, <2>4, SameHeld DEF Show
<1>3. CASE Test(t)
  BY <1>2, <1>3 DEF Test
<1>4. CASE Gather(t) /\ up
  BY <1>2, <1>4 DEF Gather
<1>5. CASE Gather(t) /\ ~up
  <2>1. shown' = [Blank EXCEPT !.target = t] /\ UNCHANGED <<table, tools, up, file, saved, held, edits>>
    BY <1>5 DEF Gather
  <2>2. shown'.bound = {} /\ shown'.server = << >>
    BY <2>1 DEF Blank
  <2>3. EachOnce'
    BY <2>2 DEF EachOnce
  <2> QED
    BY <2>1, <2>3, SameHeld
<1> QED
  BY <1>1, <1>3, <1>4, <1>5

LEMMA LoadInv ==
  ASSUME TargetsInv, NEW e \in Editors, NEW pair \in Pairs, NEW entry \in Overrides \cup {Nothing}, Load(e, pair, entry)
  PROVE  TargetsInv'
<1>1. EachOnce'
  BY SameShown DEF Load
<1>2. Entries \in [Pairs -> Overrides \cup {Nothing}] /\ (file.state # "damaged" => Entries = saved)
  BY DEF Entries, TargetsInv, NoEntries
<1> DEFINE mine == [step |-> "loaded", pair |-> pair, entry |-> entry, alone |-> file.state # "damaged",
                    entries |-> [Entries EXCEPT ![pair] = entry]]
<1>3. held' = [held EXCEPT ![e] = mine] /\ UNCHANGED <<table, file, saved>>
  BY DEF Load
<1>4. mine \in [step : {"idle", "loaded", "writing"}, pair : Pairs \cup {<<"none", "none">>},
                entry : Overrides \cup {Nothing}, entries : [Pairs -> Overrides \cup {Nothing}], alone : BOOLEAN]
  BY <1>2
<1>5. /\ mine.step = "loaded" /\ mine.pair = pair /\ mine.entry = entry
      /\ mine.alone => mine.entries = [saved EXCEPT ![pair] = entry]
  BY <1>2
<1> HIDE DEF mine
<1>6. \A o \in Editors : HeldRight(o)'
  BY <1>3, <1>5 DEF TargetsInv, HeldRight
<1> QED
  BY <1>1, <1>3, <1>4, <1>6 DEF TargetsInv

LEMMA WritesInv ==
  ASSUME TargetsInv, NEW e \in Editors, Truncate(e) \/ Store(e) \/ EditorDies(e) PROVE TargetsInv'
<1>1. EachOnce'
  BY SameShown DEF Truncate, Store, EditorDies
<1> DEFINE Edits == [step : {"idle", "loaded", "writing"}, pair : Pairs \cup {<<"none", "none">>},
                     entry : Overrides \cup {Nothing}, entries : [Pairs -> Overrides \cup {Nothing}], alone : BOOLEAN]
<1>2. held \in [Editors -> Edits] /\ \A o \in Editors : HeldRight(o)
  BY DEF TargetsInv
<1>3. AtRest \in Edits /\ AtRest.step = "idle"
  BY DEF AtRest, NoEntries
<1>4. \A h \in Edits : /\ [h EXCEPT !.alone = FALSE] \in Edits /\ [h EXCEPT !.step = "writing"] \in Edits
                       /\ [h EXCEPT !.alone = FALSE].step = h.step /\ [h EXCEPT !.alone = FALSE].pair = h.pair
                       /\ [h EXCEPT !.alone = FALSE].alone = FALSE
                       /\ [h EXCEPT !.step = "writing"].step = "writing" /\ [h EXCEPT !.step = "writing"].pair = h.pair
                       /\ [h EXCEPT !.step = "writing"].alone = h.alone /\ [h EXCEPT !.step = "writing"].entry = h.entry
                       /\ [h EXCEPT !.step = "writing"].entries = h.entries
  OBVIOUS
<1>5. held[e].entries \in [Pairs -> Overrides \cup {Nothing}]
  BY <1>2
<1> HIDE DEF Edits
<1>6. CASE Truncate(e)
  <2>1. /\ held' = [o \in Editors |-> IF o = e THEN [held[e] EXCEPT !.step = "writing"]
                                      ELSE [held[o] EXCEPT !.alone = FALSE]]
        /\ held[e].step = "loaded" /\ saved' = saved /\ table' = table
        /\ file' = [state |-> "damaged", entries |-> NoEntries]
    BY <1>6 DEF Truncate
  <2>2. held' \in [Editors -> Edits]
    BY <1>2, <1>4, <2>1
  <2>3. ASSUME NEW o \in Editors PROVE HeldRight(o)'
    <3>1. CASE o = e
      BY <1>2, <1>4, <2>1, <3>1 DEF HeldRight
    <3>2. CASE o # e
      BY <1>2, <1>4, <2>1, <3>2 DEF HeldRight
    <3> QED
      BY <3>1, <3>2
  <2>4. file'.entries \in [Pairs -> Overrides \cup {Nothing}] /\ file'.state = "damaged"
    BY <2>1 DEF NoEntries
  <2> QED
    BY <1>1, <2>1, <2>2, <2>3, <2>4 DEF TargetsInv, Edits
<1>7. CASE Store(e)
  <2>1. /\ held' = [o \in Editors |-> IF o = e THEN AtRest ELSE [held[o] EXCEPT !.alone = FALSE]]
        /\ file' = [state |-> "whole", entries |-> held[e].entries] /\ saved' = held[e].entries
        /\ table' = table
    BY <1>7 DEF Store, Written
  <2>2. held' \in [Editors -> Edits]
    BY <1>2, <1>3, <1>4, <2>1
  <2>3. ASSUME NEW o \in Editors PROVE HeldRight(o)'
    <3>1. CASE o = e
      BY <1>3, <2>1, <3>1 DEF HeldRight
    <3>2. CASE o # e
      BY <1>2, <1>4, <2>1, <3>2 DEF HeldRight
    <3> QED
      BY <3>1, <3>2
  <2> QED
    BY <1>1, <1>5, <2>1, <2>2, <2>3 DEF TargetsInv, Edits
<1>8. CASE EditorDies(e)
  <2>1. held' = [held EXCEPT ![e] = AtRest] /\ UNCHANGED <<table, file, saved>>
    BY <1>8 DEF EditorDies
  <2>2. held' \in [Editors -> Edits]
    BY <1>2, <1>3, <2>1
  <2>3. \A o \in Editors : HeldRight(o)'
    BY <1>2, <1>3, <2>1 DEF HeldRight
  <2> QED
    BY <1>1, <2>1, <2>2, <2>3 DEF TargetsInv, Edits
<1> QED
  BY <1>6, <1>7, <1>8

LEMMA TargetsInitInv == TargetsInit => TargetsInv
<1> SUFFICES ASSUME TargetsInit PROVE TargetsInv
  OBVIOUS
<1>1. EachOnce
  BY DEF TargetsInit, EachOnce, Blank
<1> QED
  BY <1>1 DEF TargetsInit, TargetsInv, HeldRight, AtRest, NoEntries

LEMMA TargetsStepInv == TargetsInv /\ [TargetsNext]_mtVars => TargetsInv'
<1> SUFFICES ASSUME TargetsInv, [TargetsNext]_mtVars PROVE TargetsInv'
  OBVIOUS
<1>1. CASE Rebuild \/ ComeOrGo \/ UNCHANGED mtVars
  <2>1. UNCHANGED <<table, shown, file, saved, held>>
    BY <1>1 DEF Rebuild, ComeOrGo, mtVars
  <2> QED
    BY <2>1, SameShown, SameHeld
<1>2. CASE \E e \in Editors, pair \in Pairs, entry \in Overrides : Choose(e, pair, entry)
  BY <1>2, LoadInv DEF Choose
<1>3. CASE \E pair \in Pairs : Clear(pair)
  BY <1>3, LoadInv DEF Clear, Editors
<1>4. CASE \E e \in Editors : Truncate(e) \/ Store(e) \/ EditorDies(e)
  BY <1>4, WritesInv
<1>5. CASE \E t \in Targets : List(t) \/ Test(t) \/ Gather(t)
  BY <1>5, ShowsInv
<1> QED
  BY <1>1, <1>2, <1>3, <1>4, <1>5 DEF TargetsNext

\* What is shown is right, and what an edit holds is what it read and its own choice.
THEOREM TargetsInvariant == TargetsSpec => []TargetsInv
<1> QED
  BY TargetsInitInv, TargetsStepInv, PTL DEF TargetsSpec

\* Every mapping that is shown goes one way for each capability, and an edit that nobody
\* came in between changes its own choice alone (capability.rs, overrides.rs).
THEOREM ChoicesKept == TargetsSpec => TargetsKept
<1>1. ASSUME TargetsInv, [TargetsNext]_mtVars, NEW e \in Editors PROVE OthersKept(e)
  <2> SUFFICES ASSUME held[e].step = "writing", held'[e].step = "idle", saved' # saved, held[e].alone
               PROVE  saved' = [saved EXCEPT ![held[e].pair] = held[e].entry]
    BY DEF OthersKept
  <2>1. PICK o \in Editors : Store(o)
    <3>1. ASSUME NEW o \in Editors, Truncate(o) \/ EditorDies(o) PROVE saved' = saved
      BY <3>1 DEF Truncate, EditorDies
    <3>2. ASSUME NEW t \in Targets, List(t) \/ Test(t) \/ Gather(t) PROVE saved' = saved
      BY <3>2 DEF List, Test, Gather, Show
    <3>3. ASSUME NEW o \in Editors, NEW pair \in Pairs, NEW entry, Load(o, pair, entry) PROVE saved' = saved
      BY <3>3 DEF Load
    <3>4. Rebuild \/ ComeOrGo \/ UNCHANGED mtVars => saved' = saved
      BY DEF Rebuild, ComeOrGo, mtVars
    <3> QED
      BY <1>1, <3>1, <3>2, <3>3, <3>4 DEF TargetsNext, Choose, Clear, Editors
  <2>2. o = e
    <3>1. CASE o # e
      <4>1. held'[e] = [held[e] EXCEPT !.alone = FALSE]
        BY <2>1, <3>1 DEF Store
      <4>2. held'[e].step = held[e].step
        BY <1>1, <4>1 DEF TargetsInv
      <4> QED
        BY <4>2
    <3> QED
      BY <3>1
  <2>3. saved' = held[e].entries
    BY <2>1, <2>2 DEF Store, Written
  <2> QED
    BY <1>1, <2>3 DEF TargetsInv, HeldRight
<1>2. TargetsInv /\ TargetsInv' /\ [TargetsNext]_mtVars => [EachOnce' /\ \A e \in Editors : OthersKept(e)]_mtVars
  BY <1>1 DEF TargetsInv
<1> QED
  BY <1>2, TargetsInvariant, PTL DEF TargetsSpec, TargetsKept

-----------------------------------------------------------------------------
(* The hooks.                                                              *)

\* A hook file is lines, or not there; a command knows what it installs.
HooksInv ==
  /\ hooks \in [Names -> Seq(Lines) \cup {Absent}] /\ readable \in [Names -> BOOLEAN]
  /\ work \in Seq(Names)
  /\ command.kind = "install" => command.body \in BlockBodies
  /\ changes \in Nat

LEMMA Words ==
  /\ "begin" \in Lines /\ "end" \in Lines /\ "note" \in Lines /\ "exit" \in Lines
  /\ ~Mine("begin") /\ ~Mine("end") /\ ~Mine("note") /\ ~Mine("exit")
  /\ \A body \in BlockBodies : body \in Lines /\ ~Mine(body) /\ body \notin {"begin", "end", "note", "exit"}
  /\ \A text \in Seq(Lines) : text # Absent
<1>1. \A text \in Seq(Lines) : text # Absent
  <2> SUFFICES ASSUME NEW text \in Seq(Lines), text = Absent PROVE FALSE
    OBVIOUS
  <2>1. text[1] = "absent" /\ 1 \in DOMAIN text
    BY DEF Absent
  <2>2. text[1] \in Lines
    BY <2>1
  <2> QED
    BY <2>1, <2>2, LinesAssumption
<1> QED
  BY <1>1, LinesAssumption DEF Lines, Inert, Mine

\* What comes of a text some lines of which make place for others.
LEMMA Spliced ==
  ASSUME NEW S, NEW text \in Seq(S), NEW others \in Seq(S), NEW many \in Nat,
         NEW i \in 1..(Len(text) + 1), i + many <= Len(text) + 1
  PROVE  LET new == Splice(text, i, many, others)
         IN  /\ new \in Seq(S) /\ Len(new) = Len(text) - many + Len(others)
             /\ \A k \in 1..(i - 1) : new[k] = text[k]
             /\ \A k \in 1..Len(others) : new[i - 1 + k] = others[k]
             /\ \A k \in (i + many)..Len(text) : new[k - many + Len(others)] = text[k]
<1> DEFINE new == Splice(text, i, many, others)
           piece(k) == CASE k < i -> text[k]
                         [] k \in i..(i + Len(others) - 1) -> others[k - i + 1]
                         [] OTHER -> text[k - Len(others) + many]
           size == Len(text) - many + Len(others)
<1>1. size \in Nat /\ Len(text) \in Nat /\ Len(others) \in Nat
  OBVIOUS
<1>2. \A k \in 1..size : piece(k) \in S
  <2> TAKE k \in 1..size
  <2>1. CASE k < i
    BY <1>1, <2>1
  <2>2. CASE k \in i..(i + Len(others) - 1)
    BY <1>1, <2>2
  <2>3. CASE k >= i + Len(others)
    BY <1>1, <2>3
  <2> QED
    BY <1>1, <2>1, <2>2, <2>3
<1>3. new = [k \in 1..size |-> piece(k)]
  BY DEF Splice
<1>4. \A k \in 1..(i - 1) : k \in 1..size /\ piece(k) = text[k]
  BY <1>1
<1>5. \A k \in 1..Len(others) : i - 1 + k \in 1..size /\ piece(i - 1 + k) = others[k]
  <2> TAKE k \in 1..Len(others)
  <2>1. i - 1 + k \in i..(i + Len(others) - 1) /\ i - 1 + k \in 1..size /\ (i - 1 + k) - i + 1 = k /\ ~(i - 1 + k < i)
    BY <1>1
  <2> QED
    BY <2>1
<1>6. \A k \in (i + many)..Len(text) : k - many + Len(others) \in 1..size /\ piece(k - many + Len(others)) = text[k]
  <2> TAKE k \in (i + many)..Len(text)
  <2>1. /\ k - many + Len(others) \in 1..size /\ (k - many + Len(others)) - Len(others) + many = k
        /\ ~(k - many + Len(others) < i) /\ k - many + Len(others) \notin i..(i + Len(others) - 1)
    BY <1>1
  <2> QED
    BY <2>1
<1> HIDE DEF piece, new, size
<1>7. new \in [1..size -> S] /\ \A k \in 1..size : new[k] = piece(k)
  BY <1>2, <1>3
<1>8. new \in Seq(S) /\ Len(new) = size
  BY <1>1, <1>7
<1> QED
  BY <1>4, <1>5, <1>6, <1>7, <1>8 DEF new, size

\* Where a line is, if it is there.
LEMMA FirstIs ==
  ASSUME NEW S, NEW text \in Seq(S), NEW line, Has(text, line)
  PROVE  /\ First(text, line) \in DOMAIN text /\ text[First(text, line)] = line
         /\ \A j \in 1..(First(text, line) - 1) : text[j] # line
<1> DEFINE there == {i \in DOMAIN text : text[i] = line}
<1>1. there \in SUBSET Nat /\ there # {}
  BY DEF Has
<1>2. PICK i \in there : \A j \in there : i <= j
  <2> HIDE DEF there
  <2> QED
    BY <1>1, Smallest
<1>3. ASSUME NEW j \in 1..(i - 1), text[j] = line PROVE FALSE
  <2>1. j \in there /\ i \in Nat /\ j \in Nat /\ j < i
    BY <1>2, <1>3
  <2>2. i <= j
    BY <1>2, <2>1
  <2> QED
    BY <2>1, <2>2
<1>4. \E k \in DOMAIN text : text[k] = line /\ \A j \in 1..(k - 1) : text[j] # line
  BY <1>2, <1>3
<1> QED
  BY <1>4 DEF First

\* One line, and it is the first.
LEMMA OnlyIs ==
  ASSUME NEW S, NEW text \in Seq(S), NEW line, NEW i \in DOMAIN text, text[i] = line,
         \A j \in DOMAIN text : text[j] = line => j = i
  PROVE  First(text, line) = i
<1>1. Has(text, line)
  BY DEF Has
<1> QED
  BY <1>1, FirstIs

\* No command of the owner is lost that is not among the lines that are taken out.
LEMMA SplicedCommands ==
  ASSUME NEW text \in Seq(Lines), NEW others \in Seq(Lines), NEW many \in Nat,
         NEW i \in 1..(Len(text) + 1), i + many <= Len(text) + 1,
         \A k \in i..(i + many - 1) : ~Mine(text[k]),
         \A k \in 1..Len(others) : ~Mine(others[k]),
         NEW new, new = Splice(text, i, many, others)
  PROVE  SameCommands(text, new)
<1> DEFINE at(k) == IF k < i THEN k ELSE k - many + Len(others)
           place == [k \in Owned(text) |-> at(k)]
<1>0. /\ new \in Seq(Lines) /\ Len(new) = Len(text) - many + Len(others) /\ Len(text) \in Nat /\ Len(others) \in Nat
      /\ \A k \in 1..(i - 1) : new[k] = text[k]
      /\ \A k \in 1..Len(others) : new[i - 1 + k] = others[k]
      /\ \A k \in (i + many)..Len(text) : new[k - many + Len(others)] = text[k]
  <2>1. Len(text) \in Nat /\ Len(others) \in Nat
    OBVIOUS
  <2>2. LET spliced == Splice(text, i, many, others)
        IN  /\ spliced \in Seq(Lines) /\ Len(spliced) = Len(text) - many + Len(others)
            /\ \A k \in 1..(i - 1) : spliced[k] = text[k]
            /\ \A k \in 1..Len(others) : spliced[i - 1 + k] = others[k]
            /\ \A k \in (i + many)..Len(text) : spliced[k - many + Len(others)] = text[k]
    BY Spliced
  <2> QED
    BY <2>1, <2>2
<1>1. /\ \A k : k \in Owned(text) <=> k \in 1..Len(text) /\ Mine(text[k])
      /\ \A k : k \in Owned(new) <=> k \in 1..Len(new) /\ Mine(new[k])
  BY <1>0, Words DEF Owned
<1>2. ASSUME NEW k \in Owned(text)
      PROVE  at(k) \in Owned(new) /\ new[at(k)] = text[k] /\ (k < i \/ k >= i + many) /\ k \in 1..Len(text)
  <2>1. k \in 1..Len(text) /\ Mine(text[k]) /\ (k < i \/ k >= i + many)
    BY <1>1
  <2>2. at(k) \in 1..Len(new) /\ new[at(k)] = text[k]
    BY <1>0, <2>1
  <2> QED
    BY <1>1, <2>1, <2>2
<1>3. ASSUME NEW k \in Owned(new) PROVE \E m \in Owned(text) : at(m) = k
  <2>1. k \in 1..Len(new) /\ Mine(new[k])
    BY <1>1
  <2>2. CASE k < i
    <3>1. k \in 1..Len(text) /\ new[k] = text[k] /\ at(k) = k
      BY <1>0, <2>1, <2>2
    <3> QED
      BY <1>1, <2>1, <3>1
  <2>3. CASE k >= i /\ k < i + Len(others)
    <3>1. k - i + 1 \in 1..Len(others) /\ i - 1 + (k - i + 1) = k
      BY <1>0, <2>1, <2>3
    <3>2. new[k] = others[k - i + 1]
      BY <1>0, <3>1
    <3> QED
      BY <2>1, <3>1, <3>2
  <2>4. CASE k >= i + Len(others)
    <3> DEFINE m == k + many - Len(others)
    <3>1. m \in (i + many)..Len(text) /\ m - many + Len(others) = k /\ m \in 1..Len(text) /\ ~(m < i)
      BY <1>0, <2>1, <2>4
    <3> HIDE DEF m
    <3>2. new[k] = text[m] /\ at(m) = k
      BY <1>0, <3>1
    <3> QED
      BY <1>1, <2>1, <3>1, <3>2
  <2> QED
    BY <1>0, <2>1, <2>2, <2>3, <2>4
<1>4. ASSUME NEW k \in Owned(text), NEW m \in Owned(text), k < m PROVE at(k) < at(m)
  BY <1>0, <1>2, <1>4
<1> HIDE DEF at
<1>5. place \in [Owned(text) -> Owned(new)] /\ \A k \in Owned(text) : place[k] = at(k)
  BY <1>2
<1> HIDE DEF place
<1>6. /\ \A k \in Owned(text) : new[place[k]] = text[k]
      /\ \A k, m \in Owned(text) : k < m => place[k] < place[m]
      /\ \A k \in Owned(new) : \E m \in Owned(text) : place[m] = k
  BY <1>2, <1>3, <1>4, <1>5
<1> QED
  BY <1>5, <1>6 DEF SameCommands

LEMMA SameSelf == ASSUME NEW text PROVE SameCommands(text, text)
<1> DEFINE place == [k \in Owned(text) |-> k]
<1>1. place \in [Owned(text) -> Owned(text)] /\ \A k \in Owned(text) : place[k] = k
  OBVIOUS
<1> HIDE DEF place
<1> QED
  BY <1>1 DEF SameCommands

LEMMA NoCommands == ASSUME NEW old, NEW new, Owned(old) = {}, Owned(new) = {} PROVE SameCommands(old, new)
<1> DEFINE place == [k \in {} |-> k]
<1>1. place \in [Owned(old) -> Owned(new)]
  OBVIOUS
<1> HIDE DEF place
<1> QED
  BY <1>1 DEF SameCommands

\* The same, read from the new text.
Placed(new, text, i, many, others) ==
  /\ new \in Seq(Lines) /\ Len(new) = Len(text) - many + Len(others)
  /\ \A k \in 1..(i - 1) : new[k] = text[k]
  /\ \A k \in 1..Len(others) : new[i - 1 + k] = others[k]
  /\ \A k \in 1..Len(new) : k >= i + Len(others) =>
       /\ k + many - Len(others) \in (i + many)..Len(text)
       /\ new[k] = text[k + many - Len(others)]

LEMMA SplicedLines ==
  ASSUME NEW text \in Seq(Lines), NEW others \in Seq(Lines), NEW many \in Nat,
         NEW i \in 1..(Len(text) + 1), i + many <= Len(text) + 1
  PROVE  Placed(Splice(text, i, many, others), text, i, many, others)
<1>1. Len(text) \in Nat /\ Len(others) \in Nat
  OBVIOUS
<1> DEFINE new == Splice(text, i, many, others)
<1>2. /\ new \in Seq(Lines) /\ Len(new) = Len(text) - many + Len(others)
      /\ \A k \in 1..(i - 1) : new[k] = text[k]
      /\ \A k \in 1..Len(others) : new[i - 1 + k] = others[k]
      /\ \A k \in (i + many)..Len(text) : new[k - many + Len(others)] = text[k]
  BY Spliced
<1> HIDE DEF new
<1>3. ASSUME NEW k \in 1..Len(new), k >= i + Len(others)
      PROVE  /\ k + many - Len(others) \in (i + many)..Len(text)
             /\ new[k] = text[k + many - Len(others)]
  <2>1. Len(new) = Len(text) - many + Len(others)
    BY <1>2
  <2>2. /\ k + many - Len(others) \in (i + many)..Len(text)
        /\ (k + many - Len(others)) - many + Len(others) = k
    BY <1>1, <1>3, <2>1
  <2> QED
    BY <1>2, <2>2
<1>4. \A k \in 1..Len(new) : k >= i + Len(others) =>
        /\ k + many - Len(others) \in (i + many)..Len(text)
        /\ new[k] = text[k + many - Len(others)]
  BY <1>3
<1> QED
  BY <1>1, <1>2, <1>4 DEF new, Placed

\* A block put where no other is left is the only one, and whole; it runs when no exit
\* comes before its place.
LEMMA Blocked ==
  ASSUME NEW text \in Seq(Lines), NEW body \in BlockBodies, NEW many \in Nat,
         NEW i \in 1..(Len(text) + 1), i + many <= Len(text) + 1,
         \A k \in 1..Len(text) : k < i \/ k >= i + many => text[k] \notin {"begin", "end"},
         NEW new, new = Splice(text, i, many, Block(body))
  PROVE  /\ new \in Seq(Lines) /\ Tidy(new) /\ Has(new, "begin") /\ Has(new, body)
         /\ (\A k \in 1..(i - 1) : text[k] # "exit") => Live(new)
<1> DEFINE others == Block(body)
<1>1. others \in Seq(Lines) /\ Len(others) = 3 /\ others[1] = "begin" /\ others[2] = body /\ others[3] = "end"
  BY Words DEF Block
<1>2. new = Splice(text, i, many, others)
  OBVIOUS
<1> HIDE DEF others
<1>3. /\ new \in Seq(Lines) /\ Len(new) = Len(text) - many + Len(others)
      /\ \A k \in 1..(i - 1) : new[k] = text[k]
      /\ \A k \in 1..Len(others) : new[i - 1 + k] = others[k]
      /\ \A k \in 1..Len(new) : k >= i + Len(others) =>
           /\ k + many - Len(others) \in (i + many)..Len(text)
           /\ new[k] = text[k + many - Len(others)]
  <2>1. Placed(Splice(text, i, many, others), text, i, many, others)
    BY <1>1, SplicedLines
  <2>2. Placed(new, text, i, many, others)
    BY <1>2, <2>1
  <2> QED
    BY <2>2 DEF Placed
<1>4. Len(text) \in Nat /\ i \in Nat /\ Len(new) = Len(text) - many + 3 /\ DOMAIN new = 1..Len(new)
  BY <1>1, <1>3
<1>5. /\ i \in 1..Len(new) /\ i + 1 \in 1..Len(new) /\ i + 2 \in 1..Len(new)
      /\ new[i] = "begin" /\ new[i + 1] = body /\ new[i + 2] = "end"
  <2>1. /\ i \in 1..Len(new) /\ i + 1 \in 1..Len(new) /\ i + 2 \in 1..Len(new)
        /\ i - 1 + 1 = i /\ i - 1 + 2 = i + 1 /\ i - 1 + 3 = i + 2
    BY <1>4
  <2>2. 1 \in 1..Len(others) /\ 2 \in 1..Len(others) /\ 3 \in 1..Len(others)
    BY <1>1
  <2>3. new[i - 1 + 1] = others[1] /\ new[i - 1 + 2] = others[2] /\ new[i - 1 + 3] = others[3]
    BY <1>3, <2>2
  <2> QED
    BY <1>1, <2>1, <2>3
<1>6. body \notin {"begin", "end", "note", "exit"} /\ ~Mine(body) /\ ~Mine("begin") /\ ~Mine("end")
  BY Words
<1>7. ASSUME NEW k \in 1..Len(new), k < i \/ k > i + 2
      PROVE  /\ new[k] \notin {"begin", "end"}
             /\ k < i => k \in 1..(i - 1) /\ new[k] = text[k]
  <2>1. CASE k < i
    <3>1. k \in 1..(i - 1) /\ k \in 1..Len(text)
      BY <1>4, <2>1
    <3> QED
      BY <1>3, <2>1, <3>1
  <2>2. CASE k > i + 2
    <3> DEFINE m == k + many - Len(others)
    <3>1. m \in (i + many)..Len(text) /\ new[k] = text[m]
      BY <1>1, <1>3, <1>4, <2>2
    <3>2. m \in 1..Len(text) /\ m >= i + many
      BY <1>4, <3>1
    <3> HIDE DEF m
    <3> QED
      BY <1>4, <2>2, <3>1, <3>2
  <2> QED
    BY <1>7, <2>1, <2>2
<1>8. ASSUME NEW k \in 1..Len(new)
      PROVE  k = i \/ k = i + 1 \/ k = i + 2 \/ k < i \/ k > i + 2
  BY <1>4
<1>9. \A k \in DOMAIN new : (new[k] = "begin" => k = i) /\ (new[k] = "end" => k = i + 2)
  BY <1>4, <1>5, <1>6, <1>7, <1>8
<1>10. First(new, "begin") = i
  <2>1. new \in Seq(Lines) /\ i \in DOMAIN new /\ new[i] = "begin" /\ \A k \in DOMAIN new : new[k] = "begin" => k = i
    BY <1>3, <1>4, <1>5, <1>9
  <2> QED
    BY <2>1, OnlyIs
<1>11. First(new, "end") = i + 2
  <2>1. new \in Seq(Lines) /\ i + 2 \in DOMAIN new /\ new[i + 2] = "end" /\ \A k \in DOMAIN new : new[k] = "end" => k = i + 2
    BY <1>3, <1>4, <1>5, <1>9
  <2> QED
    BY <2>1, OnlyIs
<1>12. Has(new, "begin") /\ Has(new, "end") /\ Has(new, body)
  BY <1>4, <1>5 DEF Has
<1>13. \A k \in i..(i + 2) : ~Mine(new[k])
  <2>1. \A k \in i..(i + 2) : k = i \/ k = i + 1 \/ k = i + 2
    BY <1>4
  <2> QED
    BY <1>5, <1>6, <2>1
<1>14. Tidy(new)
  <2>1. Marked(new)
    BY <1>4, <1>10, <1>11, <1>12 DEF Marked
  <2> QED
    BY <1>9, <1>10, <1>11, <1>13, <2>1 DEF Tidy, Once
<1>15. ASSUME \A k \in 1..(i - 1) : text[k] # "exit" PROVE Live(new)
  <2>1. \A k \in 1..Len(new) : new[k] = "exit" => k > i
    BY <1>4, <1>5, <1>6, <1>7, <1>8, <1>15
  <2> QED
    BY <1>4, <1>10, <2>1 DEF Live
<1> QED
  BY <1>3, <1>12, <1>14, <1>15

\* Where a tidy text has its block.
LEMMA BlockIs ==
  ASSUME NEW text \in Seq(Lines), Tidy(text), Has(text, "begin") \/ Has(text, "end")
  PROVE  /\ Marked(text)
         /\ BlockSize(text) \in Nat /\ BlockSize(text) >= 1
         /\ First(text, "begin") \in 1..(Len(text) + 1) /\ First(text, "begin") \in 1..Len(text)
         /\ First(text, "begin") + BlockSize(text) <= Len(text) + 1
         /\ \A k \in First(text, "begin")..(First(text, "begin") + BlockSize(text) - 1) : ~Mine(text[k])
         /\ \A k \in 1..Len(text) :
              k < First(text, "begin") \/ k >= First(text, "begin") + BlockSize(text) => text[k] \notin {"begin", "end"}
<1>1. text # Absent
  BY Words
<1>2. /\ Once(text, "begin") /\ Once(text, "end") /\ Marked(text)
      /\ \A i \in First(text, "begin")..First(text, "end") : ~Mine(text[i])
  BY <1>1 DEF Tidy
<1>3. Has(text, "begin") /\ Has(text, "end") /\ First(text, "begin") <= First(text, "end")
  BY <1>2 DEF Marked
<1>4. PICK f \in 1..Len(text) : f = First(text, "begin") /\ text[f] = "begin"
  BY <1>3, FirstIs
<1>5. PICK e \in 1..Len(text) : e = First(text, "end") /\ text[e] = "end"
  BY <1>3, FirstIs
<1>6. f <= e /\ BlockSize(text) = e - f + 1 /\ f \in Nat /\ e \in Nat /\ Len(text) \in Nat
  BY <1>3, <1>4, <1>5 DEF BlockSize
<1>7. \A k \in 1..Len(text) : (text[k] = "begin" => k = f) /\ (text[k] = "end" => k = e)
  BY <1>2, <1>4, <1>5 DEF Once
<1>8. f + BlockSize(text) = e + 1 /\ f + BlockSize(text) - 1 = e
  BY <1>6
<1>9. \A k \in f..e : ~Mine(text[k])
  BY <1>2, <1>4, <1>5
<1> DEFINE size == BlockSize(text)
<1>10. \A k \in 1..Len(text) : k < f \/ k >= f + size => text[k] \notin {"begin", "end"}
  <2>1. \A k \in 1..Len(text) : k < f \/ k >= f + size => k # f /\ k # e
    BY <1>6, <1>8
  <2> QED
    BY <1>7, <2>1
<1>11. size \in Nat /\ size >= 1 /\ f \in 1..(Len(text) + 1) /\ f + size <= Len(text) + 1
  BY <1>5, <1>6
<1>12. \A k \in f..(f + size - 1) : ~Mine(text[k])
  BY <1>8, <1>9
<1> HIDE DEF size
<1>13. f \in 1..Len(text) /\ f = First(text, "begin")
  BY <1>4
<1> QED
  BY <1>2, <1>10, <1>11, <1>12, <1>13 DEF size

\* The place of a block, in any text that has its marks in their order.
LEMMA MarkedPlace ==
  ASSUME NEW text \in Seq(Lines), Marked(text)
  PROVE  /\ BlockSize(text) \in Nat /\ First(text, "begin") \in 1..(Len(text) + 1)
         /\ First(text, "begin") + BlockSize(text) <= Len(text) + 1
<1>1. Has(text, "begin") /\ Has(text, "end") /\ First(text, "begin") <= First(text, "end")
  BY DEF Marked
<1>2. First(text, "begin") \in 1..Len(text)
  BY <1>1, FirstIs
<1>3. First(text, "end") \in 1..Len(text)
  BY <1>1, FirstIs
<1> QED
  BY <1>1, <1>2, <1>3 DEF BlockSize

\* Where a block is inserted.
LEMMA InsertPlace ==
  ASSUME NEW text \in Seq(Lines)
  PROVE  /\ InsertAt(text) \in 1..(Len(text) + 1)
         /\ ExitsLast(text) => \A k \in 1..(InsertAt(text) - 1) : text[k] # "exit"
<1> DEFINE ends(i) == EndsIn(text, i) /\ text[i] = "exit"
<1>0. text # Absent /\ DOMAIN text = 1..Len(text) /\ Len(text) \in Nat /\ "exit" \notin Inert
  BY Words, LinesAssumption DEF Inert
<1>1. CASE \E i \in DOMAIN text : ends(i)
  <2> DEFINE a == CHOOSE i \in DOMAIN text : ends(i)
  <2>1. a \in DOMAIN text /\ ends(a)
    BY <1>1
  <2>2. InsertAt(text) = a
    BY <1>1 DEF InsertAt
  <2> HIDE DEF a
  <2>3. ASSUME ExitsLast(text), NEW k \in 1..(a - 1), text[k] = "exit" PROVE FALSE
    <3>1. k \in DOMAIN text /\ a > k
      BY <1>0, <2>1
    <3>2. text[a] \in Inert
      BY <1>0, <2>1, <2>3, <3>1 DEF ExitsLast
    <3> QED
      BY <1>0, <2>1, <3>2
  <2> QED
    BY <1>0, <2>1, <2>2, <2>3
<1>2. CASE ~\E i \in DOMAIN text : ends(i)
  <2>1. InsertAt(text) = Len(text) + 1
    BY <1>2 DEF InsertAt
  <2>2. ASSUME ExitsLast(text), NEW k \in DOMAIN text, text[k] = "exit" PROVE FALSE
    <3>1. \A j \in DOMAIN text : j > k => text[j] \in Inert
      BY <1>0, <2>2 DEF ExitsLast
    <3>2. ends(k)
      BY <1>0, <2>2, <3>1 DEF EndsIn
    <3> QED
      BY <1>2, <3>2
  <2>3. Len(text) + 1 - 1 = Len(text)
    BY <1>0
  <2> QED
    BY <1>0, <2>1, <2>2, <2>3
<1> QED
  BY <1>1, <1>2

\* A block inserted in a text that has none.
LEMMA InsertedRight ==
  ASSUME NEW text \in Seq(Lines), NEW body \in BlockBodies, NEW new, new = InsertBlock(text, body)
  PROVE  /\ new \in Seq(Lines)
         /\ Tidy(text) /\ ~Has(text, "begin") =>
              /\ SameCommands(text, new) /\ Tidy(new) /\ Has(new, "begin") /\ Has(new, body)
              /\ ExitsLast(text) => Live(new)
<1>1. PICK i \in 1..(Len(text) + 1) : i = InsertAt(text)
  BY InsertPlace
<1>2. ExitsLast(text) => \A k \in 1..(i - 1) : text[k] # "exit"
  BY <1>1, InsertPlace
<1>3. new = Splice(text, i, 0, Block(body))
  BY <1>1 DEF InsertBlock
<1>4. Len(text) \in Nat /\ i + 0 <= Len(text) + 1 /\ 0 \in Nat /\ text # Absent
  BY Words
<1>5. /\ Block(body) \in Seq(Lines) /\ Len(Block(body)) = 3 /\ \A k \in 1..3 : ~Mine(Block(body)[k])
  BY Words DEF Block
<1>6. Placed(Splice(text, i, 0, Block(body)), text, i, 0, Block(body))
  BY <1>4, <1>5, SplicedLines
<1>7. new \in Seq(Lines)
  BY <1>3, <1>6 DEF Placed
<1>8. ASSUME Tidy(text), ~Has(text, "begin")
      PROVE  /\ SameCommands(text, new) /\ Tidy(new) /\ Has(new, "begin") /\ Has(new, body)
             /\ ExitsLast(text) => Live(new)
  <2>1. ~Has(text, "end")
    BY <1>4, <1>8 DEF Tidy, Marked
  <2>2. \A k \in 1..Len(text) : k < i \/ k >= i + 0 => text[k] \notin {"begin", "end"}
    BY <1>8, <2>1 DEF Has
  <2>3. \A k \in i..(i + 0 - 1) : ~Mine(text[k])
    BY <1>4
  <2>4. \A k \in 1..Len(Block(body)) : ~Mine(Block(body)[k])
    BY <1>5
  <2>5. SameCommands(text, new)
    BY <1>3, <1>4, <1>5, <2>3, <2>4, SplicedCommands
  <2>6. /\ Tidy(new) /\ Has(new, "begin") /\ Has(new, body)
        /\ (\A k \in 1..(i - 1) : text[k] # "exit") => Live(new)
    BY <1>3, <1>4, <2>2, Blocked
  <2> QED
    BY <1>2, <2>5, <2>6
<1> QED
  BY <1>7, <1>8

\* A block put where the old one was.
LEMMA ReplacedRight ==
  ASSUME NEW text \in Seq(Lines), NEW body \in BlockBodies, NEW new, new = ReplaceBlock(text, body)
  PROVE  /\ new \in Seq(Lines)
         /\ Tidy(text) /\ Has(text, "begin") =>
              /\ SameCommands(text, new) /\ Tidy(new) /\ Has(new, "begin") /\ Has(new, body)
              /\ Live(text) => Live(new)
<1>1. CASE ~Marked(text)
  <2>1. new = InsertBlock(text, body)
    BY <1>1 DEF ReplaceBlock
  <2>2. new \in Seq(Lines)
    BY <2>1, InsertedRight
  <2>3. ~(Tidy(text) /\ Has(text, "begin"))
    BY <1>1, BlockIs
  <2> QED
    BY <2>2, <2>3
<1>2. CASE Marked(text)
  <2>1. PICK i \in 1..(Len(text) + 1) : i = First(text, "begin")
    BY <1>2, MarkedPlace
  <2>2. PICK many \in Nat : many = BlockSize(text)
    BY <1>2, MarkedPlace
  <2>3. new = Splice(text, i, many, Block(body))
    BY <1>2, <2>1, <2>2 DEF ReplaceBlock
  <2>4. Len(text) \in Nat /\ i + many <= Len(text) + 1
    BY <1>2, <2>1, <2>2, MarkedPlace
  <2>5. /\ Block(body) \in Seq(Lines) /\ Len(Block(body)) = 3 /\ \A k \in 1..3 : ~Mine(Block(body)[k])
    BY Words DEF Block
  <2>6. Placed(Splice(text, i, many, Block(body)), text, i, many, Block(body))
    BY <2>4, <2>5, SplicedLines
  <2>7. new \in Seq(Lines)
    BY <2>3, <2>6 DEF Placed
  <2>8. ASSUME Tidy(text), Has(text, "begin")
        PROVE  /\ SameCommands(text, new) /\ Tidy(new) /\ Has(new, "begin") /\ Has(new, body)
               /\ Live(text) => Live(new)
    <3>1. /\ \A k \in i..(i + many - 1) : ~Mine(text[k])
          /\ \A k \in 1..Len(text) : k < i \/ k >= i + many => text[k] \notin {"begin", "end"}
      BY <2>1, <2>2, <2>8, BlockIs
    <3>2. \A k \in 1..Len(Block(body)) : ~Mine(Block(body)[k])
      BY <2>5
    <3>3. SameCommands(text, new)
      BY <2>3, <2>4, <2>5, <3>1, <3>2, SplicedCommands
    <3>4. /\ Tidy(new) /\ Has(new, "begin") /\ Has(new, body)
          /\ (\A k \in 1..(i - 1) : text[k] # "exit") => Live(new)
      BY <2>3, <2>4, <3>1, Blocked
    <3>5. ASSUME Live(text) PROVE \A k \in 1..(i - 1) : text[k] # "exit"
      BY <2>1, <2>4, <3>5 DEF Live
    <3> QED
      BY <3>3, <3>4, <3>5
  <2> QED
    BY <2>7, <2>8
<1> QED
  BY <1>1, <1>2

\* A text without the block.
LEMMA StrippedRight ==
  ASSUME NEW text \in Seq(Lines), Marked(text), NEW new, new = Strip(text)
  PROVE  /\ new \in Seq(Lines)
         /\ Tidy(text) => SameCommands(text, new) /\ Tidy(new)
<1>1. PICK i \in 1..(Len(text) + 1) : i = First(text, "begin")
  BY MarkedPlace
<1>2. PICK many \in Nat : many = BlockSize(text)
  BY MarkedPlace
<1>3. new = Splice(text, i, many, << >>)
  BY <1>1, <1>2 DEF Strip
<1>4. Len(text) \in Nat /\ i + many <= Len(text) + 1
  BY <1>1, <1>2, MarkedPlace
<1> DEFINE others == << >>
<1>5. others \in Seq(Lines) /\ Len(others) = 0 /\ new = Splice(text, i, many, others)
  BY <1>3
<1> HIDE DEF others
<1>6. Placed(new, text, i, many, others)
  <2>1. Placed(Splice(text, i, many, others), text, i, many, others)
    BY <1>4, <1>5, SplicedLines
  <2> QED
    BY <1>5, <2>1
<1>7. new \in Seq(Lines) /\ DOMAIN new = 1..Len(new) /\ Len(new) \in Nat
  BY <1>6 DEF Placed
<1>8. ASSUME Tidy(text) PROVE SameCommands(text, new) /\ Tidy(new)
  <2>1. Has(text, "begin")
    BY DEF Marked
  <2>2. /\ \A k \in i..(i + many - 1) : ~Mine(text[k])
        /\ \A k \in 1..Len(text) : k < i \/ k >= i + many => text[k] \notin {"begin", "end"}
    BY <1>1, <1>2, <1>8, <2>1, BlockIs
  <2>3. \A k \in 1..Len(others) : ~Mine(others[k])
    BY <1>5
  <2>4. SameCommands(text, new)
    BY <1>4, <1>5, <2>2, <2>3, SplicedCommands
  <2>5. ASSUME NEW k \in 1..Len(new) PROVE new[k] \notin {"begin", "end"}
    <3>1. CASE k < i
      <4>1. k \in 1..(i - 1) /\ k \in 1..Len(text)
        BY <1>4, <2>5, <3>1
      <4> QED
        BY <1>6, <2>2, <3>1, <4>1 DEF Placed
    <3>2. CASE k >= i
      <4> DEFINE m == k + many - Len(others)
      <4>1. k >= i + Len(others)
        BY <1>4, <1>5, <3>2
      <4>2. m \in (i + many)..Len(text) /\ new[k] = text[m]
        BY <1>6, <4>1 DEF Placed
      <4>3. m \in 1..Len(text) /\ m >= i + many
        BY <1>4, <4>2
      <4> HIDE DEF m
      <4> QED
        BY <2>2, <4>2, <4>3
    <3> QED
      BY <1>4, <3>1, <3>2
  <2>6. ~Has(new, "begin") /\ ~Has(new, "end") /\ Once(new, "begin") /\ Once(new, "end")
    BY <1>7, <2>5 DEF Has, Once
  <2> QED
    BY <2>4, <2>6 DEF Tidy
<1> QED
  BY <1>7, <1>8

\* The hook that is made where there was none.
LEMMA WholeRight ==
  ASSUME NEW body \in BlockBodies, NEW new, new = Whole(body)
  PROVE  /\ new \in Seq(Lines) /\ Tidy(new) /\ Has(new, "begin") /\ Has(new, body) /\ Live(new)
         /\ Owned(new) = {}
<1>1. /\ new \in Seq(Lines) /\ Len(new) = 6
      /\ new[1] = "note" /\ new[2] = "begin" /\ new[3] = body /\ new[4] = "end" /\ new[5] = "note" /\ new[6] = "exit"
  BY Words DEF Whole
<1>2. new # Absent /\ DOMAIN new = 1..6
  BY <1>1, Words
<1>3. body \notin {"begin", "end", "note", "exit"} /\ ~Mine(body)
      /\ ~Mine("begin") /\ ~Mine("end") /\ ~Mine("note") /\ ~Mine("exit")
  BY Words
<1>4. \A k \in 1..6 : k = 1 \/ k = 2 \/ k = 3 \/ k = 4 \/ k = 5 \/ k = 6
  OBVIOUS
<1>5. \A k \in 1..6 : /\ ~Mine(new[k])
                      /\ new[k] = "begin" => k = 2
                      /\ new[k] = "end" => k = 4
                      /\ new[k] = "exit" => k = 6
  BY <1>1, <1>3, <1>4
<1>6. First(new, "begin") = 2
  <2>1. 2 \in DOMAIN new /\ new[2] = "begin" /\ \A k \in DOMAIN new : new[k] = "begin" => k = 2
    BY <1>1, <1>2, <1>5
  <2> QED
    BY <1>1, <2>1, OnlyIs
<1>7. First(new, "end") = 4
  <2>1. 4 \in DOMAIN new /\ new[4] = "end" /\ \A k \in DOMAIN new : new[k] = "end" => k = 4
    BY <1>1, <1>2, <1>5
  <2> QED
    BY <1>1, <2>1, OnlyIs
<1>8. Has(new, "begin") /\ Has(new, "end") /\ Has(new, body)
  BY <1>1, <1>2 DEF Has
<1>9. Marked(new)
  BY <1>6, <1>7, <1>8 DEF Marked
<1>10. \A k \in 2..4 : k \in 1..6
  OBVIOUS
<1>11. Tidy(new)
  BY <1>2, <1>5, <1>6, <1>7, <1>9, <1>10 DEF Tidy, Once
<1>12. Live(new)
  BY <1>2, <1>5, <1>6 DEF Live
<1>13. Owned(new) = {}
  BY <1>2, <1>5 DEF Owned
<1> QED
  BY <1>1, <1>8, <1>11, <1>12, <1>13

\* An install keeps the owner's commands, and the block it puts runs.
LEMMA InstalledRight ==
  ASSUME NEW text \in Seq(Lines) \cup {Absent}, NEW body \in BlockBodies, NEW new, new = Installed(text, body)
  PROVE  /\ new \in Seq(Lines)
         /\ Tidy(text) => /\ SameCommands(text, new) /\ Tidy(new) /\ Has(new, "begin") /\ Has(new, body)
                          /\ (IF text = Absent \/ ~Has(text, "begin") THEN ExitsLast(text) ELSE Live(text))
                               => Live(new)
<1>1. CASE text = Absent
  <2>1. new = Whole(body)
    BY <1>1 DEF Installed
  <2>2. Owned(text) = {}
    BY <1>1 DEF Owned
  <2>3. /\ new \in Seq(Lines) /\ Tidy(new) /\ Has(new, "begin") /\ Has(new, body) /\ Live(new)
        /\ Owned(new) = {}
    BY <2>1, WholeRight
  <2> QED
    BY <2>2, <2>3, NoCommands
<1>2. CASE text # Absent /\ Has(text, "begin")
  <2>1. new = ReplaceBlock(text, body)
    BY <1>2 DEF Installed
  <2> QED
    BY <1>2, <2>1, ReplacedRight
<1>3. CASE text # Absent /\ ~Has(text, "begin")
  <2>1. new = InsertBlock(text, body)
    BY <1>3 DEF Installed
  <2> QED
    BY <1>3, <2>1, InsertedRight
<1> QED
  BY <1>1, <1>2, <1>3

\* An uninstall keeps them, too.
LEMMA UninstalledRight ==
  ASSUME NEW text \in Seq(Lines) \cup {Absent}, NEW new, new = Uninstalled(text)
  PROVE  /\ new \in Seq(Lines) \cup {Absent}
         /\ Tidy(text) => SameCommands(text, new) /\ Tidy(new)
<1>1. CASE text = Absent \/ ~Marked(text)
  <2>1. new = text
    BY <1>1 DEF Uninstalled
  <2> QED
    BY <2>1, SameSelf
<1>2. CASE text # Absent /\ Marked(text) /\ OursEntirely(text)
  <2>1. new = Absent
    BY <1>2 DEF Uninstalled
  <2>2. PICK left \in Seq(Lines) : left = Strip(text)
    BY <1>2, StrippedRight
  <2>3. left # Absent
    BY Words
  <2>4. Owned(left) = {}
    BY <1>2, <2>2, <2>3, LinesAssumption DEF OursEntirely, Owned, Mine
  <2>5. ASSUME Tidy(text) PROVE SameCommands(text, new) /\ Tidy(new)
    <3>1. SameCommands(text, left)
      BY <1>2, <2>2, <2>5, StrippedRight
    <3>2. Owned(text) = {}
      BY <2>4, <3>1 DEF SameCommands
    <3>3. Owned(new) = {} /\ Tidy(new)
      BY <2>1 DEF Owned, Tidy
    <3> QED
      BY <3>2, <3>3, NoCommands
  <2> QED
    BY <2>1, <2>5
<1>3. CASE text # Absent /\ Marked(text) /\ ~OursEntirely(text)
  <2>1. new = Strip(text)
    BY <1>3 DEF Uninstalled
  <2> QED
    BY <1>3, <2>1, StrippedRight
<1> QED
  BY <1>1, <1>2, <1>3

LEMMA HooksInitInv == HooksInit => HooksInv
<1> SUFFICES ASSUME HooksInit PROVE HooksInv
  OBVIOUS
<1>1. \A text \in Originals : text \in Seq(Lines)
  <2> TAKE text \in Originals
  <2>1. text \in Seq(STRING)
    BY LinesAssumption
  <2>2. Len(text) \in Nat /\ DOMAIN text = 1..Len(text) /\ text = [i \in 1..Len(text) |-> text[i]]
    BY <2>1
  <2>3. \A i \in 1..Len(text) : text[i] \in Lines
    BY <2>2 DEF Lines
  <2> QED
    BY <2>2, <2>3
<1>2. hooks \in [Names -> Originals \cup {Absent}] /\ readable \in [Names -> BOOLEAN]
      /\ work = << >> /\ command = Quiet /\ changes = 0
  BY DEF HooksInit
<1>3. hooks \in [Names -> Seq(Lines) \cup {Absent}]
  BY <1>1, <1>2
<1>4. command.kind # "install"
  BY <1>2 DEF Quiet
<1> QED
  BY <1>2, <1>3, <1>4 DEF HooksInv

\* What each step does to the hooks.
LEMMA HooksStep ==
  ASSUME HooksInv, HooksNext
  PROVE  HooksInv' /\ \A n \in Names : CommandsKept(n) /\ BlockRuns(n)
<1>0. /\ hooks \in [Names -> Seq(Lines) \cup {Absent}] /\ readable \in [Names -> BOOLEAN]
      /\ work \in Seq(Names) /\ changes \in Nat
      /\ command.kind = "install" => command.body \in BlockBodies
  BY DEF HooksInv
<1>1. ASSUME NextHook PROVE work # << >> => work' \in Seq(Names) /\ (command'.kind = "install" => command' = command)
  BY <1>0, <1>1 DEF NextHook, Quiet
<1>2. ASSUME hooks' = hooks, changes' = changes PROVE \A n \in Names : CommandsKept(n) /\ BlockRuns(n)
  BY <1>2, SameSelf DEF CommandsKept, BlockRuns
<1>3. ASSUME NEW kind \in {"install", "uninstall"}, NEW mode \in Modes, NEW body, Start(kind, mode, body),
             kind = "install" => body \in BlockBodies
      PROVE  HooksInv' /\ \A n \in Names : CommandsKept(n) /\ BlockRuns(n)
  <2>1. HooksOf[mode] \in Seq(Names)
    <3>1. HooksOf[mode] \in Seq(STRING)
      BY HooksOfAssumption
    <3>2. \A i \in 1..Len(HooksOf[mode]) : HooksOf[mode][i] \in Names
      BY <3>1 DEF Names
    <3> QED
      BY <3>1, <3>2
  <2>2. work' = HooksOf[mode] /\ command' = [kind |-> kind, body |-> body] /\ UNCHANGED <<hooks, readable, changes>>
    BY <1>3 DEF Start
  <2>3. command'.kind = "install" => command'.body \in BlockBodies
    BY <1>3, <2>2
  <2> QED
    BY <1>0, <1>2, <2>1, <2>2, <2>3 DEF HooksInv
<1>4. CASE InstallOne
  <2>1. work # << >> /\ command.kind = "install" /\ changes' = changes
    BY <1>4 DEF InstallOne
  <2>2. Head(work) \in Names /\ command.body \in BlockBodies
    BY <1>0, <2>1
  <2>3. CASE readable[Head(work)] \/ hooks[Head(work)] = Absent
    <3>1. /\ hooks' = [hooks EXCEPT ![Head(work)] = Installed(hooks[Head(work)], command.body)]
          /\ readable' = [readable EXCEPT ![Head(work)] = TRUE] /\ NextHook
      BY <1>4, <2>3 DEF InstallOne
    <3>2. PICK new : new = Installed(hooks[Head(work)], command.body)
      OBVIOUS
    <3>3. hooks[Head(work)] \in Seq(Lines) \cup {Absent}
      BY <1>0, <2>2
    <3>4. /\ new \in Seq(Lines)
          /\ Tidy(hooks[Head(work)]) =>
               /\ SameCommands(hooks[Head(work)], new) /\ Tidy(new) /\ Has(new, "begin") /\ Has(new, command.body)
               /\ (IF hooks[Head(work)] = Absent \/ ~Has(hooks[Head(work)], "begin")
                   THEN ExitsLast(hooks[Head(work)]) ELSE Live(hooks[Head(work)])) => Live(new)
      <4>1. PICK text \in Seq(Lines) \cup {Absent} : text = hooks[Head(work)]
        BY <3>3
      <4>2. PICK body \in BlockBodies : body = command.body
        BY <2>2
      <4>3. new = Installed(text, body)
        BY <3>2, <4>1, <4>2
      <4>4. /\ new \in Seq(Lines)
            /\ Tidy(text) => /\ SameCommands(text, new) /\ Tidy(new) /\ Has(new, "begin") /\ Has(new, body)
                             /\ (IF text = Absent \/ ~Has(text, "begin") THEN ExitsLast(text) ELSE Live(text))
                                  => Live(new)
        BY <4>3, InstalledRight
      <4> QED
        BY <4>1, <4>2, <4>4
    <3>5. /\ hooks' = [hooks EXCEPT ![Head(work)] = new] /\ hooks'[Head(work)] = new /\ readable'[Head(work)]
          /\ new # Absent /\ \A n \in Names : n # Head(work) => hooks'[n] = hooks[n]
      BY <1>0, <2>2, <3>1, <3>2, <3>4, Words
    <3>6. HooksInv'
      BY <1>0, <1>1, <2>1, <2>2, <3>1, <3>4, <3>5 DEF HooksInv
    <3>7. ASSUME NEW n \in Names, n = Head(work) PROVE CommandsKept(n) /\ BlockRuns(n)
      <4>1. CommandsKept(n)
        BY <3>4, <3>5, <3>7 DEF CommandsKept
      <4>2. BlockRuns(n)
        BY <3>4, <3>5, <3>7 DEF BlockRuns, Shown
      <4> QED
        BY <4>1, <4>2
    <3>8. ASSUME NEW n \in Names, n # Head(work) PROVE CommandsKept(n) /\ BlockRuns(n)
      BY <3>5, <3>8, SameSelf DEF CommandsKept, BlockRuns
    <3> QED
      BY <3>6, <3>7, <3>8
  <2>4. CASE ~(readable[Head(work)] \/ hooks[Head(work)] = Absent)
    <3>1. work' = << >> /\ command' = Quiet /\ UNCHANGED <<hooks, readable>>
      BY <1>4, <2>4 DEF InstallOne
    <3>2. work' \in Seq(Names) /\ command'.kind # "install"
      BY <3>1 DEF Quiet
    <3> QED
      BY <1>0, <1>2, <2>1, <3>1, <3>2 DEF HooksInv
  <2> QED
    BY <2>3, <2>4
<1>5. CASE UninstallOne
  <2>1. work # << >> /\ command.kind = "uninstall" /\ changes' = changes /\ NextHook /\ readable' = readable
        /\ hooks' = IF readable[Head(work)] THEN [hooks EXCEPT ![Head(work)] = Uninstalled(hooks[Head(work)])] ELSE hooks
    BY <1>5 DEF UninstallOne
  <2>2. Head(work) \in Names
    BY <1>0, <2>1
  <2>3. CASE readable[Head(work)]
    <3>1. PICK new : new = Uninstalled(hooks[Head(work)])
      OBVIOUS
    <3>2. hooks[Head(work)] \in Seq(Lines) \cup {Absent}
      BY <1>0, <2>2
    <3>3. /\ new \in Seq(Lines) \cup {Absent}
          /\ Tidy(hooks[Head(work)]) => SameCommands(hooks[Head(work)], new) /\ Tidy(new)
      BY <3>1, <3>2, UninstalledRight
    <3>4. /\ hooks' = [hooks EXCEPT ![Head(work)] = new] /\ hooks'[Head(work)] = new
          /\ \A n \in Names : n # Head(work) => hooks'[n] = hooks[n]
      BY <1>0, <2>1, <2>2, <2>3, <3>1
    <3>5. HooksInv'
      BY <1>0, <1>1, <2>1, <2>2, <3>3, <3>4 DEF HooksInv
    <3>6. ASSUME NEW n \in Names PROVE CommandsKept(n) /\ BlockRuns(n)
      BY <2>1, <3>3, <3>4, SameSelf DEF CommandsKept, BlockRuns
    <3> QED
      BY <3>5, <3>6
  <2>4. CASE ~readable[Head(work)]
    <3>1. hooks' = hooks
      BY <2>1, <2>4
    <3>2. HooksInv'
      BY <1>0, <1>1, <2>1, <3>1 DEF HooksInv
    <3> QED
      BY <1>2, <2>1, <3>1, <3>2
  <2> QED
    BY <2>3, <2>4
<1>6. ASSUME NEW n \in Names, NEW text \in Seq(Lines), Edit(n, text)
      PROVE  HooksInv' /\ \A m \in Names : CommandsKept(m) /\ BlockRuns(m)
  <2>1. hooks' = [hooks EXCEPT ![n] = text] /\ changes' = changes + 1 /\ UNCHANGED <<readable, work, command>>
    BY <1>6 DEF Edit
  <2>2. changes' # changes /\ changes' \in Nat
    BY <1>0, <2>1
  <2>3. hooks' \in [Names -> Seq(Lines) \cup {Absent}]
    BY <1>0, <2>1
  <2>4. HooksInv'
    BY <1>0, <2>1, <2>2, <2>3 DEF HooksInv
  <2> QED
    BY <2>2, <2>4 DEF CommandsKept, BlockRuns
<1>7. ASSUME NEW n \in Names, NEW i \in 1..(Len(hooks[n]) + 1), NEW line \in Additions, AddLine(n, i, line)
      PROVE  \E text \in Seq(Lines) : Edit(n, text)
  <2>1. Edit(n, Splice(hooks[n], i, 0, <<line>>)) /\ hooks[n] # Absent
    BY <1>7 DEF AddLine, Edit
  <2>2. hooks[n] \in Seq(Lines)
    BY <1>0, <2>1
  <2>3. <<line>> \in Seq(Lines) /\ Len(hooks[n]) \in Nat /\ i + 0 <= Len(hooks[n]) + 1 /\ 0 \in Nat
    BY <2>2 DEF Lines
  <2>4. Placed(Splice(hooks[n], i, 0, <<line>>), hooks[n], i, 0, <<line>>)
    BY <2>2, <2>3, SplicedLines
  <2> QED
    BY <2>1, <2>4 DEF Placed
<1>8. ASSUME NEW n \in Names, NEW i \in 1..(Len(hooks[n]) + 1), CutLine(n, i)
      PROVE  \E text \in Seq(Lines) : Edit(n, text)
  <2>1. Edit(n, Splice(hooks[n], i, 1, << >>)) /\ hooks[n] # Absent /\ i \in DOMAIN hooks[n]
    BY <1>8 DEF CutLine, Edit
  <2>2. hooks[n] \in Seq(Lines)
    BY <1>0, <2>1
  <2>3. << >> \in Seq(Lines) /\ Len(hooks[n]) \in Nat /\ i + 1 <= Len(hooks[n]) + 1 /\ 1 \in Nat
    BY <2>1, <2>2
  <2>4. Placed(Splice(hooks[n], i, 1, << >>), hooks[n], i, 1, << >>)
    BY <2>2, <2>3, SplicedLines
  <2> QED
    BY <2>1, <2>4 DEF Placed
<1>9. CASE \E mode \in Modes, body \in BlockBodies : Start("install", mode, body)
  BY <1>3, <1>9
<1>10. CASE \E mode \in Modes : Start("uninstall", mode, "none")
  BY <1>3, <1>10
<1>11. CASE \E n \in Names : \E i \in 1..(Len(hooks[n]) + 1) :
              CutLine(n, i) \/ \E line \in Additions : AddLine(n, i, line)
  BY <1>6, <1>7, <1>8, <1>11
<1> QED
  BY <1>4, <1>5, <1>9, <1>10, <1>11 DEF HooksNext

\* Every hook file stays one the installer can read.
THEOREM HooksInvariant == HooksSpec => []HooksInv
<1>1. HooksInit => HooksInv
  BY HooksInitInv
<1>2. HooksInv /\ [HooksNext]_hkVars => HooksInv'
  <2>1. HooksInv /\ UNCHANGED hkVars => HooksInv'
    BY DEF HooksInv, hkVars
  <2> QED
    BY <2>1, HooksStep
<1> QED
  BY <1>1, <1>2, PTL DEF HooksSpec

\* No command of an installer changes what a hook's owner wrote in it, nor the order
\* it is done in, nor leaves more than one block; and what is installed runs.
THEOREM HooksUntouched == HooksSpec => HooksKept
<1>1. HooksInv /\ HooksNext => \A n \in Names : CommandsKept(n) /\ BlockRuns(n)
  BY HooksStep
<1>2. HooksInv /\ [HooksNext]_hkVars => [\A n \in Names : CommandsKept(n) /\ BlockRuns(n)]_hkVars
  BY <1>1
<1> QED
  BY <1>2, HooksInvariant, PTL DEF HooksSpec, HooksKept

=============================================================================
