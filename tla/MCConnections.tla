--------------------------- MODULE MCConnections ---------------------------
(***************************************************************************)
(* What rev-local is connected to and how that is set up, side by side (as *)
(* in MCSources): an MCP server over a pipe and one over HTTP, the tools   *)
(* its targets are bound to, the hooks it puts into repositories, the rows *)
(* of those repositories, and the webhook switch.                          *)
(***************************************************************************)
EXTENDS McpStdio, McpHttp, Repositories, WebhookSwitch, McpTargets, Hooks

CONSTANT Part   \* the parts that are explored

VARIABLE part

\* A target of config.toml, one that cannot be parsed, and the built-in one.
Way(candidates, args) == [candidates |-> candidates, args |-> args]
Trama == [broken |-> FALSE,
          wants |-> [get |-> Way(<<"get_page">>, [slug |-> "known"]),
                     put |-> Way(<<"upsert_page", "update_page">>, [slug |-> "known", body |-> "known"])]]
Andare == [broken |-> FALSE, wants |-> [put |-> Way(<<"create_item">>, [title |-> "known"])]]
SomeTables == {[trama |-> Trama], [trama |-> [Trama EXCEPT !.broken = TRUE], andare |-> Andare]}
SomeBuiltins == [andare |-> Andare]
TwoCapabilities == {"get", "put"}
OneBuild == [get_page |-> {"slug"}, update_page |-> {"slug", "body"}]
ToolLists == {OneBuild, [get_page |-> {"slug"}, upsert_page |-> {"slug", "body", "title"}, create_item |-> {"title"}]}
SomeOverrides == {[tool |-> "get_page", args |-> [slug |-> "known"]],
                  [tool |-> "create_item", args |-> [title |-> "unknown"]],
                  [tool |-> "update_page", args |-> [slug |-> "text", body |-> "number"]]}

TwoModes == [reference |-> <<"commit", "merge">>, bare |-> <<"receive">>]
Scripts == {<<"note", "lint", "exit", "note">>, <<"exit", "lint">>}
TwoBodies == {"p1", "p2"}
SomeAdditions == {"lint", "exit"}

Pair(key, value) == [key |-> key, value |-> value]
TwoNames == {"a", "b"}
TwoPrograms == {"cli", "desktop"}
RepoSettings == {<<Pair("engine", "claude"), Pair("enabled", "no")>>,
                 <<Pair("autonomy", "auto"), Pair("engine", "cloud")>>}

OneSwitch == {[a |-> [enabled |-> TRUE, secret |-> FALSE]]}

\* A part that is not the one explored rests in one initial state.
ConnectionsInit ==
  /\ part \in Part
  /\ IF part = "http" THEN TRUE ELSE keychain = "value"
  /\ IF part = "targets" THEN TRUE
     ELSE table = [trama |-> Trama] /\ tools = OneBuild /\ up = TRUE
  /\ IF part = "hooks" THEN TRUE
     ELSE hooks = [n \in Names |-> Absent] /\ readable = [n \in Names |-> TRUE]
  /\ IF part = "webhook" THEN TRUE ELSE config = "port" /\ bound = TRUE /\ located = {}
  /\ Init /\ HttpInit /\ TargetsInit /\ HooksInit /\ ReposInit /\ SwitchInit
  /\ \E n \in Names : \A m \in Names \ {n} : readable[m]   \* at most one file is unreadable

StdioPart == part = "stdio" /\ Next
  /\ UNCHANGED <<part, hcVars, mtVars, hkVars, reVars, wsVars>>
HttpPart == part = "http" /\ HttpNext
  /\ UNCHANGED <<part, vars, mtVars, hkVars, reVars, wsVars>>
TargetsPart == part = "targets" /\ TargetsNext
  /\ UNCHANGED <<part, vars, hcVars, hkVars, reVars, wsVars>>
HooksPart == part = "hooks" /\ HooksNext
  /\ UNCHANGED <<part, vars, hcVars, mtVars, reVars, wsVars>>
ReposPart == part = "repositories" /\ ReposNext
  /\ UNCHANGED <<part, vars, hcVars, mtVars, hkVars, wsVars>>
WebhookPart == part = "webhook" /\ SwitchNext
  /\ UNCHANGED <<part, vars, hcVars, mtVars, hkVars, reVars>>

ConnectionsNext == StdioPart \/ HttpPart \/ TargetsPart \/ HooksPart \/ ReposPart \/ WebhookPart
Everything == <<part, vars, hcVars, mtVars, hkVars, reVars, wsVars>>

ConnectionsSpec ==
  /\ ConnectionsInit /\ [][ConnectionsNext]_Everything
  /\ WF_vars(part = "stdio" /\ Client)
  /\ WF_vars(part = "stdio" /\ Tick)
  /\ WF_vars(part = "stdio" /\ TimeOut)

-----------------------------------------------------------------------------
EveryPart == {"stdio", "http", "targets", "hooks", "repositories", "webhook"}
=============================================================================
