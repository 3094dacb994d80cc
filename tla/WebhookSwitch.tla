---------------------------- MODULE WebhookSwitch ----------------------------
(***************************************************************************)
(* `revlocal webhook start | stop | status` (cli/src/webhook.rs): the      *)
(* stored switch and tunnel choice, and the survey a report is made from.  *)
(* The commands are processes of their own; each write is a transaction of *)
(* its own, so a command may die, or another come in, between two of them. *)
(***************************************************************************)
EXTENDS Naturals

CONSTANTS
  RepoSwitches,   \* what the configs of the repositories may say: name |-> [enabled, secret]
  MaxRuns         \* bound: commands

Providers == {"cloudflared", "ngrok", "manual"}      \* TunnelProvider
Given == Providers \cup {"none", "zrok"}             \* --tunnel: absent, or a name
Runs == 1..2                                         \* commands at once

VARIABLES
  enabled,    \* the setting webhook.enabled: "unset", "true", "false"
  tunnel,     \* the setting webhook.tunnel: "none" or a provider
  config,     \* config.toml: "unreadable", "no_port" or "port"
  bound,      \* something listens on the port
  located,    \* the providers whose program is on the PATH
  switches,   \* what the repositories say
  run,        \* per process, the command it runs
  report,     \* the report last given
  started

wsVars == <<enabled, tunnel, config, bound, located, switches, run, report, started>>
stored == <<enabled, tunnel>>
world == <<config, bound, located, switches>>

None == [does |-> "none", step |-> "none", provider |-> "none", was |-> FALSE,
         found |-> <<"unset", "none">>, alone |-> TRUE]
NoReport == [action |-> "none"]

SwitchInit ==
  /\ enabled = "unset" /\ tunnel = "none"
  /\ config \in {"unreadable", "no_port", "port"} /\ bound \in BOOLEAN
  /\ located \in SUBSET {"cloudflared", "ngrok"}
  /\ switches \in RepoSwitches
  /\ run = [r \in Runs |-> None] /\ report = NoReport /\ started = 0

\* `probe`: binding the port and letting it go again.
Listener ==
  IF config = "no_port" THEN "disabled" ELSE IF bound THEN "in_use" ELSE "not_listening"

Binary(p) == IF p \in located THEN p ELSE "none"

\* What is left to do before a delivery is acted on.
NextSteps(on, p) ==
  {s \in {"set_port", "switch_on", "start_daemon", "choose_tunnel", "point_url", "install", "opt_in"} :
     \/ s = "set_port" /\ Listener = "disabled"
     \/ s = "switch_on" /\ ~on
     \/ s = "start_daemon" /\ on /\ Listener = "not_listening"
     \/ s = "choose_tunnel" /\ p = "none"
     \/ s = "point_url" /\ p = "manual"
     \/ s = "install" /\ p \in {"cloudflared", "ngrok"} /\ Binary(p) = "none"
     \/ s = "opt_in" /\ \A r \in DOMAIN switches : ~switches[r].enabled}
  \cup {<<"set_secret", r>> : r \in {r \in DOMAIN switches :
                                       switches[r].enabled /\ ~switches[r].secret}}

Report(action, on, changed, p) ==
  [action |-> action, enabled |-> on, changed |-> changed, tunnel |-> p, binary |-> Binary(p),
   listener |-> Listener, steps |-> IF action = "stop" THEN {} ELSE NextSteps(on, p)]

\* What a command has become after a step: where it is, and what it has read.
Now(r, step, provider, was) ==
  [does |-> run[r].does, step |-> step, provider |-> provider, was |-> was,
   found |-> run[r].found, alone |-> run[r].alone]
Goes(r, step) == run' = [run EXCEPT ![r].step = step]
Ends(r) == run' = [run EXCEPT ![r] = None]
Writes(r, after) == run' = [o \in Runs |-> IF o = r THEN after ELSE [run[o] EXCEPT !.alone = FALSE]]

-----------------------------------------------------------------------------

\* The stored tunnel is read unless one is given; an unknown name ends the command.
Invoke(r, action, given) ==
  /\ run[r].step = "none" /\ started < MaxRuns /\ started' = started + 1
  /\ action # "stop" => given # "zrok"
  /\ run' = [run EXCEPT ![r] =
       [does |-> action, step |-> IF action = "stop" THEN "switch" ELSE "survey",
        provider |-> IF given = "none" \/ action = "stop" THEN tunnel ELSE given,
        was |-> (enabled = "true"), found |-> <<enabled, tunnel>>, alone |-> TRUE]]
  /\ UNCHANGED <<stored, report, world>>

\* `survey`: a config that does not read ends the command, whatever was written.
Survey(r) ==
  /\ run[r].step = "survey"
  /\ IF config = "unreadable" \/ (run[r].does = "start" /\ Listener = "disabled")
     THEN Ends(r) /\ UNCHANGED report
     ELSE IF run[r].does = "start" THEN Goes(r, "switch") /\ UNCHANGED report
     ELSE /\ report' = Report(run[r].does, run[r].does = "status" /\ run[r].was,
                              run[r].does = "stop" /\ run[r].was, run[r].provider)
          /\ Ends(r)
  /\ UNCHANGED <<stored, started, world>>

\* The switch; a start reads again whether it was on.
Switch(r) ==
  /\ run[r].step = "switch"
  /\ enabled' = IF run[r].does = "start" THEN "true" ELSE "false"
  /\ IF run[r].does = "start"
     THEN Writes(r, Now(r, "tunnel", run[r].provider, enabled = "true"))
     ELSE Writes(r, Now(r, "recall", run[r].provider, run[r].was))
  /\ UNCHANGED <<tunnel, report, started, world>>

\* A stop reads the tunnel after it has switched off.
Recall(r) ==
  /\ run[r].step = "recall"
  /\ run' = [run EXCEPT ![r] = Now(r, "survey", tunnel, run[r].was)]
  /\ UNCHANGED <<stored, report, started, world>>

\* With a defect: a start that names no tunnel clears the one that was chosen.
ChooseAnew(r) ==
  /\ run[r].step = "tunnel"
  /\ tunnel' = IF run[r].provider = run[r].found[2] THEN "none" ELSE run[r].provider
  /\ report' = Report("start", TRUE, ~run[r].was, run[r].provider)
  /\ Writes(r, None)
  /\ UNCHANGED <<enabled, started, world>>

\* The tunnel, if there is one, and the report.
ChooseTunnel(r) ==
  /\ run[r].step = "tunnel"
  /\ tunnel' = IF run[r].provider = "none" THEN tunnel ELSE run[r].provider
  /\ report' = Report("start", TRUE, ~run[r].was, run[r].provider)
  /\ Writes(r, None)
  /\ UNCHANGED <<enabled, started, world>>

Interrupted(r) ==
  /\ run[r].step # "none" /\ Ends(r)
  /\ UNCHANGED <<stored, report, started, world>>

\* Somebody mends the config, and the daemon may start.
Change ==
  /\ config = "unreadable" /\ config' \in {"no_port", "port"} /\ bound' \in BOOLEAN
  /\ UNCHANGED <<stored, run, report, started, located, switches>>

SwitchNext ==
  \/ \E r \in Runs :
       \/ \E action \in {"start", "stop", "status"}, given \in Given : Invoke(r, action, given)
       \/ Survey(r) \/ Switch(r) \/ Recall(r) \/ ChooseTunnel(r) \/ Interrupted(r)
  \/ Change

SwitchSpec == SwitchInit /\ [][SwitchNext]_wsVars

-----------------------------------------------------------------------------
(* Properties.                                                             *)

\* However a command ends, by a report, a refusal or its death, and no other wrote
\* meanwhile: a start that did not come to its first write and any status have changed
\* nothing, a stop has not touched the tunnel, and a start that names none keeps the one
\* there was (webhook.rs, start and stop: "the tunnel choice is remembered").
SwitchKept ==
  [][\A r \in Runs : run[r].step # "none" /\ run'[r] = None /\ run[r].alone =>
       /\ run[r].does = "status" \/ (run[r].does = "start" /\ run[r].step = "survey")
            => <<enabled', tunnel'>> = run[r].found
       /\ run[r].does = "stop" => tunnel' = run[r].found[2]
       /\ run[r].does = "start" /\ run[r].step = "tunnel" /\ run[r].provider = run[r].found[2]
            => tunnel' = run[r].found[2]
       /\ run[r].does = "stop" /\ run[r].step = "survey" => enabled' = "false"]_wsVars
=============================================================================
