---------------------------- MODULE McpTargets ----------------------------
(***************************************************************************)
(* Capabilities of a target and the tools they are bound to                *)
(* (revlocal-mcp/src/capability.rs, overrides.rs), as `revlocal targets`   *)
(* (cli/src/targets.rs) and the settings screen (settings_view.rs) show    *)
(* and edit them.  What a person chose is kept in a file of its own, which *)
(* the two programs read, change and write back without a lock.            *)
(***************************************************************************)
EXTENDS Integers, Sequences, FiniteSets

CONSTANTS
  TargetTables,    \* the targets config.toml may have: target |-> [broken, wants]
  Builtins,        \* the same, of the profiles that are built in
  Capabilities,
  Builds,          \* the tool lists the server may have: tool |-> required fields
  Overrides,       \* the overrides a person may ask for: [tool, args]
  MaxTargetEdits   \* bound: edits and deaths of a program in the middle of one

\* The candidates of a capability are tried in their order.
ASSUME ProfilesAssumption ==
  \A c \in TargetTables \cup {Builtins} : \A t \in DOMAIN c :
    \A capability \in DOMAIN c[t].wants : c[t].wants[capability].candidates \in Seq(STRING)

Editors == {"cli", "desktop"}
Targets == UNION {DOMAIN c : c \in TargetTables} \cup DOMAIN Builtins
Pairs == Targets \X Capabilities
Nothing == [tool |-> "none", args |-> << >>]
NoEntries == [p \in Pairs |-> Nothing]
AtRest == [step |-> "idle", pair |-> <<"none", "none">>, entry |-> Nothing, entries |-> NoEntries,
           alone |-> TRUE]

VARIABLES
  table,       \* the targets of config.toml
  tools, up,   \* what the server offers, and whether it answers
  file,        \* the overrides file: [state: "absent", "damaged" or "whole", entries]
  saved,       \* history: the entries last written to the end
  held,        \* per program, the edit it is making
  edits,
  shown        \* the mapping last shown

mtVars == <<table, tools, up, file, saved, held, edits, shown>>

Blank == [target |-> "none", server |-> << >>, bound |-> {}, unmapped |-> {}, failing |-> {}]

TargetsInit ==
  /\ table \in TargetTables /\ tools \in Builds /\ up \in BOOLEAN
  /\ file = [state |-> "absent", entries |-> NoEntries] /\ saved = NoEntries
  /\ held = [e \in Editors |-> AtRest] /\ edits = 0
  /\ shown = Blank

-----------------------------------------------------------------------------
(* Mappings.                                                               *)

\* The profile of a target: `broken` when it names no server, a capability without
\* candidates, or arguments that are not JSON.
Profile(t) == IF t \in DOMAIN table THEN table[t] ELSE Builtins[t]

Binding(c, tool, args, chosen) == [capability |-> c, tool |-> tool, args |-> args, chosen |-> chosen]

\* `resolve`: the first candidate that the server has.
Resolve(t) ==
  LET wants == Profile(t).wants
      Has(c) == \E i \in DOMAIN wants[c].candidates : wants[c].candidates[i] \in DOMAIN tools
      First(c) == CHOOSE i \in DOMAIN wants[c].candidates :
        /\ wants[c].candidates[i] \in DOMAIN tools
        /\ \A j \in 1..(i - 1) : wants[c].candidates[j] \notin DOMAIN tools
      found == {c \in DOMAIN wants : Has(c)}
  IN [bound |-> {Binding(c, wants[c].candidates[First(c)], wants[c].args, FALSE) : c \in found},
      unmapped |-> DOMAIN wants \ found]

Chosen(t, entries) == {c \in Capabilities : entries[<<t, c>>] # Nothing}

\* With a defect: what was resolved stays beside what was chosen.
ApplyBeside(t, mapping, entries) ==
  LET chosen == Chosen(t, entries)
      there == {c \in chosen : entries[<<t, c>>].tool \in DOMAIN tools}
  IN [bound |-> mapping.bound
        \cup {Binding(c, entries[<<t, c>>].tool, entries[<<t, c>>].args, TRUE) : c \in there},
      unmapped |-> mapping.unmapped \cup (chosen \ there)]

\* `apply`: a choice wins, also when it names a tool that is gone; it may be of a
\* capability the target does not list.
Apply(t, mapping, entries) ==
  LET chosen == Chosen(t, entries)
      there == {c \in chosen : entries[<<t, c>>].tool \in DOMAIN tools}
  IN [bound |-> {b \in mapping.bound : b.capability \notin chosen}
        \cup {Binding(c, entries[<<t, c>>].tool, entries[<<t, c>>].args, TRUE) : c \in there},
      unmapped |-> (mapping.unmapped \ chosen) \cup (chosen \ there)]

\* `render`: every placeholder is known, and the tool's schema accepts the result;
\* here a schema asks for fields, all of them text.
Renders(b) ==
  /\ \A f \in DOMAIN b.args : b.args[f] \in {"text", "known"}
  /\ tools[b.tool] \subseteq DOMAIN b.args

\* `check_against`, when a choice is made: the tool exists, and the fields it
\* requires are given.  What is in them is not looked at.
Acceptable(entry) ==
  /\ entry.tool \in DOMAIN tools
  /\ tools[entry.tool] \subseteq DOMAIN entry.args

-----------------------------------------------------------------------------
(* Editing.                                                                *)

\* The target as a program finds it: only the screen knows the built-in ones.
Known(e, t) == t \in DOMAIN table \/ (e = "desktop" /\ t \in DOMAIN Builtins)

\* The screen takes a file it cannot read for an empty one.
Readable(e) == file.state # "damaged" \/ e = "desktop"
Entries == IF file.state = "whole" THEN file.entries ELSE NoEntries

Load(e, pair, entry) ==
  /\ held[e].step = "idle" /\ edits < MaxTargetEdits /\ edits' = edits + 1
  /\ Readable(e)
  /\ held' = [held EXCEPT ![e] =
       [step |-> "loaded", pair |-> pair, entry |-> entry, alone |-> file.state # "damaged",
        entries |-> [Entries EXCEPT ![pair] = entry]]]
  /\ UNCHANGED <<table, tools, up, file, saved, shown>>

Choose(e, pair, entry) ==
  /\ up /\ Known(e, pair[1]) /\ ~Profile(pair[1]).broken
  /\ Acceptable(entry)
  /\ Load(e, pair, entry)

\* Only the screen clears a choice; the server is not asked, nor the config.
Clear(pair) == Load("desktop", pair, Nothing)

Written(e) == held[e].entries

\* `fs::write`: the file is emptied, and then filled.
Truncate(e) ==
  /\ held[e].step = "loaded"
  /\ file' = [state |-> "damaged", entries |-> NoEntries]
  /\ held' = [o \in Editors |-> IF o = e THEN [held[e] EXCEPT !.step = "writing"]
                                ELSE [held[o] EXCEPT !.alone = FALSE]]
  /\ UNCHANGED <<table, tools, up, saved, edits, shown>>

Store(e) ==
  /\ held[e].step = "writing"
  /\ file' = [state |-> "whole", entries |-> Written(e)] /\ saved' = Written(e)
  /\ held' = [o \in Editors |-> IF o = e THEN AtRest ELSE [held[o] EXCEPT !.alone = FALSE]]
  /\ UNCHANGED <<table, tools, up, edits, shown>>

EditorDies(e) ==
  /\ held[e].step # "idle"
  /\ held' = [held EXCEPT ![e] = AtRest]
  /\ UNCHANGED <<table, tools, up, file, saved, edits, shown>>

-----------------------------------------------------------------------------
(* Showing.                                                                *)

Show(t, mapping) ==
  /\ shown' = [target |-> t, server |-> tools, bound |-> mapping.bound, unmapped |-> mapping.unmapped,
               failing |-> {b.capability : b \in {b \in mapping.bound : ~Renders(b)}}]
  /\ UNCHANGED <<table, tools, up, file, saved, held, edits>>

\* `targets list`: one broken target fails the command; choices are not looked at.
List(t) ==
  /\ t \in DOMAIN table /\ up /\ \A o \in DOMAIN table : ~table[o].broken
  /\ Show(t, Resolve(t))

\* `targets test`: renders, and calls nothing.
Test(t) ==
  /\ t \in DOMAIN table /\ up /\ ~table[t].broken /\ Readable("cli")
  /\ Show(t, Apply(t, Resolve(t), Entries))

\* The screen: a target that is broken is left out, one whose server does not answer
\* is shown without a mapping.
Gather(t) ==
  /\ t \in DOMAIN table \cup DOMAIN Builtins /\ ~Profile(t).broken
  /\ IF up THEN Show(t, Apply(t, Resolve(t), Entries))
     ELSE shown' = [Blank EXCEPT !.target = t] /\ UNCHANGED <<table, tools, up, file, saved, held, edits>>

-----------------------------------------------------------------------------
(* The server.                                                             *)

Rebuild ==
  /\ tools' \in Builds \ {tools}
  /\ UNCHANGED <<table, up, file, saved, held, edits, shown>>

ComeOrGo ==
  /\ up' = ~up
  /\ UNCHANGED <<table, tools, file, saved, held, edits, shown>>

TargetsNext ==
  \/ \E e \in Editors, pair \in Pairs, entry \in Overrides : Choose(e, pair, entry)
  \/ \E pair \in Pairs : Clear(pair)
  \/ \E e \in Editors : Truncate(e) \/ Store(e) \/ EditorDies(e)
  \/ \E t \in Targets : List(t) \/ Test(t) \/ Gather(t)
  \/ Rebuild \/ ComeOrGo

TargetsSpec == TargetsInit /\ [][TargetsNext]_mtVars

-----------------------------------------------------------------------------
(* Properties.                                                             *)

\* A mapping gives each capability one way to go, or none: never two tools, never a
\* tool the server does not have, and what a target asks for is not left out
\* (capability.rs: unmapped is "reported, never guessed").
EachOnce ==
  LET one == shown.bound
  IN /\ \A a, b \in one : a.capability = b.capability => a = b
     /\ \A b \in one : b.tool \in DOMAIN shown.server /\ b.capability \notin shown.unmapped
     /\ shown.server # << >> =>
          DOMAIN Profile(shown.target).wants \subseteq {b.capability : b \in one} \cup shown.unmapped

\* An edit changes its own choice and no other, unless the file it read was damaged
\* or another program wrote meanwhile.
OthersKept(e) ==
  held[e].step = "writing" /\ held'[e].step = "idle" /\ saved' # saved /\ held[e].alone
  => saved' = [saved EXCEPT ![held[e].pair] = held[e].entry]

\* No step shows a mapping that is wrong, or loses a choice that was made (capability.rs,
\* resolve; overrides.rs, load, set and save).
TargetsKept == [][EachOnce' /\ \A e \in Editors : OthersKept(e)]_mtVars
=============================================================================
