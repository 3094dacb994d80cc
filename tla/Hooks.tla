------------------------------- MODULE Hooks -------------------------------
(***************************************************************************)
(* The hook installer (revlocal-daemon/src/hooks.rs, cli/src/hooks.rs): a  *)
(* marked block in hook files that belong to somebody else, who edits them *)
(* between one install and the next.  A file is its lines, and a line is   *)
(* what the installer can tell of it: the markers "begin" and "end", the   *)
(* "body" of a block, an "exit", a "note" (comment, shebang or blank), or  *)
(* a command of its owner.                                                 *)
(***************************************************************************)
EXTENDS Integers, Sequences

CONSTANTS
  HooksOf,          \* mode |-> the names of its hooks, in order
  Originals,        \* what a hook file may hold before anything is installed
  BlockBodies,      \* the blocks that may be installed: a port and a name each
  Additions,        \* the lines an owner may add
  MayCut,           \* an owner may take out a line of the block, too
  MaxOwnerEdits,    \* bound: lines an owner adds or takes out
  MaxHookCommands   \* bound: installs and uninstalls

Inert == {"note", "begin", "end"}   \* comments, to a shell
Absent == <<"absent">>
Modes == DOMAIN HooksOf
Names == UNION {{HooksOf[m][i] : i \in DOMAIN HooksOf[m]} : m \in Modes}
Lines == Inert \cup BlockBodies \cup Additions \cup {"exit"}
         \cup UNION {{text[i] : i \in DOMAIN text} : text \in Originals}

ASSUME HooksOfAssumption == \A m \in Modes : HooksOf[m] \in Seq(STRING)
ASSUME LinesAssumption ==
  /\ \A text \in Originals : text \in Seq(STRING)
  /\ "absent" \notin Lines
  /\ BlockBodies \cap (Inert \cup {"exit"}) = {}

VARIABLES
  hooks,      \* name |-> its lines, or Absent
  readable,   \* name |-> may be read and written
  work,       \* the hooks the running command has still to do
  command,    \* the running command: [kind, body], "none" between commands
  changes, issued

hkVars == <<hooks, readable, work, command, changes, issued>>

Quiet == [kind |-> "none", body |-> "none"]

HooksInit ==
  /\ hooks \in [Names -> Originals \cup {Absent}] /\ readable \in [Names -> BOOLEAN]
  /\ work = << >> /\ command = Quiet /\ changes = 0 /\ issued = 0

-----------------------------------------------------------------------------
(* Texts.                                                                  *)

\* A line of the owner's that does something.
Mine(line) == line \notin Inert \cup BlockBodies \cup {"exit"}

Has(text, line) == \E i \in DOMAIN text : text[i] = line
First(text, line) == CHOOSE i \in DOMAIN text : text[i] = line /\ \A j \in 1..(i - 1) : text[j] # line
Marked(text) == Has(text, "begin") /\ Has(text, "end") /\ First(text, "begin") <= First(text, "end")

\* The lines from the i-th on, and so many of them, make place for others.
Splice(text, i, many, others) ==
  [k \in 1..(Len(text) - many + Len(others)) |->
     CASE k < i -> text[k]
       [] k \in i..(i + Len(others) - 1) -> others[k - i + 1]
       [] OTHER -> text[k - Len(others) + many]]

Block(body) == <<"begin", body, "end">>
Whole(body) == <<"note", "begin", body, "end", "note", "exit">>

\* `insert_block`: before the exit the script ends in, or at its end.
EndsIn(text, i) == text[i] \notin Inert /\ \A j \in DOMAIN text : j > i => text[j] \in Inert
InsertAt(text) ==
  IF \E i \in DOMAIN text : EndsIn(text, i) /\ text[i] = "exit"
  THEN CHOOSE i \in DOMAIN text : EndsIn(text, i) /\ text[i] = "exit"
  ELSE Len(text) + 1
InsertBlock(text, body) == Splice(text, InsertAt(text), 0, Block(body))

\* From the first begin to the first end.
BlockSize(text) == First(text, "end") - First(text, "begin") + 1

\* With a defect: what follows the block goes with it.
StripRest(text) == SubSeq(text, 1, First(text, "begin") - 1)

\* `strip_block`.
Strip(text) == Splice(text, First(text, "begin"), BlockSize(text), << >>)

\* `replace_block_in_place`: where the old one was.
ReplaceBlock(text, body) ==
  IF Marked(text) THEN Splice(text, First(text, "begin"), BlockSize(text), Block(body))
  ELSE InsertBlock(text, body)

\* `is_ours_entirely`: nothing is left but comments and exits.
OursEntirely(text) == \A i \in DOMAIN Strip(text) : Strip(text)[i] \in Inert \cup {"exit"}

\* `install_one`.
Installed(text, body) ==
  CASE text = Absent -> Whole(body)
    [] text # Absent /\ Has(text, "begin") -> ReplaceBlock(text, body)
    [] OTHER -> InsertBlock(text, body)

\* `uninstall`, of one hook.
Uninstalled(text) ==
  CASE text = Absent \/ ~Marked(text) -> text
    [] text # Absent /\ Marked(text) /\ OursEntirely(text) -> Absent
    [] OTHER -> Strip(text)

-----------------------------------------------------------------------------
(* Commands, a file at a time.                                             *)

Start(kind, mode, body) ==
  /\ command = Quiet /\ issued < MaxHookCommands /\ issued' = issued + 1
  /\ command' = [kind |-> kind, body |-> body] /\ work' = HooksOf[mode]
  /\ UNCHANGED <<hooks, readable, changes>>

NextHook == work' = Tail(work) /\ command' = IF Len(work) = 1 THEN Quiet ELSE command

\* A file that cannot be read or written ends the command; those before it are done.
InstallOne ==
  /\ command.kind = "install" /\ work # << >>
  /\ LET name == Head(work) IN
     IF readable[name] \/ hooks[name] = Absent
     THEN /\ hooks' = [hooks EXCEPT ![name] = Installed(hooks[name], command.body)]
          /\ readable' = [readable EXCEPT ![name] = TRUE] /\ NextHook
     ELSE work' = << >> /\ command' = Quiet /\ UNCHANGED <<hooks, readable>>
  /\ UNCHANGED <<changes, issued>>

\* One that cannot be read is left, and the command goes on.
UninstallOne ==
  /\ command.kind = "uninstall" /\ work # << >>
  /\ LET name == Head(work) IN
     hooks' = IF readable[name] THEN [hooks EXCEPT ![name] = Uninstalled(hooks[name])] ELSE hooks
  /\ NextHook
  /\ UNCHANGED <<readable, changes, issued>>

\* The indicator of the repository screen: the hooks that hold a block.
Shown == {n \in Names : readable[n] /\ hooks[n] # Absent /\ Has(hooks[n], "begin")}

-----------------------------------------------------------------------------
(* The owner of the file.                                                  *)

Edit(name, text) ==
  /\ changes < MaxOwnerEdits /\ changes' = changes + 1
  /\ hooks[name] # Absent
  /\ hooks' = [hooks EXCEPT ![name] = text]
  /\ UNCHANGED <<readable, work, command, issued>>

AddLine(name, i, line) == Edit(name, Splice(hooks[name], i, 0, <<line>>))

CutLine(name, i) ==
  /\ i \in DOMAIN hooks[name]
  /\ MayCut \/ hooks[name][i] \notin Inert \cup BlockBodies
  /\ Edit(name, Splice(hooks[name], i, 1, << >>))

HooksNext ==
  \/ \E mode \in Modes, body \in BlockBodies : Start("install", mode, body)
  \/ \E mode \in Modes : Start("uninstall", mode, "none")
  \/ InstallOne \/ UninstallOne
  \/ \E n \in Names : \E i \in 1..(Len(hooks[n]) + 1) :
       CutLine(n, i) \/ \E line \in Additions : AddLine(n, i, line)

HooksSpec == HooksInit /\ [][HooksNext]_hkVars

-----------------------------------------------------------------------------
(* Properties.                                                             *)

\* At most one block, whole, and nothing of the owner's in it.
Once(text, line) == \A i, j \in DOMAIN text : text[i] = line /\ text[j] = line => i = j
Tidy(text) ==
  text # Absent =>
    /\ Once(text, "begin") /\ Once(text, "end")
    /\ Has(text, "begin") \/ Has(text, "end") =>
         /\ Marked(text)
         /\ \A i \in First(text, "begin")..First(text, "end") : ~Mine(text[i])

\* The commands of the owner are the same, in the same order: those of the one text
\* are found in the other, each at its place.
Owned(text) == IF text = Absent THEN {} ELSE {i \in DOMAIN text : Mine(text[i])}
SameCommands(old, new) ==
  \E place \in [Owned(old) -> Owned(new)] :
    /\ \A i \in Owned(old) : new[place[i]] = old[i]
    /\ \A i, j \in Owned(old) : i < j => place[i] < place[j]
    /\ \A k \in Owned(new) : \E i \in Owned(old) : place[i] = k

\* Installing and uninstalling leave the owner's commands as they are, in their
\* order, and never more than one block, whatever the owner has changed around it.
CommandsKept(n) ==
  changes' = changes /\ Tidy(hooks[n]) => SameCommands(hooks[n], hooks'[n]) /\ Tidy(hooks'[n])

\* No exit comes before the block.
Live(text) == \A i \in DOMAIN text : text[i] = "exit" => i > First(text, "begin")
\* The script ends in its only exit, or has none.
ExitsLast(text) ==
  text # Absent => \A i \in DOMAIN text : text[i] = "exit" =>
    \A j \in DOMAIN text : j > i => text[j] \in Inert

\* A hook that was installed runs: an exit does not come before the block, unless
\* the owner put one there.
BlockRuns(n) ==
  command.kind = "install" /\ hooks'[n] # hooks[n] /\ changes' = changes /\ Tidy(hooks[n])
  /\ (IF hooks[n] = Absent \/ ~Has(hooks[n], "begin") THEN ExitsLast(hooks[n]) ELSE Live(hooks[n]))
  => n \in Shown' /\ Live(hooks'[n]) /\ Has(hooks'[n], command.body)

\* A command does nothing to a hook but what it is for (hooks.rs: "Writing over one loses
\* work that was not ours to lose", "a block appended after an unconditional exit is a
\* block that never executes").
HooksKept == [][\A n \in Names : CommandsKept(n) /\ BlockRuns(n)]_hkVars
=============================================================================
