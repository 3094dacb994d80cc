---------------------------- MODULE Repositories ----------------------------
(***************************************************************************)
(* The table of repositories (store/src/repos.rs) as the commands          *)
(* (daemon/src/repos.rs), onboarding (onboarding.rs) and the repository    *)
(* screen (repository_view.rs) change it, each by reading a row, changing  *)
(* its copy and writing the whole row back.  The commands run in processes *)
(* of their own, next to the watch loop, which records in the same         *)
(* database how far it has read.  The ids of removed repositories are      *)
(* given out again.                                                        *)
(***************************************************************************)
EXTENDS Integers, Sequences, FiniteSets

Seqs == INSTANCE SequencesExt

CONSTANTS
  RepoNames,
  Programs,     \* the programs that change repositories
  Settings,     \* what `repo set` may be asked for: sequences of [key, value]
  MaxRepoId,    \* bound: ids
  MaxCommands   \* bound: commands

ASSUME IdsAssumption == MaxRepoId \in Nat

Ids == 1..MaxRepoId
NoRow == [name |-> "none"]
Idle == [does |-> "none", name |-> "none", id |-> 0, row |-> NoRow]
Shut == [id |-> 0, text |-> "none", triggers |-> << >>]
\* "damaged" does not parse; "edited" is what somebody typed in the editor.
Configs == {"default", "edited", "damaged"}

VARIABLES
  rows,       \* id |-> NoRow, or the row; `born` tells rows apart that had the same id
  cursor,     \* id |-> the repository (`born`) whose history it is a place in, or 0
  doing,      \* per program, the command it is in the middle of
  screen,     \* the repository screen: the id it is open on, the config in its editor, and
              \* the triggers it showed
  pass,       \* the watch loop's pass over one repository: [id, born], 0 between passes
  births, commands

reVars == <<rows, cursor, doing, screen, pass, births, commands>>
env == <<screen, pass>>

ReposInit ==
  /\ rows = [i \in Ids |-> NoRow] /\ cursor = [i \in Ids |-> 0]
  /\ doing = [p \in Programs |-> Idle] /\ screen = Shut
  /\ pass = [id |-> 0, born |-> 0]
  /\ births = 0 /\ commands = 0

-----------------------------------------------------------------------------
(* The store.                                                              *)

There == {i \in Ids : rows[i] # NoRow}
Named(name) == {i \in There : rows[i].name = name}

\* SQLite gives out one more than the largest id in use.
NextId == IF There = {} THEN 1 ELSE 1 + (CHOOSE i \in There : \A j \in There : j <= i)

\* `delete`: what refers to the repository goes with it.
Delete(id) == rows' = [rows EXCEPT ![id] = NoRow] /\ cursor' = [cursor EXCEPT ![id] = 0]

\* With a defect: the whole copy is written, name and all.
UpdatedWholly(id, copy) == [copy EXCEPT !.born = rows[id].born]

\* `update`: all but the name and the kind, of whatever row has the id now.
Updated(id, copy) ==
  [name |-> rows[id].name, kind |-> rows[id].kind, born |-> rows[id].born, engine |-> copy.engine,
   autonomy |-> copy.autonomy, enabled |-> copy.enabled, branch |-> copy.branch, config |-> copy.config]

Begin(p, does, name, id, row) ==
  /\ doing[p] = Idle /\ commands < MaxCommands
  /\ commands' = commands + 1
  /\ doing' = [doing EXCEPT ![p] = [does |-> does, name |-> name, id |-> id, row |-> row]]
  /\ UNCHANGED <<rows, cursor, births, env>>
End(p) == doing' = [doing EXCEPT ![p] = Idle]

-----------------------------------------------------------------------------
(* Adding and removing.                                                    *)

\* The draft onboarding starts from: it acts on nothing and spends nothing.
Draft == [engine |-> "mock", autonomy |-> "dry_run"]
Drafted(name, kind, born) ==
  [name |-> name, kind |-> kind, engine |-> Draft.engine, autonomy |-> Draft.autonomy,
   enabled |-> TRUE, branch |-> "none", config |-> "default", born |-> born]

\* `add`: the names are looked through first...
Add(p, name, kind) ==
  /\ Named(name) = {}
  /\ Begin(p, "add", name, 0, Drafted(name, kind, 0))

\* ... and the row is inserted, unless another came first: names are UNIQUE.
Insert(p) ==
  /\ doing[p].does = "add" /\ End(p)
  /\ IF Named(doing[p].name) = {} /\ NextId \in Ids
     THEN /\ rows' = [rows EXCEPT ![NextId] = [doing[p].row EXCEPT !.born = births + 1]]
          /\ births' = births + 1
     ELSE UNCHANGED <<rows, births>>
  /\ UNCHANGED <<cursor, commands, env>>

Remove(p, name) == \E id \in Named(name) : Begin(p, "remove", name, id, rows[id])

Gone(p) ==
  /\ doing[p].does = "remove" /\ End(p)
  /\ IF doing[p].id \in There THEN Delete(doing[p].id) ELSE UNCHANGED <<rows, cursor>>
  /\ UNCHANGED <<births, commands, env>>

-----------------------------------------------------------------------------
(* Changing.                                                               *)

Values(key) ==
  CASE key = "engine" -> {"claude", "codex", "mock"}
    [] key = "autonomy" -> {"off", "dry_run", "auto_low_ask_high", "auto"}
    [] key = "enabled" -> {"true", "yes"}        \* anything is a value; "true" is true
    [] key = "branch" -> {"main"}
    [] OTHER -> {}
Valid(pair) == pair.value \in Values(pair.key)

Assign(row, pair) ==
  CASE pair.key = "engine" -> [row EXCEPT !.engine = pair.value]
    [] pair.key = "autonomy" -> [row EXCEPT !.autonomy = pair.value]
    [] pair.key = "enabled" -> [row EXCEPT !.enabled = (pair.value = "true")]
    [] OTHER -> [row EXCEPT !.branch = pair.value]

Assigned(row, pairs) == Seqs!FoldLeft(Assign, row, pairs)

\* `repo set`: all the pairs are looked at before anything is written.
Set(p, name, pairs) ==
  /\ \A n \in DOMAIN pairs : Valid(pairs[n])
  /\ \E id \in Named(name) : Begin(p, "write", name, id, Assigned(rows[id], pairs))

\* The config of the screen is saved, once it parses, by the id it was opened on.
Save(p) ==
  /\ screen.id \in There /\ screen.text # "damaged"
  /\ Begin(p, "write", "none", screen.id, [rows[screen.id] EXCEPT !.config = screen.text])

\* The row is written, if there still is one with that id.
WriteRow(p) ==
  /\ doing[p].does = "write" /\ End(p)
  /\ LET id == doing[p].id IN
     rows' = IF id \in There THEN [rows EXCEPT ![id] = Updated(id, doing[p].row)] ELSE rows
  /\ UNCHANGED <<cursor, births, commands, env>>

\* A command dies between reading and writing.
Die(p) ==
  /\ doing[p] # Idle /\ End(p)
  /\ UNCHANGED <<rows, cursor, births, commands, env>>

-----------------------------------------------------------------------------
(* The screen.                                                             *)

\* An edited config may ask for webhooks, without a secret or with; nothing listens.
WebhookStatus(config) == IF config = "edited" THEN "broken" ELSE "off"

\* The indicators, each of its own trigger ("manual" is always active); the health of
\* polling is made up anew for each look, so that it never reports a failure.
Triggers(row) ==
  [poll |-> IF row.enabled THEN "active" ELSE "off",
   hooks |-> IF row.kind = "git" THEN "as_installed" ELSE "not_applicable",
   webhook |-> IF row.kind = "svn" THEN "not_applicable" ELSE WebhookStatus(row.config)]

\* What the editor is given: a config that does not parse is replaced by the default.
Editable(row) == IF row.config = "damaged" THEN "default" ELSE row.config

Open(id) ==
  /\ screen = Shut /\ id \in There
  /\ screen' = [id |-> id, text |-> Editable(rows[id]), triggers |-> Triggers(rows[id])]
  /\ UNCHANGED <<rows, cursor, doing, pass, births, commands>>

Type ==
  /\ screen # Shut /\ screen' = [screen EXCEPT !.text = "edited"]
  /\ UNCHANGED <<rows, cursor, doing, pass, births, commands>>

Close ==
  /\ screen # Shut /\ screen' = Shut
  /\ UNCHANGED <<rows, cursor, doing, pass, births, commands>>

\* A row written by a version whose config this one cannot parse.
Damage(id) ==
  /\ id \in There /\ rows[id].config = "edited"
  /\ rows' = [rows EXCEPT ![id].config = "damaged"]
  /\ UNCHANGED <<cursor, doing, births, commands, env>>

-----------------------------------------------------------------------------
(* The watch loop.                                                         *)

Watch(id) ==
  /\ pass.id = 0 /\ id \in There /\ rows[id].enabled
  /\ pass' = [id |-> id, born |-> rows[id].born]
  /\ UNCHANGED <<rows, cursor, doing, screen, births, commands>>

\* The cursor belongs to an id that must exist, whoever's it is by now.
Advance ==
  /\ pass.id # 0 /\ pass' = [id |-> 0, born |-> 0]
  /\ cursor' = IF pass.id \in There THEN [cursor EXCEPT ![pass.id] = pass.born] ELSE cursor
  /\ UNCHANGED <<rows, doing, screen, births, commands>>

ReposNext ==
  \/ \E p \in Programs, name \in RepoNames :
       \/ \E kind \in {"git", "svn"} : Add(p, name, kind)
       \/ Remove(p, name)
       \/ \E pairs \in Settings : Set(p, name, pairs)
  \/ \E p \in Programs : Insert(p) \/ Gone(p) \/ Save(p) \/ WriteRow(p) \/ Die(p)
  \/ \E id \in Ids : Open(id) \/ Damage(id) \/ Watch(id)
  \/ Type \/ Close \/ Advance

ReposSpec == ReposInit /\ [][ReposNext]_reVars

-----------------------------------------------------------------------------
(* Properties.                                                             *)

\* What is one repository's does not become another's, though ids are given out
\* again and commands write by id: a new repository starts unread, and one that
\* exists keeps its name and kind (repos.rs, update: "renaming one silently would
\* break every finding fingerprint").
Apart ==
  [][\A i \in Ids :
       /\ rows[i] = NoRow /\ rows'[i] # NoRow => cursor'[i] = 0
       /\ rows[i] # NoRow /\ rows'[i] # NoRow =>
            rows'[i].name = rows[i].name /\ rows'[i].kind = rows[i].kind]_reVars
=============================================================================
