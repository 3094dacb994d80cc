--------------------------- MODULE ReviewPipeline ---------------------------
(***************************************************************************)
(* What a change is made of on its way through a review (pipeline.rs): the *)
(* diff that is cut to size (truncation.rs), the depth that is chosen      *)
(* (depth.rs), the prompt and how it reaches the engine (prompt.rs,        *)
(* template.rs), the document that comes back (schema.rs), its findings    *)
(* (normalize.rs, fingerprint.rs) and the report.                          *)
(*                                                                         *)
(* A file is a record of what the rules ask of its name and its diff; a    *)
(* text is a name, and its length a small number.  A finding names a file  *)
(* as the engine spells it, and a title with a number in it.               *)
(***************************************************************************)
EXTENDS Integers, Sequences, FiniteSets, FiniteSetsExt, SequencesExt

CONSTANTS
  Diffs,               \* what changes are made of: sequences of files (see Files)
  Guides,              \* the conventions a worktree may hold: sequences of [bytes, wide]
  Templates,           \* how an engine may be invoked
  FindingLists,        \* what an engine may report: sequences of findings (see RawFindings)
  Suppressions,        \* [prints, glob, compiles]
  MaxFileBytes, MaxTotalBytes, StatBytes, MaxConventionBytes,
  DeepFileLimit, MaxDeepLines

\* What the rules ask of a file: of its name, and of its part of the diff.
Files ==
  [path : STRING, ext : STRING, bytes : Nat, lines : Nat, test : BOOLEAN, dot : BOOLEAN,
   lock : BOOLEAN, security : BOOLEAN, ignored : BOOLEAN, sensitive : BOOLEAN, binary : BOOLEAN]

\* A finding as an engine writes it; a severity is 1 (info) to 5 (critical).
RawFindings ==
  [file : STRING, dotted : BOOLEAN, title : STRING, number : Nat, identifier : BOOLEAN,
   severity : 1..5, flaw : {"none", "severity", "shape"}]

ASSUME DiffsAssumption == \A files \in Diffs : files \in Seq(Files)
ASSUME FindingsAssumption == \A list \in FindingLists : list \in Seq(RawFindings)
ASSUME TemplatesAssumption ==
  \A t \in Templates : t \in [bin : BOOLEAN, args : Seq(STRING), stdin : BOOLEAN]
ASSUME SizesAssumption == MaxFileBytes \in Nat /\ MaxTotalBytes \in Nat /\ StatBytes \in Nat

VARIABLES
  stage,      \* "new", "asked" or "over"
  diff,       \* the files of the change, in order
  globs,      \* sensitive_globs compile
  guide,      \* the convention files of the worktree
  template,   \* the engine's invocation template
  depth,      \* depth of the attempt
  attempts,   \* engine runs
  asked,      \* the prompt of each attempt
  answered,   \* the findings of the last document, as written
  report      \* what the review says

rpVars == <<stage, diff, globs, guide, template, depth, attempts, asked, answered, report>>

-----------------------------------------------------------------------------
(* The diff.                                                               *)

\* Which files are worth their place, least first.
DataExtensions == {"md", "csv", "png"}
ConfigExtensions == {"toml", "env"}
Interest(f) ==
  CASE f.test -> 3
    [] ~f.test /\ f.ext \in DataExtensions -> 1
    [] ~f.test /\ (f.ext \in ConfigExtensions \/ f.dot) -> 2
    [] ~f.test /\ ~f.dot /\ f.ext = "json" -> 1
    [] OTHER -> 4

Paths == {diff[i].path : i \in DOMAIN diff}
Kept == {i \in DOMAIN diff : ~diff[i].ignored}

\* Binary or too large: one line stands for it.  The sections of files that are
\* ignored are in the diff all the same, and are left as they are.
AsStatLine(i) == i \in Kept /\ (diff[i].binary \/ diff[i].bytes > MaxFileBytes)
SectionBytes(i) == IF AsStatLine(i) THEN StatBytes ELSE diff[i].bytes

\* The length of some sections: the number of their bytes, each a pair.
BytesOf(sections) == Cardinality(UNION {{i} \X (1..SectionBytes(i)) : i \in sections})

\* Sections go, the least interesting first and the last of them before the first,
\* until the rest fits.
GoesBefore(i, j) ==
  \/ Interest(diff[i]) < Interest(diff[j])
  \/ Interest(diff[i]) = Interest(diff[j]) /\ i > j
Omitted == {i \in DOMAIN diff :
  BytesOf({j \in DOMAIN diff : i = j \/ GoesBefore(i, j)}) > MaxTotalBytes}
Shown == DOMAIN diff \ Omitted
Reduced == {i \in Shown : AsStatLine(i)}
Truncated == Omitted # {} \/ Reduced # {}

-----------------------------------------------------------------------------
(* Depth.                                                                  *)

DocOrLockfile(f) == f.lock \/ f.ext \in {"md"}
SecurityPattern(f) == f.ext = "sql" \/ f.security

\* The reasons, and what each implies.  No caller passes a label.
Labels == {}
DeepLabels == {"security"}
LinesChanged == MapThenSumSet(LAMBDA i : diff[i].lines, DOMAIN diff)
SummaryReasons ==
  (IF Len(diff) > DeepFileLimit THEN {"files"} ELSE {})
  \cup (IF LinesChanged > MaxDeepLines THEN {"lines"} ELSE {})
  \cup (IF \A i \in Kept : DocOrLockfile(diff[i]) THEN {"docs"} ELSE {})
DeepReasons ==
  (IF ~globs THEN {"globs"} ELSE IF \E i \in Kept : diff[i].sensitive THEN {"sensitive"} ELSE {})
  \cup (IF \E i \in Kept : SecurityPattern(diff[i]) THEN {"security"} ELSE {})
  \cup (IF Labels \cap DeepLabels # {} THEN {"label"} ELSE {})

\* The deepest wins.
Select ==
  CASE DeepReasons # {} -> "deep"
    [] DeepReasons = {} /\ SummaryReasons # {} -> "summary"
    [] OTHER -> "standard"

-----------------------------------------------------------------------------
(* The prompt.                                                             *)

\* Convention files share one budget, and one that is cut is cut between
\* characters, which leaves a byte for the next.
CutAt(f, budget) ==
  IF f.bytes <= budget THEN f.bytes
  ELSE IF f.wide THEN budget - (budget % 2) ELSE budget
TakeConvention(acc, f) ==
  IF acc.budget = 0 \/ ~f.readable THEN acc
  ELSE [budget |-> acc.budget - CutAt(f, acc.budget),
        files |-> Append(acc.files, [shown |-> CutAt(f, acc.budget), total |-> f.bytes,
                                     truncated |-> f.bytes > acc.budget])]
ConventionsOf(files) == FoldLeft(TakeConvention, [budget |-> MaxConventionBytes, files |-> << >>], files).files
ReadConventions == ConventionsOf(guide)

BuildContext ==
  [shown |-> Shown \ Reduced, stats |-> Reduced, truncated |-> Truncated,
   omitted |-> Omitted, conventions |-> ReadConventions]

\* An argument names a placeholder, holds a brace that is never closed, or neither.
Placeholders == {"cwd", "out_dir", "prompt_file", "prompt_file_content", "timeout_secs"}
NamesOf(arg) == IF arg = "plain" THEN {} ELSE {arg}
UsedBy(t) == UNION {NamesOf(t.args[i]) : i \in DOMAIN t.args}
Delivering(t) == UsedBy(t) \cap {"prompt_file", "prompt_file_content"}

\* (With a defect, one that gives no prompt is valid too.)
ValidateUndelivered(t) ==
  /\ t.bin /\ UsedBy(t) \subseteq Placeholders
  /\ t.stdin => Delivering(t) = {}
Validate(t) ==
  /\ t.bin /\ UsedBy(t) \subseteq Placeholders
  /\ t.stdin => Delivering(t) = {}
  /\ ~t.stdin => Delivering(t) # {}

\* What the engine is started with.
Render(t) ==
  [args |-> {i \in DOMAIN t.args : t.args[i] \in Delivering(t)}, stdin |-> t.stdin]

-----------------------------------------------------------------------------
(* What comes back.                                                        *)

\* A document that is not JSON, of another version, or whose envelope does not
\* match the schema is no result.  One without a version is taken for this one.
CheckVersion(doc) == doc.version = "none" \/ doc.version = "1"
Usable(doc) == doc.json /\ CheckVersion(doc) /\ doc.envelope

\* Findings are validated one by one, and the valid ones are kept, at their places
\* in the document.
Valid(doc) == Restrict(doc.findings, {i \in DOMAIN doc.findings : doc.findings[i].flaw = "none"})

Medium == 3
High == 4
OutOfDiffCeiling == Medium

\* Nothing but an unknown severity can be mended; the pipeline is not told of the
\* findings that were dropped.
Mendable(dropped) == {i \in DOMAIN dropped : dropped[i].flaw = "severity"}
Salvage(dropped) == [i \in Mendable(dropped) |-> [dropped[i] EXCEPT !.severity = Medium]]
StillDropped(dropped) == DOMAIN dropped \ Mendable(dropped)
PassedOn(doc) == << >>

\* What was mended comes after what was valid.
ToNormalize(doc) ==
  LET salvaged == Salvage(PassedOn(doc))
      Later(i) == i - Len(doc.findings)
  IN  [i \in DOMAIN Valid(doc) \cup {Len(doc.findings) + k : k \in DOMAIN salvaged} |->
         IF i \in DOMAIN Valid(doc) THEN Valid(doc)[i] ELSE salvaged[Later(i)]]

\* repo, file, category and title: the path without its dots, the title without
\* its numbers, but for those in identifiers.
NormalizePath(f) == f.file
NormalizeTitle(f) == [words |-> f.title, number |-> IF f.identifier THEN f.number ELSE 0]
Fingerprint(f) == <<NormalizePath(f), NormalizeTitle(f)>>

\* The paths of the change are compared as they are spelled.
OutOfDiff(f) == f.file # "none" /\ (f.dotted \/ f.file \notin Paths)
Clamped(f, at) == IF OutOfDiff(f) /\ at # "deep" /\ f.severity > OutOfDiffCeiling
                  THEN OutOfDiffCeiling ELSE f.severity

\* A suppression that names neither matches nothing; nor does a glob that does not
\* compile, or a path with dots in it.
Suppressed(f) == \E s \in Suppressions :
  \/ Fingerprint(f) \in s.prints
  \/ s.compiles /\ f.file \in s.glob /\ ~f.dotted

\* The executor and the command both say that nothing was published before.
Published == {}

\* (With a defect, a repeat is open as well.)
StateOfAny(f, seen) ==
  IF Suppressed(f) THEN "suppressed" ELSE "open"
StateOf(f, seen) ==
  CASE Suppressed(f) -> "suppressed"
    [] ~Suppressed(f) /\ Fingerprint(f) \in seen \cup Published -> "superseded"
    [] OTHER -> "open"

\* What is open of the findings before the i-th: their fingerprints.
SeenBefore(findings, i) ==
  {Fingerprint(findings[j]) : j \in {j \in DOMAIN findings : j < i /\ ~Suppressed(findings[j])}}
Normalize(findings, at) ==
  [i \in DOMAIN findings |->
     [print |-> Fingerprint(findings[i]), severity |-> Clamped(findings[i], at),
      state |-> StateOf(findings[i], SeenBefore(findings, i)), outOfDiff |-> OutOfDiff(findings[i])]]

Open(normalized) == {i \in DOMAIN normalized : normalized[i].state = "open"}
Publishable(normalized) == Restrict(normalized, Open(normalized))
Withheld(normalized) == Restrict(normalized, DOMAIN normalized \ Open(normalized))

-----------------------------------------------------------------------------
(* The review.                                                             *)

NoReport == [status |-> "none", depth |-> "summary", escalated |-> FALSE, attempts |-> 0,
             omitted |-> {}, reduced |-> {}, verdict |-> "none", findings |-> << >>,
             withheld |-> << >>, dropped |-> 0]
SkippedReport == [NoReport EXCEPT !.status = "skipped"]

\* Every path is ignored, or there is none.
Skip ==
  /\ stage = "new" /\ Kept = {}
  /\ stage' = "over" /\ report' = SkippedReport
  /\ UNCHANGED <<diff, globs, guide, template, depth, attempts, asked, answered>>

Begin ==
  /\ stage = "new" /\ Kept # {}
  /\ depth' = Select
  /\ attempts' = 1
  /\ asked' = <<BuildContext>>
  /\ stage' = "asked"
  /\ UNCHANGED <<diff, globs, guide, template, answered, report>>

\* build_report: what was looked at, and what was found.
ReportOf(status, verdict, findings, withheld, dropped) ==
  [status |-> status, depth |-> depth, escalated |-> attempts = 2, attempts |-> attempts,
   omitted |-> Omitted, reduced |-> Reduced, verdict |-> verdict, findings |-> findings,
   withheld |-> withheld, dropped |-> dropped]

\* The template is refused, the engine fails or says nothing that can be used.
EngineFails ==
  /\ stage = "asked"
  /\ stage' = "over" /\ report' = ReportOf("failed", "none", << >>, << >>, 0)
  /\ answered' = << >>
  /\ UNCHANGED <<diff, globs, guide, template, depth, attempts, asked>>

\* Only a standard review, and only what will be published.  (With a defect, all
\* that the engine said.)
EscalateOnAll(at, normalized) ==
  at = "standard" /\ \E i \in DOMAIN normalized : normalized[i].severity >= High
Escalate(at, normalized) ==
  at = "standard" /\ \E i \in Open(normalized) : normalized[i].severity >= High

Answers(doc) == stage = "asked" /\ Validate(template) /\ Usable(doc)

RunAgain(doc) ==
  /\ Answers(doc)
  /\ Escalate(depth, Normalize(Valid(doc), depth))
  /\ depth' = "deep" /\ attempts' = attempts + 1
  /\ asked' = Append(asked, BuildContext)
  /\ answered' = doc.findings
  /\ UNCHANGED <<stage, diff, globs, guide, template, report>>

VerdictOf(doc) == IF doc.verdict = "none" THEN "comment" ELSE doc.verdict

Report(doc) ==
  /\ Answers(doc)
  /\ ~Escalate(depth, Normalize(Valid(doc), depth))
  /\ LET normalized == Normalize(ToNormalize(doc), depth) IN
     report' = ReportOf("done", VerdictOf(doc), Publishable(normalized), Withheld(normalized),
                        Cardinality(StillDropped(PassedOn(doc))))
  /\ answered' = doc.findings
  /\ stage' = "over"
  /\ UNCHANGED <<diff, globs, guide, template, depth, attempts, asked>>

\* What engines write: a whole document, or one that is no result.
Documents ==
  [json : {TRUE}, version : {"none", "1"}, envelope : {TRUE}, verdict : {"none", "approve"},
   findings : FindingLists]
  \cup [json : {FALSE}, version : {"none"}, envelope : {FALSE}, verdict : {"none"}, findings : {<< >>}]
  \cup [json : {TRUE}, version : {"1", "2"}, envelope : {FALSE}, verdict : {"none"}, findings : {<< >>}]

ReviewInit ==
  /\ stage = "new"
  /\ diff \in Diffs /\ globs \in BOOLEAN /\ guide \in Guides /\ template \in Templates
  /\ depth = "standard" /\ attempts = 0 /\ asked = << >> /\ answered = << >>
  /\ report = NoReport

ReviewNext ==
  \/ Skip \/ Begin \/ EngineFails
  \/ \E doc \in Documents : RunAgain(doc) \/ Report(doc)

ReviewSpec == ReviewInit /\ [][ReviewNext]_rpVars

-----------------------------------------------------------------------------
(* Properties.                                                             *)

Prints(findings) == {findings[i].print : i \in DOMAIN findings}

\* A finding the engine reported and the schema accepted is published or withheld,
\* under its fingerprint; none but a suppressed one goes unpublished, and a report
\* never holds two of one fingerprint (normalize.rs, "Nothing is discarded, only
\* labelled").
FindingsAccountedFor ==
  report.status = "done" =>
    LET valid == {i \in DOMAIN answered : answered[i].flaw = "none"}
        told == report.findings
    IN  /\ DOMAIN told \cup DOMAIN report.withheld = valid
        /\ DOMAIN told \cap DOMAIN report.withheld = {}
        /\ \A i \in DOMAIN told : told[i].print = Fingerprint(answered[i]) /\ ~Suppressed(answered[i])
        /\ \A i \in valid : ~Suppressed(answered[i]) => Fingerprint(answered[i]) \in Prints(told)
        /\ \A i, j \in DOMAIN told : told[i].print = told[j].print => i = j

\* A file of the change is before the engine whole, or its name is: in the report,
\* and in each prompt that was sent, which is no longer than it may be
\* (truncation.rs, "complete and never itself truncated").
FilesAccountedFor ==
  /\ \A n \in DOMAIN asked :
       /\ Kept \subseteq asked[n].shown \cup asked[n].stats \cup asked[n].omitted
       /\ asked[n].truncated = (asked[n].stats \cup asked[n].omitted # {})
       /\ BytesOf(asked[n].shown) + StatBytes * Cardinality(asked[n].stats) <= MaxTotalBytes
       /\ report.status \in {"done", "failed"} =>
            report.omitted = asked[n].omitted /\ report.reduced = asked[n].stats
  /\ report.status = "skipped" => Kept = {}

\* Neither a file nor a finding vanishes on the way through a review.
NothingVanishes == FindingsAccountedFor /\ FilesAccountedFor

\* A review that is published at standard depth found nothing severe, and a second
\* run is bought only by a finding that would be published (depth.rs, escalate).
SevereMeansDeeper ==
  /\ report.status = "done" /\ report.depth = "standard" =>
       \A i \in DOMAIN report.findings : report.findings[i].severity < High
  /\ attempts = 2 /\ stage = "asked" =>
       \E i \in DOMAIN answered :
         answered[i].severity >= High /\ ~Suppressed(answered[i]) /\ ~OutOfDiff(answered[i])

\* A review that comes to a result was asked for: its engine had the prompt, and
\* not both on its standard input and in an argument (template.rs, validate).
PromptDelivered ==
  report.status = "done" =>
    LET sent == Render(template) IN sent.stdin # (sent.args # {})

\* "Findings the schema rejected and normalization could not salvage" (pipeline.rs).
DroppedIsCounted ==
  report.status = "done" =>
    report.dropped = Cardinality({i \in DOMAIN answered : answered[i].flaw = "shape"})
=============================================================================
