------------------------------ MODULE MCReview ------------------------------
(***************************************************************************)
(* A review and its delivery, as two parts of one run (see MCSources).     *)
(***************************************************************************)
EXTENDS ReviewPipeline, Delivery

CONSTANT Part   \* the parts that are explored

File(path, ext, bytes) ==
  [path |-> path, ext |-> ext, bytes |-> bytes, lines |-> bytes, test |-> FALSE, dot |-> FALSE,
   lock |-> FALSE, security |-> FALSE, ignored |-> FALSE, sensitive |-> FALSE, binary |-> FALSE]
Source == File("a", "rs", 3)
Login == [File("login", "rs", 2) EXCEPT !.security = TRUE]
Readme == File("readme", "md", 2)
Config == File("conf", "toml", 2)
Tests == [File("t", "rs", 4) EXCEPT !.test = TRUE]
Huge == File("huge", "rs", 9)
Image == [File("img", "png", 5) EXCEPT !.binary = TRUE]
Vendored == [File("vendor", "rs", 5) EXCEPT !.ignored = TRUE]
Guarded == [File("pay", "rs", 2) EXCEPT !.sensitive = TRUE]
SomeFiles == {Source, Login, Readme, Config, Tests, Huge, Image, Vendored, Guarded}
SomeDiffs == {<<f>> : f \in SomeFiles} \cup {<<f, Source>> : f \in SomeFiles}
             \cup {<<Source, f, g>> : f, g \in SomeFiles \ {Source}} \cup {<<Vendored, Huge, Tests, Source>>}

SomeGuides == {<<[readable |-> TRUE, bytes |-> 5, wide |-> TRUE], [readable |-> FALSE, bytes |-> 1, wide |-> FALSE],
                 [readable |-> TRUE, bytes |-> 2, wide |-> FALSE]>>}
SomeTemplates == { [bin |-> TRUE, args |-> <<"plain", "prompt_file_content">>, stdin |-> FALSE],
                   [bin |-> TRUE, args |-> <<"cwd">>, stdin |-> TRUE],
                   [bin |-> TRUE, args |-> <<"cwd">>, stdin |-> FALSE],
                   [bin |-> TRUE, args |-> <<"prompt_file", "typo">>, stdin |-> FALSE],
                   [bin |-> TRUE, args |-> <<"prompt_file">>, stdin |-> TRUE] }

Raw(file, title, severity) ==
  [file |-> file, dotted |-> FALSE, title |-> title, number |-> 1, identifier |-> FALSE,
   severity |-> severity, flaw |-> "none"]
SomeRaw == { Raw("a", "x", 4), [Raw("a", "x", 2) EXCEPT !.number = 2], [Raw("a", "x", 5) EXCEPT !.dotted = TRUE],
             [Raw("a", "x", 3) EXCEPT !.identifier = TRUE], Raw("other", "x", 5), Raw("none", "y", 1),
             Raw("gen", "x", 5), Raw("a", "muted", 5),
             [Raw("a", "z", 3) EXCEPT !.flaw = "severity"], [Raw("a", "w", 3) EXCEPT !.flaw = "shape"] }
SomeLists == {<<f>> : f \in SomeRaw} \cup {<<f, g>> : f, g \in SomeRaw}
SomeSuppressions == { [prints |-> {<<"a", [words |-> "muted", number |-> 0]>>}, glob |-> {}, compiles |-> FALSE],
                      [prints |-> {}, glob |-> {"gen"}, compiles |-> TRUE],
                      [prints |-> {}, glob |-> {"a"}, compiles |-> FALSE] }

VARIABLE part

Act(kind) == [kind |-> kind, first |-> FALSE, degraded |-> FALSE, confidence |-> "high", burst |-> FALSE,
              head |-> "h", verdict |-> "comment", findings |-> {}, phase |-> "resolved",
              publish |-> FALSE, version |-> 1, readable |-> TRUE, print |-> "p", moves |-> FALSE]
SomeActions ==
  << [Act("review") EXCEPT !.verdict = "request_changes", !.findings = {"f", "g"}],
     [Act("review") EXCEPT !.findings = {"g", "h"}, !.confidence = "low"],
     Act("issue"), [Act("issue") EXCEPT !.first = TRUE], [Act("issue") EXCEPT !.readable = FALSE],
     Act("page"), [Act("page") EXCEPT !.publish = TRUE, !.version = 2],
     [Act("status") EXCEPT !.moves = TRUE], [Act("check") EXCEPT !.verdict = "request_changes"], Act("check"),
     [Act("review") EXCEPT !.verdict = "approve", !.findings = {"f"}],
     [Act("check") EXCEPT !.phase = "starting"], [Act("check") EXCEPT !.phase = "abandoned"] >>
SomePlans == {{1, 2}, {2, 10}, {9, 11}, {12, 9}, {12}, {3, 4}, {3, 5, 8}, {6}, {6, 7}}

SomeOptions == {[approve |-> b, block |-> b] : b \in BOOLEAN}

\* A part that is not the one explored rests in one initial state.
MCInit ==
  /\ part \in Part
  /\ IF part = "review" THEN TRUE
     ELSE diff = <<Source>> /\ globs = TRUE /\ template = [bin |-> TRUE, args |-> <<"cwd">>, stdin |-> TRUE]
  /\ IF part = "delivery" THEN TRUE
     ELSE mode = "off" /\ options = [approve |-> TRUE, block |-> TRUE]
  /\ ReviewInit /\ DeliveryInit

ReviewPart == part = "review" /\ ReviewNext /\ UNCHANGED <<part, deliveryVars>>
DeliveryPart == part = "delivery" /\ DeliveryNext /\ UNCHANGED <<part, rpVars>>

MCNext == ReviewPart \/ DeliveryPart
MCSpec == MCInit /\ [][MCNext]_<<part, rpVars, deliveryVars>>

-----------------------------------------------------------------------------
\* TLC evaluates a definition once, but what it puts in the place of a constant each time.
TheActions == SomeActions
ThePlans == SomePlans
TheOptions == SomeOptions
EveryPart == {"review", "delivery"}
=============================================================================
