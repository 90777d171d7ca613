------------------------------ MODULE Collector ------------------------------
(***************************************************************************)
(* One sensor's collector (shared/io_util.py, run_collector): what it      *)
(* makes of the input files it finds in its folder, when it substitutes    *)
(* fixtures/demo, which issues it names and which status it reports.       *)
(*                                                                         *)
(* The module has no state.  A file is a value of File; what the sensor's  *)
(* parser does with it is Kind[f]:                                         *)
(*   "rows"     records                                                    *)
(*   "partial"  records, with corrupt JSONL lines skipped                  *)
(*   "corrupt"  an exception, or no rows from malformed text               *)
(*   "bare"     well formed, no rows                                       *)
(*   "strange"  UnrecognizedShape                                          *)
(*   "sidecar"  SidecarSkip: a companion of a parsed file                  *)
(*   "suffix"   a suffix the sensor does not accept                        *)
(* Twin[f] is the nmap XML of which f is the text copy, or NoFile.         *)
(***************************************************************************)
EXTENDS FiniteSets, Integers

CONSTANTS
  File,
  NoFile,
  Kind,         \* [File -> the outcomes above]
  Twin,         \* [File -> File \cup {NoFile}]
  Bundled       \* the sensors that have files under fixtures/demo

Kinds == {"rows", "partial", "corrupt", "bare", "strange", "sidecar", "suffix"}

(* The record a fixture of fixtures/demo yields: never an operator's file. *)
Fixture == "fixture"
Sources == File \cup {Fixture}

ASSUME CollectorAssumption ==
  /\ NoFile \notin File /\ Fixture \notin File
  /\ Kind \in [File -> Kinds]
  /\ Twin \in [File -> File \cup {NoFile}]

Labels == {"LAB", "SAMPLE", "DEMO", "CLIENT", "UNLABELED"}

Accepted(fs) == {f \in fs : Kind[f] # "suffix"}

(* Live drops of a type the sensor does not read, less the text copies of  *)
(* a scan whose XML is there.                                              *)
Unread(fs) == {f \in fs : Kind[f] = "suffix" /\ Twin[f] \notin fs}

\* Mutant: a banner in in/ outweighs the label of the command.
EstateHintBanner(label, banners, demoEnv) ==
  IF "LAB" \in banners THEN "LAB"
  ELSE IF "SAMPLE" \in banners THEN "SAMPLE"
  ELSE IF label # "" THEN label ELSE IF demoEnv THEN "SAMPLE" ELSE "UNLABELED"

(* label is GRC_ESTATE_LABEL or "", banners the banner files under IN_DIR, *)
(* demoEnv whether DROPBOX_DEMO=1.                                         *)
EstateHint(label, banners, demoEnv) ==
  CASE label # "" -> label
    [] label = "" /\ "LAB" \in banners -> "LAB"
    [] label = "" /\ "LAB" \notin banners /\ "SAMPLE" \in banners -> "SAMPLE"
    [] OTHER -> IF demoEnv THEN "SAMPLE" ELSE "UNLABELED"

DemoLabel(hint) == hint \in {"DEMO", "SAMPLE"}

AllowDemo(hint, anyInput) ==
  /\ hint \notin {"LAB", "CLIENT"}
  /\ DemoLabel(hint) \/ ~anyInput

(* fs: the files in the sensor's folder; anyInput: any input file at all   *)
(* under IN_DIR.                                                           *)
Substitutes(fs, hint, anyInput) ==
  Accepted(fs) = {} /\ Unread(fs) = {} /\ AllowDemo(hint, anyInput)

Records(s, fs, subst) ==
  {f \in fs : Kind[f] \in {"rows", "partial"}}
    \cup (IF subst /\ s \in Bundled THEN {Fixture} ELSE {})

\* Mutant: files of another suffix are left out.
IssuesAccepted(fs, subst) ==
  [parse_error        |-> {f \in fs : Kind[f] = "corrupt"},
   no_records         |-> {f \in fs : Kind[f] = "bare"},
   unrecognized_shape |-> {f \in fs : Kind[f] = "strange"},
   partial_parse      |-> {f \in fs : Kind[f] = "partial"},
   refused            |-> Accepted(fs) = {} /\ Unread(fs) = {} /\ ~subst]

Issues(fs, subst) ==
  [parse_error        |-> {f \in fs : Kind[f] = "corrupt"},
   no_records         |-> {f \in fs : Kind[f] = "bare"},
   unrecognized_shape |-> {f \in fs : Kind[f] = "strange"} \cup Unread(fs),
   partial_parse      |-> {f \in fs : Kind[f] = "partial"},
   refused            |-> Accepted(fs) = {} /\ Unread(fs) = {} /\ ~subst]

Named(issues) == issues.parse_error \cup issues.no_records
                   \cup issues.unrecognized_shape \cup issues.partial_parse

\* Mutant: substituted fixtures are not stamped.
StampsSample(recs, hint, subst) == recs # {} /\ DemoLabel(hint)

(* mark_demo: the records are stamped "demo".                              *)
Stamps(recs, hint, subst) == subst \/ (recs # {} /\ DemoLabel(hint))

Statuses == {"demo", "parse_error", "unrecognized_shape", "empty",
             "no_records", "partial", "ok"}

\* Mutant: any record makes the sensor "ok".
StatusByRecords(fs, recs, issues, demo) ==
  IF recs = {} THEN "no_records" ELSE IF demo THEN "demo" ELSE "ok"

(* _sensor_rollup                                                          *)
Status(fs, recs, issues, demo) ==
  LET anyIssue == Named(issues) # {} \/ issues.refused
      nFiles == Cardinality(Accepted(fs)) + Cardinality(Unread(fs))
  IN CASE demo /\ recs # {} -> "demo"
       [] ~demo /\ recs # {} -> IF anyIssue THEN "partial" ELSE "ok"
       [] recs = {} /\ issues.parse_error # {} -> "parse_error"
       [] recs = {} /\ issues.parse_error = {} /\ issues.unrecognized_shape # {} -> "unrecognized_shape"
       [] OTHER -> IF nFiles = 0 /\ ~anyIssue THEN "empty" ELSE "no_records"

(* What run_collector leaves in OUT_DIR: the canonical records of sensor s *)
(* and its coverage status.                                                *)
Collected(s, fs, hint, anyInput) ==
  LET subst == Substitutes(fs, hint, anyInput)
      recs == Records(s, fs, subst)
      issues == Issues(fs, subst)
      demo == Stamps(recs, hint, subst)
  IN [recs |-> recs, demo |-> demo /\ recs # {}, named |-> Named(issues),
      status |-> Status(fs, recs, issues, demo)]
=============================================================================
