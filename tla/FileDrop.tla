------------------------------ MODULE FileDrop ------------------------------
(***************************************************************************)
(* The file-drop path to the system of record: commands that read what an  *)
(* operator dropped under in/ and run collectors and the loader into out/. *)
(*   "ciso"     dropbox ciso / schedule    (ciso_path.run_ciso_path)       *)
(*   "write"    the same with --write-pack-in                              *)
(*   "prove"    prove_ciso --use-existing-in                               *)
(*   "prior"    the same with --prior-out dest/out                         *)
(*   "refresh"  a pass over every sensor   (product/server.run_collectors) *)
(* Each leaves files that the next one finds: copies staged under out/in,  *)
(* canonical records and coverage of sensors it does not visit, the        *)
(* summary, the POA&M ledger.  The operator edits in/ at any time, also    *)
(* between two collectors of a run, and any process may die.               *)
(***************************************************************************)
EXTENDS Collector, Sequences, SequencesExt

CONSTANTS
  Order,        \* the sensors with a collector, in the order they run
  Folder,       \* [File -> the top-level place of the file under in/]
  Name,         \* [File -> basename]
  Path,         \* [File -> Nat]: the order of the full paths
  Family,       \* [File -> the sensor keepmin detects for it, or ""]
  KeepShaped,   \* those with a family by their KEEP shape: not beside LAB.txt
  Marked,       \* files with a text keepmin takes for a sample's (a banner, a name
                \* that only the fixtures use)
  Bannered,     \* files that say SAMPLE or DEMO in so many words
  DemoClient,   \* BOOLEAN: SCOPE names a client with DEMO in it
  Seeded,       \* files of a fixture tree that prove never expects beside LAB.txt
  NmapXml,      \* files that are nmap XML
  PackIn,       \* in/ is the pack's own in/, watched by a fingerprint
  Cmds,         \* the commands issued
  MaxRuns, MaxEdits

Sensor == ToSet(Order)
SecondPass == "pass2"
Top == "top"            \* files directly in in/

ASSUME FileDropAssumption ==
  /\ Order \in Seq(Sensor) /\ "" \notin Sensor
  /\ Family \in [File -> Sensor \cup {""}]
  /\ Marked \subseteq File /\ Bannered \subseteq File /\ DemoClient \in BOOLEAN
  /\ KeepShaped \subseteq File /\ NmapXml \subseteq File

VARIABLES
  drop,         \* set of entries: the tree of in/
  banner,       \* banner files in in/
  stage,        \* set of entries: out/in
  canon,        \* [Sensor -> what Collected returned, or None]
  register,     \* what the last completed loader run published
  inLedger,     \* the runs recorded in in/poam/poam-ledger.json ({}: no file)
  stageLedger,  \* ... in out/in/poam/poam-ledger.json
  outLedger,    \* ... in out/poam/poam-ledger.json
  runNo, edits, \* counters, bounded by MaxRuns and MaxEdits
  run,          \* the command in progress
  result        \* what the last command returned

vars == <<drop, banner, stage, canon, register, inLedger, stageLedger,
          outLedger, runNo, edits, run, result>>

None == [recs |-> {}, demo |-> FALSE, named |-> {}, status |-> "none"]
Blank == [recs |-> {}, demo |-> FALSE, run |-> 0, cover |-> [s \in Sensor |-> "none"]]
Idle == [cmd |-> "idle", inPlace |-> FALSE, todo |-> {}, ran |-> FALSE,
         sample |-> FALSE, rows |-> {}, seen |-> {}, had |-> {}, before |-> <<{}, {}>>]
NoResult == [cmd |-> "none", ok |-> FALSE, sample |-> FALSE, client |-> FALSE,
             demo |-> FALSE, counts |-> 0, rows |-> {}, seen |-> {}, inPlace |-> FALSE,
             skipped |-> {}]

At(f) == [at |-> Folder[f], name |-> <<Name[f]>>, file |-> f]
Slot(e) == <<e.at, e.name>>
Put(tree, e) == {x \in tree : Slot(x) # Slot(e)} \cup {e}
FilesOf(tree) == {e.file : e \in tree}
FilesAt(tree, d) == {e.file : e \in {x \in tree : x.at = d}}

-----------------------------------------------------------------------------
(* run_ciso_path, up to the first collector.                               *)

(* inventory_keepmin: detected files anywhere under in/.  detect_family    *)
(* takes no file below LAB.txt.                                            *)
Rows(tree) == {f \in FilesOf(tree) : Family[f] # "" /\ ~("LAB" \in banner /\ f \in KeepShaped)}

HasSensors(tree) == \E e \in tree : e.at \in Sensor

(* _land_keepmin: rows are copied in path order, so that of two rows of    *)
(* one sensor with the same name the last one stays.                       *)
Landed(tree, rows) ==
  LET Target(f) == [at |-> Family[f], name |-> <<Name[f]>>, file |-> f]
      last == {f \in rows : \A g \in rows :
                 Slot(Target(g)) = Slot(Target(f)) => Path[g] <= Path[f]}
      targets == {Target(f) : f \in last}
  IN {x \in tree : \A t \in targets : Slot(t) # Slot(x)} \cup targets

(* _land_nmap_pass_dirs: nmap XML of pass2/ goes to nmap/ as pass2__name.  *)
PassLanded(tree, from) ==
  LET xml == {e \in from : e.at = SecondPass /\ e.file \in NmapXml}
      targets == {[at |-> "nmap", name |-> <<SecondPass>> \o e.name, file |-> e.file] : e \in xml}
  IN {x \in tree : \A t \in targets : Slot(t) # Slot(x)} \cup targets

(* unread_sensor_dirs: folders with input that no collector reads.         *)
UnreadDirs(tree, read) ==
  {d \in {e.at : e \in tree} \ (Sensor \cup {Top}) :
     /\ ~(d = SecondPass /\ FilesAt(tree, d) \cap NmapXml # {})
     /\ ~(read # {} /\ FilesAt(tree, d) \subseteq read)}

\* Mutant: only this command's rows are looked at.
IsSampleRows(tree, inPlace, rows) ==
  rows \cap Marked # {} \/ DemoClient \/ (inPlace /\ banner # {})

(* any(row.sample), the client's name, _sample_banner_present(stage_in).   *)
(* The tree is looked at for banners only, and the pack's LAB.txt says     *)
(* "DEMO -- not a client estate" too.                                      *)
IsSample(tree, inPlace, rows) ==
  \/ rows \cap Marked # {}
  \/ DemoClient
  \/ FilesOf(tree) \cap Bannered # {}
  \/ inPlace /\ banner # {}

Tree(r) == IF r.inPlace THEN drop ELSE stage

WithInput(tree) == {s \in Sensor : FilesAt(tree, s) # {}}

(* _carry_ledger_state: without it --prior-out is silently ignored.        *)
\* Mutant: not carried.
NotCarried(inPlace, old) == old
Carried(inPlace, old) == IF ~inPlace /\ inLedger' # {} THEN inLedger' ELSE old

(* Everything before the first collector.  kept: the part of out/ that the *)
(* command found, and left.                                                *)
Staged(cmd, kept) ==
  LET rows == Rows(drop)
      found == HasSensors(drop)
      inPlace == found \/ (PackIn /\ cmd = "write")
      here == IF inPlace THEN drop ELSE kept.stage
      tree == PassLanded(IF found THEN here ELSE Landed(here, rows), drop)
  IN /\ drop' = IF inPlace THEN tree ELSE drop
     /\ stage' = IF inPlace THEN kept.stage ELSE tree
     /\ stageLedger' = Carried(inPlace, kept.ledger)
     /\ IF UnreadDirs(drop, rows) # {}
        THEN /\ run' = Idle
             /\ result' = [NoResult EXCEPT !.cmd = cmd]
        ELSE /\ run' = [cmd |-> cmd, inPlace |-> inPlace, todo |-> WithInput(tree), ran |-> FALSE,
                        sample |-> IsSample(tree, inPlace, rows), rows |-> rows, seen |-> {},
                        had |-> outLedger, before |-> <<drop, inLedger>>]
             /\ UNCHANGED result

Ciso(cmd) ==
  /\ run = Idle /\ runNo < MaxRuns
  /\ runNo' = runNo + 1
  /\ UNCHANGED <<banner, inLedger, canon, register, outLedger, edits>>
  /\ Staged(cmd, [stage |-> stage, ledger |-> stageLedger])

(* prove_ciso: the guards on in/, where a ledger is input enough (it is    *)
(* not of SKIP_EXISTING_IN_NAMES), the prior ledgers into in/, a new out/. *)
Prove(cmd) ==
  /\ run = Idle /\ runNo < MaxRuns
  /\ runNo' = runNo + 1
  /\ UNCHANGED <<banner, edits>>
  /\ IF \/ drop = {} /\ inLedger = {}
        \/ "LAB" \in banner /\ FilesOf(drop) \cap Seeded # {}
        \/ cmd = "prior" /\ outLedger = {}
     THEN /\ result' = [NoResult EXCEPT !.cmd = cmd]
          /\ UNCHANGED <<drop, stage, canon, register, inLedger, stageLedger, outLedger, run>>
     ELSE /\ inLedger' = IF cmd = "prior" THEN outLedger ELSE inLedger
          /\ canon' = [s \in Sensor |-> None]
          /\ register' = Blank
          /\ outLedger' = {}
          /\ Staged(cmd, [stage |-> {}, ledger |-> {}])

Refresh ==
  /\ run = Idle /\ runNo < MaxRuns
  /\ runNo' = runNo + 1
  /\ run' = [Idle EXCEPT !.cmd = "refresh", !.inPlace = TRUE, !.todo = Sensor,
                         !.had = outLedger, !.before = <<drop, inLedger>>]
  /\ UNCHANGED <<drop, banner, stage, canon, register, inLedger, stageLedger,
                 outLedger, edits, result>>

-----------------------------------------------------------------------------
(* Collectors, one process each, in the order of the list.                 *)

IsNext(s) == \E i \in DOMAIN Order :
  /\ Order[i] = s /\ s \in run.todo
  /\ \A j \in 1 .. i - 1 : Order[j] \notin run.todo

Label == IF run.cmd \in {"prove", "prior"} THEN "LAB" ELSE ""
Hint == EstateHint(Label, IF run.inPlace THEN banner ELSE {},
                   run.sample)

(* in_dir_has_live_inputs: the ledgers of SKIP_INPUT_NAMES are no input.   *)
AnyInput == Tree(run) # {}

Output(s) == Collected(s, FilesAt(Tree(run), s), Hint, AnyInput)

Collect ==
  /\ \E s \in Sensor :
       /\ IsNext(s)
       /\ canon' = [canon EXCEPT ![s] = Output(s)]
       /\ run' = [run EXCEPT !.todo = @ \ {s}, !.ran = TRUE,
                             !.seen = @ \cup {e \in Tree(run) : e.at = s}]
  /\ UNCHANGED <<drop, banner, stage, register, inLedger, stageLedger, outLedger,
                 runNo, edits, result>>

Fail == /\ run' = Idle
        /\ result' = [NoResult EXCEPT !.cmd = run.cmd]

(* A collector dies before it wrote, or with its records written (perhaps  *)
(* cut short) and its status not.  The run raises.                         *)
CollectorDies ==
  /\ \E s \in Sensor :
       /\ IsNext(s)
       /\ \/ UNCHANGED canon
          \/ \E kept \in SUBSET Output(s).recs :
               canon' = [canon EXCEPT ![s].recs = kept,
                                      ![s].demo = Output(s).demo /\ kept # {}]
  /\ Fail
  /\ UNCHANGED <<drop, banner, stage, register, inLedger, stageLedger, outLedger, runNo, edits>>

(* grc_loader: every canonical file of out/, not only those of this run.   *)
Prior == LET first == IF run.inPlace THEN inLedger ELSE stageLedger
         IN IF first # {} THEN first ELSE outLedger

Load ==
  /\ run # Idle /\ run.todo = {} /\ run.ran /\ register.run # runNo
  /\ register' = [recs |-> UNION {canon[s].recs : s \in Sensor},
                  demo |-> \E s \in Sensor : canon[s].demo, run |-> runNo,
                  cover |-> [s \in Sensor |-> canon[s].status]]
  /\ outLedger' = Prior \cup {runNo}
  /\ UNCHANGED <<drop, banner, stage, canon, inLedger, stageLedger, runNo, edits, run, result>>

(* The loader dies with or without its ledger written.                     *)
LoaderDies ==
  /\ run # Idle /\ run.todo = {} /\ run.ran /\ register.run # runNo
  /\ outLedger' \in {outLedger, Prior \cup {runNo}}
  /\ Fail
  /\ UNCHANGED <<drop, banner, stage, canon, register, inLedger, stageLedger, runNo, edits>>

Ended == run # Idle /\ run.todo = {} /\ (run.ran => register.run = runNo)

(* Without --write-pack-in a changed fingerprint of the pack's in/ raises. *)
Blamed == PackIn /\ run.cmd \notin {"write", "refresh"} /\ run.before # <<drop, inLedger>>

Blame ==
  /\ Ended /\ Blamed
  /\ Fail
  /\ UNCHANGED <<drop, banner, stage, canon, register, inLedger, stageLedger,
                 outLedger, runNo, edits>>

(* The command returns.  skipped: the dropped files that no collector of   *)
(* the run saw, although no folder was refused.                            *)
Return ==
  /\ Ended /\ ~Blamed
  /\ result' = [cmd |-> run.cmd, ok |-> TRUE, sample |-> run.sample,
                client |-> run.cmd \in {"ciso", "write"} /\ run.rows # {} /\ ~run.sample,
                demo |-> register.demo, counts |-> register.run, rows |-> run.rows,
                seen |-> FilesOf(run.seen), inPlace |-> run.inPlace,
                skipped |-> FilesOf(run.before[1]) \ FilesOf(run.seen)]
  /\ run' = Idle
  /\ UNCHANGED <<drop, banner, stage, canon, register, inLedger, stageLedger,
                 outLedger, runNo, edits>>

-----------------------------------------------------------------------------
(* The operator, at any time.                                              *)

Edited == edits < MaxEdits /\ edits' = edits + 1
Kept == UNCHANGED <<stage, canon, register, stageLedger, outLedger, runNo, run, result>>

AddFile == /\ Edited
           /\ \E f \in File \ FilesOf(drop) : drop' = Put(drop, At(f))
           /\ Kept /\ UNCHANGED <<banner, inLedger>>
RemoveFile == /\ Edited
              /\ \E e \in drop : drop' = drop \ {e}
              /\ Kept /\ UNCHANGED <<banner, inLedger>>
SetBanner == /\ Edited
             /\ banner' \in SUBSET {"LAB", "SAMPLE"}
             /\ Kept /\ UNCHANGED <<drop, inLedger>>
MoveLedger == /\ Edited /\ run = Idle
              /\ inLedger' \in {{}, outLedger}
              /\ Kept /\ UNCHANGED <<drop, banner>>

Init ==
  /\ \E fs \in SUBSET File :
       /\ \A f, g \in fs : Slot(At(f)) = Slot(At(g)) => f = g
       /\ drop = {At(f) : f \in fs}
  /\ banner \in SUBSET {"LAB", "SAMPLE"}
  /\ stage = {} /\ inLedger = {} /\ stageLedger = {} /\ outLedger = {}
  /\ canon = [s \in Sensor |-> None]
  /\ register = Blank
  /\ runNo = 0 /\ edits = 0
  /\ run = Idle /\ result = NoResult

Start == \/ "ciso" \in Cmds /\ Ciso("ciso")
         \/ "write" \in Cmds /\ Ciso("write")
         \/ "prove" \in Cmds /\ Prove("prove")
         \/ "prior" \in Cmds /\ Prove("prior")
         \/ "refresh" \in Cmds /\ Refresh

Next == \/ Start
        \/ Collect \/ CollectorDies \/ Load \/ LoaderDies \/ Blame \/ Return
        \/ AddFile \/ RemoveFile \/ SetBanner \/ MoveLedger

Spec == Init /\ [][Next]_vars

-----------------------------------------------------------------------------
(* prove and the full pass publish what they read themselves: no record of *)
(* a file an earlier command left in out/, whatever was dropped, removed   *)
(* or killed before; prove never publishes a fixture.                      *)
Publishes == register' # register /\ register'.run # 0

PublishesOwnRun ==
  [][Publishes /\ run.cmd \in {"prove", "prior", "refresh"} =>
       register'.recs \subseteq FilesOf(run.seen)
                                 \cup (IF run.cmd = "refresh" THEN {Fixture} ELSE {})]_vars

(* A sensor that prove or the full pass reports as "ok" gave a record for  *)
(* every file the collector found, a sidecar or a text copy excepted.      *)
CoverageHonest ==
  [][Publishes /\ run.cmd \in {"prove", "prior", "refresh"} =>
       \A s \in Sensor : register'.cover[s] = "ok" =>
         LET fs == FilesAt(run.seen, s)
         IN fs # {} /\ \A f \in fs : \/ f \in register'.recs
                                     \/ Kind[f] = "sidecar"
                                     \/ Kind[f] = "suffix" /\ Twin[f] \in fs]_vars

(* A file whose records are missing from the register of prove or of the   *)
(* full pass is named in the coverage of its sensor.                       *)
GapsNamed ==
  [][Publishes /\ run.cmd \in {"prove", "prior", "refresh"} =>
       \A e \in run.seen : \/ e.file \in register'.recs \cup canon[e.at].named
                            \/ Kind[e.file] = "sidecar"
                            \/ \E g \in run.seen : g.file = Twin[e.file]]_vars

(* Fixture records never reach a register that is not stamped demo.        *)
FixturesLabelled == Fixture \in register.recs => register.demo

(* prove --prior-out dest/out: every run the ledger of the old out/ knew   *)
(* is in the ledger of the new out/, although out/ is wiped in between.    *)
PriorCarried ==
  [][Publishes /\ run.cmd = "prior" => run.had \subseteq outLedger']_vars

(* A run on staged copies that calls the drop a client's took no file of   *)
(* the drop with a sample's text, and read none that says SAMPLE or DEMO,  *)
(* copies left by earlier runs included.                                   *)
StagedClientClean ==
  result.client /\ ~result.inPlace =>
    (result.rows \cap Marked) \cup (result.seen \cap Bannered) = {}

(* "They must not flip client_keep just because they lack the keep-samples *)
(* banner" (keep/adapters.py:37): a run that calls the drop a client's     *)
(* read no file with the text of a fixture.                                *)
NoMarkedClient ==
  result.client /\ ~result.inPlace => result.seen \cap Marked = {}

(* "Empty sensors do not load fixtures/demo" (run_ciso_path).              *)
EmptySensorsLoadNothing ==
  [][Publishes /\ run.cmd = "ciso" => Fixture \notin register'.recs]_vars

(* "Non-empty input dir has no collector" is refused: a run that returns   *)
(* read every file of every folder, text copies of a scan excepted.        *)
NoFolderSkipped ==
  \A f \in result.skipped : Folder[f] = Top \/ Kind[f] = "suffix"
=============================================================================
