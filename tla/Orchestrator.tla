---------------------------- MODULE Orchestrator ----------------------------
(***************************************************************************)
(* The drop box orchestrator (dropbox/orchestrator/).  One call of         *)
(* orchestrate reads SCOPE, sweeps the shards of the estate with a quiet   *)
(* tool, deepens on the hosts found with a loud one, and copies what both  *)
(* left in its work directory into an in/ directory.  The work directory   *)
(* outlives the run, and SCOPE may be another one in the next.             *)
(*                                                                         *)
(* Data abstraction.  A shard is the set of its addresses, a result file   *)
(* the names it reports up with the number of the run that wrote it.  The  *)
(* hosts of a run are batched in any order: the code keeps the order of    *)
(* the files.  Slot tables, argv and wording are left out; no adapter that *)
(* accepts the probed target refuses a later one of its stage.             *)
(***************************************************************************)
EXTENDS Naturals, Sequences, FiniteSets

CONSTANTS
  Host,        \* addresses and names of machines
  Ptr,         \* [Host -> Host] the name a sweep reports for an address
  Scopes,      \* the SCOPE files the gate accepts
  PlanSample,  \* shards planned beyond the live ones (8 in the code)
  MaxRuns,     \* bound: runs
  MaxDrops     \* bound: files an operator drops into the pack's in/

\* The pack's own in/, or a work directory given as IN_DIR.
Dests  == {"pack", "work"}
Stages == {"discover", "deepen"}
Modes  == [live: BOOLEAN, dest: Dests, write: BOOLEAN]
\* The tool ran (whatever it returned), outran host_timeout_sec, or did not start.
Outcomes == {"ran", "timeout", "unstarted"}
Places == {"idle", "discover", "sweep", "select", "deepen", "external", "ingest",
           "copy", "check"}
Reports == {"discover", "deepen", "external", "ingest", "summary"}

\* A SCOPE after load_scope: CIDRs split into shards, named hosts, brakes within
\* their limits, stages switched on.
ScopeType == [shards: Seq(SUBSET Host), hosts: SUBSET Host, deepenHosts: SUBSET Host,
              batch: 2 .. 5, maxShards: Nat \ {0}, maxWorkers: Nat \ {0},
              discover: BOOLEAN, deepen: BOOLEAN]

ASSUME OrchestratorConstants ==
  /\ Ptr \in [Host -> Host]
  /\ Scopes # {} /\ Scopes \subseteq ScopeType
  /\ PlanSample \in Nat /\ MaxRuns \in Nat /\ MaxDrops \in Nat

VARIABLES
  pc,        \* where the run is
  runNo,     \* runs begun
  scope,     \* the SCOPE it read
  mode,      \* --live, the in/ it copies to, PACK_IN_WRITE
  farm,      \* the workers spawned
  at,        \* the next shard
  hosts,     \* hosts still to be deepened
  source,    \* where those came from
  left,      \* workers that may still run live
  launched,  \* history: what this run pointed a tool at
  gnmap,     \* result files of discover workers
  txt,       \* result files of deepen workers
  inbox,     \* files copied into each in/
  drops,     \* files the operator dropped into the pack's in/
  before,    \* fingerprint of the pack's in/ when ingest began
  report,    \* the run that wrote each plan or summary
  ended      \* how the last run ended

brakes == <<at, left>>
aims   == <<hosts, source, launched>>
files  == <<gnmap, txt, inbox>>
desk   == <<drops, before>>
vars   == <<pc, runNo, scope, mode, farm, brakes, aims, files, desk, report, ended>>

Worker == [stage: Stages, status: {"ran", "failed", "skipped", "destroyed"}]
File   == [wid: Nat, run: Nat, hosts: SUBSET Host]

-----------------------------------------------------------------------------
(* The brakes. *)

\* Scope.allows_internal_target: an address in a CIDR, or a host by its name.
Allowed(s) == UNION {s.shards[i] : i \in DOMAIN s.shards} \cup s.hosts \cup s.deepenHosts

Alive(stage) == {i \in DOMAIN farm : farm[i].stage = stage /\ farm[i].status # "destroyed"}

\* Mutant: workers that failed are left.
DestroyedRan(stage) ==
  [i \in DOMAIN farm |->
     IF farm[i].stage = stage /\ farm[i].status # "failed"
       THEN [farm[i] EXCEPT !.status = "destroyed"] ELSE farm[i]]

Destroyed(stage) ==
  [i \in DOMAIN farm |->
     IF farm[i].stage = stage THEN [farm[i] EXCEPT !.status = "destroyed"] ELSE farm[i]]

\* spawn: the cap counts workers not destroyed, running or not.
UnderCap == Cardinality(Alive("discover") \cup Alive("deepen")) < scope.maxWorkers
Spawned(stage, status) == Append(farm, [stage |-> stage, status |-> status])
Wid == Len(farm) + 1

Status(armed, outcome) ==
  CASE ~armed -> "skipped" [] outcome = "ran" -> "ran" [] OTHER -> "failed"

\* run_allowed: the file of that name is replaced, with nothing after a timeout;
\* a tool that did not start leaves it alone.
Filed(old, outcome, found) ==
  IF outcome = "unstarted" THEN old
  ELSE {f \in old : f.wid # Wid} \cup
       {[wid |-> Wid, run |-> runNo, hosts |-> IF outcome = "ran" THEN found ELSE {}]}

-----------------------------------------------------------------------------
Init ==
  /\ pc = "idle" /\ runNo = 0 /\ ended = "none"
  /\ scope \in Scopes /\ mode \in Modes
  /\ farm = <<>> /\ at = 1 /\ left = 0
  /\ hosts = {} /\ source = "none" /\ launched = {}
  /\ gnmap = {} /\ txt = {} /\ inbox = [d \in Dests |-> {}]
  /\ drops = 0 /\ before = <<{}, 0>>
  /\ report = [r \in Reports |-> 0]

Goto(place)  == pc' = place /\ UNCHANGED <<runNo, scope, mode>>
End(how)     == Goto("idle") /\ ended' = how
Reported(r)  == report' = [report EXCEPT ![r] = runNo]

\* orchestrate with a SCOPE that passed the gate.
Begin(s, m) ==
  /\ pc = "idle" /\ runNo < MaxRuns
  /\ pc' = "discover" /\ runNo' = runNo + 1 /\ scope' = s /\ mode' = m
  /\ farm' = <<>> /\ at' = 1 /\ left' = 0
  /\ hosts' = {} /\ source' = "none" /\ launched' = {}
  /\ before' = <<{}, 0>>
  /\ UNCHANGED <<files, drops, report, ended>>

\* discover_stage up to its loop; ready says whether a tool is allowed and on PATH.
DiscoverGated ==
  /\ pc = "discover" /\ ~scope.discover
  /\ Reported("discover")
  /\ Goto("select")
  /\ UNCHANGED <<farm, brakes, aims, files, desk, ended>>

DiscoverPlan(ready) ==
  /\ pc = "discover" /\ scope.discover
  /\ left' = IF mode.live /\ ready /\ Len(scope.shards) <= scope.maxShards
               THEN scope.maxWorkers ELSE 0
  /\ Goto("sweep")
  /\ UNCHANGED <<farm, at, aims, files, desk, report, ended>>

More == at <= Len(scope.shards) /\ (left > 0 \/ at <= PlanSample)

\* One turn of the loop over shards.
DiscoverShard(outcome, up) ==
  LET armed == left > 0 /\ UnderCap
  IN /\ pc = "sweep" /\ More
     /\ up \subseteq scope.shards[at]
     /\ (~armed \/ outcome # "ran") => up = {}
     /\ ~armed => outcome = "unstarted"
     /\ farm' = Spawned("discover", Status(armed, outcome))
     /\ gnmap' = Filed(gnmap, outcome, {Ptr[h] : h \in up})
     /\ launched' = launched \cup (IF armed THEN {<<"discover", scope.shards[at]>>} ELSE {})
     /\ at' = at + 1 /\ left' = IF left > 0 THEN left - 1 ELSE 0
     /\ Goto("sweep")
     /\ UNCHANGED <<hosts, source, txt, inbox, desk, report, ended>>

\* Mutant: the loop runs until its budget is spent.
DiscoverEndSpent ==
  /\ pc = "sweep" /\ ~More /\ left = 0
  /\ farm' = Destroyed("discover") /\ Reported("discover")
  /\ Goto("select")
  /\ UNCHANGED <<brakes, aims, files, desk, ended>>

\* The finally of discover_stage.
DiscoverEnd ==
  /\ pc = "sweep" /\ ~More
  /\ farm' = Destroyed("discover") /\ Reported("discover")
  /\ Goto("select")
  /\ UNCHANGED <<brakes, aims, files, desk, ended>>

-----------------------------------------------------------------------------
\* collect_discover_hosts: every *.gnmap there is.
Collected == IF mode.live THEN UNION {f.hosts : f \in gnmap} ELSE {}

Candidates == IF Collected # {} THEN Collected ELSE scope.deepenHosts

\* Mutant: candidates are taken as found.
KeptAll == Candidates

\* _select_deepen_hosts.
Kept == Candidates \cap Allowed(scope)

\* deepen_stage up to its loop.
DeepenRefused ==
  /\ pc = "select" /\ Alive("discover") = {}
  /\ ~scope.deepen /\ mode.live
  /\ End("refused")
  /\ UNCHANGED <<farm, brakes, aims, files, desk, report>>

\* Mutant: the early return leaves the plan on disk alone.
DeepenGatedSilent ==
  /\ pc = "select" /\ Alive("discover") = {}
  /\ (~scope.deepen /\ ~mode.live) \/ (scope.deepen /\ Kept = {})
  /\ Goto("external")
  /\ UNCHANGED <<farm, brakes, aims, files, desk, report, ended>>

DeepenGated ==
  /\ pc = "select" /\ Alive("discover") = {}
  /\ (~scope.deepen /\ ~mode.live) \/ (scope.deepen /\ Kept = {})
  /\ Reported("deepen")
  /\ Goto("external")
  /\ UNCHANGED <<farm, brakes, aims, files, desk, ended>>

DeepenPlan(ready) ==
  /\ pc = "select" /\ Alive("discover") = {}
  /\ scope.deepen /\ Kept # {}
  /\ hosts' = Kept
  /\ source' = IF Collected # {} THEN "discover" ELSE "scope"
  /\ left' = IF mode.live /\ ready THEN scope.maxWorkers ELSE 0
  /\ Goto("deepen")
  /\ UNCHANGED <<farm, at, launched, files, desk, report, ended>>

IsBatch(b) == \/ Cardinality(b) = scope.batch
              \/ b = hosts /\ Cardinality(b) < scope.batch

\* One turn of the loop over batches.
DeepenBatch(b, outcome) ==
  LET armed == left > 0 /\ UnderCap
  IN /\ pc = "deepen" /\ hosts # {}
     /\ b \subseteq hosts /\ IsBatch(b)
     /\ ~armed => outcome = "unstarted"
     /\ farm' = Spawned("deepen", Status(armed, outcome))
     /\ txt' = Filed(txt, outcome, b)
     /\ launched' = launched \cup (IF armed THEN {<<"deepen", b>>} ELSE {})
     /\ hosts' = hosts \ b /\ left' = IF armed THEN left - 1 ELSE left
     /\ Goto("deepen")
     /\ UNCHANGED <<at, source, gnmap, inbox, desk, report, ended>>

\* The finally of deepen_stage.
DeepenEnd ==
  /\ pc = "deepen" /\ hosts = {}
  /\ farm' = Destroyed("deepen") /\ Reported("deepen")
  /\ Goto("external")
  /\ UNCHANGED <<brakes, aims, files, desk, ended>>

-----------------------------------------------------------------------------
External ==
  /\ pc = "external" /\ Alive("deepen") = {}
  /\ Reported("external")
  /\ Goto("ingest")
  /\ UNCHANGED <<farm, brakes, aims, files, desk, ended>>

\* The pack's in/ as fingerprint sees it.
Pack == <<inbox["pack"], drops>>

\* ingest_stage: fingerprint, copy, fingerprint again.
Ingest ==
  /\ pc = "ingest"
  /\ before' = Pack
  /\ Goto("copy")
  /\ UNCHANGED <<farm, brakes, aims, files, drops, report, ended>>

ReadOnly == mode.dest = "pack" /\ ~mode.write

\* Copies are named after stage and file, and replace a copy of that name.
Copies == {[stage |-> "discover", file |-> f] : f \in gnmap} \cup
          {[stage |-> "deepen", file |-> f] : f \in txt}
\* Mutant: files that are there already are not copied again.
LaidNew(old) ==
  old \cup {c \in Copies : \A o \in old : <<c.stage, c.file.wid>> # <<o.stage, o.file.wid>>}

Laid(old) ==
  Copies \cup {o \in old : \A c \in Copies : <<c.stage, c.file.wid>> # <<o.stage, o.file.wid>>}

Copy ==
  /\ pc = "copy"
  /\ inbox' = IF ReadOnly THEN inbox ELSE [inbox EXCEPT ![mode.dest] = Laid(@)]
  /\ Goto("check")
  /\ UNCHANGED <<farm, brakes, aims, gnmap, txt, desk, report, ended>>

\* assert_pack_in_unchanged.
IngestBlamed ==
  /\ pc = "check" /\ Pack # before /\ ~mode.write
  /\ End("blamed")
  /\ UNCHANGED <<farm, brakes, aims, files, desk, report>>

\* ingest/summary.json, grc_export_stage and summary.json.
Finish ==
  /\ pc = "check" /\ (Pack = before \/ mode.write)
  /\ report' = [report EXCEPT !["ingest"] = runNo, !["summary"] = runNo]
  /\ End("done")
  /\ UNCHANGED <<farm, brakes, aims, files, desk>>

-----------------------------------------------------------------------------
\* The operator interrupts a worker: the finally of the stage still runs.
Interrupt(stage) ==
  /\ pc = IF stage = "discover" THEN "sweep" ELSE "deepen"
  /\ farm' = Destroyed(stage) /\ Reported(stage)
  /\ End("interrupted")
  /\ UNCHANGED <<brakes, aims, files, desk>>

\* The process is killed.
Die ==
  /\ pc # "idle"
  /\ farm' = <<>>
  /\ End("died")
  /\ UNCHANGED <<brakes, aims, files, desk, report>>

\* The operator lands a file in the pack's in/.
DropFile ==
  /\ drops < MaxDrops
  /\ drops' = drops + 1
  /\ UNCHANGED <<pc, runNo, scope, mode, farm, brakes, aims, files, before, report, ended>>

Discover ==
  \/ DiscoverGated \/ DiscoverEnd
  \/ \E ready \in BOOLEAN : DiscoverPlan(ready)
  \/ \E outcome \in Outcomes, up \in SUBSET Host : DiscoverShard(outcome, up)

Deepen ==
  \/ DeepenRefused \/ DeepenGated \/ DeepenEnd
  \/ \E ready \in BOOLEAN : DeepenPlan(ready)
  \/ \E b \in SUBSET Host, outcome \in Outcomes : DeepenBatch(b, outcome)

Proceed == Discover \/ Deepen \/ External \/ Ingest \/ Copy \/ IngestBlamed \/ Finish

Next ==
  \/ Proceed \/ Die \/ DropFile
  \/ \E s \in Scopes, m \in Modes : Begin(s, m)
  \/ \E stage \in Stages : Interrupt(stage)

Spec == Init /\ [][Next]_vars
FairSpec == Spec /\ WF_vars(Proceed)

-----------------------------------------------------------------------------
(* Properties. *)

\* No tool is ever pointed outside the SCOPE of its run, whatever an earlier run
\* under another SCOPE left in the work directory (pipeline.py, _select_deepen_hosts).
LaunchesInScope == \A l \in launched : l[2] \subseteq Allowed(scope)

\* Outside the two loops no worker is left, however a stage ended
\* (pipeline.py, the finally blocks; farm.py, destroy_stage).
TornDown == pc \notin {"sweep", "deepen"} => Alive("discover") \cup Alive("deepen") = {}

Own(folder) == {f \in folder : f.run = runNo}

\* When a run completes and may write, every result it produced lies in the in/ it
\* names, in the version it produced (pipeline.py, ingest_stage).
ResultsLand ==
  pc = "idle" /\ ended = "done" /\ ~ReadOnly =>
    /\ \A f \in Own(gnmap) : [stage |-> "discover", file |-> f] \in inbox[mode.dest]
    /\ \A f \in Own(txt) : [stage |-> "deepen", file |-> f] \in inbox[mode.dest]

\* After a completed run every plan and summary on disk is of that run, so what
\* status prints belongs together (pipeline.py, each early return writes its plan).
ReportsOfOneRun ==
  pc = "idle" /\ ended = "done" => \A r \in Reports : report[r] = runNo

\* A run ends, whatever its tools do (byo.py, run_allowed bounds each of them).
Finishes == pc # "idle" ~> pc = "idle"

\* Hosts said to come from discover were found up by this run's discover
\* (OPERATOR.md, product contract 3).
DeepensWhatItFound ==
  source = "discover" =>
    \A l \in launched : l[1] = "deepen" => l[2] \subseteq UNION {f.hosts : f \in Own(gnmap)}

\* A run is accused of writing the pack's in/ only when it did
\* (estate.py, fingerprint: "Detect THIS-run writes into pack in/").
BlamesOwnWrites ==
  pc = "idle" /\ ended = "blamed" => inbox["pack"] # before[1]
=============================================================================
