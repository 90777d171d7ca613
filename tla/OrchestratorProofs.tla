------------------------- MODULE OrchestratorProofs -------------------------
(***************************************************************************)
(* The brakes of the orchestrator for every estate, every SCOPE and every  *)
(* content of the work directory.                                          *)
(***************************************************************************)
EXTENDS Orchestrator, TLAPS

USE DEF Goto, End, Reported, brakes, aims, files, desk, vars

-----------------------------------------------------------------------------
(* No tool outside SCOPE.  What earlier runs left is never trusted: the    *)
(* hosts of the deepen loop are within the SCOPE of this run.              *)

Aimed ==
  /\ scope \in Scopes /\ at \in Nat \ {0}
  /\ pc = "deepen" => hosts \subseteq Allowed(scope)
  /\ LaunchesInScope

LEMMA ShardAllowed ==
  ASSUME NEW s \in Scopes, NEW i \in Nat \ {0}, i <= Len(s.shards)
  PROVE  s.shards[i] \subseteq Allowed(s)
<1>1. s.shards \in Seq(SUBSET Host)
  BY OrchestratorConstants DEF ScopeType
<1>2. i \in DOMAIN s.shards
  BY <1>1
<1> QED BY <1>2 DEF Allowed

LEMMA AimedInit == Init => Aimed
BY DEF Init, Aimed, LaunchesInScope

LEMMA AimedNext == Aimed /\ [Next]_vars => Aimed'
<1> SUFFICES ASSUME Aimed, [Next]_vars PROVE Aimed'
  OBVIOUS
<1> USE DEF Aimed, LaunchesInScope
<1>1. CASE \E s \in Scopes, m \in Modes : Begin(s, m)
  BY <1>1 DEF Begin
<1>2. CASE \E outcome \in Outcomes, up \in SUBSET Host : DiscoverShard(outcome, up)
  <2>1. scope' = scope /\ pc' = "sweep" /\ at' \in Nat \ {0}
    BY <1>2 DEF DiscoverShard
  <2>2. scope.shards[at] \subseteq Allowed(scope)
    BY <1>2, ShardAllowed DEF DiscoverShard, More
  <2>3. launched' \subseteq launched \cup {<<"discover", scope.shards[at]>>}
    BY <1>2 DEF DiscoverShard
  <2> QED BY <2>1, <2>2, <2>3
<1>3. CASE \E b \in SUBSET Host, outcome \in Outcomes : DeepenBatch(b, outcome)
  <2> PICK b \in SUBSET Host, outcome \in Outcomes : DeepenBatch(b, outcome)
    BY <1>3
  <2>1. scope' = scope /\ pc' = "deepen" /\ at' = at /\ b \subseteq Allowed(scope)
    BY DEF DeepenBatch
  <2>2. hosts' \subseteq hosts /\ launched' \subseteq launched \cup {<<"deepen", b>>}
    BY DEF DeepenBatch
  <2>3. hosts \subseteq Allowed(scope)
    BY DEF DeepenBatch
  <2> QED BY <2>1, <2>2, <2>3
<1>4. CASE \E ready \in BOOLEAN : DeepenPlan(ready)
  BY <1>4 DEF DeepenPlan, Kept
<1>5. CASE DiscoverGated \/ DiscoverEnd \/ \E ready \in BOOLEAN : DiscoverPlan(ready)
  BY <1>5 DEF DiscoverGated, DiscoverEnd, DiscoverPlan
<1>6. CASE DeepenRefused \/ DeepenGated \/ DeepenEnd
  BY <1>6 DEF DeepenRefused, DeepenGated, DeepenEnd
<1>7. CASE External \/ Ingest \/ Copy \/ IngestBlamed \/ Finish
  BY <1>7 DEF External, Ingest, Copy, IngestBlamed, Finish
<1>8. CASE Die \/ DropFile \/ \E stage \in Stages : Interrupt(stage)
  BY <1>8 DEF Die, DropFile, Interrupt
<1>9. CASE UNCHANGED vars
  BY <1>9
<1> QED BY <1>1, <1>2, <1>3, <1>4, <1>5, <1>6, <1>7, <1>8, <1>9
        DEF Next, Proceed, Discover, Deepen

\* A tool is only ever pointed at what the SCOPE of its run allows: stale result
\* files of other engagements cannot widen a run (_select_deepen_hosts).
THEOREM NeverOutsideScope == Spec => []LaunchesInScope
<1>1. Aimed => LaunchesInScope
  BY DEF Aimed
<1> QED BY AimedInit, AimedNext, <1>1, PTL DEF Spec

-----------------------------------------------------------------------------
(* Tear-down.  Each stage spawns workers of its own name only, and the     *)
(* stage before it has none left.                                          *)

Torn ==
  /\ farm \in Seq(Worker)
  /\ pc # "sweep" => Alive("discover") = {}
  /\ pc # "deepen" => Alive("deepen") = {}

LEMMA SpawnedWorker ==
  ASSUME farm \in Seq(Worker), NEW stage \in Stages, NEW other \in Stages, other # stage,
         NEW armed \in BOOLEAN, NEW outcome \in Outcomes,
         farm' = Spawned(stage, Status(armed, outcome)), Alive(other) = {}
  PROVE  farm' \in Seq(Worker) /\ Alive(other)' = {}
<1> DEFINE w == [stage |-> stage, status |-> Status(armed, outcome)]
<1>1. w \in Worker
  BY DEF Worker, Status
<1>2. farm' = Append(farm, w)
  BY DEF Spawned
<1> HIDE DEF w
<1>3. farm' \in Seq(Worker) /\ Len(farm') = Len(farm) + 1
  BY <1>1, <1>2
<1>4. \A i \in 1 .. Len(farm) : farm'[i] = farm[i]
  BY <1>1, <1>2
<1>5. farm'[Len(farm) + 1].stage # other
  BY <1>1, <1>2 DEF w
<1>6. DOMAIN farm = 1 .. Len(farm) /\ DOMAIN farm' = 1 .. Len(farm) + 1
  BY <1>3
<1>7. Len(farm) \in Nat
  OBVIOUS
<1>8. \A i \in DOMAIN farm' : i \in DOMAIN farm \/ i = Len(farm) + 1
  BY <1>6, <1>7
<1>9. \A i \in DOMAIN farm' : ~(farm'[i].stage = other /\ farm'[i].status # "destroyed")
  BY <1>4, <1>5, <1>6, <1>8 DEF Alive
<1> QED BY <1>3, <1>9 DEF Alive

LEMMA DestroyedWorkers ==
  ASSUME farm \in Seq(Worker), NEW stage \in Stages, farm' = Destroyed(stage)
  PROVE  /\ farm' \in Seq(Worker) /\ Alive(stage)' = {}
         /\ \A other \in Stages : Alive(other) = {} => Alive(other)' = {}
<1>1. DOMAIN farm' = DOMAIN farm
  BY DEF Destroyed
<1>2. \A i \in DOMAIN farm :
        farm'[i] = IF farm[i].stage = stage THEN [farm[i] EXCEPT !.status = "destroyed"]
                                            ELSE farm[i]
  BY DEF Destroyed
<1>3. \A i \in DOMAIN farm : farm[i] \in Worker
  OBVIOUS
<1>4. \A i \in DOMAIN farm : farm'[i] \in Worker
  BY <1>2, <1>3 DEF Worker
<1>5. farm' \in Seq(Worker)
  <2>1. farm' \in [1 .. Len(farm) -> Worker] /\ Len(farm) \in Nat
    BY <1>4 DEF Destroyed
  <2> QED BY <2>1
<1>6. \A i \in DOMAIN farm :
        /\ farm'[i].stage = farm[i].stage
        /\ farm[i].stage = stage => farm'[i].status = "destroyed"
        /\ farm[i].stage # stage => farm'[i].status = farm[i].status
  BY <1>2, <1>3 DEF Worker
<1> QED BY <1>1, <1>5, <1>6 DEF Alive

LEMMA TornNext == Torn /\ [Next]_vars => Torn'
<1> SUFFICES ASSUME Torn, [Next]_vars PROVE Torn'
  OBVIOUS
<1> USE DEF Torn
<1>1. CASE (\E s \in Scopes, m \in Modes : Begin(s, m)) \/ Die
  <2>1. farm' = <<>>
    BY <1>1 DEF Begin, Die
  <2> QED BY <2>1 DEF Alive
<1>2. CASE \E outcome \in Outcomes, up \in SUBSET Host : DiscoverShard(outcome, up)
  <2> PICK outcome \in Outcomes, up \in SUBSET Host : DiscoverShard(outcome, up)
    BY <1>2
  <2> DEFINE armed == left > 0 /\ UnderCap
  <2>1. farm' = Spawned("discover", Status(armed, outcome)) /\ pc = "sweep" /\ pc' = "sweep"
    BY DEF DiscoverShard
  <2>2. armed \in BOOLEAN
    OBVIOUS
  <2> HIDE DEF armed
  <2>3. farm' \in Seq(Worker) /\ Alive("deepen")' = {}
    BY <2>1, <2>2, SpawnedWorker DEF Stages
  <2> QED BY <2>1, <2>3
<1>3. CASE \E b \in SUBSET Host, outcome \in Outcomes : DeepenBatch(b, outcome)
  <2> PICK b \in SUBSET Host, outcome \in Outcomes : DeepenBatch(b, outcome)
    BY <1>3
  <2> DEFINE armed == left > 0 /\ UnderCap
  <2>1. farm' = Spawned("deepen", Status(armed, outcome)) /\ pc = "deepen" /\ pc' = "deepen"
    BY DEF DeepenBatch
  <2>2. armed \in BOOLEAN
    OBVIOUS
  <2> HIDE DEF armed
  <2>3. farm' \in Seq(Worker) /\ Alive("discover")' = {}
    BY <2>1, <2>2, SpawnedWorker DEF Stages
  <2> QED BY <2>1, <2>3
<1>4. CASE DiscoverEnd \/ DeepenEnd \/ \E stage \in Stages : Interrupt(stage)
  <2>1. PICK stage \in Stages : /\ farm' = Destroyed(stage)
                                /\ pc' \notin {"sweep", "deepen"}
                                /\ pc = IF stage = "discover" THEN "sweep" ELSE "deepen"
    BY <1>4 DEF DiscoverEnd, DeepenEnd, Interrupt, Stages
  <2>2. farm' \in Seq(Worker) /\ Alive(stage)' = {}
    BY <2>1, DestroyedWorkers
  <2>3. \A other \in Stages : Alive(other) = {} => Alive(other)' = {}
    BY <2>1, DestroyedWorkers
  <2>4. \A other \in Stages \ {stage} : Alive(other) = {}
    BY <2>1 DEF Stages
  <2> QED BY <2>1, <2>2, <2>3, <2>4 DEF Stages
<1>5. CASE farm' = farm /\ (pc' = pc \/ pc \notin {"sweep", "deepen"})
  BY <1>5 DEF Alive
<1>6. CASE DiscoverGated \/ (\E ready \in BOOLEAN : DiscoverPlan(ready)) \/ DeepenRefused
           \/ DeepenGated \/ (\E ready \in BOOLEAN : DeepenPlan(ready))
  BY <1>5, <1>6 DEF DiscoverGated, DiscoverPlan, DeepenRefused, DeepenGated, DeepenPlan
<1>7. CASE External \/ Ingest \/ Copy \/ IngestBlamed \/ Finish \/ DropFile
  BY <1>5, <1>7 DEF External, Ingest, Copy, IngestBlamed, Finish, DropFile
<1>8. CASE UNCHANGED vars
  BY <1>5, <1>8
<1> QED BY <1>1, <1>2, <1>3, <1>4, <1>6, <1>7, <1>8 DEF Next, Proceed, Discover, Deepen

\* Whatever happens in a stage, none of its workers outlives it (the finally of
\* discover_stage and deepen_stage).
THEOREM WorkersTornDown == Spec => []TornDown
<1>1. Init => Torn
  BY DEF Init, Torn, Alive
<1>2. Torn => TornDown
  BY DEF Torn, TornDown
<1> QED BY <1>1, TornNext, <1>2, PTL DEF Spec

-----------------------------------------------------------------------------
(* Reports.  Each stage that has been passed wrote its report in this run. *)

Passed(stage) == pc \in CASE stage = "discover" -> {"select", "deepen", "external",
                                                    "ingest", "copy", "check"}
                          [] stage = "deepen" -> {"external", "ingest", "copy", "check"}
                          [] stage = "external" -> {"ingest", "copy", "check"}
                          [] OTHER -> {}

Reporting ==
  /\ report \in [Reports -> Nat] /\ runNo \in Nat
  /\ \A r \in Reports : Passed(r) => report[r] = runNo
  /\ ReportsOfOneRun

LEMMA ReportingNext == Reporting /\ [Next]_vars => Reporting'
<1> SUFFICES ASSUME Reporting, [Next]_vars PROVE Reporting'
  OBVIOUS
<1> USE DEF Reporting, Passed, ReportsOfOneRun, Reports
<1>1. CASE \E s \in Scopes, m \in Modes : Begin(s, m)
  BY <1>1 DEF Begin
<1>2. CASE DiscoverGated \/ DiscoverEnd \/ \E ready \in BOOLEAN : DiscoverPlan(ready)
  BY <1>2 DEF DiscoverGated, DiscoverEnd, DiscoverPlan
<1>3. CASE \E outcome \in Outcomes, up \in SUBSET Host : DiscoverShard(outcome, up)
  BY <1>3 DEF DiscoverShard
<1>4. CASE DeepenRefused \/ DeepenGated \/ DeepenEnd \/ \E ready \in BOOLEAN : DeepenPlan(ready)
  BY <1>4 DEF DeepenRefused, DeepenGated, DeepenEnd, DeepenPlan
<1>5. CASE \E b \in SUBSET Host, outcome \in Outcomes : DeepenBatch(b, outcome)
  BY <1>5 DEF DeepenBatch
<1>6. CASE External \/ Ingest \/ Copy \/ IngestBlamed
  BY <1>6 DEF External, Ingest, Copy, IngestBlamed
<1>7. CASE Finish
  BY <1>7 DEF Finish
<1>8. CASE Die \/ DropFile
  BY <1>8 DEF Die, DropFile
<1>9. CASE \E stage \in Stages : Interrupt(stage)
  BY <1>9 DEF Interrupt, Stages
<1>10. CASE UNCHANGED vars
  BY <1>10
<1> QED BY <1>1, <1>2, <1>3, <1>4, <1>5, <1>6, <1>7, <1>8, <1>9, <1>10
        DEF Next, Proceed, Discover, Deepen

\* After a completed run the plans and summaries on disk are all of that run, also
\* where a stage was gated or found nothing to do.
THEOREM ReportsBelongTogether == Spec => []ReportsOfOneRun
<1>1. Init => Reporting
  BY DEF Init, Reporting, Passed, ReportsOfOneRun, Reports
<1>2. Reporting => ReportsOfOneRun
  BY DEF Reporting
<1> QED BY <1>1, ReportingNext, <1>2, PTL DEF Spec
-----------------------------------------------------------------------------
(* Results.  From the copy to the end of the run what the stages left lies *)
(* in the in/ the run names, and nothing adds to what they left.           *)

Copied == pc = "check" \/ (pc = "idle" /\ ended = "done")

Landing ==
  /\ mode \in Modes /\ DOMAIN inbox = Dests
  /\ Copied /\ ~ReadOnly => Copies \subseteq inbox[mode.dest]

LEMMA LandingNext == Landing /\ [Next]_vars => Landing'
<1> SUFFICES ASSUME Landing, [Next]_vars PROVE Landing'
  OBVIOUS
<1> USE DEF Landing, Copied
<1>1. CASE \E s \in Scopes, m \in Modes : Begin(s, m)
  BY <1>1 DEF Begin
<1>2. CASE Copy
  <2>1. UNCHANGED <<mode, gnmap, txt>> /\ mode.dest \in Dests
    BY <1>2 DEF Copy, Modes
  <2>2. DOMAIN inbox' = Dests
    BY <1>2 DEF Copy
  <2>3. ~ReadOnly => Copies \subseteq inbox'[mode.dest]
    <3>1. SUFFICES ASSUME ~ReadOnly PROVE Copies \subseteq inbox'[mode.dest]
      OBVIOUS
    <3>2. inbox'[mode.dest] = Laid(inbox[mode.dest])
      BY <1>2, <2>1, <3>1 DEF Copy
    <3> QED BY <3>2 DEF Laid
  <2>4. ReadOnly' = ReadOnly /\ Copies' = Copies
    BY <2>1 DEF ReadOnly, Copies
  <2> QED BY <2>1, <2>2, <2>3, <2>4
<1>3. CASE Finish \/ DropFile \/ UNCHANGED vars
  <2>1. UNCHANGED <<mode, gnmap, txt, inbox>>
    BY <1>3 DEF Finish, DropFile
  <2>2. Copied' => Copied
    BY <1>3 DEF Finish, DropFile
  <2>3. ReadOnly' = ReadOnly /\ Copies' = Copies
    BY <2>1 DEF ReadOnly, Copies
  <2> QED BY <2>1, <2>2, <2>3
<1>4. CASE mode' = mode /\ inbox' = inbox /\ ~Copied'
  BY <1>4
<1>5. CASE IngestBlamed \/ Die \/ (\E stage \in Stages : Interrupt(stage)) \/ DeepenRefused
  BY <1>4, <1>5 DEF IngestBlamed, Die, Interrupt, DeepenRefused
<1>6. CASE DiscoverGated \/ DiscoverEnd
           \/ (\E ready \in BOOLEAN : DiscoverPlan(ready))
           \/ (\E outcome \in Outcomes, up \in SUBSET Host : DiscoverShard(outcome, up))
  BY <1>4, <1>6 DEF DiscoverGated, DiscoverEnd, DiscoverPlan, DiscoverShard
<1>7. CASE DeepenGated \/ DeepenEnd \/ External \/ Ingest
           \/ (\E ready \in BOOLEAN : DeepenPlan(ready))
           \/ (\E b \in SUBSET Host, outcome \in Outcomes : DeepenBatch(b, outcome))
  BY <1>4, <1>7 DEF DeepenGated, DeepenEnd, DeepenPlan, DeepenBatch, External, Ingest
<1> QED BY <1>1, <1>2, <1>3, <1>5, <1>6, <1>7 DEF Next, Proceed, Discover, Deepen

\* A run that completes and may write has laid down every result of its stages
\* unchanged, over whatever copies an earlier run left (ingest_stage).
THEOREM EveryResultLands == Spec => []ResultsLand
<1>1. Init => Landing
  BY DEF Init, Landing, Copied
<1>2. Landing => ResultsLand
  BY DEF Landing, Copied, ResultsLand, Own, Copies
<1> QED BY <1>1, LandingNext, <1>2, PTL DEF Spec
=============================================================================
