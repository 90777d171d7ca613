--------------------------- MODULE FileDropProofs ---------------------------
(***************************************************************************)
(* What prove and the full pass publish and say of it, and what may be     *)
(* published without a demo stamp, for every in/, every set of sensors and *)
(* every order of edits, deaths and commands.                              *)
(***************************************************************************)
EXTENDS FileDrop, TLAPS

Canonical == [recs : SUBSET Sources, demo : BOOLEAN, named : SUBSET File,
              status : Statuses \cup {"none"}]

RunFields == {"cmd", "inPlace", "todo", "ran", "sample", "rows", "seen", "had", "before"}

(* Files under in/ and out/in are the operator's; canonical records carry  *)
(* the demo stamp as soon as a fixture is among them.                      *)
Labelled ==
  /\ FilesOf(drop) \subseteq File /\ FilesOf(stage) \subseteq File
  /\ DOMAIN run = RunFields
  /\ canon \in [Sensor -> Canonical]
  /\ \A s \in Sensor : Fixture \in canon[s].recs => canon[s].demo
  /\ FixturesLabelled

-----------------------------------------------------------------------------
(* What a collector leaves.                                                *)

LEMMA CollectedType ==
  ASSUME NEW s, NEW fs \in SUBSET File, NEW hint, NEW any \in BOOLEAN
  PROVE  Collected(s, fs, hint, any) \in Canonical
<1> DEFINE subst == Substitutes(fs, hint, any)
           recs == Records(s, fs, subst)
           issues == Issues(fs, subst)
           demo == Stamps(recs, hint, subst)
<1>1. subst \in BOOLEAN
  BY DEF Substitutes
<1>2. recs \in SUBSET Sources
  BY DEF Records, Sources
<1>3. Named(issues) \in SUBSET File
  BY DEF Named, Issues, Unread
<1>4. (demo /\ recs # {}) \in BOOLEAN
  OBVIOUS
<1>5. Status(fs, recs, issues, demo) \in Statuses
  BY Zenon DEF Status, Statuses
<1> HIDE DEF recs, issues, demo
<1>6. Collected(s, fs, hint, any) =
        [recs |-> recs, demo |-> demo /\ recs # {}, named |-> Named(issues),
         status |-> Status(fs, recs, issues, demo)]
  BY DEF Collected, recs, issues, demo
<1> QED
  BY <1>2, <1>3, <1>4, <1>5, <1>6 DEF Canonical

(* A fixture is among the records only when it was substituted, and then   *)
(* the records are stamped; the label LAB forbids it.                      *)
LEMMA FixtureStamped ==
  ASSUME NEW s, NEW fs \in SUBSET File, NEW hint, NEW any,
         Fixture \in Collected(s, fs, hint, any).recs
  PROVE  Collected(s, fs, hint, any).demo /\ hint # "LAB"
<1>1. Fixture \notin fs
  BY CollectorAssumption
<1>2. Substitutes(fs, hint, any)
  BY <1>1 DEF Collected, Records
<1> QED
  BY <1>2 DEF Collected, Stamps, Substitutes, AllowDemo

LEMMA RecordsOwn ==
  ASSUME NEW s, NEW fs \in SUBSET File, NEW hint, NEW any
  PROVE  Collected(s, fs, hint, any).recs \subseteq fs \cup {Fixture}
BY DEF Collected, Records

-----------------------------------------------------------------------------
(* Landing puts files where a collector reads them and adds none.          *)

LEMMA LandedFiles ==
  ASSUME NEW tree, NEW rows \in SUBSET File, FilesOf(tree) \subseteq File
  PROVE  FilesOf(Landed(tree, rows)) \subseteq File
<1> DEFINE Target(f) == [at |-> Family[f], name |-> <<Name[f]>>, file |-> f]
<1> SUFFICES ASSUME NEW e \in Landed(tree, rows) PROVE e.file \in File
  BY DEF FilesOf
<1>1. e \in tree \/ \E f \in rows : e = Target(f)
  BY DEF Landed
<1>2. CASE e \in tree
  BY <1>2 DEF FilesOf
<1>3. ASSUME NEW f \in rows, e = Target(f) PROVE e.file \in File
  BY <1>3
<1> QED BY <1>1, <1>2, <1>3

LEMMA PassLandedFiles ==
  ASSUME NEW tree, NEW from, FilesOf(tree) \subseteq File
  PROVE  FilesOf(PassLanded(tree, from)) \subseteq File
<1> SUFFICES ASSUME NEW e \in PassLanded(tree, from) PROVE e.file \in File
  BY DEF FilesOf
<1>1. \/ e \in tree
      \/ \E x \in from : /\ x.file \in NmapXml
                         /\ e = [at |-> "nmap", name |-> <<SecondPass>> \o x.name, file |-> x.file]
  BY DEF PassLanded
<1>2. CASE e \in tree
  BY <1>2 DEF FilesOf
<1>3. ASSUME NEW x \in from, x.file \in NmapXml, e.file = x.file PROVE e.file \in File
  BY <1>3, FileDropAssumption
<1> QED BY <1>1, <1>2, <1>3

LEMMA StagedFiles ==
  ASSUME NEW cmd, NEW kept, FilesOf(drop) \subseteq File, FilesOf(kept.stage) \subseteq File,
         Staged(cmd, kept), DOMAIN run = RunFields
  PROVE  /\ FilesOf(drop') \subseteq File /\ FilesOf(stage') \subseteq File
         /\ DOMAIN run' = RunFields
<1> DEFINE rows == Rows(drop)
           found == HasSensors(drop)
           inPlace == found \/ (PackIn /\ cmd = "write")
           here == IF inPlace THEN drop ELSE kept.stage
           before == IF found THEN here ELSE Landed(here, rows)
           tree == PassLanded(before, drop)
<1>1. rows \in SUBSET File
  BY DEF Rows
<1>2. FilesOf(here) \subseteq File
  OBVIOUS
<1>3. FilesOf(before) \subseteq File
  BY <1>1, <1>2, LandedFiles
<1>4. FilesOf(tree) \subseteq File
  BY <1>3, PassLandedFiles
<1>5. drop' = (IF inPlace THEN tree ELSE drop) /\ stage' = (IF inPlace THEN kept.stage ELSE tree)
  BY DEF Staged
<1>6. DOMAIN run' = RunFields
  BY DEF Staged, Idle, RunFields
<1> QED
  BY <1>4, <1>5, <1>6

-----------------------------------------------------------------------------
LEMMA OutputType ==
  ASSUME Labelled, NEW s \in Sensor
  PROVE  /\ Output(s) \in Canonical
         /\ Fixture \in Output(s).recs => Output(s).demo /\ Hint # "LAB"
         /\ Output(s).recs \subseteq FilesAt(Tree(run), s) \cup {Fixture}
<1>1. FilesAt(Tree(run), s) \in SUBSET File
  BY DEF Labelled, FilesAt, FilesOf, Tree
<1>2. AnyInput \in BOOLEAN
  BY DEF AnyInput
<1> QED
  BY <1>1, <1>2, CollectedType, FixtureStamped, RecordsOwn DEF Output

LEMMA LabelledInit == Init => Labelled
<1> SUFFICES ASSUME Init PROVE Labelled
  OBVIOUS
<1>1. FilesOf(drop) \subseteq File /\ FilesOf(stage) \subseteq File
  BY DEF Init, FilesOf, At
<1>2. canon \in [Sensor -> Canonical] /\ \A s \in Sensor : Fixture \notin canon[s].recs
  BY DEF Init, None, Canonical
<1>3. FixturesLabelled
  BY DEF Init, Blank, FixturesLabelled
<1>4. DOMAIN run = RunFields
  BY DEF Init, Idle, RunFields
<1> QED
  BY <1>1, <1>2, <1>3, <1>4 DEF Labelled

LEMMA LabelledNext == Labelled /\ [Next]_vars => Labelled'
<1> SUFFICES ASSUME Labelled, [Next]_vars PROVE Labelled'
  OBVIOUS
<1> USE DEF Labelled, FixturesLabelled
<1>1. ASSUME NEW cmd, Ciso(cmd) PROVE Labelled'
  <2>1. UNCHANGED <<canon, register>>
    BY <1>1 DEF Ciso
  <2>2. Staged(cmd, [stage |-> stage, ledger |-> stageLedger])
    BY <1>1 DEF Ciso
  <2>3. FilesOf([stage |-> stage, ledger |-> stageLedger].stage) \subseteq File
    OBVIOUS
  <2>4. /\ FilesOf(drop') \subseteq File /\ FilesOf(stage') \subseteq File
        /\ DOMAIN run' = RunFields
    BY <2>2, <2>3, StagedFiles
  <2> QED BY <2>1, <2>4 DEF FilesOf
<1>2. ASSUME NEW cmd, Prove(cmd) PROVE Labelled'
  <2>1. CASE UNCHANGED <<drop, stage, canon, register, inLedger, stageLedger, outLedger, run>>
    BY <2>1 DEF FilesOf
  <2>2. CASE /\ canon' = [s \in Sensor |-> None] /\ register' = Blank
             /\ Staged(cmd, [stage |-> {}, ledger |-> {}])
    <3>1. FilesOf([stage |-> {}, ledger |-> {}].stage) \subseteq File
      BY DEF FilesOf
    <3>2. /\ FilesOf(drop') \subseteq File /\ FilesOf(stage') \subseteq File
          /\ DOMAIN run' = RunFields
      BY <2>2, <3>1, StagedFiles
    <3>3. None \in Canonical /\ Fixture \notin None.recs /\ Fixture \notin Blank.recs
      BY DEF None, Canonical, Blank
    <3> QED BY <2>2, <3>2, <3>3 DEF FilesOf
  <2> QED BY <1>2, <2>1, <2>2 DEF Prove
<1>3. CASE Refresh
  <2>1. DOMAIN run' = RunFields
    BY <1>3 DEF Refresh, Idle, RunFields
  <2> QED BY <1>3, <2>1 DEF Refresh, FilesOf
<1>4. CASE Collect
  <2>1. PICK s \in Sensor : canon' = [canon EXCEPT ![s] = Output(s)]
    BY <1>4 DEF Collect
  <2>2. canon' \in [Sensor -> Canonical]
        /\ \A t \in Sensor : Fixture \in canon'[t].recs => canon'[t].demo
    BY <2>1, OutputType
  <2>3. DOMAIN run' = RunFields
    BY <1>4 DEF Collect
  <2> QED BY <1>4, <2>2, <2>3 DEF Collect, FilesOf
<1>5. CASE CollectorDies
  <2>1. ASSUME NEW s \in Sensor, NEW some \in SUBSET Output(s).recs,
               canon' = [canon EXCEPT ![s].recs = some, ![s].demo = Output(s).demo /\ some # {}]
        PROVE  /\ canon' \in [Sensor -> Canonical]
               /\ \A t \in Sensor : Fixture \in canon'[t].recs => canon'[t].demo
    <3>1. /\ Output(s) \in Canonical
          /\ Fixture \in Output(s).recs => Output(s).demo
      BY <2>1, OutputType
    <3>2. canon'[s].recs = some /\ canon'[s].demo = (Output(s).demo /\ some # {})
      BY <2>1 DEF Canonical
    <3>3. canon'[s] \in Canonical
      BY <2>1, <3>1 DEF Canonical
    <3>4. \A t \in Sensor \ {s} : canon'[t] = canon[t]
      BY <2>1
    <3>5. canon' \in [Sensor -> Canonical]
      BY <2>1, <3>3, <3>4
    <3> QED BY <3>1, <3>2, <3>4, <3>5
  <2>2. /\ canon' \in [Sensor -> Canonical]
        /\ \A t \in Sensor : Fixture \in canon'[t].recs => canon'[t].demo
    BY <1>5, <2>1 DEF CollectorDies
  <2>3. DOMAIN run' = RunFields
    BY <1>5 DEF CollectorDies, Fail, Idle, RunFields
  <2> QED BY <1>5, <2>2, <2>3 DEF CollectorDies, FilesOf
<1>6. CASE Load
  BY <1>6 DEF Load, FilesOf
<1>7. CASE LoaderDies \/ Blame \/ Return
  <2>1. DOMAIN run' = RunFields
    BY <1>7 DEF LoaderDies, Blame, Return, Fail, Idle, RunFields
  <2> QED BY <1>7, <2>1 DEF LoaderDies, Blame, Return, FilesOf
<1>8. CASE AddFile \/ RemoveFile \/ SetBanner \/ MoveLedger
  <2>1. FilesOf(drop') \subseteq File
    <3>1. ASSUME NEW f \in File, drop' = Put(drop, At(f)) PROVE FilesOf(drop') \subseteq File
      <4>1. \A e \in drop' : e \in drop \/ e = At(f)
        BY <3>1 DEF Put
      <4>2. At(f).file = f
        BY DEF At
      <4> QED BY <4>1, <4>2 DEF FilesOf
    <3>2. CASE drop' \subseteq drop
      BY <3>2 DEF FilesOf
    <3> QED
      BY <1>8, <3>1, <3>2 DEF AddFile, RemoveFile, SetBanner, MoveLedger
  <2> QED BY <1>8, <2>1 DEF AddFile, RemoveFile, SetBanner, MoveLedger, Kept, FilesOf
<1>9. CASE UNCHANGED vars
  BY <1>9 DEF vars, FilesOf
<1> QED
  BY <1>1, <1>2, <1>3, <1>4, <1>5, <1>6, <1>7, <1>8, <1>9 DEF Next, Start

(* No register without a demo stamp holds a fixture record: whatever was   *)
(* dropped, killed, edited or left by an earlier command.                  *)
THEOREM NoUnlabelledFixture == Spec => []FixturesLabelled
<1>1. Labelled => FixturesLabelled
  BY DEF Labelled
<1> QED
  BY <1>1, LabelledInit, LabelledNext, PTL DEF Spec

-----------------------------------------------------------------------------
(* prove starts from an empty out/ and allows no fixture; the full pass    *)
(* has replaced the records of every sensor it is done with.               *)
OwnSoFar ==
  /\ run.cmd \in {"prove", "prior"} =>
       \A s \in Sensor : canon[s].recs \subseteq FilesOf(run.seen)
  /\ run.cmd = "refresh" =>
       \A s \in Sensor \ run.todo : canon[s].recs \subseteq FilesOf(run.seen) \cup {Fixture}

LEMMA Idling ==
  ASSUME run' = Idle
  PROVE  OwnSoFar'
BY DEF Idle, OwnSoFar

LEMMA CollectOwn ==
  ASSUME Labelled, OwnSoFar, Collect
  PROVE  OwnSoFar'
<1>0. PICK s \in Sensor :
        /\ IsNext(s) /\ canon' = [canon EXCEPT ![s] = Output(s)]
        /\ run' = [run EXCEPT !.todo = @ \ {s}, !.ran = TRUE,
                              !.seen = @ \cup {e \in Tree(run) : e.at = s}]
  BY DEF Collect
<1>1. /\ canon' = [canon EXCEPT ![s] = Output(s)]
      /\ run'.cmd = run.cmd /\ run'.todo = run.todo \ {s}
      /\ run'.seen = run.seen \cup {e \in Tree(run) : e.at = s}
  BY <1>0 DEF Labelled, RunFields
<1>2. FilesOf(run'.seen) = FilesOf(run.seen) \cup FilesAt(Tree(run), s)
  BY <1>1 DEF FilesOf, FilesAt
<1>3. canon \in [Sensor -> Canonical]
  BY DEF Labelled
<1>4. ASSUME run.cmd \in {"prove", "prior"}, NEW t \in Sensor
      PROVE  canon'[t].recs \subseteq FilesOf(run'.seen)
  <2>1. Hint = "LAB"
    BY <1>4 DEF Hint, Label, EstateHint
  <2>2. CASE t = s
    <3>1. Output(s).recs \subseteq FilesAt(Tree(run), s)
      BY <2>1, <2>2, OutputType
    <3> QED BY <1>1, <1>2, <1>3, <2>2, <3>1
  <2>3. CASE t # s
    BY <1>1, <1>2, <1>3, <1>4, <2>3 DEF OwnSoFar
  <2> QED BY <2>2, <2>3
<1>5. ASSUME run.cmd = "refresh"
      PROVE  \A t \in Sensor \ run'.todo :
                canon'[t].recs \subseteq FilesOf(run'.seen) \cup {Fixture}
  <2>1. ASSUME NEW t \in Sensor \ run'.todo
        PROVE  canon'[t].recs \subseteq FilesOf(run'.seen) \cup {Fixture}
    <3>1. CASE t = s
      BY <1>1, <1>2, <1>3, <3>1, OutputType
    <3>2. CASE t # s
      BY <1>1, <1>2, <1>3, <1>5, <3>2 DEF OwnSoFar
    <3> QED BY <3>1, <3>2
  <2> QED BY <2>1
<1> QED
  BY <1>1, <1>4, <1>5 DEF OwnSoFar

LEMMA OwnNext == Labelled /\ OwnSoFar /\ [Next]_vars => OwnSoFar'
<1> SUFFICES ASSUME Labelled, OwnSoFar, [Next]_vars PROVE OwnSoFar'
  OBVIOUS
<1>1. ASSUME NEW cmd \in {"ciso", "write"}, Ciso(cmd) PROVE OwnSoFar'
  <2>1. run'.cmd \notin {"prove", "prior", "refresh"}
    BY <1>1 DEF Ciso, Staged, Idle
  <2> QED BY <2>1 DEF OwnSoFar
<1>2. ASSUME NEW cmd \in {"prove", "prior"}, Prove(cmd) PROVE OwnSoFar'
  <2>1. CASE UNCHANGED <<canon, run>>
    BY <2>1 DEF OwnSoFar, FilesOf
  <2>2. CASE canon' = [s \in Sensor |-> None] /\ Staged(cmd, [stage |-> {}, ledger |-> {}])
    <3>1. run'.cmd # "refresh"
      BY <1>2, <2>2 DEF Staged, Idle
    <3> QED BY <2>2, <3>1 DEF OwnSoFar, None
  <2> QED BY <1>2, <2>1, <2>2 DEF Prove
<1>3. CASE Refresh
  <2>1. run'.cmd = "refresh" /\ run'.todo = Sensor
    BY <1>3 DEF Refresh, Idle
  <2> QED BY <2>1 DEF OwnSoFar
<1>4. CASE Collect
  BY <1>4, CollectOwn
<1>5. CASE CollectorDies \/ LoaderDies \/ Blame \/ Return
  BY <1>5, Idling DEF CollectorDies, LoaderDies, Blame, Return, Fail
<1>6. CASE Load
  BY <1>6 DEF Load, OwnSoFar, FilesOf
<1>7. CASE AddFile \/ RemoveFile \/ SetBanner \/ MoveLedger
  BY <1>7 DEF AddFile, RemoveFile, SetBanner, MoveLedger, Kept, OwnSoFar, FilesOf
<1>8. CASE UNCHANGED vars
  BY <1>8 DEF vars, OwnSoFar, FilesOf
<1> QED
  BY <1>1, <1>2, <1>3, <1>4, <1>5, <1>6, <1>7, <1>8 DEF Next, Start

(* A step that publishes is the loader's.                                  *)
LEMMA PublishStep ==
  ASSUME Labelled, OwnSoFar, [Next]_vars, Publishes, run.cmd \in {"prove", "prior", "refresh"}
  PROVE  register'.recs \subseteq FilesOf(run.seen)
                           \cup (IF run.cmd = "refresh" THEN {Fixture} ELSE {})
<1>1. Load
  <2>1. ASSUME NEW cmd, Prove(cmd) PROVE register' = register \/ register'.run = 0
    BY <2>1 DEF Prove, Blank
  <2> QED
    BY <2>1 DEF Publishes, Next, Start, vars, Ciso, Refresh, Collect, CollectorDies, LoaderDies,
                Blame, Return, AddFile, RemoveFile, SetBanner, MoveLedger, Kept
<1>2. register'.recs = UNION {canon[s].recs : s \in Sensor} /\ run.todo = {}
  BY <1>1 DEF Load
<1> QED
  BY <1>2 DEF OwnSoFar

(* prove and the full pass publish records of files they read in this run, *)
(* and prove no fixture, whatever earlier commands left in out/.           *)
THEOREM OwnRunOnly == Spec => PublishesOwnRun
<1>1. Init => OwnSoFar
  BY DEF Init, Idle, OwnSoFar
<1>2. Labelled /\ OwnSoFar /\ [Next]_vars =>
        [Publishes /\ run.cmd \in {"prove", "prior", "refresh"} =>
           register'.recs \subseteq FilesOf(run.seen)
                                     \cup (IF run.cmd = "refresh" THEN {Fixture} ELSE {})]_vars
  BY PublishStep
<1> QED
  BY <1>1, <1>2, LabelledInit, LabelledNext, OwnNext, PTL DEF Spec, PublishesOwnRun

-----------------------------------------------------------------------------
(* A step that publishes is the loader's, and it publishes what out/ holds. *)
LEMMA PublishingLoads ==
  ASSUME [Next]_vars, Publishes
  PROVE  Load
<1>1. ASSUME NEW cmd, Prove(cmd) PROVE register' = register \/ register'.run = 0
  BY <1>1 DEF Prove, Blank
<1> QED
  BY <1>1 DEF Publishes, Next, Start, vars, Ciso, Refresh, Collect, CollectorDies, LoaderDies,
              Blame, Return, AddFile, RemoveFile, SetBanner, MoveLedger, Kept

(* What a command's first step makes of it.                                *)
LEMMA StagedRun ==
  ASSUME NEW cmd, NEW kept, Staged(cmd, kept), run = Idle
  PROVE  \/ run' = Idle
         \/ /\ run'.cmd = cmd /\ run'.seen = {} /\ run'.todo \subseteq Sensor
            /\ run'.had = outLedger /\ run'.inPlace \in BOOLEAN
            /\ stageLedger' = Carried(run'.inPlace, kept.ledger)
            /\ ~run'.inPlace /\ ~run'.sample =>
                 (run'.rows \cap Marked) \cup (FilesOf(stage') \cap Bannered) = {}
<1> DEFINE rows == Rows(drop)
           found == HasSensors(drop)
           inPlace == found \/ (PackIn /\ cmd = "write")
           here == IF inPlace THEN drop ELSE kept.stage
           tree == PassLanded(IF found THEN here ELSE Landed(here, rows), drop)
           fresh == [cmd |-> cmd, inPlace |-> inPlace, todo |-> WithInput(tree), ran |-> FALSE,
                     sample |-> IsSample(tree, inPlace, rows), rows |-> rows, seen |-> {},
                     had |-> outLedger, before |-> <<drop, inLedger>>]
<1>1. /\ stage' = IF inPlace THEN kept.stage ELSE tree
      /\ stageLedger' = Carried(inPlace, kept.ledger)
      /\ run' = Idle \/ run' = fresh
  BY DEF Staged
<1> HIDE DEF tree
<1>2. inPlace \in BOOLEAN /\ WithInput(tree) \subseteq Sensor
  BY DEF HasSensors, WithInput
<1>3. ~IsSample(tree, inPlace, rows) =>
        (rows \cap Marked) \cup (FilesOf(tree) \cap Bannered) = {}
  BY DEF IsSample
<1> HIDE DEF inPlace, rows
<1> QED
  BY <1>1, <1>2, <1>3

-----------------------------------------------------------------------------
(* From the first step of prove --prior-out on, the ledger the loader      *)
(* starts from is the one the old out/ held.                               *)
HadIsPrior ==
  run.cmd = "prior" =>
    /\ run.had # {} /\ run.inPlace \in BOOLEAN
    /\ run.had = IF run.inPlace THEN inLedger ELSE stageLedger

LEMMA HadNext == Labelled /\ HadIsPrior /\ [Next]_vars => HadIsPrior'
<1> SUFFICES ASSUME Labelled, HadIsPrior, [Next]_vars PROVE HadIsPrior'
  OBVIOUS
<1>1. CASE run'.cmd # "prior"
  BY <1>1 DEF HadIsPrior
<1>2. CASE UNCHANGED <<inLedger, stageLedger>> /\ run'.cmd = run.cmd
           /\ run'.had = run.had /\ run'.inPlace = run.inPlace
  BY <1>2 DEF HadIsPrior
<1>3. ASSUME NEW cmd \in {"ciso", "write"}, Ciso(cmd) PROVE HadIsPrior'
  <2>1. run'.cmd # "prior"
    BY <1>3, StagedRun DEF Ciso, Idle
  <2> QED BY <1>1, <2>1
<1>4. ASSUME NEW cmd \in {"prove", "prior"}, Prove(cmd) PROVE HadIsPrior'
  <2>1. CASE UNCHANGED <<inLedger, stageLedger, run>>
    BY <1>2, <2>1
  <2>2. CASE /\ inLedger' = (IF cmd = "prior" THEN outLedger ELSE inLedger)
             /\ cmd = "prior" => outLedger # {}
             /\ Staged(cmd, [stage |-> {}, ledger |-> {}])
    <3>1. \/ run' = Idle
          \/ /\ run'.cmd = cmd /\ run'.had = outLedger /\ run'.inPlace \in BOOLEAN
             /\ stageLedger' = Carried(run'.inPlace, {})
      BY <1>4, <2>2, StagedRun DEF Prove
    <3> QED BY <1>1, <2>2, <3>1 DEF HadIsPrior, Carried, Idle
  <2> QED BY <1>4, <2>1, <2>2 DEF Prove
<1>5. CASE Refresh
  BY <1>1, <1>5 DEF Refresh, Idle
<1>6. CASE Collect
  <2>1. run'.cmd = run.cmd /\ run'.had = run.had /\ run'.inPlace = run.inPlace
    BY <1>6 DEF Collect, Labelled, RunFields
  <2> QED BY <1>2, <1>6, <2>1 DEF Collect
<1>7. CASE CollectorDies \/ LoaderDies \/ Blame \/ Return
  BY <1>1, <1>7 DEF CollectorDies, LoaderDies, Blame, Return, Fail, Idle
<1>8. CASE Load
  BY <1>2, <1>8 DEF Load
<1>9. CASE AddFile \/ RemoveFile \/ SetBanner \/ MoveLedger
  <2>1. CASE MoveLedger
    BY <1>1, <2>1 DEF MoveLedger, Kept, Idle
  <2> QED BY <1>2, <1>9, <2>1 DEF AddFile, RemoveFile, SetBanner, Kept
<1>10. CASE UNCHANGED vars
  BY <1>2, <1>10 DEF vars
<1> QED
  BY <1>3, <1>4, <1>5, <1>6, <1>7, <1>8, <1>9, <1>10 DEF Next, Start

(* prove --prior-out loses no run the old out/ knew, although it wipes it. *)
THEOREM PriorLedgerCarried == Spec => PriorCarried
<1>1. Init => HadIsPrior
  BY DEF Init, Idle, HadIsPrior
<1>2. HadIsPrior /\ [Next]_vars =>
        [Publishes /\ run.cmd = "prior" => run.had \subseteq outLedger']_vars
  BY PublishingLoads DEF HadIsPrior, Load, Prior
<1> QED
  BY <1>1, <1>2, LabelledInit, LabelledNext, HadNext, PTL DEF Spec, PriorCarried

-----------------------------------------------------------------------------
(* A command that stages copies reads only what it staged, and its sample  *)
(* label speaks of all of it.                                              *)
CleanSoFar ==
  /\ run.cmd \in {"ciso", "write"} /\ ~run.inPlace =>
       /\ run.seen \subseteq stage
       /\ ~run.sample => (run.rows \cap Marked) \cup (FilesOf(stage) \cap Bannered) = {}
  /\ StagedClientClean

LEMMA CleanNext == Labelled /\ CleanSoFar /\ [Next]_vars => CleanSoFar'
<1> SUFFICES ASSUME Labelled, CleanSoFar, [Next]_vars PROVE CleanSoFar'
  OBVIOUS
<1>1. CASE run'.cmd \notin {"ciso", "write"}
           /\ (result' = result \/ ~result'.client)
  BY <1>1 DEF CleanSoFar, StagedClientClean
<1>2. CASE UNCHANGED <<run, stage, result>>
  BY <1>2 DEF CleanSoFar, StagedClientClean, FilesOf
<1>3. ASSUME NEW cmd, NEW kept, run = Idle, Staged(cmd, kept) PROVE CleanSoFar'
  <2>1. result' = result \/ ~result'.client
    BY <1>3 DEF Staged, NoResult
  <2>2. \/ run' = Idle
        \/ /\ run'.seen = {}
           /\ ~run'.inPlace /\ ~run'.sample =>
                (run'.rows \cap Marked) \cup (FilesOf(stage') \cap Bannered) = {}
    BY <1>3, StagedRun
  <2> QED BY <2>1, <2>2 DEF CleanSoFar, StagedClientClean, Idle, FilesOf
<1>4. ASSUME NEW cmd, Ciso(cmd) PROVE CleanSoFar'
  BY <1>3, <1>4 DEF Ciso
<1>5. ASSUME NEW cmd, Prove(cmd) PROVE CleanSoFar'
  <2>1. CASE result' = [NoResult EXCEPT !.cmd = cmd] /\ UNCHANGED run
    BY <1>1, <1>5, <2>1 DEF Prove, NoResult, Idle
  <2> QED BY <1>3, <1>5, <2>1 DEF Prove
<1>6. CASE Refresh
  BY <1>1, <1>6 DEF Refresh, Idle
<1>7. CASE Collect
  <2>1. PICK s \in Sensor :
          /\ run' = [run EXCEPT !.todo = @ \ {s}, !.ran = TRUE,
                                !.seen = @ \cup {e \in Tree(run) : e.at = s}]
    BY <1>7 DEF Collect
  <2>2. /\ run'.cmd = run.cmd /\ run'.inPlace = run.inPlace /\ run'.sample = run.sample
        /\ run'.rows = run.rows /\ run'.seen \subseteq run.seen \cup Tree(run)
    BY <2>1 DEF Labelled, RunFields
  <2> QED BY <1>7, <2>2 DEF Collect, CleanSoFar, StagedClientClean, Tree, FilesOf
<1>8. CASE CollectorDies \/ LoaderDies \/ Blame
  BY <1>1, <1>8 DEF CollectorDies, LoaderDies, Blame, Fail, Idle, NoResult
<1>9. CASE Return
  <2>1. run' = Idle
    BY <1>9 DEF Return
  <2>2. StagedClientClean'
    <3>1. SUFFICES ASSUME result'.client, ~result'.inPlace 
               PROVE  (result'.rows \cap Marked) \cup (result'.seen \cap Bannered) = {}
      BY DEF StagedClientClean
    <3>2. /\ run.cmd \in {"ciso", "write"} /\ ~run.sample /\ ~run.inPlace
          /\ result'.seen = FilesOf(run.seen) /\ result'.rows = run.rows
      BY <1>9, <3>1 DEF Return
    <3> QED BY <3>2 DEF CleanSoFar, FilesOf
  <2> QED BY <2>1, <2>2 DEF CleanSoFar, Idle
<1>10. CASE Load
  BY <1>2, <1>10 DEF Load
<1>11. CASE AddFile \/ RemoveFile \/ SetBanner \/ MoveLedger
  BY <1>2, <1>11 DEF AddFile, RemoveFile, SetBanner, MoveLedger, Kept
<1>12. CASE UNCHANGED vars
  BY <1>2, <1>12 DEF vars
<1> QED
  BY <1>4, <1>5, <1>6, <1>7, <1>8, <1>9, <1>10, <1>11, <1>12 DEF Next, Start

(* No staged run that calls a drop the client's own has taken a file of    *)
(* the drop with a sample's text, or read one that says SAMPLE or DEMO:    *)
(* for the banner the copies that earlier runs left are looked at too.     *)
THEOREM StagedClientIsClean == Spec => []StagedClientClean
<1>1. Init => CleanSoFar
  BY DEF Init, Idle, NoResult, CleanSoFar, StagedClientClean
<1>2. CleanSoFar => StagedClientClean
  BY DEF CleanSoFar
<1> QED
  BY <1>1, <1>2, LabelledInit, LabelledNext, CleanNext, PTL DEF Spec

-----------------------------------------------------------------------------
(* What one collector reports about the files it found.                    *)
Told(c, fs) ==
  /\ c.status = "ok" =>
       fs # {} /\ \A f \in fs : \/ f \in c.recs \/ Kind[f] = "sidecar"
                                \/ Kind[f] = "suffix" /\ Twin[f] \in fs
  /\ \A f \in fs : \/ f \in c.recs \cup c.named \/ Kind[f] = "sidecar"
                   \/ Twin[f] \in fs

LEMMA CollectedTold ==
  ASSUME NEW s, NEW fs \in SUBSET File, NEW hint, NEW any
  PROVE  Told(Collected(s, fs, hint, any), fs)
<1> DEFINE subst == Substitutes(fs, hint, any)
           recs == Records(s, fs, subst)
           issues == Issues(fs, subst)
           demo == Stamps(recs, hint, subst)
           c == Collected(s, fs, hint, any)
<1>1. /\ c.recs = recs /\ c.named = Named(issues)
      /\ c.status = Status(fs, recs, issues, demo)
  BY DEF Collected
<1>2. ASSUME NEW f \in fs
      PROVE  \/ f \in recs \/ Kind[f] = "sidecar" \/ f \in Named(issues)
             \/ Kind[f] = "suffix" /\ Twin[f] \in fs
  <2>1. Kind[f] \in Kinds
    BY CollectorAssumption
  <2>2. Kind[f] \in {"rows", "partial"} => f \in recs
    BY DEF Records
  <2>3. Kind[f] \in {"corrupt", "bare", "strange"} => f \in Named(issues)
    BY DEF Named, Issues
  <2>4. Kind[f] = "suffix" /\ Twin[f] \notin fs => f \in Named(issues)
    BY DEF Named, Issues, Unread
  <2> QED BY <2>1, <2>2, <2>3, <2>4 DEF Kinds
<1>3. ASSUME c.status = "ok" PROVE Named(issues) = {} /\ recs # {} /\ ~demo
  <2>1. demo \in BOOLEAN
    BY DEF Stamps, Substitutes
  <2> HIDE DEF recs, issues, demo
  <2>2. Status(fs, recs, issues, demo) = "ok"
    BY <1>1, <1>3
  <2>3. CASE recs # {} /\ demo
    BY <2>2, <2>3 DEF Status
  <2>4. CASE recs = {}
    BY <2>2, <2>4 DEF Status
  <2>5. CASE recs # {} /\ ~demo
    BY <2>2, <2>5 DEF Status
  <2> QED BY <2>1, <2>3, <2>4, <2>5
<1>4. c.status = "ok" => fs # {}
  <2>1. ~demo => ~subst
    BY DEF Stamps
  <2>2. ~subst /\ recs # {} => fs # {}
    BY DEF Records
  <2> QED BY <1>3, <2>1, <2>2
<1> HIDE DEF recs, issues, c
<1>5. Told(c, fs)
  BY <1>1, <1>2, <1>3, <1>4 DEF Told
<1> QED
  BY <1>5 DEF c

(* prove finds every sensor empty and the full pass visits each once: what *)
(* stands in out/ is what a collector made of the files it read.           *)
ToldSoFar ==
  run.cmd \in {"prove", "prior", "refresh"} =>
    /\ \A e \in run.seen : e.at \in Sensor
    /\ \A s \in run.todo : FilesAt(run.seen, s) = {}
    /\ \A s \in Sensor \ (IF run.cmd = "refresh" THEN run.todo ELSE {}) :
         Told(canon[s], FilesAt(run.seen, s))

LEMMA CollectTold ==
  ASSUME Labelled, ToldSoFar, Collect
  PROVE  ToldSoFar'
<1> SUFFICES ASSUME run'.cmd \in {"prove", "prior", "refresh"} PROVE ToldSoFar'
  BY DEF ToldSoFar
<1>0. PICK s \in Sensor :
        /\ IsNext(s) /\ canon' = [canon EXCEPT ![s] = Output(s)]
        /\ run' = [run EXCEPT !.todo = @ \ {s}, !.ran = TRUE,
                              !.seen = @ \cup {e \in Tree(run) : e.at = s}]
  BY DEF Collect
<1> DEFINE new == {e \in Tree(run) : e.at = s}
<1>1. /\ run'.cmd = run.cmd /\ run'.todo = run.todo \ {s}
      /\ run'.seen = run.seen \cup new /\ s \in run.todo
  BY <1>0 DEF Labelled, RunFields, IsNext
<1>2. ASSUME NEW t \in Sensor, t # s
      PROVE  FilesAt(run'.seen, t) = FilesAt(run.seen, t) /\ canon'[t] = canon[t]
  BY <1>0, <1>1, <1>2 DEF FilesAt, Labelled
<1>3. FilesAt(run.seen, s) = {}
  BY <1>1 DEF ToldSoFar
<1>4. FilesAt(run'.seen, s) = FilesAt(Tree(run), s)
  <2>1. \A e \in run.seen : e.at # s
    BY <1>3 DEF FilesAt
  <2>2. {e \in run'.seen : e.at = s} = {e \in Tree(run) : e.at = s}
    BY <1>1, <2>1
  <2> QED BY <2>2 DEF FilesAt
<1>5. Told(canon'[s], FilesAt(run'.seen, s))
  <2>1. FilesAt(Tree(run), s) \in SUBSET File
    BY DEF Labelled, FilesAt, FilesOf, Tree
  <2>2. canon'[s] = Output(s)
    BY <1>0 DEF Labelled
  <2> QED BY <1>4, <2>1, <2>2, CollectedTold DEF Output
<1>6. \A e \in run'.seen : e.at \in Sensor
  BY <1>1 DEF ToldSoFar
<1>7. \A t \in run'.todo : FilesAt(run'.seen, t) = {}
  <2>1. ASSUME NEW t \in run'.todo PROVE FilesAt(run'.seen, t) = {}
    <3>1. t # s /\ FilesAt(run.seen, t) = {}
      BY <1>1 DEF ToldSoFar
    <3> QED BY <1>1, <3>1 DEF FilesAt
  <2> QED BY <2>1
<1>8. \A t \in Sensor \ (IF run'.cmd = "refresh" THEN run'.todo ELSE {}) :
        Told(canon'[t], FilesAt(run'.seen, t))
  BY <1>1, <1>2, <1>5 DEF ToldSoFar
<1> QED BY <1>6, <1>7, <1>8 DEF ToldSoFar

LEMMA ToldNext == Labelled /\ ToldSoFar /\ [Next]_vars => ToldSoFar'
<1> SUFFICES ASSUME Labelled, ToldSoFar, [Next]_vars PROVE ToldSoFar'
  OBVIOUS
<1>1. CASE run'.cmd \notin {"prove", "prior", "refresh"}
  BY <1>1 DEF ToldSoFar
<1>2. CASE UNCHANGED <<run, canon>>
  BY <1>2 DEF ToldSoFar, FilesAt, Told
<1>3. ASSUME NEW cmd \in {"ciso", "write"}, Ciso(cmd) PROVE ToldSoFar'
  <2>1. run'.cmd \notin {"prove", "prior", "refresh"}
    BY <1>3, StagedRun DEF Ciso, Idle
  <2> QED BY <1>1, <2>1
<1>4. ASSUME NEW cmd \in {"prove", "prior"}, Prove(cmd) PROVE ToldSoFar'
  <2>1. CASE canon' = [s \in Sensor |-> None] /\ Staged(cmd, [stage |-> {}, ledger |-> {}])
    <3>1. \/ run' = Idle
          \/ run'.cmd = cmd /\ run'.seen = {}
      BY <1>4, <2>1, StagedRun DEF Prove
    <3>2. run'.seen = {} => \A s : FilesAt(run'.seen, s) = {}
      BY DEF FilesAt
    <3>3. Told(None, {})
      BY DEF Told, None
    <3>4. run'.cmd = cmd => run'.cmd # "refresh"
      OBVIOUS
    <3> QED BY <1>1, <2>1, <3>1, <3>2, <3>3, <3>4 DEF ToldSoFar, Idle
  <2> QED BY <1>2, <1>4, <2>1 DEF Prove
<1>5. CASE Refresh
  <2>1. run'.cmd = "refresh" /\ run'.todo = Sensor /\ run'.seen = {}
    BY <1>5 DEF Refresh, Idle
  <2> QED BY <2>1 DEF ToldSoFar, FilesAt
<1>6. CASE Collect
  BY <1>6, CollectTold
<1>7. CASE CollectorDies \/ LoaderDies \/ Blame \/ Return
  BY <1>1, <1>7 DEF CollectorDies, LoaderDies, Blame, Return, Fail, Idle
<1>8. CASE Load
  BY <1>2, <1>8 DEF Load
<1>9. CASE AddFile \/ RemoveFile \/ SetBanner \/ MoveLedger
  BY <1>2, <1>9 DEF AddFile, RemoveFile, SetBanner, MoveLedger, Kept
<1>10. CASE UNCHANGED vars
  BY <1>2, <1>10 DEF vars
<1> QED
  BY <1>3, <1>4, <1>5, <1>6, <1>7, <1>8, <1>9, <1>10 DEF Next, Start

LEMMA PublishedTold ==
  ASSUME Labelled, ToldSoFar, [Next]_vars, Publishes, run.cmd \in {"prove", "prior", "refresh"}
  PROVE  \A s \in Sensor : /\ Told(canon[s], FilesAt(run.seen, s))
                           /\ canon[s].recs \subseteq register'.recs
                           /\ register'.cover[s] = canon[s].status
<1>1. Load
  BY PublishingLoads
<1>2. /\ run.todo = {} /\ register'.recs = UNION {canon[s].recs : s \in Sensor}
      /\ register'.cover = [s \in Sensor |-> canon[s].status]
  BY <1>1 DEF Load
<1> QED
  BY <1>2 DEF ToldSoFar

(* A sensor that prove or the full pass reports as "ok" has a record of    *)
(* every file its collector found.                                         *)
THEOREM OkCoversEveryFile == Spec => CoverageHonest
<1>1. Init => ToldSoFar
  BY DEF Init, Idle, ToldSoFar
<1>2. Labelled /\ ToldSoFar /\ [Next]_vars =>
        [Publishes /\ run.cmd \in {"prove", "prior", "refresh"} =>
           \A s \in Sensor : register'.cover[s] = "ok" =>
             LET fs == FilesAt(run.seen, s)
             IN fs # {} /\ \A f \in fs : \/ f \in register'.recs
                                         \/ Kind[f] = "sidecar"
                                         \/ Kind[f] = "suffix" /\ Twin[f] \in fs]_vars
  BY PublishedTold DEF Told
<1> QED
  BY <1>1, <1>2, LabelledInit, LabelledNext, ToldNext, PTL DEF Spec, CoverageHonest

(* A file prove or the full pass read and has no record of is named in the *)
(* coverage of its sensor.                                                 *)
THEOREM EveryGapIsNamed == Spec => GapsNamed
<1>1. Init => ToldSoFar
  BY DEF Init, Idle, ToldSoFar
<1>2. ASSUME Labelled, ToldSoFar, [Next]_vars, Publishes,
             run.cmd \in {"prove", "prior", "refresh"}, NEW e \in run.seen
      PROVE  \/ e.file \in register'.recs \cup canon[e.at].named
             \/ Kind[e.file] = "sidecar"
             \/ \E g \in run.seen : g.file = Twin[e.file]
  <2>1. e.at \in Sensor /\ e.file \in FilesAt(run.seen, e.at)
    BY <1>2 DEF ToldSoFar, FilesAt
  <2>2. Told(canon[e.at], FilesAt(run.seen, e.at)) /\ canon[e.at].recs \subseteq register'.recs
    BY <1>2, <2>1, PublishedTold
  <2>3. \/ e.file \in canon[e.at].recs \cup canon[e.at].named \/ Kind[e.file] = "sidecar"
        \/ Twin[e.file] \in FilesAt(run.seen, e.at)
    BY <2>1, <2>2 DEF Told
  <2> QED BY <2>2, <2>3 DEF FilesAt
<1>3. Labelled /\ ToldSoFar /\ [Next]_vars =>
        [Publishes /\ run.cmd \in {"prove", "prior", "refresh"} =>
           \A e \in run.seen : \/ e.file \in register'.recs \cup canon[e.at].named
                                \/ Kind[e.file] = "sidecar"
                                \/ \E g \in run.seen : g.file = Twin[e.file]]_vars
  BY <1>2
<1> QED
  BY <1>1, <1>3, LabelledInit, LabelledNext, ToldNext, PTL DEF Spec, GapsNamed
=============================================================================
