----------------------------- MODULE LoaderRun -----------------------------
(***************************************************************************)
(* One installation over many runs of the loader (collectors/grc_loader.py *)
(* _load), with both of its ledgers: the asset ledger names the hosts of a *)
(* scan, and the POA&M ledger keys its rows by weakness and host name.     *)
(* The asset side is AssetLedger, step by step.  This module adds the rows *)
(* of the POA&M ledger, the order in which the two files are written, the  *)
(* process dying in between, the rerun of a scan, and the operator who     *)
(* carries out/ to in/, or forgets to.                                     *)
(*                                                                         *)
(* Data abstraction.  A record reports at most one weakness, on its own    *)
(* host; a fingerprint is the pair of the weakness and the host's uid.  An *)
(* id is the fingerprint it was minted from, with 10 or 12 hex digits of   *)
(* it.  What PoamLedger models of a row besides its key, id, date and      *)
(* aliases (misses, closing, overrides, the two writes of a run, torn      *)
(* files) is left out here.                                                *)
(***************************************************************************)
EXTENDS AssetLedger

CONSTANTS
  Scans,     \* sets of records a scan can hold
  Weakness,  \* kinds of weakness
  Reports    \* [record -> SUBSET Weakness] what a record reports on its host

ASSUME ReportsTyped ==
  /\ Scans \subseteq SUBSET Rec
  /\ Reports \in [Rec -> SUBSET Weakness]
  /\ \A r \in Rec : Cardinality(Reports[r]) <= 1

VARIABLES
  inPlan,    \* in/poam/poam-ledger.json
  outPlan,   \* out/poam/poam-ledger.json
  planned,   \* this run has written the POA&M ledger
  outWhole,  \* the ledgers in out/ are of one complete run
  inWhole,   \* in/ holds both ledgers of the last complete run
  given,     \* history: ids this scan got, in its latest attempt
  last,      \* history: ids of the last complete run
  lastUid    \* history: uids the records of that run were keyed under

planVars == <<inPlan, outPlan, planned, outWhole, inWhole, given, last, lastUid>>
allVars == <<vars, planVars>>

NoId    == <<>>
NoIds   == [r \in Rec |-> NoId]
NoPlan  == [there |-> FALSE, rows |-> <<>>]
Reporters == {r \in scan : Reports[r] # {}}
Weak(r) == CHOOSE w \in Reports[r] : TRUE

-----------------------------------------------------------------------------
(* The fingerprints of a record. *)

\* legacy_master_asset_key: the key of the record's own strongest identifier.
OwnKey(r) == <<Weak(r), <<Anchor(Ids[r]), 0>>>>

\* Mutant: findings are not looked up in the asset ledger.
HostUidOwn(r) == <<Anchor(Ids[r]), 0>>

\* attach_asset_uids looks a finding up among the active assets, the late
\* merges done; a host it cannot find is named by its own identifier.
HostUid(r) ==
  LET host == FindMatch(mem, Ids[r], runNo * Span + Age[r])
  IN IF host = 0 THEN <<Anchor(Ids[r]), 0>> ELSE UidOf(mem, host)

\* The uids of the findings of this scan; FpOf keys them under uids.
HostUids == [r \in Reporters |-> HostUid(r)]
FpOf(uids, r) == <<Weak(r), uids[r]>>

\* _may_claim_legacy_fp, of rows that name no location: the first record of
\* the scan that answers to the old key.
MayClaim(uids, r, old) == \A s \in DOMAIN uids : old \in {FpOf(uids, s), OwnKey(s)} => r <= s

-----------------------------------------------------------------------------
(* apply_ledger, for one record, in a run. *)

\* assign_poam_id: ten digits, twelve when another row has the ten.
MintedId(rows, f) ==
  LET taken == \E g \in DOMAIN rows : g # f /\ <<f, 10>> \in {rows[g].id} \cup rows[g].aliases
  IN IF taken THEN <<f, 12>> ELSE <<f, 10>>

Found(uids, rows, r) ==
  DOMAIN rows \cap ({FpOf(uids, r)} \cup {f \in {OwnKey(r)} : MayClaim(uids, r, f)})

\* _item_sort_key: the earliest detection date, then the text of the id.
Oldest(rows, found) ==
  LET first == {f \in found : \A g \in found : rows[f].odd <= rows[g].odd}
      id == CHOOSE i \in {rows[f].id : f \in first} : TRUE
  IN CHOOSE f \in first : rows[f].id = id

\* _migrate_if_needed and the minting of what no row was found for.
Applied(run, uids, rows, r) ==
  LET f == FpOf(uids, r)
      found == Found(uids, rows, r)
      keep == rows[Oldest(rows, found)]
      row == IF found = {} THEN [id |-> MintedId(rows, f), odd |-> run, aliases |-> {}]
             ELSE [keep EXCEPT !.aliases = @ \cup ({rows[g].id : g \in found} \ {keep.id})]
  IN [g \in (DOMAIN rows \ found) \cup {f} |-> IF g = f THEN row ELSE rows[g]]

\* The records of the scan, in reading order.
PlanOf(run, uids, prior) ==
  LET upTo[r \in 0 .. NRec] ==
        IF r = 0 THEN prior
        ELSE IF r \in DOMAIN uids THEN Applied(run, uids, upTo[r - 1], r) ELSE upTo[r - 1]
  IN upTo[NRec]

\* run_ledger prefers in/ and falls back to out/.
Prior == IF inPlan.there THEN inPlan ELSE outPlan

IdsIn(uids, rows) ==
  [r \in Rec |-> IF r \in DOMAIN uids /\ FpOf(uids, r) \in DOMAIN rows
                   THEN rows[FpOf(uids, r)].id ELSE NoId]

-----------------------------------------------------------------------------
LInit ==
  /\ Init
  /\ inPlan = NoPlan /\ outPlan = NoPlan
  /\ planned = FALSE /\ outWhole = TRUE /\ inWhole = TRUE
  /\ given = NoIds /\ last = NoIds /\ lastUid = NoIds

\* A new scan is dropped into in/ and loaded.
LBegin(recs) ==
  /\ Begin(recs)
  /\ planned' = FALSE /\ given' = NoIds
  /\ UNCHANGED <<inPlan, outPlan, outWhole, inWhole, last, lastUid>>

\* Mutant: a rerun falls back to the asset ledger of out/, as Prior does.
RerunOut ==
  /\ pc = "idle" /\ scan # {}
  /\ mem' = (IF inFile = <<>> THEN outFile ELSE Ordered(inFile)) /\ todo' = scan
  /\ observed' = {} /\ stamped' = [r \in Rec |-> 0]
  /\ pc' = "observe" /\ planned' = FALSE
  /\ UNCHANGED <<inFile, outFile, order, scan, runNo,
                 inPlan, outPlan, outWhole, inWhole, given, last, lastUid>>

\* The loader is run again on what lies in in/.
Rerun ==
  /\ pc = "idle" /\ scan # {}
  /\ mem' = Ordered(inFile) /\ todo' = scan
  /\ observed' = {} /\ stamped' = [r \in Rec |-> 0]
  /\ pc' = "observe" /\ planned' = FALSE
  /\ UNCHANGED <<inFile, outFile, order, scan, runNo,
                 inPlan, outPlan, outWhole, inWhole, given, last, lastUid>>

LObserve(r) == Observe(r) /\ UNCHANGED planVars
LLateMerge  == LateMerge /\ UNCHANGED planVars
LAttach     == Attach /\ UNCHANGED planVars

\* run_ledger: the POA&M ledger is applied and written.
Plan ==
  /\ pc = "close" /\ ~planned
  /\ outPlan' = [there |-> TRUE, rows |-> PlanOf(runNo, HostUids, Prior.rows)]
  /\ given' = IdsIn(HostUids, outPlan'.rows)
  /\ planned' = TRUE /\ outWhole' = FALSE
  /\ UNCHANGED <<vars, inPlan, inWhole, last, lastUid>>

\* close_run, and the asset ledger is written: the run is complete.
LCloseRun ==
  /\ planned /\ CloseRun
  /\ outWhole' = TRUE /\ inWhole' = FALSE
  /\ last' = given
  /\ lastUid' = [r \in Rec |-> IF r \in Reporters THEN HostUids[r] ELSE NoId]
  /\ UNCHANGED <<inPlan, outPlan, planned, given>>

Gone ==
  /\ pc' = "idle" /\ planned' = FALSE
  /\ mem' = <<>> /\ todo' = {} /\ observed' = {} /\ stamped' = [r \in Rec |-> 0]

\* The process dies; inside save it leaves a file that load takes for empty.
Die ==
  /\ pc # "idle" /\ Gone
  /\ UNCHANGED <<inFile, outFile, order, scan, runNo,
                 inPlan, outPlan, outWhole, inWhole, given, last, lastUid>>
TearSave ==
  /\ pc = "close" /\ planned /\ Gone
  /\ outFile' = <<>>
  /\ UNCHANGED <<inFile, order, scan, runNo,
                 inPlan, outPlan, outWhole, inWhole, given, last, lastUid>>

\* Mutant: the POA&M ledger is copied alone.
LCarryPlan ==
  /\ pc = "idle" /\ outPlan.there /\ inPlan # outPlan
  /\ inPlan' = outPlan
  /\ inWhole' = outWhole /\ given' = NoIds
  /\ UNCHANGED <<inFile, outFile, order, scan, runNo, pc, mem, todo, observed, stamped,
                 outPlan, planned, outWhole, last, lastUid>>

\* carry_prior_ledgers copies both files.
LCarry ==
  /\ pc = "idle" /\ outPlan.there /\ <<inFile, inPlan>> # <<outFile, outPlan>>
  /\ inFile' = outFile /\ inPlan' = outPlan
  /\ inWhole' = outWhole /\ given' = NoIds
  /\ UNCHANGED <<outFile, order, scan, runNo, pc, mem, todo, observed, stamped,
                 outPlan, planned, outWhole, last, lastUid>>

LNext ==
  \/ \E recs \in Scans : LBegin(recs)
  \/ Rerun
  \/ \E r \in Rec : LObserve(r)
  \/ LLateMerge \/ LAttach \/ Plan \/ LCloseRun
  \/ Die \/ TearSave \/ LCarry

LSpec == LInit /\ [][LNext]_allVars

-----------------------------------------------------------------------------
(* Properties. *)

\* A scan that is loaded again, after a crash at any point or after a complete
\* run, gives its findings the ids they had, so long as nobody touched in/:
\* uids are hashes of what was seen, not numbers, and rows moved by the dead
\* attempt are found where it moved them (grc_loader.py:964 writes the POA&M
\* ledger, :1124 the asset ledger).
RerunKeepsIds ==
  [][planned' /\ ~planned =>
       \A r \in Rec : given[r] # NoId => given'[r] = given[r]]_allVars

\* With both ledgers carried, a finding that was on the plan of the last run
\* and is keyed under the same asset keeps its id ("Never remint a surviving
\* EGP- ID", shared/poam_ledger.py:2349).
SameAssetSameId ==
  [][planned' /\ ~planned /\ inWhole =>
       \A r \in Reporters : last[r] # NoId /\ lastUid[r] = HostUid(r)
                              => given'[r] = last[r]]_allVars

\* No record of this one's host, and none that shares an identifier with such
\* a record, names the host differently.
Kin(S) == {s \in Rec : \E r \in S : \E k \in Key : Ids[r][k] \cap Ids[s][k] # {}}
Steady(r) == \A s, t \in Kin(Kin({r})) : ~Conflict(Ids[s], Ids[t], "hostname")

\* The same for whoever does not see the asset ledger: with both ledgers
\* carried, a finding of the last run about a host whose identifiers did not
\* move is on the plan under its id, whichever collectors saw the host before
\* and whatever died since.
SteadyHostSameId ==
  [][planned' /\ ~planned /\ inWhole =>
       \A r \in Reporters : last[r] # NoId /\ Steady(r) => given'[r] = last[r]]_allVars

\* The rows of a complete run are about hosts its asset ledger knows.
RowsNameAssets ==
  planned /\ pc = "idle" =>
    \A r \in Reporters : \E u \in Active(outFile) : UidOf(outFile, u) = HostUid(r)
=============================================================================
