----------------------------- MODULE PoamLedger -----------------------------
(***************************************************************************)
(* The POA&M id ledger (shared/poam_ledger.py) together with the way one   *)
(* loader run uses it (collectors/grc_loader.py, load).                    *)
(*                                                                         *)
(* A run reads a prior ledger document, applies the detection records of   *)
(* the scan that is lying in in/ one record at a time, folds rows whose    *)
(* weakness was merged away, sweeps the rows it did not see, and writes    *)
(* the document back in place, twice.  A process can die between any two   *)
(* of these steps; between runs an operator drops the next scan, writes    *)
(* override rows and carries or edits ledger files.                        *)
(*                                                                         *)
(* Data abstraction.  A fingerprint is a model value, an id <<core, n>>    *)
(* where core is the hex part of EGP-xxxx and n the -Rn suffix (0: none).  *)
(* Dates are scan numbers.  Wording, ratings, CVE and due-date columns     *)
(* are left out: no step below depends on them.                            *)
(***************************************************************************)
EXTENDS Naturals, FiniteSets

CONSTANTS
  Fp,          \* fingerprints (fp_v1 values)
  Inst,        \* detection records a scan can hold, after fan_out_instances
  Core,        \* hex cores of POA&M ids
  NoCore,      \* core of the "no id" value
  Place,       \* (source family, asset) pairs that coverage speaks about
  FpOf,        \* [Inst -> Fp]          current fingerprint of a record
  Legacy,      \* [Inst -> SUBSET Fp]   older fingerprints the record answers to
  Near,        \* [Inst -> SUBSET Fp]   legacy rows whose location the record matches
  Absorbs,     \* [Inst -> SUBSET Fp]   rows whose ref_id was merged into the record
  Epoch,       \* [Inst -> Nat]         identity scheme the record is keyed under
  Undated,     \* records whose artifact has no scan time
  Target,      \* [Fp -> Place]         the place a row is about
  Covers,      \* [Inst -> SUBSET Place] the places a record proves were scanned
  Short, Long, \* [Fp -> Core]          10 and 12 hex digits of a fingerprint
  Seeds,       \* ledger files an installation may start from
  Env,         \* environment steps this instance allows
  MaxScans,    \* bound: scans dropped into in/
  MaxReopen    \* bound: -Rn suffixes

EnvSteps == {"carry", "discipline", "edit", "lose", "rerun", "crash",
             "regress", "close", "vendor", "clear"}
MissesToPending == 2

Id        == (Core \cup {NoCore}) \X Nat
NoId      == <<NoCore, 0>>
Date      == 0 .. MaxScans + 1
NotRecorded == MaxScans + 1
Live      == {"open", "pending_verification", "reopened"}
Statuses  == Live \cup {"closed", "absent"}
Warnings  == {"LEDGER_CHAIN_BROKEN", "LEDGER_LOST"}
Rulings   == {"close", "vdYes", "vdNo"}

Item == [pid: Id, status: Statuses, missed: 0 .. MissesToPending,
         rescans: SUBSET Date, seen: Date, odd: Date, vd: BOOLEAN,
         aliases: SUBSET Id, prior: Id, evid: BOOLEAN]
Row  == [pid: Id, fp: Fp, evid: BOOLEAN]
Move == [from: Fp, to: Fp, pid: Id]

Ledger == [items: [Fp -> Item], closed: SUBSET Row, moves: SUBSET Move,
           warn: SUBSET Warnings]
Kinds  == {"missing", "torn", "intact", "edited"}
File   == [kind: Kinds, doc: Ledger]

AbsentItem == [pid |-> NoId, status |-> "absent", missed |-> 0,
               rescans |-> {}, seen |-> 0, odd |-> NotRecorded, vd |-> FALSE,
               aliases |-> {}, prior |-> NoId, evid |-> FALSE]
EmptyLedger == [items |-> [f \in Fp |-> AbsentItem], closed |-> {},
                moves |-> {}, warn |-> {}]
NoFile   == [kind |-> "missing", doc |-> EmptyLedger]
TornFile == [kind |-> "torn", doc |-> EmptyLedger]
Intact(L) == [kind |-> "intact", doc |-> L]

ASSUME ConstantsTyped ==
  /\ FpOf \in [Inst -> Fp]
  /\ Legacy \in [Inst -> SUBSET Fp] /\ Near \in [Inst -> SUBSET Fp]
  /\ Absorbs \in [Inst -> SUBSET Fp]
  /\ Epoch \in [Inst -> Nat]
  /\ Undated \subseteq Inst
  /\ Target \in [Fp -> Place] /\ Covers \in [Inst -> SUBSET Place]
  /\ Short \in [Fp -> Core] /\ Long \in [Fp -> Core]
  /\ NoCore \notin Core
  /\ Env \subseteq EnvSteps
  /\ MaxScans \in Nat /\ MaxReopen \in Nat
  /\ Seeds \subseteq File

VARIABLES
  inFile,     \* in/poam/poam-ledger.json, put there by an operator
  outFile,    \* out/poam/poam-ledger.json, written by every run
  carried,    \* in/ holds what the operator took over from the last run
  surfaces,   \* poam.csv and the other history markers exist under out/
  overrides,  \* rows of in/poam/overrides.csv
  scan,       \* records of the scan lying in in/
  scanNo,     \* how many scans were dropped so far
  loaded,     \* the scan in in/ has been through a complete run
  pc,         \* where the loader process is
  round,      \* which of the two writes of the run comes next
  mem,        \* the ledger document in the loader's memory
  todo,       \* records the current loop has not reached
  issued      \* history: ids published and not announced lost since

files == <<inFile, outFile, carried, surfaces>>
inputs == <<overrides, scan, scanNo, loaded>>
run == <<pc, round, mem, todo>>
vars == <<inFile, outFile, carried, surfaces, overrides, scan, scanNo, loaded, pc,
          round, mem, todo, issued>>

-----------------------------------------------------------------------------
(* Reading a document. *)

Present(L)  == {f \in Fp : L.items[f].status # "absent"}
LiveRows(L) == {f \in Fp : L.items[f].status \in Live}
ItemIds(L)  == {L.items[f].pid : f \in Present(L)}
AliasIds(L) == UNION {L.items[f].aliases : f \in Present(L)}
ClosedIds(L) == {r.pid : r \in L.closed}

\* _used_ids: ids on items, their aliases, and ids of closed rows.
UsedIds(L) == ItemIds(L) \cup AliasIds(L) \cup ClosedIds(L)

\* The fingerprint _used_ids reports as the holder of an id: a closed row
\* overrides an item, an item overrides an alias.
Holders(L, id) ==
  LET rows  == {r.fp : r \in {x \in L.closed : x.pid = id}}
      items == {f \in Present(L) : L.items[f].pid = id}
      alias == {f \in Present(L) : id \in L.items[f].aliases}
  IN IF rows # {} THEN rows ELSE IF items # {} THEN items ELSE alias

\* Mutants: the ten digits whoever holds them; an id without its suffix.
AssignedShort(L, f) == <<Short[f], 0>>
AssignedBare(L, f) == Short[f]

\* assign_poam_id: ten hex digits, twelve when another row holds the ten.
AssignedId(L, f) ==
  IF Holders(L, <<Short[f], 0>>) \subseteq {f}
    THEN <<Short[f], 0>> ELSE <<Long[f], 0>>

\* Mutant: counting starts at 2.
ReopenSuffixFrom2(L, id) == {n \in 2 .. MaxReopen : <<id[1], n>> \notin UsedIds(L)}

\* next_reopen_id: the least n whose id is not used yet (bound: MaxReopen).
ReopenSuffix(L, id) ==
  {n \in 1 .. MaxReopen :
     /\ <<id[1], n>> \notin UsedIds(L) \cup {id}
     /\ \A m \in 1 .. n - 1 : <<id[1], m>> \in UsedIds(L) \cup {id}}

Detected(i) == IF i \in Undated THEN NotRecorded ELSE scanNo
SeenFps     == {FpOf[i] : i \in scan}

\* is_covered over build_coverage of the scan.
Covered(f) == \E i \in scan : Target[f] \in Covers[i]

-----------------------------------------------------------------------------
(* _migrate_if_needed: bring older rows of a record under its current      *)
(* fingerprint.  The row with the earliest detection date survives, the    *)
(* ids of the others become aliases.                                       *)

Siblings(old) == {j \in scan : old \in Legacy[j]}

\* _may_claim_legacy_fp: a location match wins, else the first sibling does.
MayClaim(i, old) ==
  \/ Siblings(old) \subseteq {i}
  \/ old \in Near[i]
  \/ /\ \A j \in Siblings(old) : old \notin Near[j]
     /\ Siblings(old) \subseteq todo

Found(L, i) ==
  {f \in Legacy[i] \ {FpOf[i]} : f \in Present(L) /\ MayClaim(i, f)}
    \cup ({FpOf[i]} \cap Present(L))

\* _item_sort_key puts the earliest detection date first; first_seen and the
\* id text break ties, abstracted to any choice among the earliest.
Oldest(L, found) ==
  {f \in found : \A g \in found : L.items[f].odd <= L.items[g].odd}

Merged(L, s, found) ==
  LET keep   == L.items[s]
      others == {L.items[f].pid : f \in found \ {s}} \ {keep.pid}
  IN [keep EXCEPT !.aliases = @ \cup others]

\* Mutant: the moves are not written down.
MigratedSilently(L, i, s, found) ==
  IF found \subseteq {FpOf[i]} THEN L
  ELSE [L EXCEPT !.items = [f \in Fp |-> IF f = FpOf[i] THEN Merged(L, s, found)
                                         ELSE IF f \in found THEN AbsentItem
                                         ELSE L.items[f]]]

Migrated(L, i, s, found) ==
  LET new == FpOf[i]
  IN IF found \subseteq {new} THEN L
     ELSE [L EXCEPT
             !.items = [f \in Fp |->
                          IF f = new THEN Merged(L, s, found)
                          ELSE IF f \in found THEN AbsentItem
                          ELSE L.items[f]],
             !.moves = @ \cup {[from |-> f, to |-> new, pid |-> L.items[f].pid] :
                                 f \in found \ ({new} \cap {s})}]

-----------------------------------------------------------------------------
(* The three branches of the instance loop of apply_ledger. *)

NewItem(pid, i) ==
  [AbsentItem EXCEPT !.pid = pid, !.status = "open", !.seen = scanNo,
                     !.odd = Detected(i)]

Minted(L, i) ==
  [L EXCEPT !.items[FpOf[i]] = NewItem(AssignedId(L, FpOf[i]), i)]

\* Mutant: the closed row is replaced, not kept.
ReopenedOver(L, i, n) ==
  [L EXCEPT !.items[FpOf[i]] =
     [NewItem(<<@.pid[1], n>>, i) EXCEPT !.status = "reopened",
                                         !.prior = L.items[FpOf[i]].pid]]

\* A closed row stays on the closed list; the weakness is back under -Rn.
Reopened(L, i, n) ==
  LET f == FpOf[i]
      old == L.items[f]
  IN [L EXCEPT
        !.closed = @ \cup {[pid |-> old.pid, fp |-> f, evid |-> old.evid]},
        !.items[f] = [NewItem(<<old.pid[1], n>>, i) EXCEPT
                        !.status = "reopened", !.prior = old.pid]]

\* Mutants: the detection date follows the scan; misses are not forgotten.
RefreshedRedated(L, i) ==
  [L EXCEPT !.items[FpOf[i]] = [@ EXCEPT !.odd = Detected(i), !.seen = scanNo]]
RefreshedCounting(L, i) ==
  [L EXCEPT !.items[FpOf[i]] = [@ EXCEPT !.seen = scanNo]]

Refreshed(L, i) ==
  LET f == FpOf[i]
      old == L.items[f]
  IN [L EXCEPT !.items[f] =
        [old EXCEPT
           !.seen = scanNo, !.missed = 0,
           !.odd = IF old.odd = NotRecorded THEN Detected(i) ELSE old.odd,
           !.status = IF old.status = "pending_verification"
                        THEN "open" ELSE old.status]]

Rules(pid, what) == [pid |-> pid, what |-> what] \in overrides

\* _apply_override: whether the row waits on a vendor once its rule is applied.
Vendor(it) == Rules(it.pid, "vdYes") \/ (it.vd /\ ~Rules(it.pid, "vdNo"))

\* The override block: vendor dependency first, then closure with evidence
\* unless the row waits on a vendor.
Ruled(L, f) ==
  LET it == L.items[f]
      vd == Vendor(it)
      closing == Rules(it.pid, "close") /\ ~vd
  IN [L EXCEPT !.items[f] =
        [it EXCEPT !.vd = vd,
                   !.evid = closing \/ it.evid,
                   !.status = IF closing THEN "closed" ELSE it.status]]

\* _alias_merged_away_items, for one record: the rows folded into it, and the
\* document after; d is the earliest detection date among them.
Away(L, i) == {f \in Absorbs[i] \ SeenFps : f # FpOf[i] /\ f \in LiveRows(L)}

FoldDates(L, i) ==
  LET odds == {L.items[f].odd : f \in Away(L, i) \cup {FpOf[i]}}
  IN {d \in odds : \A e \in odds : d <= e}

Folded(L, i, d) ==
  LET new  == FpOf[i]
      away == Away(L, i)
      ids  == {L.items[f].pid : f \in away}
                \cup UNION {L.items[f].aliases : f \in away}
  IN IF new \notin Present(L) \/ away = {} THEN L
     ELSE [L EXCEPT
             !.items = [f \in Fp |->
                IF f = new
                  THEN [L.items[new] EXCEPT
                          !.aliases = @ \cup (ids \ {L.items[new].pid}), !.odd = d]
                ELSE IF f \in away THEN AbsentItem ELSE L.items[f]],
             !.moves = @ \cup {[from |-> f, to |-> new, pid |-> L.items[f].pid] :
                                 f \in away}]

\* Mutant: the second covered miss closes the row.
MissedCloses(it) ==
  [it EXCEPT !.missed = 1, !.status = IF it.missed = 1 THEN "closed" ELSE @]

\* The sweep over rows this scan did not see.
Missed(it) ==
  LET misses == IF it.missed < MissesToPending THEN it.missed + 1 ELSE it.missed
  IN [it EXCEPT !.missed = misses, !.rescans = @ \cup {scanNo},
                !.status = IF misses >= MissesToPending
                             THEN "pending_verification" ELSE @]

Swept(L) ==
  [L EXCEPT !.items = [f \in Fp |->
      IF f \in LiveRows(L) \ SeenFps /\ ~L.items[f].vd /\ Covered(f)
        THEN Missed(L.items[f]) ELSE L.items[f]]]

-----------------------------------------------------------------------------
(* What load_ledger_file makes of a file, and run_ledger of the choice     *)
(* between in/ and out/.                                                   *)

Prior == IF inFile.kind # "missing" THEN inFile ELSE outFile

\* Mutant: what cannot be read is an empty ledger and nothing is said.
LoadedQuietly(file) ==
  [file.doc EXCEPT !.warn = @ \cap {"LEDGER_CHAIN_BROKEN"}]

Loaded(file) ==
  CASE file.kind = "missing" ->
         [EmptyLedger EXCEPT !.warn = IF surfaces THEN {"LEDGER_LOST"} ELSE {}]
    [] file.kind = "torn" ->
         [EmptyLedger EXCEPT !.warn = {"LEDGER_CHAIN_BROKEN"}]
    [] file.kind = "intact" ->
         [file.doc EXCEPT !.warn = @ \cap {"LEDGER_CHAIN_BROKEN"}]
    [] file.kind = "edited" ->
         [file.doc EXCEPT !.warn = {"LEDGER_CHAIN_BROKEN"}]

\* Ids a document still accounts for: on a row, as an alias, on the closed
\* list or in fp_migrations.
Accounted(L) == UsedIds(L) \cup {m.pid : m \in L.moves}

Init ==
  /\ inFile = NoFile /\ carried = TRUE
  /\ outFile \in Seeds
  /\ surfaces = (outFile.kind # "missing")
  /\ overrides = {}
  /\ scan = {} /\ scanNo = 0 /\ loaded = TRUE
  /\ pc = "idle" /\ round = 1
  /\ mem = EmptyLedger /\ todo = {}
  /\ issued = Accounted(outFile.doc)

(* The loader process. *)

Load ==
  /\ pc = "idle" /\ scanNo > 0
  /\ ~loaded \/ "rerun" \in Env
  /\ mem' = Loaded(Prior)
  /\ pc' = "observe" /\ round' = 1 /\ todo' = scan
  /\ UNCHANGED <<files, inputs, issued>>

\* One turn of the instance loop: migrate, then mint, reopen or refresh, then
\* the override block.
Observe(i) ==
  /\ pc = "observe" /\ i \in todo
  /\ \E s \in IF Found(mem, i) = {} THEN {FpOf[i]} ELSE Oldest(mem, Found(mem, i)) :
       LET L == Migrated(mem, i, s, Found(mem, i))
           f == FpOf[i]
       IN \/ /\ L.items[f].status = "absent"
             /\ mem' = Ruled(Minted(L, i), f)
          \/ /\ L.items[f].status = "closed"
             /\ \E n \in ReopenSuffix(L, L.items[f].pid) :
                  mem' = Ruled(Reopened(L, i, n), f)
          \/ /\ L.items[f].status \in Live
             /\ mem' = Ruled(Refreshed(L, i), f)
  /\ todo' = todo \ {i}
  /\ UNCHANGED <<files, inputs, issued, pc, round>>

EndObserve ==
  /\ pc = "observe" /\ todo = {}
  /\ pc' = "fold"
  /\ todo' = {i \in scan : Absorbs[i] # {}}
  /\ UNCHANGED <<files, inputs, issued, round, mem>>

Fold(i) ==
  /\ pc = "fold" /\ i \in todo
  /\ \E d \in FoldDates(mem, i) : mem' = Folded(mem, i, d)
  /\ todo' = todo \ {i}
  /\ UNCHANGED <<files, inputs, issued, pc, round>>

Sweep ==
  /\ pc = "fold" /\ todo = {}
  /\ mem' = Swept(mem)
  /\ pc' = "persist"
  /\ UNCHANGED <<files, inputs, issued, round, todo>>

\* persist_ledger: write_text truncates the file, then fills it.
PersistBegin ==
  /\ pc = "persist"
  /\ outFile' = TornFile
  /\ pc' = "writing"
  /\ UNCHANGED <<inFile, carried, surfaces, inputs, issued, round, mem, todo>>

PersistEnd ==
  /\ pc = "writing"
  /\ outFile' = Intact(mem) /\ carried' = FALSE
  /\ issued' = IF mem.warn = {} THEN issued \cup Accounted(mem) ELSE Accounted(mem)
  /\ IF round = 1 THEN pc' = "rollup" /\ loaded' = loaded
                  ELSE pc' = "idle" /\ loaded' = TRUE
  /\ UNCHANGED <<inFile, surfaces, overrides, scan, scanNo, round, mem, todo>>

\* poam.csv and its siblings are written, apply_rollups stamps the rows (no
\* field of this model) and the ledger is written a second time.
Rollups ==
  /\ pc = "rollup"
  /\ surfaces' = TRUE
  /\ pc' = "persist" /\ round' = 2
  /\ UNCHANGED <<inFile, outFile, carried, inputs, issued, mem, todo>>

Crash ==
  /\ "crash" \in Env /\ pc # "idle"
  /\ pc' = "idle" /\ round' = 1 /\ mem' = EmptyLedger /\ todo' = {}
  /\ UNCHANGED <<files, inputs, issued>>

(* The operator, between runs. *)

DropScan(recs) ==
  /\ pc = "idle" /\ loaded /\ scanNo < MaxScans
  /\ "discipline" \in Env => carried
  /\ recs # {} /\ \A i, j \in recs : Epoch[i] = Epoch[j]
  /\ "regress" \notin Env => \A i \in recs, j \in scan : Epoch[j] <= Epoch[i]
  /\ scan' = recs /\ scanNo' = scanNo + 1 /\ loaded' = FALSE
  /\ UNCHANGED <<files, run, overrides, issued>>

\* carry_prior_ledgers, or a plain copy of out/ over in/.
Carry ==
  /\ "carry" \in Env /\ pc = "idle" /\ loaded
  /\ outFile.kind # "missing"
  /\ inFile' = outFile /\ carried' = TRUE
  /\ UNCHANGED <<outFile, surfaces, inputs, run, issued>>

WriteOverride(f, what) ==
  /\ what = "close" => "close" \in Env
  /\ what # "close" => "vendor" \in Env
  /\ pc = "idle" /\ loaded /\ f \in LiveRows(outFile.doc)
  /\ LET id == outFile.doc.items[f].pid
     IN overrides' = {o \in overrides : o.pid # id}
                       \cup {[pid |-> id, what |-> what]}
  /\ UNCHANGED <<files, scan, scanNo, loaded, run, issued>>

\* The next scan arrives without the old overrides.csv.
ClearOverrides ==
  /\ "clear" \in Env /\ pc = "idle" /\ loaded
  /\ overrides' = {}
  /\ UNCHANGED <<files, scan, scanNo, loaded, run, issued>>

\* The operator closes a row in the carried file by hand, and re-signs the
\* file or not.
EditClosed(f, signed) ==
  /\ "edit" \in Env /\ pc = "idle" /\ loaded
  /\ inFile.kind = "intact" /\ f \in LiveRows(inFile.doc)
  /\ inFile' = [kind |-> IF signed THEN "intact" ELSE "edited",
                doc |-> [inFile.doc EXCEPT !.items[f] =
                           [@ EXCEPT !.status = "closed", !.evid = TRUE]]]
  /\ UNCHANGED <<outFile, carried, surfaces, inputs, run, issued>>

\* The ledger file goes missing; the other outputs stay.  Where there are none
\* yet (a first run died before poam.csv) this is a fresh installation.
LoseLedger ==
  /\ "lose" \in Env /\ pc = "idle" /\ outFile.kind # "missing"
  /\ outFile' = NoFile
  /\ issued' = IF surfaces THEN issued ELSE {}
  /\ UNCHANGED <<inFile, carried, surfaces, inputs, run>>

Loader ==
  \/ Load \/ EndObserve \/ Sweep \/ PersistBegin \/ PersistEnd \/ Rollups
  \/ \E i \in Inst : Observe(i) \/ Fold(i)

Operator ==
  \/ \E recs \in SUBSET Inst : DropScan(recs)
  \/ Carry
  \/ LoseLedger
  \/ ClearOverrides
  \/ \E f \in Fp :
       \/ \E what \in Rulings : WriteOverride(f, what)
       \/ \E signed \in BOOLEAN : EditClosed(f, signed)

Next == Loader \/ Crash \/ Operator

Spec == Init /\ [][Next]_vars
=============================================================================
