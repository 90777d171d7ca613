# Verification of grc-collector-pack

TLA+ models of the parts of the pack that keep state or derive the documents
auditors rely on, the TLC runs that check them on small instances, and TLAPS
proofs of what matters most for every instance. Everything here is translated
from the code under `src/`; `PROJECT.json` gives for every definition the lines
it stands for, lists the hazards of the code at their lines, and names for each
property a plausible bug that breaks it.

The pack turns scan output lying in `in/` into a remediation plan and its
evidence under `out/`. Most of its code is pure (parsers, mappings, tables,
pages). The state that lives from run to run is small: two ledgers of
identities, the files one command leaves for the next, the console that decides
which directory a request reads or writes, and the work directories of the drop
box and of the KEEP lab.

## 1. Inventory

| part | state it keeps | operations | hard behaviour | correct when |
|---|---|---|---|---|
| **POA&M id ledger** `shared/poam_ledger.py` | `poam-ledger.json` under `in/` and `out/`: items by fingerprint, closed rows, fp_migrations, warnings; `overrides.csv` | mint, migrate and merge, reopen, refresh, override, fold, sweep, load, persist, carry | documents outlive code versions; the file is truncated and rewritten twice a run; an operator edits, carries and loses files; reruns | an id names one weakness for ever, nothing closes by itself, no id vanishes unannounced |
| **POA&M plan derivation** `collectors/grc_loader.py`, `shared/hardening_dedup.py`, `port_fold.py`, `egp_collapse.py`, `poam_rollup.py`, `control_map.py` | `poam.csv`, `excluded.csv`, the ledger's `excluded_reason` | three merges, decisions, repeats, port fold, twin collapse, binding, carried rows, accounting | each step changes what the next one sees; ids may be older than the hash the step computes | a weakness has one row, an alias leads to a row, every record is accounted for, silence removes nothing |
| **Asset identity ledger** `shared/asset_ledger.py`, `asset_ids.py` | `asset-ledger.json`: assets with dated aliases, status, absence counter | observe (match, renew, reassign), late merge, operator merge / split / replaces, close_run, save | identifiers move between hosts; the order of records; merges after matching | one asset per host, one host per asset, retired only when missed |
| **Loader run** `collectors/grc_loader.py` `_load` | none of its own; drives both ledgers in one order | load, observe, plan, close | death between the two files; reruns; a mixed pair of ledgers carried | a finding keeps its id |
| **Collector runtime** `shared/io_util.py` | `<sensor>.jsonl` and its status under `out/canonical` | load inputs, substitute fixtures, name issues, report status | a file that is corrupt, partial, of a strange shape, a sidecar or a duplicate copy | a status says what was read, fixtures carry the demo stamp |
| **File-drop run** `dropbox/orchestrator/ciso_path.py`, `scripts/prove_ciso.py`, `scheduler.py`, `product/server.py` `run_collectors` | staged copies, canonical records and ledgers under `out/` that outlive a command | ciso, write-pack-in, prove with and without prior ledgers, refresh | files of earlier commands, `in/` edited between two collectors, a child that dies, banners | what is published is of this run, labelled, its gaps named |
| **KEEP lab** `keep/`, MCP tool `keep_ciso` in `dropbox/mcp_stub.py` | a work directory: landed files, canonical records, register, handoff, `keep-lab.json` | wipe, choose sources, land, collect, label, load, export, judge, retry | calls overlap in one directory and wipe each other's trees; the pack is edited meanwhile | ok means a whole bundle of one attempt |
| **Operator console** `product/server.py` | `OUT_DIR` of the process, `sys.modules` | switch, refresh, read; one thread per request | threads share the environment | reload-only directories are never written; a refresh is of one run |
| **Dropbox orchestrator** `dropbox/orchestrator/` | worker farm of a run; result files, plans and summaries under a work directory that outlives runs | discover, deepen, external, ingest | gates, caps, results of earlier runs, tools that time out, a run that ends half way | no tool outside SCOPE, no worker after its stage, what a run produced arrives, reports belong together |
| **Scope gate** `dropbox/scope.py`, `run.py`, `runners.py` | `SCOPE.yaml`, the consent file | allow or refuse a target and its ports, revoke, `attest --write` | stale SCOPE, a file caught half written | nothing runs on a target outside it |
| **Live web and TLS probes** `shared/web_tls_live.py` | one binding per process; a snapshot and a canonical file | preflight, TCP, HTTP, TLS, SSH probes | SCOPE, consent, date and DNS change between a check and its connect; two threads; refusals in the middle | every connect is covered by one SCOPE text, a change takes effect, the binding comes back |
| sensor parsers, framework tables, estate stamp, farm adapters, exporters, scripts | files written once | conversions | – | – |

How they interact: the orchestrator's scans, the operator's drops or the KEEP
files land in an `in/`; collectors (child processes, or modules inside the
console) write canonical records; the loader resolves the assets (asset ledger),
merges weaknesses, applies the findings to the POA&M ledger, writes plan, tables
and summary, and closes the asset ledger's run. The operator moves the ledgers
from `out/` to `in/` by hand, with `carry_prior_ledgers` or `prove --prior-out`.

## 2. Modules

| module | what it is |
|---|---|
| `PoamLedger` | the POA&M ledger, the loader process around it, the operator |
| `PoamProps` | its properties, shared by runs and proofs |
| `PoamIdLifecycle` | abstract specification: what may happen to an id from one published document to the next |
| `PoamPlan` | from the records of a scan to `poam.csv` and `excluded.csv`, over runs |
| `AssetLedger` | the asset ledger over loader runs |
| `LoaderRun` | extends `AssetLedger`: one installation with both ledgers |
| `Collector` | one sensor's collector as operators; no state. Used by `FileDrop` (EXTENDS) and `KeepWork` (`Runtime == INSTANCE`) |
| `FileDrop` | the commands from dropped files to the register |
| `KeepWork` | calls of the KEEP lab in their work directories |
| `LiveProbe` | live probe runs behind the SCOPE gate, and the gate |
| `ProductConsole` | the console |
| `Orchestrator` | runs of the orchestrator in one work directory |
| `MC...` | instances for TLC |
| `PoamLedgerProofs`, `PoamPlanProofs`, `AssetLedgerProofs`, `FileDropProofs`, `KeepWorkProofs`, `LiveProbeProofs`, `ProductConsoleProofs`, `OrchestratorProofs` | TLAPS proofs |

Operators whose comment says "Mutant" are wrong variants of the definition that
follows them. No action uses them: each is a plausible bug that a property must
be able to see.

### PoamLedger

State: `inFile`, `outFile` are the two ledger files, each missing, torn, intact
or edited (hash does not match) with the document in it; `mem` the document in
the loader's memory; `scan` the records in `in/`; `overrides` the rows of
`overrides.csv`; `pc`, `round`, `todo` the place in `apply_ledger` and which of
the two writes comes next. `issued` is a history variable: ids a document under
`out/` published and no later one announced lost. `carried` and `loaded` say
what the operator has done since the last run.

| action | code |
|---|---|
| `Load` | `run_ledger`: `in/` before `out/`; `load_ledger_file` with its warnings |
| `Observe(i)` | one turn of the instance loop of `apply_ledger`: `_migrate_if_needed`, then mint, reopen or refresh, then the override block |
| `Fold(i)` | `_alias_merged_away_items` for one record |
| `Sweep` | the loop over unseen rows |
| `PersistBegin`, `PersistEnd` | `persist_ledger`: `write_text` truncates, then fills |
| `Rollups` | tables are written, `apply_rollups`, second write |
| `Crash` | the process dies anywhere |
| `DropScan`, `Carry`, `WriteOverride`, `ClearOverrides`, `EditClosed`, `LoseLedger` | the operator between runs |

A fingerprint is a model value and an id a pair of hex core and `-Rn` suffix.
Which older fingerprints a record answers to, which it is near to, and which
rows its weakness absorbed are constants, since they are pure functions of the
records. `Covers` abstracts `build_coverage`: the places a record proves were
scanned. Dates are scan numbers. Records are observed in any order: the code
follows the order of the files, which is not fixed. Which environment steps an
instance allows is the constant `Env`: `crash`, `lose`, `close` (override rows
that close), `vendor` (vendor-dependency rows), `clear`, `carry`, `edit` (the
operator closes a row in the carried file), `rerun` (the loader is started again
on the same scan), `regress` (an older identity scheme comes back) and
`discipline` (a new scan only after `out/` was carried).

### PoamPlan

State: `scan` the records of the run, `kept` and `gone` what the merges kept and
merged away, `decided` the decisions in their order, `plan` and `excluded` the
two files, `ledger` what the plan reads of a ledger item (id, last ref_id,
closed, off the plan).

| action | code |
|---|---|
| `Read` | `_load`: `_dedupe`, `dedupe_weaknesses`, `dedupe_hardening` (`Merged("exact", ...)`, `Issues`, `Merged("control", ...)`, with three notions of "the same" in `Slot` and `Joins`) and the merge audit |
| `Decide` | `poam_decision` per row (`Own`), then `_apply_e1`, `_apply_port_fold`, `collapse_same_egp` in this order |
| `Publish` | `apply_ledger` as far as the plan reads it (`Applied`), `bind_alias_targets_to_ledger` (`Bind`), `write_poam` with carried rows (`Carried`), merged-away rows (`Extras`), `assert_input_export_accounting` (`Accounts`), and the second write of the ledger |
| `Die` | the process dies after `run_ledger`, with the two files written or not |

The loops of the code are written as what they leave: a merge keeps the entries
that are not `Lost` at their places in the scan, a collapse names its `Winner`.
A ranked list is the relation `Before` on those places. TLC checks that and the
provers can use it, which folds over sequences they cannot.

What a record is (its ref_id, the keys the merges use, severity, port, whether
it is telemetry or port-only, the branch of `poam_decision` it takes) is data of
the instance, because those are pure functions of the record. What the steps do
with it is the model. A ref_id is a slug: two records of one scan may share it, and
nothing in the loader keeps them apart. `ByRef` is the loader's lookup by ref_id as
it is, the item listed last (`born` is its place); `RefsApart` says that no two
records of a scan share one, and is the hypothesis of the theorems that need it,
while `PoamPlanShared` is a scan in which two do. The decisions and aliases of a
scan are kept per record; the code keeps some of them per ref_id
(`decision_by_ref`, the port fold's map), which is the same where `RefsApart` holds. `closing` is what `overrides.csv` may close in the run.

### AssetLedger and LoaderRun

State of `AssetLedger`: the assets of the two ledger files and in memory, the
operator's override row, the records still to observe, `observed` (`_observed`)
and `stamped` (the uid each record carries). An asset's uid is its position,
which is the order the code searches in. `Drop`, the filter of `_expire_alias`, is
a recursive function over the places of a sequence. `Begin` is load and `apply_overrides`;
`Observe(r)` all of `observe` (match on the ladder with lease and stronger
conflict, renewal, alias refresh, reassignment); `LateMerge` one turn of
`late_merge_pass`; `Attach` the re-stamping at the end of `attach_asset_uids`;
`CloseRun` `close_run` and `save`, with the run's families as the loader
computes them, from the records left after merging. The ladder is cut to one
identifier per kind of rule: an agent id (also for uuid and bios_uuid), MACs,
one FQDN, addresses, a short name. `_maybe_split` is not there because it cannot
act: it asks for a differing MAC or FQDN after having returned for any asset
with a MAC or FQDN.

`LoaderRun` adds the POA&M rows keyed by weakness and host (`inPlan`,
`outPlan`), where a run stands between its two files (`planned`), whether the
files under `out/` and `in/` are of one complete run (`outWhole`, `inWhole`),
and history variables for the ids of the last runs. A fingerprint is the weakness
and the host's uid, an id the fingerprint with ten or twelve of its digits.

| action | code |
|---|---|
| `LBegin`, `Rerun` | `_load` on a new scan, or started again on what lies in `in/` |
| `LObserve`, `LLateMerge`, `LAttach` | the asset side, unchanged |
| `Plan` | `run_ledger`: uids of the findings (`HostUid`), migration of rows found under the record's own older key (`Applied`), minting, the write of the POA&M ledger |
| `LCloseRun` | the asset ledger is written: the run is complete |
| `Die`, `TearSave` | death anywhere; death inside `save`, whose file `load` takes for empty |
| `LCarry` | `carry_prior_ledgers`: both files |

### Collector and FileDrop

`Collector` says what one collector makes of the files in its folder: which
records, which issues it names, whether it substitutes `fixtures/demo`, its
status, and the demo stamp (`Records`, `Issues`, `Substitutes`, `Status`,
`Stamps`, together `Collected`). `Kind[f]` is what the sensor's parser does with
a file: rows, part of the rows, nothing, an exception, an unrecognised shape, a
sidecar, a suffix it does not read. `EstateHint` is `estate_hint`: environment
label, banner, sample flag.

State of `FileDrop`: `drop`, `banner` the tree of `in/`; `stage` the copies under
`out/in`; `canon`, `register` the collectors' and the loader's files;
`inLedger`, `stageLedger`, `outLedger` the runs recorded in the POA&M ledger at
its three places; `run` the command in progress, `result` what the last one
returned. `run.todo` is the set of sensors still to visit; `Order` says which is
next (`IsNext`).

| action | code |
|---|---|
| `Ciso` | `run_ciso_path` up to the first collector: in place or staged, `_land_keepmin`, `_land_nmap_pass_dirs`, `_carry_ledger_state`, the sample flag, `unread_sensor_dirs` |
| `Prove` | `prove_ciso --use-existing-in`, with `--prior-out` or without: guards, prior ledgers, a new `out/`, then `run_ciso_path` |
| `Refresh` | `run_collectors` over every sensor |
| `Collect`, `CollectorDies` | one collector process, with what it leaves when it dies |
| `Load`, `LoaderDies` | the loader process |
| `Blame`, `Return` | the fingerprint of the pack's `in/`; the answer |
| `AddFile`, `RemoveFile`, `SetBanner`, `MoveLedger` | the operator, at any moment |

Ledgers below the directory read are no input (`AnyInput`): `SKIP_INPUT_NAMES` skips
them, so a collector substitutes fixtures beside a carried ledger as in an empty
directory. A sample is told in two ways, and `IsSample` has both: the rows of this
drop by the markers of `keepmin` (`Marked`), the tree by `SAMPLE.txt` and texts that
say SAMPLE or DEMO in so many words (`Bannered`), the client's name by DEMO in it
(`DemoClient`). A marker in a copy that an earlier drop left is seen by neither;
`FileDropMarker` shows such a copy called a client's. `detect_family` takes no file
that has a family by its KEEP shape (`KeepShaped`) below `LAB.txt`.

### KeepWork

State per work directory: `landed` (files and banner), `canon`, `register`,
`bundle` (handoff and sinks), `stamp` (`keep-lab.json`); per call a `job` record
(its place, what it saw of the pack, its retries) and its `answer`. A file
carries a tag, the call and attempt that wrote it. `pack` is the pack's `in/`,
edited meanwhile.

| action | code |
|---|---|
| `Start`, `Before` | the command line or `keep_ciso`, its fingerprint and first wipe |
| `WipeIn`, `WipeOut` | `wipe_work_trees`, tree by tree |
| `Look`, `Choose`, `Land` | fingerprint, `_choose_sources`, `land_keep_files` |
| `Collect`, `Label`, `Load`, `Export` | the child processes, `_stamp_sample_labels`, the sinks |
| `Judge` | the checks behind `ok`, `keep-lab.json`, and the retry after missing CSVs |
| `Answer`, `Raise`, `Die` | the answer; an exception, which `keep_ciso` retries once; death |
| `Edit` | the operator changes the pack's `in/` |

### LiveProbe

State: `scopeFile` and `consent` the two files, `today`, `dns`; `attest` a
`dropbox attest --write` in progress; `holder` the thread inside `_bind_scope`;
per thread a `job` with its place and locals (the probes still to do, the SCOPE it
is bound to, the one it has just loaded, the addresses it was given); `snapshot`
and `canonical` the two results; `late` counts connects, since the last change of
SCOPE, consent or date, that these no longer permit. A SCOPE text is what the gate
reads of it: client, stamp, window, revocation, ports, hosts. `Empty` stands for a
file that is missing, torn or does not parse, and consent texts are their digests.

| action | code |
|---|---|
| `Start` | `run_live` with a target and ports |
| `RefuseDemo`, `Load`, `Hash`, `Recheck` | the readings of `run_live` and `_require_bound_scope` in their order: `_refuse_demo_scope`; the text; `load_scope`'s consent digest, window and revocation (`Refusal`); the second look for the DEMO |
| `Bind`, `Unbind` | `_bind_scope` with its `finally`; the first checks of `_preflight` |
| `Resolve` | `resolve_authorized`: name and ports, `getaddrinfo`, the address (`Unauthorised`) |
| `Connect` | the connect of `tcp_open`, `http_exchange`, `tls_probe`, `ssh_banner` |
| `WriteSnapshot`, `WriteCanonical` | the two files, after the binding is given back |
| `EditScope`, `EditConsent`, `Midnight`, `Move` | the operator, the clock, DNS |
| `AttestConsent`, `AttestRead`, `AttestTruncate`, `AttestWrite`, `AttestDies` | `cmd_attest`: digest of the consent file, then `write_attestation_hash`, which reads, truncates and fills SCOPE |

`Work` is the order of the probes of a run. A TLS or SSH probe is authorised
twice: `tls_probe` for its own connect, then `tcp_open` for one in between; its
job goes through three legs. `Refused` tells the refusals `http_exchange` records
as an error row (`Soft`) from those that end the run. `Exchanges` is the number of
HTTP exchanges per URL (six or seven in the code).

### ProductConsole

State: `active` is `os.environ["OUT_DIR"]`, `dir` the content of each directory
as the number of the refresh that wrote each file, `modules` the collectors in
`sys.modules`, `req` where each thread is, `traffic` which requests the instance
lets through at a time. A thread takes one step per read or write of shared
state: `Select` sets OUT_DIR, `ReadEstate` looks the directory up and derives
honesty and mode, `CheckModule`/`DropModule` are the two lines around
`del sys.modules[mod]`, `RunSensor`, `LoadRecords`, `WriteRegister`, `WritePlan` and
`WriteSummary` read or write below whatever OUT_DIR says then. `Raise` is a
collector that throws. A directory is `Ready` when the console has anything to show
of it: a summary, or the counts `_count_identity_summary` adds for a register that
is there without one.

### Orchestrator

State of a run: `pc`, the SCOPE and mode it was started with, the worker `farm`,
the place in the loop over shards (`at`) or the hosts still to be batched
(`hosts`), and `left`, how many workers may still run live. State that outlives
runs: `gnmap` and `txt`, the result files of discover and deepen workers, each
with the run that wrote it; `inbox`, the copies in the pack's `in/` and in a
directory given as `IN_DIR`; `report`, the run that wrote each plan or summary;
`drops`, files the operator landed in the pack's `in/`. `launched` is a history
variable: what tools were pointed at.

| action | code |
|---|---|
| `Begin` | `orchestrate` with what `load_scope` returned |
| `DiscoverGated`, `DiscoverPlan`, `DiscoverShard`, `DiscoverEnd` | `discover_stage`: its early return, what precedes its loop, a turn, the `finally` |
| `DeepenRefused`, `DeepenGated`, `DeepenPlan`, `DeepenBatch`, `DeepenEnd` | `collect_discover_hosts` and `deepen_stage` in the same way |
| `External` | `external_stage` (plan only) |
| `Ingest`, `Copy`, `IngestBlamed`, `Finish` | `ingest_stage` cut where the operator's files can land: fingerprint, copy, second fingerprint; then the summaries |
| `Interrupt`, `Die` | Ctrl-C in a worker (the `finally` runs), death of the process |

`Outcomes` of a tool are: it ran, whatever it returned; it outran
`host_timeout_sec`; it did not start. `run_allowed` leaves its file filled,
emptied or untouched in turn. A tool interrupted while it runs is a turn that did
not start it followed by `Interrupt`. Slot tables and argv are abstracted to
`ready`: some slot is allowlisted, on PATH and accepts the probe. The re-check of
the hosts within a batch and the two "still alive" errors of `orchestrate` cannot
act; `NeverOutsideScope` and `WorkersTornDown` prove the facts behind that.

## 3. Runs

All runs are exhaustive. `CHECK_DEADLOCK FALSE` stands where the bound on scans,
runs or calls ends the behaviour; the console never ends and is checked for
deadlock.

| run | states | asks |
|---|---|---|
| `liveRuns` | 144k | one run with two changes of its surroundings, or two threads, two targets and one change: every connect covered by one SCOPE text, at most two connects after a change that forbids them, every run ends and gives the binding back |
| `poamStable` | 182k | two rows that share their ten hex digits, two records of one row, crashes, lost files, closures, three scans: are ids distinct, does nothing close or vanish by itself, and is every published document a step of `PoamIdLifecycle`? |
| `poamUpgrade` | 169k | four fingerprints of two identity schemes, with merge, location match and fold: lineage of reopened rows, detection dates never move later |
| `poamCarry` | 227k | a disciplined operator over four scans: two different rescans before a row waits for verification |
| `poamPlan` | 38k | two loader runs over the records of eight groups in every order and subset, with an old ledger, closings and deaths: one row per weakness and per id, aliases that land, every record accounted for, nothing dropped by silence |
| `assetOrders` | 496k | two hosts, two addresses, an agent and a scanner, three runs, without an operator's row or with one of two: no host with two assets and no asset with two hosts unless the operator joined them, stamps are active, only covered assets age |
| `loaderRun` | 398k | three scans of a home network (a host that keeps its address, one that roams) with deaths at any point, torn files, reruns and carrying: which id a finding has |
| `fileDropRuns` | 568k | two commands of five kinds in one `out/`, any drop of six files, one edit at any moment, dying children: labels, freshness, coverage, gaps, carried ledgers |
| `keepRuns` | 95k | one call while the pack is edited twice (once over four packs), an MCP call beside a run in `keep/work`, two runs there at once, one exception or death: what an ok answer is worth, and that every call ends |
| `consoleRuns` | 83k | one client that switches, refreshes and reads, or two threads that refresh and read: reload-only directories stay untouched, a refresh that ran the collectors is of one run, every request ends |
| `orchRuns` | 669k | two runs under any two of four SCOPE files, live or not, writing or not: tools in SCOPE, tear-down, results and reports of a completed run, and every run ends |
| `loaderRoam` | violation | see below |

The bounds are enough in this sense: two rows are the least that can collide,
merge or exchange addresses; three scans are the least for mint, miss, miss or
mint, close, reopen; suffixes go to 2 so that the second reopening happens; two
threads or calls are the least that race; two runs or commands are the least in
which one leaves files for another; the four SCOPE files differ in shards, named
hosts, gates and caps, with more shards or batches than may run live among them;
the six dropped files have every outcome of a parser that changes control, two of
one name and two that the second-pass and folder rules treat differently; each
group of `poamPlan` makes one merge or fold act, and the groups of three let two
act on each other; the five SCOPE texts of `liveRuns` are a client's, the same
revoked, narrowed to one address and port, or signed for another consent with a
longer window, and the pack's DEMO, so that an edit can meet every refusal. Every mutant listed in `PROJECT.json` is found within them.

In `assetOrders` hosts have agent ids, addresses and one MAC; records that know a
short name only are outside it and break `NoConflation`, see below. `OneHolder`
too is about such estates: where a short name joins two hosts, their common
address can stay on both. `loaderRun` has a lease longer than the run of scans:
with a lease that ends, `RowsNameAssets` fails because a twin merged late is
retired (`AssetTwinRetired`).

**A run that ends in a violation.** `loaderRoam` checks "Never remint a surviving
EGP- ID" (`SameAssetSameId`). Two hosts take over each other's address. A row is
found under the record's own older key as well as under its uid, and
`_may_claim_legacy_fp` gives an old key to the first record that answers to it:
after both ledgers were carried, loading the scan a second time gives the row's
id to the other host's finding and mints a new id for the row's own.

**Further counterexamples** come from the same models. TLC reports the named
property violated with the `.cfg` of that name, or with the run and the constants
given:

* `ConsoleHalfLoaded` (`BootstrapCollects`, "Refresh re-runs DEMO collectors on local
  files unless honesty is LAB / use-existing-in", `product-lab/OPERATOR.md:25`): the
  loader of a first refresh raises between its register and `summary.json`. The
  directory then has counts to show, so `estate` calls it ready, and no summary that
  says DEMO: `refresh_mode_for` answers reload, now and ever after.
* `FileDropMarker` (`NoMarkedClient`, fixtures "must not flip client_keep just because
  they lack the keep-samples banner", `keep/adapters.py:37`): a copy of
  `fixtures/demo/cloud/prowler.json` that an earlier drop left in `out/in` has a
  marker of the fixtures and no banner. It is no row of the next drop and the tree is
  searched for banners only, so the run that reads it answers client_keep.
* `PoamPlanShared` (`OneRowPerId`, ids of different fingerprints differ,
  `shared/poam_ledger.py:911`): results of one SARIF rule in `a/b.py` and `a-b.py`
  share a ref_id. The ledger gives each an id, the loader looks its items up by
  ref_id, and both rows get the later item's.
* `PoamMergedAway` (`ClosedStays`): `_migrate_if_needed` merges closed rows like
  live ones, and the closed row is on no list afterwards.
* `PoamClosedAgain` (`ClosedIdNotLive`): a reopened row migrates; the next record
  with its old fingerprint is minted live under the id on the closed list,
  because `assign_poam_id` takes a holder with the same fingerprint for itself.
* `PoamAliasAgain` (`AliasNotReused`): the twelve-digit fallback of
  `assign_poam_id` is not looked up and hands out an id that is an alias. In
  `LoaderRun` the same gap lets two rows share an id once a mixed pair of ledgers
  left by a crash was carried.
* `PoamRerun` (`PendingMeansTwoRescans`): a rerun counts the same miss twice.
* `PoamPlanFullPlan` (`FullPlan`, "Default (full) plan includes every non-info,
  non-honeypot weakness", `shared/control_map.py:2457`): a bare open port of high
  severity gives way to an informational detection on the same port, which is off
  the plan itself.
* the same instance (`RatedHighest`): the exact and the hardening merge keep
  the first record's severity, though a later one was rated higher.
* `LoaderCard` (`SteadyHostSameId`): a host seen through two network cards whose
  identifiers join two assets changes the id of its finding. It is `loaderRun` with
  `CardIds` and `CardScans` for its records and scans.
* `ConsoleSwitchDuringRefresh` (`ReloadOnly`): a switch during a refresh makes the
  remaining collectors write into a LAB directory.
* `consoleRuns` with the traffic `TwoSwitches` (`SelectAnswersItsOut`): two switches
  race, one answer carries the other's honesty.
* `AssetTwinRetired` (`SeenNotRetired`): an asset whose record is in the scan is
  retired: `merge` does not carry the uid in `_observed` over to the kept asset.
* `AssetMergedStamp` (`StampedActive`): two merges in a row leave a record with
  the uid of an asset that is merged itself.
* `AssetMissLost` (`MissCounted`): the loader computes the run's families after
  merging records. A scanner all of whose records were merged into an agent's is
  not a family of the run, so hosts only the scanner knows are never aged.
* `AssetConflated` (`NoConflation`): the short-name fold merges two hosts with
  different agents.
* `OrchBlamed` (`BlamesOwnWrites`): a file the operator lands in the pack's `in/`
  between the two fingerprints ends the run as if ingest had written there.
* the same instance (`DeepensWhatItFound`): hosts a sweep of an earlier run found
  up are deepened as found by discover, because every `*.gnmap` in the work
  directory is read and files of workers with other numbers stay.
* `fileDropRuns` with n1 and k1 for its files (`NoFolderSkipped`; in the hazards
  `FileDropSkipped`): a folder without a collector is not
  refused when detected files elsewhere account for what it holds, although
  `ciso_path.py:286` promises a refusal.
* `FileDropStale` (`EmptySensorsLoadNothing`): a `ciso` run visits the sensors
  with input only and loads every canonical file, so the fixtures of an earlier
  refresh reach its register (labelled demo).
* `KeepStamp` (`StampTrue`): in the shared `keep/work` a `keep-lab.json` that says
  pass outlives the trees a later call empties before it raises or dies.
* `KeepWithdrawn` (`ClientIsSnapshot`): a file swapped and restored during the run
  defeats the comparison of the fingerprints before and after.
* `LiveRuns` with `MissWritesNothing` for its properties ("Any miss prints a clear
  error and exits non-zero. No snapshot is written.", `docs/WEB_TLS_SCOPE.md:51`):
  a miss in an HTTP exchange becomes an error row and both files are written.
* `LiveRuns` with `OneLateConnect` ("SCOPE is re-read before every connect",
  `shared/web_tls_live.py:11`): the last connect of a TLS or SSH probe has no
  reading of its own, so a revocation can be followed by two connects.

**Fairness.** Four runs use it, always weak fairness of the next step of a thread,
process or call (`Proceed`, in `LiveProbe` `Step`). `consoleRuns`: the server gives every request a
thread of its own, the operating system runs threads that can run, and no step of
a request waits for another. `orchRuns`: the steps of the one process; each tool
is a child bounded by `host_timeout_sec`. `keepRuns`: each call is a process that
waits for its own children only. `liveRuns`: every socket call of a probe has a
timeout, and the binding is tried for, never waited for. None is assumed of clients, operators,
exceptions, interrupts or deaths.

## 4. Proofs

The typing of the constants is assumed throughout (`ConstantsTyped`,
`PlanAssumption`, `TelemetryAssumption`, `AssetConstants`, `CollectorAssumption`,
`FileDropAssumption`, `KeepAssumption`, `LiveAssumption`, `ConsoleConstants`,
`OrchestratorConstants`, `ReportsTyped`); TLC evaluates these assumptions in the
runs. Where a theorem has a hypothesis of its own, the table gives it and the
text below says what goes wrong without it.

| theorem | property, and hypothesis | invariant behind it |
|---|---|---|
| **`PoamLedgerProofs`** | | |
| `TypeCorrect` | `TypeOK` | one typing lemma per operator of a run |
| `NeverClosesByItself` | `NeverAutoCloses` | `DocumentsSound` |
| `ReopenedKeepsItsClosedRow` | `LineageKept` | `DocumentsSound` |
| `NothingLostSilently` | `NoSilentLoss`, if `OutIsThePrior` | `Keeping` |
| `TwoMissesBeforePending` | `PendingMeansTwoRescans`, if `OnceEach` | `Scanning` |
| `StableIdsAreDistinct` | `IdsDistinct`, if `StableKeys` | `IdsOwnedIn` each document |
| `ImplementsLifecycle` | `Implements` (refinement of `PoamIdLifecycle`), if `OneLedger` | `Progress` |
| `StableDatesKept` | `DetectionDateKept`, if `OneLedger` | `Progress`, `Dating` |
| **`PoamPlanProofs`** | | |
| `OneRow` | `OneRowPerFp` | none: the last collapse alone guarantees it |
| `OneRowAnId` | `OneRowPerId`, if `RefsApart` | `PlanInv` |
| `AliasesNameRows` | `AliasNamesRow`, if `RefsApart` | `PlanInv` |
| `EveryFindingAccounted` | `Accounted` (action property), if `RefsApart` | `PlanInv` |
| `SilentRowsCarried` | `CarriedOn` (action property) | `PlanInv` |
| `NoAliasCircle` | `AliasesLand`, if `RefsApart` | `PlanInv`, `LinkedInv` |
| **`AssetLedgerProofs`** (of `AssetLedger` and `LoaderRun`) | | |
| `UncoveredKept` | `UncoveredNotAged` (action property) | `Shape` |
| `AgentsNotConflated` | `NoConflation`, if `AgentSite` | `Shape`, `FleetInv` |
| `HostsNotConflated` | `NoConflation`, if `LoneMac` and `NoBareNames` | `Shape`, `LanInv` |
| `AgentsOneHolder` | `OneHolder`, if `AgentSite` | `Shape`, `FleetInv` |
| `AgentsStampedActive` | `StampedActive`, if `AgentSite` | `Shape`, `FleetInv` |
| `AgentsRowsNamed` | `RowsNameAssets`, if `AgentSite` | `SiteInv` |
| `AgentsKeepIds` | `SteadyHostSameId`, `SameAssetSameId` (action properties), if `AgentSite` | `SiteInv`, `PlanInv` of the loader |
| `AgentsRerunKeepIds` | `RerunKeepsIds` (action property), if `AgentSite` | `SiteInv`, `PlanInv` of the loader |
| **`FileDropProofs`** | | |
| `NoUnlabelledFixture` | `FixturesLabelled` | `Labelled` |
| `OwnRunOnly` | `PublishesOwnRun` (action property) | `OwnSoFar` |
| `PriorLedgerCarried` | `PriorCarried` (action property) | `HadIsPrior` |
| `StagedClientIsClean` | `StagedClientClean` | `CleanSoFar` |
| `OkCoversEveryFile` | `CoverageHonest` (action property) | `ToldSoFar` |
| `EveryGapIsNamed` | `GapsNamed` (action property) | `ToldSoFar` |
| **`KeepWorkProofs`** | | |
| `WholeWhenOk` | `OkIsWhole` | `Chain` |
| `PassIsSnapshot` | `ClientIsSnapshot` (action property), if not `Undo` | `CopyInv` |
| **`LiveProbeProofs`** | | |
| `AuthorisedConnects` | `ConnectsAuthorised` | `Known` |
| `LateConnectsBounded` | `FewLateConnects` | `LateInv` |
| **`ProductConsoleProofs`** | | |
| `OneRunAnAnswer` | `RefreshWhole` | `Sane`, `Alone` |
| `FoundEstatesStay` | `ReloadOnly` (action property), if `LoneSwitcher` | `Sane`, `Untouched` |
| **`OrchestratorProofs`** | | |
| `NeverOutsideScope` | `LaunchesInScope` | `Aimed` |
| `WorkersTornDown` | `TornDown` | `Torn` |
| `ReportsBelongTogether` | `ReportsOfOneRun` | `Reporting` |
| `EveryResultLands` | `ResultsLand` | `Landing` |

### The POA&M ledger

*Documents are sound.* `NeverAutoCloses` and `LineageKept` speak of the three
documents in the state (memory, `in/`, `out/`). Both need every row a merge or
fold copies to be sound in the document it goes to, so they are proved together:
`Sound(L)` is kept by each operator (`MigratedSound`, `MintedSound`,
`ReopenedSound`, `RefreshedSound`, `RuledSound`, `FoldedSound`, `SweptSound`,
`LoadedSound`), and files only move between the three places. `SeedsSound` says
that what an installation starts from has itself closed rows with evidence and
lineage.

*Nothing is lost silently.* An id is accounted for when it is on a row, an alias,
the closed list or in `fp_migrations`. `Keeps(L, M)` says that a step of a run
moves no id out of what is accounted for, and that aliases are always in
`fp_migrations` too, since a later merge may drop the row that has them.
`Keeping` says for each place of a run that what was published is accounted for
in memory, or under `out/`, or that a document says history was lost.
`OutIsThePrior`: nobody carries a ledger into `in/`. An older ledger there
precedes the one under `out/`, and the ids minted in between vanish unannounced;
that is the operator's error and no defect of the loader.

*Two misses before a row waits.* `Waits` says of a row that a
counter of one has a rescan since the row was last seen behind it, and a counter
of two, or a row that waits, two different ones. `Scanning` adds that no row the
sweep may still touch has met this scan (`Unswept`), in the document the run
starts from. That is where `OnceEach` is needed: a scan must not be loaded twice
over its own result. After a crash it would be, unless the operator carried the
ledger before every scan (`discipline`). `PoamRerun` is the counterexample with
reruns. `poamCarry` satisfies `OnceEach`.

*Ids are distinct.* `IdsDistinct` is not inductive: minting looks at the holder
of the ten-digit id only, and reopening counts suffixes of the row's core. The
strengthening `IdsOwnedIn` says that a hex core belongs to one row, that a row's
core is its ten or twelve digits, and that a row with a suffix has the plain id
of its core on the closed list. It needs stable keys: no record answers to an
older fingerprint or absorbs another row, twelve digits tell fingerprints apart
and are no fingerprint's ten digits. `PoamAliasAgain` and `PoamClosedAgain` show
that without stable keys ids do collide.

*The lifecycle is implemented.* A published document is compared with the one the
run has read, several steps earlier. So `Progress` follows the relation between
the file under `out/` and memory through the run: before the sweep each id has
moved along the lifecycle and none has begun to wait (`Advances`), rows without a
record in the scan are as they were read; after the sweep the whole step is one
of the lifecycle's (`Evolves`); a torn file is written over by the document that
was to be there. `OneLedger` is `StableKeys`, no carrying, and starting documents
without migrations; `poamStable` satisfies it. With migrations ids
move between rows: on the instance of `poamUpgrade` TLC finds the refinement
violated.

*Dates of detection.* `Dated` is transitive and each operator keeps it; `Dating`
says it of the document under `out/` and the one in memory. With migrations the
property is model-checked in `poamUpgrade` only.

### The plan

`PlanInv` says that every item of the ledger has an id of its own (`OwnIds`) and
is typed, that what is kept and what is gone come from the scan (`FromScan`), and
how
the decisions stand to the records kept (`Settled`): one for each, only findings on
the plan, and for every twin a row on the plan that its alias names. The ledger may be one of
`Seeds`, left by an older version with other ids, as long as these are distinct.
From that follow one id per row, carried rows included; that a twin's alias has
the id `ItemFor` finds; and the accounting, for which the merge audit must name
each record that was merged away by its own ref_id. All of these need `RefsApart`:
an item answers for the record that has its ref_id (`ByRefIs`), and where two have,
the row of one gets the id of the other (`PoamPlanShared`). `OneRow` and
`SilentRowsCarried` go by fingerprint and need no hypothesis.

Aliases form no circle although three steps write them without looking at each
other. `LinkedInv` orders the kinds: a twin leads to a row decided on its merits,
a repeat to such a row or a twin, a superseded port to anything but a superseded
port. `TelemetryAssumption`, that a telemetry row is not a bare port, is what the
collectors guarantee (`host_wazuh.py:1254`); without it a repeat and a port row
could be aliases of each other.

### The asset ledger

`Shape` types the documents and says that a stamp points into memory.
`UncoveredNotAged` needs no more and has no hypothesis.

The other three properties of `AssetLedger` depend on what a site's records know,
and fail at some sites. The theorems are about two kinds of site for which the code can
promise them:

* `AgentSite`: every record names an agent (`Agented`), records with a common MAC
  name the same agent, and no bare short name abbreviates another record's FQDN.
  `FleetInv` says that active assets have an agent each, share none, and that each
  MAC of an asset comes with an agent of that asset; without an operator's row an
  asset has one agent and an address one asset. Matching then always ends at the
  agent rung (`FleetMatch`), and late merges find nothing to merge. Under an
  operator's merge the row is applied again in every later run, when one of the
  two is already `merged`; `Absorbing` says that the other then holds all it held.
* `LoneMac` and `NoBareNames`: a record with a MAC has one and no agent. Scanners
  and agents then meet only through an address, and `stronger_conflict` stops two
  agents from meeting there. `LanInv`: one agent per asset, a MAC on one asset.
  `assetOrders` is such a site.

Elsewhere: `AssetConflated` breaks `NoConflation` with a short name,
`AssetMergedStamp` breaks `StampedActive` with a chain of merges. `OneHolder`
fails at a site with `LoneMac` when a scanner sees one MAC at two addresses, each
of which an agent reports for a different host: the records (agent x, a), (MAC m,
a), (agent y, b), (MAC m, b) leave b on two assets, since the record of m matches
x's asset by its MAC and brings b along, while merging with y's is refused by the
conflict of agents. `assetOrders` has one address for its MAC.

### The loader with its two ledgers

The theorems about `LoaderRun` are about an `AgentSite` too. `FleetInv` holds
there for `LSpec` as it does for `Spec`; a torn file is the empty fleet. Three
facts carry the rest.

*The uid of a host does not depend on what a run observed.* `UidFor(A, a)` is the
uid the agent a goes by in a ledger A: that of the active asset that holds it, or
the one it would be created under. Every operation of a run on the asset ledger
leaves it as it was (`UidStays`), `save` included (`ClosedStays`: an asset just
seen is not retired). So `HostUid` of a record is `UidFor` of its agent in the
file the run started from (`HostUidIs`, from `NamedFor` in `SiteInv`), in every
attempt, whatever died in between. `SeenOn`, that a record is on an active asset
once observed, is all that `AgentsRowsNamed` needs.

*Two records share a key only when they are of one host* (`KeysAgree`): both the
uid's anchor and `OwnKey` are agents. So `_may_claim_legacy_fp` never gives one
host's row to another, which is what it does in `loaderRoam`.

*A landed row stays.* `Landed` says that a row lies under the record's
fingerprint and none under its older key. One record's turn in `apply_ledger`
lands its own row (`AppliedLands`) and keeps landed rows of others with their ids
(`AppliedKeeps`); `PlanIs` carries this through the turns of a run (`Along`).

`PlanInv` then says which row each id in `given` and `last` is the id of: those of
the present attempt in `outPlan` and, so far as they were carried, in `inPlan`;
those of the last complete run, under `lastUid`, in the pair of ledgers that is
whole. A death between the two writes makes `out/` a mixed pair (`outWhole` is
false), about which nothing is said.

Where scanners know no agent, `loaderRoam` refutes `SameAssetSameId`, and
`LoaderCard` refutes `SteadyHostSameId`. `loaderRun` is a site in between, with
records that know an address only, where the three properties are model-checked.

### The file drop, KEEP lab, probes, console and orchestrator

*The file drop.* None of these theorems assumes anything of what earlier commands
left in `out/`, which is the point, since those files are read as if they were of
this run. `Labelled` says that every canonical file with a fixture carries the
stamp, also one cut short by a death; `OwnSoFar` and `ToldSoFar` say of `prove`
and the full pass that the canonical files are this run's for the sensors visited
and empty, or to be visited, for the others, and that each tells what its
collector made of the files it found (`CollectedTold`, the lemma about
`Collected`). `CleanSoFar` says that a staged run has read what it staged, and that
a run without the sample label has no text of a sample among the rows of its drop
and no banner in anything staged, older copies included. It cannot say more: an
older copy with a marker only is read unlabelled (`FileDropMarker`).

*A bundle is whole.* `OkIsWhole` says nothing of a call that has not answered, so
it is not inductive. The strengthening `Chain` says for every place of a call
which parts of its directory bear the mark of the attempt in progress: after the
n-th collector the first n families, after the loader the register with exactly
those records, after the export the handoff, after the judgement the stamp; a
retry makes a new mark and starts over. Steps of other calls leave the chain
alone because a call with a directory of its own shares it with nobody
(`OthersKeep`, from `Base \notin Call`).

*A pass is a snapshot.* `CopyInv` follows the files: from `Choose` on, a call whose
fingerprint is that of the pack has chosen, then landed, then collected exactly
the pack's files. A fingerprint that differs now may not become equal later, so
packs must not come back: with `Undo` they do, and `KeepWithdrawn` is the
counterexample. `keepRuns` has no `Undo`.

*Late connects are few.* The count alone is not inductive. `Exclusive` says that
whoever works on probes holds the binding, so one run at a time connects.
`Counted` says that the count is zero, or that everything that run has read is of
the present (`Current`), or that it is one and the run stands before the last
connect of a TLS or SSH probe. A run whose readings are of the present makes no
late connect; the last leg is the one place where an older reading outlives a late
connect.

*The console.* A request looks OUT_DIR up anew at every step, so nothing it has
written need be in one place; the proofs say what keeps it there. `Alone`: where
one client sends one request at a time (the hypothesis inside `RefreshWhole`),
the collectors behind the refresh have left its number in the directory that is
active, the loader has read that number from each; register, plan and summary bear
it. A collector may raise at any point: the refresh then is not answered and leaves
what it wrote. If the next one runs collectors it starts with the first, whatever
lies in the directory: `Sane` and `Alone` say of `k` that a refresh that has not run
its collectors is at the first. `RefreshWhole` speaks of these refreshes. After a
loader that raised past its register the next refresh of a fresh directory runs
none and reloads what is there (`ConsoleHalfLoaded`). `Untouched` is about any number of threads: what was
found as a lab's or a client's still has the kind it was found with, so its mode
is "reload" (`PreciousReloads`, by cases over marks and kinds), and while any
thread is between its mode decision and its last write the active directory is
none of those. A switch in between would make it one; `LoneSwitcher` says that a
client that switches has the console to itself, and
`ConsoleSwitchDuringRefresh` is the counterexample without it. Both kinds of
traffic in `consoleRuns` satisfy it.

*The orchestrator.* Nothing is assumed of the work directory. `Aimed`: within the
deepen loop the hosts left are in SCOPE. `Torn`: workers of a stage exist in its
loop only. `Reporting`: at each place of a run the plans behind it are of this
run. `Landing`: from the copy on, what the stages left lies in the inbox.

### Model-checked only

* `RowsNameAssets`, `RerunKeepsIds` and `SteadyHostSameId` of `LoaderRun` at sites
  with records that name no agent, such as the one of `loaderRun`.
* `DetectionDateKept` with migrations; `OneHolder` and `StampedActive` at sites that
  are not of agents only.
* The liveness properties (`Answered`, `Finishes`, `EveryCallEnds`, `RunsEnd`), which
  are beyond the prover.
* Induction over data is beyond it too. The proofs get by with least elements:
  of the places where a claim about a recursive function or a fold fails there is
  a first (`LeastIsLeast`, from `WFMin` on a set), and the claim holds there. So
  `DropDefined` shows that the recursive `Drop` of `AssetLedger` is well defined,
  and `StagesExist` that the turns of `PlanOf` in `LoaderRun` are.

## 5. What is not modelled

* POA&M ledger: the id-migration map, `EGR-` rollup ids, operational
  requirements, `dropped_poam_ids`, ratings, dates, wording; a single override row
  that both closes and says vendor dependency "no". The absence counter is capped
  at 2 (nothing reads more). The records of one scan belong to one identity scheme.
* Plan: how a record gets its keys, severity and class; due dates and milestones.
* Asset ledger: containers, principals, cloud names, scopes, netbios, colliding
  uuids, split and pin_uai rows, torn files outside `LoaderRun`, IIW columns. A
  locally administered MAC is dropped before it becomes an identifier. The
  families of a run come from asset records only. Override rows are used only
  with the ledger they were written for.
* Loader run: what `PoamLedger` models of a row besides key, id, date and aliases.
* Collectors: the parsers themselves (their outcomes are data), redaction,
  decoding, raw copies.
* File drop: `overrides.csv`, which counts as input; `LAB.txt` in a folder below the
  top; banners in a ledger's text; a client name that changes between commands;
  prove's seeded default and its shape checks on the finished `out/`;
  the scheduler's table of slots, which is pure and ends in `run_ciso_path`.
* KEEP lab: the landing is one step; a drop that is only `LAB.txt` counts as
  nothing detected; files of one name within a family; header and shape checks are
  nondeterministic (`misshapen`); `GRC_ESTATE_LABEL` is unset; the order of the
  wipe's fallbacks; `IMPORT.json` may still say client_keep after a failed
  judgement.
* Console: SAMPLE marks, a collector's `SystemExit`, which passes by `except
  Exception` and ends the thread without the answer that `Raise` gives, zip download, granularity below one file, what importing
  a module does. Two threads writing one file at once are ordered.
* Orchestrator: the order of hosts (batches are any partition); file kinds other
  than the two results; a child that survives its timeout. It reads
  SCOPE once per run: `Scopes` is what `load_scope` accepts then (its refusals and
  edits meanwhile are in `LiveProbe`).
* Live probes: `--url` lists, threads that inherit the binding of another
  (`_BIND_HELD`), the text of an answer, IPv6. The two readings of
  `_refuse_demo_scope` (file, consent) are one step, so are the four checks of
  `Hash`. `dns_email_live.py` reads SCOPE once and asks DNS only. The runners of
  `dropbox run` and `scan_to_sor` are not modelled.
* MCP: the read-only tools, JSON-RPC framing, and the tools that start commands
  modelled elsewhere.
* Sensor parsers, framework tables, page and table writers, exporters and farm
  adapters are data, text and layout without state. They are four fifths of the
  implementation's lines; a model of them would be a transcription, so the share
  of lines the map covers stays low by the nature of the program.

## 6. Plan

1. The properties of `LoaderRun` where scanners' records name no agent but keep
   their address, the hosts of `loaderRun` that stay.
2. `OneHolder` where scanners know one address a MAC, the case `assetOrders`
   checks.
3. `PoamLedger`: the id-migration map (`_apply_id_migration_map_inplace`) as a
   step of `Load`, with the question whether a mapped child keeps its parent's
   closure; `dropped_poam_ids` and its pruning.
4. `scan_to_sor` on top of `LiveProbe`; the gate in front of `Orchestrator` as well.
5. `ProductConsole`: `build_drop_zip` as a reader of half-written files.
