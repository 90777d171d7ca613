------------------------------ MODULE PoamPlan ------------------------------
(***************************************************************************)
(* From the records of a scan to the POA&M: the part of                    *)
(* grc_loader._load that merges records of one weakness, decides which     *)
(* rows are on the plan and which are aliases of another row, joins the    *)
(* decisions with the POA&M ledger and writes poam.csv and excluded.csv.   *)
(*                                                                         *)
(* The ledger itself is PoamLedger's subject.  Here an item keeps what the *)
(* plan reads: its id, the ref_id it was last seen under, whether it is    *)
(* closed, whether excluded_reason is set and the run that listed it first *)
(* (poam-ledger.json keeps its items in that order).                       *)
(***************************************************************************)
EXTENDS Integers, Sequences, FiniteSets, SequencesExt

CONSTANTS
  Rec,          \* the records a scan may hold
  Attr,         \* [Rec -> Attributes]
  Fp,           \* fingerprints, numbered in the order of their EGP- ids
  Lighter,      \* GRC_POAM_LIGHTER=1
  Seeds,        \* ledgers an older version may have left
  Scans,        \* the sequences of records a scan may leave in out/canonical
  MaxRuns

Item == [id : Nat \X Nat, ref : Nat, closed : BOOLEAN, off : BOOLEAN, born : Nat]

(* The id of an item is the hash of its fingerprint, or one an older       *)
(* version gave it, and is nobody else's.                                  *)
OwnIds(items) ==
  \A f, g \in DOMAIN items : /\ items[f].id[1] = f \/ items[f].id[1] \notin Fp
                             /\ items[f].id[1] = items[g].id[1] => f = g

(* Attr[r]:                                                                *)
(*   kind     "finding" or "excluded"                                      *)
(*   ref      ref_id, a number by its order                                *)
(*   exact    finding_identity, asset and CVEs                             *)
(*   issue    dedupe_key, or "" without an asset                           *)
(*   control  host and control_key, or ""                                  *)
(*   tool     the tool of a hardening check                                *)
(*   sev      0 (info) .. 4 (critical)                                     *)
(*   class    "review", "token", "misconfig", "honeypot", "noise" or       *)
(*            "weakness": the branch of poam_decision the row takes        *)
(*   key      key_medium                                                   *)
(*   rule     telemetry_collapse_key of a telemetry row, or ""             *)
(*   shape    "specific", "port" (port only) or "other"                    *)
(*   port     host and port, or "";  proto "tcp", "udp" or ""              *)
(*   fp       fp_v1;  check: check_id starts with nmap-port-               *)
ASSUME PlanAssumption ==
  /\ Fp \subseteq Nat
  /\ Scans \subseteq {s \in Seq(Rec) : IsInjective(s)}
  /\ \A r \in Rec : Attr[r].fp \in Fp /\ Attr[r].ref \in Nat \ {0} /\ Attr[r].sev \in 0..4
  /\ \A s \in Seeds : OwnIds(s) /\ \A f \in DOMAIN s : s[f] \in Item

(* The records of a scan have ref_ids of their own.  Nothing in the code   *)
(* makes it so (SARIF results in a/b.py and a-b.py share a slug), so it is *)
(* no assumption: the theorems that need it name it.                       *)
RefsApart ==
  \A s \in Scans : \A i, j \in DOMAIN s : Attr[s[i]].ref = Attr[s[j]].ref => i = j

(* The only telemetry rows are the alerts of Wazuh; their category,        *)
(* incident, is none of a port-only row (host_wazuh.py:1254,               *)
(* port_fold.py:414).                                                      *)
ASSUME TelemetryAssumption ==
  \A r \in Rec : Attr[r].rule # "" => Attr[r].shape # "port"

VARIABLES
  stage,        \* "idle", "merged", "decided", "failed"
  scan,         \* Seq(Rec): the canonical records of this run
  kept,         \* [place in the scan -> Entry]: the records after the three merges
  gone,         \* the merged-away records: [ref, into, sev], into a ref_id or 0
  decided,      \* [place in the scan -> Decision]
  ledger,       \* [SUBSET Fp -> item]
  plan,         \* poam.csv: [id, ref, sev, fp], fp for the columns that tell a weakness
  excluded,     \* excluded.csv: [ref, why, to]
  run           \* counter, bounded by MaxRuns

vars == <<stage, scan, kept, gone, decided, ledger, plan, excluded, run>>

Ref(e) == Attr[e.rec].ref
FpOf(e) == Attr[e.rec].fp
IsFinding(e) == Attr[e.rec].kind = "finding"
Least(S) == CHOOSE m \in S : \A n \in S : m <= n
Highest(S) == CHOOSE m \in S : \A n \in S : n <= m

-----------------------------------------------------------------------------
(* Merges.  A pass keeps the first entry of a slot and joins later ones to *)
(* it; what is left stays at its place in the scan.                        *)

Slot(pass, e) == IF pass = "exact" \/ IsFinding(e) THEN Attr[e.rec][pass] ELSE ""

\* dedupe_hardening merges a control of one host only across tools.
Joins(pass, k, e) == pass = "control" => Attr[k.rec].tool # Attr[e.rec].tool

First(pass, in, i) == Least({j \in DOMAIN in : Slot(pass, in[j]) = Slot(pass, in[i])})

Lost(pass, in) ==
  {i \in DOMAIN in : LET k == First(pass, in, i) IN
                       k # i /\ Slot(pass, in[i]) # "" /\ Joins(pass, in[k], in[i])}

(* _dedupe: the same identity, asset and CVEs; dedupe_hardening: one       *)
(* control of one host, reported by different tools.  The kept record does *)
(* not change: also_ids of a hardening merge receives check ids, which no  *)
(* ref_id equals.                                                          *)
Merged(pass, in) == [i \in DOMAIN in \ Lost(pass, in) |-> in[i]]

(* dedupe_weaknesses: the higher severity and the ref_ids survive.         *)
Issues(in) ==
  LET lost == Lost("issue", in)
      mates == [i \in DOMAIN in \ lost |-> {j \in lost : First("issue", in, j) = i}]
  IN [i \in DOMAIN in \ lost |->
        [in[i] EXCEPT !.sev = Highest({in[j].sev : j \in mates[i] \cup {i}}),
                      !.also = @ \cup {Ref(in[j]) : j \in mates[i]}]]

(* The merge audit: _dedupe names the record it kept, collect_finding_merges *)
(* the kept record of the same dedupe_key, which a hardening merge need not  *)
(* have.                                                                     *)
Audit(pass, in, out, slot) ==
  LET parents(i) == {Ref(out[k]) : k \in {x \in DOMAIN out : /\ Slot(slot, out[x]) = Slot(slot, in[i])
                                                            /\ Slot(slot, in[i]) # ""}}
  IN {[ref |-> Ref(in[i]), sev |-> in[i].sev,
       into |-> IF parents(i) = {} THEN 0 ELSE CHOOSE p \in parents(i) : TRUE]
        : i \in {x \in Lost(pass, in) : IsFinding(in[x])}}

\* Mutant: merges of the hardening pass are not audited.
AuditTwo(in, a, b, c) == Audit("exact", in, a, "exact") \cup Audit("issue", a, b, "issue")
Audited(in, a, b, c) ==
  Audit("exact", in, a, "exact") \cup Audit("issue", a, b, "issue") \cup Audit("control", b, c, "issue")

-----------------------------------------------------------------------------
(* Decisions.                                                              *)

(* poam_decision: the row's own merits.  "token" stands for MUTED, false   *)
(* positives and the other exclude tokens, "noise" for telemetry that is   *)
(* not kept on the plan.                                                   *)
Own(e) ==
  LET a == Attr[e.rec] IN
    /\ a.kind = "finding"
    /\ \/ a.class \in {"review", "misconfig"}
       \/ /\ a.class = "weakness" /\ e.sev # 0
          /\ e.sev >= 3 \/ a.key \/ ~Lighter

Decision(e) == [rec |-> e.rec, sev |-> e.sev, inc |-> Own(e), by |-> 0,
                why |-> IF Own(e) THEN "plan" ELSE "own"]

AliasOf(d, why, by) == [rec |-> d.rec, sev |-> d.sev, inc |-> FALSE, by |-> by, why |-> why]

(* The order of decisions: severity (info counts as low), then name; a     *)
(* stable sort leaves the rest in the order of the scan.                   *)
Rank(sev) == IF sev = 0 THEN 1 ELSE sev
Before(ds, i, j) ==
  \/ Rank(ds[i].sev) > Rank(ds[j].sev)
  \/ /\ Rank(ds[i].sev) = Rank(ds[j].sev)
     /\ Ref(ds[i]) < Ref(ds[j]) \/ (Ref(ds[i]) = Ref(ds[j]) /\ i <= j)
Foremost(ds, S) == CHOOSE i \in S : \A j \in S : Before(ds, i, j)

(* _apply_e1: repeated low telemetry of one rule and asset is one row.     *)
E1(ds) ==
  LET Alerts == {i \in DOMAIN ds : ds[i].inc /\ ds[i].sev = 1 /\ Attr[ds[i].rec].rule # ""}
      Row(i) == Foremost(ds, {j \in Alerts : Attr[ds[j].rec].rule = Attr[ds[i].rec].rule})
  IN [i \in DOMAIN ds |->
        IF i \in Alerts /\ Row(i) # i THEN AliasOf(ds[i], "repeat", Ref(ds[Row(i)])) ELSE ds[i]]

(* pick_superseder: highest severity, then lowest EGP- id, then lowest     *)
(* ref_id.                                                                 *)
Picked(ds, cands) ==
  CHOOSE c \in cands : \A o \in cands \ {c} :
    LET m == ds[c]  n == ds[o] IN
      \/ Rank(m.sev) > Rank(n.sev)
      \/ Rank(m.sev) = Rank(n.sev) /\ FpOf(m) < FpOf(n)
      \/ Rank(m.sev) = Rank(n.sev) /\ FpOf(m) = FpOf(n) /\ Ref(m) < Ref(n)

\* Mutant: the row with the port gives way to whatever else is on the port.
PortFoldAny(ds) ==
  LET Peers(i) == {j \in DOMAIN ds \ {i} : /\ Attr[ds[i].rec].port # ""
                                           /\ Attr[ds[j].rec].port = Attr[ds[i].rec].port}
  IN [i \in DOMAIN ds |->
        IF Peers(i) # {}
        THEN AliasOf(ds[i], "specific", Ref(ds[Picked(ds, Peers(i))]))
        ELSE ds[i]]

(* _apply_port_fold: a bare open port gives way to a specific finding on   *)
(* the same host and port, whatever was decided about that one.            *)
PortFold(ds) ==
  LET Peers(i) == {j \in DOMAIN ds :
                     LET a == Attr[ds[i].rec]  b == Attr[ds[j].rec] IN
                       /\ a.kind = "finding" /\ a.shape = "port" /\ a.port # ""
                       /\ b.kind = "finding" /\ b.shape = "specific" /\ a.port = b.port
                       /\ a.proto = "" \/ b.proto = "" \/ a.proto = b.proto}
  IN [i \in DOMAIN ds |->
        IF Peers(i) # {}
        THEN AliasOf(ds[i], "specific", Ref(ds[Picked(ds, Peers(i))]))
        ELSE ds[i]]

\* Mutant: only rows of one severity are compared.
SameEgpRated(ds) ==
  [i \in DOMAIN ds |->
     LET twins == {j \in DOMAIN ds : /\ ds[j].inc /\ FpOf(ds[j]) = FpOf(ds[i])
                                     /\ ds[j].sev = ds[i].sev}
     IN IF twins # {} /\ Least(twins) # i
        THEN AliasOf(ds[i], "twin", Ref(ds[Least(twins)]))
        ELSE ds[i]]

(* collapse_same_egp: of the rows on the plan with one fingerprint one     *)
(* stays, an nmap-port- check before the others; every other row of that   *)
(* fingerprint, on the plan or not, becomes its alias.                     *)
On(ds, f) == {j \in DOMAIN ds : ds[j].inc /\ FpOf(ds[j]) = f}

Winner(ds, f) ==
  LET checks == {j \in On(ds, f) : Attr[ds[j].rec].check}
  IN IF checks # {} THEN Foremost(ds, checks)
     ELSE CHOOSE j \in On(ds, f) : \A k \in On(ds, f) : Ref(ds[j]) <= Ref(ds[k])

SameEgp(ds) ==
  [i \in DOMAIN ds |->
     LET f == FpOf(ds[i]) IN
     IF On(ds, f) # {} /\ Winner(ds, f) # i
     THEN AliasOf(ds[i], "twin", Ref(ds[Winner(ds, f)]))
     ELSE ds[i]]

(* f itself; TLC computes a function when it is compared.                  *)
Table(f) == CHOOSE g \in {f} : g = f

Decisions(in) ==
  SameEgp(Table(PortFold(Table(E1(Table([i \in DOMAIN in |-> Decision(in[i])]))))))

-----------------------------------------------------------------------------
(* The ledger as the plan sees it.                                         *)

Findings == {e \in Range(kept) : IsFinding(e)}
Observed == {FpOf(e) : e \in Findings}
Wanted == {FpOf(e) : e \in {x \in Findings : Own(x)}}
LastRef(f) == LET is == {i \in DOMAIN kept : IsFinding(kept[i]) /\ FpOf(kept[i]) = f}
              IN Ref(kept[CHOOSE i \in is : \A j \in is : j <= i])

(* A new item, the item as it was, or a new id after a closed one.         *)
Seen(f) ==
  IF f \notin DOMAIN ledger
  THEN [id |-> <<f, 0>>, ref |-> LastRef(f), closed |-> FALSE, off |-> f \notin Wanted, born |-> run]
  ELSE IF ledger[f].closed
  THEN [id |-> <<f, ledger[f].id[2] + 1>>, ref |-> LastRef(f), closed |-> FALSE, off |-> f \notin Wanted,
        born |-> ledger[f].born]
  ELSE [ledger[f] EXCEPT !.ref = LastRef(f), !.off = f \notin Wanted]

(* _alias_merged_away_items: items of records that were merged away give   *)
(* their id to the survivor and go.                                        *)
GaveWay == {f \in DOMAIN ledger \ Observed :
              ~ledger[f].closed /\ \E e \in Findings : ledger[f].ref \in e.also}

(* apply_ledger; closing: the items an override closes.                    *)
Applied(closing) ==
  [f \in (DOMAIN ledger \cup Observed) \ GaveWay |->
     IF f \in Observed THEN [Seen(f) EXCEPT !.closed = f \in closing] ELSE ledger[f]]

(* ledger_by_ref: of the items last seen under a ref_id, the one listed    *)
(* last (of two listed by one run, one).                                   *)
ByRef(items, ref) ==
  LET latest == {f \in DOMAIN items :
                   /\ items[f].ref = ref
                   /\ \A g \in DOMAIN items : items[g].ref = ref => items[g].born <= items[f].born}
  IN IF latest = {} THEN {} ELSE {CHOOSE f \in latest : TRUE}

(* _ledger_item_for: by ref_id, then by fingerprint.                       *)
ItemFor(items, d) ==
  IF ByRef(items, Ref(d)) # {} THEN ByRef(items, Ref(d)) ELSE {FpOf(d)} \cap DOMAIN items

IdOf(items, d) == items[CHOOSE f \in ItemFor(items, d) : TRUE].id

(* excluded_reason as the loader leaves it.                                *)
Marked(items) ==
  LET listed == {IdOf(items, d) : d \in {x \in Range(decided) : x.inc}}
      OffBy(f) == \E d \in Range(decided) : ~d.inc /\ f \in ItemFor(items, d)
  IN [f \in DOMAIN items |->
        IF items[f].id \in listed THEN [items[f] EXCEPT !.off = FALSE]
        ELSE IF OffBy(f) THEN [items[f] EXCEPT !.off = TRUE] ELSE items[f]]

(* bind_alias_targets_to_ledger: the id the aliased row has in the ledger, *)
(* which is not the hash of its fingerprint once the ledger is older.      *)
NoId == <<0, 0>>
Target(items, d) == CHOOSE x \in Range(decided) : Ref(x) = d.by
\* Mutant: aliases name the first-seen hash.
BindHash(items, d) == IF d.by = 0 THEN NoId ELSE <<FpOf(Target(items, d)), 0>>

Bind(items, d) ==
  CASE d.by = 0 -> NoId
    [] d.by # 0 /\ d.why # "repeat" -> IdOf(items, Target(items, d))
    [] OTHER -> LET row == ByRef(items, d.by)
                IN IF row = {} THEN NoId ELSE items[CHOOSE f \in row : TRUE].id

Rows(items) == {[id |-> IdOf(items, d), ref |-> Ref(d), sev |-> d.sev, fp |-> FpOf(d)]
                  : d \in {x \in Range(decided) : x.inc}}
Off(items) == {[ref |-> Ref(d), why |-> d.why, to |-> Bind(items, d)]
                 : d \in {x \in Range(decided) : ~x.inc}}

(* Open items no record of the scan is about stay on the plan.             *)
\* Mutant: of the items, only those with a record in the scan.
CarriedSeen(items) ==
  {[id |-> items[f].id, ref |-> items[f].ref, sev |-> 0, fp |-> f]
     : f \in {x \in DOMAIN items : x \in Observed /\ ~items[x].closed /\ ~items[x].off
                                    /\ items[x].id \notin {w.id : w \in Rows(items)}}}
Carried(items) ==
  LET all == Range(decided)
  IN {[id |-> items[f].id, ref |-> items[f].ref, sev |-> 0, fp |-> f]
        : f \in {x \in DOMAIN items :
                   /\ ~items[x].closed /\ ~items[x].off
                   /\ items[x].id \notin {w.id : w \in Rows(items)}
                   /\ x \notin {FpOf(d) : d \in all} /\ items[x].ref \notin {Ref(d) : d \in all}}}

(* Merged-away records that no row names yet.                              *)
Extras(items) ==
  {[ref |-> g.ref, why |-> "merged", to |-> NoId]
     : g \in {x \in gone : x.ref \notin {w.ref : w \in Rows(items) \cup Carried(items)}
                                          \cup {w.ref : w \in Off(items)}}}

-----------------------------------------------------------------------------
Entry(r) == [rec |-> r, sev |-> Attr[r].sev, also |-> {}]
(* The collectors leave records; the loader reads and merges them.         *)
Read ==
  /\ stage = "idle" /\ run < MaxRuns
  /\ \E s \in Scans :
       LET in == [i \in DOMAIN s |-> Entry(s[i])]
           a == Table(Merged("exact", in))
           b == Table(Issues(a))
           c == Table(Merged("control", b))
       IN /\ scan' = s
          /\ kept' = c
          /\ gone' = Audited(in, a, b, c)
  /\ stage' = "merged" /\ run' = run + 1
  /\ UNCHANGED <<decided, ledger, plan, excluded>>

Decide ==
  /\ stage = "merged"
  /\ decided' = Decisions(kept)
  /\ stage' = "decided"
  /\ UNCHANGED <<scan, kept, gone, ledger, plan, excluded, run>>

(* run_ledger has written the applied items; poam.csv and excluded.csv are *)
(* written, then assert_input_export_accounting raises or the marked items *)
(* are persisted.                                                          *)
Written(items) == Rows(items) \cup Carried(items)
Accounts(rows, off) ==
  LET listed == {w.ref : w \in rows}
      named == {w.ref : w \in off}
  IN listed \cap named = {} /\ {Ref(e) : e \in Range(kept)} \subseteq listed \cup named

Exit == scan' = <<>> /\ kept' = <<>> /\ gone' = {} /\ decided' = <<>>
Closings == {{}} \cup {{f} : f \in Observed}

Publish ==
  /\ stage = "decided"
  /\ \E closing \in Closings :
       LET applied == Table(Applied(closing))
           items == Table(Marked(applied)) IN
         /\ plan' = Written(items)
         /\ excluded' = Off(items) \cup Extras(items)
         /\ ledger' = IF Accounts(plan', excluded') THEN items ELSE applied
         /\ stage' = IF Accounts(plan', excluded') THEN "idle" ELSE "failed"
  /\ Exit /\ UNCHANGED run

(* The process dies with the two files written or not; the next run reads  *)
(* the items run_ledger left in out/, or the older ledger of in/.          *)
Die ==
  /\ stage = "decided"
  /\ \E closing \in Closings :
       LET applied == Table(Applied(closing))
           items == Table(Marked(applied)) IN
         /\ \/ UNCHANGED <<plan, excluded>>
            \/ plan' = Written(items) /\ excluded' = Off(items) \cup Extras(items)
         /\ ledger' \in {ledger, applied}
  /\ stage' = "idle"
  /\ Exit /\ UNCHANGED run

Init ==
  /\ stage = "idle" /\ scan = <<>> /\ kept = <<>> /\ gone = {} /\ decided = <<>>
  /\ ledger \in Seeds
  /\ plan = {} /\ excluded = {} /\ run = 0

Next == Read \/ Decide \/ Publish \/ Die

Spec == Init /\ [][Next]_vars

-----------------------------------------------------------------------------
(* A fingerprint has one row on the plan, whatever merged, folded or       *)
(* repeated before (collapse_same_egp, "One included row per host/port     *)
(* EGP").                                                                  *)
OneRowPerFp ==
  \A i, j \in DOMAIN decided :
    decided[i].inc /\ decided[j].inc /\ FpOf(decided[i]) = FpOf(decided[j]) => i = j

(* The ids of poam.csv are distinct, the rows carried from the ledger, the *)
(* ids an older version gave and the ref_ids that another scan used for    *)
(* another weakness included (run_ledger, grc_loader._ledger_item_for).    *)
OneRowPerId == \A v, w \in plan : v.id = w.id => v = w

(* An alias merged into another row names an id that is on poam.csv, also  *)
(* when the ledger knows the row under an older id.                        *)
AliasNamesRow == \A x \in excluded : x.why = "twin" => x.to \in {w.id : w \in plan}

(* Following an alias (a repeat, a port superseded by a specific finding,  *)
(* a twin) ends at a row that is on the plan or off it on its own merits:  *)
(* every alias names a row, and of any rows one leads out of them, so that *)
(* aliases never lead to each other in a circle.                           *)
AliasesLand ==
  /\ \A i \in DOMAIN decided :
       decided[i].by # 0 => \E j \in DOMAIN decided : decided[i].by = Ref(decided[j])
  /\ \A rows \in (SUBSET DOMAIN decided) \ {{}} :
       \E i \in rows : \A j \in rows : decided[i].by # Ref(decided[j])

(* Every finding of the scan, merged away or not, is in exactly one of     *)
(* poam.csv and excluded.csv, and the run never fails its own check.       *)
Accounted ==
  [][stage = "decided" /\ <<plan', excluded'>> # <<plan, excluded>> =>
       /\ stage' = "idle"
       /\ \A r \in {x \in Range(scan) : Attr[x].kind = "finding"} :
            (\E w \in plan' : w.ref = Attr[r].ref) # (\E x \in excluded' : x.ref = Attr[r].ref)]_vars

(* A row leaves the plan only on evidence of this scan: a record of its    *)
(* weakness, a record its own was merged into, or a closed or excluded     *)
(* ledger item.  A scan that is silent about it carries it.                *)
CarriedOn ==
  [][plan' # plan =>
       \A f \in DOMAIN ledger :
         /\ ledger[f].id \in {w.id : w \in plan}
         /\ ~ledger[f].closed /\ ~ledger[f].off
         /\ \A e \in Range(kept) : /\ FpOf(e) # f /\ Ref(e) # ledger[f].ref
                                   /\ ledger[f].ref \notin e.also
         => ledger[f].id \in {w.id : w \in plan'}]_vars

(* The row an alias leads to, by every alias on the way.                  *)
Follow(i) ==
  LET next(j) == IF decided[j].by = 0 THEN j
                 ELSE CHOOSE k \in DOMAIN decided : Ref(decided[k]) = decided[j].by
      at[n \in 0..Cardinality(DOMAIN decided)] == IF n = 0 THEN i ELSE next(at[n - 1])
  IN at[Cardinality(DOMAIN decided)]

(* "Default (full) plan includes every non-info, non-honeypot weakness"    *)
(* (poam_decision): as a row, or through its alias.                        *)
FullPlan ==
  \A i \in DOMAIN decided :
    LET d == decided[i]  a == Attr[d.rec]
    IN a.kind = "finding" /\ a.class = "weakness" /\ d.sev # 0 => decided[Follow(i)].inc

(* The row on the plan has the highest severity of the findings merged     *)
(* into it.                                                                *)
RatedHighest ==
  \A g \in gone : \A i \in DOMAIN kept : Ref(kept[i]) = g.into => kept[i].sev >= g.sev
=============================================================================
