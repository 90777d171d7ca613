---------------------------- MODULE AssetLedger ----------------------------
(***************************************************************************)
(* The asset identity ledger (shared/asset_ledger.py) over the runs of the *)
(* loader (collectors/grc_loader.py).  A run loads the ledger an operator  *)
(* carried into in/, applies the operator's override row, observes the     *)
(* asset records of the scan one by one, merges assets that turned out to  *)
(* be one, stamps every record with an asset and closes the run, retiring  *)
(* what two covered runs did not see.                                      *)
(*                                                                         *)
(* Data abstraction.  The identifier ladder is cut to one key per kind of  *)
(* rule: "agent" (one value; stands for uuid and bios_uuid too), "mac"     *)
(* (several), "fqdn" (one, renamed in place), "ip" (several, leased,       *)
(* renewed, reassigned) and "hostname" (weakest, folded onto an FQDN).     *)
(* Containers, principals, cloud names, scopes and colliding uuids are     *)
(* left out.  Assets are numbered in the order the code searches them in;  *)
(* UidOf is the uid they are known by.  Expired aliases are dropped.       *)
(***************************************************************************)
EXTENDS Naturals, FiniteSets, Sequences

CONSTANTS
  NRec,      \* asset records a scan can hold, numbered in reading order
  Val,       \* identifier values
  Src,       \* collectors
  Ids,       \* [record -> [Key -> SUBSET Val]]
  Source,    \* [record -> Src]
  Age,       \* [record -> Nat] collected_at within its run
  Label,     \* [Val -> Val] short name of an FQDN
  Net,       \* [Val -> net] network of an address
  Span,      \* time between two runs
  Lease,     \* LEASE_DAYS, in the same unit
  Orders,    \* override rows an operator may write
  MaxRuns    \* bound: scans dropped into in/

Key    == {"agent", "mac", "fqdn", "ip", "hostname"}
Several == {"mac", "ip"}
Rank   == [k \in Key |-> CASE k = "agent" -> 5 [] k = "mac" -> 4 [] k = "fqdn" -> 3
                           [] k = "ip" -> 2 [] k = "hostname" -> 1]
Rec    == 1 .. NRec
MissesToRetire == 2
NoOrder == [what |-> "none", uid |-> 0, to |-> 0]

ASSUME AssetConstants ==
  /\ NRec \in Nat /\ MaxRuns \in Nat /\ Span \in Nat /\ Lease \in Nat
  /\ Ids \in [Rec -> [Key -> SUBSET Val]]
  /\ \A r \in Rec : \A k \in Key : IsFiniteSet(Ids[r][k])
  /\ \A r \in Rec : \A k \in Key \ Several : Cardinality(Ids[r][k]) <= 1
  /\ Source \in [Rec -> Src] /\ Age \in [Rec -> Nat]
  /\ Orders \subseteq [what: {"merge", "replaces"}, uid: Nat, to: Nat]

VARIABLES
  inFile,    \* assets of in/assets/asset-ledger.json
  outFile,   \* assets of out/assets/asset-ledger.json
  order,     \* the row of in/assets/assets-overrides.csv
  scan,      \* records lying in in/
  runNo,     \* runs so far
  pc,        \* where the loader is
  mem,       \* assets in memory
  todo,      \* records not observed yet
  observed,  \* _observed
  stamped    \* extra.asset_uid of each record

vars == <<inFile, outFile, order, scan, runNo, pc, mem, todo, observed, stamped>>

-----------------------------------------------------------------------------
(* Reading an asset. *)

Active(A)  == {u \in DOMAIN A : A[u].status = "active"}
Alive(a, k) == {a.ids[k][i].val : i \in DOMAIN a.ids[k]}

\* _ids_of: of a one-valued identifier only the alias written last counts.
IdsOf(a) == [k \in Key |->
  IF k \in Several \/ a.ids[k] = <<>> THEN Alive(a, k)
  ELSE {a.ids[k][Len(a.ids[k])].val}]

Least(S) == CHOOSE x \in S : \A y \in S : x <= y
Gap(t, s) == IF t >= s THEN t - s ELSE s - t

\* _stronger_conflict: a stronger identifier both have, and disagree on.
Conflict(obs, cand, key) ==
  \E k \in Key : /\ Rank[k] > Rank[key] /\ obs[k] # {} /\ cand[k] # {}
                 /\ obs[k] \cap cand[k] = {}

\* The address was seen on the asset within the lease (_last_seen reads the
\* first alias with that value).
InLease(a, ip, now) ==
  LET first == Least({i \in DOMAIN a.ids["ip"] : a.ids["ip"][i].val = ip})
  IN Gap(now, a.ids["ip"][first].seen) <= Lease

\* Mutant: stronger identifiers are not compared.
MatchKeyLoose(obs, a, key, now) ==
  obs[key] \cap Alive(a, key) # {}

MatchKey(obs, a, key, now) ==
  /\ obs[key] \cap Alive(a, key) # {}
  /\ key = "ip" => \A ip \in obs["ip"] \cap Alive(a, "ip") : InLease(a, ip, now)
  /\ ~Conflict(obs, IdsOf(a), key)

Labels(a) == {Label[f] : f \in IdsOf(a)["fqdn"]}

\* _ambiguous_fqdn_labels: short names of more than one active FQDN.
Ambiguous(A, short) ==
  {l \in short : Cardinality({u \in Active(A) : l \in Labels(A[u])}) > 1}

\* _find_match: the strongest key that hits, the first asset it hits; a bare
\* short name may find the one FQDN it abbreviates.  0: no match.
FindMatch(A, obs, now) ==
  LET hits(k) == {u \in Active(A) : MatchKey(obs, A[u], k, now)}
      keys == {k \in Key : hits(k) # {}}
      best == CHOOSE k \in keys : \A j \in keys : Rank[j] <= Rank[k]
      named == {u \in Active(A) : /\ obs["hostname"] \cap Labels(A[u]) # {}
                                  /\ ~Conflict(obs, IdsOf(A[u]), "hostname")}
  IN IF keys # {} THEN Least(hits(best))
     ELSE IF /\ obs["fqdn"] = {} /\ Cardinality(named) = 1
             /\ Ambiguous(A, obs["hostname"]) = {}
       THEN Least(named) ELSE 0

-----------------------------------------------------------------------------
(* observe, for one record. *)

\* The aliases of other values, in their order.
Drop(seq, vals) ==
  LET left[i \in 0 .. Len(seq)] ==
        IF i = 0 THEN <<>>
        ELSE IF seq[i].val \in vals THEN left[i - 1] ELSE Append(left[i - 1], seq[i])
  IN left[Len(seq)]

\* strongest_anchor: the identifier the uid of a new asset is the hash of.
Anchor(obs) ==
  LET best == CHOOSE k \in Key : obs[k] # {} /\ \A j \in Key : obs[j] # {} => Rank[j] <= Rank[k]
  IN <<best, CHOOSE v \in obs[best] : TRUE>>

NewAsset(now, obs) ==
  [status |-> "active", into |-> 0, created |-> now, absent |-> 0, anchor |-> Anchor(obs),
   pending |-> FALSE, sources |-> {}, ids |-> [k \in Key |-> <<>>]]

\* _new_uid: a uid is the hash of its anchor, made longer once for every asset
\* of the ledger that has the shorter one already.
UidOf(A, u) ==
  <<A[u].anchor, Cardinality({w \in 1 .. u - 1 : A[w].anchor = A[u].anchor})>>

\* Only addresses are asked for their last_seen.
Stamp(k, now) == IF k = "ip" THEN now ELSE 0

\* _maybe_replace_single_ip, _maybe_replace_single_fqdn: one observed value
\* replaces the one recorded value.
Renewed(a, obs) ==
  LET replaces(k) == /\ Cardinality(obs[k]) = 1 /\ Len(a.ids[k]) = 1
                     /\ Alive(a, k) # obs[k]
      sameNet == {Net[v] : v \in Alive(a, "ip")} = {Net[v] : v \in obs["ip"]}
  IN [a EXCEPT !.ids["ip"] = IF replaces("ip") /\ sameNet THEN <<>> ELSE @,
               !.ids["fqdn"] = IF replaces("fqdn") THEN <<>> ELSE @]

\* _add_aliases: refresh what is recorded (the last alias of a value), append
\* the rest.
Aliased(a, obs, now) ==
  LET touched(k) == [i \in DOMAIN a.ids[k] |->
        IF /\ a.ids[k][i].val \in obs[k]
           /\ \A j \in i + 1 .. Len(a.ids[k]) : a.ids[k][j].val # a.ids[k][i].val
          THEN [a.ids[k][i] EXCEPT !.seen = Stamp(k, now)] ELSE a.ids[k][i]]
      fresh(k) == {[val |-> v, seen |-> Stamp(k, now)] : v \in obs[k] \ Alive(a, k)}
      listed(S) == CHOOSE s \in [1 .. Cardinality(S) -> S] :
                     \A x \in S : \E i \in DOMAIN s : s[i] = x
  IN [a EXCEPT !.ids = [k \in Key |-> touched(k) \o listed(fresh(k))]]

\* _maybe_reassign_ip: another asset loses an address observed here when a
\* stronger identifier says it is another host.
Reassigned(A, u, obs) ==
  [w \in DOMAIN A |->
     IF w # u /\ w \in Active(A) /\ Conflict(obs, IdsOf(A[w]), "ip")
       THEN [A[w] EXCEPT !.ids["ip"] = Drop(@, obs["ip"])] ELSE A[w]]

Seen(a, r, now) ==
  [Aliased(Renewed(a, Ids[r]), Ids[r], now) EXCEPT
     !.sources = @ \cup {Source[r]}, !.absent = 0, !.pending = FALSE]

-----------------------------------------------------------------------------
(* merge and the override rows. *)

\* merge keeps the older asset and appends every alias of the other to it.
Merged(A, u, v) ==
  LET keep == IF A[u].created <= A[v].created THEN u ELSE v
      gone == IF keep = u THEN v ELSE u
  IN [A EXCEPT
        ![keep].ids = [k \in Key |-> A[keep].ids[k] \o A[gone].ids[k]],
        ![keep].sources = @ \cup A[gone].sources,
        ![gone].status = "merged", ![gone].into = keep]

\* apply_overrides: operator merge, and mark_replaces, which retires the
\* replaced asset.
Ordered(A) ==
  IF {order.uid, order.to} \subseteq DOMAIN A /\ order.uid # order.to
    THEN IF order.what = "merge" THEN Merged(A, order.uid, order.to)
         ELSE [A EXCEPT ![order.to].status = "retired"]
    ELSE A

\* late_merge_pass: what two active assets share that makes them one.
SharesStrong(a, b) ==
  \E k \in {"agent", "mac"} : IdsOf(a)[k] \cap IdsOf(b)[k] # {}

SharesAddress(a, b) ==
  /\ IdsOf(a)["ip"] \cap IdsOf(b)["ip"] # {}
  /\ ~Conflict(IdsOf(a), IdsOf(b), "ip")

BareNameOf(A, a, b) ==
  /\ IdsOf(a)["fqdn"] = {} /\ IdsOf(a)["hostname"] \cap Labels(b) # {}
  /\ Ambiguous(A, IdsOf(a)["hostname"]) = {}

\* Mutant: addresses are not compared.
SameHostNoAddress(A, u, v) ==
  SharesStrong(A[u], A[v]) \/ BareNameOf(A, A[u], A[v]) \/ BareNameOf(A, A[v], A[u])

SameHost(A, u, v) ==
  \/ SharesStrong(A[u], A[v]) \/ SharesAddress(A[u], A[v])
  \/ BareNameOf(A, A[u], A[v]) \/ BareNameOf(A, A[v], A[u])

MergePairs(A) == {p \in Active(A) \X Active(A) : p[1] < p[2] /\ SameHost(A, p[1], p[2])}

-----------------------------------------------------------------------------
Init ==
  /\ inFile = <<>> /\ outFile = <<>> /\ order = NoOrder
  /\ scan = {} /\ runNo = 0 /\ pc = "idle"
  /\ mem = <<>> /\ todo = {} /\ observed = {} /\ stamped = [r \in Rec |-> 0]

\* The operator drops a scan into in/ and runs the loader: AssetLedger.load,
\* apply_overrides.  Override rows name assets of the ledger they came with.
Begin(recs) ==
  /\ pc = "idle" /\ runNo < MaxRuns /\ recs # {}
  /\ order # NoOrder => inFile = outFile
  /\ runNo' = runNo + 1 /\ scan' = recs /\ todo' = recs
  /\ mem' = Ordered(inFile)
  /\ observed' = {} /\ stamped' = [r \in Rec |-> 0]
  /\ pc' = "observe"
  /\ UNCHANGED <<inFile, outFile, order>>

Observe(r) ==
  /\ pc = "observe" /\ r \in todo /\ \A s \in todo : r <= s
  /\ LET now == runNo * Span + Age[r]
         hit == FindMatch(mem, Ids[r], now)
         A   == IF hit = 0 THEN Append(mem, NewAsset(now, Ids[r])) ELSE mem
         u   == IF hit = 0 THEN Len(A) ELSE hit
     IN /\ mem' = Reassigned([A EXCEPT ![u] = Seen(@, r, now)], u, Ids[r])
        /\ observed' = observed \cup {u}
        /\ stamped' = [stamped EXCEPT ![r] = u]
  /\ todo' = todo \ {r}
  /\ UNCHANGED <<inFile, outFile, order, scan, runNo, pc>>

\* One turn of late_merge_pass: the first pair in ledger order, then again.
LateMerge ==
  /\ pc = "observe" /\ todo = {} /\ MergePairs(mem) # {}
  /\ LET u == Least({p[1] : p \in MergePairs(mem)})
         v == Least({p[2] : p \in {q \in MergePairs(mem) : q[1] = u}})
     IN mem' = Merged(mem, u, v)
  /\ UNCHANGED <<inFile, outFile, order, scan, runNo, pc, todo, observed, stamped>>

\* Mutant: records keep the stamp of a merged asset.
NotRestamped == stamped

\* Records of a merged asset are re-stamped, one step along.
Restamped ==
  [r \in Rec |-> IF stamped[r] # 0 /\ mem[stamped[r]].status = "merged"
                   THEN mem[stamped[r]].into ELSE stamped[r]]

\* The end of attach_asset_uids.
Attach ==
  /\ pc = "observe" /\ todo = {} /\ MergePairs(mem) = {}
  /\ stamped' = Restamped
  /\ pc' = "close"
  /\ UNCHANGED <<inFile, outFile, order, scan, runNo, mem, todo, observed>>

Absent(a) ==
  IF a.absent + 1 >= MissesToRetire
    THEN [a EXCEPT !.absent = @ + 1, !.status = "retired", !.pending = TRUE]
    ELSE [a EXCEPT !.absent = @ + 1]

\* attach_asset_uids keeps the first record of each asset; the loader takes the
\* families of the run from the records kept.
KeptRecords == {r \in scan : \A s \in scan : s < r => stamped[s] # stamped[r]}

\* Mutant: an asset no family covered is aged too.
ClosedAll(A, families) ==
  [u \in DOMAIN A |-> IF u \notin Active(A) \/ u \in observed THEN A[u] ELSE Absent(A[u])]

Closed(A, families) ==
  [u \in DOMAIN A |->
     IF u \notin Active(A) THEN A[u]
     ELSE IF u \in observed THEN [A[u] EXCEPT !.absent = 0]
     ELSE IF A[u].sources \cap families = {} THEN A[u] ELSE Absent(A[u])]

\* close_run, then save.
CloseRun ==
  /\ pc = "close"
  /\ mem' = Closed(mem, {Source[r] : r \in KeptRecords}) /\ outFile' = mem'
  /\ pc' = "idle" /\ observed' = {}
  /\ UNCHANGED <<inFile, order, scan, runNo, todo, stamped>>

\* The operator copies out/ over in/.
Carry ==
  /\ pc = "idle" /\ inFile # outFile
  /\ inFile' = outFile
  /\ UNCHANGED <<outFile, order, scan, runNo, pc, mem, todo, observed, stamped>>

\* The operator writes an override row about two assets of the last ledger.
WriteOrder(o) ==
  /\ pc = "idle" /\ order = NoOrder
  /\ {o.uid, o.to} \subseteq Active(outFile) /\ o.uid # o.to
  /\ order' = o
  /\ UNCHANGED <<inFile, outFile, scan, runNo, pc, mem, todo, observed, stamped>>

Next ==
  \/ \E recs \in SUBSET Rec : Begin(recs)
  \/ \E r \in Rec : Observe(r)
  \/ LateMerge \/ Attach \/ CloseRun \/ Carry
  \/ \E o \in Orders : WriteOrder(o)

Spec == Init /\ [][Next]_vars
-----------------------------------------------------------------------------
(* Properties. *)

Stamps == 0 .. MaxRuns * Span + Span
AssetType == [status: {"active", "merged", "retired"}, into: Nat, created: Stamps,
              absent: 0 .. MissesToRetire, anchor: Key \X Val, pending: BOOLEAN, sources: SUBSET Src,
              ids: [Key -> Seq([val: Val, seen: Stamps])]]

\* Every variable holds a value of its kind; a merged asset names another one.
TypeOK ==
  /\ {inFile, outFile, mem} \subseteq Seq(AssetType)
  /\ order \in Orders \cup {NoOrder}
  /\ scan \subseteq Rec /\ todo \subseteq scan /\ runNo \in 0 .. MaxRuns
  /\ pc \in {"idle", "observe", "close"}
  /\ observed \subseteq DOMAIN mem
  /\ stamped \in [Rec -> {0} \cup DOMAIN mem]
  /\ \A u \in DOMAIN mem : mem[u].status = "merged" => mem[u].into \in DOMAIN mem \ {u}

\* When the assets of a run are settled, an agent id, a MAC or an address is
\* live on one active asset only: late_merge_pass, DHCP reassignment and lease
\* together leave no host with two uids ("Merge actives that now share a
\* strong alias", shared/asset_ledger.py:947).  The operator's rows may say
\* otherwise.
OneHolder ==
  pc = "close" /\ order = NoOrder =>
    \A k \in {"agent", "mac", "ip"} : \A u, v \in Active(mem) :
      u # v => Alive(mem[u], k) \cap Alive(mem[v], k) = {}

\* Without such a row no asset carries two agent ids: two hosts never become
\* one, whatever weaker identifiers they share over time ("Same short name with
\* a conflicting stronger id still splits", shared/asset_ids.py:35).
NoConflation ==
  order = NoOrder => \A u \in Active(mem) : Cardinality(Alive(mem[u], "agent")) <= 1

\* After attach every record of the scan is stamped with an active asset.
StampedActive ==
  pc = "close" => \A r \in scan : mem[stamped[r]].status = "active"

\* A run never retires an asset one of its own records was stamped with
\* (close_run's "cm8_removal" is for what was not observed).
SeenNotRetired ==
  pc = "idle" => \A r \in scan : stamped[r] # 0 => ~mem[stamped[r]].pending

\* An asset is aged exactly when the run had a record of one of its collectors
\* and did not observe it ("Old asset retires after 2 covered runs",
\* tests/test_asset_ledger.py:128).
MissCounted ==
  [][pc = "close" /\ pc' = "idle" => \A u \in Active(mem) \ observed :
       LET covered == mem[u].sources \cap {Source[r] : r \in scan} # {} IN
         mem'[u].absent = mem[u].absent + (IF covered THEN 1 ELSE 0)]_vars

\* The weaker half of it: what no collector of the scan covers is not aged.
UncoveredNotAged ==
  [][pc = "close" /\ pc' = "idle" => \A u \in Active(mem) \ observed :
       mem[u].sources \cap {Source[r] : r \in scan} = {} => mem'[u] = mem[u]]_vars
=============================================================================
