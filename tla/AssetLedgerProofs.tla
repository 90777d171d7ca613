------------------------- MODULE AssetLedgerProofs -------------------------
(***************************************************************************)
(* What the asset ledger promises, for every set of records and every      *)
(* number of runs.  Shape says where the uids of a run may point.  Whether *)
(* two hosts become one asset depends on what their records know, so those *)
(* theorems are about two kinds of site: one where every host runs an      *)
(* agent (AgentSite; FleetInv is inductive there), and one where scanners  *)
(* know one MAC a record (LoneMac; LanInv).  Elsewhere the properties may  *)
(* fail.  The last part is about both ledgers, LoaderRun, at agent sites:  *)
(* which row a finding lies under, and that its id stays.                  *)
(***************************************************************************)
EXTENDS LoaderRun, FiniteSetTheorems, SequenceTheorems, WellFoundedInduction, TLAPS

(* A nonempty set of numbers has a least member.                           *)
LEMMA LeastIsLeast ==
  ASSUME NEW S \in SUBSET Nat, S # {}
  PROVE  Least(S) \in S /\ \A n \in S : Least(S) <= n
<1> DEFINE Less == {ss \in Nat \X Nat : ss[1] < ss[2]}
<1>1. Less = OpToRel(<, Nat)
  BY DEF OpToRel
<1>2. IsWellFoundedOn(Less, Nat)
  BY <1>1, NatLessThanWellFounded
<1> HIDE DEF Less
<1>3. PICK x \in S : \A y \in S : ~ (<<y, x>> \in Less)
  BY <1>2, WFMin
<1>4. ASSUME NEW y \in S PROVE x <= y
  <2>1. y < x => <<y, x>> \in Less
    BY DEF Less
  <2> QED BY <1>3, <2>1
<1> QED BY <1>4 DEF Least

-----------------------------------------------------------------------------
(* Drop: a recursive function over the places of a sequence.               *)

DropStep(seq, vals, f) ==
  [i \in 0 .. Len(seq) |->
     IF i = 0 THEN << >>
     ELSE IF seq[i].val \in vals THEN f[i - 1] ELSE Append(f[i - 1], seq[i])]

(* The function Drop is read off exists.                                   *)
LEMMA DropDefined ==
  ASSUME NEW S, NEW seq \in Seq(S), NEW vals
  PROVE  \E f : f = DropStep(seq, vals, f) /\ Drop(seq, vals) = f[Len(seq)]
<1> DEFINE Step(f, i) == IF seq[i].val \in vals THEN f[i - 1] ELSE Append(f[i - 1], seq[i])
           Upto(n, f) == /\ f = [i \in 0 .. n |-> f[i]]
                         /\ f[0] = << >>
                         /\ \A i \in 1 .. n : f[i] = Step(f, i)
           Bad == {n \in 0 .. Len(seq) : ~ \E f : Upto(n, f)}
<1>1. Len(seq) \in Nat
  OBVIOUS
<1>2. Bad = {}
  <2> SUFFICES ASSUME Bad # {} PROVE FALSE
    OBVIOUS
  <2>1. Bad \in SUBSET Nat
    BY <1>1
  <2> DEFINE n == Least(Bad)
  <2>2. n \in Bad /\ \A k \in Bad : n <= k
    BY <2>1, LeastIsLeast
  <2> HIDE DEF n
  <2>3. n # 0
    <3> DEFINE f == [i \in 0 .. 0 |-> << >>]
    <3>1. f = [i \in 0 .. 0 |-> f[i]] /\ f[0] = << >>
      OBVIOUS
    <3>2. Upto(0, f)
      BY <3>1
    <3> QED BY <2>2, <3>2
  <2>4. n \in 1 .. Len(seq) /\ n - 1 \in 0 .. Len(seq) /\ n - 1 \notin Bad
    <3>1. n \in 0 .. Len(seq) /\ n \in Nat
      BY <1>1, <2>2
    <3>2. n - 1 \in 0 .. Len(seq) /\ ~ (n <= n - 1) /\ n \in 1 .. Len(seq)
      BY <1>1, <2>3, <3>1
    <3> HIDE DEF Bad
    <3> QED BY <2>2, <3>2
  <2>5. PICK f : Upto(n - 1, f)
    BY <2>4
  <2> DEFINE g == [i \in 0 .. n |-> IF i = n THEN Step(f, n) ELSE f[i]]
  <2>6. n \in Nat /\ n >= 1
    BY <1>1, <2>4
  <2>7. g[0] = << >> /\ g = [i \in 0 .. n |-> g[i]]
    BY <2>5, <2>6
  <2>8. ASSUME NEW i \in 1 .. n PROVE g[i] = Step(g, i)
    <3>1. i \in Int /\ i - 1 \in 0 .. n /\ i - 1 # n /\ g[i - 1] = f[i - 1]
      BY <2>6
    <3>2. CASE i = n
      BY <3>1, <3>2
    <3>3. CASE i # n
      <4>1. i \in 1 .. n - 1 /\ i \in 0 .. n
        BY <2>6, <3>3
      <4>2. g[i] = f[i] /\ f[i] = Step(f, i)
        BY <2>5, <3>3, <4>1
      <4> QED BY <3>1, <4>2
    <3> QED BY <3>2, <3>3
  <2> HIDE DEF g, Step
  <2>9. Upto(n, g)
    BY <2>7, <2>8
  <2> QED BY <2>2, <2>9
<1>3. PICK f : Upto(Len(seq), f)
  BY <1>1, <1>2
<1>4. f = DropStep(seq, vals, f)
  <2> DEFINE g == DropStep(seq, vals, f)
  <2>1. \A i \in 0 .. Len(seq) : g[i] = f[i]
    <3> SUFFICES ASSUME NEW i \in 0 .. Len(seq) PROVE g[i] = f[i]
      OBVIOUS
    <3>1. g[i] = IF i = 0 THEN << >> ELSE Step(f, i)
      BY DEF DropStep
    <3>2. i # 0 => i \in 1 .. Len(seq)
      BY <1>1
    <3> HIDE DEF Step, g
    <3> QED BY <1>3, <3>1, <3>2
  <2>2. g = [i \in 0 .. Len(seq) |-> g[i]]
    BY DEF DropStep
  <2> HIDE DEF g, Step
  <2> QED BY <1>3, <2>1, <2>2 DEF g
<1> DEFINE left == CHOOSE h : h = DropStep(seq, vals, h)
<1>5. left = DropStep(seq, vals, left)
  BY <1>4
<1>6. Drop(seq, vals) = left[Len(seq)]
  BY DEF Drop, DropStep
<1> HIDE DEF left
<1> QED BY <1>5, <1>6

(* It leaves a sequence of aliases of the list, none with a dropped value. *)
LEMMA DropLeaves ==
  ASSUME NEW S, NEW seq \in Seq(S), NEW vals
  PROVE  /\ Drop(seq, vals) \in Seq(S)
         /\ \A j \in DOMAIN Drop(seq, vals) :
              /\ Drop(seq, vals)[j].val \notin vals
              /\ \E i \in DOMAIN seq : Drop(seq, vals)[j] = seq[i]
<1>1. PICK f : f = DropStep(seq, vals, f) /\ Drop(seq, vals) = f[Len(seq)]
  BY DropDefined
<1> DEFINE Left(s) == /\ s \in Seq(S)
                      /\ \A j \in DOMAIN s : /\ s[j].val \notin vals
                                             /\ \E i \in DOMAIN seq : s[j] = seq[i]
           Bad == {n \in 0 .. Len(seq) : ~ Left(f[n])}
<1>2. Len(seq) \in Nat
  OBVIOUS
<1>3. \A i \in 0 .. Len(seq) :
        f[i] = IF i = 0 THEN << >>
               ELSE IF seq[i].val \in vals THEN f[i - 1] ELSE Append(f[i - 1], seq[i])
  BY <1>1 DEF DropStep
<1>4. Bad = {}
  <2> SUFFICES ASSUME Bad # {} PROVE FALSE
    OBVIOUS
  <2>1. Bad \in SUBSET Nat
    BY <1>2
  <2> DEFINE n == Least(Bad)
  <2>2. n \in Bad /\ \A k \in Bad : n <= k
    BY <2>1, LeastIsLeast
  <2> HIDE DEF n
  <2>3. n \in 0 .. Len(seq) /\ n \in Nat
    BY <1>2, <2>2
  <2>4. Left(<< >>)
    OBVIOUS
  <2>5. n # 0
    BY <1>3, <2>2, <2>3, <2>4
  <2>6. n - 1 \in 0 .. Len(seq) /\ ~ (n <= n - 1) /\ n \in 1 .. Len(seq)
    BY <1>2, <2>3, <2>5
  <2>7. Left(f[n - 1])
    BY <2>2, <2>6
  <2>8. CASE seq[n].val \in vals
    <3>1. f[n] = f[n - 1]
      BY <1>3, <2>3, <2>5, <2>8
    <3> QED BY <2>2, <2>7, <3>1
  <2>9. CASE seq[n].val \notin vals
    <3> DEFINE s == f[n - 1]
               x == seq[n]
    <3>1. f[n] = Append(s, x)
      BY <1>3, <2>3, <2>5, <2>9
    <3>2. x \in S /\ n \in DOMAIN seq /\ x = seq[n]
      BY <2>6
    <3>3. Left(s) /\ x.val \notin vals
      BY <2>7, <2>9
    <3> HIDE DEF s, x
    <3>4. Append(s, x) \in Seq(S)
      BY <3>2, <3>3
    <3>5. ASSUME NEW j \in DOMAIN Append(s, x)
          PROVE  /\ Append(s, x)[j].val \notin vals
                 /\ \E i \in DOMAIN seq : Append(s, x)[j] = seq[i]
      <4>1. (j \in DOMAIN s /\ Append(s, x)[j] = s[j]) \/ Append(s, x)[j] = x
        BY <3>2, <3>3, <3>5
      <4> QED BY <3>2, <3>3, <4>1
    <3> QED BY <2>2, <3>1, <3>4, <3>5
  <2> QED BY <2>8, <2>9
<1>5. Left(f[Len(seq)])
  BY <1>2, <1>4
<1> QED BY <1>1, <1>5

-----------------------------------------------------------------------------
(* Typing.                                                                 *)

AssetShape ==
  [status: {"active", "merged", "retired"}, into: Nat, created: Nat, absent: Nat,
   anchor: {Anchor(Ids[r]) : r \in Rec}, pending: BOOLEAN, sources: SUBSET Src,
   ids: [Key -> Seq([val: Val, seen: Nat])]]

(* What every ledger, in a file or in memory, is.                          *)
Shape ==
  /\ inFile \in Seq(AssetShape) /\ outFile \in Seq(AssetShape) /\ mem \in Seq(AssetShape)
  /\ order \in Orders \cup {NoOrder}
  /\ runNo \in Nat /\ todo \subseteq Rec /\ scan \subseteq Rec
  /\ stamped \in [Rec -> Nat]
  /\ pc = "observe" => \A r \in Rec : stamped[r] # 0 => stamped[r] \in DOMAIN mem

LEMMA AliveIs ==
  ASSUME NEW a \in AssetShape, NEW k \in Key
  PROVE  /\ Alive(a, k) = {a.ids[k][i].val : i \in 1 .. Len(a.ids[k])}
         /\ Alive(a, k) \subseteq Val
         /\ a.ids[k] \in Seq([val: Val, seen: Nat])
<1>1. a.ids[k] \in Seq([val: Val, seen: Nat])
  BY DEF AssetShape
<1>2. Alive(a, k) = {a.ids[k][i].val : i \in 1 .. Len(a.ids[k])}
  BY <1>1 DEF Alive
<1> DEFINE s == a.ids[k]
           Alias == [val: Val, seen: Nat]
<1>3. \A i \in 1 .. Len(s) : s[i].val \in Val
  <2>1. s \in Seq(Alias)
    BY <1>1
  <2> HIDE DEF s, Alias
  <2>2. \A i \in 1 .. Len(s) : s[i] \in Alias
    BY <2>1, ElementOfSeq
  <2> QED BY <2>2 DEF Alias
<1> QED BY <1>1, <1>2, <1>3

(* Of the recorded aliases IdsOf takes some, at least one.                 *)
LEMMA IdsOfAlive ==
  ASSUME NEW a \in AssetShape, NEW k \in Key
  PROVE  /\ IdsOf(a)[k] \subseteq Alive(a, k)
         /\ IdsOf(a)[k] = {} => Alive(a, k) = {}
         /\ k \in Several => IdsOf(a)[k] = Alive(a, k)
<1>1. IdsOf(a)[k] = IF k \in Several \/ a.ids[k] = << >> THEN Alive(a, k)
                    ELSE {a.ids[k][Len(a.ids[k])].val}
  BY DEF IdsOf
<1>2. a.ids[k] # << >> => a.ids[k][Len(a.ids[k])].val \in Alive(a, k)
  <2> SUFFICES ASSUME a.ids[k] # << >> PROVE a.ids[k][Len(a.ids[k])].val \in Alive(a, k)
    OBVIOUS
  <2>1. a.ids[k] \in Seq([val: Val, seen: Nat])
    BY AliveIs
  <2>2. Len(a.ids[k]) \in DOMAIN a.ids[k]
    BY <2>1
  <2> QED BY <2>2 DEF Alive
<1> QED BY <1>1, <1>2

-----------------------------------------------------------------------------
(* What FindMatch finds: the asset some key hits, no stronger key hitting  *)
(* any; or one found by its short name, when no key hits.                  *)
LEMMA FindMatchIs ==
  ASSUME NEW A \in Seq(AssetShape), NEW obs, NEW now
  PROVE  \/ /\ FindMatch(A, obs, now) = 0
            /\ \A u \in Active(A), k \in Key : ~ MatchKey(obs, A[u], k, now)
         \/ /\ FindMatch(A, obs, now) \in Active(A)
            /\ \E k \in Key : /\ MatchKey(obs, A[FindMatch(A, obs, now)], k, now)
                              /\ \A u \in Active(A), j \in Key :
                                   MatchKey(obs, A[u], j, now) => Rank[j] <= Rank[k]
         \/ /\ FindMatch(A, obs, now) \in Active(A)
            /\ ~ Conflict(obs, IdsOf(A[FindMatch(A, obs, now)]), "hostname")
            /\ \A u \in Active(A), k \in Key : ~ MatchKey(obs, A[u], k, now)
<1> DEFINE hits(k) == {u \in Active(A) : MatchKey(obs, A[u], k, now)}
           keys == {k \in Key : hits(k) # {}}
           best == CHOOSE k \in keys : \A j \in keys : Rank[j] <= Rank[k]
           named == {u \in Active(A) : /\ obs["hostname"] \cap Labels(A[u]) # {}
                                       /\ ~ Conflict(obs, IdsOf(A[u]), "hostname")}
           short == /\ obs["fqdn"] = {} /\ Cardinality(named) = 1
                    /\ Ambiguous(A, obs["hostname"]) = {}
<1>1. FindMatch(A, obs, now) = IF keys # {} THEN Least(hits(best))
                               ELSE IF short THEN Least(named) ELSE 0
  BY DEF FindMatch
<1>2. Active(A) \in SUBSET Nat
  BY DEF Active
<1>3. CASE keys # {}
  <2>1. keys \in SUBSET {"agent", "mac", "fqdn", "ip", "hostname"}
    BY DEF Key
  <2> HIDE DEF keys
  <2>2. \E k \in keys : \A j \in keys : Rank[j] <= Rank[k]
    BY <1>3, <2>1 DEF Rank, Key
  <2>3. best \in keys /\ \A j \in keys : Rank[j] <= Rank[best]
    BY <2>2
  <2> HIDE DEF best
  <2>4. best \in Key /\ hits(best) # {} /\ hits(best) \in SUBSET Nat
    BY <1>2, <2>3 DEF keys
  <2>5. Least(hits(best)) \in hits(best)
    BY <2>4, LeastIsLeast
  <2>6. \A u \in Active(A), j \in Key : MatchKey(obs, A[u], j, now) => j \in keys
    BY DEF keys
  <2> QED BY <1>1, <1>3, <2>3, <2>4, <2>5, <2>6
<1>4. CASE keys = {}
  <2>1. \A u \in Active(A), k \in Key : ~ MatchKey(obs, A[u], k, now)
    BY <1>4
  <2>2. CASE short
    <3>1. named # {}
      <4> HIDE DEF named
      <4>1. named = {} => Cardinality(named) = 0
        BY FS_EmptySet
      <4> QED BY <2>2, <4>1
    <3>2. Least(named) \in named
      BY <1>2, <3>1, LeastIsLeast
    <3> QED BY <1>1, <1>4, <2>1, <2>2, <3>2
  <2>3. CASE ~ short
    BY <1>1, <1>4, <2>1, <2>3
  <2> QED BY <2>2, <2>3
<1> QED BY <1>3, <1>4

(* Renewed, on each identifier.                                            *)
LEMMA RenewedIs ==
  ASSUME NEW a \in AssetShape, NEW obs
  PROVE  /\ Renewed(a, obs) \in AssetShape
         /\ Renewed(a, obs).status = a.status /\ Renewed(a, obs).anchor = a.anchor
         /\ \A k \in Key : Alive(Renewed(a, obs), k) \subseteq Alive(a, k)
         /\ \A k \in Key \ {"ip", "fqdn"} : Alive(Renewed(a, obs), k) = Alive(a, k)
<1> DEFINE Replaces(k) == /\ Cardinality(obs[k]) = 1 /\ Len(a.ids[k]) = 1
                          /\ Alive(a, k) # obs[k]
           sameNet == {Net[v] : v \in Alive(a, "ip")} = {Net[v] : v \in obs["ip"]}
           ip == IF Replaces("ip") /\ sameNet THEN << >> ELSE a.ids["ip"]
           fqdn == IF Replaces("fqdn") THEN << >> ELSE a.ids["fqdn"]
           b == Renewed(a, obs)
<1>1. b = [a EXCEPT !.ids["ip"] = IF Replaces("ip") /\ sameNet THEN << >> ELSE @,
                    !.ids["fqdn"] = IF Replaces("fqdn") THEN << >> ELSE @]
  BY DEF Renewed
<1>2. a.ids \in [Key -> Seq([val: Val, seen: Nat])] /\ "ip" \in Key /\ "fqdn" \in Key
  BY DEF AssetShape, Key
<1>3. b = [a EXCEPT !.ids = [@ EXCEPT !["ip"] = ip, !["fqdn"] = fqdn]]
  BY <1>1, <1>2
<1> HIDE DEF Replaces, sameNet
<1> DEFINE ids == [a.ids EXCEPT !["ip"] = ip, !["fqdn"] = fqdn]
<1>4. ids \in [Key -> Seq([val: Val, seen: Nat])]
  <2> DEFINE Alias == [val: Val, seen: Nat]
  <2>1. a.ids \in [Key -> Seq(Alias)]
    BY <1>2
  <2> HIDE DEF Alias
  <2>2. ip \in Seq(Alias) /\ fqdn \in Seq(Alias)
    BY <1>2, <2>1, EmptySeq
  <2> HIDE DEF ip, fqdn
  <2>3. ids \in [Key -> Seq(Alias)]
    BY <2>1, <2>2
  <2> QED BY <2>3 DEF Alias
<1>5. \A k \in Key : ids[k] = << >> \/ ids[k] = a.ids[k]
  BY <1>2
<1>6. \A k \in Key \ {"ip", "fqdn"} : ids[k] = a.ids[k]
  BY <1>2
<1>7. b = [a EXCEPT !.ids = ids]
  BY <1>2, <1>3
<1> HIDE DEF ids, b
<1>8. b \in AssetShape /\ b.status = a.status /\ b.anchor = a.anchor /\ b.ids = ids
  BY <1>4, <1>7 DEF AssetShape
<1>9. ASSUME NEW k \in Key PROVE Alive(b, k) \subseteq Alive(a, k)
  BY <1>5, <1>8 DEF Alive
<1>10. ASSUME NEW k \in Key \ {"ip", "fqdn"} PROVE Alive(b, k) = Alive(a, k)
  BY <1>6, <1>8 DEF Alive
<1> QED BY <1>8, <1>9, <1>10 DEF b

(* A finite set is listed in as many places as it has members.             *)
LEMMA SetIsListed ==
  ASSUME NEW S, IsFiniteSet(S)
  PROVE  \E s \in [1 .. Cardinality(S) -> S] : \A x \in S : \E i \in DOMAIN s : s[i] = x
<1>1. Cardinality(S) \in Nat /\ ExistsBijection(1 .. Cardinality(S), S)
  BY FS_CardinalityType
<1>2. PICK s \in Bijection(1 .. Cardinality(S), S) : TRUE
  BY <1>1 DEF ExistsBijection
<1>3. s \in [1 .. Cardinality(S) -> S] /\ \A x \in S : \E i \in 1 .. Cardinality(S) : s[i] = x
  BY <1>2 DEF Bijection, Surjection
<1> QED BY <1>3

(* Aliased keeps the values of a list and adds the observed ones.          *)
LEMMA AliasedIs ==
  ASSUME NEW a \in AssetShape, NEW obs \in [Key -> SUBSET Val],
         \A k \in Key : IsFiniteSet(obs[k]), NEW now \in Nat
  PROVE  /\ Aliased(a, obs, now) \in AssetShape
         /\ Aliased(a, obs, now).status = a.status /\ Aliased(a, obs, now).sources = a.sources
         /\ Aliased(a, obs, now).anchor = a.anchor
         /\ \A k \in Key : Alive(Aliased(a, obs, now), k) = Alive(a, k) \cup obs[k]
<1> DEFINE Alias == [val: Val, seen: Nat]
           touched(k) == [i \in DOMAIN a.ids[k] |->
             IF /\ a.ids[k][i].val \in obs[k]
                /\ \A j \in i + 1 .. Len(a.ids[k]) : a.ids[k][j].val # a.ids[k][i].val
               THEN [a.ids[k][i] EXCEPT !.seen = Stamp(k, now)] ELSE a.ids[k][i]]
           fresh(k) == {[val |-> v, seen |-> Stamp(k, now)] : v \in obs[k] \ Alive(a, k)}
           listed(S) == CHOOSE s \in [1 .. Cardinality(S) -> S] :
                          \A x \in S : \E i \in DOMAIN s : s[i] = x
           Body(k) == touched(k) \o listed(fresh(k))
           ids == [k \in Key |-> Body(k)]
           b == Aliased(a, obs, now)
<1>1. b = [a EXCEPT !.ids = ids]
  BY DEF Aliased
<1>2. ASSUME NEW k \in Key
      PROVE  /\ ids[k] \in Seq(Alias)
             /\ {ids[k][i].val : i \in DOMAIN ids[k]} = Alive(a, k) \cup obs[k]
  <2> DEFINE s == a.ids[k]
             t == touched(k)
             F == fresh(k)
             l == listed(F)
  <2>1. s \in Seq(Alias) /\ Alive(a, k) = {s[i].val : i \in 1 .. Len(s)} /\ Alive(a, k) \subseteq Val
    BY AliveIs
  <2>2. Stamp(k, now) \in Nat
    BY DEF Stamp
  <2>3. t \in Seq(Alias) /\ Len(t) = Len(s) /\ \A i \in 1 .. Len(s) : t[i].val = s[i].val
    <3> DEFINE hit(i) == /\ s[i].val \in obs[k]
                         /\ \A j \in i + 1 .. Len(s) : s[j].val # s[i].val
    <3>1. t = [i \in DOMAIN s |-> IF hit(i) THEN [s[i] EXCEPT !.seen = Stamp(k, now)] ELSE s[i]]
      OBVIOUS
    <3> HIDE DEF hit, t, s
    <3>2. DOMAIN s = 1 .. Len(s) /\ Len(s) \in Nat /\ \A i \in 1 .. Len(s) : s[i] \in Alias
      <4> HIDE DEF Alias
      <4> QED BY <2>1, ElementOfSeq
    <3>3. ASSUME NEW i \in 1 .. Len(s) PROVE t[i] \in Alias /\ t[i].val = s[i].val
      BY <2>2, <3>1, <3>2
    <3> HIDE DEF Alias
    <3>4. t = [i \in 1 .. Len(s) |-> t[i]]
      BY <3>1, <3>2
    <3>5. t \in [1 .. Len(s) -> Alias]
      BY <3>3, <3>4
    <3>6. t \in Seq(Alias) /\ Len(t) = Len(s)
      BY <3>2, <3>5
    <3> QED BY <3>3, <3>6
  <2> DEFINE new == obs[k] \ Alive(a, k)
             Made(v) == [val |-> v, seen |-> Stamp(k, now)]
  <2>4. F \subseteq Alias /\ {x.val : x \in F} = new
    <3>1. new \subseteq Val
      OBVIOUS
    <3>2. F = {Made(v) : v \in new}
      OBVIOUS
    <3>3. \A v \in new : Made(v) \in Alias /\ Made(v).val = v
      BY <2>2, <3>1
    <3> HIDE DEF F, new, Made
    <3> QED BY <3>2, <3>3
  <2>5. IsFiniteSet(F)
    <3>1. IsFiniteSet(new)
      BY FS_Subset
    <3> DEFINE f == [v \in new |-> Made(v)]
    <3>2. F = {Made(v) : v \in new}
      OBVIOUS
    <3> HIDE DEF F, new, Made
    <3>3. f \in Surjection(new, F)
      BY <3>2 DEF Surjection
    <3> HIDE DEF f
    <3> QED BY <3>1, <3>3, FS_Surjection
  <2> HIDE DEF t, F, s
  <2>6. l \in [1 .. Cardinality(F) -> F] /\ \A x \in F : \E i \in DOMAIN l : l[i] = x
    BY <2>5, SetIsListed
  <2>7. Cardinality(F) \in Nat
    BY <2>5, FS_CardinalityType
  <2> HIDE DEF l
  <2>8. l \in Seq(Alias) /\ Len(l) = Cardinality(F) /\ DOMAIN l = 1 .. Len(l)
    <3> HIDE DEF Alias
    <3> QED BY <2>4, <2>6, <2>7
  <2>9. {l[i].val : i \in 1 .. Len(l)} = new
    <3>1. \A i \in 1 .. Len(l) : l[i] \in F
      BY <2>6, <2>7, <2>8
    <3>2. \A x \in F : \E i \in 1 .. Len(l) : l[i] = x
      BY <2>6, <2>8
    <3> QED BY <2>4, <3>1, <3>2
  <2>10. ids[k] = t \o l
    BY DEF t, F, l
  <2>11. /\ t \o l \in Seq(Alias) /\ Len(t \o l) = Len(t) + Len(l)
         /\ \A i \in 1 .. Len(t) : (t \o l)[i] = t[i]
         /\ \A i \in 1 .. Len(l) : (t \o l)[Len(t) + i] = l[i]
    <3> HIDE DEF Alias
    <3>1. t \in Seq(Alias) /\ l \in Seq(Alias)
      BY <2>3, <2>8
    <3>2. Len(t) \in Nat /\ Len(l) \in Nat
      BY <3>1
    <3> QED BY <3>1, <3>2, ConcatProperties
  <2> DEFINE c == t \o l
  <2> HIDE DEF c
  <2>12. {c[i].val : i \in 1 .. Len(c)} = {t[i].val : i \in 1 .. Len(t)} \cup {l[i].val : i \in 1 .. Len(l)}
    <3>1. Len(t) \in Nat /\ Len(l) \in Nat /\ Len(c) = Len(t) + Len(l)
      BY <2>3, <2>8, <2>11 DEF c
    <3>2. ASSUME NEW i \in 1 .. Len(c)
          PROVE  i \in 1 .. Len(t) \/ (i - Len(t) \in 1 .. Len(l) /\ i = Len(t) + (i - Len(t)))
      BY <3>1
    <3>3. \A i \in 1 .. Len(t) : i \in 1 .. Len(c) /\ c[i] = t[i]
      BY <2>11, <3>1 DEF c
    <3>4. \A i \in 1 .. Len(l) : Len(t) + i \in 1 .. Len(c) /\ c[Len(t) + i] = l[i]
      BY <2>11, <3>1 DEF c
    <3>5. ASSUME NEW i \in 1 .. Len(c)
          PROVE  c[i].val \in {t[h].val : h \in 1 .. Len(t)} \cup {l[h].val : h \in 1 .. Len(l)}
      <4>1. CASE i \in 1 .. Len(t)
        BY <3>3, <4>1
      <4>2. CASE i - Len(t) \in 1 .. Len(l) /\ i = Len(t) + (i - Len(t))
        <5>1. PICK h \in 1 .. Len(l) : i = Len(t) + h
          BY <4>2
        <5>2. c[i] = l[h]
          BY <3>4, <5>1
        <5> QED BY <5>2
      <4> QED BY <3>2, <4>1, <4>2
    <3>6. \A i \in 1 .. Len(t) : t[i].val \in {c[h].val : h \in 1 .. Len(c)}
      BY <3>3
    <3>7. \A i \in 1 .. Len(l) : l[i].val \in {c[h].val : h \in 1 .. Len(c)}
      <4> SUFFICES ASSUME NEW i \in 1 .. Len(l) PROVE l[i].val \in {c[h].val : h \in 1 .. Len(c)}
        OBVIOUS
      <4>1. Len(t) + i \in 1 .. Len(c) /\ c[Len(t) + i] = l[i]
        BY <3>4
      <4> QED BY <4>1
    <3> QED BY <3>5, <3>6, <3>7
  <2>13. {t[i].val : i \in 1 .. Len(t)} = Alive(a, k)
    BY <2>1, <2>3
  <2>14. c \in Seq(Alias) /\ DOMAIN c = 1 .. Len(c) /\ ids[k] = c
    <3>1. c \in Seq(Alias) /\ ids[k] = c
      BY <2>10, <2>11 DEF c
    <3> HIDE DEF Alias, ids
    <3>2. DOMAIN c = 1 .. Len(c)
      BY <3>1
    <3> QED BY <3>1, <3>2
  <2> HIDE DEF ids
  <2> QED BY <2>9, <2>12, <2>13, <2>14
<1>3. ids \in [Key -> Seq(Alias)]
  <2> HIDE DEF Body, Alias
  <2>1. \A k \in Key : Body(k) \in Seq(Alias)
    BY <1>2
  <2> QED BY <2>1
<1> HIDE DEF ids, b
<1>4. /\ b \in AssetShape /\ b.status = a.status /\ b.anchor = a.anchor
      /\ b.sources = a.sources /\ b.ids = ids
  BY <1>1, <1>3 DEF AssetShape
<1> QED BY <1>2, <1>4 DEF Alive, b

(* Seen: what one record does to the asset it is matched with.             *)
LEMMA SeenIs ==
  ASSUME NEW a \in AssetShape, NEW r \in Rec, NEW now \in Nat
  PROVE  /\ Seen(a, r, now) \in AssetShape
         /\ Seen(a, r, now).status = a.status /\ Seen(a, r, now).anchor = a.anchor
         /\ \A k \in Key : /\ Alive(Seen(a, r, now), k) \subseteq Alive(a, k) \cup Ids[r][k]
                           /\ Ids[r][k] \subseteq Alive(Seen(a, r, now), k)
         /\ \A k \in Key \ {"ip", "fqdn"} :
              Alive(Seen(a, r, now), k) = Alive(a, k) \cup Ids[r][k]
<1> DEFINE b == Renewed(a, Ids[r])
           c == Aliased(b, Ids[r], now)
           d == Seen(a, r, now)
<1>1. Ids[r] \in [Key -> SUBSET Val] /\ (\A k \in Key : IsFiniteSet(Ids[r][k])) /\ Source[r] \in Src
  BY AssetConstants
<1>2. /\ b \in AssetShape /\ b.status = a.status /\ b.anchor = a.anchor
      /\ \A k \in Key : Alive(b, k) \subseteq Alive(a, k)
      /\ \A k \in Key \ {"ip", "fqdn"} : Alive(b, k) = Alive(a, k)
  BY RenewedIs
<1>3. d = [c EXCEPT !.sources = @ \cup {Source[r]}, !.absent = 0, !.pending = FALSE]
  BY DEF Seen
<1> HIDE DEF b
<1>4. /\ c \in AssetShape /\ c.status = b.status /\ c.anchor = b.anchor
      /\ \A k \in Key : Alive(c, k) = Alive(b, k) \cup Ids[r][k]
  BY <1>1, <1>2, AliasedIs
<1> HIDE DEF c, d
<1>5. d \in AssetShape /\ d.status = c.status /\ d.anchor = c.anchor /\ d.ids = c.ids
  BY <1>1, <1>3, <1>4 DEF AssetShape
<1>6. \A k \in Key : Alive(d, k) = Alive(b, k) \cup Ids[r][k]
  BY <1>4, <1>5 DEF Alive
<1> HIDE DEF Key
<1> QED BY <1>2, <1>4, <1>5, <1>6 DEF d

(* A new asset has no identifier yet.                                      *)
LEMMA NewAssetIs ==
  ASSUME NEW now \in Nat, NEW r \in Rec
  PROVE  /\ NewAsset(now, Ids[r]) \in AssetShape /\ NewAsset(now, Ids[r]).status = "active"
         /\ \A k \in Key : Alive(NewAsset(now, Ids[r]), k) = {}
<1> DEFINE a == NewAsset(now, Ids[r])
           Alias == [val: Val, seen: Nat]
           ids == [k \in Key |-> << >>]
<1>1. a = [status |-> "active", into |-> 0, created |-> now, absent |-> 0, anchor |-> Anchor(Ids[r]),
           pending |-> FALSE, sources |-> {}, ids |-> ids]
  BY DEF NewAsset
<1>2. ids \in [Key -> Seq(Alias)] /\ \A k \in Key : ids[k] = << >>
  <2> HIDE DEF Alias
  <2> QED BY EmptySeq
<1>3. Anchor(Ids[r]) \in {Anchor(Ids[s]) : s \in Rec}
  OBVIOUS
<1> HIDE DEF a, ids
<1>4. a \in AssetShape /\ a.status = "active" /\ a.ids = ids
  BY <1>1, <1>2, <1>3 DEF AssetShape
<1>5. DOMAIN << >> = {}
  OBVIOUS
<1>6. \A k \in Key : Alive(a, k) = {}
  BY <1>2, <1>4, <1>5 DEF Alive
<1> QED BY <1>4, <1>6 DEF a

(* _maybe_reassign_ip, on each asset of a ledger.                          *)
LEMMA ReassignedIs ==
  ASSUME NEW A \in Seq(AssetShape), NEW u, NEW obs
  PROVE  /\ Reassigned(A, u, obs) \in Seq(AssetShape)
         /\ DOMAIN Reassigned(A, u, obs) = DOMAIN A
         /\ \A w \in DOMAIN A :
              /\ Reassigned(A, u, obs)[w].status = A[w].status
              /\ Reassigned(A, u, obs)[w].anchor = A[w].anchor
              /\ \A k \in Key : Alive(Reassigned(A, u, obs)[w], k) \subseteq Alive(A[w], k)
              /\ \A k \in Key \ {"ip"} : Alive(Reassigned(A, u, obs)[w], k) = Alive(A[w], k)
              /\ w = u => Reassigned(A, u, obs)[w] = A[w]
              /\ w # u /\ w \in Active(A) /\ Conflict(obs, IdsOf(A[w]), "ip") =>
                   Alive(Reassigned(A, u, obs)[w], "ip") \cap obs["ip"] = {}
<1> DEFINE Hit(w) == w # u /\ w \in Active(A) /\ Conflict(obs, IdsOf(A[w]), "ip")
           Lost(w) == [A[w] EXCEPT !.ids["ip"] = Drop(@, obs["ip"])]
           B == Reassigned(A, u, obs)
           Alias == [val: Val, seen: Nat]
<1>1. B = [w \in DOMAIN A |-> IF Hit(w) THEN Lost(w) ELSE A[w]]
  BY DEF Reassigned
<1>2. \A w \in DOMAIN A : A[w] \in AssetShape
  BY ElementOfSeq
<1>3. ASSUME NEW w \in DOMAIN A
      PROVE  /\ Lost(w) \in AssetShape /\ Lost(w).status = A[w].status /\ Lost(w).anchor = A[w].anchor
             /\ \A k \in Key \ {"ip"} : Alive(Lost(w), k) = Alive(A[w], k)
             /\ Alive(Lost(w), "ip") \subseteq Alive(A[w], "ip")
             /\ Alive(Lost(w), "ip") \cap obs["ip"] = {}
  <2> DEFINE a == A[w]
             s == a.ids["ip"]
             left == Drop(s, obs["ip"])
             ids == [a.ids EXCEPT !["ip"] = left]
             b == Lost(w)
  <2>1. a \in AssetShape /\ "ip" \in Key
    BY <1>2 DEF Key
  <2> HIDE DEF a
  <2>2. s \in Seq(Alias) /\ a.ids \in [Key -> Seq(Alias)]
    BY <2>1 DEF AssetShape
  <2> HIDE DEF s
  <2>3. /\ left \in Seq(Alias)
        /\ \A j \in DOMAIN left : left[j].val \notin obs["ip"] /\ \E i \in DOMAIN s : left[j] = s[i]
    <3> HIDE DEF Alias
    <3> QED BY <2>2, DropLeaves
  <2> HIDE DEF left
  <2>4. ids \in [Key -> Seq(Alias)]
    <3> HIDE DEF Alias
    <3> QED BY <2>1, <2>2, <2>3
  <2>5. ids["ip"] = left /\ \A k \in Key \ {"ip"} : ids[k] = a.ids[k]
    BY <2>1, <2>2
  <2>6. b = [a EXCEPT !.ids = ids]
    BY <2>1, <2>2 DEF a, s, left
  <2> HIDE DEF ids, b
  <2>7. b \in AssetShape /\ b.status = a.status /\ b.anchor = a.anchor /\ b.ids = ids
    BY <2>1, <2>4, <2>6 DEF AssetShape
  <2>8. \A k \in Key \ {"ip"} : Alive(b, k) = Alive(a, k)
    BY <2>5, <2>7 DEF Alive
  <2>9. Alive(b, "ip") \subseteq Alive(a, "ip") /\ Alive(b, "ip") \cap obs["ip"] = {}
    <3>1. /\ Alive(b, "ip") = {left[j].val : j \in DOMAIN left}
          /\ Alive(a, "ip") = {s[i].val : i \in DOMAIN s}
      BY <2>5, <2>7 DEF Alive, s
    <3>2. ASSUME NEW j \in DOMAIN left
          PROVE  left[j].val \notin obs["ip"] /\ left[j].val \in {s[i].val : i \in DOMAIN s}
      <4>1. PICK i \in DOMAIN s : left[j] = s[i]
        BY <2>3
      <4> QED BY <2>3, <4>1
    <3> QED BY <3>1, <3>2
  <2> QED BY <2>7, <2>8, <2>9 DEF a, b
<1> HIDE DEF Lost, B
<1>4. \A w \in DOMAIN A : B[w] \in AssetShape
  BY <1>1, <1>2, <1>3
<1>5. DOMAIN B = DOMAIN A /\ B \in Seq(AssetShape)
  <2>1. DOMAIN A = 1 .. Len(A) /\ Len(A) \in Nat
    OBVIOUS
  <2>2. B \in [1 .. Len(A) -> AssetShape]
    BY <1>1, <1>4, <2>1
  <2> QED BY <2>1, <2>2
<1>6. ASSUME NEW w \in DOMAIN A
      PROVE  /\ B[w].status = A[w].status /\ B[w].anchor = A[w].anchor
             /\ \A k \in Key : Alive(B[w], k) \subseteq Alive(A[w], k)
             /\ \A k \in Key \ {"ip"} : Alive(B[w], k) = Alive(A[w], k)
             /\ w = u => B[w] = A[w]
             /\ Hit(w) => Alive(B[w], "ip") \cap obs["ip"] = {}
  <2>1. CASE Hit(w)
    <3>1. B[w] = Lost(w)
      BY <1>1, <2>1
    <3> QED BY <1>3, <2>1, <3>1
  <2>2. CASE ~ Hit(w)
    <3>1. B[w] = A[w]
      BY <1>1, <2>2
    <3> QED BY <2>2, <3>1
  <2> QED BY <2>1, <2>2
<1> QED BY <1>5, <1>6 DEF B

(* merge, on each asset of a ledger: one of the two is no longer active,   *)
(* the other holds the identifiers of both.                                *)
Joined(A, B, u, v) ==
  /\ B \in Seq(AssetShape) /\ DOMAIN B = DOMAIN A
  /\ \A w \in DOMAIN A \ {u, v} : B[w] = A[w]
  /\ \E keep, gone \in {u, v} :
       /\ keep # gone /\ {keep, gone} = {u, v}
       /\ B[gone].status = "merged" /\ B[gone].ids = A[gone].ids
       /\ B[keep].status = A[keep].status
       /\ \A k \in Key : Alive(B[keep], k) = Alive(A[u], k) \cup Alive(A[v], k)

LEMMA MergedIs ==
  ASSUME NEW A \in Seq(AssetShape), NEW u \in DOMAIN A, NEW v \in DOMAIN A, u # v
  PROVE  Joined(A, Merged(A, u, v), u, v)
<1> DEFINE keep == IF A[u].created <= A[v].created THEN u ELSE v
           gone == IF keep = u THEN v ELSE u
           B == Merged(A, u, v)
           Alias == [val: Val, seen: Nat]
           ids == [k \in Key |-> A[keep].ids[k] \o A[gone].ids[k]]
           sources == A[keep].sources \cup A[gone].sources
           kept == [A[keep] EXCEPT !.ids = ids, !.sources = sources]
           left == [A[gone] EXCEPT !.status = "merged", !.into = keep]
<1>1. keep \in {u, v} /\ gone \in {u, v} /\ keep # gone /\ {keep, gone} = {u, v}
  OBVIOUS
<1>2. keep \in DOMAIN A /\ gone \in DOMAIN A /\ keep \in Nat
  OBVIOUS
<1>3. B = [A EXCEPT ![keep].ids = [k \in Key |-> A[keep].ids[k] \o A[gone].ids[k]],
                    ![keep].sources = @ \cup A[gone].sources,
                    ![gone].status = "merged", ![gone].into = keep]
  BY DEF Merged
<1> HIDE DEF keep, gone
<1>4. A[keep] \in AssetShape /\ A[gone] \in AssetShape
  BY <1>2, ElementOfSeq
<1>5. B = [[A EXCEPT ![keep] = kept] EXCEPT ![gone] = left]
  BY <1>1, <1>2, <1>3, <1>4 DEF AssetShape
<1>6. ids \in [Key -> Seq(Alias)]
  <2>1. A[keep].ids \in [Key -> Seq(Alias)] /\ A[gone].ids \in [Key -> Seq(Alias)]
    BY <1>4 DEF AssetShape
  <2> HIDE DEF Alias
  <2> QED BY <2>1, ConcatProperties
<1>7. \A k \in Key : ids[k] = A[keep].ids[k] \o A[gone].ids[k]
  OBVIOUS
<1> HIDE DEF ids, B
<1>8. kept \in AssetShape /\ kept.status = A[keep].status /\ kept.ids = ids
  BY <1>4, <1>6 DEF AssetShape
<1>9. left \in AssetShape /\ left.status = "merged" /\ left.ids = A[gone].ids
  BY <1>2, <1>4 DEF AssetShape
<1> HIDE DEF kept, left
<1>10. B[keep] = kept /\ B[gone] = left /\ (\A w \in DOMAIN A \ {u, v} : B[w] = A[w]) /\ DOMAIN B = DOMAIN A
  BY <1>1, <1>2, <1>5
<1>11. B \in Seq(AssetShape)
  BY <1>2, <1>5, <1>8, <1>9, ExceptSeq
<1>12. ASSUME NEW k \in Key PROVE Alive(kept, k) = Alive(A[u], k) \cup Alive(A[v], k)
  <2> DEFINE s == A[keep].ids[k]
             t == A[gone].ids[k]
             c == s \o t
  <2>1. s \in Seq(Alias) /\ t \in Seq(Alias)
    BY <1>4, AliveIs
  <2>2. /\ Alive(A[keep], k) = {s[i].val : i \in 1 .. Len(s)}
        /\ Alive(A[gone], k) = {t[i].val : i \in 1 .. Len(t)}
    BY <1>4, AliveIs
  <2>3. kept.ids[k] = c /\ Alive(kept, k) = {c[i].val : i \in 1 .. Len(c)}
    <3>1. kept.ids[k] = c
      BY <1>7, <1>8
    <3>2. Alive(kept, k) = {kept.ids[k][i].val : i \in 1 .. Len(kept.ids[k])}
      BY <1>8, AliveIs
    <3> HIDE DEF c
    <3> QED BY <3>1, <3>2
  <2> HIDE DEF s, t, Alias
  <2>4. /\ Len(s) \in Nat /\ Len(t) \in Nat /\ Len(c) = Len(s) + Len(t)
        /\ \A i \in 1 .. Len(s) + Len(t) : c[i] = IF i <= Len(s) THEN s[i] ELSE t[i - Len(s)]
    BY <2>1, ConcatProperties
  <2> HIDE DEF c
  <2>5. ASSUME NEW i \in 1 .. Len(c)
        PROVE  c[i].val \in {s[h].val : h \in 1 .. Len(s)} \cup {t[h].val : h \in 1 .. Len(t)}
    <3>1. CASE i <= Len(s)
      <4>1. i \in 1 .. Len(s) /\ c[i] = s[i]
        BY <2>4, <3>1
      <4> QED BY <4>1
    <3>2. CASE ~ (i <= Len(s))
      <4>1. i - Len(s) \in 1 .. Len(t) /\ c[i] = t[i - Len(s)]
        BY <2>4, <3>2
      <4> QED BY <4>1
    <3> QED BY <3>1, <3>2
  <2>6. ASSUME NEW i \in 1 .. Len(s) PROVE s[i].val \in {c[h].val : h \in 1 .. Len(c)}
    <3>1. i \in 1 .. Len(c) /\ c[i] = s[i]
      BY <2>4
    <3> QED BY <3>1
  <2>7. ASSUME NEW i \in 1 .. Len(t) PROVE t[i].val \in {c[h].val : h \in 1 .. Len(c)}
    <3>1. Len(s) + i \in 1 .. Len(c) /\ ~ (Len(s) + i <= Len(s)) /\ (Len(s) + i) - Len(s) = i
      BY <2>4
    <3>2. c[Len(s) + i] = t[i]
      BY <2>4, <3>1
    <3> QED BY <3>1, <3>2
  <2>8. Alive(kept, k) = Alive(A[keep], k) \cup Alive(A[gone], k)
    <3> DEFINE C == {c[i].val : i \in 1 .. Len(c)}
               X == {s[i].val : i \in 1 .. Len(s)}
               Y == {t[i].val : i \in 1 .. Len(t)}
    <3>1. C \subseteq X \cup Y
      BY <2>5
    <3>2. X \subseteq C
      BY <2>6
    <3>3. Y \subseteq C
      BY <2>7
    <3>4. C = X \cup Y
      <4> HIDE DEF C, X, Y
      <4> QED BY <3>1, <3>2, <3>3
    <3> QED BY <2>2, <2>3, <3>4
  <2>9. (keep = u /\ gone = v) \/ (keep = v /\ gone = u)
    BY <1>1
  <2> QED BY <2>8, <2>9
<1>13. /\ keep \in {u, v} /\ gone \in {u, v} /\ keep # gone /\ {keep, gone} = {u, v}
       /\ B[gone].status = "merged" /\ B[gone].ids = A[gone].ids
       /\ B[keep].status = A[keep].status
       /\ \A k \in Key : Alive(B[keep], k) = Alive(A[u], k) \cup Alive(A[v], k)
  BY <1>1, <1>8, <1>9, <1>10, <1>12
<1> QED BY <1>10, <1>11, <1>13 DEF B, Joined

(* apply_overrides: the ledger as it was, two assets merged, or one retired. *)
LEMMA OrderedIs ==
  ASSUME NEW A \in Seq(AssetShape), order \in Orders \cup {NoOrder}
  PROVE  \/ Ordered(A) = A
         \/ /\ order # NoOrder
            /\ \E u, v \in DOMAIN A : u # v /\ Ordered(A) = Merged(A, u, v)
         \/ /\ order # NoOrder
            /\ \E v \in DOMAIN A : Ordered(A) = [A EXCEPT ![v].status = "retired"]
<1>1. CASE order = NoOrder
  <2>1. order.uid = order.to
    BY <1>1 DEF NoOrder
  <2> QED BY <2>1 DEF Ordered
<1>2. CASE order # NoOrder
  BY <1>2 DEF Ordered
<1> QED BY <1>1, <1>2

(* A ledger in which some assets are no longer active and no identifier    *)
(* has changed.                                                            *)
Thinned(A, B) ==
  /\ B \in Seq(AssetShape) /\ DOMAIN B = DOMAIN A /\ Active(B) \subseteq Active(A)
  /\ \A u \in DOMAIN A : B[u].ids = A[u].ids

LEMMA RetiredThins ==
  ASSUME NEW A \in Seq(AssetShape), NEW v \in DOMAIN A
  PROVE  Thinned(A, [A EXCEPT ![v].status = "retired"])
<1> DEFINE b == [A[v] EXCEPT !.status = "retired"]
           B == [A EXCEPT ![v].status = "retired"]
<1>1. B = [A EXCEPT ![v] = b] /\ DOMAIN B = DOMAIN A
  OBVIOUS
<1>2. A[v] \in AssetShape
  BY ElementOfSeq
<1>3. b \in AssetShape /\ b.status = "retired" /\ b.ids = A[v].ids
  BY <1>2 DEF AssetShape
<1> HIDE DEF b, B
<1>4. B \in Seq(AssetShape)
  BY <1>1, <1>3, ExceptSeq
<1>5. B[v] = b /\ \A u \in DOMAIN A : u # v => B[u] = A[u]
  BY <1>1
<1> QED BY <1>1, <1>3, <1>4, <1>5 DEF Thinned, Active, B

LEMMA ClosedThins ==
  ASSUME NEW A \in Seq(AssetShape), NEW families
  PROVE  Thinned(A, Closed(A, families))
<1> DEFINE B == Closed(A, families)
<1>1. B = [u \in DOMAIN A |->
             IF u \notin Active(A) THEN A[u]
             ELSE IF u \in observed THEN [A[u] EXCEPT !.absent = 0]
             ELSE IF A[u].sources \cap families = {} THEN A[u] ELSE Absent(A[u])]
  BY DEF Closed
<1>2. ASSUME NEW u \in DOMAIN A
      PROVE  /\ Absent(A[u]) \in AssetShape /\ Absent(A[u]).ids = A[u].ids
             /\ [A[u] EXCEPT !.absent = 0] \in AssetShape /\ [A[u] EXCEPT !.absent = 0].ids = A[u].ids
  <2>1. A[u] \in AssetShape
    BY ElementOfSeq
  <2>2. A[u].absent + 1 \in Nat
    BY <2>1 DEF AssetShape
  <2> QED BY <2>1, <2>2 DEF AssetShape, Absent
<1>3. \A u \in DOMAIN A : A[u] \in AssetShape
  BY ElementOfSeq
<1>4. \A u \in DOMAIN A : B[u] \in AssetShape /\ B[u].ids = A[u].ids
  BY <1>1, <1>2, <1>3
<1>5. \A u \in DOMAIN A : u \notin Active(A) => B[u] = A[u]
  BY <1>1
<1>6. DOMAIN B = DOMAIN A /\ B \in Seq(AssetShape)
  <2>1. DOMAIN A = 1 .. Len(A) /\ Len(A) \in Nat
    OBVIOUS
  <2> HIDE DEF B
  <2>2. B \in [1 .. Len(A) -> AssetShape]
    BY <1>1, <1>4, <2>1
  <2> QED BY <2>1, <2>2
<1> HIDE DEF B
<1>7. Active(B) \subseteq Active(A)
  BY <1>5, <1>6 DEF Active
<1> QED BY <1>4, <1>6, <1>7 DEF Thinned, B

(* The asset a record is stamped with, and the ledger it leaves.           *)
At(A, r, now) == IF FindMatch(A, Ids[r], now) = 0 THEN Len(A) + 1 ELSE FindMatch(A, Ids[r], now)
After(A, r, now) ==
  LET B == IF FindMatch(A, Ids[r], now) = 0 THEN Append(A, NewAsset(now, Ids[r])) ELSE A
  IN Reassigned([B EXCEPT ![At(A, r, now)] = Seen(@, r, now)], At(A, r, now), Ids[r])
Old(A, u, k) == IF u \in DOMAIN A THEN Alive(A[u], k) ELSE {}

(* B is A with record r noted on asset u, new or already active.            *)
Noted(A, B, r, u) ==
  /\ B \in Seq(AssetShape) /\ DOMAIN B = DOMAIN A \cup {u} /\ u \in Active(B) /\ u \in Nat
  /\ u \in DOMAIN A => u \in Active(A)
  /\ \A k \in Key : Ids[r][k] \subseteq Alive(B[u], k) /\ Alive(B[u], k) \subseteq Old(A, u, k) \cup Ids[r][k]
  /\ \A k \in Key \ {"ip", "fqdn"} : Alive(B[u], k) = Old(A, u, k) \cup Ids[r][k]
  /\ \A w \in DOMAIN A \ {u} :
       /\ B[w].status = A[w].status
       /\ \A k \in Key : Alive(B[w], k) \subseteq Alive(A[w], k)
       /\ \A k \in Key \ {"ip"} : Alive(B[w], k) = Alive(A[w], k)
       /\ w \in Active(A) /\ Conflict(Ids[r], IdsOf(A[w]), "ip") =>
            Alive(B[w], "ip") \cap Ids[r]["ip"] = {}

LEMMA ObservedIs ==
  ASSUME NEW A \in Seq(AssetShape), NEW r \in Rec, NEW now \in Nat
  PROVE  /\ Noted(A, After(A, r, now), r, At(A, r, now))
         /\ At(A, r, now) \in DOMAIN A => FindMatch(A, Ids[r], now) = At(A, r, now)
         /\ At(A, r, now) \notin DOMAIN A => FindMatch(A, Ids[r], now) = 0
         /\ \A w \in DOMAIN A : After(A, r, now)[w].anchor = A[w].anchor
         /\ At(A, r, now) \notin DOMAIN A => /\ At(A, r, now) = Len(A) + 1
                                           /\ After(A, r, now)[At(A, r, now)].anchor = Anchor(Ids[r])
<1> DEFINE u == At(A, r, now)
<1> DEFINE hit == FindMatch(A, Ids[r], now)
           B == IF hit = 0 THEN Append(A, NewAsset(now, Ids[r])) ELSE A
           C == [B EXCEPT ![u] = Seen(@, r, now)]
           D == Reassigned(C, u, Ids[r])
<1>1. D = After(A, r, now)
  BY DEF After
<1>2. hit = 0 \/ hit \in Active(A)
  BY FindMatchIs
<1>3. Active(A) \subseteq DOMAIN A /\ DOMAIN A = 1 .. Len(A) /\ Len(A) \in Nat
  BY DEF Active
<1>4. u = IF hit = 0 THEN Len(A) + 1 ELSE hit
  BY DEF At
<1>5. NewAsset(now, Ids[r]) \in AssetShape
  BY NewAssetIs
<1> DEFINE new == NewAsset(now, Ids[r])
<1>6. /\ B \in Seq(AssetShape) /\ DOMAIN B = DOMAIN A \cup {u} /\ u \in DOMAIN B
      /\ \A w \in DOMAIN A : B[w] = A[w]
      /\ u \in DOMAIN A => u \in Active(A) /\ hit = u
      /\ u \notin DOMAIN A => hit = 0 /\ u = Len(A) + 1 /\ B[u] = new
      /\ u \in Nat
  <2> HIDE DEF new, hit
  <2>1. CASE hit = 0
    <3>1. B = Append(A, new) /\ u = Len(A) + 1 /\ u \notin DOMAIN A
      BY <1>3, <1>4, <2>1 DEF new
    <3>2. Append(A, new) \in Seq(AssetShape) /\ Len(Append(A, new)) = Len(A) + 1
      BY <1>5, AppendProperties DEF new
    <3>3. Append(A, new)[Len(A) + 1] = new /\ \A w \in 1 .. Len(A) : Append(A, new)[w] = A[w]
      BY <1>5, AppendProperties DEF new
    <3>4. DOMAIN Append(A, new) = 1 .. Len(A) + 1
      BY <3>2
    <3>5. 1 .. Len(A) + 1 = (1 .. Len(A)) \cup {Len(A) + 1} /\ Len(A) + 1 \in Nat
      BY <1>3
    <3> HIDE DEF B
    <3> QED BY <1>3, <2>1, <3>1, <3>2, <3>3, <3>4, <3>5
  <2>2. CASE hit # 0
    BY <1>2, <1>3, <1>4, <2>2
  <2> QED BY <2>1, <2>2
<1> DEFINE seen == Seen(B[u], r, now)
<1>7. /\ B[u] \in AssetShape /\ B[u].status = "active"
      /\ \A k \in Key : Alive(B[u], k) = Old(A, u, k)
  <2>1. B[u] \in AssetShape
    BY <1>6, ElementOfSeq
  <2> HIDE DEF B, hit
  <2>2. CASE u \in DOMAIN A
    BY <1>6, <2>1, <2>2 DEF Old, Active
  <2>3. CASE u \notin DOMAIN A
    BY <1>6, <2>1, <2>3, NewAssetIs DEF Old
  <2> QED BY <2>2, <2>3
<1>8. C = [B EXCEPT ![u] = seen]
  OBVIOUS
<1> HIDE DEF B, hit
<1>9. /\ seen \in AssetShape /\ seen.status = "active" /\ seen.anchor = B[u].anchor
      /\ \A k \in Key : Ids[r][k] \subseteq Alive(seen, k) /\ Alive(seen, k) \subseteq Old(A, u, k) \cup Ids[r][k]
      /\ \A k \in Key \ {"ip", "fqdn"} : Alive(seen, k) = Old(A, u, k) \cup Ids[r][k]
  BY <1>7, SeenIs
<1> HIDE DEF seen, C, D
<1>10. /\ C \in Seq(AssetShape) /\ DOMAIN C = DOMAIN A \cup {u} /\ C[u] = seen
       /\ \A w \in DOMAIN A \ {u} : C[w] = A[w]
  <2>1. C \in Seq(AssetShape)
    BY <1>6, <1>8, <1>9, ExceptSeq
  <2> QED BY <1>6, <1>8, <2>1
<1>11. /\ D \in Seq(AssetShape) /\ DOMAIN D = DOMAIN A \cup {u} /\ D[u] = seen
       /\ \A w \in DOMAIN A \ {u} :
            /\ D[w].status = A[w].status /\ D[w].anchor = A[w].anchor
            /\ \A k \in Key : Alive(D[w], k) \subseteq Alive(A[w], k)
            /\ \A k \in Key \ {"ip"} : Alive(D[w], k) = Alive(A[w], k)
            /\ w \in Active(C) /\ Conflict(Ids[r], IdsOf(A[w]), "ip") =>
                 Alive(D[w], "ip") \cap Ids[r]["ip"] = {}
  BY <1>10, ReassignedIs DEF D
<1>12. \A w \in DOMAIN A \ {u} : w \in Active(A) => w \in Active(C)
  BY <1>10 DEF Active
<1>13. u \in Active(D)
  BY <1>9, <1>11 DEF Active
<1> HIDE DEF Key
<1>14. After(A, r, now) = D
  BY <1>1
<1> HIDE DEF u
<1>15. Noted(A, D, r, u)
  BY <1>6, <1>9, <1>11, <1>12, <1>13 DEF Noted
<1>16. new.anchor = Anchor(Ids[r])
  BY DEF NewAsset
<1> HIDE DEF new
<1>17. /\ \A w \in DOMAIN A : D[w].anchor = A[w].anchor
       /\ u \notin DOMAIN A => D[u].anchor = Anchor(Ids[r])
  BY <1>6, <1>9, <1>11, <1>16
<1> QED BY <1>6, <1>14, <1>15, <1>17 DEF hit, u

(* Observe, said with At and After.                                        *)
LEMMA ObserveIs ==
  ASSUME NEW r \in Rec, Observe(r), Shape
  PROVE  \E now \in Nat :
           /\ mem' = After(mem, r, now)
           /\ stamped' = [stamped EXCEPT ![r] = At(mem, r, now)]
           /\ observed' = observed \cup {At(mem, r, now)}
           /\ todo' = todo \ {r} /\ r \in todo /\ pc = "observe"
           /\ UNCHANGED <<inFile, outFile, order, scan, runNo, pc>>
<1> DEFINE now == runNo * Span + Age[r]
           hit == FindMatch(mem, Ids[r], now)
           A == IF hit = 0 THEN Append(mem, NewAsset(now, Ids[r])) ELSE mem
           u == IF hit = 0 THEN Len(A) ELSE hit
<1>1. now \in Nat
  <2>1. runNo \in Nat /\ Span \in Nat /\ Age[r] \in Nat
    BY AssetConstants DEF Shape
  <2>2. runNo * Span \in Nat
    BY <2>1
  <2> QED BY <2>1, <2>2
<1>2. Len(Append(mem, NewAsset(now, Ids[r]))) = Len(mem) + 1
  BY <1>1, NewAssetIs, AppendProperties DEF Shape
<1>3. u = At(mem, r, now)
  BY <1>2 DEF At
<1>4. /\ mem' = Reassigned([A EXCEPT ![u] = Seen(@, r, now)], u, Ids[r])
      /\ stamped' = [stamped EXCEPT ![r] = u]
      /\ observed' = observed \cup {u}
  BY DEF Observe
<1>5. mem' = After(mem, r, now)
  BY <1>3, <1>4 DEF After
<1>6. /\ todo' = todo \ {r} /\ r \in todo /\ pc = "observe"
      /\ UNCHANGED <<inFile, outFile, order, scan, runNo, pc>>
  BY DEF Observe
<1> QED BY <1>1, <1>3, <1>4, <1>5, <1>6

(* LateMerge merges some pair of MergePairs.                               *)
LEMMA LateMergeIs ==
  ASSUME Shape, LateMerge
  PROVE  \E u, v \in Active(mem) : /\ u < v /\ SameHost(mem, u, v)
                                   /\ mem' = Merged(mem, u, v)
<1> DEFINE P == MergePairs(mem)
           us == {p[1] : p \in P}
           u == Least(us)
           vs == {p[2] : p \in {q \in P : q[1] = u}}
           v == Least(vs)
<1>1. Active(mem) \in SUBSET Nat
  BY DEF Active, Shape
<1>2. \A p \in P : p \in Active(mem) \X Active(mem) /\ p[1] < p[2] /\ SameHost(mem, p[1], p[2])
  BY DEF MergePairs
<1>3. P # {} /\ mem' = Merged(mem, u, v)
  BY DEF LateMerge
<1> HIDE DEF P
<1>4. us \in SUBSET Nat /\ us # {}
  BY <1>1, <1>2, <1>3
<1>5. u \in us
  BY <1>4, LeastIsLeast
<1> HIDE DEF u
<1>6. vs \in SUBSET Nat /\ vs # {}
  BY <1>1, <1>2, <1>5
<1>7. v \in vs
  BY <1>6, LeastIsLeast
<1> HIDE DEF v
<1>8. PICK q \in P : q[1] = u /\ q[2] = v
  BY <1>7
<1> QED BY <1>2, <1>3, <1>8

(* The ledgers and the bookkeeping of a run keep their shape.              *)
LEMMA ShapeNext ==
  ASSUME Shape, [Next]_vars PROVE Shape'
<1>1. ASSUME NEW recs \in SUBSET Rec, Begin(recs) PROVE Shape'
  <2>1. /\ runNo' = runNo + 1 /\ scan' = recs /\ todo' = recs /\ mem' = Ordered(inFile)
        /\ stamped' = [r \in Rec |-> 0] /\ UNCHANGED <<inFile, outFile, order>>
        /\ runNo' \in Nat
    BY <1>1 DEF Begin, Shape
  <2>2. Ordered(inFile) \in Seq(AssetShape)
    <3>1. inFile \in Seq(AssetShape) /\ order \in Orders \cup {NoOrder}
      BY DEF Shape
    <3>2. CASE Ordered(inFile) = inFile
      BY <3>1, <3>2
    <3>3. CASE \E u, v \in DOMAIN inFile : u # v /\ Ordered(inFile) = Merged(inFile, u, v)
      BY <3>1, <3>3, MergedIs DEF Joined
    <3>4. CASE \E v \in DOMAIN inFile : Ordered(inFile) = [inFile EXCEPT ![v].status = "retired"]
      BY <3>1, <3>4, RetiredThins DEF Thinned
    <3> QED BY <3>1, <3>2, <3>3, <3>4, OrderedIs
  <2> QED BY <2>1, <2>2 DEF Shape
<1>2. ASSUME NEW r \in Rec, Observe(r) PROVE Shape'
  <2>1. PICK now \in Nat :
          /\ mem' = After(mem, r, now)
          /\ stamped' = [stamped EXCEPT ![r] = At(mem, r, now)]
          /\ todo' = todo \ {r} /\ UNCHANGED <<inFile, outFile, order, scan, runNo, pc>>
    BY <1>2, ObserveIs
  <2>2. mem \in Seq(AssetShape)
    BY DEF Shape
  <2>3. /\ After(mem, r, now) \in Seq(AssetShape) /\ At(mem, r, now) \in Nat
        /\ DOMAIN After(mem, r, now) = DOMAIN mem \cup {At(mem, r, now)}
    <3>1. Noted(mem, After(mem, r, now), r, At(mem, r, now))
      BY <2>2, ObservedIs
    <3> QED BY <3>1 DEF Noted
  <2>4. stamped' \in [Rec -> Nat]
    BY <2>1, <2>3 DEF Shape
  <2>5. pc = "observe" => \A s \in Rec : stamped'[s] # 0 => stamped'[s] \in DOMAIN mem'
    BY <2>1, <2>3 DEF Shape
  <2> QED BY <2>1, <2>3, <2>4, <2>5 DEF Shape
<1>3. CASE LateMerge
  <2>1. UNCHANGED <<inFile, outFile, order, scan, runNo, pc, todo, observed, stamped>>
    BY <1>3 DEF LateMerge
  <2>2. PICK u, v \in Active(mem) : u < v /\ mem' = Merged(mem, u, v)
    BY <1>3, LateMergeIs
  <2>3. u \in DOMAIN mem /\ v \in DOMAIN mem /\ u # v
    BY <2>2 DEF Active, Shape
  <2>4. mem' \in Seq(AssetShape) /\ DOMAIN mem' = DOMAIN mem
    BY <2>2, <2>3, MergedIs DEF Shape, Joined
  <2> QED BY <2>1, <2>4 DEF Shape
<1>4. CASE Attach
  <2>1. stamped' = Restamped /\ UNCHANGED <<inFile, outFile, order, scan, runNo, mem, todo, observed>>
    BY <1>4 DEF Attach
  <2>2. \A u \in DOMAIN mem : mem[u].into \in Nat
    <3>1. \A u \in DOMAIN mem : mem[u] \in AssetShape
      BY ElementOfSeq DEF Shape
    <3> QED BY <3>1 DEF AssetShape
  <2>3. pc = "observe" /\ pc' = "close"
    BY <1>4 DEF Attach
  <2>4. Restamped \in [Rec -> Nat]
    BY <2>2, <2>3 DEF Shape, Restamped
  <2> QED BY <2>1, <2>3, <2>4 DEF Shape
<1>5. CASE CloseRun
  <2>1. /\ mem' = Closed(mem, {Source[r] : r \in KeptRecords}) /\ outFile' = mem'
        /\ pc' = "idle" /\ UNCHANGED <<inFile, order, scan, runNo, todo, stamped>>
    BY <1>5 DEF CloseRun
  <2>2. mem' \in Seq(AssetShape)
    BY <2>1, ClosedThins DEF Shape, Thinned
  <2> QED BY <2>1, <2>2 DEF Shape
<1>6. CASE Carry
  BY <1>6 DEF Carry, Shape
<1>7. ASSUME NEW o \in Orders, WriteOrder(o) PROVE Shape'
  BY <1>7 DEF WriteOrder, Shape
<1>8. CASE UNCHANGED vars
  BY <1>8 DEF vars, Shape
<1> QED BY <1>1, <1>2, <1>3, <1>4, <1>5, <1>6, <1>7, <1>8 DEF Next

LEMMA ShapeInit ==
  ASSUME Init PROVE Shape
<1>1. inFile = << >> /\ outFile = << >> /\ mem = << >> /\ << >> \in Seq(AssetShape)
  BY EmptySeq DEF Init
<1>2. order = NoOrder /\ scan = {} /\ runNo = 0 /\ todo = {} /\ stamped = [r \in Rec |-> 0]
  BY DEF Init
<1> HIDE DEF AssetShape
<1> QED BY <1>1, <1>2 DEF Shape

LEMMA ShapeHolds == Spec => []Shape
<1>1. Init => Shape
  BY ShapeInit
<1>2. Shape /\ [Next]_vars => Shape'
  BY ShapeNext
<1> QED BY <1>1, <1>2, PTL DEF Spec

(* What no collector of the scan covers is not aged: the families of a run *)
(* come from records of its scan.                                          *)
THEOREM UncoveredKept == Spec => UncoveredNotAged
<1> DEFINE Step == pc = "close" /\ pc' = "idle" => \A u \in Active(mem) \ observed :
                     mem[u].sources \cap {Source[r] : r \in scan} = {} => mem'[u] = mem[u]
<1>1. Shape /\ [Next]_vars => Step
  <2> SUFFICES ASSUME Shape, [Next]_vars, pc = "close", pc' = "idle",
                      NEW u \in Active(mem) \ observed,
                      mem[u].sources \cap {Source[r] : r \in scan} = {}
               PROVE  mem'[u] = mem[u]
    OBVIOUS
  <2>1. CloseRun
    BY DEF Next, Begin, Observe, LateMerge, Attach, Carry, WriteOrder, vars
  <2> DEFINE families == {Source[r] : r \in KeptRecords}
  <2>2. mem' = Closed(mem, families)
    BY <2>1 DEF CloseRun
  <2>3. families \subseteq {Source[r] : r \in scan}
    BY DEF KeptRecords
  <2> HIDE DEF families
  <2>4. mem[u].sources \cap families = {}
    BY <2>3
  <2>5. u \in DOMAIN mem /\ u \in Active(mem) /\ u \notin observed
    BY DEF Active
  <2> QED BY <2>2, <2>4, <2>5 DEF Closed
<1> HIDE DEF Step
<1>2. Spec => [][Step]_vars
  BY <1>1, ShapeHolds, PTL DEF Spec
<1> QED BY <1>2 DEF UncoveredNotAged, Step

-----------------------------------------------------------------------------
(* What the records of a site may be like.                                 *)

(* Every record names an agent.                                            *)
Agented == \A r \in Rec : Ids[r]["agent"] # {}

(* Records with a MAC in common name the same agent.                       *)
MacOfOneAgent ==
  \A r, s \in Rec : Ids[r]["mac"] \cap Ids[s]["mac"] # {} => Ids[r]["agent"] = Ids[s]["agent"]

(* No bare short name abbreviates an FQDN of another record.               *)
NoBareNames ==
  \A r, s \in Rec : \A f \in Ids[s]["fqdn"] : Label[f] \notin Ids[r]["hostname"]

(* A record with a MAC has one, and names no agent.                        *)
LoneMac ==
  \A r \in Rec : Ids[r]["mac"] # {} => /\ Ids[r]["agent"] = {}
                                       /\ \E m : Ids[r]["mac"] = {m}

LEMMA OneAgentOfRecord ==
  ASSUME NEW r \in Rec, NEW p \in Ids[r]["agent"], NEW q \in Ids[r]["agent"]
  PROVE  p = q
<1> DEFINE S == Ids[r]["agent"]
<1>1. IsFiniteSet(S) /\ Cardinality(S) <= 1
  BY AssetConstants DEF Key, Several
<1> HIDE DEF S
<1>2. Cardinality(S) \in Nat
  BY <1>1, FS_CardinalityType
<1>3. S # {}
  BY DEF S
<1>4. Cardinality(S) # 0
  BY <1>1, <1>3, FS_EmptySet
<1>5. Cardinality(S) = 1
  BY <1>1, <1>2, <1>4
<1>6. PICK x : S = {x}
  BY <1>1, <1>5, FS_Singleton
<1> QED BY <1>6 DEF S

(* Identifiers of active assets are those of records.                      *)
Recorded(k) == UNION {Ids[r][k] : r \in Rec}
Known(A) == \A u \in Active(A) : \A k \in Key : Alive(A[u], k) \subseteq Recorded(k)

LEMMA KnownNoted ==
  ASSUME NEW A, NEW B, NEW r \in Rec, NEW u, Noted(A, B, r, u), Known(A)
  PROVE  Known(B)
<1> SUFFICES ASSUME NEW w \in Active(B), NEW k \in Key PROVE Alive(B[w], k) \subseteq Recorded(k)
  BY DEF Known
<1>1. Ids[r][k] \subseteq Recorded(k)
  BY DEF Recorded
<1>2. CASE w = u
  <2>1. Alive(B[w], k) \subseteq Old(A, u, k) \cup Ids[r][k]
    BY <1>2 DEF Noted
  <2>2. Old(A, u, k) \subseteq Recorded(k)
    BY DEF Old, Known, Noted
  <2> QED BY <1>1, <2>1, <2>2
<1>3. CASE w # u
  <2>1. w \in Active(A) /\ Alive(B[w], k) \subseteq Alive(A[w], k)
    BY <1>3 DEF Noted, Active
  <2> QED BY <2>1 DEF Known
<1> QED BY <1>2, <1>3

(* Who is active in a joined ledger, and with which identifiers.           *)
JoinedOn(A, B, u, v, keep) ==
  /\ keep \in Active(B) /\ Active(B) \subseteq (Active(A) \ {u, v}) \cup {keep}
  /\ \A k \in Key : Alive(B[keep], k) = Alive(A[u], k) \cup Alive(A[v], k)
  /\ \A w \in Active(B) \ {keep} : w \in Active(A) \ {u, v} /\ B[w] = A[w]

LEMMA JoinedIs ==
  ASSUME NEW A \in Seq(AssetShape), NEW B, NEW u \in Active(A), NEW v \in Active(A), Joined(A, B, u, v)
  PROVE  \E keep \in {u, v} : JoinedOn(A, B, u, v, keep)
<1>1. PICK keep, gone \in {u, v} :
        /\ keep # gone /\ {keep, gone} = {u, v}
        /\ B[gone].status = "merged" /\ B[keep].status = A[keep].status
        /\ \A k \in Key : Alive(B[keep], k) = Alive(A[u], k) \cup Alive(A[v], k)
  BY DEF Joined
<1>2. DOMAIN B = DOMAIN A /\ \A w \in DOMAIN A \ {u, v} : B[w] = A[w]
  BY DEF Joined
<1>3. keep \in Active(B) /\ gone \notin Active(B)
  BY <1>1, <1>2 DEF Active
<1>4. Active(B) \subseteq (Active(A) \ {u, v}) \cup {keep}
  BY <1>1, <1>2, <1>3 DEF Active
<1>5. \A w \in Active(B) \ {keep} : B[w] = A[w]
  BY <1>2, <1>4 DEF Active
<1>6. JoinedOn(A, B, u, v, keep)
  BY <1>1, <1>3, <1>4, <1>5 DEF JoinedOn
<1> QED BY <1>6

LEMMA KnownJoined ==
  ASSUME NEW A \in Seq(AssetShape), NEW B, NEW u \in Active(A), NEW v \in Active(A),
         Joined(A, B, u, v), Known(A)
  PROVE  Known(B)
<1>1. PICK keep \in {u, v} : JoinedOn(A, B, u, v, keep)
  BY JoinedIs
<1>2. ASSUME NEW w \in Active(B), NEW k \in Key PROVE Alive(B[w], k) \subseteq Recorded(k)
  <2>1. CASE w = keep
    BY <1>1, <2>1 DEF Known, JoinedOn
  <2>2. CASE w # keep
    <3>1. B[w] = A[w] /\ w \in Active(A)
      BY <1>1, <2>2 DEF JoinedOn
    <3> QED BY <3>1 DEF Known
  <2> QED BY <2>1, <2>2
<1> QED BY <1>2 DEF Known

LEMMA ThinnedIs ==
  ASSUME NEW A, NEW B, Thinned(A, B)
  PROVE  /\ Active(B) \subseteq Active(A)
         /\ \A w \in Active(B) : \A k \in Key : Alive(B[w], k) = Alive(A[w], k)
BY DEF Thinned, Alive, Active

(* Without bare names no asset is merged into one for its short name.      *)
LEMMA NoBareMerge ==
  ASSUME NoBareNames, NEW A \in Seq(AssetShape), Known(A), NEW u \in Active(A), NEW v \in Active(A)
  PROVE  ~ BareNameOf(A, A[u], A[v])
<1> SUFFICES ASSUME NEW l \in IdsOf(A[u])["hostname"], l \in Labels(A[v]) PROVE FALSE
  BY DEF BareNameOf
<1>1. A[u] \in AssetShape /\ A[v] \in AssetShape /\ {"hostname", "fqdn"} \subseteq Key
  BY ElementOfSeq DEF Key, Active
<1>2. PICK f \in IdsOf(A[v])["fqdn"] : l = Label[f]
  BY DEF Labels
<1>3. l \in Recorded("hostname") /\ f \in Recorded("fqdn")
  BY <1>1, <1>2, IdsOfAlive DEF Known
<1> QED BY <1>2, <1>3 DEF Recorded, NoBareNames

(* A conflict of agent ids bars every weaker key.                          *)
LEMMA AgentsConflict ==
  ASSUME NEW a \in AssetShape, NEW obs, NEW k \in Key, k # "agent",
         obs["agent"] # {}, Alive(a, "agent") # {}, obs["agent"] \cap Alive(a, "agent") = {}
  PROVE  Conflict(obs, IdsOf(a), k)
<1>1. "agent" \in Key /\ Rank["agent"] > Rank[k]
  BY DEF Key, Rank
<1>2. IdsOf(a)["agent"] # {} /\ IdsOf(a)["agent"] \subseteq Alive(a, "agent")
  BY <1>1, IdsOfAlive
<1> QED BY <1>1, <1>2 DEF Conflict

-----------------------------------------------------------------------------
(* A site where every host runs an agent: assets are agents.               *)

Fleet(A) ==
  /\ Known(A)
  /\ \A u \in Active(A) : Alive(A[u], "agent") # {}
  /\ \A u, v \in Active(A) : u # v => Alive(A[u], "agent") \cap Alive(A[v], "agent") = {}
  /\ \A u \in Active(A) : \A m \in Alive(A[u], "mac") :
       \E r \in Rec : m \in Ids[r]["mac"] /\ Ids[r]["agent"] \subseteq Alive(A[u], "agent")

(* Where the operator has ordered nothing: one agent each, one asset an    *)
(* address.                                                                *)
Single(A) ==
  /\ \A u \in Active(A) : \A p, q \in Alive(A[u], "agent") : p = q
  /\ \A u, v \in Active(A) : u # v => Alive(A[u], "ip") \cap Alive(A[v], "ip") = {}

(* A record is stamped with the asset that holds its agent.                *)
LEMMA FleetMatch ==
  ASSUME Agented, NEW A \in Seq(AssetShape), Fleet(A), NEW r \in Rec, NEW now \in Nat
  PROVE  /\ At(A, r, now) \in DOMAIN A => Ids[r]["agent"] \cap Alive(A[At(A, r, now)], "agent") # {}
         /\ \A w \in Active(A) \ {At(A, r, now)} : Ids[r]["agent"] \cap Alive(A[w], "agent") = {}
<1> DEFINE obs == Ids[r]
           hit == FindMatch(A, obs, now)
           Held(w) == obs["agent"] \cap Alive(A[w], "agent") # {}
           u == At(A, r, now)
<1>1. Active(A) \subseteq DOMAIN A /\ \A w \in Active(A) : A[w] \in AssetShape
  BY ElementOfSeq DEF Active
<1>2. obs["agent"] # {} /\ {"agent", "hostname"} \subseteq Key
  BY DEF Agented, Key
<1> HIDE DEF obs
<1>3. ASSUME NEW w \in Active(A), Held(w) PROVE MatchKey(obs, A[w], "agent", now)
  <2>1. \A k \in Key : ~ (Rank[k] > Rank["agent"])
    BY DEF Key, Rank
  <2> QED BY <1>3, <2>1 DEF MatchKey, Conflict
<1>4. ASSUME NEW w \in Active(A), ~ Held(w), NEW k \in Key PROVE ~ MatchKey(obs, A[w], k, now)
  <2>1. CASE k = "agent"
    BY <1>4, <2>1 DEF MatchKey
  <2>2. CASE k # "agent"
    <3>1. Conflict(obs, IdsOf(A[w]), k)
      BY <1>1, <1>2, <1>4, <2>2, AgentsConflict DEF Fleet
    <3> QED BY <3>1 DEF MatchKey
  <2> QED BY <2>1, <2>2
<1>5. ASSUME NEW w \in Active(A), ~ Held(w) PROVE Conflict(obs, IdsOf(A[w]), "hostname")
  BY <1>1, <1>2, <1>5, AgentsConflict DEF Fleet
<1>6. \/ hit = 0 /\ \A w \in Active(A) : ~ Held(w)
      \/ hit \in Active(A) /\ Held(hit)
  <2> HIDE DEF Held
  <2>1. CASE /\ hit = 0
             /\ \A w \in Active(A), k \in Key : ~ MatchKey(obs, A[w], k, now)
    BY <1>2, <1>3, <2>1
  <2>2. CASE /\ hit \in Active(A)
             /\ \E k \in Key : MatchKey(obs, A[hit], k, now)
    BY <1>4, <2>2
  <2>3. CASE /\ hit \in Active(A)
             /\ ~ Conflict(obs, IdsOf(A[hit]), "hostname")
    BY <1>5, <2>3
  <2> QED BY <2>1, <2>2, <2>3, FindMatchIs
<1>7. CASE hit = 0 /\ \A w \in Active(A) : ~ Held(w)
  <2>1. u \notin DOMAIN A
    BY <1>7 DEF At, obs
  <2> QED BY <1>7, <2>1 DEF obs
<1>8. CASE hit \in Active(A) /\ Held(hit)
  <2>1. hit # 0
    BY <1>1, <1>8
  <2>2. u = hit
    BY <2>1 DEF At, obs
  <2>3. ASSUME NEW w \in Active(A) \ {hit} PROVE ~ Held(w)
    <3>1. PICK p \in obs["agent"] : p \in Alive(A[hit], "agent")
      BY <1>8
    <3>2. p \notin Alive(A[w], "agent")
      BY <1>8, <3>1 DEF Fleet
    <3>3. \A q \in obs["agent"] : q = p
      BY <3>1, OneAgentOfRecord DEF obs
    <3> QED BY <3>2, <3>3
  <2> QED BY <1>8, <2>2, <2>3 DEF obs
<1> QED BY <1>6, <1>7, <1>8

LEMMA FleetNoted ==
  ASSUME Agented, NEW A \in Seq(AssetShape), Fleet(A), NEW r \in Rec, NEW now \in Nat
  PROVE  /\ Fleet(After(A, r, now))
         /\ Single(A) => Single(After(A, r, now))
         /\ Active(After(A, r, now)) = Active(A) \cup {At(A, r, now)}
<1> DEFINE u == At(A, r, now)
           B == After(A, r, now)
<1>1. Noted(A, B, r, u)
  BY ObservedIs
<1>2. /\ u \in DOMAIN A => Ids[r]["agent"] \cap Alive(A[u], "agent") # {}
      /\ \A w \in Active(A) \ {u} : Ids[r]["agent"] \cap Alive(A[w], "agent") = {}
  BY FleetMatch
<1> HIDE DEF u, B
<1>3. {"agent", "mac", "ip"} \subseteq Key /\ {"agent", "mac"} \subseteq Key \ {"ip", "fqdn"}
  BY DEF Key
<1>4. Active(B) = Active(A) \cup {u} /\ u \in Active(B)
  BY <1>1 DEF Noted, Active
<1>5. \A k \in {"agent", "mac"} :
        /\ Alive(B[u], k) = Old(A, u, k) \cup Ids[r][k]
        /\ \A w \in Active(A) \ {u} : Alive(B[w], k) = Alive(A[w], k)
  BY <1>1, <1>3 DEF Noted, Active
<1>6. u \in DOMAIN A => u \in Active(A)
  BY <1>1 DEF Noted
<1>7. \A w \in Active(A) \ {u} : Alive(B[u], "agent") \cap Alive(B[w], "agent") = {}
  <2> SUFFICES ASSUME NEW w \in Active(A) \ {u} PROVE Alive(B[u], "agent") \cap Alive(B[w], "agent") = {}
    OBVIOUS
  <2>1. Old(A, u, "agent") \cap Alive(A[w], "agent") = {}
    BY <1>6 DEF Old, Fleet
  <2> QED BY <1>2, <1>5, <2>1
<1>8. Known(B)
  BY <1>1, KnownNoted DEF Fleet
<1>9. \A v \in Active(B) : Alive(B[v], "agent") # {}
  BY <1>4, <1>5 DEF Agented, Fleet
<1>10. \A v, w \in Active(B) : v # w => Alive(B[v], "agent") \cap Alive(B[w], "agent") = {}
  BY <1>4, <1>5, <1>7 DEF Fleet
<1>11. ASSUME NEW v \in Active(B), NEW m \in Alive(B[v], "mac")
       PROVE  \E s \in Rec : m \in Ids[s]["mac"] /\ Ids[s]["agent"] \subseteq Alive(B[v], "agent")
  <2>1. CASE v = u
    <3>1. CASE m \in Ids[r]["mac"]
      BY <1>5, <2>1, <3>1
    <3>2. CASE m \in Old(A, u, "mac")
      <4>1. u \in Active(A) /\ m \in Alive(A[u], "mac") /\ Old(A, u, "agent") = Alive(A[u], "agent")
        BY <1>6, <3>2 DEF Old
      <4>2. PICK s \in Rec : m \in Ids[s]["mac"] /\ Ids[s]["agent"] \subseteq Alive(A[u], "agent")
        BY <4>1 DEF Fleet
      <4> QED BY <1>5, <2>1, <4>1, <4>2
    <3> QED BY <1>5, <1>11, <2>1, <3>1, <3>2
  <2>2. CASE v # u
    BY <1>4, <1>5, <1>11, <2>2 DEF Fleet
  <2> QED BY <2>1, <2>2
<1>12. Fleet(B)
  BY <1>8, <1>9, <1>10, <1>11 DEF Fleet
<1>13. ASSUME Single(A) PROVE Single(B)
  <2>1. ASSUME NEW v \in Active(B), NEW p \in Alive(B[v], "agent"), NEW q \in Alive(B[v], "agent")
        PROVE  p = q
    <3>1. CASE v # u
      BY <1>4, <1>5, <1>13, <2>1, <3>1 DEF Single
    <3>2. CASE v = u /\ u \notin DOMAIN A
      BY <1>5, <2>1, <3>2, OneAgentOfRecord DEF Old
    <3>3. CASE v = u /\ u \in DOMAIN A
      <4>1. PICK o \in Ids[r]["agent"] : o \in Alive(A[u], "agent")
        BY <1>2, <3>3
      <4>2. \A x \in Alive(A[u], "agent") : x = o
        BY <1>6, <1>13, <3>3, <4>1 DEF Single
      <4>3. \A x \in Ids[r]["agent"] : x = o
        BY <4>1, OneAgentOfRecord
      <4> QED BY <1>5, <2>1, <3>3, <4>2, <4>3 DEF Old
    <3> QED BY <3>1, <3>2, <3>3
  <2>2. /\ Alive(B[u], "ip") \subseteq Old(A, u, "ip") \cup Ids[r]["ip"]
        /\ \A w \in Active(A) \ {u} : Alive(B[w], "ip") \subseteq Alive(A[w], "ip")
    BY <1>1, <1>3 DEF Noted, Active
  <2>3. ASSUME NEW w \in Active(A) \ {u} PROVE Alive(B[u], "ip") \cap Alive(B[w], "ip") = {}
    <3>1. w \in DOMAIN A /\ A[w] \in AssetShape
      BY ElementOfSeq DEF Active
    <3>2. Conflict(Ids[r], IdsOf(A[w]), "ip")
      BY <1>2, <1>3, <3>1, AgentsConflict DEF Agented, Fleet
    <3>3. Alive(B[w], "ip") \cap Ids[r]["ip"] = {}
      BY <1>1, <3>1, <3>2 DEF Noted
    <3>4. Old(A, u, "ip") \cap Alive(A[w], "ip") = {}
      BY <1>6, <1>13 DEF Old, Single
    <3> QED BY <2>2, <3>3, <3>4
  <2>4. \A v, w \in Active(B) : v # w => Alive(B[v], "ip") \cap Alive(B[w], "ip") = {}
    <3> SUFFICES ASSUME NEW v \in Active(B), NEW w \in Active(B), v # w
                 PROVE  Alive(B[v], "ip") \cap Alive(B[w], "ip") = {}
      OBVIOUS
    <3>1. CASE v = u \/ w = u
      BY <1>4, <2>3, <3>1
    <3>2. CASE v # u /\ w # u
      <4>1. v \in Active(A) /\ w \in Active(A) /\ Alive(A[v], "ip") \cap Alive(A[w], "ip") = {}
        BY <1>4, <1>13, <3>2 DEF Single
      <4> QED BY <2>2, <3>2, <4>1
    <3> QED BY <3>1, <3>2
  <2> QED BY <2>1, <2>4 DEF Single
<1> QED BY <1>4, <1>12, <1>13 DEF u, B

(* Fewer active assets, the same identifiers.                              *)
LEMMA FleetThinned ==
  ASSUME NEW A, NEW B, Thinned(A, B)
  PROVE  (Fleet(A) => Fleet(B)) /\ (Single(A) => Single(B))
<1>1. /\ Active(B) \subseteq Active(A)
      /\ \A w \in Active(B) : \A k \in Key : Alive(B[w], k) = Alive(A[w], k)
  BY ThinnedIs
<1>2. {"agent", "mac", "ip"} \subseteq Key
  BY DEF Key
<1>3. Known(A) => Known(B)
  BY <1>1 DEF Known
<1>4. Single(A) => Single(B)
  BY <1>1, <1>2 DEF Single
<1>5. ASSUME Fleet(A) PROVE Fleet(B)
  <2>1. \A w \in Active(B) : \A k \in {"agent", "mac"} : Alive(B[w], k) = Alive(A[w], k)
    BY <1>1, <1>2
  <2> QED BY <1>1, <1>3, <1>5, <2>1 DEF Fleet
<1> QED BY <1>4, <1>5

(* Fewer active assets with the same identifiers, said without Thinned.    *)
LEMMA FleetFewer ==
  ASSUME NEW A, NEW B, Active(B) \subseteq Active(A),
         \A w \in Active(B) : B[w] = A[w], Fleet(A)
  PROVE  Fleet(B)
<1>1. Known(B)
  BY DEF Known, Fleet
<1> QED BY <1>1 DEF Fleet

(* One asset was made part of another, which holds all of its agents.      *)
Absorbed(A, keep, gone) ==
  /\ {keep, gone} \subseteq DOMAIN A /\ gone \notin Active(A)
  /\ keep \in Active(A) =>
       /\ \A k \in Key : Alive(A[gone], k) \subseteq Recorded(k)
       /\ Alive(A[gone], "agent") \subseteq Alive(A[keep], "agent")
       /\ \A m \in Alive(A[gone], "mac") :
            \E r \in Rec : m \in Ids[r]["mac"] /\ Ids[r]["agent"] \subseteq Alive(A[keep], "agent")

Absorbing(A, u, v) == Absorbed(A, u, v) \/ Absorbed(A, v, u)

(* A merge of two active assets, and the same merge once more, in a later  *)
(* run that still has the row.                                             *)
LEMMA FleetMerged ==
  ASSUME NEW A \in Seq(AssetShape), NEW u \in DOMAIN A, NEW v \in DOMAIN A, u # v, Fleet(A),
         {u, v} \subseteq Active(A) \/ Absorbing(A, u, v)
  PROVE  Fleet(Merged(A, u, v)) /\ Absorbing(Merged(A, u, v), u, v)
<1> DEFINE B == Merged(A, u, v)
<1>1. Joined(A, B, u, v)
  BY MergedIs
<1> HIDE DEF B
<1>2. DOMAIN B = DOMAIN A /\ \A w \in DOMAIN A \ {u, v} : B[w] = A[w]
  BY <1>1 DEF Joined
<1>3. PICK keep, gone \in {u, v} :
        /\ keep # gone /\ {keep, gone} = {u, v}
        /\ B[gone].status = "merged" /\ B[gone].ids = A[gone].ids
        /\ B[keep].status = A[keep].status
        /\ \A k \in Key : Alive(B[keep], k) = Alive(A[u], k) \cup Alive(A[v], k)
  BY <1>1 DEF Joined
<1>4. gone \notin Active(B) /\ (keep \in Active(B) <=> keep \in Active(A))
      /\ Active(B) \ {keep} = Active(A) \ {u, v} /\ {keep, gone} \subseteq DOMAIN B
  BY <1>2, <1>3 DEF Active
<1>5. \A k \in Key : /\ Alive(B[keep], k) = Alive(A[keep], k) \cup Alive(A[gone], k)
                     /\ Alive(B[gone], k) = Alive(A[gone], k)
  BY <1>3 DEF Alive
<1>6. \A w \in Active(B) \ {keep} : w \in Active(A) /\ w \notin {u, v} /\ B[w] = A[w]
  BY <1>2, <1>4 DEF Active
<1>7. {"agent", "mac"} \subseteq Key
  BY DEF Key
<1>8. CASE keep \notin Active(A)
  <2>1. Active(B) \subseteq Active(A) /\ \A w \in Active(B) : B[w] = A[w]
    BY <1>4, <1>6, <1>8
  <2>2. Absorbed(B, keep, gone)
    BY <1>4, <1>8 DEF Absorbed
  <2> QED BY <1>3, <2>1, <2>2, FleetFewer DEF B, Absorbing
<1>9. CASE keep \in Active(A)
  <2>1. /\ \A k \in Key : Alive(A[gone], k) \subseteq Recorded(k)
        /\ \A w \in Active(A) \ {u, v} : Alive(A[gone], "agent") \cap Alive(A[w], "agent") = {}
        /\ \A m \in Alive(A[gone], "mac") :
             \E r \in Rec : m \in Ids[r]["mac"] /\ Ids[r]["agent"] \subseteq Alive(B[keep], "agent")
    <3>1. CASE {u, v} \subseteq Active(A)
      <4>1. gone \in Active(A) /\ gone \in {u, v}
        BY <1>3, <3>1
      <4>2. \A k \in Key : Alive(A[gone], k) \subseteq Recorded(k)
        BY <4>1 DEF Fleet, Known
      <4>3. \A w \in Active(A) \ {u, v} : Alive(A[gone], "agent") \cap Alive(A[w], "agent") = {}
        BY <4>1 DEF Fleet
      <4>4. \A m \in Alive(A[gone], "mac") :
              \E r \in Rec : m \in Ids[r]["mac"] /\ Ids[r]["agent"] \subseteq Alive(A[gone], "agent")
        BY <4>1 DEF Fleet
      <4>5. Alive(A[gone], "agent") \subseteq Alive(B[keep], "agent")
        BY <1>5, <1>7
      <4> QED BY <4>2, <4>3, <4>4, <4>5
    <3>2. CASE Absorbing(A, u, v)
      <4>1. Absorbed(A, keep, gone)
        BY <1>3, <1>9, <3>2 DEF Absorbing, Absorbed
      <4>2. /\ \A k \in Key : Alive(A[gone], k) \subseteq Recorded(k)
            /\ Alive(A[gone], "agent") \subseteq Alive(A[keep], "agent")
            /\ \A m \in Alive(A[gone], "mac") :
                 \E r \in Rec : m \in Ids[r]["mac"] /\ Ids[r]["agent"] \subseteq Alive(A[keep], "agent")
        BY <1>9, <4>1 DEF Absorbed
      <4>3. \A w \in Active(A) \ {u, v} : Alive(A[keep], "agent") \cap Alive(A[w], "agent") = {}
        BY <1>3, <1>9 DEF Fleet
      <4>4. Alive(A[keep], "agent") \subseteq Alive(B[keep], "agent")
        BY <1>5, <1>7
      <4> QED BY <4>2, <4>3, <4>4
    <3> QED BY <3>1, <3>2
  <2>2. /\ Alive(B[keep], "agent") = Alive(A[keep], "agent") \cup Alive(A[gone], "agent")
        /\ Alive(B[keep], "mac") = Alive(A[keep], "mac") \cup Alive(A[gone], "mac")
        /\ Alive(B[gone], "agent") = Alive(A[gone], "agent")
        /\ Alive(B[gone], "mac") = Alive(A[gone], "mac")
    BY <1>5, <1>7
  <2>3. Absorbed(B, keep, gone)
    BY <1>4, <1>5, <2>1, <2>2 DEF Absorbed
  <2>4. Known(B)
    <3>1. \A k \in Key : Alive(A[keep], k) \subseteq Recorded(k)
      BY <1>9 DEF Fleet, Known
    <3>2. \A k \in Key : Alive(B[keep], k) \subseteq Recorded(k)
      BY <1>5, <2>1, <3>1
    <3>3. \A w \in Active(B) \ {keep} : \A k \in Key : Alive(B[w], k) \subseteq Recorded(k)
      BY <1>6 DEF Fleet, Known
    <3> QED BY <3>2, <3>3 DEF Known
  <2>5. \A w \in Active(B) : Alive(B[w], "agent") # {}
    BY <1>6, <1>9, <2>2 DEF Fleet
  <2>6. \A w \in Active(B) \ {keep} : Alive(B[keep], "agent") \cap Alive(B[w], "agent") = {}
    BY <1>3, <1>6, <1>9, <2>1, <2>2 DEF Fleet
  <2>7. \A w, x \in Active(B) : w # x => Alive(B[w], "agent") \cap Alive(B[x], "agent") = {}
    <3> SUFFICES ASSUME NEW w \in Active(B), NEW x \in Active(B), w # x
                 PROVE  Alive(B[w], "agent") \cap Alive(B[x], "agent") = {}
      OBVIOUS
    <3>1. CASE w = keep
      BY <2>6, <3>1
    <3>2. CASE x = keep
      BY <2>6, <3>2
    <3>3. CASE w # keep /\ x # keep
      <4>1. w \in Active(A) /\ x \in Active(A) /\ B[w] = A[w] /\ B[x] = A[x]
        BY <1>6, <3>3
      <4> QED BY <4>1 DEF Fleet
    <3> QED BY <3>1, <3>2, <3>3
  <2>8. ASSUME NEW w \in Active(B), NEW m \in Alive(B[w], "mac")
        PROVE  \E s \in Rec : m \in Ids[s]["mac"] /\ Ids[s]["agent"] \subseteq Alive(B[w], "agent")
    <3>1. CASE w # keep
      BY <1>6, <2>8, <3>1 DEF Fleet
    <3>2. CASE w = keep /\ m \in Alive(A[gone], "mac")
      BY <2>1, <3>2
    <3>3. CASE w = keep /\ m \in Alive(A[keep], "mac")
      <4>1. PICK s \in Rec : m \in Ids[s]["mac"] /\ Ids[s]["agent"] \subseteq Alive(A[keep], "agent")
        BY <1>9, <3>3 DEF Fleet
      <4> QED BY <2>2, <3>3, <4>1
    <3> QED BY <2>2, <2>8, <3>1, <3>2, <3>3
  <2>9. Fleet(B)
    BY <2>4, <2>5, <2>7, <2>8 DEF Fleet
  <2> QED BY <1>3, <2>3, <2>9 DEF B, Absorbing
<1> QED BY <1>8, <1>9

LEMMA AbsorbedNoted ==
  ASSUME NEW A, NEW B, NEW r \in Rec, NEW u, Noted(A, B, r, u), NEW keep, NEW gone,
         Absorbed(A, keep, gone)
  PROVE  Absorbed(B, keep, gone)
<1>1. {"agent", "mac"} \subseteq Key \ {"ip", "fqdn"} /\ {"agent", "mac"} \subseteq Key \ {"ip"}
  BY DEF Key
<1>2. {keep, gone} \subseteq DOMAIN A /\ gone \notin Active(A) /\ gone # u
  BY DEF Absorbed, Noted
<1>3. {keep, gone} \subseteq DOMAIN B /\ gone \notin Active(B)
  BY <1>2 DEF Noted, Active
<1>4. ASSUME keep \in Active(B)
      PROVE  /\ \A k \in Key : Alive(B[gone], k) \subseteq Recorded(k)
             /\ Alive(B[gone], "agent") \subseteq Alive(B[keep], "agent")
             /\ \A m \in Alive(B[gone], "mac") :
                  \E s \in Rec : m \in Ids[s]["mac"] /\ Ids[s]["agent"] \subseteq Alive(B[keep], "agent")
  <2>1. keep \in Active(A)
    BY <1>2, <1>4 DEF Noted, Active
  <2>2. /\ \A k \in Key : Alive(A[gone], k) \subseteq Recorded(k)
        /\ Alive(A[gone], "agent") \subseteq Alive(A[keep], "agent")
        /\ \A m \in Alive(A[gone], "mac") :
             \E s \in Rec : m \in Ids[s]["mac"] /\ Ids[s]["agent"] \subseteq Alive(A[keep], "agent")
    BY <2>1 DEF Absorbed
  <2>3. \A k \in Key : Alive(B[gone], k) \subseteq Alive(A[gone], k)
    BY <1>2 DEF Noted
  <2>4. Alive(A[keep], "agent") \subseteq Alive(B[keep], "agent")
    <3>1. CASE keep = u
      BY <1>1, <1>2, <3>1 DEF Noted, Old
    <3>2. CASE keep # u
      BY <1>1, <1>2, <3>2 DEF Noted
    <3> QED BY <3>1, <3>2
  <2>5. Alive(B[gone], "agent") \subseteq Alive(A[gone], "agent") /\ Alive(B[gone], "mac") \subseteq Alive(A[gone], "mac")
    BY <1>1, <2>3
  <2>6. \A k \in Key : Alive(B[gone], k) \subseteq Recorded(k)
    BY <2>2, <2>3
  <2> QED BY <2>2, <2>4, <2>5, <2>6
<1> QED BY <1>3, <1>4 DEF Absorbed

LEMMA AbsorbedThinned ==
  ASSUME NEW A, NEW B, Thinned(A, B), NEW keep, NEW gone, Absorbed(A, keep, gone)
  PROVE  Absorbed(B, keep, gone)
<1>1. /\ {keep, gone} \subseteq DOMAIN B /\ Active(B) \subseteq Active(A)
      /\ \A k \in Key : Alive(B[keep], k) = Alive(A[keep], k) /\ Alive(B[gone], k) = Alive(A[gone], k)
  BY DEF Thinned, Absorbed, Alive
<1>2. {"agent", "mac"} \subseteq Key
  BY DEF Key
<1> QED BY <1>1, <1>2 DEF Absorbed

(* late_merge_pass finds no two assets of one host.                        *)
LEMMA FleetNoPairs ==
  ASSUME Agented, MacOfOneAgent, NoBareNames, NEW A \in Seq(AssetShape), Fleet(A)
  PROVE  MergePairs(A) = {}
<1> SUFFICES ASSUME NEW u \in Active(A), NEW v \in Active(A), u # v, SameHost(A, u, v) PROVE FALSE
  BY DEF MergePairs, Active
<1>1. A[u] \in AssetShape /\ A[v] \in AssetShape /\ {"agent", "mac", "ip"} \subseteq Key
  BY ElementOfSeq DEF Active, Key
<1>2. Alive(A[u], "agent") \cap Alive(A[v], "agent") = {}
  BY DEF Fleet
<1>3. /\ IdsOf(A[u])["agent"] \subseteq Alive(A[u], "agent") /\ IdsOf(A[v])["agent"] \subseteq Alive(A[v], "agent")
      /\ IdsOf(A[u])["agent"] # {}
      /\ IdsOf(A[u])["mac"] = Alive(A[u], "mac") /\ IdsOf(A[v])["mac"] = Alive(A[v], "mac")
  BY <1>1, IdsOfAlive DEF Fleet, Several
<1>4. ~ SharesStrong(A[u], A[v])
  <2>1. IdsOf(A[u])["agent"] \cap IdsOf(A[v])["agent"] = {}
    BY <1>2, <1>3
  <2>2. ASSUME NEW m \in Alive(A[u], "mac"), m \in Alive(A[v], "mac") PROVE FALSE
    <3>1. PICK r \in Rec : m \in Ids[r]["mac"] /\ Ids[r]["agent"] \subseteq Alive(A[u], "agent")
      BY <2>2 DEF Fleet
    <3>2. PICK s \in Rec : m \in Ids[s]["mac"] /\ Ids[s]["agent"] \subseteq Alive(A[v], "agent")
      BY <2>2 DEF Fleet
    <3>3. Ids[r]["agent"] = Ids[s]["agent"] /\ Ids[r]["agent"] # {}
      BY <3>1, <3>2 DEF MacOfOneAgent, Agented
    <3> QED BY <1>2, <3>1, <3>2, <3>3
  <2> QED BY <1>3, <2>1, <2>2 DEF SharesStrong
<1>5. ~ SharesAddress(A[u], A[v])
  <2>1. Conflict(IdsOf(A[u]), IdsOf(A[v]), "ip")
    BY <1>1, <1>2, <1>3, AgentsConflict DEF Fleet
  <2> QED BY <2>1 DEF SharesAddress
<1>6. ~ BareNameOf(A, A[u], A[v]) /\ ~ BareNameOf(A, A[v], A[u])
  BY NoBareMerge DEF Fleet
<1> QED BY <1>4, <1>5, <1>6 DEF SameHost

AgentSite == Agented /\ MacOfOneAgent /\ NoBareNames

FleetInv ==
  /\ Fleet(inFile) /\ Fleet(outFile) /\ Fleet(mem)
  /\ order = NoOrder => Single(inFile) /\ Single(outFile) /\ Single(mem)
  /\ pc \in {"observe", "close"} => \A r \in scan \ todo : stamped[r] \in Active(mem)
  /\ pc = "close" => todo = {}
  /\ order.what = "merge" =>
       /\ order.uid # order.to
       /\ {order.uid, order.to} \subseteq Active(outFile) \/ Absorbing(outFile, order.uid, order.to)
       /\ pc \in {"observe", "close"} => Absorbing(mem, order.uid, order.to)

LEMMA FleetNext ==
  ASSUME AgentSite, Shape, FleetInv, [Next]_vars PROVE FleetInv'
<1>1. /\ inFile \in Seq(AssetShape) /\ outFile \in Seq(AssetShape) /\ mem \in Seq(AssetShape)
      /\ order \in Orders \cup {NoOrder}
  BY DEF Shape
<1> DEFINE u == order.uid
           v == order.to
<1>2. ASSUME NEW recs \in SUBSET Rec, Begin(recs) PROVE FleetInv'
  <2>1. /\ mem' = Ordered(inFile) /\ pc' = "observe" /\ scan' = recs /\ todo' = recs
        /\ UNCHANGED <<inFile, outFile, order>> /\ (order # NoOrder => inFile = outFile)
    BY <1>2 DEF Begin
  <2>2. CASE order.what = "merge"
    <3>1. order # NoOrder /\ inFile = outFile /\ u # v
      BY <2>1, <2>2 DEF NoOrder, FleetInv
    <3>2. {u, v} \subseteq Active(inFile) \/ Absorbing(inFile, u, v)
      BY <2>2, <3>1 DEF FleetInv
    <3>3. u \in DOMAIN inFile /\ v \in DOMAIN inFile
      BY <3>2 DEF Active, Absorbing, Absorbed
    <3>4. mem' = Merged(inFile, u, v)
      BY <2>1, <2>2, <3>1, <3>3 DEF Ordered
    <3>5. Fleet(mem') /\ Absorbing(mem', u, v)
      BY <1>1, <3>1, <3>2, <3>3, <3>4, FleetMerged DEF FleetInv
    <3> QED BY <2>1, <3>1, <3>5 DEF FleetInv
  <2>3. CASE order.what # "merge"
    <3>1. Ordered(inFile) = inFile \/ Thinned(inFile, Ordered(inFile))
      <4>1. CASE {u, v} \subseteq DOMAIN inFile /\ u # v
        <5>1. Ordered(inFile) = [inFile EXCEPT ![v].status = "retired"]
          BY <2>3, <4>1 DEF Ordered
        <5>2. v \in DOMAIN inFile
          BY <4>1
        <5>3. inFile \in Seq(AssetShape)
          BY <1>1
        <5>4. Thinned(inFile, [inFile EXCEPT ![v].status = "retired"])
          <6> HIDE DEF v
          <6> QED BY <5>2, <5>3, RetiredThins
        <5> QED BY <5>1, <5>4
      <4>2. CASE ~ ({u, v} \subseteq DOMAIN inFile /\ u # v)
        BY <4>2 DEF Ordered
      <4> QED BY <4>1, <4>2
    <3>2. Fleet(mem') /\ (order = NoOrder => Single(mem'))
      BY <2>1, <3>1, FleetThinned DEF FleetInv
    <3> QED BY <2>1, <2>3, <3>2 DEF FleetInv
  <2> QED BY <2>2, <2>3
<1>3. ASSUME NEW r \in Rec, Observe(r) PROVE FleetInv'
  <2>1. PICK now \in Nat :
          /\ mem' = After(mem, r, now)
          /\ stamped' = [stamped EXCEPT ![r] = At(mem, r, now)]
          /\ todo' = todo \ {r} /\ r \in todo /\ pc = "observe"
          /\ UNCHANGED <<inFile, outFile, order, scan, runNo, pc>>
    BY <1>3, ObserveIs
  <2>2. /\ Fleet(mem') /\ (Single(mem) => Single(mem'))
        /\ Active(mem') = Active(mem) \cup {At(mem, r, now)}
    BY <1>1, <2>1, FleetNoted DEF AgentSite, FleetInv
  <2>3. ASSUME NEW s \in scan' \ todo' PROVE stamped'[s] \in Active(mem')
    <3>1. CASE s = r
      BY <2>1, <2>2, <3>1 DEF Shape
    <3>2. CASE s # r
      <4>1. s \in scan \ todo /\ stamped'[s] = stamped[s]
        BY <2>1, <3>2
      <4> QED BY <2>1, <2>2, <4>1 DEF FleetInv
    <3> QED BY <3>1, <3>2
  <2>4. ASSUME order.what = "merge" PROVE Absorbing(mem', u, v)
    <3>1. Noted(mem, mem', r, At(mem, r, now))
      BY <1>1, <2>1, ObservedIs
    <3>2. Absorbing(mem, u, v)
      BY <2>1, <2>4 DEF FleetInv
    <3> QED BY <3>1, <3>2, AbsorbedNoted DEF Absorbing
  <2> QED BY <2>1, <2>2, <2>3, <2>4 DEF FleetInv
<1>4. CASE LateMerge
  <2>1. MergePairs(mem) # {}
    BY <1>4 DEF LateMerge
  <2> QED BY <1>1, <2>1, FleetNoPairs DEF AgentSite, FleetInv
<1>5. CASE Attach
  <2>1. /\ pc = "observe" /\ todo = {} /\ stamped' = Restamped /\ pc' = "close"
        /\ UNCHANGED <<inFile, outFile, order, scan, mem, todo>>
    BY <1>5 DEF Attach
  <2>2. ASSUME NEW r \in scan \ todo PROVE stamped'[r] \in Active(mem)
    <3>1. r \in Rec /\ stamped[r] \in Active(mem)
      BY <2>1 DEF Shape, FleetInv
    <3>2. mem[stamped[r]].status # "merged"
      BY <3>1 DEF Active
    <3> QED BY <2>1, <3>1, <3>2 DEF Restamped
  <2> QED BY <2>1, <2>2 DEF FleetInv
<1>6. CASE CloseRun
  <2>1. /\ mem' = Closed(mem, {Source[r] : r \in KeptRecords}) /\ outFile' = mem'
        /\ pc = "close" /\ pc' = "idle" /\ UNCHANGED <<inFile, order>>
    BY <1>6 DEF CloseRun
  <2>2. Thinned(mem, mem')
    BY <1>1, <2>1, ClosedThins
  <2>3. Fleet(mem') /\ (order = NoOrder => Single(mem'))
    BY <2>2, FleetThinned DEF FleetInv
  <2>4. ASSUME order.what = "merge" PROVE u # v /\ Absorbing(outFile', u, v)
    <3>1. u # v /\ Absorbing(mem, u, v)
      BY <2>1, <2>4 DEF FleetInv
    <3>2. Absorbing(mem', u, v)
      BY <2>2, <3>1, AbsorbedThinned DEF Absorbing
    <3> QED BY <2>1, <3>1, <3>2
  <2> QED BY <2>1, <2>3, <2>4 DEF FleetInv
<1>7. CASE Carry
  <2>1. /\ inFile' = outFile /\ pc = "idle"
        /\ UNCHANGED <<outFile, order, scan, runNo, pc, mem, todo, observed, stamped>>
    BY <1>7 DEF Carry
  <2> QED BY <2>1 DEF FleetInv
<1>8. ASSUME NEW o \in Orders, WriteOrder(o) PROVE FleetInv'
  <2>1. /\ order = NoOrder /\ order' = o /\ pc = "idle"
        /\ {o.uid, o.to} \subseteq Active(outFile) /\ o.uid # o.to
        /\ UNCHANGED <<inFile, outFile, scan, runNo, pc, mem, todo, observed, stamped>>
    BY <1>8 DEF WriteOrder
  <2>2. o # NoOrder
    BY AssetConstants DEF NoOrder
  <2> QED BY <2>1, <2>2 DEF FleetInv
<1>9. CASE UNCHANGED vars
  BY <1>9 DEF vars, FleetInv
<1> QED BY <1>2, <1>3, <1>4, <1>5, <1>6, <1>7, <1>8, <1>9 DEF Next

LEMMA EmptyFleet == Fleet(<< >>) /\ Single(<< >>) /\ Active(<< >>) = {}
<1>1. Active(<< >>) = {}
  BY DEF Active
<1> QED BY <1>1 DEF Fleet, Single, Known

LEMMA FleetInit ==
  ASSUME Init PROVE FleetInv
<1>1. inFile = << >> /\ outFile = << >> /\ mem = << >> /\ pc = "idle" /\ order.what # "merge"
  BY DEF Init, NoOrder
<1> QED BY <1>1, EmptyFleet DEF FleetInv

LEMMA FleetHolds == AgentSite => (Spec => []FleetInv)
<1> SUFFICES ASSUME AgentSite PROVE Spec => []FleetInv
  OBVIOUS
<1>1. Init => FleetInv
  BY FleetInit
<1>2. Shape /\ FleetInv /\ [Next]_vars => FleetInv'
  BY FleetNext
<1> QED BY <1>1, <1>2, ShapeHolds, PTL DEF Spec

(* Where every host runs an agent, a MAC is of one agent and short names   *)
(* abbreviate no FQDN, two hosts never become one asset ...                *)
THEOREM AgentsNotConflated == AgentSite => (Spec => []NoConflation)
<1> SUFFICES ASSUME AgentSite PROVE Spec => []NoConflation
  OBVIOUS
<1>1. Shape /\ FleetInv => NoConflation
  <2> SUFFICES ASSUME Shape, FleetInv, order = NoOrder, NEW u \in Active(mem)
               PROVE  Cardinality(Alive(mem[u], "agent")) <= 1
    BY DEF NoConflation
  <2>1. Single(mem) /\ Fleet(mem)
    BY DEF FleetInv, NoOrder
  <2>2. PICK x : x \in Alive(mem[u], "agent")
    BY <2>1 DEF Fleet
  <2>3. Alive(mem[u], "agent") = {x}
    BY <2>1, <2>2 DEF Single
  <2>4. Cardinality({x}) = 1
    BY FS_Singleton
  <2> QED BY <2>3, <2>4
<1> QED BY <1>1, ShapeHolds, FleetHolds, PTL

(* ... no agent, MAC or address is on two assets ...                       *)
THEOREM AgentsOneHolder == AgentSite => (Spec => []OneHolder)
<1> SUFFICES ASSUME AgentSite PROVE Spec => []OneHolder
  OBVIOUS
<1>1. Shape /\ FleetInv => OneHolder
  <2> SUFFICES ASSUME Shape, FleetInv, order = NoOrder,
                      NEW u \in Active(mem), NEW v \in Active(mem), u # v
               PROVE  \A k \in {"agent", "mac", "ip"} : Alive(mem[u], k) \cap Alive(mem[v], k) = {}
    BY DEF OneHolder
  <2>1. Single(mem) /\ Fleet(mem)
    BY DEF FleetInv, NoOrder
  <2>2. Alive(mem[u], "agent") \cap Alive(mem[v], "agent") = {}
    BY <2>1 DEF Fleet
  <2>3. Alive(mem[u], "ip") \cap Alive(mem[v], "ip") = {}
    BY <2>1 DEF Single
  <2>4. ASSUME NEW m \in Alive(mem[u], "mac"), m \in Alive(mem[v], "mac") PROVE FALSE
    <3>1. PICK r \in Rec : m \in Ids[r]["mac"] /\ Ids[r]["agent"] \subseteq Alive(mem[u], "agent")
      BY <2>1 DEF Fleet
    <3>2. PICK s \in Rec : m \in Ids[s]["mac"] /\ Ids[s]["agent"] \subseteq Alive(mem[v], "agent")
      BY <2>1, <2>4 DEF Fleet
    <3>3. Ids[r]["agent"] = Ids[s]["agent"] /\ Ids[r]["agent"] # {}
      BY <3>1, <3>2 DEF AgentSite, MacOfOneAgent, Agented
    <3> QED BY <2>2, <3>1, <3>2, <3>3
  <2> QED BY <2>2, <2>3, <2>4
<1> QED BY <1>1, ShapeHolds, FleetHolds, PTL

(* ... and every record is stamped with an active asset, whatever the      *)
(* operator has ordered.                                                   *)
THEOREM AgentsStampedActive == AgentSite => (Spec => []StampedActive)
<1> SUFFICES ASSUME AgentSite PROVE Spec => []StampedActive
  OBVIOUS
<1>1. Shape /\ FleetInv => StampedActive
  <2> SUFFICES ASSUME Shape, FleetInv, pc = "close", NEW r \in scan
               PROVE  mem[stamped[r]].status = "active"
    BY DEF StampedActive
  <2>1. stamped[r] \in Active(mem)
    BY DEF FleetInv
  <2> QED BY <2>1 DEF Active
<1> QED BY <1>1, ShapeHolds, FleetHolds, PTL

-----------------------------------------------------------------------------
(* A site of agents, and of scanners that know a MAC or an address.        *)

OneAgent(A) == \A u \in Active(A) : \A p, q \in Alive(A[u], "agent") : p = q
MacOnce(A) == \A u, v \in Active(A) : u # v => Alive(A[u], "mac") \cap Alive(A[v], "mac") = {}
Lan(A) == Known(A) /\ OneAgent(A) /\ MacOnce(A)

(* A record joins an asset only where their agents agree, and one with a   *)
(* MAC joins the asset that has it.                                        *)
LEMMA LanMatch ==
  ASSUME LoneMac, NEW A \in Seq(AssetShape), Lan(A), NEW r \in Rec, NEW now \in Nat
  PROVE  /\ At(A, r, now) \in DOMAIN A =>
              \A p \in Ids[r]["agent"], q \in Alive(A[At(A, r, now)], "agent") : p = q
         /\ \A w \in Active(A) \ {At(A, r, now)} : Ids[r]["mac"] \cap Alive(A[w], "mac") = {}
<1> DEFINE obs == Ids[r]
           hit == FindMatch(A, obs, now)
           u == At(A, r, now)
           Agree(w) == \A p \in obs["agent"], q \in Alive(A[w], "agent") : p = q
<1>1. Active(A) \subseteq DOMAIN A /\ \A w \in Active(A) : A[w] \in AssetShape
  BY ElementOfSeq DEF Active
<1>2. {"agent", "mac", "hostname"} \subseteq Key
  BY DEF Key
<1>3. hit = 0 \/ hit \in Active(A)
  BY FindMatchIs
<1>4. (hit = 0 => u \notin DOMAIN A) /\ (hit # 0 => u = hit)
  BY DEF At
<1>5. \A p, q \in obs["agent"] : p = q
  BY OneAgentOfRecord
<1>6. obs["mac"] # {} => obs["agent"] = {} /\ \E m : obs["mac"] = {m}
  BY DEF LoneMac
<1> HIDE DEF obs
<1>7. ASSUME NEW w \in Active(A), NEW k \in Key, k # "agent", ~ Conflict(obs, IdsOf(A[w]), k)
      PROVE  Agree(w)
  <2>1. obs["agent"] = {} \/ Alive(A[w], "agent") = {} \/ obs["agent"] \cap Alive(A[w], "agent") # {}
    BY <1>1, <1>7, AgentsConflict
  <2> QED BY <1>5, <2>1 DEF Lan, OneAgent
<1>8. ASSUME NEW w \in Active(A), MatchKey(obs, A[w], "agent", now) PROVE Agree(w)
  BY <1>5, <1>8 DEF MatchKey, Lan, OneAgent
<1>9. ASSUME u \in DOMAIN A PROVE Agree(u)
  <2>1. hit # 0 /\ u = hit /\ hit \in Active(A)
    BY <1>3, <1>4, <1>9
  <2> HIDE DEF Agree
  <2>2. CASE \E k \in Key : MatchKey(obs, A[hit], k, now)
    <3>1. PICK k \in Key : MatchKey(obs, A[hit], k, now)
      BY <2>2
    <3>2. CASE k = "agent"
      BY <1>8, <2>1, <3>1, <3>2
    <3>3. CASE k # "agent"
      <4>1. ~ Conflict(obs, IdsOf(A[hit]), k)
        BY <3>1 DEF MatchKey
      <4> QED BY <1>7, <2>1, <3>3, <4>1
    <3> QED BY <3>2, <3>3
  <2>3. CASE ~ Conflict(obs, IdsOf(A[hit]), "hostname")
    BY <1>2, <1>7, <2>1, <2>3
  <2>4. \/ hit = 0
        \/ \E k \in Key : MatchKey(obs, A[hit], k, now)
        \/ ~ Conflict(obs, IdsOf(A[hit]), "hostname")
    BY FindMatchIs
  <2> QED BY <2>1, <2>2, <2>3, <2>4
<1>10. ASSUME NEW w \in Active(A) \ {u}, NEW m \in obs["mac"], m \in Alive(A[w], "mac") PROVE FALSE
  <2>1. obs["agent"] = {} /\ obs["mac"] = {m}
    BY <1>6, <1>10
  <2>2. MatchKey(obs, A[w], "mac", now)
    <3>1. \A k \in Key : Rank[k] > Rank["mac"] => k = "agent"
      BY DEF Key, Rank
    <3>2. ~ Conflict(obs, IdsOf(A[w]), "mac")
      BY <2>1, <3>1 DEF Conflict
    <3> QED BY <1>10, <3>2 DEF MatchKey
  <2>3. /\ hit \in Active(A)
        /\ \E k \in Key : /\ MatchKey(obs, A[hit], k, now)
                          /\ \A v \in Active(A), j \in Key :
                               MatchKey(obs, A[v], j, now) => Rank[j] <= Rank[k]
    BY <1>2, <2>2, FindMatchIs
  <2>4. PICK k \in Key : MatchKey(obs, A[hit], k, now) /\ Rank["mac"] <= Rank[k]
    BY <1>2, <2>2, <2>3
  <2>5. k = "agent" \/ k = "mac"
    BY <2>4 DEF Key, Rank
  <2>6. k = "mac" /\ m \in Alive(A[hit], "mac")
    BY <2>1, <2>4, <2>5 DEF MatchKey
  <2>7. hit # 0 /\ u = hit
    BY <1>1, <1>4, <2>3
  <2> QED BY <1>10, <2>3, <2>6, <2>7 DEF Lan, MacOnce
<1> QED BY <1>9, <1>10 DEF obs

LEMMA LanNoted ==
  ASSUME LoneMac, NEW A \in Seq(AssetShape), Lan(A), NEW r \in Rec, NEW now \in Nat
  PROVE  Lan(After(A, r, now))
<1> DEFINE u == At(A, r, now)
           B == After(A, r, now)
<1>1. Noted(A, B, r, u)
  BY ObservedIs
<1>2. /\ u \in DOMAIN A => \A p \in Ids[r]["agent"], q \in Alive(A[u], "agent") : p = q
      /\ \A w \in Active(A) \ {u} : Ids[r]["mac"] \cap Alive(A[w], "mac") = {}
  BY LanMatch
<1> HIDE DEF u, B
<1>3. {"agent", "mac"} \subseteq Key \ {"ip", "fqdn"}
  BY DEF Key
<1>4. Active(B) = Active(A) \cup {u} /\ (u \in DOMAIN A => u \in Active(A))
  BY <1>1 DEF Noted, Active
<1>5. \A k \in {"agent", "mac"} :
        /\ Alive(B[u], k) = Old(A, u, k) \cup Ids[r][k]
        /\ \A w \in Active(A) \ {u} : Alive(B[w], k) = Alive(A[w], k)
  BY <1>1, <1>3 DEF Noted, Active
<1>6. Known(B)
  BY <1>1, KnownNoted DEF Lan
<1>7. \A p, q \in Alive(B[u], "agent") : p = q
  <2>1. \A p, q \in Ids[r]["agent"] : p = q
    BY OneAgentOfRecord
  <2>2. CASE u \in DOMAIN A
    <3>1. \A p, q \in Alive(A[u], "agent") : p = q
      BY <1>4, <2>2 DEF Lan, OneAgent
    <3>2. Alive(B[u], "agent") = Alive(A[u], "agent") \cup Ids[r]["agent"]
      BY <1>5, <2>2 DEF Old
    <3> QED BY <1>2, <2>1, <2>2, <3>1, <3>2
  <2>3. CASE u \notin DOMAIN A
    BY <1>5, <2>1, <2>3 DEF Old
  <2> QED BY <2>2, <2>3
<1>8. OneAgent(B)
  BY <1>4, <1>5, <1>7 DEF Lan, OneAgent
<1>9. \A w \in Active(A) \ {u} : Alive(B[u], "mac") \cap Alive(B[w], "mac") = {}
  <2> SUFFICES ASSUME NEW w \in Active(A) \ {u} PROVE Alive(B[u], "mac") \cap Alive(B[w], "mac") = {}
    OBVIOUS
  <2>1. Old(A, u, "mac") \cap Alive(A[w], "mac") = {}
    BY <1>4 DEF Old, Lan, MacOnce
  <2> QED BY <1>2, <1>5, <2>1
<1>10. MacOnce(B)
  BY <1>4, <1>5, <1>9 DEF Lan, MacOnce
<1> QED BY <1>6, <1>8, <1>10 DEF Lan, B

LEMMA LanThinned ==
  ASSUME NEW A, NEW B, Thinned(A, B), Lan(A)
  PROVE  Lan(B)
<1>1. /\ Active(B) \subseteq Active(A)
      /\ \A w \in Active(B) : \A k \in Key : Alive(B[w], k) = Alive(A[w], k)
  BY ThinnedIs
<1>2. {"agent", "mac"} \subseteq Key
  BY DEF Key
<1>3. Known(B)
  BY <1>1 DEF Known, Lan
<1>4. OneAgent(B)
  BY <1>1, <1>2 DEF Lan, OneAgent
<1>5. MacOnce(B)
  BY <1>1, <1>2 DEF Lan, MacOnce
<1> QED BY <1>3, <1>4, <1>5 DEF Lan

(* late_merge_pass merges only assets whose agents agree.                  *)
LEMMA LanPair ==
  ASSUME NoBareNames, NEW A \in Seq(AssetShape), Lan(A),
         NEW u \in Active(A), NEW v \in Active(A), u # v, SameHost(A, u, v)
  PROVE  \A p \in Alive(A[u], "agent"), q \in Alive(A[v], "agent") : p = q
<1>1. A[u] \in AssetShape /\ A[v] \in AssetShape /\ {"agent", "mac", "ip"} \subseteq Key
  BY ElementOfSeq DEF Active, Key
<1>2. /\ IdsOf(A[u])["agent"] \subseteq Alive(A[u], "agent") /\ IdsOf(A[v])["agent"] \subseteq Alive(A[v], "agent")
      /\ IdsOf(A[u])["agent"] = {} => Alive(A[u], "agent") = {}
      /\ IdsOf(A[v])["agent"] = {} => Alive(A[v], "agent") = {}
      /\ IdsOf(A[u])["mac"] = Alive(A[u], "mac") /\ IdsOf(A[v])["mac"] = Alive(A[v], "mac")
  BY <1>1, IdsOfAlive DEF Several
<1>3. /\ \A p, q \in Alive(A[u], "agent") : p = q
      /\ \A p, q \in Alive(A[v], "agent") : p = q
  BY DEF Lan, OneAgent
<1>4. CASE SharesStrong(A[u], A[v])
  <2>1. IdsOf(A[u])["mac"] \cap IdsOf(A[v])["mac"] = {}
    BY <1>2 DEF Lan, MacOnce
  <2>2. IdsOf(A[u])["agent"] \cap IdsOf(A[v])["agent"] # {}
    BY <1>4, <2>1 DEF SharesStrong
  <2>3. PICK x : x \in Alive(A[u], "agent") /\ x \in Alive(A[v], "agent")
    BY <1>2, <2>2
  <2> QED BY <1>3, <2>3
<1>5. CASE SharesAddress(A[u], A[v])
  <2>1. ~ Conflict(IdsOf(A[u]), IdsOf(A[v]), "ip")
    BY <1>5 DEF SharesAddress
  <2>2. Rank["agent"] > Rank["ip"]
    BY DEF Rank, Key
  <2>3. \/ IdsOf(A[u])["agent"] = {} \/ IdsOf(A[v])["agent"] = {}
        \/ IdsOf(A[u])["agent"] \cap IdsOf(A[v])["agent"] # {}
    BY <1>1, <2>1, <2>2 DEF Conflict
  <2>4. CASE IdsOf(A[u])["agent"] \cap IdsOf(A[v])["agent"] # {}
    <3>1. PICK x : x \in Alive(A[u], "agent") /\ x \in Alive(A[v], "agent")
      BY <1>2, <2>4
    <3> QED BY <1>3, <3>1
  <2> QED BY <1>2, <2>3, <2>4
<1>6. ~ BareNameOf(A, A[u], A[v]) /\ ~ BareNameOf(A, A[v], A[u])
  BY NoBareMerge DEF Lan
<1> QED BY <1>4, <1>5, <1>6 DEF SameHost

LEMMA LanJoined ==
  ASSUME NoBareNames, NEW A \in Seq(AssetShape), NEW B, Lan(A),
         NEW u \in Active(A), NEW v \in Active(A), u # v, SameHost(A, u, v), Joined(A, B, u, v)
  PROVE  Lan(B)
<1>1. PICK keep \in {u, v} : JoinedOn(A, B, u, v, keep)
  BY JoinedIs
<1>2. {"agent", "mac"} \subseteq Key
  BY DEF Key
<1>3. \A k \in {"agent", "mac"} : Alive(B[keep], k) = Alive(A[u], k) \cup Alive(A[v], k)
  BY <1>1, <1>2 DEF JoinedOn
<1>4. \A w \in Active(B) \ {keep} : w \in Active(A) \ {u, v} /\ B[w] = A[w]
  BY <1>1 DEF JoinedOn
<1>5. Known(B)
  BY KnownJoined DEF Lan
<1>6. \A p \in Alive(A[u], "agent"), q \in Alive(A[v], "agent") : p = q
  BY LanPair
<1>7. \A p, q \in Alive(B[keep], "agent") : p = q
  <2>1. /\ \A p, q \in Alive(A[u], "agent") : p = q
        /\ \A p, q \in Alive(A[v], "agent") : p = q
    BY DEF Lan, OneAgent
  <2>2. Alive(B[keep], "agent") = Alive(A[u], "agent") \cup Alive(A[v], "agent")
    BY <1>3
  <2> QED BY <1>6, <2>1, <2>2
<1>8. OneAgent(B)
  BY <1>4, <1>7 DEF Lan, OneAgent
<1>9. \A w \in Active(B) \ {keep} : Alive(B[keep], "mac") \cap Alive(B[w], "mac") = {}
  BY <1>3, <1>4 DEF Lan, MacOnce
<1>10. MacOnce(B)
  BY <1>4, <1>9 DEF Lan, MacOnce
<1> QED BY <1>5, <1>8, <1>10 DEF Lan

LanInv == order = NoOrder => Lan(inFile) /\ Lan(outFile) /\ Lan(mem)

LEMMA LanHolds == LoneMac /\ NoBareNames => (Spec => []LanInv)
<1> SUFFICES ASSUME LoneMac, NoBareNames PROVE Spec => []LanInv
  OBVIOUS
<1>1. Init => LanInv
  <2> SUFFICES ASSUME Init PROVE LanInv
    OBVIOUS
  <2>1. inFile = << >> /\ outFile = << >> /\ mem = << >>
    BY DEF Init
  <2>2. Active(<< >>) = {}
    BY DEF Active
  <2>3. Lan(<< >>)
    BY <2>2 DEF Lan, Known, OneAgent, MacOnce
  <2> QED BY <2>1, <2>3 DEF LanInv
<1>2. Shape /\ LanInv /\ [Next]_vars => LanInv'
  <2> SUFFICES ASSUME Shape, LanInv, [Next]_vars, order' = NoOrder
               PROVE  Lan(inFile') /\ Lan(outFile') /\ Lan(mem')
    BY DEF LanInv
  <2>1. inFile \in Seq(AssetShape) /\ outFile \in Seq(AssetShape) /\ mem \in Seq(AssetShape)
    BY DEF Shape
  <2>2. ASSUME order' = order PROVE Lan(inFile) /\ Lan(outFile) /\ Lan(mem) /\ order = NoOrder
    BY <2>2 DEF LanInv
  <2>3. ASSUME NEW recs \in SUBSET Rec, Begin(recs) PROVE Lan(inFile') /\ Lan(outFile') /\ Lan(mem')
    <3>1. mem' = Ordered(inFile) /\ UNCHANGED <<inFile, outFile, order>>
      BY <2>3 DEF Begin
    <3>2. Ordered(inFile) = inFile
      BY <2>1, <2>2, <3>1, OrderedIs
    <3> QED BY <2>2, <3>1, <3>2
  <2>4. ASSUME NEW r \in Rec, Observe(r) PROVE Lan(inFile') /\ Lan(outFile') /\ Lan(mem')
    <3>1. PICK now \in Nat : /\ mem' = After(mem, r, now)
                             /\ UNCHANGED <<inFile, outFile, order, scan, runNo, pc>>
      BY <2>4, ObserveIs
    <3>2. Lan(mem')
      BY <2>1, <2>2, <3>1, LanNoted
    <3> QED BY <2>2, <3>1, <3>2
  <2>5. CASE LateMerge
    <3>1. UNCHANGED <<inFile, outFile, order>>
      BY <2>5 DEF LateMerge
    <3>2. PICK u, v \in Active(mem) : u < v /\ SameHost(mem, u, v) /\ mem' = Merged(mem, u, v)
      BY <2>5, LateMergeIs
    <3>3. u \in DOMAIN mem /\ v \in DOMAIN mem /\ u # v
      BY <2>1, <3>2 DEF Active
    <3>4. Joined(mem, mem', u, v)
      BY <2>1, <3>2, <3>3, MergedIs
    <3>5. Lan(mem')
      BY <2>1, <2>2, <3>1, <3>2, <3>3, <3>4, LanJoined
    <3> QED BY <2>2, <3>1, <3>5
  <2>6. CASE CloseRun
    <3>1. /\ mem' = Closed(mem, {Source[r] : r \in KeptRecords}) /\ outFile' = mem'
          /\ UNCHANGED <<inFile, order>>
      BY <2>6 DEF CloseRun
    <3>2. Lan(mem')
      BY <2>1, <2>2, <3>1, ClosedThins, LanThinned
    <3> QED BY <2>2, <3>1, <3>2
  <2>7. CASE Attach \/ Carry \/ UNCHANGED vars
    <3>1. /\ inFile' \in {inFile, outFile} /\ UNCHANGED <<outFile, order, mem>>
      BY <2>7 DEF Attach, Carry, vars
    <3> QED BY <2>2, <3>1
  <2>8. ASSUME NEW o \in Orders, WriteOrder(o) PROVE Lan(inFile') /\ Lan(outFile') /\ Lan(mem')
    <3>1. order = NoOrder /\ UNCHANGED <<inFile, outFile, mem>>
      BY <2>8 DEF WriteOrder
    <3> QED BY <3>1 DEF LanInv
  <2> QED BY <2>3, <2>4, <2>5, <2>6, <2>7, <2>8 DEF Next
<1> QED BY <1>1, <1>2, ShapeHolds, PTL DEF Spec

(* Where a scanner's record knows one MAC and no agent, and short names    *)
(* abbreviate no FQDN, two hosts with agents never become one asset,       *)
(* whatever addresses they share over time.                                *)
THEOREM HostsNotConflated == LoneMac /\ NoBareNames => (Spec => []NoConflation)
<1> SUFFICES ASSUME LoneMac, NoBareNames PROVE Spec => []NoConflation
  OBVIOUS
<1>1. LanInv => NoConflation
  <2> SUFFICES ASSUME LanInv, order = NoOrder, NEW u \in Active(mem)
               PROVE  Cardinality(Alive(mem[u], "agent")) <= 1
    BY DEF NoConflation
  <2>1. OneAgent(mem)
    BY DEF LanInv, Lan
  <2> DEFINE S == Alive(mem[u], "agent")
  <2>2. S = {} \/ \E x : S = {x}
    BY <2>1 DEF OneAgent
  <2> HIDE DEF S
  <2>3. CASE S = {}
    <3>1. Cardinality(S) = 0
      BY <2>3, FS_EmptySet
    <3> QED BY <3>1 DEF S
  <2>4. CASE \E x : S = {x}
    <3>1. Cardinality(S) = 1
      BY <2>4, FS_Singleton
    <3> QED BY <3>1 DEF S
  <2> QED BY <2>2, <2>3, <2>4
<1> QED BY <1>1, LanHolds, PTL

-----------------------------------------------------------------------------
(* LoaderRun: the POA&M ledger beside this one.  First apply_ledger, record *)
(* by record.  A set of stages that has the first, and with each stage the *)
(* next, has them all.                                                     *)
LEMMA Along ==
  ASSUME NEW n \in Nat, NEW S, 0 \in S, \A i \in 1 .. n : i - 1 \in S => i \in S
  PROVE  0 .. n \subseteq S
<1> SUFFICES ASSUME (0 .. n) \ S # {} PROVE FALSE
  OBVIOUS
<1> DEFINE i == Least((0 .. n) \ S)
<1>1. i \in (0 .. n) \ S /\ \A j \in (0 .. n) \ S : i <= j
  BY LeastIsLeast
<1> HIDE DEF i
<1>2. i \in 1 .. n /\ i - 1 \in 0 .. n /\ ~ (i <= i - 1)
  BY <1>1
<1> QED BY <1>1, <1>2

IsRow(x) == x = [id |-> x.id, odd |-> x.odd, aliases |-> x.aliases] /\ x.odd \in Nat
Rows(rows) == \A f \in DOMAIN rows : IsRow(rows[f])

(* A finding has its row under f, and none under the old key of its host.  *)
Landed(rows, f, own) == f \in DOMAIN rows /\ (own \in DOMAIN rows => own = f)

(* Two records with a key in common have both.                             *)
KeysAgree(uids) ==
  \A r, s \in DOMAIN uids :
    {FpOf(uids, r), OwnKey(r)} \cap {FpOf(uids, s), OwnKey(s)} # {} =>
      FpOf(uids, r) = FpOf(uids, s) /\ OwnKey(r) = OwnKey(s)

LEMMA RecNumbers == Rec \subseteq Nat /\ NRec \in Nat
<1>1. NRec \in Nat
  BY AssetConstants
<1> QED BY <1>1 DEF Rec

LEMMA OldestIsFound ==
  ASSUME NEW rows, Rows(rows), NEW found \in SUBSET DOMAIN rows, found # {}
  PROVE  Oldest(rows, found) \in found
<1> DEFINE odds == {rows[f].odd : f \in found}
           first == {f \in found : \A g \in found : rows[f].odd <= rows[g].odd}
           id == CHOOSE i \in {rows[f].id : f \in first} : TRUE
<1>1. odds \in SUBSET Nat /\ odds # {}
  BY DEF Rows, IsRow
<1>2. Least(odds) \in odds /\ \A n \in odds : Least(odds) <= n
  BY <1>1, LeastIsLeast
<1>3. PICK f \in found : rows[f].odd = Least(odds)
  BY <1>2
<1>4. f \in first
  BY <1>2, <1>3
<1>5. id \in {rows[g].id : g \in first}
  BY <1>4
<1>6. PICK g \in first : rows[g].id = id
  BY <1>5
<1>7. Oldest(rows, found) \in first
  <2> HIDE DEF first, id
  <2>1. Oldest(rows, found) = CHOOSE h \in first : rows[h].id = id
    BY DEF Oldest, first, id
  <2> QED BY <1>6, <2>1
<1> QED BY <1>7

(* The rows found give way to one under f; the others stay.                *)
Replaced(rows, new, found, f) ==
  /\ Rows(new) /\ DOMAIN new = (DOMAIN rows \ found) \cup {f}
  /\ \A g \in DOMAIN new \ {f} : new[g] = rows[g]
  /\ found = {f} => new[f].id = rows[f].id

LEMMA AppliedIs ==
  ASSUME NEW uids, NEW rows, Rows(rows), NEW r \in DOMAIN uids, NEW run \in Nat
  PROVE  Replaced(rows, Applied(run, uids, rows, r), Found(uids, rows, r), FpOf(uids, r))
<1> DEFINE f == FpOf(uids, r)
           found == Found(uids, rows, r)
           new == Applied(run, uids, rows, r)
           keep == rows[Oldest(rows, found)]
           row == IF found = {} THEN [id |-> MintedId(rows, f), odd |-> run, aliases |-> {}]
                  ELSE [keep EXCEPT !.aliases = @ \cup ({rows[g].id : g \in found} \ {keep.id})]
<1>1. found \in SUBSET DOMAIN rows
  BY DEF Found
<1>2. found # {} => Oldest(rows, found) \in found
  BY <1>1, OldestIsFound
<1> HIDE DEF f, found
<1>3. found # {} => IsRow(keep)
  BY <1>1, <1>2 DEF Rows
<1> HIDE DEF keep
<1>4. found # {} => IsRow(row) /\ row.id = keep.id
  BY <1>3 DEF IsRow
<1>5. found = {} => IsRow(row)
  BY DEF IsRow
<1>6. found = {f} => keep = rows[f]
  BY <1>2 DEF keep
<1> HIDE DEF row
<1>7. new = [g \in (DOMAIN rows \ found) \cup {f} |-> IF g = f THEN row ELSE rows[g]]
  BY DEF Applied, row, keep, f, found
<1> HIDE DEF new
<1>8. Rows(new)
  BY <1>4, <1>5, <1>7 DEF Rows
<1>9. found = {f} => new[f].id = rows[f].id
  BY <1>4, <1>6, <1>7
<1>10. Replaced(rows, new, found, f)
  BY <1>7, <1>8, <1>9 DEF Replaced
<1> QED BY <1>10 DEF new, f, found

(* A finding that has its row keeps it, and the id on it.                  *)
LEMMA AppliedKeeps ==
  ASSUME NEW uids, KeysAgree(uids), NEW rows, Rows(rows), NEW run \in Nat,
         NEW r \in DOMAIN uids, NEW s \in DOMAIN uids, Landed(rows, FpOf(uids, r), OwnKey(r))
  PROVE  /\ Landed(Applied(run, uids, rows, s), FpOf(uids, r), OwnKey(r))
         /\ Applied(run, uids, rows, s)[FpOf(uids, r)].id = rows[FpOf(uids, r)].id
<1> DEFINE f == FpOf(uids, r)
           g == FpOf(uids, s)
           found == Found(uids, rows, s)
           new == Applied(run, uids, rows, s)
<1>1. Replaced(rows, new, found, g)
  BY AppliedIs
<1>2. found \subseteq {g, OwnKey(s)} \cap DOMAIN rows /\ (g \in DOMAIN rows => g \in found)
  BY DEF Found
<1>3. {f, OwnKey(r)} \cap {g, OwnKey(s)} # {} => f = g /\ OwnKey(r) = OwnKey(s)
  BY DEF KeysAgree
<1> HIDE DEF f, g, found, new
<1>4. f \in DOMAIN rows /\ (OwnKey(r) \in DOMAIN rows => OwnKey(r) = f)
  BY DEF Landed, f
<1>5. CASE {f, OwnKey(r)} \cap {g, OwnKey(s)} # {}
  <2>1. found = {g} /\ f = g
    BY <1>2, <1>3, <1>4, <1>5
  <2> QED BY <1>1, <1>4, <2>1 DEF Landed, Replaced, f, new
<1>6. CASE {f, OwnKey(r)} \cap {g, OwnKey(s)} = {}
  <2>1. f \in DOMAIN new \ {g} /\ (OwnKey(r) \in DOMAIN new => OwnKey(r) \in DOMAIN rows)
    BY <1>1, <1>2, <1>4, <1>6 DEF Replaced
  <2> QED BY <1>1, <1>4, <2>1 DEF Landed, Replaced, f, new
<1> QED BY <1>5, <1>6

(* The first record of a finding gives it its row and clears the old key.  *)
LEMMA AppliedLands ==
  ASSUME NEW uids, KeysAgree(uids), DOMAIN uids \subseteq Rec,
         NEW rows, Rows(rows), NEW run \in Nat, NEW r \in DOMAIN uids,
         \A s \in DOMAIN uids : s < r => Landed(rows, FpOf(uids, s), OwnKey(s))
  PROVE  Landed(Applied(run, uids, rows, r), FpOf(uids, r), OwnKey(r))
<1>1. \A s \in DOMAIN uids : s \in Nat
  BY RecNumbers
<1>2. CASE \E s \in DOMAIN uids : s < r /\ OwnKey(r) \in {FpOf(uids, s), OwnKey(s)}
  <2>1. PICK s \in DOMAIN uids : s < r /\ OwnKey(r) \in {FpOf(uids, s), OwnKey(s)}
    BY <1>2
  <2>2. FpOf(uids, r) = FpOf(uids, s) /\ OwnKey(r) = OwnKey(s)
    BY <2>1 DEF KeysAgree
  <2>3. Landed(rows, FpOf(uids, r), OwnKey(r))
    BY <2>1, <2>2
  <2> QED BY <2>3, AppliedKeeps
<1>3. CASE \A s \in DOMAIN uids : OwnKey(r) \in {FpOf(uids, s), OwnKey(s)} => ~ (s < r)
  <2>1. MayClaim(uids, r, OwnKey(r))
    <3>1. ASSUME NEW s \in DOMAIN uids, OwnKey(r) \in {FpOf(uids, s), OwnKey(s)} PROVE r <= s
      <4>1. r \in Nat /\ s \in Nat /\ ~ (s < r)
        BY <1>1, <1>3, <3>1
      <4> QED BY <4>1
    <3> QED BY <3>1 DEF MayClaim
  <2>2. OwnKey(r) \in DOMAIN rows => OwnKey(r) \in Found(uids, rows, r)
    BY <2>1 DEF Found
  <2>3. Replaced(rows, Applied(run, uids, rows, r), Found(uids, rows, r), FpOf(uids, r))
    BY AppliedIs
  <2> QED BY <2>2, <2>3 DEF Landed, Replaced
<1> QED BY <1>2, <1>3

(* The ledgers PlanOf goes through.                                        *)
RowsNext(run, uids, f, r) == IF r \in DOMAIN uids THEN Applied(run, uids, f[r - 1], r) ELSE f[r - 1]
Stages(run, uids, prior, n, f) ==
  f = [r \in 0 .. n |-> f[r]] /\ f[0] = prior /\ \A r \in 1 .. n : f[r] = RowsNext(run, uids, f, r)

LEMMA StagesExist ==
  ASSUME NEW run, NEW uids, NEW prior
  PROVE  \E f : Stages(run, uids, prior, NRec, f)
<1> DEFINE Good == {n \in 0 .. NRec : \E f : Stages(run, uids, prior, n, f)}
<1>1. 0 \in Good
  <2> DEFINE f == [r \in 0 .. 0 |-> prior]
  <2>1. f = [r \in 0 .. 0 |-> f[r]] /\ f[0] = prior /\ 1 .. 0 = {}
    OBVIOUS
  <2> HIDE DEF f
  <2>2. Stages(run, uids, prior, 0, f)
    BY <2>1 DEF Stages
  <2> QED BY <2>2, RecNumbers
<1>2. ASSUME NEW n \in 1 .. NRec, n - 1 \in Good PROVE n \in Good
  <2>1. PICK f : Stages(run, uids, prior, n - 1, f)
    BY <1>2
  <2> DEFINE g == [r \in 0 .. n |-> IF r = n THEN RowsNext(run, uids, f, n) ELSE f[r]]
  <2>2. n \in Nat /\ n >= 1 /\ n \in 0 .. NRec
    BY RecNumbers
  <2>3. g[0] = prior /\ g = [r \in 0 .. n |-> g[r]]
    BY <2>1, <2>2 DEF Stages
  <2>4. ASSUME NEW r \in 1 .. n PROVE g[r] = RowsNext(run, uids, g, r)
    <3>1. r \in Int /\ r - 1 \in 0 .. n /\ r - 1 # n /\ g[r - 1] = f[r - 1]
      BY <2>2
    <3>2. RowsNext(run, uids, g, r) = RowsNext(run, uids, f, r)
      BY <3>1 DEF RowsNext
    <3>3. CASE r = n
      BY <2>2, <3>2, <3>3
    <3>4. CASE r # n
      <4>1. r \in 1 .. n - 1 /\ r \in 0 .. n
        BY <2>2, <3>4
      <4>2. g[r] = f[r] /\ f[r] = RowsNext(run, uids, f, r)
        BY <2>1, <3>4, <4>1 DEF Stages
      <4> QED BY <3>2, <4>2
    <3> QED BY <3>3, <3>4
  <2> HIDE DEF g
  <2>5. Stages(run, uids, prior, n, g)
    BY <2>3, <2>4 DEF Stages
  <2> QED BY <2>2, <2>5
<1> HIDE DEF Good
<1>3. 0 .. NRec \subseteq Good
  BY <1>1, <1>2, RecNumbers, Along
<1>4. NRec \in Good
  BY <1>3, RecNumbers
<1> QED BY <1>4 DEF Good

LEMMA PlanStages ==
  ASSUME NEW run, NEW uids, NEW prior
  PROVE  \E f : Stages(run, uids, prior, NRec, f) /\ PlanOf(run, uids, prior) = f[NRec]
<1> DEFINE Rule(f) ==
             [r \in 0 .. NRec |->
                IF r = 0 THEN prior
                ELSE IF r \in DOMAIN uids THEN Applied(run, uids, f[r - 1], r) ELSE f[r - 1]]
<1>1. PICK f : Stages(run, uids, prior, NRec, f)
  BY StagesExist
<1>2. f = Rule(f)
  <2>1. ASSUME NEW r \in 0 .. NRec PROVE Rule(f)[r] = f[r]
    <3>1. CASE r = 0
      BY <1>1, <3>1 DEF Stages
    <3>2. CASE r # 0
      <4>1. r \in 1 .. NRec
        BY <3>2, RecNumbers
      <4>2. f[r] = RowsNext(run, uids, f, r)
        BY <1>1, <4>1 DEF Stages
      <4> QED BY <3>2, <4>2 DEF RowsNext
    <3> QED BY <3>1, <3>2
  <2> DEFINE g == Rule(f)
  <2>2. g = [r \in 0 .. NRec |-> g[r]] /\ \A r \in 0 .. NRec : g[r] = f[r]
    BY <2>1
  <2> HIDE DEF g
  <2>3. g = f
    BY <1>1, <2>2 DEF Stages
  <2> QED BY <2>3 DEF g
<1> DEFINE upTo == CHOOSE h : h = Rule(h)
<1>3. upTo = Rule(upTo)
  BY <1>2
<1>4. PlanOf(run, uids, prior) = upTo[NRec]
  BY DEF PlanOf
<1> HIDE DEF upTo
<1>5. Stages(run, uids, prior, NRec, upTo)
  <2>1. upTo[0] = prior
    BY <1>3, RecNumbers
  <2>2. ASSUME NEW r \in 1 .. NRec PROVE upTo[r] = RowsNext(run, uids, upTo, r)
    <3>1. r \in 0 .. NRec /\ r # 0
      BY RecNumbers
    <3>2. Rule(upTo)[r] = RowsNext(run, uids, upTo, r)
      BY <3>1 DEF RowsNext
    <3> QED BY <1>3, <3>2
  <2>3. upTo = [r \in 0 .. NRec |-> upTo[r]]
    BY <1>3
  <2> QED BY <2>1, <2>2, <2>3 DEF Stages
<1> QED BY <1>4, <1>5

(* Kept: r's row of prior is still there under its id.                     *)
Kept(uids, prior, rows, r) ==
  Landed(prior, FpOf(uids, r), OwnKey(r)) =>
    /\ Landed(rows, FpOf(uids, r), OwnKey(r))
    /\ rows[FpOf(uids, r)].id = prior[FpOf(uids, r)].id

(* A plan has a row for each finding of the scan, and keeps the id of what *)
(* had one.                                                                *)
LEMMA PlanIs ==
  ASSUME NEW uids, KeysAgree(uids), DOMAIN uids \subseteq Rec,
         NEW prior, Rows(prior), NEW run \in Nat
  PROVE  /\ Rows(PlanOf(run, uids, prior))
         /\ \A r \in DOMAIN uids : /\ Landed(PlanOf(run, uids, prior), FpOf(uids, r), OwnKey(r))
                                 /\ Kept(uids, prior, PlanOf(run, uids, prior), r)
<1>1. PICK f : Stages(run, uids, prior, NRec, f) /\ PlanOf(run, uids, prior) = f[NRec]
  BY PlanStages
<1>2. DOMAIN uids \subseteq Rec /\ Rec = 1 .. NRec /\ NRec \in Nat
  BY RecNumbers DEF Rec
<1> DEFINE Fine(i) == /\ Rows(f[i])
                      /\ \A r \in DOMAIN uids : /\ r <= i => Landed(f[i], FpOf(uids, r), OwnKey(r))
                                              /\ Kept(uids, prior, f[i], r)
           Good == {i \in 0 .. NRec : Fine(i)}
<1>3. 0 \in Good
  <2>1. f[0] = prior
    BY <1>1 DEF Stages
  <2>2. \A r \in DOMAIN uids : ~ (r <= 0)
    BY <1>2
  <2> QED BY <1>2, <2>1, <2>2 DEF Kept
<1>4. ASSUME NEW i \in 1 .. NRec, i - 1 \in Good PROVE i \in Good
  <2>1. f[i] = RowsNext(run, uids, f, i) /\ i \in 0 .. NRec
    BY <1>1, <1>2 DEF Stages
  <2>2. Fine(i - 1)
    BY <1>4
  <2>3. CASE i \notin DOMAIN uids
    <3>1. f[i] = f[i - 1]
      BY <2>1, <2>3 DEF RowsNext
    <3>2. \A r \in DOMAIN uids : r <= i => r <= i - 1
      BY <1>2, <2>3
    <3> QED BY <2>1, <2>2, <3>1, <3>2
  <2>4. CASE i \in DOMAIN uids
    <3>1. f[i] = Applied(run, uids, f[i - 1], i) /\ Rows(f[i - 1])
      BY <2>1, <2>2, <2>4 DEF RowsNext
    <3>2. Rows(f[i])
      <4>1. Replaced(f[i - 1], f[i], Found(uids, f[i - 1], i), FpOf(uids, i))
        BY <2>4, <3>1, AppliedIs
      <4> QED BY <4>1 DEF Replaced
    <3>3. \A r \in DOMAIN uids : r < i => r <= i - 1
      BY <1>2
    <3>4. Landed(f[i], FpOf(uids, i), OwnKey(i))
      BY <2>2, <2>4, <3>1, <3>3, AppliedLands
    <3>5. ASSUME NEW r \in DOMAIN uids, Landed(f[i - 1], FpOf(uids, r), OwnKey(r))
          PROVE  /\ Landed(f[i], FpOf(uids, r), OwnKey(r))
                 /\ f[i][FpOf(uids, r)].id = f[i - 1][FpOf(uids, r)].id
      BY <2>4, <3>1, <3>5, AppliedKeeps
    <3>6. ASSUME NEW r \in DOMAIN uids, r <= i PROVE Landed(f[i], FpOf(uids, r), OwnKey(r))
      <4>1. r = i \/ r <= i - 1
        BY <1>2, <3>6
      <4> QED BY <2>2, <3>4, <3>5, <4>1
    <3>7. ASSUME NEW r \in DOMAIN uids PROVE Kept(uids, prior, f[i], r)
      BY <2>2, <3>5 DEF Kept
    <3> QED BY <2>1, <3>2, <3>6, <3>7
  <2> QED BY <2>3, <2>4
<1> HIDE DEF Good
<1>5. NRec \in Good
  BY <1>2, <1>3, <1>4, Along
<1> QED BY <1>1, <1>2, <1>5 DEF Good

-----------------------------------------------------------------------------
(* The uid an agent goes by.  Where every host runs one it is fixed by the *)
(* ledger a run started from, whatever the run has observed so far.        *)
Agent(r) == CHOOSE x \in Ids[r]["agent"] : TRUE
Named(x) == <<"agent", x>>
Holds(A, u, x) == u \in Active(A) /\ x \in Alive(A[u], "agent")
Called(A, name, n) == Cardinality({w \in 1 .. n : A[w].anchor = name})

UidFor(A, x) ==
  IF \E u \in Active(A) : Holds(A, u, x)
    THEN UidOf(A, CHOOSE u \in Active(A) : Holds(A, u, x))
    ELSE <<Named(x), Called(A, Named(x), Len(A))>>

(* An asset is named for the agent it holds.                               *)
NamedFor(A) == \A u \in Active(A) : \A x \in Alive(A[u], "agent") : A[u].anchor = Named(x)

LEMMA AgentIs ==
  ASSUME Agented, NEW r \in Rec
  PROVE  Ids[r]["agent"] = {Agent(r)} /\ Anchor(Ids[r]) = Named(Agent(r))
<1>1. Agent(r) \in Ids[r]["agent"]
  BY DEF Agented, Agent
<1>2. Ids[r]["agent"] = {Agent(r)}
  BY <1>1, OneAgentOfRecord
<1> DEFINE Strongest(k) == Ids[r][k] # {} /\ \A j \in Key : Ids[r][j] # {} => Rank[j] <= Rank[k]
           best == CHOOSE k \in Key : Strongest(k)
<1>3. best = "agent"
  <2>1. /\ "agent" \in Key
        /\ \A k \in Key : Rank[k] <= Rank["agent"] /\ (Rank["agent"] <= Rank[k] => k = "agent")
    BY DEF Key, Rank
  <2> HIDE DEF Key, Rank
  <2>2. \A k \in Key : Strongest(k) <=> k = "agent"
    BY <1>2, <2>1
  <2> QED BY <2>1, <2>2
<1>4. Anchor(Ids[r]) = <<best, CHOOSE v \in Ids[r][best] : TRUE>>
  BY DEF Anchor
<1> HIDE DEF best
<1> QED BY <1>2, <1>3, <1>4 DEF Agent, Named

LEMMA UidForHolder ==
  ASSUME NEW A, Fleet(A), NEW u, NEW x, Holds(A, u, x)
  PROVE  UidFor(A, x) = UidOf(A, u)
<1>1. \A v \in Active(A) : Holds(A, v, x) => v = u
  BY DEF Fleet, Holds
<1>2. u \in Active(A) /\ (CHOOSE v \in Active(A) : Holds(A, v, x)) = u
  BY <1>1 DEF Holds
<1> QED BY <1>2 DEF UidFor

LEMMA UidForName ==
  ASSUME NEW A, NamedFor(A), NEW x
  PROVE  UidFor(A, x)[1] = Named(x)
<1>1. CASE \E u \in Active(A) : Holds(A, u, x)
  <2> DEFINE u == CHOOSE u \in Active(A) : Holds(A, u, x)
  <2>1. u \in Active(A) /\ Holds(A, u, x)
    BY <1>1
  <2> HIDE DEF u
  <2>2. A[u].anchor = Named(x)
    BY <2>1 DEF NamedFor, Holds
  <2>3. UidFor(A, x) = UidOf(A, u)
    BY <1>1 DEF UidFor, u
  <2> QED BY <2>2, <2>3 DEF UidOf
<1>2. CASE ~ \E u \in Active(A) : Holds(A, u, x)
  BY <1>2 DEF UidFor
<1> QED BY <1>1, <1>2

(* Observing a record changes no agent's uid.                              *)
LEMMA UidStays ==
  ASSUME Agented, NEW A \in Seq(AssetShape), Fleet(A), NamedFor(A), NEW r \in Rec, NEW now \in Nat
  PROVE  /\ NamedFor(After(A, r, now))
         /\ \A x : UidFor(After(A, r, now), x) = UidFor(A, x)
         /\ \A u, x : Holds(A, u, x) => Holds(After(A, r, now), u, x)
         /\ Holds(After(A, r, now), At(A, r, now), Agent(r))
<1> DEFINE u == At(A, r, now)
           B == After(A, r, now)
<1>1. /\ Noted(A, B, r, u)
      /\ \A w \in DOMAIN A : B[w].anchor = A[w].anchor
      /\ u \notin DOMAIN A => u = Len(A) + 1 /\ B[u].anchor = Anchor(Ids[r])
  BY ObservedIs
<1>2. /\ u \in DOMAIN A => Ids[r]["agent"] \cap Alive(A[u], "agent") # {}
      /\ \A w \in Active(A) \ {u} : Ids[r]["agent"] \cap Alive(A[w], "agent") = {}
  BY FleetMatch
<1>3. Fleet(B) /\ Active(B) = Active(A) \cup {u}
  BY FleetNoted
<1>4. Ids[r]["agent"] = {Agent(r)} /\ Anchor(Ids[r]) = Named(Agent(r)) /\ "agent" \in Key \ {"ip", "fqdn"}
  BY AgentIs DEF Key
<1> HIDE DEF u, B
<1>5. /\ Active(A) \subseteq DOMAIN A /\ DOMAIN A = 1 .. Len(A) /\ Len(A) \in Nat
      /\ B \in Seq(AssetShape) /\ DOMAIN B = DOMAIN A \cup {u}
  BY <1>1 DEF Active, Noted
<1>6. ASSUME NEW w \in DOMAIN A \ {u} PROVE Alive(B[w], "agent") = Alive(A[w], "agent")
  BY <1>1, <1>4 DEF Noted
<1>7. Alive(B[u], "agent") = Old(A, u, "agent") \cup {Agent(r)}
  BY <1>1, <1>4 DEF Noted
<1>8. ASSUME NEW w, NEW x, Holds(A, w, x) PROVE Holds(B, w, x)
  <2>1. w \in Active(B) /\ w \in DOMAIN A
    BY <1>3, <1>5, <1>8 DEF Holds
  <2> QED BY <1>6, <1>7, <1>8, <2>1 DEF Holds, Old
<1>9. Holds(B, u, Agent(r))
  BY <1>3, <1>7 DEF Holds
<1>10. ASSUME NEW w, NEW x, Holds(B, w, x)
       PROVE  Holds(A, w, x) \/ (w = u /\ x = Agent(r) /\ u \notin DOMAIN A)
  <2>1. CASE w \in DOMAIN A
    <3>1. w \in Active(A)
      BY <1>1, <1>3, <1>10, <2>1 DEF Holds, Noted
    <3>2. w = u => Alive(B[w], "agent") = Alive(A[w], "agent")
      BY <1>2, <1>4, <1>7, <2>1 DEF Old
    <3> QED BY <1>6, <1>10, <2>1, <3>1, <3>2 DEF Holds
  <2>2. CASE w \notin DOMAIN A
    BY <1>3, <1>5, <1>7, <1>10, <2>2 DEF Holds, Old
  <2> QED BY <2>1, <2>2
<1>11. NamedFor(B)
  <2> SUFFICES ASSUME NEW w \in Active(B), NEW x \in Alive(B[w], "agent")
               PROVE  B[w].anchor = Named(x)
    BY DEF NamedFor
  <2>1. Holds(B, w, x)
    BY DEF Holds
  <2>2. CASE Holds(A, w, x)
    BY <1>1, <1>5, <2>2 DEF Holds, NamedFor
  <2>3. CASE w = u /\ x = Agent(r) /\ u \notin DOMAIN A
    BY <1>1, <1>4, <2>3
  <2> QED BY <1>10, <2>1, <2>2, <2>3
<1>12. ASSUME NEW n \in 0 .. Len(A), NEW name PROVE Called(B, name, n) = Called(A, name, n)
  <2>1. \A w \in 1 .. n : w \in DOMAIN A
    BY <1>5
  <2>2. {w \in 1 .. n : B[w].anchor = name} = {w \in 1 .. n : A[w].anchor = name}
    BY <1>1, <2>1
  <2> QED BY <2>2 DEF Called
<1>13. ASSUME NEW w \in DOMAIN A PROVE UidOf(B, w) = UidOf(A, w)
  <2>1. w - 1 \in 0 .. Len(A) /\ B[w].anchor = A[w].anchor
    BY <1>1, <1>5
  <2>2. Called(B, B[w].anchor, w - 1) = Called(A, A[w].anchor, w - 1)
    BY <1>12, <2>1
  <2>3. /\ UidOf(B, w) = <<B[w].anchor, Called(B, B[w].anchor, w - 1)>>
        /\ UidOf(A, w) = <<A[w].anchor, Called(A, A[w].anchor, w - 1)>>
    BY DEF UidOf, Called
  <2> QED BY <2>1, <2>2, <2>3
<1>14. ASSUME NEW x PROVE UidFor(B, x) = UidFor(A, x)
  <2>1. CASE \E w : Holds(A, w, x)
    <3>1. PICK w : Holds(A, w, x)
      BY <2>1
    <3>2. Holds(B, w, x) /\ w \in DOMAIN A
      BY <1>5, <1>8, <3>1 DEF Holds
    <3> QED BY <1>3, <1>13, <3>1, <3>2, UidForHolder
  <2>2. CASE ~ (\E w : Holds(A, w, x)) /\ ~ (\E w : Holds(B, w, x))
    <3>1. UidFor(A, x) = <<Named(x), Called(A, Named(x), Len(A))>>
      BY <2>2 DEF UidFor
    <3>2. UidFor(B, x) = <<Named(x), Called(B, Named(x), Len(B))>>
      BY <2>2 DEF UidFor
    <3>3. x # Agent(r)
      BY <1>9, <2>2
    <3>4. CASE u \in DOMAIN A
      <4>1. Len(B) = Len(A)
        <5>1. DOMAIN B = 1 .. Len(B) /\ Len(B) \in Nat /\ 1 .. Len(B) = 1 .. Len(A)
          BY <1>5, <3>4
        <5> QED BY <1>5, <5>1
      <4> QED BY <1>5, <1>12, <3>1, <3>2, <4>1
    <3>5. CASE u \notin DOMAIN A
      <4>1. Len(B) = Len(A) + 1 /\ u = Len(A) + 1
        <5>1. DOMAIN B = 1 .. Len(B) /\ Len(B) \in Nat
          BY <1>5
        <5>2. u = Len(A) + 1
          BY <1>1, <3>5
        <5>3. Len(A) + 1 \in 1 .. Len(B) /\ Len(B) \in (1 .. Len(A)) \cup {Len(A) + 1}
          BY <1>5, <5>1, <5>2
        <5> QED BY <1>5, <5>1, <5>2, <5>3
      <4>2. B[Len(A) + 1].anchor # Named(x)
        BY <1>1, <1>4, <3>3, <3>5, <4>1 DEF Named
      <4>3. {w \in 1 .. Len(A) + 1 : B[w].anchor = Named(x)} = {w \in 1 .. Len(A) : B[w].anchor = Named(x)}
        BY <1>5, <4>2
      <4>4. Called(B, Named(x), Len(B)) = Called(B, Named(x), Len(A))
        BY <4>1, <4>3 DEF Called
      <4> QED BY <1>5, <1>12, <3>1, <3>2, <4>4
    <3> QED BY <3>4, <3>5
  <2>3. CASE ~ (\E w : Holds(A, w, x)) /\ \E w : Holds(B, w, x)
    <3>1. Holds(B, u, x) /\ x = Agent(r) /\ u \notin DOMAIN A
      BY <1>10, <2>3
    <3>2. u = Len(A) + 1 /\ B[u].anchor = Named(x)
      BY <1>1, <1>4, <3>1
    <3>3. UidFor(B, x) = UidOf(B, u)
      BY <1>3, <3>1, UidForHolder
    <3>4. u - 1 = Len(A)
      BY <1>5, <3>2
    <3>5. UidOf(B, u) = <<Named(x), Called(B, Named(x), Len(A))>>
      BY <3>2, <3>4 DEF UidOf, Called
    <3>6. UidFor(A, x) = <<Named(x), Called(A, Named(x), Len(A))>>
      BY <2>3 DEF UidFor
    <3> QED BY <1>5, <1>12, <3>3, <3>5, <3>6
  <2> QED BY <2>1, <2>2, <2>3
<1> QED BY <1>8, <1>9, <1>11, <1>14 DEF u, B

(* Closing a run leaves what it observed where it is.                      *)
LEMMA ClosedStays ==
  ASSUME NEW A \in Seq(AssetShape), NEW families
  PROVE  /\ NamedFor(A) => NamedFor(Closed(A, families))
         /\ \A u \in observed : \A x : Holds(A, u, x) =>
              Holds(Closed(A, families), u, x) /\ UidOf(Closed(A, families), u) = UidOf(A, u)
<1> DEFINE B == Closed(A, families)
<1>1. Thinned(A, B)
  BY ClosedThins
<1>2. B = [u \in DOMAIN A |->
             IF u \notin Active(A) THEN A[u]
             ELSE IF u \in observed THEN [A[u] EXCEPT !.absent = 0]
             ELSE IF A[u].sources \cap families = {} THEN A[u] ELSE Absent(A[u])]
  BY DEF Closed
<1> HIDE DEF B
<1>3. ASSUME NEW u \in DOMAIN A
      PROVE  B[u].anchor = A[u].anchor /\ (u \in observed => B[u].status = A[u].status)
  <2>1. A[u] \in AssetShape
    BY ElementOfSeq
  <2>2. /\ [A[u] EXCEPT !.absent = 0].anchor = A[u].anchor
        /\ [A[u] EXCEPT !.absent = 0].status = A[u].status
        /\ Absent(A[u]).anchor = A[u].anchor
    BY <2>1 DEF AssetShape, Absent
  <2> QED BY <1>2, <2>2
<1>4. DOMAIN A = 1 .. Len(A) /\ Len(A) \in Nat /\ DOMAIN B = DOMAIN A
  BY <1>2
<1>5. /\ Active(B) \subseteq Active(A) /\ Active(A) \subseteq DOMAIN A
      /\ \A w \in Active(B) : Alive(B[w], "agent") = Alive(A[w], "agent")
  BY <1>1, ThinnedIs DEF Active, Key
<1>6. NamedFor(A) => NamedFor(B)
  BY <1>3, <1>5 DEF NamedFor
<1>7. ASSUME NEW u \in observed, NEW x, Holds(A, u, x)
      PROVE  Holds(B, u, x) /\ UidOf(B, u) = UidOf(A, u)
  <2>1. u \in DOMAIN A /\ u \in Active(B)
    BY <1>3, <1>4, <1>7 DEF Holds, Active
  <2>2. Holds(B, u, x)
    BY <1>5, <1>7, <2>1 DEF Holds
  <2>3. \A w \in 1 .. u - 1 : w \in DOMAIN A
    BY <1>4, <2>1
  <2>4. {w \in 1 .. u - 1 : B[w].anchor = B[u].anchor} = {w \in 1 .. u - 1 : A[w].anchor = A[u].anchor}
    BY <1>3, <2>1, <2>3
  <2> QED BY <1>3, <2>1, <2>2, <2>4 DEF UidOf
<1> QED BY <1>6, <1>7 DEF B

(* The finding of a record is keyed under the asset that holds its agent.  *)
LEMMA HostUidIs ==
  ASSUME Agented, Shape, Fleet(mem), NEW r \in Rec, NEW u, Holds(mem, u, Agent(r))
  PROVE  HostUid(r) = UidOf(mem, u) /\ HostUid(r) = UidFor(mem, Agent(r))
<1> DEFINE now == runNo * Span + Age[r]
           host == FindMatch(mem, Ids[r], now)
<1>1. now \in Nat
  <2>1. Span \in Nat /\ Age[r] \in Nat
    BY AssetConstants
  <2>2. runNo \in Nat
    BY DEF Shape
  <2> QED BY <2>1, <2>2
<1>2. mem \in Seq(AssetShape) /\ u \in Active(mem) /\ Active(mem) \subseteq DOMAIN mem
  BY DEF Shape, Holds, Active
<1> HIDE DEF now
<1>3. \A w \in Active(mem) \ {At(mem, r, now)} : Ids[r]["agent"] \cap Alive(mem[w], "agent") = {}
  BY <1>1, <1>2, FleetMatch
<1>4. Ids[r]["agent"] = {Agent(r)}
  BY AgentIs
<1>5. At(mem, r, now) = u
  BY <1>2, <1>3, <1>4 DEF Holds
<1>6. host = u
  BY <1>1, <1>2, <1>5, ObservedIs
<1>7. u # 0
  <2>1. DOMAIN mem = 1 .. Len(mem) /\ Len(mem) \in Nat
    BY <1>2
  <2> QED BY <1>2, <2>1
<1>8. HostUid(r) = UidOf(mem, u)
  <2>1. HostUid(r) = IF host = 0 THEN <<Anchor(Ids[r]), 0>> ELSE UidOf(mem, host)
    BY DEF HostUid, now
  <2> HIDE DEF host
  <2> QED BY <1>6, <1>7, <2>1
<1> QED BY <1>8, UidForHolder

(* So records of one host, and they alone, have keys in common.            *)
LEMMA UidsAgree ==
  ASSUME Agented, NEW A, NamedFor(A), NEW uids, DOMAIN uids \subseteq Rec,
         \A r \in DOMAIN uids : uids[r] = UidFor(A, Agent(r))
  PROVE  KeysAgree(uids)
<1> SUFFICES ASSUME NEW r \in DOMAIN uids, NEW s \in DOMAIN uids,
                    {FpOf(uids, r), OwnKey(r)} \cap {FpOf(uids, s), OwnKey(s)} # {}
             PROVE  FpOf(uids, r) = FpOf(uids, s) /\ OwnKey(r) = OwnKey(s)
  BY DEF KeysAgree
<1>1. r \in Rec /\ s \in Rec
  OBVIOUS
<1>2. uids[r][1] = Named(Agent(r)) /\ uids[s][1] = Named(Agent(s))
  BY UidForName
<1>3. Anchor(Ids[r]) = Named(Agent(r)) /\ Anchor(Ids[s]) = Named(Agent(s))
  BY <1>1, AgentIs
<1>4. Weak(r) = Weak(s) /\ Named(Agent(r)) = Named(Agent(s))
  <2> DEFINE p == <<Anchor(Ids[r]), 0>>
             q == <<Anchor(Ids[s]), 0>>
  <2>1. p[1] = Anchor(Ids[r]) /\ q[1] = Anchor(Ids[s])
    OBVIOUS
  <2>2. /\ FpOf(uids, r) = <<Weak(r), uids[r]>> /\ OwnKey(r) = <<Weak(r), p>>
        /\ FpOf(uids, s) = <<Weak(s), uids[s]>> /\ OwnKey(s) = <<Weak(s), q>>
    BY DEF FpOf, OwnKey
  <2> HIDE DEF p, q
  <2>3. Weak(r) = Weak(s) /\ (uids[r] = uids[s] \/ uids[r] = q \/ p = uids[s] \/ p = q)
    BY <2>2
  <2> QED BY <1>2, <1>3, <2>1, <2>3
<1>5. Agent(r) = Agent(s)
  BY <1>4 DEF Named
<1> QED BY <1>3, <1>4, <1>5 DEF FpOf, OwnKey

-----------------------------------------------------------------------------
(* The runs of the loader.                                                 *)

(* What the records of the scan have been seen on.                         *)
SeenOn(A, seen, records) == \A r \in records : \E u \in seen : Holds(A, u, Agent(r))

SiteInv ==
  /\ Shape /\ FleetInv /\ order = NoOrder
  /\ NamedFor(inFile) /\ NamedFor(outFile) /\ NamedFor(mem)
  /\ pc \in {"observe", "close"} =>
       /\ \A r \in Rec : UidFor(mem, Agent(r)) = UidFor(inFile, Agent(r))
       /\ SeenOn(mem, observed, scan \ todo)
  /\ planned => pc # "observe"
  /\ planned /\ pc = "idle" => mem = outFile /\ SeenOn(mem, Active(mem), scan)

Hosts == [r \in Reporters |-> UidFor(inFile, Agent(r))]

(* The rows of the last complete run, in a plan P beside an asset ledger A.*)
Whole(A, P) ==
  \A r \in Rec : last[r] # NoId =>
    /\ Reports[r] # {} /\ P.there /\ lastUid[r] = UidFor(A, Agent(r))
    /\ Landed(P.rows, <<Weak(r), lastUid[r]>>, OwnKey(r))
    /\ P.rows[<<Weak(r), lastUid[r]>>].id = last[r]

PlanInv ==
  /\ Rows(inPlan.rows) /\ Rows(outPlan.rows)
  /\ planned /\ pc = "close" => outPlan.there /\ ~ outWhole
  /\ \A r \in Rec : given[r] # NoId =>
       /\ r \in Reporters /\ Landed(outPlan.rows, FpOf(Hosts, r), OwnKey(r))
       /\ outPlan.rows[FpOf(Hosts, r)].id = given[r]
  /\ inPlan.there /\ given # NoIds => given = IdsIn(Hosts, PlanOf(runNo, Hosts, inPlan.rows))
  /\ outWhole => Whole(outFile, outPlan)
  /\ inWhole => Whole(inFile, inPlan)

LEMMA SiteInit ==
  ASSUME LInit PROVE SiteInv
<1>1. /\ inFile = << >> /\ outFile = << >> /\ mem = << >> /\ order = NoOrder
      /\ pc = "idle" /\ planned = FALSE /\ Init
  BY DEF LInit, Init
<1>2. NamedFor(<< >>)
  BY EmptyFleet DEF NamedFor
<1> QED BY <1>1, <1>2, ShapeInit, FleetInit DEF SiteInv

LEMMA NothingOrdered ==
  ASSUME SiteInv PROVE Ordered(inFile) = inFile
BY OrderedIs DEF SiteInv, Shape

(* A dead process leaves the files, or a torn one.                         *)
LEMMA SiteGone ==
  ASSUME SiteInv, Gone, outFile' \in {outFile, << >>}, UNCHANGED <<inFile, order, scan, runNo>>
  PROVE  SiteInv'
<1>1. << >> \in Seq(AssetShape) /\ NamedFor(<< >>)
  BY EmptySeq, EmptyFleet DEF NamedFor
<1>2. /\ mem' = << >> /\ todo' = {} /\ stamped' = [r \in Rec |-> 0] /\ pc' = "idle" /\ planned' = FALSE
  BY DEF Gone
<1>3. Shape'
  <2> HIDE DEF AssetShape
  <2>1. inFile' \in Seq(AssetShape) /\ outFile' \in Seq(AssetShape) /\ mem' \in Seq(AssetShape)
    BY <1>1, <1>2 DEF SiteInv, Shape
  <2>2. stamped' \in [Rec -> Nat]
    BY <1>2
  <2> QED BY <1>2, <2>1, <2>2 DEF SiteInv, Shape
<1>4. FleetInv'
  BY <1>2, EmptyFleet DEF SiteInv, FleetInv, NoOrder
<1>5. NamedFor(outFile')
  BY <1>1 DEF SiteInv
<1> QED BY <1>1, <1>2, <1>3, <1>4, <1>5 DEF SiteInv

LEMMA SiteNext ==
  ASSUME AgentSite, SiteInv, [LNext]_allVars PROVE SiteInv'
<1>1. mem \in Seq(AssetShape) /\ Fleet(mem) /\ Agented
  BY DEF SiteInv, Shape, FleetInv, AgentSite
<1>2. ASSUME [Next]_vars PROVE Shape' /\ FleetInv'
  BY <1>2, ShapeNext, FleetNext DEF SiteInv
<1>3. ASSUME NEW recs \in Scans, LBegin(recs) PROVE SiteInv'
  <2>1. recs \in SUBSET Rec /\ Begin(recs)
    BY <1>3, ReportsTyped DEF LBegin
  <2>2. Shape' /\ FleetInv'
    BY <1>2, <2>1 DEF Next
  <2>3. /\ mem' = inFile /\ todo' = scan' /\ pc' = "observe" /\ planned' = FALSE
        /\ UNCHANGED <<inFile, outFile, order>>
    BY <1>3, NothingOrdered DEF LBegin, Begin
  <2> QED BY <2>2, <2>3 DEF SiteInv, SeenOn
<1>4. ASSUME Rerun PROVE SiteInv'
  <2>1. /\ mem' = inFile /\ todo' = scan /\ pc' = "observe" /\ planned' = FALSE
        /\ stamped' = [r \in Rec |-> 0] /\ UNCHANGED <<inFile, outFile, order, scan, runNo>>
    BY <1>4, NothingOrdered DEF Rerun
  <2>2. Shape'
    <3>1. stamped' \in [Rec -> Nat] /\ \A r \in Rec : stamped'[r] = 0
      BY <2>1
    <3> QED BY <2>1, <3>1 DEF SiteInv, Shape
  <2>3. FleetInv'
    BY <2>1 DEF SiteInv, FleetInv, NoOrder
  <2> QED BY <2>1, <2>2, <2>3 DEF SiteInv, SeenOn
<1>5. ASSUME NEW r \in Rec, LObserve(r) PROVE SiteInv'
  <2>1. Observe(r) /\ planned' = planned
    BY <1>5 DEF LObserve, planVars
  <2>2. Shape' /\ FleetInv'
    BY <1>2, <2>1 DEF Next
  <2>3. PICK now \in Nat :
          /\ mem' = After(mem, r, now) /\ observed' = observed \cup {At(mem, r, now)}
          /\ todo' = todo \ {r} /\ r \in todo /\ pc = "observe"
          /\ UNCHANGED <<inFile, outFile, order, scan, runNo, pc>>
    BY <2>1, ObserveIs DEF SiteInv
  <2>4. /\ NamedFor(mem') /\ \A x : UidFor(mem', x) = UidFor(mem, x)
        /\ \A u, x : Holds(mem, u, x) => Holds(mem', u, x)
        /\ Holds(mem', At(mem, r, now), Agent(r))
    BY <1>1, <2>3, UidStays DEF SiteInv
  <2>5. SeenOn(mem', observed', scan' \ todo')
    <3> SUFFICES ASSUME NEW s \in scan \ (todo \ {r})
                 PROVE  \E u \in observed' : Holds(mem', u, Agent(s))
      BY <2>3 DEF SeenOn
    <3>1. CASE s = r
      BY <2>3, <2>4, <3>1
    <3>2. CASE s # r
      BY <2>3, <2>4, <3>2 DEF SiteInv, SeenOn
    <3> QED BY <3>1, <3>2
  <2> QED BY <2>1, <2>2, <2>3, <2>4, <2>5 DEF SiteInv
<1>6. ASSUME LLateMerge PROVE SiteInv'
  <2>1. MergePairs(mem) = {}
    BY <1>1, FleetNoPairs DEF AgentSite
  <2> QED BY <1>6, <2>1 DEF LLateMerge, LateMerge
<1>7. ASSUME LAttach PROVE SiteInv'
  <2>1. /\ Attach /\ pc = "observe" /\ pc' = "close" /\ planned' = planned
        /\ UNCHANGED <<inFile, outFile, order, scan, mem, todo, observed>>
    BY <1>7 DEF LAttach, Attach, planVars
  <2>2. Shape' /\ FleetInv'
    BY <1>2, <2>1 DEF Next
  <2> QED BY <2>1, <2>2 DEF SiteInv
<1>8. ASSUME Plan PROVE SiteInv'
  <2>1. /\ pc = "close" /\ UNCHANGED vars
        /\ UNCHANGED <<inFile, outFile, order, scan, runNo, pc, mem, todo, observed>>
    BY <1>8 DEF Plan, vars
  <2>2. Shape' /\ FleetInv'
    BY <1>2, <2>1
  <2> QED BY <2>1, <2>2 DEF SiteInv
<1>9. ASSUME LCloseRun PROVE SiteInv'
  <2> DEFINE families == {Source[r] : r \in KeptRecords}
  <2>1. /\ CloseRun /\ pc = "close" /\ mem' = Closed(mem, families) /\ outFile' = mem' /\ pc' = "idle"
        /\ UNCHANGED <<inFile, order, scan, runNo, todo>>
    BY <1>9 DEF LCloseRun, CloseRun
  <2> HIDE DEF families
  <2>2. Shape' /\ FleetInv'
    BY <1>2, <2>1 DEF Next
  <2>3. /\ NamedFor(mem')
        /\ \A u \in observed : \A x : Holds(mem, u, x) => Holds(mem', u, x)
    BY <1>1, <2>1, ClosedStays DEF SiteInv
  <2>4. todo = {}
    BY <2>1 DEF SiteInv, FleetInv
  <2>5. SeenOn(mem', Active(mem'), scan')
    <3> SUFFICES ASSUME NEW r \in scan PROVE \E u \in Active(mem') : Holds(mem', u, Agent(r))
      BY <2>1 DEF SeenOn
    <3>1. PICK u \in observed : Holds(mem, u, Agent(r))
      BY <2>1, <2>4 DEF SiteInv, SeenOn
    <3> QED BY <2>3, <3>1 DEF Holds
  <2> QED BY <2>1, <2>2, <2>3, <2>5 DEF SiteInv
<1>10. ASSUME Die \/ TearSave PROVE SiteInv'
  BY <1>10, SiteGone DEF Die, TearSave
<1>11. ASSUME LCarry PROVE SiteInv'
  <2>1. /\ pc = "idle" /\ inFile' = outFile
        /\ UNCHANGED <<outFile, order, scan, runNo, pc, mem, todo, observed, stamped, planned>>
    BY <1>11 DEF LCarry
  <2>2. [Next]_vars
    BY <2>1 DEF Next, Carry, vars
  <2>3. Shape' /\ FleetInv'
    BY <1>2, <2>2
  <2> QED BY <2>1, <2>3 DEF SiteInv
<1>12. ASSUME UNCHANGED allVars PROVE SiteInv'
  <2>1. UNCHANGED vars /\ planned' = planned
    BY <1>12 DEF allVars, planVars
  <2>2. Shape' /\ FleetInv'
    BY <1>2, <2>1
  <2> QED BY <2>1, <2>2 DEF SiteInv, vars
<1> QED BY <1>3, <1>4, <1>5, <1>6, <1>7, <1>8, <1>9, <1>10, <1>11, <1>12 DEF LNext

LEMMA SiteHolds == AgentSite => (LSpec => []SiteInv)
<1> SUFFICES ASSUME AgentSite PROVE LSpec => []SiteInv
  OBVIOUS
<1>1. LInit => SiteInv
  BY SiteInit
<1>2. SiteInv /\ [LNext]_allVars => SiteInv'
  BY SiteNext
<1> QED BY <1>1, <1>2, PTL DEF LSpec

-----------------------------------------------------------------------------
(* The plans of the runs.                                                  *)

LEMMA HostsIs ==
  ASSUME AgentSite, SiteInv
  PROVE  /\ DOMAIN Hosts = Reporters /\ Reporters \subseteq scan /\ scan \subseteq Rec
         /\ \A r \in Reporters : FpOf(Hosts, r) = <<Weak(r), UidFor(inFile, Agent(r))>>
         /\ KeysAgree(Hosts)
<1>1. DOMAIN Hosts = Reporters /\ \A r \in Reporters : Hosts[r] = UidFor(inFile, Agent(r))
  BY DEF Hosts
<1>2. Reporters \subseteq scan /\ scan \subseteq Rec
  BY DEF Reporters, SiteInv, Shape
<1> HIDE DEF Hosts
<1>3. KeysAgree(Hosts)
  BY <1>1, <1>2, UidsAgree DEF SiteInv, AgentSite
<1> QED BY <1>1, <1>2, <1>3 DEF FpOf

LEMMA HostUidsAre ==
  ASSUME AgentSite, SiteInv, pc = "close"
  PROVE  HostUids = Hosts
<1>1. ASSUME NEW r \in Reporters PROVE HostUid(r) = UidFor(inFile, Agent(r))
  <2>1. r \in scan /\ r \in Rec /\ todo = {}
    BY HostsIs DEF SiteInv, FleetInv
  <2>2. PICK u \in observed : Holds(mem, u, Agent(r))
    BY <2>1 DEF SiteInv, SeenOn
  <2>3. HostUid(r) = UidFor(mem, Agent(r))
    BY <2>1, <2>2, HostUidIs DEF SiteInv, FleetInv, AgentSite
  <2> QED BY <2>1, <2>3 DEF SiteInv
<1> QED BY <1>1 DEF HostUids, Hosts

(* What run_ledger writes, and which ids it gives.                         *)
LEMMA PlanStep ==
  ASSUME AgentSite, SiteInv, PlanInv, Plan
  PROVE  LET rows == PlanOf(runNo, Hosts, Prior.rows)
         IN /\ outPlan' = [there |-> TRUE, rows |-> rows] /\ Rows(rows)
            /\ given' = IdsIn(Hosts, rows)
            /\ \A r \in Rec : given'[r] # NoId => r \in Reporters
            /\ \A r \in Reporters : /\ Landed(rows, FpOf(Hosts, r), OwnKey(r))
                                    /\ Kept(Hosts, Prior.rows, rows, r)
                                    /\ given'[r] = rows[FpOf(Hosts, r)].id
<1> DEFINE rows == PlanOf(runNo, Hosts, Prior.rows)
<1>1. /\ outPlan' = [there |-> TRUE, rows |-> rows] /\ given' = IdsIn(Hosts, rows)
  BY HostUidsAre DEF Plan
<1>2. Rows(Prior.rows) /\ runNo \in Nat
  BY DEF Prior, PlanInv, SiteInv, Shape
<1>3. Rows(rows) /\ \A r \in Reporters : /\ Landed(rows, FpOf(Hosts, r), OwnKey(r))
                                         /\ Kept(Hosts, Prior.rows, rows, r)
  BY <1>2, HostsIs, PlanIs
<1> HIDE DEF rows
<1>4. /\ \A r \in Rec : given'[r] # NoId => r \in Reporters
      /\ \A r \in Reporters : given'[r] = rows[FpOf(Hosts, r)].id
  BY <1>1, <1>3, HostsIs DEF IdsIn, Landed
<1> QED BY <1>1, <1>3, <1>4 DEF rows

(* What leaves ledgers, scan and ids alone leaves the plans as they are.   *)
LEMMA PlanFrame ==
  ASSUME PlanInv, planned' /\ pc' = "close" => planned /\ pc = "close",
         UNCHANGED <<inFile, outFile, scan, runNo, inPlan, outPlan,
                     outWhole, inWhole, given, last, lastUid>>
  PROVE  PlanInv'
<1>1. Hosts' = Hosts /\ Reporters' = Reporters
  BY DEF Hosts, Reporters
<1> QED BY <1>1 DEF PlanInv, Whole

LEMMA PlanNext ==
  ASSUME AgentSite, SiteInv, PlanInv, [LNext]_allVars PROVE PlanInv'
<1>1. ASSUME NEW recs \in Scans, LBegin(recs) PROVE PlanInv'
  <2>1. /\ planned' = FALSE /\ given' = NoIds
        /\ UNCHANGED <<inFile, outFile, inPlan, outPlan, outWhole, inWhole, last, lastUid>>
    BY <1>1 DEF LBegin, Begin
  <2>2. \A r \in Rec : given'[r] = NoId
    BY <2>1 DEF NoIds
  <2> QED BY <2>1, <2>2 DEF PlanInv, Whole, NoIds
<1>2. ASSUME Rerun \/ Die PROVE PlanInv'
  BY <1>2, PlanFrame DEF Rerun, Die, Gone
<1>3. ASSUME NEW r \in Rec, LObserve(r) PROVE PlanInv'
  BY <1>3, PlanFrame DEF LObserve, Observe, planVars
<1>4. ASSUME LLateMerge PROVE PlanInv'
  BY <1>4, PlanFrame DEF LLateMerge, LateMerge, planVars
<1>5. ASSUME LAttach PROVE PlanInv'
  BY <1>5, PlanFrame DEF LAttach, Attach, planVars, SiteInv
<1>6. ASSUME Plan PROVE PlanInv'
  <2> DEFINE rows == PlanOf(runNo, Hosts, Prior.rows)
  <2>1. /\ outPlan' = [there |-> TRUE, rows |-> rows] /\ Rows(rows)
        /\ given' = IdsIn(Hosts, rows)
        /\ \A r \in Rec : given'[r] # NoId => r \in Reporters
        /\ \A r \in Reporters : /\ Landed(rows, FpOf(Hosts, r), OwnKey(r))
                                /\ given'[r] = rows[FpOf(Hosts, r)].id
    BY <1>6, PlanStep
  <2>2. /\ UNCHANGED <<inFile, outFile, scan, runNo, pc, inPlan, inWhole, last, lastUid>>
        /\ outWhole' = FALSE /\ (inPlan.there => Prior = inPlan)
    BY <1>6 DEF Plan, vars, Prior
  <2>3. Hosts' = Hosts /\ Reporters' = Reporters
    BY <2>2 DEF Hosts, Reporters
  <2>4. inPlan.there => rows = PlanOf(runNo, Hosts, inPlan.rows)
    BY <2>2
  <2> HIDE DEF rows
  <2> QED BY <2>1, <2>2, <2>3, <2>4 DEF PlanInv, Whole
<1>7. ASSUME LCloseRun PROVE PlanInv'
  <2> DEFINE families == {Source[r] : r \in KeptRecords}
  <2>1. /\ planned /\ pc = "close" /\ mem' = Closed(mem, families) /\ outFile' = mem'
        /\ inWhole' = FALSE /\ outWhole' = TRUE /\ pc' = "idle" /\ last' = given
        /\ lastUid' = [r \in Rec |-> IF r \in Reporters THEN HostUids[r] ELSE NoId]
        /\ UNCHANGED <<inFile, scan, runNo, inPlan, outPlan, planned, given>>
    BY <1>7 DEF LCloseRun, CloseRun
  <2> HIDE DEF families
  <2>2. Hosts' = Hosts /\ Reporters' = Reporters
    BY <2>1 DEF Hosts, Reporters
  <2>3. SiteInv'
    BY <1>7, SiteNext DEF LNext
  <2>4. ASSUME NEW r \in Rec, given[r] # NoId
        PROVE  /\ Reports[r] # {} /\ lastUid'[r] = UidFor(inFile, Agent(r))
               /\ UidFor(outFile', Agent(r)) = UidFor(inFile, Agent(r))
               /\ FpOf(Hosts, r) = <<Weak(r), lastUid'[r]>>
    <3>1. r \in Reporters /\ r \in scan /\ todo = {}
      BY <2>1, <2>4, HostsIs DEF PlanInv, SiteInv, FleetInv
    <3>2. HostUids[r] = UidFor(inFile, Agent(r))
      BY <2>1, <3>1, HostUidsAre DEF Hosts
    <3>3. PICK u \in observed : Holds(mem, u, Agent(r))
      BY <2>1, <3>1 DEF SiteInv, SeenOn
    <3>4. Holds(outFile', u, Agent(r)) /\ UidOf(outFile', u) = UidOf(mem, u)
      BY <2>1, <3>3, ClosedStays DEF SiteInv, Shape
    <3>5. Fleet(mem) /\ Fleet(outFile')
      BY <2>3 DEF SiteInv, FleetInv
    <3>6. UidFor(outFile', Agent(r)) = UidFor(mem, Agent(r))
      BY <3>3, <3>4, <3>5, UidForHolder
    <3>7. UidFor(mem, Agent(r)) = UidFor(inFile, Agent(r))
      BY <2>1 DEF SiteInv
    <3>8. FpOf(Hosts, r) = <<Weak(r), UidFor(inFile, Agent(r))>>
      BY <3>1, HostsIs
    <3> QED BY <2>1, <3>1, <3>2, <3>6, <3>7, <3>8 DEF Reporters
  <2>5. Whole(outFile, outPlan)'
    <3> SUFFICES ASSUME NEW r \in Rec, given[r] # NoId
                 PROVE  /\ Reports[r] # {} /\ outPlan.there
                        /\ lastUid'[r] = UidFor(outFile', Agent(r))
                        /\ Landed(outPlan.rows, <<Weak(r), lastUid'[r]>>, OwnKey(r))
                        /\ outPlan.rows[<<Weak(r), lastUid'[r]>>].id = given[r]
      BY <2>1 DEF Whole
    <3> QED BY <2>1, <2>4 DEF PlanInv
  <2> QED BY <2>1, <2>2, <2>5 DEF PlanInv
<1>8. ASSUME TearSave PROVE PlanInv'
  <2>1. /\ planned /\ pc = "close" /\ planned' = FALSE
        /\ UNCHANGED <<inFile, scan, runNo, inPlan, outPlan, outWhole, inWhole, given, last, lastUid>>
    BY <1>8 DEF TearSave, Gone
  <2>2. Hosts' = Hosts /\ Reporters' = Reporters
    BY <2>1 DEF Hosts, Reporters
  <2> QED BY <2>1, <2>2 DEF PlanInv, Whole
<1>9. ASSUME LCarry PROVE PlanInv'
  <2>1. /\ inFile' = outFile /\ inPlan' = outPlan /\ inWhole' = outWhole /\ given' = NoIds
        /\ pc = "idle" /\ UNCHANGED <<outFile, outPlan, pc, planned, outWhole, last, lastUid>>
    BY <1>9 DEF LCarry
  <2>2. \A r \in Rec : given'[r] = NoId
    BY <2>1 DEF NoIds
  <2> QED BY <2>1, <2>2 DEF PlanInv, Whole
<1>10. ASSUME UNCHANGED allVars PROVE PlanInv'
  BY <1>10, PlanFrame DEF allVars, planVars, vars
<1> QED BY <1>1, <1>2, <1>3, <1>4, <1>5, <1>6, <1>7, <1>8, <1>9, <1>10 DEF LNext

LEMMA PlanHolds == AgentSite => (LSpec => []PlanInv)
<1> SUFFICES ASSUME AgentSite PROVE LSpec => []PlanInv
  OBVIOUS
<1>1. LInit => PlanInv
  <2> SUFFICES ASSUME LInit PROVE PlanInv
    OBVIOUS
  <2>1. /\ inPlan = NoPlan /\ outPlan = NoPlan /\ planned = FALSE /\ given = NoIds /\ last = NoIds
    BY DEF LInit
  <2>2. Rows(NoPlan.rows) /\ ~ NoPlan.there
    BY DEF NoPlan, Rows
  <2> QED BY <2>1, <2>2 DEF PlanInv, Whole, NoIds
<1>2. SiteInv /\ PlanInv /\ [LNext]_allVars => PlanInv'
  BY PlanNext
<1> QED BY <1>1, <1>2, SiteHolds, PTL DEF LSpec

(* Where every host runs an agent, whatever died before: the rows of a     *)
(* complete run are about hosts its asset ledger knows ...                 *)
THEOREM AgentsRowsNamed == AgentSite => (LSpec => []RowsNameAssets)
<1> SUFFICES ASSUME AgentSite PROVE LSpec => []RowsNameAssets
  OBVIOUS
<1>1. SiteInv => RowsNameAssets
  <2> SUFFICES ASSUME SiteInv, planned, pc = "idle", NEW r \in Reporters
               PROVE  \E u \in Active(outFile) : UidOf(outFile, u) = HostUid(r)
    BY DEF RowsNameAssets
  <2>1. r \in scan /\ r \in Rec /\ mem = outFile
    BY HostsIs DEF SiteInv
  <2>2. PICK u \in Active(mem) : Holds(mem, u, Agent(r))
    BY <2>1 DEF SiteInv, SeenOn
  <2>3. HostUid(r) = UidOf(mem, u)
    BY <2>1, <2>2, HostUidIs DEF SiteInv, FleetInv, AgentSite
  <2> QED BY <2>1, <2>2, <2>3
<1> QED BY <1>1, SiteHolds, PTL

(* With both ledgers carried a finding of the last run keeps its id.       *)
LEMMA IdKept ==
  ASSUME AgentSite, SiteInv, PlanInv, Plan, inWhole, NEW r \in Reporters, last[r] # NoId
  PROVE  given'[r] = last[r]
<1>1. r \in Rec /\ FpOf(Hosts, r) = <<Weak(r), UidFor(inFile, Agent(r))>>
  BY HostsIs
<1>2. /\ inPlan.there /\ FpOf(Hosts, r) = <<Weak(r), lastUid[r]>>
      /\ Landed(inPlan.rows, FpOf(Hosts, r), OwnKey(r))
      /\ inPlan.rows[FpOf(Hosts, r)].id = last[r]
  BY <1>1 DEF PlanInv, Whole
<1>3. Prior = inPlan
  BY <1>2 DEF Prior
<1> DEFINE rows == PlanOf(runNo, Hosts, Prior.rows)
<1>4. Kept(Hosts, Prior.rows, rows, r) /\ given'[r] = rows[FpOf(Hosts, r)].id
  BY PlanStep
<1> HIDE DEF rows
<1> QED BY <1>2, <1>3, <1>4 DEF Kept

LEMMA OnlyPlanPlans ==
  ASSUME [LNext]_allVars, planned', ~ planned PROVE Plan
BY DEF LNext, LBegin, Rerun, LObserve, LLateMerge, LAttach, LCloseRun, Die, TearSave, Gone, LCarry,
       allVars, planVars

(* ... with both ledgers carried, a finding of the last run is on the plan *)
(* under the id it had, also where a process died between the two writes   *)
(* or within one, for steady hosts and, as a host that names its agent is  *)
(* found again whatever else it changes, for every host ...                *)
THEOREM AgentsKeepIds == AgentSite => (LSpec => SteadyHostSameId /\ SameAssetSameId)
<1> SUFFICES ASSUME AgentSite PROVE LSpec => SteadyHostSameId /\ SameAssetSameId
  OBVIOUS
<1>1. SiteInv /\ PlanInv /\ [LNext]_allVars =>
        (planned' /\ ~ planned /\ inWhole =>
           \A r \in Reporters : last[r] # NoId => given'[r] = last[r])
  BY IdKept, OnlyPlanPlans
<1> DEFINE Steadily == planned' /\ ~ planned /\ inWhole =>
                         \A r \in Reporters : last[r] # NoId /\ Steady(r) => given'[r] = last[r]
           Likewise == planned' /\ ~ planned /\ inWhole =>
                         \A r \in Reporters : last[r] # NoId /\ lastUid[r] = HostUid(r)
                                                 => given'[r] = last[r]
<1>2. SiteInv /\ PlanInv /\ [LNext]_allVars => Steadily /\ Likewise
  BY <1>1
<1>3. LSpec => SteadyHostSameId
  BY <1>2, SiteHolds, PlanHolds, PTL DEF LSpec, SteadyHostSameId
<1>4. LSpec => SameAssetSameId
  BY <1>2, SiteHolds, PlanHolds, PTL DEF LSpec, SameAssetSameId
<1> QED BY <1>3, <1>4

(* ... and a scan that is loaded again gives its findings the ids they had *)
(* in the attempt before.                                                  *)
THEOREM AgentsRerunKeepIds == AgentSite => (LSpec => RerunKeepsIds)
<1> SUFFICES ASSUME AgentSite PROVE LSpec => RerunKeepsIds
  OBVIOUS
<1> DEFINE Keep == planned' /\ ~ planned => \A r \in Rec : given[r] # NoId => given'[r] = given[r]
<1>1. ASSUME SiteInv, PlanInv, Plan, NEW r \in Rec, given[r] # NoId PROVE given'[r] = given[r]
  <2> DEFINE rows == PlanOf(runNo, Hosts, Prior.rows)
  <2>1. /\ r \in Reporters /\ Landed(outPlan.rows, FpOf(Hosts, r), OwnKey(r))
        /\ outPlan.rows[FpOf(Hosts, r)].id = given[r]
    BY <1>1 DEF PlanInv
  <2>2. /\ given' = IdsIn(Hosts, rows)
        /\ Kept(Hosts, Prior.rows, rows, r) /\ given'[r] = rows[FpOf(Hosts, r)].id
    BY <1>1, <2>1, PlanStep
  <2>3. CASE inPlan.there
    <3>1. Prior = inPlan /\ given # NoIds
      BY <1>1, <2>3 DEF Prior, NoIds
    <3> QED BY <1>1, <2>2, <2>3, <3>1 DEF PlanInv
  <2>4. CASE ~ inPlan.there
    <3>1. Prior = outPlan
      BY <2>4 DEF Prior
    <3> HIDE DEF rows
    <3> QED BY <2>1, <2>2, <3>1 DEF Kept
  <2> QED BY <2>3, <2>4
<1>2. SiteInv /\ PlanInv /\ [LNext]_allVars => Keep
  BY <1>1, OnlyPlanPlans
<1> QED BY <1>2, SiteHolds, PlanHolds, PTL DEF LSpec, RerunKeepsIds
=============================================================================
