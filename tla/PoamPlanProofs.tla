--------------------------- MODULE PoamPlanProofs ---------------------------
(***************************************************************************)
(* The plan, for every scan, every ledger and every attribute of the       *)
(* records; where the ref_ids of a scan have to differ, RefsApart is the   *)
(* hypothesis of the theorem.  PlanInv says what a ledger of earlier runs may hold (OwnIds,  *)
(* Item), that the records kept and merged away are those of the scan, and *)
(* how the decisions stand to the records kept.  LinkedInv ranks the kinds *)
(* of alias: a twin leads to a row decided on its merits, a repeat to such *)
(* a row or to a twin, a superseded port to anything but another such      *)
(* port; so no aliases lead to each other in a circle.                     *)
(***************************************************************************)
EXTENDS PoamPlan, WellFoundedInduction, TLAPS

(* collapse_same_egp leaves at most one included row of a fingerprint,     *)
(* whatever decisions it is given.                                         *)
LEMMA CollapseLeavesOne ==
  ASSUME NEW ds,
         NEW i \in DOMAIN ds, NEW j \in DOMAIN ds,
         SameEgp(ds)[i].inc, SameEgp(ds)[j].inc,
         FpOf(SameEgp(ds)[i]) = FpOf(SameEgp(ds)[j])
  PROVE  i = j
<1> DEFINE Collapsed(k) == IF On(ds, FpOf(ds[k])) # {} /\ Winner(ds, FpOf(ds[k])) # k
                           THEN AliasOf(ds[k], "twin", Ref(ds[Winner(ds, FpOf(ds[k]))]))
                           ELSE ds[k]
<1>1. \A k \in DOMAIN ds : SameEgp(ds)[k] = Collapsed(k)
  BY DEF SameEgp
<1>2. ASSUME NEW k \in DOMAIN ds, Collapsed(k).inc
      PROVE  Collapsed(k) = ds[k] /\ Winner(ds, FpOf(ds[k])) = k
  <2>1. CASE Collapsed(k) = ds[k] /\ ~(On(ds, FpOf(ds[k])) # {} /\ Winner(ds, FpOf(ds[k])) # k)
    <3>1. k \in On(ds, FpOf(ds[k]))
      BY <1>2, <2>1 DEF On
    <3> QED BY <2>1, <3>1
  <2>2. CASE On(ds, FpOf(ds[k])) # {} /\ Winner(ds, FpOf(ds[k])) # k
    <3>1. Collapsed(k).inc = FALSE
      BY <2>2 DEF AliasOf
    <3> QED BY <1>2, <3>1
  <2> QED BY <2>1, <2>2
<1>3. Collapsed(i).inc /\ Collapsed(j).inc
  BY <1>1
<1>4. FpOf(ds[i]) = FpOf(ds[j])
  BY <1>1, <1>2, <1>3
<1> QED
  BY <1>2, <1>3, <1>4

LEMMA CollapseDomain == \A ds : DOMAIN SameEgp(ds) = DOMAIN ds
BY DEF SameEgp

(* Whatever the scans hold and whatever version wrote the ledger, no two   *)
(* included decisions have one fingerprint.                                *)
THEOREM OneRow == Spec => []OneRowPerFp
<1>1. Init => OneRowPerFp
  BY DEF Init, OneRowPerFp
<1>2. OneRowPerFp /\ [Next]_vars => OneRowPerFp'
  <2> SUFFICES ASSUME OneRowPerFp, [Next]_vars PROVE OneRowPerFp'
    OBVIOUS
  <2>1. CASE Decide
    <3> DEFINE ds == Table(PortFold(Table(E1(Table([i \in DOMAIN kept |-> Decision(kept[i])])))))
    <3>1. decided' = SameEgp(ds)
      BY <2>1 DEF Decide, Decisions
    <3> HIDE DEF ds
    <3> SUFFICES ASSUME NEW i \in DOMAIN decided', NEW j \in DOMAIN decided',
                        decided'[i].inc, decided'[j].inc,
                        FpOf(decided'[i]) = FpOf(decided'[j])
                 PROVE  i = j
      BY DEF OneRowPerFp, FpOf
    <3> QED
      BY <3>1, CollapseDomain, CollapseLeavesOne
  <2>2. CASE Read
    BY <2>2 DEF Read, OneRowPerFp, FpOf
  <2>3. CASE Publish \/ Die
    <3>1. decided' = <<>>
      BY <2>3 DEF Publish, Die, Exit
    <3> QED BY <3>1 DEF OneRowPerFp
  <2>4. CASE UNCHANGED vars
    BY <2>4 DEF vars, OneRowPerFp, FpOf
  <2> QED
    BY <2>1, <2>2, <2>3, <2>4 DEF Next
<1> QED
  BY <1>1, <1>2, PTL DEF Spec

-----------------------------------------------------------------------------
(* Least and foremost members.                                             *)

(* Every nonempty set of numbers has a least member, which Least finds.    *)
LEMMA LeastIsLeast ==
  ASSUME NEW S \in SUBSET Nat, S # {}
  PROVE  Least(S) \in S /\ \A n \in S : Least(S) <= n
<1> DEFINE Less == {ss \in Nat \X Nat : ss[1] < ss[2]}
<1>1. Less = OpToRel(<, Nat)
  BY DEF OpToRel
<1>2. IsWellFoundedOn(Less, Nat)
  BY <1>1, NatLessThanWellFounded
<1> HIDE DEF Less
<1>3. PICK x \in S : \A y \in S : ~ (<<y, x>> \in Less)
  BY <1>2, WFMin
<1>4. ASSUME NEW y \in S PROVE x <= y
  <2>1. y < x => <<y, x>> \in Less
    BY DEF Less
  <2> QED BY <1>3, <2>1
<1> QED BY <1>4 DEF Least

(* A nonempty set of numbers with a bound has a highest member.            *)
LEMMA HighestIsHighest ==
  ASSUME NEW top \in Nat, NEW S \in SUBSET (0 .. top), S # {}
  PROVE  Highest(S) \in S /\ \A n \in S : n <= Highest(S)
<1> DEFINE Room == {top - n : n \in S}
<1>1. Room \in SUBSET Nat
  OBVIOUS
<1>2. Room # {}
  OBVIOUS
<1>3. PICK least \in Room : \A n \in Room : least <= n
  BY <1>1, <1>2, LeastIsLeast
<1>4. PICK m \in S : least = top - m
  OBVIOUS
<1>5. ASSUME NEW n \in S PROVE n <= m
  <2>1. top - n \in Room
    OBVIOUS
  <2>2. top - m <= top - n
    BY <1>3, <1>4, <2>1
  <2> QED BY <2>2
<1> QED BY <1>5 DEF Highest

(* Table(f) is f.                                                          *)
LEMMA TableIs == \A f : Table(f) = f
BY DEF Table

(* A row in the making, and decisions about rows of the scan.              *)
Placed(ds) ==
  /\ DOMAIN ds \subseteq Nat
  /\ \A i \in DOMAIN ds : ds[i].rec \in Rec /\ ds[i].sev \in 0 .. 4

(* Some decision of a nonempty set comes before the others: Foremost names *)
(* a member.                                                               *)
LEMMA ForemostIsOne ==
  ASSUME NEW ds, Placed(ds), NEW S \in SUBSET DOMAIN ds, S # {}
  PROVE  Foremost(ds, S) \in S
<1> DEFINE R(i) == Rank(ds[i].sev)
           N(i) == Ref(ds[i])
<1>1. \A i \in S : R(i) \in 0 .. 4 /\ N(i) \in Nat /\ i \in Nat
  BY PlanAssumption DEF Placed, Rank, Ref
<1> HIDE DEF R, N
<1>2. PICK top \in {R(i) : i \in S} : \A i \in S : R(i) <= top
  <2>1. {R(i) : i \in S} \in SUBSET (0 .. 4)
    BY <1>1
  <2>2. {R(i) : i \in S} # {}
    OBVIOUS
  <2>3. \A i \in S : R(i) \in {R(j) : j \in S}
    OBVIOUS
  <2> QED BY <2>1, <2>2, <2>3, HighestIsHighest
<1> DEFINE Tops == {i \in S : R(i) = top}
<1>3. PICK low \in {N(i) : i \in Tops} : \A i \in Tops : low <= N(i)
  <2>1. {N(i) : i \in Tops} \in SUBSET Nat
    BY <1>1
  <2>2. Tops # {}
    BY <1>2
  <2>3. {N(i) : i \in Tops} # {}
    BY <2>2
  <2>4. \A i \in Tops : N(i) \in {N(j) : j \in Tops}
    OBVIOUS
  <2> QED BY <2>1, <2>3, <2>4, LeastIsLeast
<1> DEFINE Lows == {i \in Tops : N(i) = low}
<1>4. PICK m \in Lows : \A i \in Lows : m <= i
  <2>1. Lows \in SUBSET Nat
    BY <1>1
  <2>2. Lows # {}
    BY <1>3
  <2> QED BY <2>1, <2>2, LeastIsLeast
<1>5. ASSUME NEW i \in S PROVE Before(ds, m, i)
  <2>1. m \in S /\ R(m) = top /\ N(m) = low
    BY <1>4
  <2>2. R(m) > R(i) \/ R(i) = top
    BY <1>1, <1>2, <2>1
  <2>3. ASSUME R(i) = top PROVE N(m) < N(i) \/ (N(m) = N(i) /\ m <= i)
    <3>1. low <= N(i)
      BY <1>3, <2>3
    <3>2. N(i) = low => m <= i
      BY <1>4, <2>3
    <3> QED BY <1>1, <2>1, <3>1, <3>2
  <2>4. \/ R(m) > R(i)
        \/ R(m) = R(i) /\ (N(m) < N(i) \/ (N(m) = N(i) /\ m <= i))
    BY <2>1, <2>2, <2>3
  <2> QED BY <2>4 DEF Before, R, N
<1>6. m \in S
  BY <1>4
<1> QED BY <1>5, <1>6 DEF Foremost

-----------------------------------------------------------------------------
(* Decisions.                                                              *)

(* Rows decided place by place: findings on the plan, no twin so far.      *)
Rated(ds, in) ==
  /\ DOMAIN ds = DOMAIN in
  /\ \A i \in DOMAIN in : /\ ds[i].rec = in[i].rec /\ ds[i].sev = in[i].sev
                          /\ ds[i].inc => Attr[in[i].rec].kind = "finding"
                          /\ ds[i].why # "twin"

(* poam_decision and _enrich put findings on the plan only.                *)
LEMMA OwnRated ==
  ASSUME NEW in
  PROVE  Rated([i \in DOMAIN in |-> Decision(in[i])], in)
<1> DEFINE ds == [i \in DOMAIN in |-> Decision(in[i])]
<1>1. ASSUME NEW i \in DOMAIN in
      PROVE  /\ ds[i].rec = in[i].rec /\ ds[i].sev = in[i].sev
             /\ ds[i].inc => Attr[in[i].rec].kind = "finding"
             /\ ds[i].why # "twin"
  <2>1. ds[i].inc = Own(in[i]) /\ ds[i].rec = in[i].rec /\ ds[i].sev = in[i].sev
    BY DEF Decision
  <2>2. ds[i].why \in {"plan", "own"}
    BY DEF Decision
  <2>3. Own(in[i]) => Attr[in[i].rec].kind = "finding"
    BY DEF Own
  <2> QED BY <2>1, <2>2, <2>3
<1> QED BY <1>1 DEF Rated

(* What a row becomes under E1 and the port fold: itself, or an alias that *)
(* is no twin.                                                             *)
LEMMA FoldedRated ==
  ASSUME NEW in, NEW ds, Rated(ds, in), NEW es, DOMAIN es = DOMAIN ds,
         \A i \in DOMAIN ds : \/ es[i] = ds[i]
                              \/ \E by : \/ es[i] = AliasOf(ds[i], "repeat", by)
                                         \/ es[i] = AliasOf(ds[i], "specific", by)
  PROVE  Rated(es, in)
<1>1. ASSUME NEW i \in DOMAIN in
      PROVE  /\ es[i].rec = in[i].rec /\ es[i].sev = in[i].sev
             /\ es[i].inc => Attr[in[i].rec].kind = "finding"
             /\ es[i].why # "twin"
  <2>1. CASE es[i] = ds[i]
    BY <2>1 DEF Rated
  <2>2. ASSUME NEW by, \/ es[i] = AliasOf(ds[i], "repeat", by)
                       \/ es[i] = AliasOf(ds[i], "specific", by)
        PROVE  /\ es[i].rec = in[i].rec /\ es[i].sev = in[i].sev
               /\ es[i].inc => Attr[in[i].rec].kind = "finding"
               /\ es[i].why # "twin"
    <3>1. es[i].rec = ds[i].rec /\ es[i].sev = ds[i].sev /\ es[i].inc = FALSE
      BY <2>2 DEF AliasOf
    <3>2. es[i].why \in {"repeat", "specific"}
      BY <2>2 DEF AliasOf
    <3> QED BY <3>1, <3>2 DEF Rated
  <2> QED BY <2>1, <2>2 DEF Rated
<1> QED BY <1>1 DEF Rated

LEMMA E1Rated ==
  ASSUME NEW in, NEW ds, Rated(ds, in)
  PROVE  Rated(E1(ds), in)
<1>1. DOMAIN E1(ds) = DOMAIN ds
  BY DEF E1
<1>2. \A i \in DOMAIN ds : E1(ds)[i] = ds[i] \/ \E by : E1(ds)[i] = AliasOf(ds[i], "repeat", by)
  BY DEF E1
<1> QED BY <1>1, <1>2, FoldedRated

LEMMA PortFoldRated ==
  ASSUME NEW in, NEW ds, Rated(ds, in)
  PROVE  Rated(PortFold(ds), in)
<1>1. DOMAIN PortFold(ds) = DOMAIN ds
  BY DEF PortFold
<1>2. \A i \in DOMAIN ds :
        PortFold(ds)[i] = ds[i] \/ \E by : PortFold(ds)[i] = AliasOf(ds[i], "specific", by)
  BY DEF PortFold
<1> QED BY <1>1, <1>2, FoldedRated

(* The survivor of a fingerprint is one of the rows on the plan with it.   *)
LEMMA WinnerIsOn ==
  ASSUME NEW ds, Placed(ds), NEW f, On(ds, f) # {}
  PROVE  Winner(ds, f) \in On(ds, f)
<1> DEFINE checks == {j \in On(ds, f) : Attr[ds[j].rec].check}
<1>1. CASE checks # {}
  <2>1. Foremost(ds, checks) \in checks
    BY <1>1, ForemostIsOne DEF On
  <2>2. Winner(ds, f) = Foremost(ds, checks)
    BY <1>1 DEF Winner
  <2> QED BY <2>1, <2>2
<1>2. CASE checks = {}
  <2>1. {Ref(ds[j]) : j \in On(ds, f)} \in SUBSET Nat
    BY PlanAssumption DEF Placed, Ref, On
  <2>2. {Ref(ds[j]) : j \in On(ds, f)} # {}
    OBVIOUS
  <2>3. PICK low \in {Ref(ds[j]) : j \in On(ds, f)} :
               \A n \in {Ref(ds[j]) : j \in On(ds, f)} : low <= n
    BY <2>1, <2>2, LeastIsLeast
  <2>4. PICK j \in On(ds, f) : low = Ref(ds[j])
    BY <2>3
  <2>5. \A k \in On(ds, f) : Ref(ds[j]) <= Ref(ds[k])
    BY <2>3, <2>4
  <2>6. Winner(ds, f) = CHOOSE n \in On(ds, f) : \A k \in On(ds, f) : Ref(ds[n]) <= Ref(ds[k])
    BY <1>2 DEF Winner
  <2> QED BY <2>5, <2>6
<1> QED BY <1>1, <1>2

(* What iter_poam_decisions returns of the rows it is given: the rows at   *)
(* their places, findings on the plan, and for every twin a row on the     *)
(* plan that its alias names.                                              *)
Settled(ds, in) ==
  /\ DOMAIN ds = DOMAIN in
  /\ \A i \in DOMAIN in : /\ ds[i].rec = in[i].rec
                          /\ ds[i].inc => Attr[in[i].rec].kind = "finding"
                          /\ ds[i].why = "twin" =>
                               \E j \in DOMAIN in : ds[j].inc /\ ds[i].by = Ref(ds[j])

LEMMA CollapseSettles ==
  ASSUME NEW in, Placed(in), NEW ds, Rated(ds, in)
  PROVE  Settled(SameEgp(ds), in)
<1> DEFINE es == SameEgp(ds)
<1>0. Placed(ds)
  BY DEF Placed, Rated
<1>1. DOMAIN es = DOMAIN in
  BY DEF Rated, SameEgp
<1>2. \A i \in DOMAIN in :
        es[i] = IF On(ds, FpOf(ds[i])) # {} /\ Winner(ds, FpOf(ds[i])) # i
                THEN AliasOf(ds[i], "twin", Ref(ds[Winner(ds, FpOf(ds[i]))])) ELSE ds[i]
  BY DEF Rated, SameEgp
<1> HIDE DEF es
<1>3. ASSUME NEW i \in DOMAIN in
      PROVE  /\ es[i].rec = in[i].rec
             /\ es[i].inc => Attr[in[i].rec].kind = "finding"
             /\ es[i].why = "twin" =>
                  \E j \in DOMAIN in : es[j].inc /\ es[i].by = Ref(es[j])
  <2> DEFINE w == Winner(ds, FpOf(ds[i]))
  <2>1. CASE On(ds, FpOf(ds[i])) # {} /\ w # i
    <3>1. es[i] = AliasOf(ds[i], "twin", Ref(ds[w]))
      BY <1>2, <2>1
    <3>2. es[i].rec = ds[i].rec /\ es[i].inc = FALSE /\ es[i].by = Ref(ds[w])
      BY <3>1 DEF AliasOf
    <3>3. w \in On(ds, FpOf(ds[i]))
      BY <1>0, <2>1, WinnerIsOn
    <3>4. w \in DOMAIN in /\ ds[w].inc /\ FpOf(ds[w]) = FpOf(ds[i])
      BY <3>3 DEF On, Rated
    <3>5. es[w] = ds[w]
      BY <1>2, <3>4
    <3> QED BY <3>2, <3>4, <3>5 DEF Rated
  <2>2. CASE ~(On(ds, FpOf(ds[i])) # {} /\ w # i)
    <3>1. es[i] = ds[i]
      BY <1>2, <2>2
    <3> QED BY <3>1 DEF Rated
  <2> QED BY <2>1, <2>2
<1> QED BY <1>1, <1>3 DEF Settled, es

LEMMA DecisionsSettled ==
  ASSUME NEW in, Placed(in)
  PROVE  Settled(Decisions(in), in)
<1> DEFINE a == Table([i \in DOMAIN in |-> Decision(in[i])])
           b == Table(E1(a))
           c == Table(PortFold(b))
<1>1. Rated(a, in)
  BY OwnRated, TableIs
<1>2. Rated(b, in)
  BY <1>1, E1Rated, TableIs
<1>3. Rated(c, in)
  BY <1>2, PortFoldRated, TableIs
<1>4. Decisions(in) = SameEgp(c)
  BY DEF Decisions
<1> HIDE DEF c
<1> QED BY <1>3, <1>4, CollapseSettles

-----------------------------------------------------------------------------
(* Merges.                                                                 *)

(* An entry at a place of the scan is about the record there.              *)
Stays(in, out) == /\ DOMAIN out \subseteq DOMAIN in
                  /\ \A i \in DOMAIN out : out[i].rec = in[i].rec

LEMMA MergedStays ==
  ASSUME NEW pass, NEW in, Placed(in)
  PROVE  /\ Placed(Merged(pass, in)) /\ Stays(in, Merged(pass, in))
         /\ DOMAIN Merged(pass, in) = DOMAIN in \ Lost(pass, in)
BY DEF Merged, Placed, Stays

LEMMA IssuesStays ==
  ASSUME NEW in, Placed(in), \A i \in DOMAIN in : in[i].also = {} /\ in[i] = Entry(in[i].rec)
  PROVE  /\ Placed(Issues(in)) /\ Stays(in, Issues(in))
         /\ DOMAIN Issues(in) = DOMAIN in \ Lost("issue", in)
<1> DEFINE lost == Lost("issue", in)
           mates == [i \in DOMAIN in \ lost |-> {j \in lost : First("issue", in, j) = i}]
           out == Issues(in)
<1> HIDE DEF lost
<1>1. out = [i \in DOMAIN in \ lost |->
               [in[i] EXCEPT !.sev = Highest({in[j].sev : j \in mates[i] \cup {i}}),
                             !.also = @ \cup {Ref(in[j]) : j \in mates[i]}]]
  BY DEF Issues, lost
<1>2. lost \subseteq DOMAIN in
  BY DEF lost, Lost
<1> HIDE DEF out
<1>3. ASSUME NEW i \in DOMAIN in \ lost
      PROVE  out[i].rec = in[i].rec /\ out[i].sev \in 0 .. 4
  <2> DEFINE sevs == {in[j].sev : j \in mates[i] \cup {i}}
             also == {Ref(in[j]) : j \in mates[i]}
  <2>1. mates[i] \subseteq DOMAIN in
    BY <1>2
  <2>2. sevs \in SUBSET (0 .. 4)
    BY <2>1 DEF Placed
  <2>3. sevs # {}
    OBVIOUS
  <2>4. Highest(sevs) \in 0 .. 4
    BY <2>2, <2>3, HighestIsHighest
  <2>5. out[i] = [in[i] EXCEPT !.sev = Highest(sevs), !.also = @ \cup also]
    BY <1>1
  <2> HIDE DEF sevs, also
  <2>6. in[i] = [rec |-> in[i].rec, sev |-> Attr[in[i].rec].sev, also |-> {}]
    BY DEF Entry
  <2>7. out[i].rec = in[i].rec /\ out[i].sev = Highest(sevs)
    BY <2>5, <2>6
  <2> QED BY <2>4, <2>7
<1>4. DOMAIN out = DOMAIN in \ lost
  BY <1>1
<1>5. Placed(out)
  BY <1>3, <1>4 DEF Placed
<1>6. Stays(in, out)
  BY <1>3, <1>4 DEF Stays
<1> QED BY <1>4, <1>5, <1>6 DEF lost, out

(* Every finding a pass merges away is in its audit.                       *)
LEMMA AuditNames ==
  ASSUME NEW pass, NEW in, NEW out, NEW slot, NEW i \in Lost(pass, in), IsFinding(in[i])
  PROVE  \E g \in Audit(pass, in, out, slot) : g.ref = Ref(in[i])
<1> DEFINE parents(n) == {Ref(out[k]) : k \in {x \in DOMAIN out : /\ Slot(slot, out[x]) = Slot(slot, in[n])
                                                                 /\ Slot(slot, in[n]) # ""}}
           row(n) == [ref |-> Ref(in[n]), sev |-> in[n].sev,
                      into |-> IF parents(n) = {} THEN 0 ELSE CHOOSE p \in parents(n) : TRUE]
<1> HIDE DEF parents
<1>1. Audit(pass, in, out, slot) = {row(n) : n \in {x \in Lost(pass, in) : IsFinding(in[x])}}
  BY DEF Audit, parents
<1>2. row(i) \in Audit(pass, in, out, slot)
  BY <1>1
<1> QED BY <1>2

(* What Read leaves: each place of the scan has its record, or, if that is *)
(* a finding, the audit has its name.                                      *)
FromScan(s, k, g) ==
  /\ Placed(k)
  /\ DOMAIN k \subseteq DOMAIN s
  /\ \A i \in DOMAIN k : k[i].rec = s[i]
  /\ \A i \in DOMAIN s \ DOMAIN k :
       Attr[s[i]].kind = "finding" => \E m \in g : m.ref = Attr[s[i]].ref

LEMMA MergesAccount ==
  ASSUME NEW s \in Scans
  PROVE  LET in == [i \in DOMAIN s |-> Entry(s[i])]
             a == Table(Merged("exact", in))
             b == Table(Issues(a))
             c == Table(Merged("control", b))
         IN FromScan(s, c, Audited(in, a, b, c))
<1> DEFINE in == [i \in DOMAIN s |-> Entry(s[i])]
           a == Table(Merged("exact", in))
           b == Table(Issues(a))
           c == Table(Merged("control", b))
           g == Audited(in, a, b, c)
<1>1. Placed(in) /\ DOMAIN in = DOMAIN s
  <2>1. s \in Seq(Rec)
    BY PlanAssumption
  <2> QED BY <2>1, PlanAssumption DEF Placed, Entry
<1>2. \A i \in DOMAIN s : in[i].rec = s[i] /\ in[i] = Entry(in[i].rec) /\ in[i].also = {}
  BY DEF Entry
<1> HIDE DEF in
<1>3. Placed(a) /\ Stays(in, a) /\ DOMAIN a = DOMAIN in \ Lost("exact", in)
  BY <1>1, MergedStays, TableIs
<1>4. \A i \in DOMAIN a : a[i] = in[i]
  BY TableIs DEF Merged
<1> HIDE DEF a
<1>5. Placed(b) /\ Stays(a, b) /\ DOMAIN b = DOMAIN a \ Lost("issue", a)
  <2>1. \A i \in DOMAIN a : a[i].also = {} /\ a[i] = Entry(a[i].rec)
    BY <1>1, <1>2, <1>3, <1>4 DEF Stays
  <2> QED BY <1>3, <2>1, IssuesStays, TableIs
<1> HIDE DEF b
<1>6. Placed(c) /\ Stays(b, c) /\ DOMAIN c = DOMAIN b \ Lost("control", b)
  BY <1>5, MergedStays, TableIs
<1> HIDE DEF c
<1>7. \A i \in DOMAIN c : c[i].rec = s[i]
  BY <1>1, <1>2, <1>3, <1>5, <1>6 DEF Stays
<1>8. ASSUME NEW i \in DOMAIN s \ DOMAIN c, Attr[s[i]].kind = "finding"
      PROVE  \E m \in g : m.ref = Attr[s[i]].ref
  <2>1. CASE i \in Lost("exact", in)
    <3>1. IsFinding(in[i]) /\ Ref(in[i]) = Attr[s[i]].ref
      BY <1>2, <1>8 DEF IsFinding, Ref
    <3>2. \E m \in Audit("exact", in, a, "exact") : m.ref = Ref(in[i])
      BY <2>1, <3>1, AuditNames
    <3> QED BY <3>1, <3>2 DEF Audited
  <2>2. CASE i \in Lost("issue", a)
    <3>0. i \in DOMAIN a
      BY <2>2 DEF Lost
    <3>1. IsFinding(a[i]) /\ Ref(a[i]) = Attr[s[i]].ref
      BY <1>2, <1>3, <1>8, <3>0 DEF IsFinding, Ref, Stays
    <3>2. \E m \in Audit("issue", a, b, "issue") : m.ref = Ref(a[i])
      BY <2>2, <3>1, AuditNames
    <3> QED BY <3>1, <3>2 DEF Audited
  <2>3. CASE i \in Lost("control", b)
    <3>0. i \in DOMAIN b
      BY <2>3 DEF Lost
    <3>1. IsFinding(b[i]) /\ Ref(b[i]) = Attr[s[i]].ref
      BY <1>2, <1>3, <1>5, <1>8, <3>0 DEF IsFinding, Ref, Stays
    <3>2. \E m \in Audit("control", b, c, "issue") : m.ref = Ref(b[i])
      BY <2>3, <3>1, AuditNames
    <3> QED BY <3>1, <3>2 DEF Audited
  <2> QED BY <1>1, <1>3, <1>5, <1>6, <1>8, <2>1, <2>2, <2>3
<1>9. DOMAIN c \subseteq DOMAIN s
  BY <1>1, <1>3, <1>5, <1>6 DEF Stays
<1>10. FromScan(s, c, g)
  BY <1>6, <1>7, <1>8, <1>9 DEF FromScan
<1> QED BY <1>10 DEF c, b, a, in

-----------------------------------------------------------------------------
(* The invariant of the join with the ledger: ids of the ledger are each   *)
(* item's own, kept comes from the scan, decided from kept.                *)
Ledgered(items) == OwnIds(items) /\ \A f \in DOMAIN items : items[f] \in Item

PlanInv ==
  /\ Ledgered(ledger) /\ run \in Nat
  /\ stage \in {"merged", "decided"} => scan \in Scans /\ FromScan(scan, kept, gone)
  /\ stage = "decided" => Settled(decided, kept)

(* The last finding of an observed fingerprint gives the item its ref_id.  *)
LEMMA LastRefIs ==
  ASSUME PlanInv, stage = "decided", NEW f \in Observed
  PROVE  \E i \in DOMAIN kept : IsFinding(kept[i]) /\ FpOf(kept[i]) = f /\ LastRef(f) = Ref(kept[i])
<1> DEFINE is == {i \in DOMAIN kept : IsFinding(kept[i]) /\ FpOf(kept[i]) = f}
<1>1. is # {}
  BY DEF Observed, Findings, Range
<1>2. PICK top \in Nat : is \in SUBSET (0 .. top)
  <2>1. scan \in Seq(Rec) /\ DOMAIN kept \subseteq DOMAIN scan
    BY PlanAssumption DEF PlanInv, FromScan
  <2>2. DOMAIN scan = 1 .. Len(scan) /\ Len(scan) \in Nat
    BY <2>1
  <2>3. is \in SUBSET (0 .. Len(scan))
    BY <2>1, <2>2
  <2> QED BY <2>2, <2>3
<1>3. PICK m \in is : \A i \in is : i <= m
  BY <1>1, <1>2, HighestIsHighest
<1>4. (CHOOSE i \in is : \A j \in is : j <= i) \in is
  BY <1>3
<1>5. LastRef(f) = Ref(kept[CHOOSE i \in is : \A j \in is : j <= i])
  BY DEF LastRef
<1> HIDE DEF is
<1>6. PICK n \in is : n = CHOOSE i \in is : \A j \in is : j <= i
  BY <1>4
<1>7. LastRef(f) = Ref(kept[n])
  BY <1>5, <1>6
<1> QED BY <1>6, <1>7 DEF is

LEMMA ObservedFp ==
  ASSUME PlanInv, stage = "decided"
  PROVE  Observed \subseteq Fp /\ \A f \in Observed : LastRef(f) \in Nat
<1>1. \A i \in DOMAIN kept : kept[i].rec \in Rec
  BY DEF PlanInv, FromScan, Placed
<1>2. Observed \subseteq Fp
  BY <1>1, PlanAssumption DEF Observed, Findings, Range, FpOf
<1>3. \A f \in Observed : LastRef(f) \in Nat
  BY <1>1, LastRefIs, PlanAssumption DEF Ref
<1> QED BY <1>2, <1>3

(* run_ledger gives an observed fingerprint the item it had, with the same *)
(* id or a new one of its own.                                             *)
LEMMA SeenItem ==
  ASSUME PlanInv, stage = "decided", NEW f \in Observed, NEW closed \in BOOLEAN
  PROVE  LET it == [Seen(f) EXCEPT !.closed = closed] IN
           /\ it \in Item /\ it.ref = LastRef(f)
           /\ it.id[1] = f \/ (f \in DOMAIN ledger /\ it.id = ledger[f].id)
<1> DEFINE off == f \notin Wanted
           ref == LastRef(f)
<1>1. f \in Nat /\ ref \in Nat /\ off \in BOOLEAN /\ run \in Nat
  BY ObservedFp, PlanAssumption DEF PlanInv
<1> HIDE DEF off, ref
<1>2. CASE f \notin DOMAIN ledger
  <2>1. Seen(f) = [id |-> <<f, 0>>, ref |-> ref, closed |-> FALSE, off |-> off, born |-> run]
    BY <1>2 DEF Seen, off, ref
  <2> QED BY <1>1, <2>1 DEF Item, ref
<1>3. CASE f \in DOMAIN ledger
  <2>1. PICK i \in Nat \X Nat, r \in Nat, c \in BOOLEAN, o \in BOOLEAN, b \in Nat :
          ledger[f] = [id |-> i, ref |-> r, closed |-> c, off |-> o, born |-> b]
    BY <1>3 DEF PlanInv, Ledgered, Item
  <2>2. CASE c
    <3>1. <<f, i[2] + 1>> \in Nat \X Nat /\ <<f, i[2] + 1>>[1] = f
      BY <1>1
    <3>2. PICK j \in Nat \X Nat : j = <<f, i[2] + 1>> /\ j[1] = f
      BY <3>1
    <3>3. Seen(f) = [id |-> j, ref |-> ref, closed |-> FALSE, off |-> off, born |-> b]
      BY <1>3, <2>1, <2>2, <3>2 DEF Seen, off, ref
    <3>4. [Seen(f) EXCEPT !.closed = closed] = [id |-> j, ref |-> ref, closed |-> closed, off |-> off, born |-> b]
      BY <3>3
    <3> DEFINE it == [Seen(f) EXCEPT !.closed = closed]
    <3> HIDE DEF it
    <3>5. it = [id |-> j, ref |-> ref, closed |-> closed, off |-> off, born |-> b]
      BY <3>4 DEF it
    <3>6. it \in Item
      BY <1>1, <3>5 DEF Item
    <3>7. it.ref = LastRef(f) /\ it.id[1] = f
      BY <3>2, <3>5 DEF ref
    <3> QED BY <3>6, <3>7 DEF it
  <2>3. CASE ~c
    <3>1. Seen(f) = [[id |-> i, ref |-> r, closed |-> c, off |-> o, born |-> b] EXCEPT !.ref = ref, !.off = off]
      BY <1>3, <2>1, <2>3 DEF Seen, off, ref
    <3>2. Seen(f) = [id |-> i, ref |-> ref, closed |-> c, off |-> off, born |-> b]
      BY <3>1
    <3>3. [Seen(f) EXCEPT !.closed = closed] = [id |-> i, ref |-> ref, closed |-> closed, off |-> off, born |-> b]
      BY <3>2
    <3> DEFINE it == [Seen(f) EXCEPT !.closed = closed]
    <3> HIDE DEF it
    <3>4. it = [id |-> i, ref |-> ref, closed |-> closed, off |-> off, born |-> b]
      BY <3>3 DEF it
    <3>5. it \in Item
      BY <1>1, <3>4 DEF Item
    <3>6. it.ref = LastRef(f) /\ it.id = ledger[f].id
      BY <2>1, <3>4 DEF ref
    <3> QED BY <1>3, <3>5, <3>6 DEF it
  <2> QED BY <2>2, <2>3
<1> QED BY <1>2, <1>3

(* The items run_ledger writes have ids of their own, and an observed one  *)
(* the ref_id of its last finding.                                         *)
LEMMA AppliedIds ==
  ASSUME PlanInv, stage = "decided", NEW closing
  PROVE  /\ Ledgered(Applied(closing))
         /\ Observed \ GaveWay = Observed /\ Observed \subseteq DOMAIN Applied(closing)
         /\ \A f \in Observed : Applied(closing)[f].ref = LastRef(f)
<1> DEFINE items == Applied(closing)
<1>1. GaveWay \cap Observed = {} /\ GaveWay \subseteq DOMAIN ledger
  BY DEF GaveWay
<1>2. DOMAIN items = (DOMAIN ledger \cup Observed) \ GaveWay
  BY DEF Applied
<1>3. ASSUME NEW f \in Observed
      PROVE  /\ f \in DOMAIN items /\ items[f] \in Item /\ items[f].ref = LastRef(f)
             /\ items[f].id[1] = f \/ (f \in DOMAIN ledger /\ items[f].id = ledger[f].id)
  <2>1. f \in DOMAIN items
    BY <1>1, <1>2
  <2>2. items[f] = [Seen(f) EXCEPT !.closed = f \in closing]
    BY <1>2, <2>1 DEF Applied
  <2>3. (f \in closing) \in BOOLEAN
    OBVIOUS
  <2> HIDE DEF items
  <2> QED BY <2>1, <2>2, <2>3, SeenItem
<1>4. ASSUME NEW f \in DOMAIN items \ Observed
      PROVE  f \in DOMAIN ledger /\ items[f] = ledger[f]
  BY <1>2, <1>4 DEF Applied
<1> HIDE DEF items
<1>5. \A f \in DOMAIN items : items[f] \in Item
  BY <1>3, <1>4 DEF PlanInv, Ledgered
<1>6. \A f \in DOMAIN items :
        \/ items[f].id[1] = f /\ f \in Fp
        \/ f \in DOMAIN ledger /\ items[f].id = ledger[f].id
  BY <1>3, <1>4, ObservedFp
<1>7. OwnIds(ledger)
  BY DEF PlanInv, Ledgered
<1>8. OwnIds(items)
  <2>1. ASSUME NEW f \in DOMAIN items PROVE items[f].id[1] = f \/ items[f].id[1] \notin Fp
    BY <1>6, <1>7 DEF OwnIds
  <2>2. ASSUME NEW f \in DOMAIN items, NEW g \in DOMAIN items, items[f].id[1] = items[g].id[1]
        PROVE  f = g
    <3>1. CASE items[f].id[1] = f /\ f \in Fp
      BY <2>1, <2>2, <3>1
    <3>2. CASE items[g].id[1] = g /\ g \in Fp
      BY <2>1, <2>2, <3>2
    <3>3. CASE /\ f \in DOMAIN ledger /\ items[f].id = ledger[f].id
               /\ g \in DOMAIN ledger /\ items[g].id = ledger[g].id
      BY <1>7, <2>2, <3>3 DEF OwnIds
    <3> QED BY <1>6, <3>1, <3>2, <3>3
  <2> QED BY <2>1, <2>2 DEF OwnIds
<1> QED BY <1>1, <1>3, <1>5, <1>8 DEF Ledgered, items

(* The loader's marks change excluded_reason only.                         *)
LEMMA MarkedKeeps ==
  ASSUME NEW items, Ledgered(items)
  PROVE  /\ Ledgered(Marked(items)) /\ DOMAIN Marked(items) = DOMAIN items
         /\ \A f \in DOMAIN items : /\ Marked(items)[f].id = items[f].id
                                    /\ Marked(items)[f].ref = items[f].ref
                                    /\ Marked(items)[f].closed = items[f].closed
<1>1. DOMAIN Marked(items) = DOMAIN items
  BY DEF Marked
<1>2. ASSUME NEW f \in DOMAIN items
      PROVE  /\ Marked(items)[f] \in Item
             /\ Marked(items)[f].id = items[f].id
             /\ Marked(items)[f].ref = items[f].ref
             /\ Marked(items)[f].closed = items[f].closed
  <2>1. PICK i \in Nat \X Nat, r \in Nat, c \in BOOLEAN, o \in BOOLEAN, b \in Nat :
          items[f] = [id |-> i, ref |-> r, closed |-> c, off |-> o, born |-> b]
    BY DEF Ledgered, Item
  <2>2. \/ Marked(items)[f] = items[f]
        \/ \E off \in BOOLEAN : Marked(items)[f] = [items[f] EXCEPT !.off = off]
    BY DEF Marked
  <2>3. \E off \in BOOLEAN : Marked(items)[f] = [id |-> i, ref |-> r, closed |-> c, off |-> off, born |-> b]
    BY <2>1, <2>2
  <2> QED BY <2>1, <2>3 DEF Item
<1>3. OwnIds(Marked(items))
  BY <1>1, <1>2 DEF Ledgered, OwnIds
<1> QED BY <1>1, <1>2, <1>3 DEF Ledgered

(* The items the two files are written from.                               *)
Joined(items) == /\ Ledgered(items) /\ Observed \subseteq DOMAIN items
                 /\ \A f \in Observed : items[f].ref = LastRef(f)

LEMMA MarkedJoined ==
  ASSUME PlanInv, stage = "decided", NEW closing
  PROVE  Joined(Marked(Applied(closing)))
BY AppliedIds, MarkedKeeps DEF Joined

-----------------------------------------------------------------------------
(* The two files.                                                          *)

(* A decision is about the record at its place.                            *)
LEMMA Decided ==
  ASSUME PlanInv, stage = "decided"
  PROVE  /\ DOMAIN decided = DOMAIN kept
         /\ \A i \in DOMAIN decided :
              /\ decided[i].rec \in Rec /\ decided[i].rec = kept[i].rec
              /\ Ref(decided[i]) = Ref(kept[i]) /\ FpOf(decided[i]) = FpOf(kept[i])
              /\ Ref(decided[i]) \in Nat \ {0}
              /\ decided[i].inc => IsFinding(kept[i]) /\ FpOf(decided[i]) \in Observed
<1>1. DOMAIN decided = DOMAIN kept
  BY DEF PlanInv, Settled
<1>2. ASSUME NEW i \in DOMAIN decided
      PROVE  /\ decided[i].rec \in Rec /\ decided[i].rec = kept[i].rec
             /\ kept[i].rec = scan[i] /\ i \in DOMAIN scan
             /\ decided[i].inc => Attr[kept[i].rec].kind = "finding"
  BY DEF PlanInv, Settled, FromScan, Placed
<1>3. ASSUME NEW i \in DOMAIN decided, decided[i].inc
      PROVE  IsFinding(kept[i]) /\ FpOf(decided[i]) \in Observed
  <2>1. IsFinding(kept[i])
    BY <1>2, <1>3 DEF IsFinding
  <2>2. kept[i] \in Range(kept)
    BY <1>1 DEF Range
  <2> QED BY <1>2, <2>1, <2>2 DEF Observed, Findings, FpOf
<1>4. \A i \in DOMAIN decided : Ref(decided[i]) \in Nat \ {0}
  BY <1>2, PlanAssumption DEF Ref
<1> QED BY <1>1, <1>2, <1>3, <1>4 DEF Ref, FpOf

(* No two decisions are about records of one ref_id, if no two of the scan *)
(* have it.                                                                *)
LEMMA DecidedApart ==
  ASSUME RefsApart, PlanInv, stage = "decided",
         NEW i \in DOMAIN decided, NEW j \in DOMAIN decided, Ref(decided[i]) = Ref(decided[j])
  PROVE  i = j
<1>1. scan \in Scans /\ FromScan(scan, kept, gone)
  BY DEF PlanInv
<1>2. \A n \in DOMAIN decided : n \in DOMAIN scan /\ Ref(decided[n]) = Attr[scan[n]].ref
  BY <1>1, Decided DEF FromScan, Ref
<1> QED BY <1>1, <1>2 DEF RefsApart

(* What is found under a ref_id has it.                                    *)
LEMMA ByRefIs ==
  ASSUME NEW items, NEW ref
  PROVE  ByRef(items, ref) \subseteq {f \in DOMAIN items : items[f].ref = ref}
BY DEF ByRef

(* A row on the plan finds an item, and two rows find two.                 *)
LEMMA RowFindsItem ==
  ASSUME PlanInv, stage = "decided", OneRowPerFp, NEW items, Joined(items),
         NEW i \in DOMAIN decided, decided[i].inc
  PROVE  \E f \in ItemFor(items, decided[i]) :
           f \in DOMAIN items /\ IdOf(items, decided[i]) = items[f].id
<1>1. FpOf(decided[i]) \in DOMAIN items
  BY Decided DEF Joined
<1>2. ItemFor(items, decided[i]) # {} /\ ItemFor(items, decided[i]) \subseteq DOMAIN items
  BY <1>1, ByRefIs DEF ItemFor
<1> QED BY <1>2 DEF IdOf

LEMMA RowsFindTheirs ==
  ASSUME RefsApart, PlanInv, stage = "decided", OneRowPerFp, NEW items, Joined(items),
         NEW i \in DOMAIN decided, decided[i].inc, NEW j \in DOMAIN decided, decided[j].inc,
         NEW f \in ItemFor(items, decided[i]), f \in ItemFor(items, decided[j])
  PROVE  i = j
<1> DEFINE byRef(d) == {g \in DOMAIN items : items[g].ref = Ref(d)}
<1>1. ASSUME NEW k \in DOMAIN decided, f \in ItemFor(items, decided[k])
      PROVE  f \in byRef(decided[k]) \/ f = FpOf(decided[k])
  BY <1>1, ByRefIs DEF ItemFor
<1>2. ASSUME NEW k \in DOMAIN decided, NEW l \in DOMAIN decided, decided[k].inc, decided[l].inc,
             f \in byRef(decided[k]), f = FpOf(decided[l])
      PROVE  k = l
  <2>1. f \in Observed
    BY <1>2, Decided
  <2>2. items[f].ref = LastRef(f)
    BY <2>1 DEF Joined
  <2>3. PICK n \in DOMAIN kept : IsFinding(kept[n]) /\ FpOf(kept[n]) = f /\ LastRef(f) = Ref(kept[n])
    BY <2>1, LastRefIs
  <2>4. n \in DOMAIN decided /\ Ref(decided[n]) = Ref(kept[n]) /\ FpOf(decided[n]) = f
    BY <2>3, Decided
  <2>5. Ref(decided[k]) = Ref(decided[n])
    BY <1>2, <2>2, <2>3, <2>4
  <2>6. k = n
    BY <2>4, <2>5, DecidedApart
  <2> QED BY <1>2, <2>4, <2>6 DEF OneRowPerFp
<1>3. CASE f \in byRef(decided[i]) /\ f \in byRef(decided[j])
  <2>1. Ref(decided[i]) = Ref(decided[j])
    BY <1>3
  <2> QED BY <2>1, DecidedApart
<1>4. CASE f = FpOf(decided[i]) /\ f = FpOf(decided[j])
  BY <1>4 DEF OneRowPerFp
<1> HIDE DEF byRef
<1> QED BY <1>1, <1>2, <1>3, <1>4

(* The rows of poam.csv have an id each.                                   *)
DistinctIds(rows) == \A v, w \in rows : v.id = w.id => v = w

LEMMA RowsApart ==
  ASSUME RefsApart, PlanInv, stage = "decided", OneRowPerFp, NEW items, Joined(items)
  PROVE  DistinctIds(Written(items))
<1>1. ASSUME NEW v \in Rows(items), NEW w \in Rows(items), v.id = w.id
      PROVE  v = w
  <2>1. PICK i \in DOMAIN decided :
          /\ decided[i].inc
          /\ v = [id |-> IdOf(items, decided[i]), ref |-> Ref(decided[i]), sev |-> decided[i].sev, fp |-> FpOf(decided[i])]
    BY DEF Rows, Range
  <2>2. PICK j \in DOMAIN decided :
          /\ decided[j].inc
          /\ w = [id |-> IdOf(items, decided[j]), ref |-> Ref(decided[j]), sev |-> decided[j].sev, fp |-> FpOf(decided[j])]
    BY DEF Rows, Range
  <2>3. PICK f \in ItemFor(items, decided[i]) :
          f \in DOMAIN items /\ IdOf(items, decided[i]) = items[f].id
    BY <2>1, RowFindsItem
  <2>4. PICK g \in ItemFor(items, decided[j]) :
          g \in DOMAIN items /\ IdOf(items, decided[j]) = items[g].id
    BY <2>2, RowFindsItem
  <2>5. items[f].id = items[g].id
    BY <1>1, <2>1, <2>2, <2>3, <2>4
  <2>6. f = g
    BY <2>3, <2>4, <2>5 DEF Joined, Ledgered, OwnIds
  <2>7. i = j
    BY <2>1, <2>2, <2>3, <2>4, <2>6, RowsFindTheirs
  <2> QED BY <2>1, <2>2, <2>7
<1>2. ASSUME NEW v \in Rows(items), NEW w \in Carried(items)
      PROVE  v.id # w.id
  <2>1. w.id \notin {x.id : x \in Rows(items)}
    BY DEF Carried
  <2> QED BY <2>1
<1>3. ASSUME NEW v \in Carried(items), NEW w \in Carried(items), v.id = w.id
      PROVE  v = w
  <2>1. PICK f \in DOMAIN items : v = [id |-> items[f].id, ref |-> items[f].ref, sev |-> 0, fp |-> f]
    BY DEF Carried
  <2>2. PICK g \in DOMAIN items : w = [id |-> items[g].id, ref |-> items[g].ref, sev |-> 0, fp |-> g]
    BY DEF Carried
  <2>3. items[f].id = items[g].id
    BY <1>3, <2>1, <2>2
  <2>4. f = g
    BY <2>3 DEF Joined, Ledgered, OwnIds
  <2> QED BY <2>1, <2>2, <2>4
<1> QED BY <1>1, <1>2, <1>3 DEF Written, DistinctIds

(* A twin's alias names the id of a row of poam.csv.                       *)
TwinsNamed(off, rows) == \A x \in off : x.why = "twin" => x.to \in {w.id : w \in rows}

LEMMA AliasesNamed ==
  ASSUME RefsApart, PlanInv, stage = "decided", NEW items
  PROVE  TwinsNamed(Off(items) \cup Extras(items), Written(items))
<1>1. ASSUME NEW x \in Off(items), x.why = "twin"
      PROVE  x.to \in {w.id : w \in Written(items)}
  <2>1. PICK i \in DOMAIN decided :
          x = [ref |-> Ref(decided[i]), why |-> decided[i].why, to |-> Bind(items, decided[i])]
    BY DEF Off, Range
  <2>2. decided[i].why = "twin" /\ x.to = Bind(items, decided[i])
    BY <1>1, <2>1
  <2>3. PICK j \in DOMAIN decided : decided[j].inc /\ decided[i].by = Ref(decided[j])
    BY <2>2, Decided DEF PlanInv, Settled
  <2> DEFINE t == Target(items, decided[i])
  <2>4. t \in Range(decided) /\ Ref(t) = decided[i].by
    BY <2>3 DEF Target, Range
  <2>5. PICK k \in DOMAIN decided : t = decided[k]
    BY <2>4 DEF Range
  <2>6. k = j
    BY <2>3, <2>4, <2>5, DecidedApart
  <2>7. decided[i].by # 0
    BY <2>3, Decided
  <2>8. Bind(items, decided[i]) = IdOf(items, t)
    BY <2>2, <2>7 DEF Bind
  <2>9. [id |-> IdOf(items, decided[j]), ref |-> Ref(decided[j]), sev |-> decided[j].sev, fp |-> FpOf(decided[j])] \in Rows(items)
    BY <2>3 DEF Rows, Range
  <2>10. IdOf(items, decided[j]) \in {w.id : w \in Rows(items)}
    BY <2>9
  <2> QED BY <2>2, <2>5, <2>6, <2>8, <2>10 DEF Written
<1>2. ASSUME NEW x \in Extras(items)
      PROVE  x.why # "twin"
  BY DEF Extras
<1> QED BY <1>1, <1>2 DEF TwinsNamed

-----------------------------------------------------------------------------
(* The invariant holds.                                                    *)

(* What Publish and Die leave: the ledger before, or the items written.    *)
LEMMA WritesOf ==
  ASSUME PlanInv, Publish \/ Die
  PROVE  /\ stage = "decided" /\ stage' \in {"idle", "failed"} /\ decided' = <<>>
         /\ \E closing \in Closings :
              /\ ledger' \in {ledger, Applied(closing), Marked(Applied(closing))}
              /\ \/ plan' = plan /\ excluded' = excluded
                 \/ /\ plan' = Written(Marked(Applied(closing)))
                    /\ excluded' = Off(Marked(Applied(closing))) \cup Extras(Marked(Applied(closing)))
                    /\ stage' = "idle" \/ ~Accounts(plan', excluded')
<1>1. CASE Publish
  <2>1. PICK closing \in Closings :
          LET items == Marked(Applied(closing)) IN
             /\ plan' = Written(items)
             /\ excluded' = Off(items) \cup Extras(items)
             /\ ledger' = IF Accounts(plan', excluded') THEN items ELSE Applied(closing)
             /\ stage' = IF Accounts(plan', excluded') THEN "idle" ELSE "failed"
    BY <1>1, TableIs DEF Publish
  <2>2. stage = "decided" /\ decided' = <<>>
    BY <1>1 DEF Publish, Exit
  <2> QED BY <2>1, <2>2
<1>2. CASE Die
  <2>1. PICK closing \in Closings :
          LET items == Marked(Applied(closing)) IN
             /\ \/ UNCHANGED <<plan, excluded>>
                \/ plan' = Written(items) /\ excluded' = Off(items) \cup Extras(items)
             /\ ledger' \in {ledger, Applied(closing)}
    BY <1>2, TableIs DEF Die
  <2>2. stage = "decided" /\ stage' = "idle" /\ decided' = <<>>
    BY <1>2 DEF Die, Exit
  <2> QED BY <2>1, <2>2
<1> QED BY <1>1, <1>2

LEMMA InvKept == PlanInv /\ [Next]_vars => PlanInv'
<1> SUFFICES ASSUME PlanInv, [Next]_vars PROVE PlanInv'
  OBVIOUS
<1>0. run' \in Nat
  BY DEF Next, Read, Decide, Publish, Die, vars, PlanInv
<1>1. CASE Read
  <2>1. PICK s \in Scans :
          LET in == [i \in DOMAIN s |-> Entry(s[i])]
              a == Table(Merged("exact", in))
              b == Table(Issues(a))
              c == Table(Merged("control", b))
          IN scan' = s /\ kept' = c /\ gone' = Audited(in, a, b, c)
    BY <1>1 DEF Read
  <2>2. scan' \in Scans /\ FromScan(scan', kept', gone')
    BY <2>1, MergesAccount
  <2>3. stage' = "merged" /\ ledger' = ledger
    BY <1>1 DEF Read
  <2> QED BY <1>0, <2>2, <2>3 DEF PlanInv, Ledgered, OwnIds, FromScan, Placed
<1>2. CASE Decide
  <2>1. stage = "merged" /\ stage' = "decided" /\ decided' = Decisions(kept)
    BY <1>2 DEF Decide
  <2>2. UNCHANGED <<scan, kept, gone, ledger>>
    BY <1>2 DEF Decide
  <2>3. Settled(decided', kept')
    BY <2>1, <2>2, DecisionsSettled DEF PlanInv, FromScan
  <2>4. scan' \in Scans /\ FromScan(scan', kept', gone') /\ Ledgered(ledger')
    BY <2>1, <2>2 DEF PlanInv
  <2> QED BY <1>0, <2>3, <2>4 DEF PlanInv, Ledgered, OwnIds, FromScan, Placed, Settled, Ref
<1>3. CASE Publish \/ Die
  <2>1. stage = "decided" /\ stage' \in {"idle", "failed"}
    BY <1>3, WritesOf
  <2>2. PICK closing : ledger' \in {ledger, Applied(closing), Marked(Applied(closing))}
    BY <1>3, WritesOf
  <2>3. Ledgered(ledger')
    BY <2>1, <2>2, AppliedIds, MarkedKeeps DEF PlanInv
  <2> QED BY <1>0, <2>1, <2>3 DEF PlanInv, Ledgered, OwnIds
<1>4. CASE UNCHANGED vars
  <2>1. UNCHANGED <<stage, scan, kept, gone, decided, ledger>>
    BY <1>4 DEF vars
  <2> QED BY <1>0, <2>1 DEF PlanInv, Ledgered, OwnIds, FromScan, Placed, Settled, Ref
<1> QED BY <1>1, <1>2, <1>3, <1>4 DEF Next

LEMMA InvHolds == Spec => []PlanInv
<1>1. Init => PlanInv
  BY PlanAssumption DEF Init, PlanInv, Ledgered
<1> QED BY <1>1, InvKept, PTL DEF Spec

(* While no scan has two records of one ref_id, the rows of poam.csv have  *)
(* an id each: whatever an older version named its items, whichever        *)
(* ref_ids moved to another fingerprint between scans, rows carried from   *)
(* the ledger included.  Without the hypothesis it is false.               *)
THEOREM OneRowAnId ==
  ASSUME RefsApart PROVE Spec => []OneRowPerId
<1>1. Init => OneRowPerId
  BY DEF Init, OneRowPerId
<1>2. PlanInv /\ OneRowPerFp /\ OneRowPerId /\ [Next]_vars => OneRowPerId'
  <2> SUFFICES ASSUME PlanInv, OneRowPerFp, OneRowPerId, [Next]_vars PROVE OneRowPerId'
    OBVIOUS
  <2>1. CASE Publish \/ Die
    <3>1. PICK closing : plan' = plan \/ plan' = Written(Marked(Applied(closing)))
      BY <2>1, WritesOf
    <3>2. stage = "decided"
      BY <2>1, WritesOf
    <3>3. DistinctIds(Written(Marked(Applied(closing))))
      BY <3>2, MarkedJoined, RowsApart
    <3> QED BY <3>1, <3>3 DEF OneRowPerId, DistinctIds
  <2>2. CASE Read \/ Decide \/ UNCHANGED vars
    <3>1. plan' = plan
      BY <2>2 DEF Read, Decide, vars
    <3> QED BY <3>1 DEF OneRowPerId
  <2> QED BY <2>1, <2>2 DEF Next
<1> QED BY <1>1, <1>2, InvHolds, OneRow, PTL DEF Spec

(* While no scan has two records of one ref_id, the alias of a twin names  *)
(* an id that poam.csv has, under whatever id the ledger knows the row.    *)
THEOREM AliasesNameRows ==
  ASSUME RefsApart PROVE Spec => []AliasNamesRow
<1>1. Init => AliasNamesRow
  BY DEF Init, AliasNamesRow
<1>2. PlanInv /\ AliasNamesRow /\ [Next]_vars => AliasNamesRow'
  <2> SUFFICES ASSUME PlanInv, AliasNamesRow, [Next]_vars PROVE AliasNamesRow'
    OBVIOUS
  <2>1. CASE Publish \/ Die
    <3>1. PICK items : \/ plan' = plan /\ excluded' = excluded
                       \/ plan' = Written(items) /\ excluded' = Off(items) \cup Extras(items)
      BY <2>1, WritesOf
    <3>2. stage = "decided"
      BY <2>1, WritesOf
    <3>3. TwinsNamed(Off(items) \cup Extras(items), Written(items))
      BY <3>2, AliasesNamed
    <3> QED BY <3>1, <3>3 DEF AliasNamesRow, TwinsNamed
  <2>2. CASE Read \/ Decide \/ UNCHANGED vars
    <3>1. plan' = plan /\ excluded' = excluded
      BY <2>2 DEF Read, Decide, vars
    <3> QED BY <3>1 DEF AliasNamesRow
  <2> QED BY <2>1, <2>2 DEF Next
<1> QED BY <1>1, <1>2, InvHolds, PTL DEF Spec

-----------------------------------------------------------------------------
(* Nothing is lost between the scan and the two files.                     *)

LEMMA RowOf ==
  ASSUME PlanInv, stage = "decided", NEW items, NEW i \in DOMAIN decided
  PROVE  \/ decided[i].inc /\ \E w \in Rows(items) : w.ref = Ref(decided[i])
         \/ ~decided[i].inc /\ \E x \in Off(items) : x.ref = Ref(decided[i])
<1>1. CASE decided[i].inc
  <2>1. [id |-> IdOf(items, decided[i]), ref |-> Ref(decided[i]), sev |-> decided[i].sev, fp |-> FpOf(decided[i])] \in Rows(items)
    BY <1>1 DEF Rows, Range
  <2> QED BY <1>1, <2>1
<1>2. CASE ~decided[i].inc
  <2>1. [ref |-> Ref(decided[i]), why |-> decided[i].why, to |-> Bind(items, decided[i])] \in Off(items)
    BY <1>2 DEF Off, Range
  <2> QED BY <1>2, <2>1
<1> QED BY <1>1, <1>2

(* No ref_id is in both files.                                             *)
LEMMA NotInBoth ==
  ASSUME RefsApart, PlanInv, stage = "decided", NEW items,
         NEW w \in Written(items), NEW x \in Off(items) \cup Extras(items)
  PROVE  w.ref # x.ref
<1>1. CASE x \in Extras(items)
  <2>1. x.ref \notin {v.ref : v \in Rows(items) \cup Carried(items)}
    BY <1>1 DEF Extras
  <2> QED BY <2>1 DEF Written
<1>2. CASE x \in Off(items)
  <2>1. PICK j \in DOMAIN decided : ~decided[j].inc /\ x.ref = Ref(decided[j])
    BY <1>2 DEF Off, Range
  <2>2. CASE w \in Rows(items)
    <3>1. PICK i \in DOMAIN decided : decided[i].inc /\ w.ref = Ref(decided[i])
      BY <2>2 DEF Rows, Range
    <3> QED BY <2>1, <3>1, DecidedApart
  <2>3. CASE w \in Carried(items)
    <3>1. w.ref \notin {Ref(d) : d \in Range(decided)}
      BY <2>3 DEF Carried
    <3>2. Ref(decided[j]) \in {Ref(d) : d \in Range(decided)}
      BY DEF Range
    <3> QED BY <2>1, <3>1, <3>2
  <2> QED BY <2>2, <2>3 DEF Written
<1> QED BY <1>1, <1>2

(* Every finding of the scan is in one of them.                            *)
LEMMA InOne ==
  ASSUME PlanInv, stage = "decided", NEW items,
         NEW i \in DOMAIN scan, i \in DOMAIN kept \/ Attr[scan[i]].kind = "finding"
  PROVE  \/ \E w \in Written(items) : w.ref = Attr[scan[i]].ref
         \/ \E x \in Off(items) \cup Extras(items) : x.ref = Attr[scan[i]].ref
<1>1. CASE i \in DOMAIN kept
  <2>1. i \in DOMAIN decided /\ Ref(decided[i]) = Attr[scan[i]].ref
    BY <1>1, Decided DEF PlanInv, FromScan, Ref
  <2> QED BY <2>1, RowOf DEF Written
<1>2. CASE i \notin DOMAIN kept
  <2>1. PICK g \in gone : g.ref = Attr[scan[i]].ref
    BY <1>2 DEF PlanInv, FromScan
  <2>2. CASE \/ g.ref \in {w.ref : w \in Rows(items) \cup Carried(items)}
             \/ g.ref \in {w.ref : w \in Off(items)}
    BY <2>1, <2>2 DEF Written
  <2>3. CASE /\ g.ref \notin {w.ref : w \in Rows(items) \cup Carried(items)}
             /\ g.ref \notin {w.ref : w \in Off(items)}
    <3>1. [ref |-> g.ref, why |-> "merged", to |-> NoId] \in Extras(items)
      BY <2>3 DEF Extras
    <3> QED BY <2>1, <3>1
  <2> QED BY <2>2, <2>3
<1> QED BY <1>1, <1>2

(* assert_input_export_accounting never raises.                            *)
LEMMA AlwaysAccounts ==
  ASSUME RefsApart, PlanInv, stage = "decided", NEW items
  PROVE  Accounts(Written(items), Off(items) \cup Extras(items))
<1> DEFINE listed == {w.ref : w \in Written(items)}
           named == {x.ref : x \in Off(items) \cup Extras(items)}
<1>1. listed \cap named = {}
  <2> SUFFICES ASSUME NEW n \in listed, n \in named PROVE FALSE
    OBVIOUS
  <2>1. PICK w \in Written(items) : n = w.ref
    OBVIOUS
  <2>2. PICK x \in Off(items) \cup Extras(items) : n = x.ref
    OBVIOUS
  <2> QED BY <2>1, <2>2, NotInBoth
<1>2. ASSUME NEW e \in Range(kept)
      PROVE  Ref(e) \in listed \cup named
  <2>1. PICK i \in DOMAIN kept : e = kept[i]
    BY DEF Range
  <2>2. i \in DOMAIN scan /\ Ref(e) = Attr[scan[i]].ref
    BY <2>1 DEF PlanInv, FromScan, Ref
  <2>3. \/ \E w \in Written(items) : w.ref = Attr[scan[i]].ref
        \/ \E x \in Off(items) \cup Extras(items) : x.ref = Attr[scan[i]].ref
    BY <2>2, InOne
  <2> QED BY <2>2, <2>3
<1>3. {Ref(e) : e \in Range(kept)} \subseteq listed \cup named
  BY <1>2
<1> HIDE DEF listed, named
<1> QED BY <1>1, <1>3 DEF Accounts, listed, named

(* While no scan has two records of one ref_id, every finding of the scan, *)
(* merged away or not, ends in exactly one of the two files, and the       *)
(* accounting check passes, for every merge and every ledger.              *)
THEOREM EveryFindingAccounted ==
  ASSUME RefsApart PROVE Spec => Accounted
<1>1. PlanInv /\ [Next]_vars =>
        [stage = "decided" /\ <<plan', excluded'>> # <<plan, excluded>> =>
           /\ stage' = "idle"
           /\ \A r \in {x \in Range(scan) : Attr[x].kind = "finding"} :
                (\E w \in plan' : w.ref = Attr[r].ref) # (\E x \in excluded' : x.ref = Attr[r].ref)]_vars
  <2> SUFFICES ASSUME PlanInv, [Next]_vars, stage = "decided", <<plan', excluded'>> # <<plan, excluded>>
               PROVE  /\ stage' = "idle"
                      /\ \A r \in {x \in Range(scan) : Attr[x].kind = "finding"} :
                           (\E w \in plan' : w.ref = Attr[r].ref) # (\E x \in excluded' : x.ref = Attr[r].ref)
    OBVIOUS
  <2>1. Publish \/ Die
    BY DEF Next, Read, Decide, vars
  <2>2. PICK closing :
          \/ plan' = plan /\ excluded' = excluded
          \/ /\ plan' = Written(Marked(Applied(closing)))
             /\ excluded' = Off(Marked(Applied(closing))) \cup Extras(Marked(Applied(closing)))
             /\ stage' = "idle" \/ ~Accounts(plan', excluded')
    BY <2>1, WritesOf
  <2> DEFINE items == Marked(Applied(closing))
  <2> HIDE DEF items
  <2>3. /\ plan' = Written(items) /\ excluded' = Off(items) \cup Extras(items)
        /\ stage' = "idle" \/ ~Accounts(plan', excluded')
    BY <2>2 DEF items
  <2>4. stage' = "idle"
    BY <2>3, AlwaysAccounts
  <2>5. ASSUME NEW r \in {x \in Range(scan) : Attr[x].kind = "finding"}
        PROVE  (\E w \in plan' : w.ref = Attr[r].ref) # (\E x \in excluded' : x.ref = Attr[r].ref)
    <3>1. PICK i \in DOMAIN scan : r = scan[i] /\ Attr[scan[i]].kind = "finding"
      BY DEF Range
    <3>2. \/ \E w \in plan' : w.ref = Attr[r].ref
          \/ \E x \in excluded' : x.ref = Attr[r].ref
      BY <2>3, <3>1, InOne
    <3>3. ~((\E w \in plan' : w.ref = Attr[r].ref) /\ (\E x \in excluded' : x.ref = Attr[r].ref))
      BY <2>3, NotInBoth
    <3> QED BY <3>2, <3>3
  <2> QED BY <2>4, <2>5
<1> QED BY <1>1, InvHolds, PTL DEF Spec, Accounted

(* An open item this scan says nothing about is on the new plan.           *)
LEMMA SilentItemStays ==
  ASSUME PlanInv, stage = "decided", NEW closing, NEW f \in DOMAIN ledger,
         ~ledger[f].closed, ~ledger[f].off,
         \A e \in Range(kept) : /\ FpOf(e) # f /\ Ref(e) # ledger[f].ref
                                /\ ledger[f].ref \notin e.also
  PROVE  ledger[f].id \in {w.id : w \in Written(Marked(Applied(closing)))}
<1> DEFINE before == Applied(closing)
           items == Marked(before)
<1>1. f \notin Observed /\ f \notin GaveWay
  BY DEF Observed, GaveWay, Findings
<1>2. f \in DOMAIN before /\ before[f] = ledger[f]
  BY <1>1 DEF Applied
<1> HIDE DEF before
<1>3. \A d \in Range(decided) : FpOf(d) # f /\ Ref(d) # ledger[f].ref
  <2> SUFFICES ASSUME NEW i \in DOMAIN decided
               PROVE  FpOf(decided[i]) # f /\ Ref(decided[i]) # ledger[f].ref
    BY DEF Range
  <2>1. kept[i] \in Range(kept)
    BY Decided DEF Range
  <2> QED BY <2>1, Decided
<1>4. \A d \in Range(decided) : f \notin ItemFor(before, d)
  BY <1>2, <1>3, ByRefIs DEF ItemFor
<1>5. f \in DOMAIN items /\ (items[f] = ledger[f] \/ items[f] = [ledger[f] EXCEPT !.off = FALSE])
  BY <1>2, <1>4 DEF Marked
<1>6. ledger[f] \in Item
  BY DEF PlanInv, Ledgered
<1>7. /\ items[f].id = ledger[f].id /\ items[f].ref = ledger[f].ref
      /\ ~items[f].closed /\ ~items[f].off
  <2> HIDE DEF items
  <2>1. PICK i \in Nat \X Nat, r \in Nat, c \in BOOLEAN, o \in BOOLEAN, b \in Nat :
          ledger[f] = [id |-> i, ref |-> r, closed |-> c, off |-> o, born |-> b]
    BY <1>6 DEF Item
  <2>2. ~c /\ ~o
    BY <2>1
  <2>3. \E off \in {o, FALSE} : items[f] = [id |-> i, ref |-> r, closed |-> c, off |-> off, born |-> b]
    BY <1>5, <2>1
  <2> QED BY <2>1, <2>2, <2>3
<1> HIDE DEF items
<1>8. CASE items[f].id \in {w.id : w \in Rows(items)}
  BY <1>7, <1>8 DEF Written, items, before
<1>9. CASE items[f].id \notin {w.id : w \in Rows(items)}
  <2>1. f \notin {FpOf(d) : d \in Range(decided)} /\ items[f].ref \notin {Ref(d) : d \in Range(decided)}
    BY <1>3, <1>7
  <2>2. [id |-> items[f].id, ref |-> items[f].ref, sev |-> 0, fp |-> f] \in Carried(items)
    BY <1>5, <1>7, <1>9, <2>1 DEF Carried, items
  <2>3. items[f].id \in {w.id : w \in Carried(items)}
    BY <2>2
  <2> QED BY <1>7, <2>3 DEF Written, items, before
<1> QED BY <1>8, <1>9 DEF items, before

(* A row leaves the plan only on evidence of this scan, or when the ledger *)
(* has it closed or excluded.                                              *)
THEOREM SilentRowsCarried == Spec => CarriedOn
<1>1. PlanInv /\ [Next]_vars =>
        [plan' # plan =>
           \A f \in DOMAIN ledger :
             /\ ledger[f].id \in {w.id : w \in plan}
             /\ ~ledger[f].closed /\ ~ledger[f].off
             /\ \A e \in Range(kept) : /\ FpOf(e) # f /\ Ref(e) # ledger[f].ref
                                       /\ ledger[f].ref \notin e.also
             => ledger[f].id \in {w.id : w \in plan'}]_vars
  <2> SUFFICES ASSUME PlanInv, [Next]_vars, plan' # plan, NEW f \in DOMAIN ledger,
                      ~ledger[f].closed, ~ledger[f].off,
                      \A e \in Range(kept) : /\ FpOf(e) # f /\ Ref(e) # ledger[f].ref
                                             /\ ledger[f].ref \notin e.also
               PROVE  ledger[f].id \in {w.id : w \in plan'}
    OBVIOUS
  <2>1. Publish \/ Die
    BY DEF Next, Read, Decide, vars
  <2>2. PICK closing : plan' = Written(Marked(Applied(closing)))
    BY <2>1, WritesOf
  <2>3. stage = "decided"
    BY <2>1, WritesOf
  <2> QED BY <2>2, <2>3, SilentItemStays
<1> QED BY <1>1, InvHolds, PTL DEF Spec, CarriedOn

-----------------------------------------------------------------------------
(* Aliases.                                                                *)

(* Rows of one ref_id are one row.                                         *)
Apart(in) == \A i, j \in DOMAIN in : Ref(in[i]) = Ref(in[j]) => i = j

(* Where the alias of a row leads: a twin's to a row kept on its own       *)
(* merits or off it, a repeat's to such a row or a twin, never a bare      *)
(* port, and a bare port's to a row that is none.                          *)
Linked(ds, in) ==
  \A i \in DOMAIN in :
    /\ ds[i].why \in {"plan", "own", "repeat", "specific", "twin"}
    /\ ds[i].inc => ds[i].why \in {"plan", "own"}
    /\ ds[i].why \in {"plan", "own"} => ds[i].by = 0
    /\ ds[i].why = "twin" =>
         \E j \in DOMAIN in : ds[i].by = Ref(in[j]) /\ ds[j].why \in {"plan", "own"}
    /\ ds[i].why = "repeat" =>
         \E j \in DOMAIN in : /\ ds[i].by = Ref(in[j]) /\ ds[j].why \in {"plan", "own", "twin"}
                              /\ Attr[in[j].rec].shape # "port"
    /\ ds[i].why = "specific" =>
         \E j \in DOMAIN in : ds[i].by = Ref(in[j]) /\ ds[j].why # "specific"

LEMMA OwnLinked ==
  ASSUME NEW in
  PROVE  Linked([i \in DOMAIN in |-> Decision(in[i])], in)
<1> DEFINE ds == [i \in DOMAIN in |-> Decision(in[i])]
<1>1. \A i \in DOMAIN in : ds[i].why \in {"plan", "own"} /\ ds[i].by = 0
  BY DEF Decision
<1> HIDE DEF ds
<1>2. Linked(ds, in)
  BY <1>1 DEF Linked
<1> QED BY <1>2 DEF ds

LEMMA E1Linked ==
  ASSUME NEW in, Placed(in), NEW ds, Rated(ds, in), Linked(ds, in),
         \A i \in DOMAIN in : ds[i].why \in {"plan", "own"}
  PROVE  Linked(E1(ds), in) /\ \A i \in DOMAIN in : E1(ds)[i].why \notin {"specific", "twin"}
<1> DEFINE Alerts == {i \in DOMAIN ds : ds[i].inc /\ ds[i].sev = 1 /\ Attr[ds[i].rec].rule # ""}
           Same(i) == {j \in Alerts : Attr[ds[j].rec].rule = Attr[ds[i].rec].rule}
           Row(i) == Foremost(ds, Same(i))
           es == E1(ds)
<1>1. Placed(ds) /\ DOMAIN ds = DOMAIN in
  BY DEF Placed, Rated
<1>2. \A i \in DOMAIN in :
        es[i] = IF i \in Alerts /\ Row(i) # i THEN AliasOf(ds[i], "repeat", Ref(ds[Row(i)])) ELSE ds[i]
  BY <1>1 DEF E1
<1>3. ASSUME NEW i \in Alerts
      PROVE  Row(i) \in Alerts /\ Row(Row(i)) = Row(i)
  <2>1. i \in Same(i) /\ Same(i) \in SUBSET DOMAIN ds
    OBVIOUS
  <2> HIDE DEF Alerts
  <2>2. Row(i) \in Same(i)
    BY <1>1, <2>1, ForemostIsOne
  <2>3. Same(Row(i)) = Same(i)
    BY <2>2
  <2> QED BY <2>2, <2>3
<1> HIDE DEF es, Row
<1>4. ASSUME NEW i \in DOMAIN in
      PROVE  \/ es[i].why \in {"plan", "own"} /\ es[i].by = 0
             \/ /\ es[i].why = "repeat" /\ es[i].inc = FALSE
                /\ \E j \in DOMAIN in : /\ es[i].by = Ref(in[j]) /\ es[j].why \in {"plan", "own"}
                                        /\ Attr[in[j].rec].shape # "port"
  <2>1. CASE i \in Alerts /\ Row(i) # i
    <3> DEFINE j == Row(i)
    <3>1. j \in Alerts /\ es[j] = ds[j]
      BY <1>1, <1>2, <1>3, <2>1
    <3>2. es[i] = AliasOf(ds[i], "repeat", Ref(ds[j]))
      BY <1>2, <2>1
    <3>3. es[i].why = "repeat" /\ es[i].inc = FALSE /\ es[i].by = Ref(ds[j])
      BY <3>2 DEF AliasOf
    <3>4. Ref(ds[j]) = Ref(in[j]) /\ Attr[in[j].rec].rule # "" /\ in[j].rec \in Rec /\ j \in DOMAIN in
      BY <1>1, <3>1 DEF Rated, Ref, Placed
    <3>5. Attr[in[j].rec].shape # "port"
      BY <3>4, TelemetryAssumption
    <3>6. es[j].why \in {"plan", "own"}
      BY <3>1, <3>4
    <3> QED BY <3>3, <3>4, <3>5, <3>6
  <2>2. CASE ~(i \in Alerts /\ Row(i) # i)
    <3>1. es[i] = ds[i] /\ ds[i].why \in {"plan", "own"}
      BY <1>2, <2>2
    <3> QED BY <3>1 DEF Linked
  <2> QED BY <2>1, <2>2
<1>5. Linked(es, in)
  <2> SUFFICES ASSUME NEW i \in DOMAIN in
               PROVE  /\ es[i].why \in {"plan", "own", "repeat"}
                      /\ es[i].inc => es[i].why \in {"plan", "own"}
                      /\ es[i].why \in {"plan", "own"} => es[i].by = 0
                      /\ es[i].why = "repeat" =>
                           \E j \in DOMAIN in : /\ es[i].by = Ref(in[j]) /\ es[j].why \in {"plan", "own", "twin"}
                                                /\ Attr[in[j].rec].shape # "port"
    BY DEF Linked
  <2>1. CASE es[i].why \in {"plan", "own"} /\ es[i].by = 0
    BY <2>1
  <2>2. CASE es[i].why = "repeat"
    BY <1>4, <2>2
  <2> QED BY <1>4, <2>1, <2>2
<1> QED BY <1>4, <1>5 DEF es

(* Of rows apart pick_superseder finds one.                                *)
LEMMA PickedIsOne ==
  ASSUME NEW in, Placed(in), Apart(in), NEW ds, Rated(ds, in),
         NEW S \in SUBSET DOMAIN in, S # {}
  PROVE  Picked(ds, S) \in S
<1> DEFINE R(i) == Rank(ds[i].sev)
           P(i) == FpOf(ds[i])
           N(i) == Ref(ds[i])
<1>1. \A i \in S : R(i) \in 0 .. 4 /\ P(i) \in Nat /\ N(i) \in Nat
  <2> SUFFICES ASSUME NEW i \in S PROVE R(i) \in 0 .. 4 /\ P(i) \in Nat /\ N(i) \in Nat
    OBVIOUS
  <2>1. ds[i].rec \in Rec /\ ds[i].sev \in 0 .. 4
    BY DEF Placed, Rated
  <2>2. P(i) \in Nat /\ N(i) \in Nat
    BY <2>1, PlanAssumption DEF Ref, FpOf
  <2>3. R(i) \in 0 .. 4
    BY <2>1 DEF Rank
  <2> QED BY <2>2, <2>3
<1>2. \A i, j \in S : N(i) = N(j) => i = j
  BY DEF Apart, Rated, Ref
<1> HIDE DEF R, P, N
<1>3. PICK top \in {R(i) : i \in S} : \A i \in S : R(i) <= top
  <2>1. {R(i) : i \in S} \in SUBSET (0 .. 4)
    BY <1>1
  <2>2. {R(i) : i \in S} # {}
    OBVIOUS
  <2>3. \A i \in S : R(i) \in {R(j) : j \in S}
    OBVIOUS
  <2> QED BY <2>1, <2>2, <2>3, HighestIsHighest
<1> DEFINE Tops == {i \in S : R(i) = top}
<1>4. PICK print \in {P(i) : i \in Tops} : \A i \in Tops : print <= P(i)
  <2>1. {P(i) : i \in Tops} \in SUBSET Nat
    BY <1>1
  <2>2. Tops # {}
    BY <1>3
  <2>3. {P(i) : i \in Tops} # {}
    BY <2>2
  <2>4. \A i \in Tops : P(i) \in {P(j) : j \in Tops}
    OBVIOUS
  <2> QED BY <2>1, <2>3, <2>4, LeastIsLeast
<1> DEFINE Prints == {i \in Tops : P(i) = print}
<1>5. PICK low \in {N(i) : i \in Prints} : \A i \in Prints : low <= N(i)
  <2>1. {N(i) : i \in Prints} \in SUBSET Nat
    BY <1>1
  <2>2. Prints # {}
    BY <1>4
  <2>3. {N(i) : i \in Prints} # {}
    BY <2>2
  <2>4. \A i \in Prints : N(i) \in {N(j) : j \in Prints}
    OBVIOUS
  <2> QED BY <2>1, <2>3, <2>4, LeastIsLeast
<1>6. PICK m \in Prints : N(m) = low
  BY <1>5
<1>7. ASSUME NEW i \in S \ {m}
      PROVE  \/ R(m) > R(i)
             \/ R(m) = R(i) /\ P(m) < P(i)
             \/ R(m) = R(i) /\ P(m) = P(i) /\ N(m) < N(i)
  <2>1. m \in S /\ R(m) = top /\ P(m) = print
    BY <1>6
  <2>2. N(m) # N(i)
    BY <1>2, <2>1
  <2>3. R(m) > R(i) \/ R(i) = top
    BY <1>1, <1>3, <2>1
  <2>4. R(i) = top => print <= P(i)
    BY <1>4
  <2>5. R(i) = top /\ P(i) = print => low <= N(i)
    BY <1>5
  <2> QED BY <1>1, <1>6, <2>1, <2>2, <2>3, <2>4, <2>5
<1>8. m \in S
  BY <1>6
<1> QED BY <1>7, <1>8 DEF Picked, R, P, N

LEMMA PortFoldLinked ==
  ASSUME NEW in, Placed(in), Apart(in), NEW ds, Rated(ds, in), Linked(ds, in),
         \A i \in DOMAIN in : ds[i].why \notin {"specific", "twin"}
  PROVE  Linked(PortFold(ds), in)
<1> DEFINE Peers(i) == {j \in DOMAIN ds :
                     LET a == Attr[ds[i].rec]  b == Attr[ds[j].rec] IN
                       /\ a.kind = "finding" /\ a.shape = "port" /\ a.port # ""
                       /\ b.kind = "finding" /\ b.shape = "specific" /\ a.port = b.port
                       /\ a.proto = "" \/ b.proto = "" \/ a.proto = b.proto}
           es == PortFold(ds)
<1>1. DOMAIN ds = DOMAIN in /\ \A i \in DOMAIN in : ds[i].rec = in[i].rec
  BY DEF Rated
<1>2. \A i \in DOMAIN in :
        es[i] = IF Peers(i) # {} THEN AliasOf(ds[i], "specific", Ref(ds[Picked(ds, Peers(i))])) ELSE ds[i]
  BY <1>1 DEF PortFold
<1>3. \A i \in DOMAIN in : \A j \in Peers(i) :
        /\ j \in DOMAIN in /\ Attr[in[i].rec].shape = "port" /\ Attr[in[j].rec].shape = "specific"
  BY <1>1
<1>4. \A i \in DOMAIN in : Peers(i) \in SUBSET DOMAIN in
  BY <1>1
<1> HIDE DEF Peers, es
<1>5. \A i \in DOMAIN in : Attr[in[i].rec].shape # "port" => es[i] = ds[i]
  BY <1>2, <1>3
<1>6. ASSUME NEW i \in DOMAIN in
      PROVE  \/ es[i] = ds[i]
             \/ /\ es[i].why = "specific" /\ es[i].inc = FALSE
                /\ \E j \in DOMAIN in : es[i].by = Ref(in[j]) /\ es[j].why # "specific"
  <2>1. CASE Peers(i) # {}
    <3> DEFINE j == Picked(ds, Peers(i))
    <3>1. j \in Peers(i)
      BY <1>4, <2>1, PickedIsOne
    <3>2. es[j] = ds[j] /\ j \in DOMAIN in
      BY <1>3, <1>5, <3>1
    <3>3. es[i] = AliasOf(ds[i], "specific", Ref(ds[j]))
      BY <1>2, <2>1
    <3>4. es[i].why = "specific" /\ es[i].inc = FALSE /\ es[i].by = Ref(in[j])
      BY <1>1, <3>2, <3>3 DEF AliasOf, Ref
    <3> QED BY <3>2, <3>4
  <2> QED BY <1>2, <2>1
<1>7. ASSUME NEW i \in DOMAIN in, es[i] = ds[i], ds[i].why = "repeat"
      PROVE  \E j \in DOMAIN in : /\ es[i].by = Ref(in[j]) /\ es[j].why \in {"plan", "own", "twin"}
                                  /\ Attr[in[j].rec].shape # "port"
  <2>1. PICK j \in DOMAIN in : /\ ds[i].by = Ref(in[j]) /\ ds[j].why \in {"plan", "own", "twin"}
                               /\ Attr[in[j].rec].shape # "port"
    BY <1>7 DEF Linked
  <2> QED BY <1>5, <1>7, <2>1
<1>8. Linked(es, in)
  <2> SUFFICES ASSUME NEW i \in DOMAIN in
               PROVE  /\ es[i].why \in {"plan", "own", "repeat", "specific", "twin"}
                      /\ es[i].inc => es[i].why \in {"plan", "own"}
                      /\ es[i].why \in {"plan", "own"} => es[i].by = 0
                      /\ es[i].why # "twin"
                      /\ es[i].why = "repeat" =>
                           \E j \in DOMAIN in : /\ es[i].by = Ref(in[j]) /\ es[j].why \in {"plan", "own", "twin"}
                                                /\ Attr[in[j].rec].shape # "port"
                      /\ es[i].why = "specific" =>
                           \E j \in DOMAIN in : es[i].by = Ref(in[j]) /\ es[j].why # "specific"
    BY DEF Linked
  <2>1. CASE es[i] = ds[i]
    BY <1>7, <2>1 DEF Linked
  <2>2. CASE /\ es[i].why = "specific" /\ es[i].inc = FALSE
             /\ \E j \in DOMAIN in : es[i].by = Ref(in[j]) /\ es[j].why # "specific"
    BY <2>2
  <2> QED BY <1>6, <2>1, <2>2
<1> QED BY <1>8 DEF es

LEMMA SameEgpLinked ==
  ASSUME NEW in, Placed(in), NEW ds, Rated(ds, in), Linked(ds, in)
  PROVE  Linked(SameEgp(ds), in)
<1> DEFINE es == SameEgp(ds)
<1>1. Placed(ds) /\ DOMAIN ds = DOMAIN in /\ \A i \in DOMAIN in : ds[i].rec = in[i].rec
  BY DEF Placed, Rated
<1>2. \A i \in DOMAIN in :
        es[i] = IF On(ds, FpOf(ds[i])) # {} /\ Winner(ds, FpOf(ds[i])) # i
                THEN AliasOf(ds[i], "twin", Ref(ds[Winner(ds, FpOf(ds[i]))])) ELSE ds[i]
  BY <1>1 DEF SameEgp
<1> HIDE DEF es
<1>3. ASSUME NEW i \in DOMAIN in
      PROVE  \/ es[i] = ds[i]
             \/ /\ es[i].why = "twin" /\ es[i].inc = FALSE
                /\ \E j \in DOMAIN in : es[i].by = Ref(in[j]) /\ es[j].why \in {"plan", "own"}
  <2> DEFINE w == Winner(ds, FpOf(ds[i]))
  <2>1. CASE On(ds, FpOf(ds[i])) # {} /\ w # i
    <3>1. es[i] = AliasOf(ds[i], "twin", Ref(ds[w]))
      BY <1>2, <2>1
    <3>2. w \in On(ds, FpOf(ds[i]))
      BY <1>1, <2>1, WinnerIsOn
    <3>3. w \in DOMAIN in /\ ds[w].inc /\ FpOf(ds[w]) = FpOf(ds[i])
      BY <1>1, <3>2 DEF On
    <3>4. es[w] = ds[w] /\ ds[w].why \in {"plan", "own"}
      BY <1>2, <3>3 DEF Linked
    <3>5. es[i].why = "twin" /\ es[i].inc = FALSE /\ es[i].by = Ref(in[w])
      BY <1>1, <3>1, <3>3 DEF AliasOf, Ref
    <3> QED BY <3>3, <3>4, <3>5
  <2> QED BY <1>2, <2>1
<1>4. \A i \in DOMAIN in : es[i].why = ds[i].why \/ es[i].why = "twin"
  BY <1>3
<1>5. ASSUME NEW i \in DOMAIN in, es[i] = ds[i]
      PROVE  /\ es[i].why = "repeat" =>
                  \E j \in DOMAIN in : /\ es[i].by = Ref(in[j]) /\ es[j].why \in {"plan", "own", "twin"}
                                       /\ Attr[in[j].rec].shape # "port"
             /\ es[i].why = "specific" =>
                  \E j \in DOMAIN in : es[i].by = Ref(in[j]) /\ es[j].why # "specific"
  <2>1. ASSUME es[i].why = "repeat"
        PROVE  \E j \in DOMAIN in : /\ es[i].by = Ref(in[j]) /\ es[j].why \in {"plan", "own", "twin"}
                                    /\ Attr[in[j].rec].shape # "port"
    <3>1. PICK j \in DOMAIN in : /\ ds[i].by = Ref(in[j]) /\ ds[j].why \in {"plan", "own", "twin"}
                                 /\ Attr[in[j].rec].shape # "port"
      BY <1>5, <2>1 DEF Linked
    <3> QED BY <1>4, <1>5, <3>1
  <2>2. ASSUME es[i].why = "specific"
        PROVE  \E j \in DOMAIN in : es[i].by = Ref(in[j]) /\ es[j].why # "specific"
    <3>1. PICK j \in DOMAIN in : ds[i].by = Ref(in[j]) /\ ds[j].why # "specific"
      BY <1>5, <2>2 DEF Linked
    <3> QED BY <1>4, <1>5, <3>1
  <2> QED BY <2>1, <2>2
<1>6. \A i \in DOMAIN in : ds[i].why # "twin"
  BY DEF Rated
<1>7. Linked(es, in)
  <2> SUFFICES ASSUME NEW i \in DOMAIN in
               PROVE  /\ es[i].why \in {"plan", "own", "repeat", "specific", "twin"}
                      /\ es[i].inc => es[i].why \in {"plan", "own"}
                      /\ es[i].why \in {"plan", "own"} => es[i].by = 0
                      /\ es[i].why = "twin" =>
                           \E j \in DOMAIN in : es[i].by = Ref(in[j]) /\ es[j].why \in {"plan", "own"}
                      /\ es[i].why = "repeat" =>
                           \E j \in DOMAIN in : /\ es[i].by = Ref(in[j]) /\ es[j].why \in {"plan", "own", "twin"}
                                                /\ Attr[in[j].rec].shape # "port"
                      /\ es[i].why = "specific" =>
                           \E j \in DOMAIN in : es[i].by = Ref(in[j]) /\ es[j].why # "specific"
    BY DEF Linked
  <2>1. CASE es[i] = ds[i]
    BY <1>5, <1>6, <2>1 DEF Linked
  <2>2. CASE /\ es[i].why = "twin" /\ es[i].inc = FALSE
             /\ \E j \in DOMAIN in : es[i].by = Ref(in[j]) /\ es[j].why \in {"plan", "own"}
    BY <2>2
  <2> QED BY <1>3, <2>1, <2>2
<1> QED BY <1>7 DEF es

LEMMA DecisionsLinked ==
  ASSUME NEW in, Placed(in), Apart(in)
  PROVE  Linked(Decisions(in), in)
<1> DEFINE a == Table([i \in DOMAIN in |-> Decision(in[i])])
           b == Table(E1(a))
           c == Table(PortFold(b))
<1>1. Rated(a, in) /\ Linked(a, in)
  BY OwnRated, OwnLinked, TableIs
<1>2. \A i \in DOMAIN in : a[i].why \in {"plan", "own"}
  BY TableIs DEF Decision
<1> HIDE DEF a
<1>3. Rated(b, in) /\ Linked(b, in) /\ \A i \in DOMAIN in : b[i].why \notin {"specific", "twin"}
  BY <1>1, <1>2, E1Rated, E1Linked, TableIs
<1> HIDE DEF b
<1>4. Rated(c, in) /\ Linked(c, in)
  BY <1>3, PortFoldRated, PortFoldLinked, TableIs
<1>5. Decisions(in) = SameEgp(c)
  BY DEF Decisions, a, b
<1> HIDE DEF c
<1> QED BY <1>4, <1>5, SameEgpLinked

(* The decided rows are linked.                                            *)
LinkedInv == stage = "decided" => Linked(decided, kept)

LEMMA ScanApart ==
  ASSUME RefsApart, NEW s \in Scans, NEW k, NEW g, FromScan(s, k, g)
  PROVE  Apart(k)
<1> SUFFICES ASSUME NEW i \in DOMAIN k, NEW j \in DOMAIN k, Ref(k[i]) = Ref(k[j])
             PROVE  i = j
  BY DEF Apart
<1>1. /\ k[i].rec \in Rec /\ k[j].rec \in Rec /\ k[i].rec = s[i] /\ k[j].rec = s[j]
      /\ i \in DOMAIN s /\ j \in DOMAIN s
  BY DEF FromScan, Placed
<1>2. Attr[s[i]].ref = Attr[s[j]].ref
  BY <1>1 DEF Ref
<1> QED BY <1>1, <1>2 DEF RefsApart

LEMMA LinkedHolds ==
  ASSUME RefsApart PROVE Spec => []LinkedInv
<1>1. Init => LinkedInv
  BY DEF Init, LinkedInv
<1>2. PlanInv /\ LinkedInv /\ [Next]_vars => LinkedInv'
  <2> SUFFICES ASSUME PlanInv, LinkedInv, [Next]_vars PROVE LinkedInv'
    OBVIOUS
  <2>1. CASE Read
    <3>1. stage' = "merged"
      BY <2>1 DEF Read
    <3> QED BY <3>1 DEF LinkedInv
  <2>2. CASE Decide
    <3>1. stage = "merged" /\ decided' = Decisions(kept) /\ kept' = kept
      BY <2>2 DEF Decide
    <3>2. Placed(kept) /\ Apart(kept)
      BY <3>1, ScanApart DEF PlanInv, FromScan
    <3>3. Linked(decided', kept')
      BY <3>1, <3>2, DecisionsLinked
    <3> QED BY <3>3 DEF LinkedInv, Linked, Ref
  <2>3. CASE Publish \/ Die
    <3>1. stage' \in {"idle", "failed"}
      BY <2>3, WritesOf
    <3> QED BY <3>1 DEF LinkedInv
  <2>4. CASE UNCHANGED vars
    <3>1. UNCHANGED <<stage, kept, decided>>
      BY <2>4 DEF vars
    <3> QED BY <3>1 DEF LinkedInv, Linked, Ref
  <2> QED BY <2>1, <2>2, <2>3, <2>4 DEF Next
<1> QED BY <1>1, <1>2, InvHolds, PTL DEF Spec

(* Linked rows lead to each other in no circle.                            *)
LEMMA NoCircle ==
  ASSUME RefsApart PROVE PlanInv /\ LinkedInv /\ stage = "decided" => AliasesLand
<1> SUFFICES ASSUME PlanInv, LinkedInv, stage = "decided" PROVE AliasesLand
  OBVIOUS
<1> DEFINE merits == {i \in DOMAIN decided : decided[i].why \in {"plan", "own"}}
           why(i) == decided[i].why
<1>1. /\ DOMAIN decided = DOMAIN kept
      /\ \A i \in DOMAIN decided : Ref(decided[i]) = Ref(kept[i]) /\ Ref(decided[i]) # 0
  BY Decided
<1>2. ASSUME NEW i \in DOMAIN decided
      PROVE  /\ why(i) \in {"plan", "own", "repeat", "specific", "twin"}
             /\ why(i) \in {"plan", "own"} => decided[i].by = 0
             /\ why(i) = "twin" =>
                  \E j \in DOMAIN decided : decided[i].by = Ref(decided[j]) /\ why(j) \in {"plan", "own"}
             /\ why(i) = "repeat" =>
                  \E j \in DOMAIN decided :
                    decided[i].by = Ref(decided[j]) /\ why(j) \in {"plan", "own", "twin"}
             /\ why(i) = "specific" =>
                  \E j \in DOMAIN decided : decided[i].by = Ref(decided[j]) /\ why(j) # "specific"
  BY <1>1 DEF LinkedInv, Linked
<1>3. \A i, j, k \in DOMAIN decided :
        decided[i].by = Ref(decided[j]) /\ decided[i].by = Ref(decided[k]) => j = k
  BY DecidedApart
<1> HIDE DEF why
<1>4. ASSUME NEW i \in DOMAIN decided, decided[i].by # 0
      PROVE  \E j \in DOMAIN decided : decided[i].by = Ref(decided[j])
  BY <1>2, <1>4
<1>5. ASSUME NEW rows \in SUBSET DOMAIN decided, rows # {},
             \A i \in rows : \E j \in rows : decided[i].by = Ref(decided[j])
      PROVE  FALSE
  <2>1. \A i \in rows : why(i) \notin {"plan", "own"}
    BY <1>1, <1>2, <1>5
  <2>2. \A i \in rows : why(i) # "twin"
    BY <1>2, <1>3, <1>5, <2>1
  <2>3. \A i \in rows : why(i) # "repeat"
    BY <1>2, <1>3, <1>5, <2>1, <2>2
  <2>4. \A i \in rows : why(i) # "specific"
    BY <1>2, <1>3, <1>5, <2>1, <2>2, <2>3
  <2> QED BY <1>2, <1>5, <2>1, <2>2, <2>3, <2>4
<1> QED BY <1>4, <1>5 DEF AliasesLand

(* Following an alias ends: whatever repeats, ports and twins a scan of    *)
(* ref_ids of their own holds, every alias names a row, and no rows are    *)
(* only aliases of each other.                                             *)
THEOREM NoAliasCircle ==
  ASSUME RefsApart PROVE Spec => []AliasesLand
<1> DEFINE NoneDecided == stage # "decided" => DOMAIN decided = {}
<1>1. Init => NoneDecided
  <2> SUFFICES ASSUME Init PROVE DOMAIN decided = {}
    OBVIOUS
  <2>1. decided = << >>
    BY DEF Init
  <2>2. DOMAIN << >> = {}
    OBVIOUS
  <2> QED BY <2>1, <2>2
<1>2. NoneDecided /\ [Next]_vars => NoneDecided'
  <2> SUFFICES ASSUME NoneDecided, [Next]_vars PROVE NoneDecided'
    OBVIOUS
  <2>1. CASE Decide
    <3>1. stage' = "decided"
      BY <2>1 DEF Decide
    <3> QED BY <3>1
  <2>2. CASE Publish \/ Die
    <3>1. decided' = << >>
      BY <2>2 DEF Publish, Die, Exit
    <3>2. DOMAIN << >> = {}
      OBVIOUS
    <3> QED BY <3>1, <3>2
  <2>3. CASE Read
    <3>1. stage # "decided" /\ decided' = decided
      BY <2>3 DEF Read
    <3> QED BY <3>1
  <2>4. CASE UNCHANGED vars
    <3>1. UNCHANGED <<stage, decided>>
      BY <2>4 DEF vars
    <3> QED BY <3>1
  <2> QED BY <2>1, <2>2, <2>3, <2>4 DEF Next
<1>3. NoneDecided /\ stage # "decided" => AliasesLand
  BY DEF AliasesLand
<1>4. PlanInv /\ LinkedInv /\ NoneDecided => AliasesLand
  BY <1>3, NoCircle
<1> QED BY <1>1, <1>2, <1>4, InvHolds, LinkedHolds, PTL DEF Spec
=============================================================================
