---------------------------- MODULE MCPoamLedger ----------------------------
(***************************************************************************)
(* Small instances of the POA&M ledger for TLC.                            *)
(***************************************************************************)
EXTENDS PoamProps, TLC

CONSTANTS a, b, m, n, ca, cb, cm, cn, da, db, dm, dn, p, q,
          ra, ra2, rb, rm, rn, rc

None(I) == [i \in I |-> {}]
NoSeeds == {NoFile}

(* Stable fingerprints.  ra and ra2 are two records of the fingerprint a,   *)
(* rb of b; a and b are on one asset, so either record covers the other     *)
(* row, and they share their ten hex digits.                                *)
StableInst == {ra, ra2, rb}
StableFpOf == ra :> a @@ ra2 :> a @@ rb :> b
StableTarget == a :> p @@ b :> p
StableCovers == [i \in StableInst |-> {p}]
StableEpoch == [i \in StableInst |-> 0]
StableNone == None(StableInst)
StableShort == a :> ca @@ b :> ca
StableLong == a :> da @@ b :> db

(* The same without ra2, for longer histories.                              *)
PairInst == {ra, rb}
PairFpOf == ra :> a @@ rb :> b
PairCovers == [i \in PairInst |-> {p}]
PairEpoch == [i \in PairInst |-> 0]
PairNone == None(PairInst)

(* An identity upgrade.  Records ra and rb of the first epoch are keyed by   *)
(* name; in the next epoch rm answers to both rows, rn to the row b, whose   *)
(* location it matches, and rc is a record of m into which the weakness of n *)
(* was merged.                                                              *)
UpInst == {ra, rb, rm, rn, rc}
UpFpOf == ra :> a @@ rb :> b @@ rm :> m @@ rn :> n @@ rc :> m
UpLegacy == ra :> {} @@ rb :> {} @@ rm :> {a, b} @@ rn :> {b} @@ rc :> {}
UpNear == [i \in UpInst |-> IF i = rn THEN {b} ELSE {}]
UpAbsorbs == [i \in UpInst |-> IF i = rc THEN {n} ELSE {}]
UpEpoch == [i \in UpInst |-> IF i \in {ra, rb} THEN 0 ELSE 1]
UpTarget == a :> p @@ b :> q @@ m :> p @@ n :> q
UpCovers == ra :> {p} @@ rb :> {q} @@ rm :> {p, q} @@ rn :> {q} @@ rc :> {p}
UpShort == a :> ca @@ b :> cb @@ m :> cm @@ n :> cn
UpLong == a :> da @@ b :> db @@ m :> dm @@ n :> dn

(* Two records of one weakness, one of which carries a check id: its current *)
(* fingerprint is b, and it answers to the fingerprint a of the plain one.   *)
TwinInst == {ra, rb}
TwinFpOf == ra :> a @@ rb :> b
TwinLegacy == ra :> {} @@ rb :> {a}
TwinNone == None(TwinInst)
TwinEpoch == [i \in TwinInst |-> 0]
TwinCovers == [i \in TwinInst |-> {p}]
TwinShort == a :> ca @@ b :> cb
=============================================================================
