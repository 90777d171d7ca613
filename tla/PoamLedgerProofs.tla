-------------------------- MODULE PoamLedgerProofs --------------------------
(***************************************************************************)
(* Proofs about the POA&M ledger, for every set of fingerprints, records,  *)
(* ids, seeds and environment steps: it is well-formed; no row closes or   *)
(* loses the closed row it came from (DocumentsSound); no published id     *)
(* vanishes without a document that says so (Keeping); a row waits after   *)
(* two scans without it, not before (Scanning).  Where records keep their  *)
(* fingerprints ids stay distinct (IdsOwnedIn); where an installation also *)
(* has one ledger, the ledger implements PoamIdLifecycle (Progress) and    *)
(* dates of detection do not move (Dating).                                *)
(***************************************************************************)
EXTENDS PoamProps, FiniteSetTheorems, TLAPS

-----------------------------------------------------------------------------
(* What each operator of a run does to a well-formed ledger. *)

LEMMA EmptyTyped ==
  /\ AbsentItem \in Item /\ EmptyLedger \in Ledger
  /\ NoFile \in File /\ TornFile \in File
BY ConstantsTyped DEF AbsentItem, EmptyLedger, NoFile, TornFile, Item, Ledger, File,
   Kinds, Id, NoId, Date, NotRecorded, Live, Statuses, MissesToPending

LEMMA MergedTyped ==
  ASSUME NEW L \in Ledger, NEW found \in SUBSET Fp, NEW s \in found
  PROVE  Merged(L, s, found) \in Item
BY DEF Merged, Ledger, Item

LEMMA MigratedTyped ==
  ASSUME NEW L \in Ledger, NEW i \in Inst, NEW found \in SUBSET Fp, NEW s \in Fp,
         found # {} => s \in found
  PROVE  Migrated(L, i, s, found) \in Ledger
<1>1. CASE found \subseteq {FpOf[i]}
  BY <1>1 DEF Migrated
<1>2. CASE ~(found \subseteq {FpOf[i]})
  <2> DEFINE items == [f \in Fp |-> IF f = FpOf[i] THEN Merged(L, s, found)
                                    ELSE IF f \in found THEN AbsentItem
                                    ELSE L.items[f]]
             new == {[from |-> f, to |-> FpOf[i], pid |-> L.items[f].pid] :
                       f \in found \ ({FpOf[i]} \cap {s})}
  <2>1. items \in [Fp -> Item]
    BY <1>2, MergedTyped, EmptyTyped DEF Ledger
  <2>2. new \subseteq Move
    BY ConstantsTyped DEF Move, Ledger, Item
  <2>3. Migrated(L, i, s, found) = [L EXCEPT !.items = items, !.moves = @ \cup new]
    BY <1>2 DEF Migrated
  <2> QED BY <2>1, <2>2, <2>3 DEF Ledger
<1> QED BY <1>1, <1>2

LEMMA DetectedTyped ==
  ASSUME NEW i \in Inst, scanNo \in 0 .. MaxScans
  PROVE  Detected(i) \in Date /\ scanNo \in Date
BY ConstantsTyped DEF Detected, NotRecorded, Date

LEMMA NewItemTyped ==
  ASSUME NEW pid \in Id, NEW i \in Inst, scanNo \in 0 .. MaxScans
  PROVE  NewItem(pid, i) \in Item
<1>1. Detected(i) \in Date /\ scanNo \in Date /\ "open" \in Statuses
  BY DetectedTyped DEF Statuses, Live
<1> QED BY <1>1, EmptyTyped DEF NewItem, Item

LEMMA MintedTyped ==
  ASSUME NEW L \in Ledger, NEW i \in Inst, scanNo \in 0 .. MaxScans
  PROVE  Minted(L, i) \in Ledger
<1>1. AssignedId(L, FpOf[i]) \in Id
  BY ConstantsTyped DEF AssignedId, Id
<1>2. NewItem(AssignedId(L, FpOf[i]), i) \in Item
  BY <1>1, NewItemTyped, ConstantsTyped
<1> QED BY <1>2 DEF Minted, Ledger

LEMMA ReopenedTyped ==
  ASSUME NEW L \in Ledger, NEW i \in Inst, NEW n \in 1 .. MaxReopen,
         scanNo \in 0 .. MaxScans
  PROVE  Reopened(L, i, n) \in Ledger
<1> DEFINE old == L.items[FpOf[i]]
           row == [NewItem(<<old.pid[1], n>>, i) EXCEPT
                     !.status = "reopened", !.prior = old.pid]
<1>1. old \in Item /\ old.pid \in Id /\ <<old.pid[1], n>> \in Id
  BY ConstantsTyped DEF Ledger, Item, Id
<1>2. row \in Item
  BY <1>1, NewItemTyped DEF Item, Statuses, Live
<1>3. [pid |-> old.pid, fp |-> FpOf[i], evid |-> old.evid] \in Row
  BY <1>1, ConstantsTyped DEF Row, Item
<1> QED BY <1>2, <1>3 DEF Reopened, Ledger

LEMMA RefreshedTyped ==
  ASSUME NEW L \in Ledger, NEW i \in Inst, scanNo \in 0 .. MaxScans
  PROVE  Refreshed(L, i) \in Ledger
<1> DEFINE old == L.items[FpOf[i]]
           odd == IF old.odd = NotRecorded THEN Detected(i) ELSE old.odd
           status == IF old.status = "pending_verification"
                       THEN "open" ELSE old.status
           row == [old EXCEPT !.seen = scanNo, !.missed = 0,
                              !.odd = odd, !.status = status]
<1>1. old \in Item /\ old.odd \in Date /\ old.status \in Statuses
  BY ConstantsTyped DEF Ledger, Item
<1>2. /\ odd \in Date /\ scanNo \in Date /\ 0 \in 0 .. MissesToPending
      /\ status \in Statuses
  BY <1>1, DetectedTyped DEF Statuses, Live, MissesToPending
<1>3. row \in Item
  <2> HIDE DEF odd, status
  <2> QED BY <1>1, <1>2 DEF Item
<1> QED BY <1>3 DEF Refreshed, Ledger

LEMMA RuledTyped ==
  ASSUME NEW L \in Ledger, NEW f \in Fp
  PROVE  Ruled(L, f) \in Ledger
<1> DEFINE it == L.items[f]
           vd == Vendor(it)
           closing == Rules(it.pid, "close") /\ ~vd
           row == [it EXCEPT !.vd = vd, !.evid = closing \/ it.evid,
                             !.status = IF closing THEN "closed" ELSE it.status]
<1>1. it \in Item
  BY DEF Ledger
<1>2. vd \in BOOLEAN /\ (closing \/ it.evid) \in BOOLEAN
  BY DEF Vendor
<1>3. row \in Item
  BY <1>1, <1>2 DEF Item, Statuses, Live
<1> QED BY <1>3 DEF Ruled, Ledger

LEMMA FoldedTyped ==
  ASSUME NEW L \in Ledger, NEW i \in Inst, NEW d \in FoldDates(L, i)
  PROVE  Folded(L, i, d) \in Ledger
<1> DEFINE new == FpOf[i]
           away == Away(L, i)
           ids == {L.items[f].pid : f \in away}
                    \cup UNION {L.items[f].aliases : f \in away}
           row == [L.items[new] EXCEPT
                     !.aliases = @ \cup (ids \ {L.items[new].pid}), !.odd = d]
           items == [f \in Fp |-> IF f = new THEN row
                                  ELSE IF f \in away THEN AbsentItem ELSE L.items[f]]
           moved == {[from |-> f, to |-> new, pid |-> L.items[f].pid] : f \in away}
<1>1. L.items \in [Fp -> Item] /\ new \in Fp /\ away \subseteq Fp
  BY ConstantsTyped DEF Ledger, Away
<1>2. \A f \in Fp : L.items[f].pid \in Id /\ L.items[f].aliases \subseteq Id
                    /\ L.items[f].odd \in Date
  BY <1>1 DEF Item
<1>3. ids \subseteq Id /\ moved \subseteq Move
  BY <1>1, <1>2 DEF Move
<1>4. d \in Date
  BY <1>1, <1>2 DEF FoldDates, Away
<1>5. row \in Item
  <2> HIDE DEF ids
  <2> QED BY <1>1, <1>3, <1>4 DEF Item
<1>6. items \in [Fp -> Item]
  <2> HIDE DEF row, away
  <2> QED BY <1>1, <1>5, EmptyTyped
<1>7. Folded(L, i, d) = L \/
      Folded(L, i, d) = [L EXCEPT !.items = items, !.moves = @ \cup moved]
  BY DEF Folded
<1> HIDE DEF items, moved
<1> QED BY <1>3, <1>6, <1>7 DEF Ledger

LEMMA SweptTyped ==
  ASSUME NEW L \in Ledger, scanNo \in 0 .. MaxScans
  PROVE  Swept(L) \in Ledger
<1>1. ASSUME NEW it \in Item PROVE Missed(it) \in Item
  <2> DEFINE m == IF it.missed < MissesToPending THEN it.missed + 1 ELSE it.missed
             status == IF m >= MissesToPending
                         THEN "pending_verification" ELSE it.status
  <2>1. m \in 0 .. MissesToPending
    BY DEF Item, MissesToPending
  <2>2. status \in Statuses /\ it.rescans \cup {scanNo} \subseteq Date
    <3>1. scanNo \in Date
      BY ConstantsTyped DEF Date
    <3>2. it.rescans \subseteq Date /\ it.status \in Statuses
      BY DEF Item
    <3> QED BY <3>1, <3>2 DEF Statuses, Live
  <2>3. Missed(it) = [it EXCEPT !.missed = m, !.rescans = @ \cup {scanNo},
                                !.status = status]
    BY DEF Missed, Item
  <2> HIDE DEF m, status
  <2> QED BY <2>1, <2>2, <2>3 DEF Item
<1> QED BY <1>1 DEF Swept, Ledger

LEMMA LoadedTyped ==
  ASSUME NEW file \in File
  PROVE  Loaded(file) \in Ledger
BY EmptyTyped DEF Loaded, File, Kinds, Ledger, Warnings

LEMMA AccountedTyped ==
  ASSUME NEW L \in Ledger
  PROVE  Accounted(L) \subseteq Id
BY DEF Accounted, UsedIds, ItemIds, AliasIds, ClosedIds, Present, Ledger, Item, Row, Move

-----------------------------------------------------------------------------
(* Ids.  Refreshing, ruling, sweeping and loading leave the ids of a       *)
(* document on the rows they are on.                                       *)

\* Two documents with the same ids on the same rows.
SameIds(L, M) ==
  /\ M.closed = L.closed
  /\ \A f \in Fp : /\ M.items[f].pid = L.items[f].pid
                   /\ M.items[f].aliases = L.items[f].aliases
                   /\ (M.items[f].status = "absent") = (L.items[f].status = "absent")

Unmoved(L, M) == SameIds(L, M) /\ M.moves = L.moves /\ M.warn = L.warn

LEMMA RefreshedSame ==
  ASSUME NEW L \in Ledger, NEW i \in Inst, L.items[FpOf[i]].status \in Live
  PROVE  Unmoved(L, Refreshed(L, i))
BY ConstantsTyped DEF Unmoved, SameIds, Refreshed, Ledger, Item, Live

LEMMA RuledSame ==
  ASSUME NEW L \in Ledger, NEW f \in Fp, L.items[f].status # "absent"
  PROVE  Unmoved(L, Ruled(L, f))
<1> DEFINE M == Ruled(L, f)
           it == L.items[f]
           vd == Vendor(it)
           closing == Rules(it.pid, "close") /\ ~vd
<1>1. it \in Item
  BY DEF Ledger
<1>2. /\ M.closed = L.closed /\ M.moves = L.moves /\ M.warn = L.warn
      /\ \A g \in Fp \ {f} : M.items[g] = L.items[g]
  BY DEF Ruled, Ledger
<1>3. /\ M.items[f].pid = it.pid /\ M.items[f].aliases = it.aliases
      /\ M.items[f].status = IF closing THEN "closed" ELSE it.status
  BY <1>1 DEF Ruled, Ledger, Item
<1> HIDE DEF closing, M
<1>4. Unmoved(L, M)
  BY <1>2, <1>3 DEF Unmoved, SameIds
<1> QED BY <1>4 DEF M

LEMMA SweptSame ==
  ASSUME NEW L \in Ledger
  PROVE  Unmoved(L, Swept(L))
<1> DEFINE M == Swept(L)
<1>1. ASSUME NEW f \in Fp
      PROVE  /\ M.items[f].pid = L.items[f].pid
             /\ M.items[f].aliases = L.items[f].aliases
             /\ (M.items[f].status = "absent") = (L.items[f].status = "absent")
  <2>1. CASE M.items[f] = L.items[f]
    BY <2>1
  <2>2. CASE M.items[f] # L.items[f]
    <3>1. f \in LiveRows(L) /\ M.items[f] = Missed(L.items[f]) /\ L.items[f] \in Item
      BY <2>2 DEF Swept, Ledger
    <3>2. /\ M.items[f].pid = L.items[f].pid /\ M.items[f].aliases = L.items[f].aliases
          /\ M.items[f].status \in {"pending_verification", L.items[f].status}
      BY <3>1 DEF Missed, Item
    <3> QED BY <3>1, <3>2 DEF LiveRows, Live
  <2> QED BY <2>1, <2>2
<1>2. M.closed = L.closed /\ M.moves = L.moves /\ M.warn = L.warn
  BY DEF Swept, Ledger
<1> QED BY <1>1, <1>2 DEF Unmoved, SameIds

LEMMA LoadedSame ==
  ASSUME NEW file \in File
  PROVE  SameIds(EmptyLedger, Loaded(file)) \/ SameIds(file.doc, Loaded(file))
<1> DEFINE M == Loaded(file)
<1>1. \/ M.items = EmptyLedger.items /\ M.closed = EmptyLedger.closed
      \/ M.items = file.doc.items /\ M.closed = file.doc.closed
  BY DEF Loaded, File, Kinds, Ledger, EmptyLedger
<1> HIDE DEF M
<1>2. SameIds(EmptyLedger, M) \/ SameIds(file.doc, M)
  BY <1>1 DEF SameIds
<1> QED BY <1>2 DEF M

-----------------------------------------------------------------------------
(* The type invariant. *)

LEMMA ObserveTyped ==
  ASSUME TypeOK, NEW i \in Inst, Observe(i)
  PROVE  mem' \in Ledger
<1>1. scanNo \in 0 .. MaxScans /\ mem \in Ledger /\ FpOf[i] \in Fp
  BY ConstantsTyped DEF TypeOK
<1> DEFINE found == Found(mem, i)
<1>2. found \subseteq Fp
  BY ConstantsTyped DEF Found, Present
<1>3. PICK s \in IF found = {} THEN {FpOf[i]} ELSE Oldest(mem, found) :
        LET L == Migrated(mem, i, s, found)
            f == FpOf[i]
        IN \/ mem' = Ruled(Minted(L, i), f)
           \/ \E n \in ReopenSuffix(L, L.items[f].pid) :
                mem' = Ruled(Reopened(L, i, n), f)
           \/ mem' = Ruled(Refreshed(L, i), f)
  BY DEF Observe
<1> DEFINE L == Migrated(mem, i, s, found)
<1>4. s \in Fp /\ (found # {} => s \in found)
  BY <1>1, <1>2, <1>3 DEF Oldest
<1>5. L \in Ledger
  BY <1>1, <1>2, <1>4, MigratedTyped
<1> HIDE DEF L, found
<1>6. CASE mem' = Ruled(Minted(L, i), FpOf[i])
  BY <1>1, <1>5, <1>6, MintedTyped, RuledTyped
<1>7. CASE \E n \in ReopenSuffix(L, L.items[FpOf[i]].pid) :
             mem' = Ruled(Reopened(L, i, n), FpOf[i])
  BY <1>1, <1>5, <1>7, ReopenedTyped, RuledTyped DEF ReopenSuffix
<1>8. CASE mem' = Ruled(Refreshed(L, i), FpOf[i])
  BY <1>1, <1>5, <1>8, RefreshedTyped, RuledTyped
<1> QED BY <1>3, <1>6, <1>7, <1>8 DEF L

LEMMA EditTyped ==
  ASSUME TypeOK, NEW f \in Fp, NEW signed \in BOOLEAN, EditClosed(f, signed)
  PROVE  inFile' \in File
<1>1. inFile \in File /\ inFile.doc \in Ledger
  BY DEF TypeOK, File
<1> DEFINE old == inFile.doc.items[f]
<1>2. old \in Item
  BY <1>1 DEF Ledger
<1> HIDE DEF old
<1>3. [old EXCEPT !.status = "closed", !.evid = TRUE] \in Item
  <2>1. "closed" \in Statuses
    BY DEF Statuses
  <2> QED BY <1>2, <2>1 DEF Item
<1>4. [inFile.doc EXCEPT !.items[f] =
         [@ EXCEPT !.status = "closed", !.evid = TRUE]] \in Ledger
  BY <1>1, <1>3 DEF Ledger, old
<1> QED BY <1>4 DEF EditClosed, File, Kinds

\* Every value a step writes is of its kind: TypeOK holds in every state.
THEOREM TypeCorrect == Spec => []TypeOK
<1>1. Init => TypeOK
  BY ConstantsTyped, EmptyTyped, AccountedTyped DEF Init, TypeOK, File
<1>2. TypeOK /\ [Next]_vars => TypeOK'
  <2> SUFFICES ASSUME TypeOK, [Next]_vars PROVE TypeOK'
    OBVIOUS
  <2> USE DEF files, inputs, run
  <2>1. CASE Load
    <3>1. Prior \in File
      BY DEF TypeOK, Prior
    <3> QED BY <2>1, <3>1, LoadedTyped DEF Load, TypeOK
  <2>2. CASE \E i \in Inst : Observe(i)
    BY <2>2, ObserveTyped DEF Observe, TypeOK
  <2>3. CASE EndObserve
    BY <2>3, ConstantsTyped DEF EndObserve, TypeOK
  <2>4. CASE \E i \in Inst : Fold(i)
    <3>1. PICK i \in Inst : Fold(i)
      BY <2>4
    <3>2. mem' \in Ledger
      BY <3>1, FoldedTyped DEF Fold, TypeOK
    <3> QED BY <3>1, <3>2 DEF Fold, TypeOK
  <2>5. CASE Sweep
    BY <2>5, SweptTyped DEF Sweep, TypeOK
  <2>6. CASE PersistBegin
    BY <2>6, EmptyTyped DEF PersistBegin, TypeOK
  <2>7. CASE PersistEnd
    <3>1. Accounted(mem) \subseteq Id /\ Intact(mem) \in File
      BY AccountedTyped DEF TypeOK, Intact, File, Kinds
    <3> QED BY <2>7, <3>1 DEF PersistEnd, TypeOK
  <2>8. CASE Rollups
    BY <2>8 DEF Rollups, TypeOK
  <2>9. CASE Crash
    BY <2>9, EmptyTyped DEF Crash, TypeOK
  <2>10. CASE \E recs \in SUBSET Inst : DropScan(recs)
    <3>1. PICK recs \in SUBSET Inst : DropScan(recs)
      BY <2>10
    <3>2. scan' \subseteq Inst /\ scanNo' \in 0 .. MaxScans
      BY <3>1, ConstantsTyped DEF DropScan, TypeOK
    <3> QED BY <3>1, <3>2 DEF DropScan, TypeOK
  <2>11. CASE Carry
    BY <2>11 DEF Carry, TypeOK
  <2>12. CASE LoseLedger
    BY <2>12, EmptyTyped DEF LoseLedger, TypeOK
  <2>13. CASE ClearOverrides
    BY <2>13 DEF ClearOverrides, TypeOK
  <2>14. CASE \E f \in Fp, what \in Rulings : WriteOverride(f, what)
    <3>1. PICK f \in Fp, what \in Rulings : WriteOverride(f, what)
      BY <2>14
    <3>2. outFile.doc.items[f].pid \in Id
      BY DEF TypeOK, File, Ledger, Item
    <3> QED BY <3>1, <3>2 DEF WriteOverride, TypeOK
  <2>15. CASE \E f \in Fp, signed \in BOOLEAN : EditClosed(f, signed)
    BY <2>15, EditTyped DEF EditClosed, TypeOK
  <2>16. CASE UNCHANGED vars
    BY <2>16 DEF vars, TypeOK
  <2> QED BY <2>1, <2>2, <2>3, <2>4, <2>5, <2>6, <2>7, <2>8, <2>9, <2>10, <2>11,
             <2>12, <2>13, <2>14, <2>15, <2>16 DEF Next, Loader, Operator
<1> QED BY <1>1, <1>2, PTL DEF Spec

-----------------------------------------------------------------------------
(* Closure.  The ledger never closes a row by itself and never loses the   *)
(* closed row a reopened one refers to.  Both are about every document at  *)
(* once, and each operator of a run keeps them on any sound document.      *)

Sound(L) == EvidencedIn(L) /\ LineageIn(L)

\* A row may stand in a document with these closed rows.
Fits(row, closed) ==
  /\ row.status = "closed" => row.evid
  /\ row.prior # NoId => row.prior \in {r.pid : r \in closed}

LEMMA SoundByRow ==
  ASSUME NEW L
  PROVE  Sound(L) <=> /\ \A f \in Fp : L.items[f].status # "absent"
                                          => Fits(L.items[f], L.closed)
                      /\ \A r \in L.closed : r.evid
BY DEF Sound, EvidencedIn, LineageIn, Present, ClosedIds, Fits

LEMMA EmptySound == Sound(EmptyLedger)
BY DEF Sound, EvidencedIn, LineageIn, Present, EmptyLedger, AbsentItem

LEMMA MigratedSound ==
  ASSUME NEW L \in Ledger, Sound(L), NEW i \in Inst, NEW found \in SUBSET Present(L),
         NEW s \in Fp, found # {} => s \in found
  PROVE  Sound(Migrated(L, i, s, found))
<1> DEFINE M == Migrated(L, i, s, found)
<1>1. CASE found \subseteq {FpOf[i]}
  BY <1>1 DEF Migrated
<1>2. CASE ~(found \subseteq {FpOf[i]})
  <2>1. s \in Present(L) /\ L.items[s] \in Item
    BY <1>2 DEF Ledger
  <2>2. /\ Merged(L, s, found).status = L.items[s].status
        /\ Merged(L, s, found).evid = L.items[s].evid
        /\ Merged(L, s, found).prior = L.items[s].prior
    BY <2>1 DEF Merged, Item
  <2>3. M.closed = L.closed
    BY <1>2 DEF Migrated, Ledger
  <2>4. \A f \in Fp : \/ M.items[f] = L.items[f]
                      \/ M.items[f] = AbsentItem
                      \/ M.items[f] = Merged(L, s, found)
    BY <1>2 DEF Migrated, Ledger
  <2>5. Fits(Merged(L, s, found), L.closed)
    BY <2>1, <2>2, SoundByRow DEF Fits, Present
  <2>6. AbsentItem.status = "absent"
    BY DEF AbsentItem
  <2> HIDE DEF M
  <2>7. Sound(M)
    BY <2>3, <2>4, <2>5, <2>6, SoundByRow
  <2> QED BY <2>7 DEF M
<1> QED BY <1>1, <1>2

LEMMA MintedSound ==
  ASSUME NEW L \in Ledger, Sound(L), NEW i \in Inst
  PROVE  Sound(Minted(L, i))
<1> DEFINE M == Minted(L, i)
           row == NewItem(AssignedId(L, FpOf[i]), i)
<1>1. M.closed = L.closed /\ \A f \in Fp : M.items[f] = L.items[f] \/ M.items[f] = row
  BY ConstantsTyped DEF Minted, Ledger
<1>2. row.status = "open" /\ row.prior = NoId
  BY DEF NewItem, AbsentItem
<1> HIDE DEF M, row
<1>3. Sound(M)
  BY <1>1, <1>2, SoundByRow DEF Fits
<1> QED BY <1>3 DEF M

LEMMA ReopenedSound ==
  ASSUME NEW L \in Ledger, Sound(L), NEW i \in Inst, NEW n,
         L.items[FpOf[i]].status = "closed"
  PROVE  Sound(Reopened(L, i, n))
<1> DEFINE M == Reopened(L, i, n)
           old == L.items[FpOf[i]]
           copy == [pid |-> old.pid, fp |-> FpOf[i], evid |-> old.evid]
           row == [NewItem(<<old.pid[1], n>>, i) EXCEPT
                     !.status = "reopened", !.prior = old.pid]
<1>1. /\ M.closed = L.closed \cup {copy}
      /\ \A f \in Fp : M.items[f] = L.items[f] \/ M.items[f] = row
  BY ConstantsTyped DEF Reopened, Ledger
<1>2. row.status = "reopened" /\ row.prior = copy.pid
  BY DEF NewItem, AbsentItem
<1>3. copy.evid
  BY SoundByRow, ConstantsTyped DEF Fits
<1> HIDE DEF M, row, copy, old
<1>4. \A f \in Fp : M.items[f].status # "absent" => Fits(M.items[f], M.closed)
  BY <1>1, <1>2, SoundByRow DEF Fits
<1>5. \A r \in M.closed : r.evid
  BY <1>1, <1>3, SoundByRow
<1>6. Sound(M)
  BY <1>4, <1>5, SoundByRow
<1> QED BY <1>6 DEF M

LEMMA RefreshedSound ==
  ASSUME NEW L \in Ledger, Sound(L), NEW i \in Inst,
         L.items[FpOf[i]].status \in Live
  PROVE  Sound(Refreshed(L, i))
<1> DEFINE M == Refreshed(L, i)
           old == L.items[FpOf[i]]
<1>1. M.closed = L.closed /\ \A f \in Fp \ {FpOf[i]} : M.items[f] = L.items[f]
  BY ConstantsTyped DEF Refreshed, Ledger
<1>2. /\ M.items[FpOf[i]].prior = old.prior
      /\ M.items[FpOf[i]].status \in {"open", old.status}
  BY ConstantsTyped DEF Refreshed, Ledger, Item
<1>3. Fits(old, L.closed)
  BY ConstantsTyped, SoundByRow DEF Live
<1>4. Fits(M.items[FpOf[i]], L.closed)
  BY <1>2, <1>3 DEF Fits, Live
<1> HIDE DEF M
<1>5. Sound(M)
  BY <1>1, <1>4, SoundByRow
<1> QED BY <1>5 DEF M

LEMMA RuledSound ==
  ASSUME NEW L \in Ledger, Sound(L), NEW f \in Fp, L.items[f].status # "absent"
  PROVE  Sound(Ruled(L, f))
<1> DEFINE M == Ruled(L, f)
           it == L.items[f]
           vd == Vendor(it)
           closing == Rules(it.pid, "close") /\ ~vd
<1>1. it \in Item /\ Fits(it, L.closed)
  BY SoundByRow DEF Ledger
<1>2. M.closed = L.closed /\ \A g \in Fp \ {f} : M.items[g] = L.items[g]
  BY DEF Ruled, Ledger
<1>3. /\ M.items[f].prior = it.prior
      /\ M.items[f].evid = (closing \/ it.evid)
      /\ M.items[f].status = IF closing THEN "closed" ELSE it.status
  BY <1>1 DEF Ruled, Ledger, Item
<1> HIDE DEF closing, M
<1>4. Fits(M.items[f], L.closed)
  BY <1>1, <1>3 DEF Fits
<1>5. Sound(M)
  BY <1>2, <1>4, SoundByRow
<1> QED BY <1>5 DEF M

LEMMA FoldedSound ==
  ASSUME NEW L \in Ledger, Sound(L), NEW i \in Inst, NEW d
  PROVE  Sound(Folded(L, i, d))
<1> DEFINE M == Folded(L, i, d)
           new == FpOf[i]
<1>1. CASE M = L
  BY <1>1
<1>2. CASE M # L
  <2>1. new \in Fp /\ new \in Present(L) /\ L.items[new] \in Item
    BY <1>2, ConstantsTyped DEF Folded, Present, Ledger
  <2>2. M.closed = L.closed /\ \A f \in Fp \ {new} :
                                  M.items[f] \in {AbsentItem, L.items[f]}
    BY <1>2 DEF Folded, Ledger
  <2>3. /\ M.items[new].status = L.items[new].status
        /\ M.items[new].evid = L.items[new].evid
        /\ M.items[new].prior = L.items[new].prior
    BY <1>2, <2>1 DEF Folded, Ledger, Item
  <2>4. Fits(M.items[new], L.closed)
    BY <2>1, <2>3, SoundByRow DEF Fits, Present
  <2>5. AbsentItem.status = "absent"
    BY DEF AbsentItem
  <2> HIDE DEF M
  <2>6. Sound(M)
    BY <2>1, <2>2, <2>4, <2>5, SoundByRow
  <2> QED BY <2>6 DEF M
<1> QED BY <1>1, <1>2

LEMMA SweptSound ==
  ASSUME NEW L \in Ledger, Sound(L)
  PROVE  Sound(Swept(L))
<1> DEFINE M == Swept(L)
<1>1. M.closed = L.closed
  BY DEF Swept, Ledger
<1>2. ASSUME NEW f \in Fp, M.items[f].status # "absent"
      PROVE  Fits(M.items[f], L.closed)
  <2>1. CASE M.items[f] = L.items[f]
    BY <1>2, <2>1, SoundByRow
  <2>2. CASE M.items[f] # L.items[f]
    <3>1. f \in LiveRows(L) /\ M.items[f] = Missed(L.items[f]) /\ L.items[f] \in Item
      BY <2>2 DEF Swept, Ledger
    <3>2. /\ M.items[f].prior = L.items[f].prior
          /\ M.items[f].status \in {"pending_verification", L.items[f].status}
      BY <3>1 DEF Missed, Item
    <3>3. Fits(L.items[f], L.closed)
      BY <3>1, SoundByRow DEF LiveRows, Live
    <3> QED BY <3>1, <3>2, <3>3 DEF Fits, LiveRows, Live
  <2> QED BY <2>1, <2>2
<1> HIDE DEF M
<1>3. Sound(M)
  BY <1>1, <1>2, SoundByRow
<1> QED BY <1>3 DEF M

LEMMA LoadedSound ==
  ASSUME NEW file \in File, Sound(file.doc)
  PROVE  Sound(Loaded(file))
<1> DEFINE M == Loaded(file)
<1>1. \/ M.items = EmptyLedger.items /\ M.closed = EmptyLedger.closed
      \/ M.items = file.doc.items /\ M.closed = file.doc.closed
  BY DEF Loaded, File, Kinds, Ledger, EmptyLedger
<1> HIDE DEF M
<1>2. Sound(M)
  BY <1>1, EmptySound, SoundByRow
<1> QED BY <1>2 DEF M

-----------------------------------------------------------------------------
(* The invariant: every document is sound, and so is the one each file     *)
(* would be read as.                                                       *)

DocumentsSound == Sound(mem) /\ Sound(inFile.doc) /\ Sound(outFile.doc)

LEMMA ObserveSound ==
  ASSUME TypeOK, DocumentsSound, NEW i \in Inst, Observe(i)
  PROVE  Sound(mem')
<1>1. /\ scanNo \in 0 .. MaxScans /\ mem \in Ledger /\ Sound(mem)
      /\ FpOf[i] \in Fp
  BY ConstantsTyped DEF TypeOK, DocumentsSound
<1> DEFINE found == Found(mem, i)
<1>2. found \subseteq Present(mem) /\ found \subseteq Fp
  BY ConstantsTyped DEF Found, Present
<1>3. PICK s \in IF found = {} THEN {FpOf[i]} ELSE Oldest(mem, found) :
        LET L == Migrated(mem, i, s, found)
            f == FpOf[i]
        IN \/ /\ L.items[f].status = "absent"
              /\ mem' = Ruled(Minted(L, i), f)
           \/ /\ L.items[f].status = "closed"
              /\ \E n \in ReopenSuffix(L, L.items[f].pid) :
                   mem' = Ruled(Reopened(L, i, n), f)
           \/ /\ L.items[f].status \in Live
              /\ mem' = Ruled(Refreshed(L, i), f)
  BY DEF Observe
<1> DEFINE L == Migrated(mem, i, s, found)
<1>4. s \in Fp /\ (found # {} => s \in found)
  BY <1>1, <1>2, <1>3 DEF Oldest
<1>5. L \in Ledger /\ Sound(L)
  BY <1>1, <1>2, <1>4, MigratedTyped, MigratedSound
<1> HIDE DEF L, found
<1>6. CASE mem' = Ruled(Minted(L, i), FpOf[i])
  <2>1. Minted(L, i) \in Ledger /\ Sound(Minted(L, i))
    BY <1>1, <1>5, MintedTyped, MintedSound
  <2>2. Minted(L, i).items[FpOf[i]].status = "open"
    BY <1>1, <1>5 DEF Minted, NewItem, AbsentItem, Ledger
  <2> QED BY <1>1, <1>6, <2>1, <2>2, RuledSound
<1>7. CASE /\ L.items[FpOf[i]].status = "closed"
           /\ \E n \in ReopenSuffix(L, L.items[FpOf[i]].pid) :
                 mem' = Ruled(Reopened(L, i, n), FpOf[i])
  <2>1. PICK n \in 1 .. MaxReopen : mem' = Ruled(Reopened(L, i, n), FpOf[i])
    BY <1>7 DEF ReopenSuffix
  <2>2. Reopened(L, i, n) \in Ledger /\ Sound(Reopened(L, i, n))
    BY <1>1, <1>5, <1>7, ReopenedTyped, ReopenedSound
  <2>3. Reopened(L, i, n).items[FpOf[i]].status = "reopened"
    BY <1>1, <1>5 DEF Reopened, NewItem, AbsentItem, Ledger
  <2> QED BY <1>1, <2>1, <2>2, <2>3, RuledSound
<1>8. CASE L.items[FpOf[i]].status \in Live /\ mem' = Ruled(Refreshed(L, i), FpOf[i])
  <2>1. Refreshed(L, i) \in Ledger /\ Sound(Refreshed(L, i))
    BY <1>1, <1>5, <1>8, RefreshedTyped, RefreshedSound
  <2>2. Refreshed(L, i).items[FpOf[i]].status \in Live
    BY <1>1, <1>5, <1>8 DEF Refreshed, Ledger, Item, Live
  <2> QED BY <1>1, <1>8, <2>1, <2>2, RuledSound DEF Live
<1> QED BY <1>3, <1>6, <1>7, <1>8 DEF L

LEMMA EditSound ==
  ASSUME TypeOK, DocumentsSound, NEW f \in Fp, NEW signed \in BOOLEAN,
         EditClosed(f, signed)
  PROVE  Sound(inFile'.doc)
<1> DEFINE D == inFile.doc
           M == inFile'.doc
           it == D.items[f]
<1>1. D \in Ledger /\ Sound(D) /\ it \in Item /\ it.status # "absent"
  BY DEF TypeOK, DocumentsSound, File, Ledger, EditClosed, LiveRows, Live
<1>2. M = [D EXCEPT !.items[f] = [it EXCEPT !.status = "closed", !.evid = TRUE]]
  BY <1>1 DEF EditClosed
<1>3. M.closed = D.closed /\ \A g \in Fp \ {f} : M.items[g] = D.items[g]
  BY <1>1, <1>2 DEF Ledger
<1>4. M.items[f].evid /\ M.items[f].prior = it.prior
  BY <1>1, <1>2 DEF Ledger, Item
<1>5. Fits(it, D.closed)
  BY <1>1, SoundByRow
<1>6. Fits(M.items[f], M.closed)
  BY <1>3, <1>4, <1>5 DEF Fits
<1> HIDE DEF M, D
<1>7. Sound(M)
  BY <1>1, <1>3, <1>6, SoundByRow
<1> QED BY <1>7 DEF M

LEMMA SoundInductive ==
  ASSUME TypeOK, DocumentsSound, [Next]_vars
  PROVE  DocumentsSound'
<1> USE DEF files, inputs, run
<1>1. CASE Load
  <2>1. Prior \in File /\ Sound(Prior.doc)
    BY DEF TypeOK, DocumentsSound, Prior
  <2> QED BY <1>1, <2>1, LoadedSound DEF Load, DocumentsSound
<1>2. CASE \E i \in Inst : Observe(i)
  BY <1>2, ObserveSound DEF Observe, DocumentsSound
<1>3. CASE \E i \in Inst : Fold(i)
  BY <1>3, FoldedSound DEF Fold, DocumentsSound, TypeOK
<1>4. CASE Sweep
  BY <1>4, SweptSound DEF Sweep, DocumentsSound, TypeOK
<1>5. CASE PersistBegin
  BY <1>5, EmptySound DEF PersistBegin, DocumentsSound, TornFile
<1>6. CASE PersistEnd
  BY <1>6 DEF PersistEnd, DocumentsSound, Intact
<1>7. CASE EndObserve \/ Rollups
  BY <1>7 DEF EndObserve, Rollups, DocumentsSound
<1>8. CASE Crash
  BY <1>8, EmptySound DEF Crash, DocumentsSound
<1>9. CASE \E recs \in SUBSET Inst : DropScan(recs)
  BY <1>9 DEF DropScan, DocumentsSound
<1>10. CASE Carry
  BY <1>10 DEF Carry, DocumentsSound
<1>11. CASE LoseLedger
  BY <1>11, EmptySound DEF LoseLedger, DocumentsSound, NoFile
<1>12. CASE ClearOverrides \/ \E f \in Fp, what \in Rulings : WriteOverride(f, what)
  BY <1>12 DEF ClearOverrides, WriteOverride, DocumentsSound
<1>13. CASE \E f \in Fp, signed \in BOOLEAN : EditClosed(f, signed)
  BY <1>13, EditSound DEF EditClosed, DocumentsSound
<1>14. CASE UNCHANGED vars
  BY <1>14 DEF vars, DocumentsSound
<1> QED BY <1>1, <1>2, <1>3, <1>4, <1>5, <1>6, <1>7, <1>8, <1>9, <1>10, <1>11,
           <1>12, <1>13, <1>14 DEF Next, Loader, Operator

LEMMA DocumentsAlwaysSound == Spec => []DocumentsSound
<1>1. Init => DocumentsSound
  BY EmptySound, SeedsSound DEF Init, DocumentsSound, NoFile, Sound
<1>2. TypeOK /\ DocumentsSound /\ [Next]_vars => DocumentsSound'
  BY SoundInductive
<1> QED BY <1>1, <1>2, TypeCorrect, PTL DEF Spec

\* The ledger "never auto-closes": whatever is scanned, lost, carried, edited
\* or cut short, every closed row of every document carries evidence.
THEOREM NeverClosesByItself == Spec => []NeverAutoCloses
<1>1. DocumentsSound => NeverAutoCloses
  BY DEF DocumentsSound, NeverAutoCloses, Documents, Sound
<1> QED BY <1>1, DocumentsAlwaysSound, PTL

\* "closed row remains on Closed": the id a reopened row was closed under is on
\* the closed list of every document the reopened row is in.
THEOREM ReopenedKeepsItsClosedRow == Spec => []LineageKept
<1>1. DocumentsSound => LineageKept
  BY DEF DocumentsSound, LineageKept, Documents, Sound
<1> QED BY <1>1, DocumentsAlwaysSound, PTL

-----------------------------------------------------------------------------
(* Losing ids.  Every operator accounts for the ids it takes off a row; a  *)
(* row that is merged away takes its aliases with it, and they are         *)
(* accounted for because fp_migrations names them.                         *)

Moved(L) == {m.pid : m \in L.moves}
AliasesMoved(L) == AliasIds(L) \subseteq Moved(L)
Keeps(L, M) == AliasesMoved(M) /\ Accounted(L) \subseteq Accounted(M) /\ M.warn = L.warn

LEMMA KeptByRow ==
  ASSUME NEW L, NEW M, AliasesMoved(L),
         \A f \in Present(L) : L.items[f].pid \in Accounted(M),
         \A f \in Present(M) : M.items[f].aliases \subseteq Moved(M),
         L.closed \subseteq M.closed, L.moves \subseteq M.moves, M.warn = L.warn
  PROVE  Keeps(L, M)
<1>1. ItemIds(L) \subseteq Accounted(M)
  BY DEF ItemIds
<1>2. ClosedIds(L) \subseteq ClosedIds(M) /\ Moved(L) \subseteq Moved(M)
  BY DEF ClosedIds, Moved
<1>3. AliasesMoved(M)
  BY DEF AliasesMoved, AliasIds
<1> QED BY <1>1, <1>2, <1>3 DEF Keeps, Accounted, UsedIds, Moved, AliasesMoved

LEMMA UnmovedKeeps ==
  ASSUME NEW L, NEW M, Unmoved(L, M), AliasesMoved(L)
  PROVE  Keeps(L, M)
<1>1. Present(M) = Present(L)
  BY DEF Unmoved, SameIds, Present
<1>2. \A f \in Present(L) : /\ M.items[f].pid = L.items[f].pid
                            /\ M.items[f].aliases = L.items[f].aliases
  BY DEF Unmoved, SameIds, Present
<1>3. ItemIds(M) = ItemIds(L) /\ AliasIds(M) = AliasIds(L)
  BY <1>1, <1>2 DEF ItemIds, AliasIds
<1> QED BY <1>3 DEF Keeps, Unmoved, SameIds, AliasesMoved, Moved, Accounted, UsedIds, ClosedIds

LEMMA MigratedKeeps ==
  ASSUME NEW L \in Ledger, AliasesMoved(L), NEW i \in Inst, NEW s \in Fp,
         Found(L, i) # {} => s \in Found(L, i)
  PROVE  Keeps(L, Migrated(L, i, s, Found(L, i)))
<1> DEFINE new == FpOf[i]
           found == Found(L, i)
           M == Migrated(L, i, s, found)
<1>1. found \subseteq Present(L) /\ (new \in Present(L) => new \in found)
  BY DEF Found
<1>2. CASE found \subseteq {new}
  BY <1>2 DEF Migrated, Keeps
<1>3. CASE ~(found \subseteq {new})
  <2> DEFINE row == Merged(L, s, found)
             moved == {[from |-> f, to |-> new, pid |-> L.items[f].pid] :
                         f \in found \ ({new} \cap {s})}
  <2>1. s \in found /\ s \in Present(L) /\ L.items[s] \in Item /\ new \in Fp
    BY <1>1, <1>3, ConstantsTyped DEF Ledger
  <2>2. /\ row.pid = L.items[s].pid /\ row.status = L.items[s].status
        /\ row.aliases \subseteq L.items[s].aliases
                                   \cup {L.items[f].pid : f \in found \ {s}}
    BY <2>1 DEF Merged, Item
  <2>3. /\ M.closed = L.closed /\ M.warn = L.warn /\ M.moves = L.moves \cup moved
        /\ M.items[new] = row
        /\ \A f \in Fp \ {new} : M.items[f] = IF f \in found THEN AbsentItem ELSE L.items[f]
    BY <1>3, <2>1 DEF Migrated, Ledger
  <2>4. ASSUME NEW f \in found, f # new \/ f # s
        PROVE  L.items[f].pid \in {m.pid : m \in moved}
    <3>1. [from |-> f, to |-> new, pid |-> L.items[f].pid] \in moved
      BY <2>4
    <3> QED BY <3>1
  <2>5. AbsentItem.status = "absent"
    BY DEF AbsentItem
  <2> HIDE DEF M, found, moved, row
  <2>6. \A f \in found : f # new \/ f # s => L.items[f].pid \in Moved(M)
    BY <2>3, <2>4 DEF Moved
  <2>7. ASSUME NEW f \in Present(L) PROVE L.items[f].pid \in Accounted(M)
    <3>1. CASE f \in found /\ (f # new \/ f # s)
      BY <2>6, <3>1 DEF Accounted, Moved
    <3>2. CASE f = new /\ f = s
      <4>1. new \in Present(M) /\ M.items[new].pid = L.items[f].pid
        BY <2>1, <2>2, <2>3, <3>2 DEF Present
      <4> QED BY <4>1 DEF Accounted, UsedIds, ItemIds
    <3>3. CASE f \notin found /\ f # new
      <4>1. f \in Present(M) /\ M.items[f].pid = L.items[f].pid
        BY <2>3, <3>3 DEF Present
      <4> QED BY <4>1 DEF Accounted, UsedIds, ItemIds
    <3> QED BY <1>1, <3>1, <3>2, <3>3
  <2>8. ASSUME NEW f \in Present(M) PROVE M.items[f].aliases \subseteq Moved(M)
    <3>1. Moved(L) \subseteq Moved(M)
      BY <2>3 DEF Moved
    <3>2. CASE f = new
      <4>1. L.items[s].aliases \subseteq Moved(L)
        BY <2>1 DEF AliasesMoved, AliasIds
      <4>2. {L.items[g].pid : g \in found \ {s}} \subseteq Moved(M)
        BY <2>6
      <4> QED BY <2>2, <2>3, <3>1, <3>2, <4>1, <4>2
    <3>3. CASE f # new
      <4>1. f \in Present(L) /\ M.items[f] = L.items[f]
        BY <2>3, <2>5, <3>3 DEF Present
      <4> QED BY <3>1, <4>1 DEF AliasesMoved, AliasIds
    <3> QED BY <3>2, <3>3
  <2>9. Keeps(L, M)
    BY <2>3, <2>7, <2>8, KeptByRow
  <2> QED BY <2>9 DEF M, found
<1> QED BY <1>2, <1>3

LEMMA MintedKeeps ==
  ASSUME NEW L \in Ledger, AliasesMoved(L), NEW i \in Inst,
         L.items[FpOf[i]].status = "absent"
  PROVE  Keeps(L, Minted(L, i))
<1> DEFINE M == Minted(L, i)
           f == FpOf[i]
<1>1. f \in Fp
  BY ConstantsTyped
<1>2. /\ M.closed = L.closed /\ M.moves = L.moves /\ M.warn = L.warn
      /\ M.items[f].aliases = {} /\ \A g \in Fp \ {f} : M.items[g] = L.items[g]
  BY <1>1 DEF Minted, NewItem, AbsentItem, Ledger
<1> HIDE DEF M
<1>3. \A g \in Present(L) : g \in Present(M) /\ M.items[g] = L.items[g]
  BY <1>2 DEF Present
<1>4. \A g \in Present(L) : L.items[g].pid \in Accounted(M)
  BY <1>3 DEF Accounted, UsedIds, ItemIds
<1>5. \A g \in Present(M) : M.items[g].aliases \subseteq Moved(M)
  BY <1>2 DEF Present, AliasesMoved, AliasIds, Moved
<1>6. Keeps(L, M)
  BY <1>2, <1>4, <1>5, KeptByRow
<1> QED BY <1>6 DEF M

LEMMA ReopenedKeeps ==
  ASSUME NEW L \in Ledger, AliasesMoved(L), NEW i \in Inst, NEW n,
         L.items[FpOf[i]].status = "closed"
  PROVE  Keeps(L, Reopened(L, i, n))
<1> DEFINE M == Reopened(L, i, n)
           f == FpOf[i]
           copy == [pid |-> L.items[f].pid, fp |-> f, evid |-> L.items[f].evid]
<1>1. f \in Fp
  BY ConstantsTyped
<1>2. /\ M.closed = L.closed \cup {copy} /\ M.moves = L.moves /\ M.warn = L.warn
      /\ M.items[f].aliases = {} /\ \A g \in Fp \ {f} : M.items[g] = L.items[g]
  BY <1>1 DEF Reopened, NewItem, AbsentItem, Ledger
<1>3. copy.pid = L.items[f].pid
  OBVIOUS
<1> HIDE DEF M, copy
<1>4. \A g \in Present(L) \ {f} : g \in Present(M) /\ M.items[g] = L.items[g]
  BY <1>2 DEF Present
<1>5. \A g \in Present(L) : L.items[g].pid \in Accounted(M)
  BY <1>2, <1>3, <1>4 DEF Accounted, UsedIds, ItemIds, ClosedIds
<1>6. \A g \in Present(M) : M.items[g].aliases \subseteq Moved(M)
  BY <1>2 DEF Present, AliasesMoved, AliasIds, Moved
<1>7. Keeps(L, M)
  BY <1>2, <1>5, <1>6, KeptByRow
<1> QED BY <1>7 DEF M

LEMMA FoldedKeeps ==
  ASSUME NEW L \in Ledger, AliasesMoved(L), NEW i \in Inst, NEW d
  PROVE  Keeps(L, Folded(L, i, d))
<1> DEFINE M == Folded(L, i, d)
           new == FpOf[i]
           away == Away(L, i)
           gone == {L.items[f].pid : f \in away}
           lost == UNION {L.items[f].aliases : f \in away}
           moved == {[from |-> f, to |-> new, pid |-> L.items[f].pid] : f \in away}
<1>1. CASE new \notin Present(L) \/ away = {}
  BY <1>1 DEF Folded, Keeps
<1>2. CASE ~(new \notin Present(L) \/ away = {})
  <2>1. /\ new \in Fp /\ new \in Present(L) /\ L.items[new] \in Item
        /\ away \subseteq Present(L) /\ new \notin away
    BY <1>2, ConstantsTyped DEF Ledger, Away, LiveRows, Live, Present
  <2>2. /\ M.closed = L.closed /\ M.warn = L.warn /\ M.moves = L.moves \cup moved
        /\ M.items[new] = [L.items[new] EXCEPT
                             !.aliases = @ \cup ((gone \cup lost) \ {L.items[new].pid}),
                             !.odd = d]
        /\ \A f \in Fp \ {new} : M.items[f] = IF f \in away THEN AbsentItem ELSE L.items[f]
    BY <1>2, <2>1 DEF Folded, Ledger
  <2>3. ASSUME NEW f \in away PROVE L.items[f].pid \in {m.pid : m \in moved}
    <3>1. [from |-> f, to |-> new, pid |-> L.items[f].pid] \in moved
      OBVIOUS
    <3> QED BY <3>1
  <2>4. AbsentItem.status = "absent"
    BY DEF AbsentItem
  <2> HIDE DEF gone, lost
  <2>5. /\ M.items[new].pid = L.items[new].pid /\ M.items[new].status = L.items[new].status
        /\ M.items[new].aliases \subseteq L.items[new].aliases \cup gone \cup lost
    BY <2>1, <2>2 DEF Item
  <2> HIDE DEF M, moved, away
  <2>6. Moved(L) \cup gone \subseteq Moved(M)
    BY <2>2, <2>3 DEF Moved, gone
  <2>7. lost \subseteq Moved(L)
    BY <2>1 DEF lost, AliasesMoved, AliasIds
  <2>8. ASSUME NEW f \in Present(L) PROVE L.items[f].pid \in Accounted(M)
    <3>1. CASE f \in away
      BY <2>6, <3>1 DEF Accounted, Moved, gone
    <3>2. CASE f \notin away
      <4>1. f \in Present(M) /\ M.items[f].pid = L.items[f].pid
        BY <2>2, <2>5, <3>2 DEF Present
      <4> QED BY <4>1 DEF Accounted, UsedIds, ItemIds
    <3> QED BY <3>1, <3>2
  <2>9. ASSUME NEW f \in Present(M) PROVE M.items[f].aliases \subseteq Moved(M)
    <3>1. CASE f = new
      BY <2>1, <2>5, <2>6, <2>7, <3>1 DEF AliasesMoved, AliasIds
    <3>2. CASE f # new
      <4>1. f \in Present(L) /\ M.items[f] = L.items[f]
        BY <2>2, <2>4, <3>2 DEF Present
      <4> QED BY <2>6, <4>1 DEF AliasesMoved, AliasIds
    <3> QED BY <3>1, <3>2
  <2>10. Keeps(L, M)
    BY <2>2, <2>8, <2>9, KeptByRow
  <2> QED BY <2>10 DEF M
<1> QED BY <1>1, <1>2

LEMMA ObserveKeeps ==
  ASSUME TypeOK, AliasesMoved(mem), NEW i \in Inst, Observe(i)
  PROVE  Keeps(mem, mem')
<1>1. scanNo \in 0 .. MaxScans /\ mem \in Ledger /\ FpOf[i] \in Fp
  BY ConstantsTyped DEF TypeOK
<1> DEFINE found == Found(mem, i)
           f == FpOf[i]
<1>2. found \subseteq Fp
  BY ConstantsTyped DEF Found, Present
<1>3. PICK s \in IF found = {} THEN {f} ELSE Oldest(mem, found) :
        LET L == Migrated(mem, i, s, found)
        IN \/ /\ L.items[f].status = "absent"
              /\ mem' = Ruled(Minted(L, i), f)
           \/ /\ L.items[f].status = "closed"
              /\ \E n \in ReopenSuffix(L, L.items[f].pid) :
                   mem' = Ruled(Reopened(L, i, n), f)
           \/ /\ L.items[f].status \in Live
              /\ mem' = Ruled(Refreshed(L, i), f)
  BY DEF Observe
<1> DEFINE L == Migrated(mem, i, s, found)
<1>4. s \in Fp /\ (found # {} => s \in found)
  BY <1>1, <1>2, <1>3 DEF Oldest
<1>5. L \in Ledger /\ Keeps(mem, L)
  BY <1>1, <1>2, <1>4, MigratedTyped, MigratedKeeps
<1> HIDE DEF L, found
<1>6. ASSUME NEW M \in Ledger, Keeps(L, M), M.items[f].status # "absent", mem' = Ruled(M, f)
      PROVE  Keeps(mem, mem')
  <2>1. Keeps(M, mem')
    BY <1>1, <1>6, RuledSame, UnmovedKeeps DEF Keeps
  <2> QED BY <1>5, <1>6, <2>1 DEF Keeps
<1>7. CASE L.items[f].status = "absent" /\ mem' = Ruled(Minted(L, i), f)
  <2>1. Minted(L, i) \in Ledger /\ Keeps(L, Minted(L, i))
    BY <1>1, <1>5, <1>7, MintedTyped, MintedKeeps DEF Keeps
  <2>2. Minted(L, i).items[f].status = "open"
    BY <1>1, <1>5 DEF Minted, NewItem, AbsentItem, Ledger
  <2> QED BY <1>6, <1>7, <2>1, <2>2
<1>8. CASE /\ L.items[f].status = "closed"
           /\ \E n \in ReopenSuffix(L, L.items[f].pid) : mem' = Ruled(Reopened(L, i, n), f)
  <2>1. PICK n \in 1 .. MaxReopen : mem' = Ruled(Reopened(L, i, n), f)
    BY <1>8 DEF ReopenSuffix
  <2>2. Reopened(L, i, n) \in Ledger /\ Keeps(L, Reopened(L, i, n))
    BY <1>1, <1>5, <1>8, ReopenedTyped, ReopenedKeeps DEF Keeps
  <2>3. Reopened(L, i, n).items[f].status = "reopened"
    BY <1>1, <1>5 DEF Reopened, NewItem, AbsentItem, Ledger
  <2> QED BY <1>6, <2>1, <2>2, <2>3
<1>9. CASE L.items[f].status \in Live /\ mem' = Ruled(Refreshed(L, i), f)
  <2>1. Refreshed(L, i) \in Ledger /\ Keeps(L, Refreshed(L, i))
    BY <1>1, <1>5, <1>9, RefreshedTyped, RefreshedSame, UnmovedKeeps DEF Keeps
  <2>2. Refreshed(L, i).items[f].status \in Live
    BY <1>1, <1>5, <1>9 DEF Refreshed, Ledger, Item, Live
  <2> QED BY <1>6, <1>9, <2>1, <2>2 DEF Live
<1> QED BY <1>3, <1>7, <1>8, <1>9 DEF L

\* Where nobody carries a ledger into in/, the one under out/ is the only one;
\* those an installation starts from name in fp_migrations what they merged.
OutIsThePrior ==
  /\ "carry" \notin Env
  /\ \A s \in Seeds : AliasesMoved(s.doc) /\ (s.kind = "missing" => s = NoFile)

Keeping ==
  /\ inFile = NoFile
  /\ AliasesMoved(mem) /\ AliasesMoved(outFile.doc)
  /\ outFile.kind = "missing" /\ ~surfaces => issued = {}
  /\ pc # "idle" /\ mem.warn = {} => issued \subseteq Accounted(mem)
  /\ NoSilentLoss

LEMMA EmptyMoved == AliasesMoved(EmptyLedger) /\ Accounted(EmptyLedger) = {}
BY DEF AliasesMoved, AliasIds, EmptyLedger, Present, AbsentItem, Accounted, UsedIds,
       ItemIds, ClosedIds

LEMMA LoadKeeps ==
  ASSUME TypeOK, Keeping, Load
  PROVE  AliasesMoved(mem') /\ (mem'.warn = {} => issued \subseteq Accounted(mem'))
<1>1. mem' = Loaded(outFile) /\ outFile \in File /\ outFile.doc \in Ledger
  BY DEF Load, Keeping, Prior, NoFile, TypeOK, File
<1>2. CASE outFile.kind = "missing"
  <2>1. mem' = [EmptyLedger EXCEPT !.warn = IF surfaces THEN {"LEDGER_LOST"} ELSE {}]
    BY <1>1, <1>2 DEF Loaded
  <2>2. mem'.warn = {} => ~surfaces
    BY <2>1 DEF EmptyLedger
  <2>3. AliasesMoved(mem')
    BY <2>1 DEF AliasesMoved, AliasIds, EmptyLedger, Present, AbsentItem
  <2> QED BY <1>2, <2>2, <2>3 DEF Keeping
<1>3. CASE outFile.kind = "torn"
  <2>1. mem' = [EmptyLedger EXCEPT !.warn = {"LEDGER_CHAIN_BROKEN"}]
    BY <1>1, <1>3 DEF Loaded
  <2> QED BY <2>1 DEF AliasesMoved, AliasIds, EmptyLedger, Present, AbsentItem
<1>4. CASE outFile.kind \in {"intact", "edited"}
  <2>1. mem'.warn = {} => outFile.kind = "intact"
    BY <1>1, <1>4 DEF Loaded, Ledger
  <2>2. /\ mem'.items = outFile.doc.items /\ mem'.closed = outFile.doc.closed
        /\ mem'.moves = outFile.doc.moves
    BY <1>1, <1>4 DEF Loaded, Ledger
  <2>3. AliasesMoved(mem') /\ Accounted(mem') = Accounted(outFile.doc)
    BY <2>2 DEF Keeping, AliasesMoved, AliasIds, Moved, Accounted, UsedIds, ItemIds,
                ClosedIds, Present
  <2> QED BY <2>1, <2>3 DEF Keeping, NoSilentLoss
<1> QED BY <1>1, <1>2, <1>3, <1>4 DEF File, Kinds

LEMMA KeepingInductive ==
  ASSUME OutIsThePrior, TypeOK, Keeping, [Next]_vars
  PROVE  Keeping'
<1> USE DEF files, inputs, run, NoSilentLoss
<1>1. CASE Load
  BY <1>1, LoadKeeps DEF Load, Keeping
<1>2. CASE \E i \in Inst : Observe(i)
  <2>1. Keeps(mem, mem')
    BY <1>2, ObserveKeeps DEF Keeping
  <2> QED BY <1>2, <2>1 DEF Observe, Keeping, Keeps
<1>3. CASE \E i \in Inst : Fold(i)
  <2>1. Keeps(mem, mem')
    BY <1>3, FoldedKeeps DEF Fold, Keeping, TypeOK
  <2> QED BY <1>3, <2>1 DEF Fold, Keeping, Keeps
<1>4. CASE Sweep
  <2>1. Keeps(mem, mem')
    BY <1>4, SweptSame, UnmovedKeeps DEF Sweep, Keeping, TypeOK
  <2> QED BY <1>4, <2>1 DEF Sweep, Keeping, Keeps
<1>5. CASE PersistBegin
  BY <1>5, EmptyMoved DEF PersistBegin, Keeping, TornFile
<1>6. CASE PersistEnd
  <2>1. issued' \subseteq Accounted(mem)
    BY <1>6 DEF PersistEnd, Keeping
  <2> QED BY <1>6, <2>1 DEF PersistEnd, Keeping, Intact
<1>7. CASE EndObserve \/ Rollups
  BY <1>7 DEF EndObserve, Rollups, Keeping
<1>8. CASE Crash
  BY <1>8, EmptyMoved DEF Crash, Keeping
<1>9. CASE \E recs \in SUBSET Inst : DropScan(recs)
  BY <1>9 DEF DropScan, Keeping
<1>10. CASE LoseLedger
  BY <1>10, EmptyMoved DEF LoseLedger, Keeping, NoFile
<1>11. CASE ClearOverrides \/ \E f \in Fp, what \in Rulings : WriteOverride(f, what)
  BY <1>11 DEF ClearOverrides, WriteOverride, Keeping
<1>12. CASE Carry \/ \E f \in Fp, signed \in BOOLEAN : EditClosed(f, signed)
  BY <1>12 DEF Carry, EditClosed, Keeping, OutIsThePrior, NoFile
<1>13. CASE UNCHANGED vars
  BY <1>13 DEF vars, Keeping
<1> QED BY <1>1, <1>2, <1>3, <1>4, <1>5, <1>6, <1>7, <1>8, <1>9, <1>10, <1>11,
           <1>12, <1>13 DEF Next, Loader, Operator

\* "persistent": whatever is merged, folded, closed, reopened, cut short or lost,
\* an id that was published is accounted for in the ledger under out/ unless a
\* document has announced the loss.
THEOREM NothingLostSilently == OutIsThePrior => (Spec => []NoSilentLoss)
<1> SUFFICES ASSUME OutIsThePrior PROVE Spec => []NoSilentLoss
  OBVIOUS
<1>1. Init => Keeping
  BY EmptyMoved DEF Init, Keeping, OutIsThePrior, NoSilentLoss, NoFile
<1>2. TypeOK /\ Keeping /\ [Next]_vars => Keeping'
  BY KeepingInductive
<1>3. Keeping => NoSilentLoss
  BY DEF Keeping
<1> QED BY <1>1, <1>2, <1>3, TypeCorrect, PTL DEF Spec

-----------------------------------------------------------------------------
(* Waiting.  A miss is counted once per scan: the document a run starts    *)
(* from was swept by earlier scans only.  That breaks where a scan runs    *)
(* twice over its own result, so a crash must find the carried ledger in   *)
(* in/, or, in the first run of all, no rows but those the scan has seen.  *)

OnceEach ==
  /\ "rerun" \notin Env
  /\ "crash" \in Env => /\ "discipline" \in Env
                        /\ \A s \in Seeds : Present(s.doc) = {}
  /\ \A s \in Seeds : \A f \in Present(s.doc) :
       LET it == s.doc.items[f]
       IN it.seen = 0 /\ it.rescans = {} /\ it.missed = 0 /\ it.status # "pending_verification"

Later(it) == {d \in it.rescans : d > it.seen}
TwoLater(it) == \E d, e \in Later(it) : d # e

\* A row as scans up to n leave it.
Waits(it, n) ==
  /\ it.seen <= n /\ \A d \in it.rescans : d <= n
  /\ it.missed >= 1 => Later(it) # {}
  /\ it.missed >= 2 \/ it.status = "pending_verification" => TwoLater(it)

WaitsIn(L, n) == \A f \in Present(L) : Waits(L.items[f], n)

\* No row the sweep may touch has met this scan.
Unswept(L) ==
  \A f \in LiveRows(L) \ SeenFps : L.items[f].seen < scanNo /\ scanNo \notin L.items[f].rescans

Scanning ==
  /\ \A L \in Documents : WaitsIn(L, scanNo)
  /\ pc \in {"observe", "fold"} => Unswept(mem) /\ todo \subseteq scan
  /\ ~loaded => inFile.kind = "missing" \/ Unswept(inFile.doc)
  /\ ~loaded /\ pc = "idle" => Unswept(Prior.doc)
  /\ "crash" \in Env /\ inFile.kind = "missing" =>
       /\ ~loaded => LiveRows(outFile.doc) \subseteq SeenFps
       /\ ~loaded /\ pc # "idle" => LiveRows(mem) \subseteq SeenFps
       /\ loaded /\ carried => LiveRows(outFile.doc) = {}

LEMMA NewWaits ==
  ASSUME scanNo \in 0 .. MaxScans, NEW it, it.seen = scanNo, it.missed = 0,
         \A d \in it.rescans : d <= scanNo, it.status # "pending_verification"
  PROVE  Waits(it, scanNo)
BY ConstantsTyped DEF Waits

LEMMA LikeWaits ==
  ASSUME NEW it, NEW jt, NEW n, Waits(it, n), jt.seen = it.seen, jt.missed = it.missed,
         jt.rescans = it.rescans,
         jt.status = "pending_verification" => it.status = "pending_verification"
  PROVE  Waits(jt, n)
BY DEF Waits, Later, TwoLater

LEMMA EmptyWaits == Present(EmptyLedger) = {} /\ LiveRows(EmptyLedger) = {}
BY DEF EmptyLedger, AbsentItem, Present, LiveRows, Live

LEMMA LiveIsPresent == \A L : LiveRows(L) \subseteq Present(L)
BY DEF LiveRows, Present, Live

\* Migration hands the row of the record one of the rows it found.
LEMMA MigratedWaits ==
  ASSUME NEW L \in Ledger, NEW i \in Inst, NEW n, WaitsIn(L, n),
         NEW found \in SUBSET Present(L), NEW s \in Fp, found # {} => s \in found
  PROVE  LET M == Migrated(L, i, s, found)
         IN /\ \A g \in Fp \ {FpOf[i]} : M.items[g] \in {L.items[g], AbsentItem}
            /\ M.items[FpOf[i]].status # "absent" => Waits(M.items[FpOf[i]], n)
<1> DEFINE M == Migrated(L, i, s, found)
           new == FpOf[i]
<1>1. new \in Fp
  BY ConstantsTyped
<1>2. CASE found \subseteq {new}
  BY <1>1, <1>2 DEF Migrated, WaitsIn, Present
<1>3. CASE ~(found \subseteq {new})
  <2>1. s \in Present(L) /\ L.items[s] \in Item /\ Waits(L.items[s], n)
    BY <1>3 DEF Ledger, WaitsIn
  <2>2. /\ M.items[new] = Merged(L, s, found)
        /\ \A g \in Fp \ {new} : M.items[g] = IF g \in found THEN AbsentItem ELSE L.items[g]
    BY <1>1, <1>3 DEF Migrated, Ledger
  <2>3. LET row == Merged(L, s, found)
        IN /\ row.seen = L.items[s].seen /\ row.missed = L.items[s].missed
           /\ row.rescans = L.items[s].rescans /\ row.status = L.items[s].status
    BY <2>1 DEF Merged, Item
  <2>4. Waits(Merged(L, s, found), n)
    BY <2>1, <2>3, LikeWaits
  <2> HIDE DEF M
  <2>5. /\ \A g \in Fp \ {new} : M.items[g] \in {L.items[g], AbsentItem}
        /\ Waits(M.items[new], n)
    BY <2>2, <2>4
  <2> QED BY <2>5 DEF M
<1> QED BY <1>2, <1>3

LEMMA MintedWaits ==
  ASSUME NEW L \in Ledger, NEW i \in Inst, scanNo \in 0 .. MaxScans
  PROVE  /\ Waits(Minted(L, i).items[FpOf[i]], scanNo)
         /\ \A g \in Fp \ {FpOf[i]} : Minted(L, i).items[g] = L.items[g]
<1> DEFINE row == Minted(L, i).items[FpOf[i]]
<1>1. /\ row.seen = scanNo /\ row.missed = 0 /\ row.rescans = {} /\ row.status = "open"
      /\ \A g \in Fp \ {FpOf[i]} : Minted(L, i).items[g] = L.items[g]
  BY ConstantsTyped DEF Minted, NewItem, AbsentItem, Ledger
<1> HIDE DEF row
<1>2. Waits(row, scanNo)
  BY <1>1, NewWaits
<1> QED BY <1>1, <1>2 DEF row

LEMMA ReopenedWaits ==
  ASSUME NEW L \in Ledger, NEW i \in Inst, NEW n, scanNo \in 0 .. MaxScans
  PROVE  /\ Waits(Reopened(L, i, n).items[FpOf[i]], scanNo)
         /\ \A g \in Fp \ {FpOf[i]} : Reopened(L, i, n).items[g] = L.items[g]
<1> DEFINE row == Reopened(L, i, n).items[FpOf[i]]
<1>1. /\ row.seen = scanNo /\ row.missed = 0 /\ row.rescans = {} /\ row.status = "reopened"
      /\ \A g \in Fp \ {FpOf[i]} : Reopened(L, i, n).items[g] = L.items[g]
  BY ConstantsTyped DEF Reopened, NewItem, AbsentItem, Ledger
<1> HIDE DEF row
<1>2. Waits(row, scanNo)
  BY <1>1, NewWaits
<1> QED BY <1>1, <1>2 DEF row

LEMMA RefreshedWaits ==
  ASSUME NEW L \in Ledger, NEW i \in Inst, scanNo \in 0 .. MaxScans,
         Waits(L.items[FpOf[i]], scanNo)
  PROVE  /\ Waits(Refreshed(L, i).items[FpOf[i]], scanNo)
         /\ \A g \in Fp \ {FpOf[i]} : Refreshed(L, i).items[g] = L.items[g]
<1> DEFINE row == Refreshed(L, i).items[FpOf[i]]
           old == L.items[FpOf[i]]
<1>1. old \in Item /\ FpOf[i] \in Fp
  BY ConstantsTyped DEF Ledger
<1>2. /\ row.seen = scanNo /\ row.missed = 0 /\ row.rescans = old.rescans
      /\ row.status # "pending_verification"
      /\ \A g \in Fp \ {FpOf[i]} : Refreshed(L, i).items[g] = L.items[g]
  BY <1>1 DEF Refreshed, Item, Ledger
<1> HIDE DEF row
<1>3. Waits(row, scanNo)
  BY <1>2, NewWaits DEF Waits
<1> QED BY <1>2, <1>3 DEF row

LEMMA RuledWaits ==
  ASSUME NEW L \in Ledger, NEW f \in Fp, NEW n, Waits(L.items[f], n)
  PROVE  /\ Waits(Ruled(L, f).items[f], n)
         /\ \A g \in Fp \ {f} : Ruled(L, f).items[g] = L.items[g]
<1> DEFINE it == L.items[f]
           vd == Vendor(it)
           closing == Rules(it.pid, "close") /\ ~vd
           row == Ruled(L, f).items[f]
<1>1. it \in Item
  BY DEF Ledger
<1>2. /\ row.seen = it.seen /\ row.missed = it.missed /\ row.rescans = it.rescans
      /\ row.status = IF closing THEN "closed" ELSE it.status
      /\ \A g \in Fp \ {f} : Ruled(L, f).items[g] = L.items[g]
  BY <1>1 DEF Ruled, Ledger, Item
<1> HIDE DEF row, closing
<1>3. Waits(row, n)
  BY <1>2, LikeWaits
<1> QED BY <1>2, <1>3 DEF row

LEMMA ObserveWaits ==
  ASSUME TypeOK, WaitsIn(mem, scanNo), NEW i \in Inst, Observe(i)
  PROVE  /\ Waits(mem'.items[FpOf[i]], scanNo)
         /\ \A g \in Fp \ {FpOf[i]} : mem'.items[g] \in {mem.items[g], AbsentItem}
<1>1. scanNo \in 0 .. MaxScans /\ mem \in Ledger /\ FpOf[i] \in Fp
  BY ConstantsTyped DEF TypeOK
<1> DEFINE found == Found(mem, i)
           f == FpOf[i]
<1>2. found \subseteq Present(mem) /\ found \subseteq Fp
  BY ConstantsTyped DEF Found, Present
<1>3. PICK s \in IF found = {} THEN {f} ELSE Oldest(mem, found) :
        LET L == Migrated(mem, i, s, found)
        IN \/ mem' = Ruled(Minted(L, i), f)
           \/ \E n \in ReopenSuffix(L, L.items[f].pid) : mem' = Ruled(Reopened(L, i, n), f)
           \/ L.items[f].status \in Live /\ mem' = Ruled(Refreshed(L, i), f)
  BY DEF Observe
<1> DEFINE L == Migrated(mem, i, s, found)
<1>4. s \in Fp /\ (found # {} => s \in found)
  BY <1>1, <1>2, <1>3 DEF Oldest
<1>5. /\ L \in Ledger /\ \A g \in Fp \ {f} : L.items[g] \in {mem.items[g], AbsentItem}
      /\ L.items[f].status # "absent" => Waits(L.items[f], scanNo)
  BY <1>1, <1>2, <1>4, MigratedTyped, MigratedWaits
<1> HIDE DEF L, found
<1>6. ASSUME NEW M \in Ledger, Waits(M.items[f], scanNo), mem' = Ruled(M, f),
             \A g \in Fp \ {f} : M.items[g] = L.items[g]
      PROVE  /\ Waits(mem'.items[f], scanNo)
             /\ \A g \in Fp \ {f} : mem'.items[g] \in {mem.items[g], AbsentItem}
  BY <1>1, <1>5, <1>6, RuledWaits
<1>7. CASE mem' = Ruled(Minted(L, i), f)
  BY <1>1, <1>5, <1>6, <1>7, MintedTyped, MintedWaits
<1>8. CASE \E n \in ReopenSuffix(L, L.items[f].pid) : mem' = Ruled(Reopened(L, i, n), f)
  BY <1>1, <1>5, <1>6, <1>8, ReopenedTyped, ReopenedWaits DEF ReopenSuffix
<1>9. CASE L.items[f].status \in Live /\ mem' = Ruled(Refreshed(L, i), f)
  BY <1>1, <1>5, <1>6, <1>9, RefreshedTyped, RefreshedWaits DEF Live
<1> QED BY <1>3, <1>7, <1>8, <1>9 DEF L

\* A fold only redates the row that stays and adds to its aliases.
LEMMA FoldWaits ==
  ASSUME NEW L \in Ledger, NEW i \in Inst, NEW d, NEW n, WaitsIn(L, n)
  PROVE  LET M == Folded(L, i, d)
         IN /\ \A g \in Fp \ {FpOf[i]} : M.items[g] \in {L.items[g], AbsentItem}
            /\ M.items[FpOf[i]].status = L.items[FpOf[i]].status
            /\ WaitsIn(M, n)
<1> DEFINE M == Folded(L, i, d)
           new == FpOf[i]
<1>1. new \in Fp /\ L.items[new] \in Item
  BY ConstantsTyped DEF Ledger
<1>2. CASE M = L
  BY <1>2
<1>3. CASE M # L
  <2>1. /\ \A g \in Fp \ {new} : M.items[g] \in {L.items[g], AbsentItem}
        /\ M.items[new].seen = L.items[new].seen /\ M.items[new].missed = L.items[new].missed
        /\ M.items[new].rescans = L.items[new].rescans
        /\ M.items[new].status = L.items[new].status
    BY <1>1, <1>3 DEF Folded, Ledger, Item
  <2>2. new \in Present(L)
    BY <1>3 DEF Folded
  <2>3. AbsentItem.status = "absent"
    BY DEF AbsentItem
  <2> HIDE DEF M
  <2>4. Waits(M.items[new], n)
    BY <2>1, <2>2, LikeWaits DEF WaitsIn
  <2>5. WaitsIn(M, n)
    BY <2>1, <2>3, <2>4 DEF WaitsIn, Present
  <2> QED BY <2>1, <2>5 DEF M
<1> QED BY <1>2, <1>3

\* The sweep counts a miss of a scan the row has not met.
LEMMA SweepWaits ==
  ASSUME NEW L \in Ledger, scanNo \in 0 .. MaxScans, WaitsIn(L, scanNo), Unswept(L)
  PROVE  WaitsIn(Swept(L), scanNo) /\ LiveRows(Swept(L)) \subseteq LiveRows(L)
<1> DEFINE M == Swept(L)
<1>1. ASSUME NEW f \in Fp, M.items[f] # L.items[f]
      PROVE  /\ M.items[f] = Missed(L.items[f]) /\ f \in LiveRows(L) \ SeenFps
  BY <1>1 DEF Swept, Ledger
<1>2. ASSUME NEW f \in LiveRows(L) \ SeenFps PROVE Waits(Missed(L.items[f]), scanNo)
  <2> DEFINE it == L.items[f]
             jt == Missed(it)
  <2>1. /\ it \in Item /\ Waits(it, scanNo) /\ it.seen < scanNo /\ scanNo \notin it.rescans
    BY <1>2, LiveIsPresent DEF Ledger, WaitsIn, Unswept, LiveRows
  <2>2. /\ it.missed \in {0, 1, 2} /\ it.seen \in Nat /\ scanNo \in Nat
    BY <2>1, ConstantsTyped DEF Item, MissesToPending, Date
  <2>3. /\ jt.seen = it.seen /\ jt.rescans = it.rescans \cup {scanNo}
        /\ jt.missed = IF it.missed < 2 THEN it.missed + 1 ELSE it.missed
        /\ jt.status = IF jt.missed >= 2 THEN "pending_verification" ELSE it.status
    BY <2>1 DEF Missed, Item, MissesToPending
  <2> HIDE DEF it, jt
  <2>4. Later(jt) = Later(it) \cup {scanNo} /\ scanNo \notin Later(it)
    BY <2>1, <2>3 DEF Later
  <2>5. Later(it) # {} => TwoLater(jt)
    BY <2>4 DEF TwoLater
  <2>6. jt.seen <= scanNo /\ \A d \in jt.rescans : d <= scanNo
    BY <2>1, <2>2, <2>3 DEF Waits
  <2>7. jt.missed >= 2 => TwoLater(jt)
    <3>1. jt.missed >= 2 => it.missed >= 1
      BY <2>2, <2>3
    <3> QED BY <2>1, <2>5, <3>1 DEF Waits
  <2>8. jt.status = "pending_verification" => TwoLater(jt)
    <3>1. CASE it.status = "pending_verification"
      BY <2>1, <2>4, <2>5, <3>1 DEF Waits, TwoLater
    <3>2. CASE it.status # "pending_verification"
      BY <2>3, <2>7, <3>2
    <3> QED BY <3>1, <3>2
  <2>9. Waits(jt, scanNo)
    BY <2>4, <2>6, <2>7, <2>8 DEF Waits
  <2> QED BY <2>9 DEF it, jt
<1>3. \A f \in Fp : M.items[f] = L.items[f] \/ f \in LiveRows(L)
  BY <1>1
<1>4. WaitsIn(M, scanNo)
  <2>1. ASSUME NEW f \in Present(M) PROVE Waits(M.items[f], scanNo)
    <3>1. CASE M.items[f] = L.items[f]
      <4>1. f \in Present(L)
        BY <3>1 DEF Present
      <4> QED BY <3>1, <4>1 DEF WaitsIn
    <3>2. CASE M.items[f] # L.items[f]
      BY <1>1, <1>2, <3>2 DEF Present
    <3> QED BY <3>1, <3>2
  <2> HIDE DEF M
  <2> QED BY <2>1 DEF WaitsIn
<1>5. LiveRows(M) \subseteq LiveRows(L)
  BY <1>3 DEF LiveRows
<1> QED BY <1>4, <1>5

LEMMA LoadedWaits ==
  ASSUME NEW file \in File, NEW n, WaitsIn(file.doc, n)
  PROVE  /\ WaitsIn(Loaded(file), n)
         /\ Unswept(file.doc) => Unswept(Loaded(file))
         /\ LiveRows(Loaded(file)) \subseteq LiveRows(file.doc)
<1> DEFINE M == Loaded(file)
<1>1. M.items = EmptyLedger.items \/ M.items = file.doc.items
  BY DEF Loaded, File, Kinds, Ledger, EmptyLedger
<1> HIDE DEF M
<1>2. CASE M.items = EmptyLedger.items
  BY <1>2, EmptyWaits DEF WaitsIn, Unswept, LiveRows, Present, M
<1>3. CASE M.items = file.doc.items
  BY <1>3 DEF WaitsIn, Unswept, LiveRows, Present, M
<1> QED BY <1>1, <1>2, <1>3

LEMMA WaitsLonger ==
  ASSUME NEW L \in Ledger, scanNo \in Nat, scanNo' = scanNo + 1, WaitsIn(L, scanNo)
  PROVE  WaitsIn(L, scanNo') /\ \A f \in LiveRows(L) : L.items[f].seen < scanNo'
                                                    /\ scanNo' \notin L.items[f].rescans
<1>1. ASSUME NEW f \in Present(L)
      PROVE  Waits(L.items[f], scanNo') /\ L.items[f].seen < scanNo'
                                        /\ scanNo' \notin L.items[f].rescans
  <2>1. /\ L.items[f].seen \in Nat /\ L.items[f].rescans \subseteq Nat
        /\ Waits(L.items[f], scanNo)
    BY DEF Present, Ledger, Item, Date, WaitsIn
  <2> QED BY <2>1 DEF Waits
<1> QED BY <1>1, LiveIsPresent DEF WaitsIn

LEMMA ScanningInductive ==
  ASSUME OnceEach, TypeOK, Scanning, [Next]_vars
  PROVE  Scanning'
<1> USE DEF files, inputs, run, Documents
<1>0. /\ mem \in Ledger /\ inFile.doc \in Ledger /\ outFile.doc \in Ledger
      /\ inFile \in File /\ outFile \in File /\ Prior \in File
      /\ scanNo \in 0 .. MaxScans /\ scanNo \in Nat
  BY ConstantsTyped DEF TypeOK, File, Prior
<1>1. CASE Load
  <2>1. /\ mem' = Loaded(Prior) /\ ~loaded /\ pc = "idle" /\ todo' = scan
        /\ UNCHANGED <<scanNo, scan, loaded, carried, inFile, outFile>>
    BY <1>1 DEF Load, OnceEach
  <2>2. WaitsIn(Prior.doc, scanNo) /\ Unswept(Prior.doc)
    BY <2>1 DEF Scanning, Prior
  <2>3. WaitsIn(mem', scanNo) /\ Unswept(mem') /\ LiveRows(mem') \subseteq LiveRows(Prior.doc)
    BY <1>0, <2>1, <2>2, LoadedWaits
  <2>4. SeenFps' = SeenFps /\ (\A L : Unswept(L)' = Unswept(L))
    BY <2>1 DEF SeenFps, Unswept
  <2>5. inFile.kind = "missing" => Prior = outFile
    BY DEF Prior
  <2> QED BY <1>1, <2>1, <2>3, <2>4, <2>5 DEF Load, Scanning, Unswept, SeenFps
<1>2. CASE \E i \in Inst : Observe(i)
  <2>1. PICK i \in Inst : Observe(i)
    BY <1>2
  <2>2. /\ i \in scan /\ FpOf[i] \in SeenFps /\ Unswept(mem) /\ WaitsIn(mem, scanNo)
        /\ pc = "observe" /\ todo' \subseteq scan
        /\ UNCHANGED <<scanNo, scan, loaded, carried, inFile, outFile, pc>>
    BY <2>1 DEF Observe, Scanning, SeenFps
  <2>3. /\ Waits(mem'.items[FpOf[i]], scanNo)
        /\ \A g \in Fp \ {FpOf[i]} : mem'.items[g] \in {mem.items[g], AbsentItem}
    BY <2>1, <2>2, ObserveWaits
  <2>4. AbsentItem.status = "absent"
    BY DEF AbsentItem
  <2>5. WaitsIn(mem', scanNo)
    BY <2>2, <2>3, <2>4 DEF WaitsIn, Present
  <2>6. \A g \in LiveRows(mem') \ SeenFps : g \in LiveRows(mem) /\ mem'.items[g] = mem.items[g]
    BY <2>2, <2>3, <2>4 DEF LiveRows, Live
  <2>7. Unswept(mem')
    BY <2>2, <2>6 DEF Unswept
  <2>8. LiveRows(mem) \subseteq SeenFps => LiveRows(mem') \subseteq SeenFps
    BY <2>6
  <2> QED BY <2>2, <2>5, <2>7, <2>8 DEF Scanning, Unswept, SeenFps, Prior
<1>3. CASE \E i \in Inst : Fold(i)
  <2>1. PICK i \in Inst : Fold(i)
    BY <1>3
  <2>2. PICK d \in FoldDates(mem, i) : mem' = Folded(mem, i, d)
    BY <2>1 DEF Fold
  <2>3. /\ i \in scan /\ FpOf[i] \in SeenFps /\ Unswept(mem) /\ WaitsIn(mem, scanNo)
        /\ pc = "fold" /\ todo' \subseteq scan
        /\ UNCHANGED <<scanNo, scan, loaded, carried, inFile, outFile, pc>>
    BY <2>1 DEF Fold, Scanning, SeenFps
  <2>4. /\ \A g \in Fp \ {FpOf[i]} : mem'.items[g] \in {mem.items[g], AbsentItem}
        /\ WaitsIn(mem', scanNo)
    BY <1>0, <2>2, <2>3, FoldWaits
  <2>5. AbsentItem.status = "absent"
    BY DEF AbsentItem
  <2>6. \A g \in LiveRows(mem') \ SeenFps : g \in LiveRows(mem) /\ mem'.items[g] = mem.items[g]
    BY <2>3, <2>4, <2>5 DEF LiveRows, Live
  <2>7. Unswept(mem') /\ (LiveRows(mem) \subseteq SeenFps => LiveRows(mem') \subseteq SeenFps)
    BY <2>3, <2>6 DEF Unswept
  <2> QED BY <2>3, <2>4, <2>7 DEF Scanning, Unswept, SeenFps, Prior
<1>4. CASE Sweep
  <2>1. /\ mem' = Swept(mem) /\ pc = "fold" /\ pc' = "persist"
        /\ UNCHANGED <<scanNo, scan, loaded, carried, inFile, outFile>>
    BY <1>4 DEF Sweep
  <2>2. WaitsIn(mem', scanNo) /\ LiveRows(mem') \subseteq LiveRows(mem)
    BY <1>0, <2>1, SweepWaits DEF Scanning
  <2> QED BY <2>1, <2>2 DEF Scanning, Unswept, SeenFps, Prior
<1>5. CASE PersistBegin
  <2>1. outFile'.doc = EmptyLedger /\ WaitsIn(EmptyLedger, scanNo)
    BY <1>5, EmptyWaits DEF PersistBegin, TornFile, WaitsIn
  <2> QED BY <1>5, <2>1, EmptyWaits DEF PersistBegin, Scanning, Unswept, SeenFps
<1>6. CASE PersistEnd
  <2>1. outFile'.doc = mem /\ ~carried' /\ (pc' = "idle" => loaded') /\ pc = "writing"
    BY <1>6 DEF PersistEnd, Intact
  <2>2. /\ pc' \notin {"observe", "fold"} /\ (~loaded' => ~loaded)
        /\ UNCHANGED <<scanNo, scan, inFile, mem>>
    BY <1>6 DEF PersistEnd
  <2> QED BY <2>1, <2>2 DEF Scanning, Unswept, SeenFps, Prior
<1>7. CASE EndObserve
  BY <1>7 DEF EndObserve, Scanning, Unswept, SeenFps, Prior
<1>8. CASE Rollups
  BY <1>8 DEF Rollups, Scanning, Unswept, SeenFps, Prior
<1>9. CASE Crash
  <2>1. /\ mem' = EmptyLedger /\ "crash" \in Env /\ pc' = "idle"
        /\ UNCHANGED <<scanNo, scan, loaded, carried, inFile, outFile>>
    BY <1>9 DEF Crash
  <2>2. WaitsIn(EmptyLedger, scanNo)
    BY EmptyWaits DEF WaitsIn
  <2>3. ~loaded => Unswept(Prior.doc)
    BY <2>1 DEF Scanning, Prior, Unswept
  <2> QED BY <2>1, <2>2, <2>3 DEF Scanning, Unswept, SeenFps, Prior
<1>10. CASE \E recs \in SUBSET Inst : DropScan(recs)
  <2>1. /\ pc = "idle" /\ pc' = "idle" /\ loaded /\ ~loaded' /\ scanNo' = scanNo + 1
        /\ "discipline" \in Env => carried
        /\ UNCHANGED <<inFile, outFile, mem, carried>>
    BY <1>10 DEF DropScan
  <2>2. \A L \in Documents : WaitsIn(L, scanNo') /\ Unswept(L)'
    BY <1>0, <2>1, WaitsLonger DEF Scanning, Unswept, LiveRows
  <2>3. "crash" \in Env /\ inFile.kind = "missing" => LiveRows(outFile.doc) = {}
    BY <2>1 DEF Scanning, OnceEach
  <2>4. inFile' = inFile /\ Prior' = Prior /\ Prior.doc \in Documents
    BY <2>1 DEF Prior
  <2>5. Unswept(inFile.doc)' /\ Unswept(Prior.doc)'
    BY <2>2, <2>4 DEF Unswept, LiveRows
  <2> QED BY <2>1, <2>2, <2>3, <2>5 DEF Scanning
<1>11. CASE Carry
  BY <1>11 DEF Carry, Scanning, Unswept, SeenFps, Prior
<1>12. CASE LoseLedger
  <2>1. /\ outFile'.doc = EmptyLedger /\ pc = "idle"
        /\ UNCHANGED <<scanNo, scan, loaded, carried, inFile, mem, pc, todo>>
    BY <1>12 DEF LoseLedger, NoFile
  <2>2. WaitsIn(EmptyLedger, scanNo) /\ Unswept(EmptyLedger)
    BY EmptyWaits DEF WaitsIn, Unswept
  <2>3. ~loaded => Unswept(Prior'.doc)
    BY <2>1, <2>2 DEF Scanning, Prior
  <2>4. SeenFps' = SeenFps /\ (\A L : Unswept(L)' = Unswept(L))
    BY <2>1 DEF SeenFps, Unswept
  <2>5. \A L \in Documents' : WaitsIn(L, scanNo)
    BY <2>1, <2>2 DEF Scanning
  <2> QED BY <2>1, <2>2, <2>3, <2>4, <2>5, EmptyWaits DEF Scanning, Unswept, Prior
<1>13. CASE ClearOverrides \/ \E f \in Fp, what \in Rulings : WriteOverride(f, what)
  BY <1>13 DEF ClearOverrides, WriteOverride, Scanning, Unswept, SeenFps, Prior
<1>14. CASE \E f \in Fp, signed \in BOOLEAN : EditClosed(f, signed)
  <2>1. PICK f \in Fp, signed \in BOOLEAN : EditClosed(f, signed)
    BY <1>14
  <2>2. /\ inFile'.doc = [inFile.doc EXCEPT !.items[f] =
                             [@ EXCEPT !.status = "closed", !.evid = TRUE]]
        /\ inFile'.kind # "missing" /\ loaded /\ pc = "idle" /\ f \in LiveRows(inFile.doc)
        /\ UNCHANGED <<scanNo, scan, loaded, carried, outFile, mem, pc, todo>>
    BY <2>1 DEF EditClosed
  <2> DEFINE row == inFile'.doc.items[f]
             it == inFile.doc.items[f]
  <2>3. /\ row.seen = it.seen /\ row.missed = it.missed /\ row.rescans = it.rescans
        /\ row.status = "closed" /\ \A g \in Fp \ {f} : inFile'.doc.items[g] = inFile.doc.items[g]
    BY <1>0, <2>2 DEF Ledger, Item
  <2>4. Waits(it, scanNo)
    BY <2>2, LiveIsPresent DEF Scanning, WaitsIn
  <2> HIDE DEF row, it
  <2>5. Waits(row, scanNo)
    BY <2>3, <2>4, LikeWaits
  <2>6. WaitsIn(inFile'.doc, scanNo)
    BY <2>3, <2>5 DEF WaitsIn, Present, Scanning, row
  <2> QED BY <2>2, <2>6 DEF Scanning, Unswept, SeenFps, Prior
<1>15. CASE UNCHANGED vars
  BY <1>15 DEF vars, Scanning, Unswept, SeenFps, Prior
<1> QED BY <1>1, <1>2, <1>3, <1>4, <1>5, <1>6, <1>7, <1>8, <1>9, <1>10, <1>11,
           <1>12, <1>13, <1>14, <1>15 DEF Next, Loader, Operator

LEMMA TwoAreTwo ==
  ASSUME NEW S, IsFiniteSet(S), NEW d \in S, NEW e \in S, d # e
  PROVE  Cardinality(S) >= 2
<1>1. IsFiniteSet({d}) /\ Cardinality({d}) = 1
  BY FS_Singleton
<1>2. Cardinality({d} \cup {e}) = 2
  BY <1>1, FS_AddElement
<1>3. {d} \cup {e} \in SUBSET S
  OBVIOUS
<1>4. Cardinality({d} \cup {e}) <= Cardinality(S)
  BY <1>3, FS_Subset
<1> QED BY <1>2, <1>4, FS_CardinalityType

\* A row waits for verification only after two scans that covered it and did not
\* see it, however rows are merged, carried, edited and runs cut short.
THEOREM TwoMissesBeforePending == OnceEach => (Spec => []PendingMeansTwoRescans)
<1> SUFFICES ASSUME OnceEach PROVE Spec => []PendingMeansTwoRescans
  OBVIOUS
<1>1. Init => Scanning
  <2> SUFFICES ASSUME Init PROVE Scanning
    OBVIOUS
  <2>1. WaitsIn(outFile.doc, 0)
    BY DEF Init, OnceEach, WaitsIn, Waits
  <2>2. WaitsIn(EmptyLedger, 0)
    BY EmptyWaits DEF WaitsIn
  <2>3. "crash" \in Env => LiveRows(outFile.doc) = {}
    BY LiveIsPresent DEF Init, OnceEach
  <2> QED BY <2>1, <2>2, <2>3 DEF Init, Scanning, Documents, NoFile
<1>2. TypeOK /\ Scanning /\ [Next]_vars => Scanning'
  BY ScanningInductive
<1>3. TypeOK /\ Scanning => PendingMeansTwoRescans
  <2> SUFFICES ASSUME TypeOK, Scanning, NEW L \in Documents, NEW f \in Present(L),
                      L.items[f].status = "pending_verification"
               PROVE  Cardinality({d \in L.items[f].rescans : d > L.items[f].seen}) >= 2
    BY DEF PendingMeansTwoRescans
  <2>1. L \in Ledger
    BY DEF TypeOK, File, Documents
  <2>2. L.items[f].rescans \subseteq 0 .. MaxScans + 1
    BY <2>1 DEF Present, Ledger, Item, Date
  <2>3. IsFiniteSet(0 .. MaxScans + 1)
    BY ConstantsTyped, FS_Interval
  <2>4. IsFiniteSet(Later(L.items[f]))
    BY <2>2, <2>3, FS_Subset DEF Later
  <2>5. TwoLater(L.items[f])
    BY DEF Scanning, WaitsIn, Waits
  <2>6. Cardinality(Later(L.items[f])) >= 2
    BY <2>4, <2>5, TwoAreTwo DEF TwoLater
  <2> QED BY <2>6 DEF Later
<1> QED BY <1>1, <1>2, <1>3, TypeCorrect, PTL DEF Spec

-----------------------------------------------------------------------------
(* Distinct ids.  Where records keep their fingerprints, every row owns    *)
(* its id, whatever collides on ten digits, is closed, comes back, is      *)
(* carried, edited, lost or cut short (IdsOwnedIn).                        *)

LEMMA SameIdsOwned ==
  ASSUME NEW L, NEW M, SameIds(L, M), IdsOwnedIn(L)
  PROVE  IdsOwnedIn(M)
<1>1. Present(M) = Present(L) /\ ClosedIds(M) = ClosedIds(L) /\ M.closed = L.closed
  BY DEF SameIds, Present, ClosedIds
<1>2. \A f \in Present(L) : /\ M.items[f].pid = L.items[f].pid
                            /\ M.items[f].aliases = L.items[f].aliases
  BY DEF SameIds, Present
<1> QED BY <1>1, <1>2 DEF IdsOwnedIn

LEMMA EmptyOwned == IdsOwnedIn(EmptyLedger)
BY DEF IdsOwnedIn, EmptyLedger, AbsentItem, Present

LEMMA ClosedIdNotOnRow ==
  ASSUME NEW L \in Ledger, IdsOwnedIn(L), NEW f \in Present(L)
  PROVE  L.items[f].pid \notin ClosedIds(L)
BY DEF IdsOwnedIn, ClosedIds

\* assign_poam_id gives a new row a core no row has.
LEMMA MintedCoreIsFree ==
  ASSUME StableKeys, NEW L \in Ledger, IdsOwnedIn(L),
         NEW f \in Fp, L.items[f].status = "absent", NEW g \in Present(L)
  PROVE  L.items[g].pid[1] # AssignedId(L, f)[1]
<1> DEFINE short == <<Short[f], 0>>
           core == L.items[g].pid[1]
<1>1. g # f /\ g \in Fp /\ core \in {Short[g], Long[g]}
  BY DEF Present, IdsOwnedIn
<1>2. CASE Holders(L, short) \subseteq {f}
  <2>1. SUFFICES ASSUME core = Short[f] PROVE FALSE
    BY <1>2 DEF AssignedId
  <2>2. short \notin ClosedIds(L)
    <3>1. SUFFICES ASSUME NEW r \in L.closed, r.pid = short PROVE FALSE
      BY DEF ClosedIds
    <3>2. r.fp \in Holders(L, short)
      BY <3>1 DEF Holders
    <3>3. r.fp \in Present(L)
      BY DEF IdsOwnedIn
    <3> QED BY <1>2, <3>2, <3>3 DEF Present
  <2>3. L.items[g].pid = short
    <3>1. L.items[g].pid \in Id
      BY <1>1 DEF Ledger, Item
    <3>2. L.items[g].pid[2] = 0
      BY <2>1, <2>2 DEF IdsOwnedIn
    <3> QED BY <2>1, <3>1, <3>2 DEF Id
  <2>4. g \in Holders(L, short)
    BY <2>2, <2>3 DEF Holders, ClosedIds
  <2> QED BY <1>1, <1>2, <2>4
<1>3. CASE ~(Holders(L, short) \subseteq {f})
  BY <1>1, <1>3 DEF AssignedId, StableKeys
<1> QED BY <1>2, <1>3

LEMMA MintedOwned ==
  ASSUME StableKeys, NEW L \in Ledger, IdsOwnedIn(L), NEW i \in Inst,
         L.items[FpOf[i]].status = "absent"
  PROVE  IdsOwnedIn(Minted(L, i))
<1> DEFINE f == FpOf[i]
           M == Minted(L, i)
           id == AssignedId(L, f)
<1>1. f \in Fp /\ f \notin Present(L)
  BY ConstantsTyped DEF Present
<1>2. id[1] \in {Short[f], Long[f]} /\ id[2] = 0
  BY DEF AssignedId
<1>3. /\ M.closed = L.closed
      /\ \A g \in Fp \ {f} : M.items[g] = L.items[g]
      /\ M.items[f].pid = id /\ M.items[f].aliases = {} /\ M.items[f].status = "open"
  BY <1>1 DEF Minted, NewItem, AbsentItem, Ledger
<1>4. \A g \in Present(L) : L.items[g].pid[1] # id[1]
  BY <1>1, MintedCoreIsFree
<1> HIDE DEF M, id
<1>5. Present(M) = Present(L) \cup {f} /\ ClosedIds(M) = ClosedIds(L)
  BY <1>1, <1>3 DEF Present, ClosedIds
<1>6. \A g \in Present(M) \ {f} : g \in Present(L) /\ M.items[g] = L.items[g]
  BY <1>3, <1>5 DEF Present
<1>7. IdsOwnedIn(M)
  <2>1. ASSUME NEW g \in Present(M)
        PROVE  /\ M.items[g].aliases = {}
               /\ M.items[g].pid[1] \in {Short[g], Long[g]}
               /\ M.items[g].pid[2] = 0 \/ <<M.items[g].pid[1], 0>> \in ClosedIds(M)
    BY <1>2, <1>3, <1>5, <1>6 DEF IdsOwnedIn
  <2>2. ASSUME NEW g \in Present(M), NEW h \in Present(M) \ {g}
        PROVE  M.items[g].pid[1] # M.items[h].pid[1]
    <3>1. CASE g # f /\ h # f
      <4>1. g \in Present(L) /\ h \in Present(L) \ {g}
        BY <1>6, <3>1
      <4>2. L.items[g].pid[1] # L.items[h].pid[1]
        BY <4>1 DEF IdsOwnedIn
      <4> QED BY <1>6, <3>1, <4>2
    <3>2. CASE g = f
      BY <1>3, <1>4, <1>6, <3>2
    <3>3. CASE h = f
      BY <1>3, <1>4, <1>6, <3>3
    <3> QED BY <3>1, <3>2, <3>3
  <2>3. ASSUME NEW r \in M.closed
        PROVE  /\ r.fp \in Present(M) /\ r.pid[1] = M.items[r.fp].pid[1]
               /\ r.pid # M.items[r.fp].pid
    BY <1>1, <1>3, <1>5, <1>6 DEF IdsOwnedIn
  <2> QED BY <2>1, <2>2, <2>3 DEF IdsOwnedIn
<1> QED BY <1>7 DEF M

\* next_reopen_id keeps the core and takes a suffix no document id has.
LEMMA ReopenedOwned ==
  ASSUME NEW L \in Ledger, IdsOwnedIn(L), NEW i \in Inst,
         L.items[FpOf[i]].status = "closed",
         NEW n \in ReopenSuffix(L, L.items[FpOf[i]].pid)
  PROVE  IdsOwnedIn(Reopened(L, i, n))
<1> DEFINE f == FpOf[i]
           M == Reopened(L, i, n)
           old == L.items[f]
           id == <<old.pid[1], n>>
           copy == [pid |-> old.pid, fp |-> f, evid |-> old.evid]
<1>1. f \in Present(L) /\ f \in Fp /\ old.pid \in Id
  BY ConstantsTyped DEF Present, Ledger, Item
<1>2. id # old.pid /\ id \notin ClosedIds(L)
  BY DEF ReopenSuffix, UsedIds
<1>3. /\ M.closed = L.closed \cup {copy}
      /\ \A g \in Fp \ {f} : M.items[g] = L.items[g]
      /\ M.items[f].pid = id /\ M.items[f].aliases = {}
      /\ M.items[f].status = "reopened"
  BY <1>1 DEF Reopened, NewItem, AbsentItem, Ledger
<1>4. id[1] = old.pid[1] /\ copy.pid = old.pid /\ copy.fp = f
  OBVIOUS
<1>5. old.pid = <<old.pid[1], old.pid[2]>>
  BY <1>1 DEF Id
<1> HIDE DEF M, id, copy, old
<1>6. Present(M) = Present(L) /\ ClosedIds(M) = ClosedIds(L) \cup {old.pid}
  BY <1>1, <1>3, <1>4 DEF Present, ClosedIds
<1>7. /\ \A g \in Present(L) : M.items[g].pid[1] = L.items[g].pid[1]
      /\ \A g \in Present(L) \ {f} : M.items[g] = L.items[g]
  BY <1>3, <1>4 DEF Present, old
<1>8. IdsOwnedIn(M)
  <2>1. ASSUME NEW g \in Present(M)
        PROVE  /\ M.items[g].aliases = {}
               /\ M.items[g].pid[1] \in {Short[g], Long[g]}
    <3>1. /\ g \in Present(L) /\ L.items[g].aliases = {}
          /\ L.items[g].pid[1] \in {Short[g], Long[g]}
      BY <1>6 DEF IdsOwnedIn
    <3>2. M.items[g].aliases = {}
      BY <1>3, <1>7, <3>1
    <3>3. M.items[g].pid[1] = L.items[g].pid[1]
      BY <1>7, <3>1
    <3> QED BY <3>1, <3>2, <3>3
  <2>2. ASSUME NEW g \in Present(M)
        PROVE  M.items[g].pid[2] = 0 \/ <<M.items[g].pid[1], 0>> \in ClosedIds(M)
    <3>1. CASE g = f
      BY <1>1, <1>3, <1>4, <1>5, <1>6, <3>1 DEF IdsOwnedIn, old
    <3>2. CASE g # f
      BY <1>6, <1>7, <3>2 DEF IdsOwnedIn
    <3> QED BY <3>1, <3>2
  <2>3. ASSUME NEW g \in Present(M), NEW h \in Present(M) \ {g}
        PROVE  M.items[g].pid[1] # M.items[h].pid[1]
    <3>1. g \in Present(L) /\ h \in Present(L) \ {g}
      BY <1>6
    <3>2. L.items[g].pid[1] # L.items[h].pid[1]
      BY <3>1 DEF IdsOwnedIn
    <3> QED BY <1>7, <3>1, <3>2
  <2>4. ASSUME NEW r \in M.closed
        PROVE  /\ r.fp \in Present(M) /\ r.pid[1] = M.items[r.fp].pid[1]
               /\ r.pid # M.items[r.fp].pid
    <3>1. CASE r = copy
      BY <1>1, <1>2, <1>3, <1>4, <1>6, <3>1
    <3>2. CASE r \in L.closed
      BY <1>2, <1>3, <1>6, <1>7, <3>2 DEF IdsOwnedIn, ClosedIds
    <3> QED BY <1>3, <3>1, <3>2
  <2> QED BY <2>1, <2>2, <2>3, <2>4 DEF IdsOwnedIn
<1> QED BY <1>8 DEF M
-----------------------------------------------------------------------------
(* The other operators leave the ids alone. *)

LEMMA RefreshedOwned ==
  ASSUME NEW L \in Ledger, IdsOwnedIn(L), NEW i \in Inst,
         L.items[FpOf[i]].status \in Live
  PROVE  IdsOwnedIn(Refreshed(L, i))
BY RefreshedSame, SameIdsOwned DEF Unmoved

LEMMA RuledOwned ==
  ASSUME NEW L \in Ledger, IdsOwnedIn(L), NEW f \in Fp, L.items[f].status # "absent"
  PROVE  IdsOwnedIn(Ruled(L, f))
BY RuledSame, SameIdsOwned DEF Unmoved

LEMMA SweptOwned ==
  ASSUME NEW L \in Ledger, IdsOwnedIn(L)
  PROVE  IdsOwnedIn(Swept(L))
BY SweptSame, SameIdsOwned DEF Unmoved

LEMMA LoadedOwned ==
  ASSUME NEW file \in File, IdsOwnedIn(file.doc)
  PROVE  IdsOwnedIn(Loaded(file))
BY LoadedSame, EmptyOwned, SameIdsOwned

\* With stable keys nothing is migrated and nothing is folded.
LEMMA NothingMoves ==
  ASSUME StableKeys, NEW L, NEW i \in Inst
  PROVE  /\ \A s : Migrated(L, i, s, Found(L, i)) = L
         /\ \A d : Folded(L, i, d) = L
<1>1. Found(L, i) \subseteq {FpOf[i]} /\ Away(L, i) = {}
  BY DEF StableKeys, Found, Away
<1> QED BY <1>1 DEF Migrated, Folded

LEMMA ObserveOwned ==
  ASSUME StableKeys, TypeOK, IdsOwnedIn(mem), NEW i \in Inst, Observe(i)
  PROVE  IdsOwnedIn(mem')
<1> DEFINE f == FpOf[i]
           L == mem
<1>1. L \in Ledger /\ f \in Fp /\ scanNo \in 0 .. MaxScans
  BY ConstantsTyped DEF TypeOK
<1>2. \/ L.items[f].status = "absent" /\ mem' = Ruled(Minted(L, i), f)
      \/ /\ L.items[f].status = "closed"
         /\ \E n \in ReopenSuffix(L, L.items[f].pid) : mem' = Ruled(Reopened(L, i, n), f)
      \/ L.items[f].status \in Live /\ mem' = Ruled(Refreshed(L, i), f)
  BY NothingMoves DEF Observe
<1>3. CASE L.items[f].status = "absent" /\ mem' = Ruled(Minted(L, i), f)
  <2>1. Minted(L, i) \in Ledger /\ IdsOwnedIn(Minted(L, i))
    BY <1>1, <1>3, MintedTyped, MintedOwned
  <2>2. Minted(L, i).items[f].status = "open"
    BY <1>1 DEF Minted, NewItem, AbsentItem, Ledger
  <2> QED BY <1>1, <1>3, <2>1, <2>2, RuledOwned
<1>4. CASE L.items[f].status = "closed" /\
           \E n \in ReopenSuffix(L, L.items[f].pid) : mem' = Ruled(Reopened(L, i, n), f)
  <2>1. PICK n \in ReopenSuffix(L, L.items[f].pid) : mem' = Ruled(Reopened(L, i, n), f)
    BY <1>4
  <2>2. Reopened(L, i, n) \in Ledger /\ IdsOwnedIn(Reopened(L, i, n))
    BY <1>1, <1>4, ReopenedTyped, ReopenedOwned DEF ReopenSuffix
  <2>3. Reopened(L, i, n).items[f].status = "reopened"
    BY <1>1 DEF Reopened, NewItem, AbsentItem, Ledger
  <2> QED BY <1>1, <2>1, <2>2, <2>3, RuledOwned
<1>5. CASE L.items[f].status \in Live /\ mem' = Ruled(Refreshed(L, i), f)
  <2>1. Refreshed(L, i) \in Ledger /\ IdsOwnedIn(Refreshed(L, i))
    BY <1>1, <1>5, RefreshedTyped, RefreshedOwned
  <2>2. Refreshed(L, i).items[f].status \in Live
    BY <1>1, <1>5 DEF Refreshed, Ledger, Item, Live
  <2> QED BY <1>1, <1>5, <2>1, <2>2, RuledOwned DEF Live
<1> QED BY <1>2, <1>3, <1>4, <1>5

LEMMA EditOwned ==
  ASSUME TypeOK, IdsOwnedIn(inFile.doc), NEW f \in Fp, NEW signed \in BOOLEAN,
         EditClosed(f, signed)
  PROVE  IdsOwnedIn(inFile'.doc)
<1> DEFINE D == inFile.doc
           M == inFile'.doc
           it == D.items[f]
<1>1. D \in Ledger /\ it \in Item /\ it.status # "absent"
  BY DEF TypeOK, File, Ledger, EditClosed, LiveRows, Live
<1>2. M = [D EXCEPT !.items[f] = [it EXCEPT !.status = "closed", !.evid = TRUE]]
  BY <1>1 DEF EditClosed
<1>3. M.closed = D.closed /\ \A g \in Fp \ {f} : M.items[g] = D.items[g]
  BY <1>1, <1>2 DEF Ledger
<1>4. /\ M.items[f].pid = it.pid /\ M.items[f].aliases = it.aliases
      /\ M.items[f].status = "closed"
  BY <1>1, <1>2 DEF Ledger, Item
<1> HIDE DEF M, D
<1>5. SameIds(D, M)
  BY <1>1, <1>3, <1>4 DEF SameIds
<1>6. IdsOwnedIn(M)
  BY <1>5, SameIdsOwned DEF D
<1> QED BY <1>6 DEF M

-----------------------------------------------------------------------------
DocumentsOwned ==
  IdsOwnedIn(mem) /\ IdsOwnedIn(inFile.doc) /\ IdsOwnedIn(outFile.doc)

LEMMA OwnedInductive ==
  ASSUME StableKeys, TypeOK, DocumentsOwned, [Next]_vars
  PROVE  DocumentsOwned'
<1> USE DEF files, inputs, run
<1>1. CASE Load
  <2>1. Prior \in File /\ IdsOwnedIn(Prior.doc)
    BY DEF TypeOK, DocumentsOwned, Prior
  <2> QED BY <1>1, <2>1, LoadedOwned DEF Load, DocumentsOwned
<1>2. CASE \E i \in Inst : Observe(i)
  BY <1>2, ObserveOwned DEF Observe, DocumentsOwned
<1>3. CASE \E i \in Inst : Fold(i)
  BY <1>3, NothingMoves DEF Fold, DocumentsOwned
<1>4. CASE Sweep
  BY <1>4, SweptOwned DEF Sweep, DocumentsOwned, TypeOK
<1>5. CASE PersistBegin
  BY <1>5, EmptyOwned DEF PersistBegin, DocumentsOwned, TornFile
<1>6. CASE PersistEnd
  BY <1>6 DEF PersistEnd, DocumentsOwned, Intact
<1>7. CASE EndObserve \/ Rollups
  BY <1>7 DEF EndObserve, Rollups, DocumentsOwned
<1>8. CASE Crash
  BY <1>8, EmptyOwned DEF Crash, DocumentsOwned
<1>9. CASE \E recs \in SUBSET Inst : DropScan(recs)
  BY <1>9 DEF DropScan, DocumentsOwned
<1>10. CASE Carry
  BY <1>10 DEF Carry, DocumentsOwned
<1>11. CASE LoseLedger
  BY <1>11, EmptyOwned DEF LoseLedger, DocumentsOwned, NoFile
<1>12. CASE ClearOverrides \/ \E f \in Fp, what \in Rulings : WriteOverride(f, what)
  BY <1>12 DEF ClearOverrides, WriteOverride, DocumentsOwned
<1>13. CASE \E f \in Fp, signed \in BOOLEAN : EditClosed(f, signed)
  BY <1>13, EditOwned DEF EditClosed, DocumentsOwned
<1>14. CASE UNCHANGED vars
  BY <1>14 DEF vars, DocumentsOwned
<1> QED BY <1>1, <1>2, <1>3, <1>4, <1>5, <1>6, <1>7, <1>8, <1>9, <1>10, <1>11,
           <1>12, <1>13, <1>14 DEF Next, Loader, Operator

LEMMA OwnedDistinct ==
  ASSUME NEW L \in Ledger, IdsOwnedIn(L)
  PROVE  DistinctIn(L)
BY ClosedIdNotOnRow DEF DistinctIn, IdsOwnedIn

\* Where records keep their fingerprints and twelve digits tell them apart, ids
\* stay distinct: no two rows share one and no closed id is given out again.
THEOREM StableIdsAreDistinct == StableKeys => (Spec => []IdsDistinct)
<1> SUFFICES ASSUME StableKeys PROVE Spec => []IdsDistinct
  OBVIOUS
<1>1. Init => DocumentsOwned
  BY EmptyOwned DEF Init, DocumentsOwned, NoFile, StableKeys
<1>2. TypeOK /\ DocumentsOwned /\ [Next]_vars => DocumentsOwned'
  BY OwnedInductive
<1>3. TypeOK /\ DocumentsOwned => IdsDistinct
  BY OwnedDistinct DEF TypeOK, File, DocumentsOwned, IdsDistinct, Documents
<1> QED BY <1>1, <1>2, <1>3, TypeCorrect, PTL DEF Spec

-----------------------------------------------------------------------------
(* The ledger implements the lifecycle of its ids.  Under stable keys and  *)
(* without a ledger in in/, a document a run writes over the one it read   *)
(* moves each id along the lifecycle.  Before the sweep only rows of this  *)
(* scan change and no id starts to wait; the sweep touches the other rows, *)
(* which are still as they were read.                                      *)

OneLedger ==
  /\ StableKeys /\ "carry" \notin Env
  /\ \A s \in Seeds : s.doc.moves = {}

Plain(L) == IdsOwnedIn(L) /\ L.moves = {}

BookIds == Core \X (0 .. MaxReopen)

\* What the records of a scan may do to an id.
Onward(a, b) ==
  CASE a = "unissued" -> b \in {"unissued", "open", "closed"}
    [] a = "open" -> b \in {"open", "closed"}
    [] a = "pending_verification" -> b \in {"pending_verification", "open", "closed"}
    [] a = "closed" -> b = "closed"
    [] OTHER -> FALSE

FollowsClosed(L, M, id) ==
  State(L, id) = "unissued" /\ State(M, id) # "unissued" /\ id[2] > 0
    => State(M, <<id[1], id[2] - 1>>) = "closed"

Advances(L, M) ==
  \A id \in BookIds : Onward(State(L, id), State(M, id)) /\ FollowsClosed(L, M, id)

Evolves(L, M) ==
  \A id \in BookIds :
    State(M, id) \in Lifecycle!Allowed(State(L, id)) /\ FollowsClosed(L, M, id)

\* Neither the document that was read nor the one in memory announces a loss.
Unbroken == outFile.kind = "intact" /\ outFile.doc.warn = {} /\ mem.warn = {}

Progress ==
  /\ inFile = NoFile
  /\ Plain(mem) /\ Plain(outFile.doc)
  /\ pc \in {"observe", "fold"} => todo \subseteq scan
  /\ pc \in {"observe", "fold"} /\ Unbroken =>
       /\ Advances(outFile.doc, mem)
       /\ \A f \in Fp \ SeenFps : mem.items[f] = outFile.doc.items[f]
  /\ pc = "persist" /\ Unbroken => Evolves(outFile.doc, mem)
  /\ pc \in {"observe", "fold", "persist"} /\ outFile.kind = "edited" => mem.warn # {}
  /\ pc = "writing" => outFile = TornFile
  /\ pc = "rollup" => outFile = Intact(mem)

LEMMA PlainAccounts ==
  ASSUME NEW L, Plain(L)
  PROVE  /\ AliasIds(L) = {} /\ Accounted(L) = ItemIds(L) \cup ClosedIds(L)
         /\ \A f, g \in Present(L) : L.items[f].pid = L.items[g].pid => f = g
         /\ \A f \in Present(L) : L.items[f].pid \notin ClosedIds(L)
<1>1. AliasIds(L) = {}
  <2> SUFFICES ASSUME NEW id \in AliasIds(L) PROVE FALSE
    OBVIOUS
  <2>1. PICK f \in Present(L) : id \in L.items[f].aliases
    BY DEF AliasIds
  <2> QED BY <2>1 DEF Plain, IdsOwnedIn
<1>2. {m.pid : m \in L.moves} = {}
  BY DEF Plain
<1>3. \A f, g \in Present(L) : L.items[f].pid = L.items[g].pid => f = g
  BY DEF Plain, IdsOwnedIn
<1>4. \A f \in Present(L) : L.items[f].pid \notin ClosedIds(L)
  BY DEF Plain, IdsOwnedIn, ClosedIds
<1>5. Accounted(L) = ItemIds(L) \cup ClosedIds(L)
  BY <1>1, <1>2 DEF Accounted, UsedIds
<1> QED BY <1>1, <1>3, <1>4, <1>5

\* The four states an id has in a plain ledger, and what they say.
LEMMA StateInPlain ==
  ASSUME NEW L \in Ledger, Plain(L), NEW id
  PROVE  /\ State(L, id) \in {"unissued", "open", "pending_verification", "closed"}
         /\ State(L, id) = "unissued" <=> id \notin ItemIds(L) \cup ClosedIds(L)
         /\ State(L, id) = "closed" <=> id \in ClosedIn(L)
<1>1. \A f \in LiveRows(L) : L.items[f].pid = id => id \notin ClosedIn(L)
  BY PlainAccounts DEF ClosedIn, LiveRows, Live, Present
<1>2. ClosedIn(L) \subseteq ItemIds(L) \cup ClosedIds(L)
  BY DEF ClosedIn, ItemIds
<1>3. (\E f \in LiveRows(L) : L.items[f].pid = id) => id \in ItemIds(L)
  BY LiveIsPresent DEF ItemIds
<1>4. \A f \in Present(L) : f \in LiveRows(L) \/ L.items[f].pid \in ClosedIn(L)
  BY DEF Present, LiveRows, Ledger, Item, Statuses, ClosedIn
<1>5. Accounted(L) = ItemIds(L) \cup ClosedIds(L) /\ ClosedIds(L) \subseteq ClosedIn(L)
  BY PlainAccounts DEF ClosedIn
<1>6. (\E f \in LiveRows(L) : L.items[f].pid = id) \/ id \in ClosedIn(L)
        \/ id \notin ItemIds(L) \cup ClosedIds(L)
  BY <1>4, <1>5 DEF ItemIds
<1> QED BY <1>1, <1>2, <1>3, <1>5, <1>6 DEF State

LEMMA StateOfRow ==
  ASSUME NEW L \in Ledger, Plain(L), NEW f \in Present(L)
  PROVE  State(L, L.items[f].pid) =
           CASE L.items[f].status = "closed" -> "closed"
             [] L.items[f].status = "pending_verification" -> "pending_verification"
             [] OTHER -> "open"
<1> DEFINE id == L.items[f].pid
<1>1. \A g \in Present(L) : L.items[g].pid = id => g = f
  BY PlainAccounts
<1>2. L.items[f].status \in Live \cup {"closed"}
  BY DEF Present, Ledger, Item, Statuses
<1>3. CASE L.items[f].status = "closed"
  <2>1. ~ \E g \in LiveRows(L) : L.items[g].pid = id
    BY <1>1, <1>3, LiveIsPresent DEF LiveRows, Live
  <2>2. id \in ClosedIn(L)
    BY <1>3 DEF ClosedIn
  <2> QED BY <1>3, <2>1, <2>2 DEF State
<1>4. CASE L.items[f].status \in Live
  <2>1. f \in LiveRows(L)
    BY <1>4 DEF LiveRows, Present
  <2>2. \A g \in LiveRows(L) : L.items[g].pid = id => g = f
    BY <1>1, LiveIsPresent
  <2> QED BY <1>4, <2>1, <2>2 DEF State, Live
<1> QED BY <1>2, <1>3, <1>4

\* Changing one row leaves the ids it had and has aside.
LEMMA StateElsewhere ==
  ASSUME NEW L \in Ledger, NEW M \in Ledger, Plain(L), Plain(M), NEW f \in Fp, NEW id,
         \A g \in Fp \ {f} : M.items[g] = L.items[g],
         id \in ClosedIds(M) <=> id \in ClosedIds(L),
         f \in Present(L) => L.items[f].pid # id, f \in Present(M) => M.items[f].pid # id
  PROVE  State(M, id) = State(L, id)
<1>1. \A g \in Fp : (g \in Present(L) /\ L.items[g].pid = id)
                      <=> (g \in Present(M) /\ M.items[g].pid = id)
  BY DEF Present
<1>2. CASE \E g \in Present(L) : L.items[g].pid = id
  <2>1. PICK g \in Present(L) : L.items[g].pid = id
    BY <1>2
  <2>2. g \in Present(M) /\ g # f /\ M.items[g] = L.items[g]
    BY <1>1, <2>1 DEF Present
  <2> QED BY <2>1, <2>2, StateOfRow
<1>3. CASE ~ \E g \in Present(L) : L.items[g].pid = id
  <2>1. ~ \E g \in Present(M) : M.items[g].pid = id
    BY <1>1, <1>3 DEF Present
  <2>2. State(L, id) = IF id \in ClosedIds(L) THEN "closed" ELSE "unissued"
    BY <1>3, StateInPlain DEF ItemIds, ClosedIn
  <2>3. State(M, id) = IF id \in ClosedIds(M) THEN "closed" ELSE "unissued"
    BY <2>1, StateInPlain DEF ItemIds, ClosedIn
  <2> QED BY <2>2, <2>3
<1> QED BY <1>2, <1>3

LEMMA OnwardTrans ==
  ASSUME NEW a, NEW b, NEW c, Onward(a, b), Onward(b, c)
  PROVE  Onward(a, c)
BY DEF Onward

LEMMA AdvancesTrans ==
  ASSUME NEW L, NEW M, NEW N, Advances(L, M), Advances(M, N)
  PROVE  Advances(L, N)
<1> SUFFICES ASSUME NEW id \in BookIds
             PROVE  Onward(State(L, id), State(N, id)) /\ FollowsClosed(L, N, id)
  BY DEF Advances
<1>1. Onward(State(L, id), State(N, id))
  BY OnwardTrans DEF Advances
<1>2. FollowsClosed(L, N, id)
  <2> SUFFICES ASSUME State(L, id) = "unissued", State(N, id) # "unissued", id[2] > 0
               PROVE  State(N, <<id[1], id[2] - 1>>) = "closed"
    BY DEF FollowsClosed
  <2> DEFINE prev == <<id[1], id[2] - 1>>
  <2>1. CASE State(M, id) = "unissued"
    BY <2>1 DEF Advances, FollowsClosed
  <2>2. CASE State(M, id) # "unissued"
    <3>1. State(M, prev) = "closed"
      BY <2>2 DEF Advances, FollowsClosed
    <3>2. prev \in BookIds
      BY ConstantsTyped DEF BookIds
    <3>3. Onward(State(M, prev), State(N, prev))
      BY <3>2 DEF Advances
    <3> QED BY <3>1, <3>3 DEF Onward
  <2> QED BY <2>1, <2>2
<1> QED BY <1>1, <1>2

LEMMA AdvancesSelf ==
  ASSUME NEW L \in Ledger, Plain(L)
  PROVE  Advances(L, L)
BY StateInPlain DEF Advances, Onward, FollowsClosed

LEMMA AdvancesByState ==
  ASSUME NEW L, NEW M,
         \A id \in BookIds : Onward(State(L, id), State(M, id)),
         \A id \in BookIds : State(L, id) = "unissued" => State(M, id) = "unissued"
  PROVE  Advances(L, M)
BY DEF Advances, FollowsClosed

LEMMA PlainUnmoved ==
  ASSUME NEW L, NEW M, Unmoved(L, M), Plain(L)
  PROVE  Plain(M)
BY SameIdsOwned DEF Plain, Unmoved

LEMMA MintedAdvances ==
  ASSUME StableKeys, NEW L \in Ledger, Plain(L), NEW i \in Inst, scanNo \in 0 .. MaxScans,
         L.items[FpOf[i]].status = "absent"
  PROVE  Plain(Minted(L, i)) /\ Advances(L, Minted(L, i))
<1> DEFINE f == FpOf[i]
           M == Minted(L, i)
           new == AssignedId(L, f)
<1>1. M \in Ledger /\ Plain(M) /\ f \in Fp /\ f \notin Present(L)
  BY MintedTyped, MintedOwned, ConstantsTyped DEF Plain, Minted, Ledger, Present
<1>2. /\ M.closed = L.closed /\ \A g \in Fp \ {f} : M.items[g] = L.items[g]
      /\ M.items[f].pid = new /\ M.items[f].status = "open"
  BY <1>1 DEF Minted, NewItem, AbsentItem, Ledger
<1>3. new[2] = 0
  BY DEF AssignedId
<1>4. ClosedIds(M) = ClosedIds(L) /\ f \in Present(M)
  BY <1>1, <1>2 DEF ClosedIds, Present
<1> HIDE DEF M, new
<1>5. \A id \in BookIds : id # new => State(M, id) = State(L, id)
  BY <1>1, <1>2, <1>4, StateElsewhere
<1>6. State(L, new) = "unissued"
  <2>1. new \notin ItemIds(L)
    BY <1>1, MintedCoreIsFree DEF ItemIds, new, Plain
  <2>2. new \notin ClosedIds(L)
    BY <1>1, <1>2, <1>4, ClosedIdNotOnRow DEF Plain
  <2> QED BY <2>1, <2>2, StateInPlain
<1>7. State(M, new) = "open"
  BY <1>1, <1>2, <1>4, StateOfRow
<1>8. ASSUME NEW id \in BookIds PROVE Onward(State(L, id), State(M, id)) /\ FollowsClosed(L, M, id)
  <2>1. CASE id = new
    BY <1>3, <1>6, <1>7, <2>1 DEF Onward, FollowsClosed
  <2>2. CASE id # new
    BY <1>5, <2>2, StateInPlain DEF Onward, FollowsClosed
  <2> QED BY <2>1, <2>2
<1>9. Advances(L, M) /\ Plain(M)
  BY <1>1, <1>8 DEF Advances
<1> QED BY <1>9 DEF M

LEMMA RefreshedAdvances ==
  ASSUME NEW L \in Ledger, Plain(L), NEW i \in Inst, scanNo \in 0 .. MaxScans,
         L.items[FpOf[i]].status \in Live
  PROVE  Plain(Refreshed(L, i)) /\ Advances(L, Refreshed(L, i))
<1> DEFINE f == FpOf[i]
           M == Refreshed(L, i)
           pid == L.items[f].pid
<1>1. M \in Ledger /\ f \in Fp /\ Unmoved(L, M)
  BY RefreshedTyped, RefreshedSame, ConstantsTyped
<1>2. /\ M.closed = L.closed /\ \A g \in Fp \ {f} : M.items[g] = L.items[g]
      /\ M.items[f].pid = pid /\ M.items[f].status \in {"open", "reopened"}
  BY <1>1 DEF Refreshed, Ledger, Item, Live
<1> HIDE DEF M
<1>3. Plain(M) /\ ClosedIds(M) = ClosedIds(L) /\ f \in Present(M) /\ f \in Present(L)
  BY <1>1, <1>2, PlainUnmoved DEF ClosedIds, Present, Live
<1>4. \A id \in BookIds : id # pid => State(M, id) = State(L, id)
  BY <1>1, <1>2, <1>3, StateElsewhere
<1>5. State(M, pid) = "open" /\ State(L, pid) \in {"open", "pending_verification"}
  BY <1>1, <1>2, <1>3, StateOfRow DEF Live
<1>6. \A id \in BookIds : Onward(State(L, id), State(M, id))
  BY <1>4, <1>5, StateInPlain DEF Onward
<1>7. \A id \in BookIds : State(L, id) = "unissued" => State(M, id) = "unissued"
  BY <1>4, <1>5
<1>8. Advances(L, M) /\ Plain(M)
  BY <1>3, <1>6, <1>7, AdvancesByState
<1> QED BY <1>8 DEF M

LEMMA RuledAdvances ==
  ASSUME NEW L \in Ledger, Plain(L), NEW f \in Present(L)
  PROVE  Plain(Ruled(L, f)) /\ Advances(L, Ruled(L, f))
<1> DEFINE M == Ruled(L, f)
           it == L.items[f]
           closing == Rules(it.pid, "close") /\ ~Vendor(it)
           pid == it.pid
<1>1. M \in Ledger /\ f \in Fp /\ Unmoved(L, M) /\ it \in Item
  BY RuledTyped, RuledSame DEF Present, Ledger
<1>2. /\ M.closed = L.closed /\ \A g \in Fp \ {f} : M.items[g] = L.items[g]
      /\ M.items[f].pid = pid
      /\ M.items[f].status = IF closing THEN "closed" ELSE it.status
  BY <1>1 DEF Ruled, Ledger, Item
<1> HIDE DEF M, closing
<1>3. Plain(M) /\ ClosedIds(M) = ClosedIds(L) /\ f \in Present(M)
  BY <1>1, <1>2, PlainUnmoved DEF ClosedIds, Present
<1>4. \A id \in BookIds : id # pid => State(M, id) = State(L, id)
  BY <1>1, <1>2, <1>3, StateElsewhere
<1>5. State(M, pid) = State(L, pid) \/ State(M, pid) = "closed"
  BY <1>1, <1>2, <1>3, StateOfRow
<1>6. State(L, pid) # "unissued"
  BY StateInPlain DEF ItemIds
<1>7. \A id \in BookIds : Onward(State(L, id), State(M, id))
  BY <1>4, <1>5, StateInPlain DEF Onward
<1>8. \A id \in BookIds : State(L, id) = "unissued" => State(M, id) = "unissued"
  BY <1>4, <1>6
<1>9. Advances(L, M) /\ Plain(M)
  BY <1>3, <1>7, <1>8, AdvancesByState
<1> QED BY <1>9 DEF M

\* -Rn comes after -R(n-1), which is closed by then.
LEMMA ReopenedAdvances ==
  ASSUME NEW L \in Ledger, Plain(L), NEW i \in Inst, scanNo \in 0 .. MaxScans,
         L.items[FpOf[i]].status = "closed",
         NEW n \in ReopenSuffix(L, L.items[FpOf[i]].pid)
  PROVE  Plain(Reopened(L, i, n)) /\ Advances(L, Reopened(L, i, n))
<1> DEFINE f == FpOf[i]
           M == Reopened(L, i, n)
           old == L.items[f].pid
           new == <<old[1], n>>
           copy == [pid |-> old, fp |-> f, evid |-> L.items[f].evid]
<1>1. /\ f \in Fp /\ f \in Present(L) /\ old \in Id /\ n \in 1 .. MaxReopen
      /\ M \in Ledger /\ Plain(M)
  <2>1. f \in Fp /\ f \in Present(L) /\ old \in Id /\ n \in 1 .. MaxReopen
    BY ConstantsTyped DEF ReopenSuffix, Ledger, Item, Present
  <2>2. M \in Ledger /\ IdsOwnedIn(M)
    BY <2>1, ReopenedTyped, ReopenedOwned DEF Plain
  <2>3. M.moves = L.moves
    BY DEF Reopened, Ledger
  <2> QED BY <2>1, <2>2, <2>3 DEF Plain
<1>2. /\ M.closed = L.closed \cup {copy} /\ \A g \in Fp \ {f} : M.items[g] = L.items[g]
      /\ M.items[f].pid = new /\ M.items[f].status = "reopened"
  BY <1>1 DEF Reopened, NewItem, AbsentItem, Ledger
<1>3. copy.pid = old /\ old = <<old[1], old[2]>> /\ old[2] \in Nat /\ n \in Nat
  BY <1>1, ConstantsTyped DEF Id
<1> HIDE DEF M, copy
<1>4. ClosedIds(M) = ClosedIds(L) \cup {old} /\ f \in Present(M)
  BY <1>1, <1>2, <1>3 DEF ClosedIds, Present
<1>5. new \notin UsedIds(L) /\ new # old
  BY DEF ReopenSuffix
<1>6. ASSUME NEW id \in BookIds, id # new, id # old PROVE State(M, id) = State(L, id)
  <2>1. id \in ClosedIds(M) <=> id \in ClosedIds(L)
    BY <1>4, <1>6
  <2> QED BY <1>1, <1>2, <1>6, <2>1, StateElsewhere
<1>7. State(L, old) = "closed" /\ State(M, old) = "closed"
  BY <1>1, <1>4, StateOfRow, StateInPlain DEF ClosedIn
<1>8. State(L, new) = "unissued" /\ State(M, new) = "open"
  BY <1>1, <1>2, <1>4, <1>5, StateOfRow, StateInPlain DEF UsedIds
<1>9. State(M, <<old[1], n - 1>>) = "closed"
  <2> DEFINE prev == <<old[1], n - 1>>
  <2>1. prev \in ClosedIds(L) \cup {old}
    <3>1. CASE n = 1
      <4>1. old[2] = 0 \/ <<old[1], 0>> \in ClosedIds(L)
        BY <1>1 DEF Plain, IdsOwnedIn
      <4> QED BY <1>3, <3>1, <4>1
    <3>2. CASE n # 1
      <4>1. n - 1 \in 1 .. n - 1
        BY <1>1, <3>2, ConstantsTyped
      <4>2. prev \in UsedIds(L) \cup {old}
        BY <4>1 DEF ReopenSuffix
      <4>3. \A g \in Present(L) : L.items[g].pid = prev => g = f
        <5> SUFFICES ASSUME NEW g \in Present(L) \ {f}, L.items[g].pid = prev PROVE FALSE
          OBVIOUS
        <5>1. L.items[g].pid[1] # old[1]
          BY <1>1 DEF Plain, IdsOwnedIn
        <5>2. prev[1] = old[1]
          OBVIOUS
        <5> QED BY <5>1, <5>2
      <4>4. prev \in ItemIds(L) => prev = old
        BY <4>3 DEF ItemIds
      <4> QED BY <1>1, <4>2, <4>4, PlainAccounts DEF UsedIds
    <3> QED BY <3>1, <3>2
  <2>2. prev \in ClosedIn(M)
    BY <1>4, <2>1 DEF ClosedIn
  <2> QED BY <1>1, <2>2, StateInPlain
<1>10. ASSUME NEW id \in BookIds
       PROVE  Onward(State(L, id), State(M, id)) /\ FollowsClosed(L, M, id)
  <2>1. CASE id = new
    <3>1. id[1] = old[1] /\ id[2] = n
      BY <2>1
    <3> QED BY <1>8, <1>9, <2>1, <3>1 DEF Onward, FollowsClosed
  <2>2. CASE id = old
    BY <1>7, <2>2 DEF Onward, FollowsClosed
  <2>3. CASE id # new /\ id # old
    BY <1>6, <2>3, StateInPlain DEF Onward, FollowsClosed
  <2> QED BY <2>1, <2>2, <2>3
<1>11. Advances(L, M) /\ Plain(M)
  BY <1>1, <1>10 DEF Advances
<1> QED BY <1>11 DEF M

LEMMA ObserveAdvances ==
  ASSUME StableKeys, TypeOK, Plain(mem), NEW i \in Inst, Observe(i)
  PROVE  /\ Plain(mem') /\ Advances(mem, mem') /\ mem'.warn = mem.warn
         /\ \A g \in Fp \ {FpOf[i]} : mem'.items[g] = mem.items[g]
<1> DEFINE f == FpOf[i]
           L == mem
<1>1. L \in Ledger /\ f \in Fp /\ scanNo \in 0 .. MaxScans
  BY ConstantsTyped DEF TypeOK
<1>2. \/ L.items[f].status = "absent" /\ mem' = Ruled(Minted(L, i), f)
      \/ /\ L.items[f].status = "closed"
         /\ \E n \in ReopenSuffix(L, L.items[f].pid) : mem' = Ruled(Reopened(L, i, n), f)
      \/ L.items[f].status \in Live /\ mem' = Ruled(Refreshed(L, i), f)
  BY NothingMoves DEF Observe
<1>3. ASSUME NEW M \in Ledger, Plain(M), Advances(L, M), M.items[f].status # "absent",
             mem' = Ruled(M, f), M.warn = L.warn,
             \A g \in Fp \ {f} : M.items[g] = L.items[g]
      PROVE  /\ Plain(mem') /\ Advances(mem, mem') /\ mem'.warn = mem.warn
             /\ \A g \in Fp \ {f} : mem'.items[g] = mem.items[g]
  <2>1. f \in Present(M)
    BY <1>1, <1>3 DEF Present
  <2>2. Plain(mem') /\ Advances(M, mem')
    BY <1>3, <2>1, RuledAdvances
  <2>3. Advances(L, mem')
    BY <1>3, <2>2, AdvancesTrans
  <2>4. mem'.warn = M.warn /\ \A g \in Fp \ {f} : mem'.items[g] = M.items[g]
    BY <1>3 DEF Ruled, Ledger
  <2> QED BY <1>3, <2>2, <2>3, <2>4
<1>4. CASE L.items[f].status = "absent" /\ mem' = Ruled(Minted(L, i), f)
  <2>1. Minted(L, i) \in Ledger /\ Plain(Minted(L, i)) /\ Advances(L, Minted(L, i))
    BY <1>1, <1>4, MintedTyped, MintedAdvances
  <2>2. /\ Minted(L, i).items[f].status = "open" /\ Minted(L, i).warn = L.warn
        /\ \A g \in Fp \ {f} : Minted(L, i).items[g] = L.items[g]
    BY <1>1 DEF Minted, NewItem, AbsentItem, Ledger
  <2> QED BY <1>3, <1>4, <2>1, <2>2
<1>5. CASE L.items[f].status = "closed" /\
           \E n \in ReopenSuffix(L, L.items[f].pid) : mem' = Ruled(Reopened(L, i, n), f)
  <2>1. PICK n \in ReopenSuffix(L, L.items[f].pid) : mem' = Ruled(Reopened(L, i, n), f)
    BY <1>5
  <2>2. /\ Reopened(L, i, n) \in Ledger /\ Plain(Reopened(L, i, n))
        /\ Advances(L, Reopened(L, i, n))
    <3>1. n \in 1 .. MaxReopen
      BY DEF ReopenSuffix
    <3> QED BY <1>1, <1>5, <3>1, ReopenedTyped, ReopenedAdvances
  <2>3. /\ Reopened(L, i, n).items[f].status = "reopened" /\ Reopened(L, i, n).warn = L.warn
        /\ \A g \in Fp \ {f} : Reopened(L, i, n).items[g] = L.items[g]
    BY <1>1 DEF Reopened, NewItem, AbsentItem, Ledger
  <2> QED BY <1>3, <2>1, <2>2, <2>3
<1>6. CASE L.items[f].status \in Live /\ mem' = Ruled(Refreshed(L, i), f)
  <2>1. Refreshed(L, i) \in Ledger /\ Plain(Refreshed(L, i)) /\ Advances(L, Refreshed(L, i))
    BY <1>1, <1>6, RefreshedTyped, RefreshedAdvances
  <2>2. /\ Refreshed(L, i).items[f].status \in Live /\ Refreshed(L, i).warn = L.warn
        /\ \A g \in Fp \ {f} : Refreshed(L, i).items[g] = L.items[g]
    BY <1>1, <1>6 DEF Refreshed, Ledger, Item, Live
  <2> QED BY <1>3, <1>6, <2>1, <2>2 DEF Live
<1> QED BY <1>2, <1>4, <1>5, <1>6

\* The sweep makes open ids of unseen rows wait; those rows are as they were read.
LEMMA SweptEvolves ==
  ASSUME NEW B \in Ledger, Plain(B), NEW L \in Ledger, Plain(L), scanNo \in 0 .. MaxScans,
         Advances(B, L), \A f \in Fp \ SeenFps : L.items[f] = B.items[f]
  PROVE  Evolves(B, Swept(L))
<1> DEFINE M == Swept(L)
<1>1. M \in Ledger /\ Unmoved(L, M) /\ Plain(M)
  BY SweptTyped, SweptSame, PlainUnmoved
<1>2. ASSUME NEW f \in Fp
      PROVE  \/ M.items[f] = L.items[f]
             \/ /\ f \in LiveRows(L) \ SeenFps /\ M.items[f].pid = L.items[f].pid
                /\ M.items[f].status \in {"pending_verification", L.items[f].status}
  <2>1. M.items[f] = L.items[f]
          \/ (f \in LiveRows(L) \ SeenFps /\ M.items[f] = Missed(L.items[f]))
    BY DEF Swept, Ledger
  <2>2. L.items[f] \in Item
    BY DEF Ledger
  <2> QED BY <2>1, <2>2 DEF Missed, Item
<1> HIDE DEF M
<1>3. /\ Present(M) = Present(L) /\ ClosedIds(M) = ClosedIds(L) /\ ItemIds(M) = ItemIds(L)
      /\ \A f \in Present(L) : M.items[f].pid = L.items[f].pid
  <2>1. Present(M) = Present(L) /\ ClosedIds(M) = ClosedIds(L)
    BY <1>1 DEF Unmoved, SameIds, Present, ClosedIds
  <2>2. \A f \in Present(L) : M.items[f].pid = L.items[f].pid
    BY <1>1 DEF Unmoved, SameIds, Present
  <2> QED BY <2>1, <2>2 DEF ItemIds
<1>4. ASSUME NEW id
      PROVE  State(M, id) = State(L, id)
             \/ (State(M, id) = "pending_verification" /\ State(L, id) # "closed"
                 /\ State(B, id) \in {"open", "pending_verification"})
  <2>1. CASE id \notin ItemIds(L)
    <3>1. \A D \in {L, M} : State(D, id) = IF id \in ClosedIds(L) THEN "closed" ELSE "unissued"
      BY <1>1, <1>3, <2>1, StateInPlain DEF ItemIds, ClosedIn
    <3> QED BY <3>1
  <2>2. CASE id \in ItemIds(L)
    <3>1. PICK f \in Present(L) : L.items[f].pid = id
      BY <2>2 DEF ItemIds
    <3>2. CASE M.items[f].status = L.items[f].status
      BY <1>1, <1>3, <3>1, <3>2, StateOfRow
    <3>3. CASE M.items[f].status # L.items[f].status
      <4>1. f \in LiveRows(L) \ SeenFps /\ M.items[f].status = "pending_verification"
        BY <1>2, <3>1, <3>3 DEF Present
      <4>2. B.items[f] = L.items[f] /\ f \in Present(B) /\ L.items[f].status \in Live
        BY <4>1 DEF LiveRows, Present, Live
      <4>3. State(M, id) = "pending_verification" /\ State(L, id) # "closed"
        BY <1>1, <1>3, <3>1, <4>1, <4>2, StateOfRow DEF Live
      <4>4. State(B, id) \in {"open", "pending_verification"}
        BY <3>1, <4>2, StateOfRow DEF Live
      <4> QED BY <4>3, <4>4
    <3> QED BY <3>2, <3>3
  <2> QED BY <2>1, <2>2
<1>5. ASSUME NEW id \in BookIds
      PROVE  State(M, id) \in Lifecycle!Allowed(State(B, id)) /\ FollowsClosed(B, M, id)
  <2>1. Onward(State(B, id), State(L, id)) /\ FollowsClosed(B, L, id)
    BY DEF Advances
  <2>2. State(M, id) \in Lifecycle!Allowed(State(B, id))
    BY <1>4, <2>1, StateInPlain DEF Onward, Lifecycle!Allowed, Lifecycle!States
  <2>3. FollowsClosed(B, M, id)
    <3>1. SUFFICES ASSUME State(B, id) = "unissued", State(M, id) # "unissued", id[2] > 0
                   PROVE  State(M, <<id[1], id[2] - 1>>) = "closed"
      BY DEF FollowsClosed
    <3>2. State(L, id) # "unissued"
      BY <1>4, <3>1
    <3>3. State(L, <<id[1], id[2] - 1>>) = "closed"
      BY <2>1, <3>1, <3>2 DEF FollowsClosed
    <3> QED BY <1>4, <3>3
  <2> QED BY <2>2, <2>3
<1>6. Evolves(B, M)
  BY <1>5 DEF Evolves
<1> QED BY <1>6 DEF M

LEMMA EmptyPlain == Plain(EmptyLedger)
BY EmptyOwned DEF Plain, EmptyLedger

LEMMA EvolvesSelf ==
  ASSUME NEW L \in Ledger, Plain(L)
  PROVE  Evolves(L, L)
BY StateInPlain DEF Evolves, FollowsClosed, Lifecycle!Allowed, Lifecycle!States

LEMMA LoadProgress ==
  ASSUME TypeOK, Progress, Load
  PROVE  /\ Plain(mem') /\ (Unbroken' => mem' = outFile.doc)
         /\ outFile.kind = "edited" => mem'.warn # {}
<1>1. mem' = Loaded(outFile) /\ outFile \in File /\ outFile.doc \in Ledger /\ outFile' = outFile
  BY DEF Load, Progress, Prior, NoFile, TypeOK, File, files
<1>2. mem'.moves = {}
  BY <1>1 DEF Loaded, File, Kinds, Ledger, EmptyLedger, Progress, Plain
<1>3. IdsOwnedIn(mem')
  BY <1>1, LoadedOwned DEF Progress, Plain
<1>4. Unbroken' => mem' = outFile.doc
  BY <1>1 DEF Unbroken, Loaded, Ledger
<1>5. outFile.kind = "edited" => mem'.warn # {}
  BY <1>1 DEF Loaded, Ledger
<1> QED BY <1>2, <1>3, <1>4, <1>5 DEF Plain

LEMMA ProgressInductive ==
  ASSUME OneLedger, TypeOK, Progress, [Next]_vars
  PROVE  Progress'
<1> USE DEF files, inputs, run
<1>0. mem \in Ledger /\ outFile.doc \in Ledger /\ scanNo \in 0 .. MaxScans
  BY DEF TypeOK, File
<1>1. CASE Load
  <2>1. Unbroken' => Advances(outFile.doc, mem')
    BY <1>0, <1>1, LoadProgress, AdvancesSelf DEF Progress
  <2> QED BY <1>1, <2>1, LoadProgress DEF Load, Progress
<1>2. CASE \E i \in Inst : Observe(i)
  <2>1. PICK i \in Inst : Observe(i)
    BY <1>2
  <2>2. /\ FpOf[i] \in SeenFps /\ pc = "observe" /\ todo' \subseteq scan
        /\ UNCHANGED <<inFile, outFile, scan, pc>>
    BY <2>1 DEF Observe, Progress, SeenFps
  <2>3. /\ Plain(mem') /\ Advances(mem, mem') /\ mem'.warn = mem.warn
        /\ \A g \in Fp \ {FpOf[i]} : mem'.items[g] = mem.items[g]
    BY <2>1, ObserveAdvances DEF Progress, OneLedger
  <2>4. SeenFps' = SeenFps /\ (Unbroken' => Unbroken)
    BY <2>2, <2>3 DEF SeenFps, Unbroken
  <2>5. Unbroken' => Advances(outFile.doc, mem')
    BY <2>2, <2>3, <2>4, AdvancesTrans DEF Progress
  <2> QED BY <2>2, <2>3, <2>4, <2>5 DEF Progress
<1>3. CASE \E i \in Inst : Fold(i)
  <2>1. mem' = mem
    BY <1>3, NothingMoves DEF Fold, OneLedger
  <2> QED BY <1>3, <2>1 DEF Fold, Progress, Unbroken, SeenFps
<1>4. CASE Sweep
  <2>1. /\ mem' = Swept(mem) /\ pc = "fold" /\ pc' = "persist"
        /\ UNCHANGED <<inFile, outFile, scan>>
    BY <1>4 DEF Sweep
  <2>2. Unmoved(mem, mem')
    BY <1>0, <2>1, SweptSame
  <2>3. Plain(mem') /\ (Unbroken' => Unbroken) /\ mem'.warn = mem.warn
    BY <2>1, <2>2, PlainUnmoved DEF Progress, Unbroken, Unmoved
  <2>4. Unbroken' => Evolves(outFile.doc, mem')
    BY <1>0, <2>1, <2>3, SweptEvolves DEF Progress
  <2> QED BY <2>1, <2>3, <2>4 DEF Progress
<1>5. CASE PersistBegin
  BY <1>5, EmptyPlain DEF PersistBegin, Progress, TornFile
<1>6. CASE PersistEnd
  BY <1>6 DEF PersistEnd, Progress, Intact
<1>7. CASE EndObserve
  BY <1>7 DEF EndObserve, Progress, Unbroken, SeenFps
<1>8. CASE Rollups
  <2>1. outFile.doc = mem /\ Evolves(mem, mem) /\ outFile.kind = "intact"
    BY <1>0, <1>8, EvolvesSelf DEF Rollups, Progress, Intact
  <2> QED BY <1>8, <2>1 DEF Rollups, Progress, Unbroken
<1>9. CASE Crash
  BY <1>9, EmptyPlain DEF Crash, Progress
<1>10. CASE \E recs \in SUBSET Inst : DropScan(recs)
  BY <1>10 DEF DropScan, Progress
<1>11. CASE LoseLedger
  BY <1>11, EmptyPlain DEF LoseLedger, Progress, NoFile
<1>12. CASE ClearOverrides \/ \E f \in Fp, what \in Rulings : WriteOverride(f, what)
  BY <1>12 DEF ClearOverrides, WriteOverride, Progress
<1>13. CASE Carry \/ \E f \in Fp, signed \in BOOLEAN : EditClosed(f, signed)
  BY <1>13 DEF Carry, EditClosed, Progress, OneLedger, NoFile
<1>14. CASE UNCHANGED vars
  BY <1>14 DEF vars, Progress, Unbroken, SeenFps
<1> QED BY <1>1, <1>2, <1>3, <1>4, <1>5, <1>6, <1>7, <1>8, <1>9, <1>10, <1>11,
           <1>12, <1>13, <1>14 DEF Next, Loader, Operator

Book == [id \in Core \X (0 .. MaxReopen) |-> State(Published, id)]

LEMMA StateTyped == \A L, id : State(L, id) \in Lifecycle!States
BY DEF State, Lifecycle!States

LEMMA BookTyped ==
  /\ Book \in [Lifecycle!Ids -> Lifecycle!States]
  /\ Announced \in BOOLEAN
BY StateTyped DEF Book, Announced, Lifecycle!Ids

\* A step that changes neither the published document nor whether it is announced
\* is a stutter.
LEMMA SamePublished ==
  ASSUME Published' = Published, (outFile'.kind = "missing") = (outFile.kind = "missing")
  PROVE  Book' = Book /\ Announced' = Announced
BY DEF Book, Announced

LEMMA BeginPublishes ==
  ASSUME TypeOK, Progress, PersistBegin, ~Announced, ~Announced'
  PROVE  Lifecycle!Publish
<1>1. Published = outFile.doc /\ Published' = mem /\ Unbroken /\ pc = "persist"
  <2>1. outFile.kind \notin {"missing", "torn"} /\ pc = "persist"
    BY DEF Announced, Published, PersistBegin, EmptyLedger
  <2>2. Published = outFile.doc /\ Published' = mem
    BY <2>1 DEF Published, PersistBegin, TornFile
  <2>3. outFile.kind \in {"intact", "edited"}
    BY <2>1 DEF TypeOK, File, Kinds
  <2>4. outFile.doc.warn = {} /\ mem.warn = {}
    BY <2>2 DEF Announced
  <2> QED BY <2>1, <2>2, <2>3, <2>4 DEF Unbroken, Progress
<1>2. Evolves(outFile.doc, mem)
  BY <1>1 DEF Progress
<1>3. ASSUME NEW id \in BookIds
      PROVE  Book[id] = State(outFile.doc, id) /\ Book'[id] = State(mem, id)
  BY <1>1 DEF Book, BookIds
<1>4. ASSUME NEW id \in Lifecycle!Ids
      PROVE  /\ Book'[id] \in Lifecycle!Allowed(Book[id])
             /\ Book[id] = "unissued" /\ Book'[id] # "unissued" /\ id[2] > 0
                  => Book'[<<id[1], id[2] - 1>>] = "closed"
  <2>1. id \in BookIds
    BY DEF Lifecycle!Ids, BookIds
  <2>2. id[2] > 0 => <<id[1], id[2] - 1>> \in BookIds
    BY <2>1, ConstantsTyped DEF BookIds
  <2> QED BY <1>2, <1>3, <2>1, <2>2 DEF Evolves, FollowsClosed
<1>5. Book' \in [Lifecycle!Ids -> Lifecycle!States] /\ Announced' \in BOOLEAN
  BY StateTyped DEF Book, Announced, Lifecycle!Ids
<1> QED BY <1>4, <1>5 DEF Lifecycle!Publish, Lifecycle!ReopensClosed, Book

LEMMA LossIsAnnounced ==
  ASSUME Announced \/ Announced'
  PROVE  Lifecycle!LoseOrRestore
<1>1. Book' \in [Lifecycle!Ids -> Lifecycle!States] /\ Announced' \in BOOLEAN
  BY StateTyped DEF Book, Announced, Lifecycle!Ids
<1> QED BY <1>1 DEF Lifecycle!LoseOrRestore, Book

LEMMA Simulates ==
  ASSUME TypeOK, Progress, [Next]_vars
  PROVE  Lifecycle!Next \/ (Book' = Book /\ Announced' = Announced)
<1> USE DEF files, inputs, run
<1>1. CASE PersistBegin
  BY <1>1, BeginPublishes, LossIsAnnounced DEF Lifecycle!Next
<1>2. CASE PersistEnd
  <2>1. Published = mem /\ Published' = mem /\ outFile.kind = "torn" /\ outFile'.kind = "intact"
    BY <1>2 DEF PersistEnd, Progress, Published, TornFile, Intact
  <2> QED BY <2>1, SamePublished
<1>3. CASE Crash /\ pc = "writing"
  <2>1. outFile'.kind = "torn" /\ pc' = "idle"
    BY <1>3 DEF Crash, Progress, TornFile
  <2>2. Announced'
    BY <2>1 DEF Announced, Published, EmptyLedger
  <2> QED BY <2>2, LossIsAnnounced DEF Lifecycle!Next
<1>4. CASE LoseLedger
  <2>1. Announced'
    BY <1>4 DEF LoseLedger, Announced, NoFile
  <2> QED BY <2>1, LossIsAnnounced DEF Lifecycle!Next
<1>5. CASE outFile' = outFile /\ (pc' = "writing" <=> pc = "writing")
           /\ (pc = "writing" => mem' = mem)
  <2>1. Published' = Published
    BY <1>5 DEF Published
  <2> QED BY <1>5, <2>1, SamePublished
<1>6. CASE Load \/ EndObserve \/ Sweep \/ Rollups \/ (\E i \in Inst : Observe(i) \/ Fold(i))
  BY <1>5, <1>6 DEF Load, EndObserve, Sweep, Rollups, Observe, Fold
<1>7. CASE Crash /\ pc # "writing"
  BY <1>5, <1>7 DEF Crash
<1>8. CASE (\E recs \in SUBSET Inst : DropScan(recs)) \/ Carry \/ ClearOverrides
  BY <1>5, <1>8 DEF DropScan, Carry, ClearOverrides
<1>9. CASE \E f \in Fp : \/ \E what \in Rulings : WriteOverride(f, what)
                         \/ \E signed \in BOOLEAN : EditClosed(f, signed)
  BY <1>5, <1>9 DEF WriteOverride, EditClosed
<1>10. CASE UNCHANGED vars
  BY <1>5, <1>10 DEF vars
<1> QED BY <1>1, <1>2, <1>3, <1>4, <1>6, <1>7, <1>8, <1>9, <1>10 DEF Next, Loader, Operator

\* The ledger implements the lifecycle of its ids: what a reader finds under out/
\* mints an id once, makes it wait and come back, closes it for good and reissues
\* it under the next -Rn only, or says that history was lost.
THEOREM ImplementsLifecycle == OneLedger => (Spec => Implements)
<1> SUFFICES ASSUME OneLedger PROVE Spec => Implements
  OBVIOUS
<1>1. Init => Lifecycle!TypeOK
  BY BookTyped DEF Lifecycle!TypeOK, Book
<1>2. Init => Progress
  BY EmptyPlain DEF Init, Progress, OneLedger, StableKeys, Plain, NoFile
<1>3. TypeOK /\ Progress /\ [Next]_vars => Progress'
  BY ProgressInductive
<1>4. TypeOK /\ Progress /\ [Next]_vars => [Lifecycle!Next]_<<Book, Announced>>
  BY Simulates
<1> QED BY <1>1, <1>2, <1>3, <1>4, TypeCorrect, PTL
        DEF Spec, Implements, Lifecycle!Spec, Book

-----------------------------------------------------------------------------
(* Detection dates.  Under the same assumptions a row keeps its core, and  *)
(* as long as it keeps its id its date does not move later; an id it gave  *)
(* up is closed and never on a row again.                                  *)

Dated(L, M) ==
  /\ L.closed \subseteq M.closed
  /\ \A f \in Present(L) :
       /\ f \in Present(M) /\ M.items[f].pid[1] = L.items[f].pid[1]
       /\ IF M.items[f].pid = L.items[f].pid THEN M.items[f].odd <= L.items[f].odd
                                             ELSE L.items[f].pid \in ClosedIds(M)

Dating ==
  /\ outFile.kind = "missing" => outFile.doc = EmptyLedger
  /\ pc \in {"observe", "fold", "persist"} /\ outFile.kind = "intact" /\ mem.warn = {} =>
       Dated(outFile.doc, mem)

LEMMA OddIsNat == \A L \in Ledger : \A f \in Fp : L.items[f].odd \in Nat
BY ConstantsTyped DEF Ledger, Item, Date

LEMMA DatedTrans ==
  ASSUME NEW L \in Ledger, NEW M \in Ledger, NEW N \in Ledger, Plain(N),
         Dated(L, M), Dated(M, N)
  PROVE  Dated(L, N)
<1>1. L.closed \subseteq N.closed /\ ClosedIds(M) \subseteq ClosedIds(N)
  BY DEF Dated, ClosedIds
<1>2. ASSUME NEW f \in Present(L)
      PROVE  /\ f \in Present(N) /\ N.items[f].pid[1] = L.items[f].pid[1]
             /\ IF N.items[f].pid = L.items[f].pid THEN N.items[f].odd <= L.items[f].odd
                                                   ELSE L.items[f].pid \in ClosedIds(N)
  <2>1. f \in Present(M) /\ f \in Present(N) /\ f \in Fp
    BY DEF Dated, Present
  <2>2. N.items[f].pid[1] = L.items[f].pid[1]
    BY <2>1 DEF Dated
  <2>3. N.items[f].pid \notin ClosedIds(N)
    BY <2>1, PlainAccounts
  <2>4. /\ L.items[f].odd \in Nat /\ M.items[f].odd \in Nat /\ N.items[f].odd \in Nat
    BY <2>1, OddIsNat
  <2>5. CASE M.items[f].pid = L.items[f].pid
    BY <1>1, <2>1, <2>4, <2>5 DEF Dated
  <2>6. CASE M.items[f].pid # L.items[f].pid
    BY <1>1, <2>1, <2>3, <2>6 DEF Dated
  <2> QED BY <2>1, <2>2, <2>5, <2>6
<1> QED BY <1>1, <1>2 DEF Dated

LEMMA DatedSelf ==
  ASSUME NEW L \in Ledger
  PROVE  Dated(L, L)
BY OddIsNat DEF Dated, Present

\* Only the row of f changes, and it keeps its id with a date no later.
LEMMA DatedRow ==
  ASSUME NEW L \in Ledger, NEW M \in Ledger, L.closed \subseteq M.closed, NEW f \in Fp,
         \A g \in Fp \ {f} : M.items[g] = L.items[g],
         f \in Present(L) => /\ f \in Present(M) /\ M.items[f].pid[1] = L.items[f].pid[1]
                             /\ IF M.items[f].pid = L.items[f].pid
                                  THEN M.items[f].odd <= L.items[f].odd
                                  ELSE L.items[f].pid \in ClosedIds(M)
  PROVE  Dated(L, M)
BY OddIsNat DEF Dated, Present

LEMMA MintedDated ==
  ASSUME NEW L \in Ledger, NEW i \in Inst, scanNo \in 0 .. MaxScans,
         L.items[FpOf[i]].status = "absent"
  PROVE  Dated(L, Minted(L, i))
<1>1. /\ Minted(L, i) \in Ledger /\ FpOf[i] \in Fp /\ FpOf[i] \notin Present(L)
      /\ Minted(L, i).closed = L.closed
      /\ \A g \in Fp \ {FpOf[i]} : Minted(L, i).items[g] = L.items[g]
  BY MintedTyped, ConstantsTyped DEF Minted, Ledger, Present
<1> QED BY <1>1, DatedRow

LEMMA ReopenedDated ==
  ASSUME NEW L \in Ledger, NEW i \in Inst, scanNo \in 0 .. MaxScans,
         L.items[FpOf[i]].status = "closed", NEW n \in 1 .. MaxReopen,
         n \in ReopenSuffix(L, L.items[FpOf[i]].pid)
  PROVE  Dated(L, Reopened(L, i, n))
<1> DEFINE f == FpOf[i]
           M == Reopened(L, i, n)
           old == L.items[f].pid
           copy == [pid |-> old, fp |-> f, evid |-> L.items[f].evid]
<1>1. M \in Ledger /\ f \in Fp
  BY ReopenedTyped, ConstantsTyped
<1>2. /\ M.closed = L.closed \cup {copy} /\ \A g \in Fp \ {f} : M.items[g] = L.items[g]
      /\ M.items[f].pid = <<old[1], n>> /\ M.items[f].status = "reopened"
  BY <1>1 DEF Reopened, NewItem, AbsentItem, Ledger
<1>3. <<old[1], n>> # old /\ copy.pid = old
  BY DEF ReopenSuffix
<1> HIDE DEF M, copy
<1>4. f \in Present(M) /\ old \in ClosedIds(M)
  BY <1>1, <1>2, <1>3 DEF Present, ClosedIds
<1>5. M.items[f].pid[1] = old[1]
  BY <1>2
<1>6. Dated(L, M)
  BY <1>1, <1>2, <1>3, <1>4, <1>5, DatedRow
<1> QED BY <1>6 DEF M

LEMMA RefreshedDated ==
  ASSUME NEW L \in Ledger, NEW i \in Inst, scanNo \in 0 .. MaxScans,
         L.items[FpOf[i]].status \in Live
  PROVE  Dated(L, Refreshed(L, i))
<1> DEFINE f == FpOf[i]
           M == Refreshed(L, i)
           old == L.items[f]
<1>1. M \in Ledger /\ f \in Fp /\ old \in Item
  BY RefreshedTyped, ConstantsTyped DEF Ledger
<1>2. /\ M.closed = L.closed /\ \A g \in Fp \ {f} : M.items[g] = L.items[g]
      /\ M.items[f].pid = old.pid /\ M.items[f].status \in Live
      /\ M.items[f].odd = IF old.odd = NotRecorded THEN Detected(i) ELSE old.odd
  BY <1>1 DEF Refreshed, Ledger, Item, Live
<1>3. Detected(i) <= NotRecorded /\ old.odd \in Nat
  BY <1>1, ConstantsTyped DEF Detected, NotRecorded, Item, Date
<1>4. M.items[f].odd <= old.odd
  BY <1>2, <1>3
<1> HIDE DEF M
<1>5. f \in Present(M)
  BY <1>1, <1>2 DEF Present, Live
<1>6. Dated(L, M)
  BY <1>1, <1>2, <1>4, <1>5, DatedRow
<1> QED BY <1>6 DEF M

LEMMA RuledDated ==
  ASSUME NEW L \in Ledger, NEW f \in Present(L)
  PROVE  Dated(L, Ruled(L, f))
<1> DEFINE M == Ruled(L, f)
           it == L.items[f]
           closing == Rules(it.pid, "close") /\ ~Vendor(it)
<1>1. M \in Ledger /\ f \in Fp /\ it \in Item /\ it.odd \in Nat
  BY RuledTyped, OddIsNat DEF Present, Ledger
<1>2. /\ M.closed = L.closed /\ \A g \in Fp \ {f} : M.items[g] = L.items[g]
      /\ M.items[f].pid = it.pid /\ M.items[f].odd = it.odd
      /\ M.items[f].status = IF closing THEN "closed" ELSE it.status
  BY <1>1 DEF Ruled, Ledger, Item
<1> HIDE DEF M, closing
<1>3. f \in Present(M)
  BY <1>1, <1>2 DEF Present
<1>4. Dated(L, M)
  BY <1>1, <1>2, <1>3, DatedRow
<1> QED BY <1>4 DEF M

LEMMA SweptDated ==
  ASSUME NEW L \in Ledger, scanNo \in 0 .. MaxScans
  PROVE  Dated(L, Swept(L))
<1> DEFINE M == Swept(L)
<1>1. M \in Ledger /\ Unmoved(L, M)
  BY SweptTyped, SweptSame
<1>2. ASSUME NEW f \in Fp PROVE M.items[f].odd = L.items[f].odd
  <2>1. L.items[f] \in Item /\ M.items[f] \in {L.items[f], Missed(L.items[f])}
    BY DEF Swept, Ledger
  <2> QED BY <2>1 DEF Missed, Item
<1> HIDE DEF M
<1>3. Dated(L, M)
  BY <1>1, <1>2, OddIsNat DEF Dated, Unmoved, SameIds, Present
<1> QED BY <1>3 DEF M

LEMMA ObserveDated ==
  ASSUME StableKeys, TypeOK, Plain(mem), NEW i \in Inst, Observe(i)
  PROVE  Dated(mem, mem')
<1> DEFINE f == FpOf[i]
           L == mem
<1>1. L \in Ledger /\ f \in Fp /\ scanNo \in 0 .. MaxScans
  BY ConstantsTyped DEF TypeOK
<1>2. \/ L.items[f].status = "absent" /\ mem' = Ruled(Minted(L, i), f)
      \/ /\ L.items[f].status = "closed"
         /\ \E n \in ReopenSuffix(L, L.items[f].pid) : mem' = Ruled(Reopened(L, i, n), f)
      \/ L.items[f].status \in Live /\ mem' = Ruled(Refreshed(L, i), f)
  BY NothingMoves DEF Observe
<1>3. ASSUME NEW M \in Ledger, Plain(M), Dated(L, M), M.items[f].status # "absent",
             mem' = Ruled(M, f)
      PROVE  Dated(mem, mem')
  <2>1. f \in Present(M)
    BY <1>1, <1>3 DEF Present
  <2>2. Ruled(M, f) \in Ledger /\ Plain(Ruled(M, f)) /\ Dated(M, Ruled(M, f))
    BY <1>1, <1>3, <2>1, RuledTyped, RuledAdvances, RuledDated
  <2> QED BY <1>1, <1>3, <2>2, DatedTrans
<1>4. CASE L.items[f].status = "absent" /\ mem' = Ruled(Minted(L, i), f)
  <2>1. /\ Minted(L, i) \in Ledger /\ Plain(Minted(L, i)) /\ Dated(L, Minted(L, i))
    BY <1>1, <1>4, MintedTyped, MintedAdvances, MintedDated
  <2>2. Minted(L, i).items[f].status = "open"
    BY <1>1 DEF Minted, NewItem, AbsentItem, Ledger
  <2> QED BY <1>3, <1>4, <2>1, <2>2
<1>5. CASE L.items[f].status = "closed" /\
           \E n \in ReopenSuffix(L, L.items[f].pid) : mem' = Ruled(Reopened(L, i, n), f)
  <2>1. PICK n \in ReopenSuffix(L, L.items[f].pid) : mem' = Ruled(Reopened(L, i, n), f)
    BY <1>5
  <2>2. /\ Reopened(L, i, n) \in Ledger /\ Plain(Reopened(L, i, n))
        /\ Dated(L, Reopened(L, i, n))
    <3>1. n \in 1 .. MaxReopen
      BY DEF ReopenSuffix
    <3> QED BY <1>1, <1>5, <3>1, ReopenedTyped, ReopenedAdvances, ReopenedDated
  <2>3. Reopened(L, i, n).items[f].status = "reopened"
    BY <1>1 DEF Reopened, NewItem, AbsentItem, Ledger
  <2> QED BY <1>3, <2>1, <2>2, <2>3
<1>6. CASE L.items[f].status \in Live /\ mem' = Ruled(Refreshed(L, i), f)
  <2>1. /\ Refreshed(L, i) \in Ledger /\ Plain(Refreshed(L, i)) /\ Dated(L, Refreshed(L, i))
    BY <1>1, <1>6, RefreshedTyped, RefreshedAdvances, RefreshedDated
  <2>2. Refreshed(L, i).items[f].status \in Live
    BY <1>1, <1>6 DEF Refreshed, Ledger, Item, Live
  <2> QED BY <1>3, <1>6, <2>1, <2>2 DEF Live
<1> QED BY <1>2, <1>4, <1>5, <1>6

LEMMA DatingInductive ==
  ASSUME OneLedger, TypeOK, Progress, Progress', Dating, [Next]_vars
  PROVE  Dating'
<1> USE DEF files, inputs, run
<1>0. /\ mem \in Ledger /\ outFile.doc \in Ledger /\ scanNo \in 0 .. MaxScans
      /\ Plain(mem) /\ Plain(mem')
  BY DEF TypeOK, File, Progress
<1>1. CASE Load
  <2>1. mem' = Loaded(outFile) /\ UNCHANGED outFile
    BY <1>1 DEF Load, Progress, Prior, NoFile
  <2>2. outFile.kind = "intact" => /\ mem'.items = outFile.doc.items
                                   /\ mem'.closed = outFile.doc.closed
    BY <1>0, <2>1 DEF Loaded, Ledger
  <2>3. outFile.kind = "intact" => Dated(outFile.doc, mem')
    BY <1>0, <2>2, DatedSelf DEF Dated, Present, ClosedIds
  <2> QED BY <2>1, <2>3 DEF Dating
<1>2. CASE \E i \in Inst : Observe(i)
  <2>1. PICK i \in Inst : Observe(i)
    BY <1>2
  <2>2. /\ Dated(mem, mem') /\ mem'.warn = mem.warn /\ UNCHANGED <<outFile, pc>>
        /\ pc = "observe"
    BY <2>1, ObserveDated, ObserveAdvances DEF Progress, OneLedger, Observe
  <2>3. mem' \in Ledger
    BY <2>1, ObserveTyped
  <2>4. mem.warn = {} /\ outFile.kind = "intact" => Dated(outFile.doc, mem')
    BY <1>0, <2>2, <2>3, DatedTrans DEF Dating
  <2> QED BY <2>2, <2>4 DEF Dating
<1>3. CASE \E i \in Inst : Fold(i)
  BY <1>3, NothingMoves DEF Fold, OneLedger, Dating
<1>4. CASE Sweep
  <2>1. /\ mem' = Swept(mem) /\ pc = "fold" /\ UNCHANGED outFile
    BY <1>4 DEF Sweep
  <2>2. Dated(mem, mem') /\ mem'.warn = mem.warn /\ mem' \in Ledger
    BY <1>0, <2>1, SweptDated, SweptTyped, SweptSame DEF Unmoved
  <2>3. mem.warn = {} /\ outFile.kind = "intact" => Dated(outFile.doc, mem')
    BY <1>0, <2>1, <2>2, DatedTrans DEF Dating
  <2> QED BY <2>1, <2>2, <2>3 DEF Dating
<1>5. CASE PersistBegin \/ PersistEnd
  BY <1>5 DEF PersistBegin, PersistEnd, Dating, TornFile, Intact
<1>6. CASE Rollups
  <2>1. outFile = Intact(mem) /\ UNCHANGED <<mem, outFile>>
    BY <1>6 DEF Rollups, Progress
  <2>2. Dated(mem, mem) /\ outFile.doc = mem /\ outFile.kind = "intact"
    BY <1>0, <2>1, DatedSelf DEF Intact
  <2> QED BY <2>1, <2>2 DEF Dating
<1>7. CASE Crash \/ LoseLedger
  BY <1>7 DEF Crash, LoseLedger, Dating, NoFile
<1>8. CASE \/ \E recs \in SUBSET Inst : DropScan(recs)
           \/ ClearOverrides \/ EndObserve
           \/ \E f \in Fp, what \in Rulings : WriteOverride(f, what)
  BY <1>8 DEF DropScan, ClearOverrides, EndObserve, WriteOverride, Dating
<1>9. CASE Carry \/ \E f \in Fp, signed \in BOOLEAN : EditClosed(f, signed)
  BY <1>9 DEF Carry, EditClosed, Dating
<1>10. CASE UNCHANGED vars
  BY <1>10 DEF vars, Dating
<1> QED BY <1>1, <1>2, <1>3, <1>4, <1>5, <1>6, <1>7, <1>8, <1>9, <1>10
        DEF Next, Loader, Operator

\* In two dated ledgers an id that is on a row of each is on the same row.
LEMMA DatesComparable ==
  ASSUME NEW L \in Ledger, NEW M \in Ledger, Plain(L), Plain(M), Dated(L, M),
         NEW id \in ItemIds(L), NEW d \in DatesOf(L, id), NEW e \in DatesOf(M, id)
  PROVE  e <= d
<1>1. PICK f \in Present(L) : L.items[f].pid = id /\ d = L.items[f].odd
  BY DEF DatesOf
<1>2. PICK g \in Present(M) : M.items[g].pid = id /\ e = M.items[g].odd
  BY DEF DatesOf
<1>3. f \in Present(M) /\ M.items[f].pid[1] = id[1]
  BY <1>1 DEF Dated
<1>4. f = g
  BY <1>2, <1>3 DEF Plain, IdsOwnedIn
<1> QED BY <1>1, <1>2, <1>4 DEF Dated

LEMMA DatesKeptByStep ==
  ASSUME TypeOK, Progress, Progress', Dating, [Next]_vars, ~Announced'
  PROVE  \A id \in ItemIds(Published) :
           \A d \in DatesOf(Published, id), e \in DatesOf(Published, id)' : e <= d
<1> USE DEF files, inputs, run
<1>0. mem \in Ledger /\ outFile.doc \in Ledger /\ Plain(mem) /\ Plain(outFile.doc)
  BY DEF TypeOK, File, Progress
<1>1. EmptyLedger \in Ledger /\ ItemIds([EmptyLedger EXCEPT !.warn = {"LEDGER_CHAIN_BROKEN"}]) = {}
      /\ ItemIds(EmptyLedger) = {}
  <2>1. \A L : Present(L) = {} => ItemIds(L) = {}
    BY DEF ItemIds
  <2>2. EmptyLedger.items = [f \in Fp |-> AbsentItem]
        /\ [EmptyLedger EXCEPT !.warn = {"LEDGER_CHAIN_BROKEN"}].items = [f \in Fp |-> AbsentItem]
    BY DEF EmptyLedger
  <2>3. \A L : L.items = [f \in Fp |-> AbsentItem] => Present(L) = {}
    BY DEF Present, AbsentItem
  <2> QED BY <2>1, <2>2, <2>3, EmptyTyped
<1>2. CASE Published' = Published
  <2>1. (Published \in Ledger /\ Plain(Published)) \/ ItemIds(Published) = {}
    BY <1>0, <1>1 DEF Published
  <2>2. CASE ItemIds(Published) = {}
    BY <2>2
  <2>3. CASE Published \in Ledger /\ Plain(Published)
    <3>1. \A id \in ItemIds(Published) : \A d, e \in DatesOf(Published, id) : e <= d
      BY <2>3, DatedSelf, DatesComparable
    <3>2. \A id : DatesOf(Published, id)' = DatesOf(Published, id)
      BY <1>2 DEF DatesOf
    <3> QED BY <3>1, <3>2
  <2> QED BY <2>1, <2>2, <2>3
<1>3. CASE PersistBegin
  <2>1. pc = "persist" /\ outFile'.kind = "torn" /\ pc' = "writing" /\ mem' = mem
    BY <1>3 DEF PersistBegin, TornFile
  <2>2. Published' = mem /\ mem.warn = {}
    BY <2>1 DEF Published, Announced
  <2>3. CASE outFile.kind = "intact"
    <3>1. Dated(outFile.doc, mem) /\ Published = outFile.doc
      BY <2>1, <2>2, <2>3 DEF Dating, Published
    <3>2. \A id \in ItemIds(outFile.doc) :
            \A d \in DatesOf(outFile.doc, id), e \in DatesOf(mem, id) : e <= d
      BY <1>0, <3>1, DatesComparable
    <3>3. \A id : DatesOf(Published, id)' = DatesOf(mem, id)
      BY <2>2 DEF DatesOf
    <3> QED BY <3>1, <3>2, <3>3
  <2>4. CASE outFile.kind \in {"missing", "torn"}
    <3>1. ItemIds(Published) = {}
      BY <1>1, <2>1, <2>4 DEF Published, Dating
    <3> QED BY <3>1
  <2>5. CASE outFile.kind = "edited"
    BY <2>1, <2>2, <2>5 DEF Progress
  <2> QED BY <2>3, <2>4, <2>5 DEF TypeOK, File, Kinds
<1>4. CASE PersistEnd
  <2>1. Published = mem /\ Published' = mem
    BY <1>4 DEF PersistEnd, Progress, Published, TornFile, Intact
  <2> QED BY <1>2, <2>1
<1>5. CASE Crash /\ pc = "writing"
  <2>1. outFile'.kind = "torn" /\ pc' = "idle"
    BY <1>5 DEF Crash, Progress, TornFile
  <2> QED BY <2>1 DEF Announced, Published, EmptyLedger
<1>6. CASE LoseLedger
  BY <1>6 DEF LoseLedger, Announced, NoFile
<1>7. CASE outFile' = outFile /\ (pc' = "writing" <=> pc = "writing")
           /\ (pc = "writing" => mem' = mem)
  <2>1. Published' = Published
    BY <1>7 DEF Published
  <2> QED BY <1>2, <2>1
<1>8. CASE Load \/ EndObserve \/ Sweep \/ Rollups \/ (\E i \in Inst : Observe(i) \/ Fold(i))
  BY <1>7, <1>8 DEF Load, EndObserve, Sweep, Rollups, Observe, Fold
<1>9. CASE Crash /\ pc # "writing"
  BY <1>7, <1>9 DEF Crash
<1>10. CASE (\E recs \in SUBSET Inst : DropScan(recs)) \/ Carry \/ ClearOverrides
  BY <1>7, <1>10 DEF DropScan, Carry, ClearOverrides
<1>11. CASE \E f \in Fp : \/ \E what \in Rulings : WriteOverride(f, what)
                          \/ \E signed \in BOOLEAN : EditClosed(f, signed)
  BY <1>7, <1>11 DEF WriteOverride, EditClosed
<1>12. CASE UNCHANGED vars
  BY <1>7, <1>12 DEF vars
<1> QED BY <1>3, <1>4, <1>5, <1>6, <1>8, <1>9, <1>10, <1>11, <1>12 DEF Next, Loader, Operator

\* Where keys are stable and one ledger file is used, the detection date an id is
\* reported with never moves later: the POA&M's age clock is not restarted.
THEOREM StableDatesKept ==
  OneLedger /\ (\A s \in Seeds : s.kind = "missing" => s = NoFile)
    => (Spec => DetectionDateKept)
<1> SUFFICES ASSUME OneLedger, \A s \in Seeds : s.kind = "missing" => s = NoFile
             PROVE  Spec => DetectionDateKept
  OBVIOUS
<1>1. Init => Progress /\ Dating
  BY EmptyPlain DEF Init, Progress, OneLedger, StableKeys, Plain, NoFile, Dating
<1>2. TypeOK /\ Progress /\ [Next]_vars => Progress'
  BY ProgressInductive
<1>3. TypeOK /\ Progress /\ Progress' /\ Dating /\ [Next]_vars => Dating'
  BY DatingInductive
<1>4. TypeOK /\ Progress /\ Progress' /\ Dating /\ [Next]_vars =>
        (Announced' \/ \A id \in ItemIds(Published) :
           \A d \in DatesOf(Published, id), e \in DatesOf(Published, id)' : e <= d)
  BY DatesKeptByStep
<1> QED BY <1>1, <1>2, <1>3, <1>4, TypeCorrect, PTL DEF Spec, DetectionDateKept
=============================================================================
