----------------------------- MODULE PoamProps -----------------------------
(***************************************************************************)
(* Properties of the POA&M ledger.  Kept apart from the model so that the  *)
(* runs and the proofs share one statement of each.                        *)
(***************************************************************************)
EXTENDS PoamLedger

\* Every variable holds a value of its kind; in particular every document, in
\* memory or on disk, is a well-formed ledger.
TypeOK ==
  /\ inFile \in File /\ outFile \in File
  /\ carried \in BOOLEAN /\ surfaces \in BOOLEAN
  /\ overrides \subseteq [pid: Id, what: Rulings]
  /\ scan \subseteq Inst /\ scanNo \in 0 .. MaxScans /\ loaded \in BOOLEAN
  /\ pc \in {"idle", "observe", "fold", "persist", "writing", "rollup"}
  /\ round \in {1, 2} /\ mem \in Ledger /\ todo \subseteq Inst
  /\ issued \subseteq Id

Documents == {mem, inFile.doc, outFile.doc}

\* "never auto-closes" (shared/poam_ledger.py:1): in every document a row that
\* is closed, on the plan or on the closed list, carries closure evidence, so
\* no sequence of misses, merges, reopenings and restarts closes a row that no
\* operator closed.
EvidencedIn(L) ==
  /\ \A f \in Present(L) : L.items[f].status = "closed" => L.items[f].evid
  /\ \A r \in L.closed : r.evid

NeverAutoCloses == \A L \in Documents : EvidencedIn(L)

\* "closed row remains on Closed" (shared/poam_ledger.py:2710): the id a
\* reopened row names as its prior is on the closed list of the same document,
\* through every later merge, miss, write, carry and restart.
LineageIn(L) ==
  \A f \in Present(L) :
    L.items[f].prior # NoId => L.items[f].prior \in ClosedIds(L)

LineageKept == \A L \in Documents : LineageIn(L)

\* A ledger an installation starts from has this history itself.
ASSUME SeedsSound == \A s \in Seeds : EvidencedIn(s.doc) /\ LineageIn(s.doc)

\* One id, one row: two rows never share an id, no live id is on the closed
\* list, and no row's id is an alias of another row.  Minting, -Rn and the
\* merge of rows must all avoid every id the document still uses.
DistinctIn(L) ==
  \A f \in Present(L) :
    /\ L.items[f].pid \notin ClosedIds(L)
    /\ \A g \in Present(L) \ {f} : L.items[f].pid # L.items[g].pid
    /\ \A g \in Present(L) : L.items[f].pid \notin L.items[g].aliases

IdsDistinct == \A L \in Documents : DistinctIn(L)

\* The strengthening IdsDistinct rests on: a hex core belongs to one row, and
\* the plain id of a core is held by that row or by one of its closed rows.
IdsOwnedIn(L) ==
  /\ \A f \in Present(L) :
       /\ L.items[f].aliases = {}
       /\ L.items[f].pid[1] \in {Short[f], Long[f]}
       /\ L.items[f].pid[2] = 0 \/ <<L.items[f].pid[1], 0>> \in ClosedIds(L)
       /\ \A g \in Present(L) \ {f} : L.items[f].pid[1] # L.items[g].pid[1]
  /\ \A r \in L.closed :
       /\ r.fp \in Present(L) /\ r.pid[1] = L.items[r.fp].pid[1]
       /\ r.pid # L.items[r.fp].pid

\* An installation whose records keep their fingerprints, where twelve hex
\* digits tell fingerprints apart (ten need not).
StableKeys ==
  /\ \A i \in Inst : Legacy[i] = {} /\ Absorbs[i] = {}
  /\ \A f, g \in Fp : (f # g => Long[f] # Long[g]) /\ Short[f] # Long[g]
  /\ \A s \in Seeds : IdsOwnedIn(s.doc)

\* A row waits for verification only after two different scans covered its
\* asset without seeing it since it was last seen ("not detected in rescans",
\* pending_comment; "two covered misses", tests/test_ledger_lifecycle_e2e.py).
PendingMeansTwoRescans ==
  \A L \in Documents : \A f \in Present(L) :
    L.items[f].status = "pending_verification" =>
      Cardinality({d \in L.items[f].rescans : d > L.items[f].seen}) >= 2

\* "persistent": every id a document under out/ ever published is still on a
\* row, an alias, the closed list or fp_migrations of the current one, unless
\* a later document announced the loss.
NoSilentLoss ==
  outFile.kind = "intact" => issued \subseteq Accounted(outFile.doc)

-----------------------------------------------------------------------------
(* What a reader of out/ sees: the document being written counts from the  *)
(* moment the old one is truncated, and a torn file left by a crash is an  *)
(* announced loss (load_ledger_file flags it).                             *)
Published ==
  IF outFile.kind # "torn" THEN outFile.doc
  ELSE IF pc = "writing" THEN mem
  ELSE [EmptyLedger EXCEPT !.warn = {"LEDGER_CHAIN_BROKEN"}]

Announced == Published.warn # {} \/ outFile.kind = "missing"

\* The detection date an id is reported with never moves later (test 3.5.10,
\* _migrate_if_needed "earliest Original Detection Date"), from one document
\* to the next, whichever row carries the id.
DatesOf(L, id) == {L.items[f].odd : f \in {g \in Present(L) : L.items[g].pid = id}}

DetectionDateKept ==
  [][Announced' \/ \A id \in ItemIds(Published) :
        \A d \in DatesOf(Published, id), e \in DatesOf(Published, id)' : e <= d]_vars

\* A closed row with evidence stays closed in every later document, on the
\* plan or on the closed list ("Append-only", shared/poam_ledger.py:1).
ClosedIn(L) == ClosedIds(L) \cup
  {L.items[f].pid : f \in {g \in Present(L) : L.items[g].status = "closed"}}

ClosedStays ==
  [][Announced \/ Announced' \/ ClosedIn(Published) \subseteq ClosedIn(Published)']_vars

\* A closed id is not live: the weakness comes back under -Rn ("Reopen after
\* closure: fp reappears -> ID -R1", tests/test_poam_ledger.py:233).
ClosedIdNotLive ==
  \A L \in Documents : \A f \in LiveRows(L) : L.items[f].pid \notin ClosedIds(L)

\* An id that was folded into another row is not given to a new row ("Never
\* remint a surviving EGP- ID", shared/poam_ledger.py:2348).
AliasNotReused ==
  \A L \in Documents : ItemIds(L) \cap AliasIds(L) = {}

-----------------------------------------------------------------------------
(* The ledger implements the lifecycle of its ids. *)
State(L, id) ==
  IF \E f \in LiveRows(L) : L.items[f].pid = id
    THEN IF \E f \in LiveRows(L) : /\ L.items[f].pid = id
                                   /\ L.items[f].status = "pending_verification"
           THEN "pending_verification" ELSE "open"
  ELSE IF id \in ClosedIn(L) THEN "closed"
  ELSE IF id \in Accounted(L) THEN "merged"
  ELSE "unissued"

Lifecycle == INSTANCE PoamIdLifecycle WITH
  Cores <- Core, MaxSuffix <- MaxReopen,
  book <- [id \in Core \X (0 .. MaxReopen) |-> State(Published, id)],
  announced <- Announced

Implements == Lifecycle!Spec
=============================================================================
