-------------------------- MODULE PoamIdLifecycle --------------------------
(***************************************************************************)
(* What the POA&M ledger promises about an id, seen from the documents a   *)
(* reader finds under out/ (module doc of shared/poam_ledger.py and the    *)
(* lifecycle table of fixtures/lab-lifecycle/README.md): an id is minted   *)
(* once, waits in pending_verification and comes back, is closed for good, *)
(* and returns only under the next -Rn.  A document that lost its history  *)
(* says so.                                                                *)
(***************************************************************************)
EXTENDS Naturals

CONSTANTS
  Cores,      \* hex cores
  MaxSuffix   \* largest -Rn suffix

Ids    == Cores \X (0 .. MaxSuffix)
States == {"unissued", "open", "pending_verification", "closed", "merged"}

VARIABLES
  book,       \* [Ids -> States]
  announced   \* the document carries LEDGER_CHAIN_BROKEN or LEDGER_LOST

TypeOK == book \in [Ids -> States] /\ announced \in BOOLEAN

\* Where an id may be after the next document, given where it was.  closed
\* and merged are final.
Allowed(st) ==
  CASE st = "unissued" -> States \ {"pending_verification"}
    [] st \in {"open", "pending_verification"} -> States \ {"unissued"}
    [] st \in {"closed", "merged"} -> {st}

\* -Rn is first issued when -R(n-1), or the plain id for n = 1, is closed.
ReopensClosed(id) ==
  book[id] = "unissued" /\ book'[id] # "unissued" /\ id[2] > 0
    => book'[<<id[1], id[2] - 1>>] = "closed"

Publish ==
  /\ book' \in [Ids -> States] /\ announced' \in BOOLEAN
  /\ \A id \in Ids : book'[id] \in Allowed(book[id]) /\ ReopensClosed(id)

\* History is lost, or restored from a good copy; the loss is announced.
LoseOrRestore ==
  /\ announced \/ announced'
  /\ book' \in [Ids -> States] /\ announced' \in BOOLEAN

Next == Publish \/ LoseOrRestore

Spec == TypeOK /\ [][Next]_<<book, announced>>
=============================================================================
