----------------------------- MODULE MCPoamPlan -----------------------------
(* Instances of PoamPlan for TLC. *)
EXTENDS PoamPlan

CONSTANTS rdp, tw, nuc, nes, dup, ly, hk, al1, al2, mut, up1, up2, mv, sa1, sa2

Base == [kind |-> "finding", ref |-> 0, exact |-> "", issue |-> "", control |-> "",
         tool |-> "", sev |-> 1, class |-> "weakness", key |-> FALSE, rule |-> "",
         shape |-> "other", port |-> "", proto |-> "", fp |-> 0, check |-> FALSE]

(* rdp  "RDP exposed" of nmap          tw   its twin of a pack drop
   nuc  a nuclei detection on the port nes  a Nessus finding, dup the same again
   ly   a control by Lynis             hk   the same control by OpenSCAP
   al1, al2  two alerts of one rule    mut  the muted row of the rule of nes
   up1, up2  one issue, two ref_ids    mv   another weakness under the ref_id of nes
   sa1, sa2  SARIF results of one rule in a/b.py and a-b.py: one slug          *)
Facts ==
     rdp :> [Base EXCEPT !.ref = 1, !.exact = "rdp", !.issue = "rdp", !.sev = 3, !.shape = "port", !.port = "h:3389",
                         !.proto = "tcp", !.fp = 1, !.check = TRUE]
  @@ tw  :> [Base EXCEPT !.ref = 2, !.exact = "tw", !.issue = "tw", !.shape = "port", !.port = "h:3389", !.fp = 1]
  @@ nuc :> [Base EXCEPT !.ref = 3, !.exact = "nuc", !.issue = "nuc", !.sev = 0, !.shape = "specific",
                         !.port = "h:3389", !.proto = "tcp", !.fp = 2]
  @@ nes :> [Base EXCEPT !.ref = 4, !.exact = "nes", !.issue = "nes", !.sev = 2, !.shape = "specific",
                         !.port = "h:3389", !.proto = "tcp", !.fp = 3]
  @@ dup :> [Base EXCEPT !.ref = 5, !.exact = "nes", !.issue = "nes", !.sev = 4, !.shape = "specific",
                         !.port = "h:3389", !.proto = "tcp", !.fp = 3]
  @@ ly  :> [Base EXCEPT !.ref = 6, !.exact = "ly", !.issue = "ly", !.control = "h:ssh", !.tool = "lynis", !.fp = 4]
  @@ hk  :> [Base EXCEPT !.ref = 7, !.exact = "hk", !.issue = "hk", !.control = "h:ssh", !.tool = "openscap",
                         !.sev = 3, !.fp = 5]
  @@ al1 :> [Base EXCEPT !.ref = 8, !.exact = "al1", !.issue = "al1", !.rule = "100", !.fp = 6]
  @@ al2 :> [Base EXCEPT !.ref = 9, !.exact = "al2", !.issue = "al2", !.rule = "100", !.fp = 7]
  @@ mut :> [Base EXCEPT !.ref = 10, !.kind = "excluded", !.exact = "mut", !.issue = "mut", !.class = "token", !.fp = 3]
  @@ up1 :> [Base EXCEPT !.ref = 11, !.exact = "up1", !.issue = "admin", !.sev = 2, !.fp = 9]
  @@ up2 :> [Base EXCEPT !.ref = 12, !.exact = "up2", !.issue = "admin", !.sev = 3, !.fp = 10]
  @@ mv  :> [Base EXCEPT !.ref = 4, !.exact = "mv", !.issue = "mv", !.sev = 2, !.fp = 11]
  @@ sa1 :> [Base EXCEPT !.ref = 13, !.exact = "sa1", !.issue = "sa1", !.sev = 3, !.fp = 12]
  @@ sa2 :> [Base EXCEPT !.ref = 13, !.exact = "sa2", !.issue = "sa2", !.sev = 3, !.fp = 13]

(* Every order of the records of a group, or of some of them.               *)
Groups == {{rdp, tw, nuc}, {rdp, nes}, {nes, dup}, {ly, hk}, {al1, al2}, {nes, mut}, {up1, up2}, {mv}}
Orders == UNION {UNION {SetToSeqs(S) : S \in SUBSET G} : G \in Groups}

(* One scan with two records of one ref_id.                                 *)
SharedSlug == {<<sa1, sa2>>}

(* An empty ledger, and one whose id of fingerprint 1 is an older one.      *)
OldLedgers == {<<>>, 1 :> [id |-> <<1, 9>>, ref |-> 1, closed |-> FALSE, off |-> FALSE, born |-> 0]}
=============================================================================
