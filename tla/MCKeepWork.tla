----------------------------- MODULE MCKeepWork -----------------------------
(* Instances of KeepWork for TLC. *)
EXTENDS KeepWork, TLC

CONSTANTS m1, w1, s1, s2            \* calls
CONSTANTS c1, c2, sa, lb            \* contents

(* Two families, three files: b2 is a second one of b's family.            *)
TwoFamilies == <<"hardeningkitty", "cloud">>
Families == "a" :> "hardeningkitty" @@ "b" :> "cloud" @@ "b2" :> "cloud"
Marks == [x \in Content |-> CASE x \in {c1, c2} -> "client" [] x = lb -> "lab" [] OTHER -> "sample"]
Leaves == "hardeningkitty" :> sa @@ "cloud" :> sa

Drop(a, b, b2) == "a" :> a @@ "b" :> b @@ "b2" :> b2

(* An empty pack, a client's, and a client's with a sample or a lab file.  *)
FourPacks == {Drop(Absent, Absent, Absent), Drop(c1, c2, Absent),
              Drop(c1, c2, sa), Drop(c1, c2, lb)}
ClientPack == {Drop(c1, c2, Absent)}

(* A command-line run with --work, or an MCP call, while the operator      *)
(* edits the pack; an MCP call beside a run in keep/work; two runs there.  *)
Workload(calls, packs, whole, n) == [calls |-> calls, packs |-> packs, whole |-> whole, edits |-> n]
Together == {Workload({w1}, ClientPack, {TRUE}, 2), Workload({w1}, FourPacks, BOOLEAN, 1),
             Workload({m1}, ClientPack, BOOLEAN, 1),
             Workload({m1, s1}, ClientPack, {TRUE}, 0),
             Workload({s1, s2}, ClientPack, {TRUE}, 0)}
(* One after the other in keep/work. *)
Twice == {Workload({s1, s2}, ClientPack, {TRUE}, 0)}
=============================================================================
