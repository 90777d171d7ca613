----------------------------- MODULE MCFileDrop -----------------------------
(* Instances of FileDrop for TLC. *)
EXTENDS FileDrop

CONSTANTS n1, nt, k1, k2, p1, u1

(*        folder   name  detected parser    what it stands for
   n1   nmap     a     nmap     rows      an nmap XML scan
   nt   nmap     a.t   ""       suffix    the .nmap text copy of n1
   k1   drops    c     vuln     corrupt   a truncated KEEP-minimum file
   k2   more     c     vuln     partial   one of the same name, SAMPLE, with a corrupt line
   p1   pass2    a     nmap     rows      second-pass nmap XML
   u1   k8s      f     ""       rows      a folder without a collector           *)
Fact == n1 :> <<"nmap", "a", "nmap", "rows">> @@ nt :> <<"nmap", "a.t", "", "suffix">>
     @@ k1 :> <<"drops", "c", "vuln", "corrupt">> @@ k2 :> <<"more", "c", "vuln", "partial">> @@ p1 :> <<"pass2", "a", "nmap", "rows">>
     @@ u1 :> <<"k8s", "f", "", "rows">>
Ranks == k1 :> 1 @@ u1 :> 2 @@ k2 :> 3 @@ n1 :> 4 @@ nt :> 5 @@ p1 :> 6
Folders == [f \in File |-> Fact[f][1]]
Names == [f \in File |-> Fact[f][2]]
Families == [f \in File |-> Fact[f][3]]
Outcomes == [f \in File |-> Fact[f][4]]
Paths == [f \in File |-> Ranks[f]]
Twins == [f \in File |-> IF f = nt THEN n1 ELSE NoFile]
TwoSensors == <<"nmap", "vuln">>
=============================================================================
