------------------------ MODULE ProductConsoleProofs ------------------------
(***************************************************************************)
(* What a refresh writes, and where, for any number of directories,        *)
(* collectors, requests and failures of collectors.  The directory is      *)
(* looked up anew at each step of a request, so both proofs turn on what   *)
(* keeps it: that one client does one thing at a time, or that nobody      *)
(* switches.                                                               *)
(***************************************************************************)
EXTENDS ProductConsole, FiniteSetTheorems, TLAPS

Ops == {"none", "read", "refresh", "select"}
Working == {"check", "drop", "main", "register", "plan", "summary"}
RequestType == [op : Ops, pc : {"idle", "estate"} \cup Working, dest : Out, out : Out,
                k : 1 .. Loader + 1, run : Nat, read : [1 .. NSensors -> Nat], ok : BOOLEAN]
Content == [kind : Kinds, canon : [1 .. NSensors -> Nat], reg : Nat, poam : Nat, sum : Nat]

Shared ==
  /\ traffic \in Traffics /\ active \in Out /\ modules \subseteq 1 .. Loader /\ runNo \in Nat
  /\ dir \in [Out -> Content]

(* Collectors run for a refresh only, the loader last.                     *)
Orderly(r) ==
  /\ r.pc \in Working => r.op = "refresh" /\ r.k <= Loader
  /\ r.pc \in {"register", "plan", "summary"} => r.k = Loader

(* The state is well-formed; a thread outside the traffic does nothing.    *)
Sane ==
  /\ Shared /\ req \in [Thread -> RequestType]
  /\ \A t \in Thread : Orderly(req[t]) /\ (req[t].pc = "idle" \/ t \in traffic.threads)

LEMMA NSensorsNat == NSensors \in Nat /\ Loader \in Nat /\ Loader = NSensors + 1
BY ConsoleConstants DEF Loader

LEMMA BlankIs == ASSUME NEW d \in Out PROVE Blank(d) \in RequestType
BY NSensorsNat DEF RequestType, Blank, Ops

LEMMA SaneInit == Init => Sane
<1> SUFFICES ASSUME Init PROVE Sane
  OBVIOUS
<1>1. active \in Out /\ Blank(active).pc = "idle" /\ Orderly(Blank(active))
  BY DEF Init, Blank, Orderly, Working
<1>2. dir \in [Out -> Content]
  BY ConsoleConstants DEF Init, Content
<1>3. \A t \in Thread : req[t] = Blank(active)
  BY DEF Init
<1>4. req \in [Thread -> RequestType]
  BY <1>1, BlankIs DEF Init
<1>5. Shared
  BY <1>1, <1>2 DEF Init, Shared
<1> QED BY <1>1, <1>3, <1>4, <1>5 DEF Sane

(* A step of one thread.                                                   *)
LEMMA SaneReq ==
  ASSUME Sane, NEW t \in Thread, NEW r \in RequestType, req' = [req EXCEPT ![t] = r],
         Shared', traffic' = traffic, Orderly(r), r.pc = "idle" \/ t \in traffic.threads
  PROVE  Sane'
<1>1. /\ req' \in [Thread -> RequestType]
      /\ req'[t] = r /\ \A o \in Thread \ {t} : req'[o] = req[o]
  BY DEF Sane
<1>2. ASSUME NEW o \in Thread
      PROVE  Orderly(req'[o]) /\ (req'[o].pc = "idle" \/ o \in traffic'.threads)
  <2>1. CASE o = t
    BY <1>1, <2>1
  <2>2. CASE o # t
    BY <1>1, <2>2 DEF Sane
  <2> QED BY <2>1, <2>2
<1> QED BY <1>1, <1>2 DEF Sane, Orderly

LEMMA SaneNext == Sane /\ [Next]_vars => Sane'
<1> SUFFICES ASSUME Sane, [Next]_vars PROVE Sane'
  OBVIOUS
<1> USE NSensorsNat
<1>1. /\ traffic \in Traffics /\ active \in Out /\ modules \subseteq 1 .. Loader /\ runNo \in Nat
      /\ dir \in [Out -> Content] /\ req \in [Thread -> RequestType]
  BY DEF Sane, Shared
<1>2. ASSUME NEW t \in Thread
      PROVE  /\ req[t] \in RequestType /\ Orderly(req[t])
             /\ req[t].pc # "idle" => t \in traffic.threads
  BY DEF Sane
<1>3. ASSUME NEW t \in Thread, Receive(t) PROVE Sane'
  <2> DEFINE r == [Blank(active) EXCEPT !.op = "read", !.pc = "estate"]
  <2>1. req' = [req EXCEPT ![t] = r] /\ UNCHANGED <<traffic, active, dir, modules, runNo>> /\ t \in traffic.threads
    BY <1>3 DEF Receive, Takes
  <2>2. r \in RequestType /\ r.pc = "estate"
    BY <1>1, BlankIs DEF RequestType, Blank, Ops
  <2> HIDE DEF r
  <2>3. Shared'
    BY <1>1, <2>1 DEF Shared
  <2>4. Orderly(r)
    BY <2>2 DEF Orderly, Working
  <2> QED BY <2>1, <2>2, <2>3, <2>4, SaneReq
<1>4. ASSUME NEW t \in Thread, Refresh(t) PROVE Sane'
  <2> DEFINE r == [Blank(active) EXCEPT !.op = "refresh", !.pc = "estate", !.run = runNo + 1]
  <2>1. req' = [req EXCEPT ![t] = r] /\ UNCHANGED <<traffic, active, dir, modules>> /\ t \in traffic.threads
        /\ runNo' = runNo + 1
    BY <1>4 DEF Refresh, Takes
  <2>2. r \in RequestType /\ r.pc = "estate"
    <3>1. runNo + 1 \in Nat /\ Blank(active) \in RequestType
      BY <1>1, BlankIs
    <3> QED BY <3>1 DEF RequestType, Ops
  <2> HIDE DEF r
  <2>3. Shared'
    BY <1>1, <2>1 DEF Shared
  <2>4. Orderly(r)
    BY <2>2 DEF Orderly, Working
  <2> QED BY <2>1, <2>2, <2>3, <2>4, SaneReq
<1>5. ASSUME NEW t \in Thread, NEW d \in Out, Select(t, d) PROVE Sane'
  <2> DEFINE r == [Blank(d) EXCEPT !.op = "select", !.pc = "estate"]
  <2>1. req' = [req EXCEPT ![t] = r] /\ UNCHANGED <<traffic, dir, modules, runNo>> /\ t \in traffic.threads
        /\ active' = d
    BY <1>5 DEF Select, Takes
  <2>2. r \in RequestType /\ r.pc = "estate"
    BY <1>1, BlankIs DEF RequestType, Blank, Ops
  <2> HIDE DEF r
  <2>3. Shared'
    BY <1>1, <2>1 DEF Shared
  <2>4. Orderly(r)
    BY <2>2 DEF Orderly, Working
  <2> QED BY <2>1, <2>2, <2>3, <2>4, SaneReq
<1>6. ASSUME NEW t \in Thread, ReadEstate(t) PROVE Sane'
  <2>1. PICK place \in {"check", "idle"} :
          /\ req' = [req EXCEPT ![t].out = active, ![t].pc = place]
          /\ place = "check" => req[t].op = "refresh" /\ ~Ran(t)
          /\ UNCHANGED <<traffic, active, dir, modules, runNo>> /\ req[t].pc = "estate"
    BY <1>6 DEF ReadEstate, At
  <2> DEFINE r == [req[t] EXCEPT !.out = active, !.pc = place]
  <2>2. r \in RequestType /\ r.pc = place /\ r.op = req[t].op /\ r.k = req[t].k
    BY <1>1, <1>2, <2>1 DEF RequestType, Working
  <2>3. req' = [req EXCEPT ![t] = r] /\ t \in traffic.threads
    BY <1>1, <1>2, <2>1
  <2>4. place = "check" => r.op = "refresh" /\ r.k <= Loader
    BY <1>2, <2>1, <2>2 DEF Ran, RequestType
  <2> HIDE DEF r
  <2>5. Shared' /\ Orderly(r)
    BY <1>1, <2>1, <2>2, <2>4 DEF Shared, Orderly, Working
  <2> QED BY <2>1, <2>2, <2>3, <2>5, SaneReq
<1>7. ASSUME NEW t \in Thread, CheckModule(t) \/ DropModule(t) PROVE Sane'
  <2>1. /\ UNCHANGED <<traffic, active, dir, runNo>> /\ modules' \subseteq modules
        /\ req[t].pc \in {"check", "drop"}
    BY <1>7 DEF CheckModule, DropModule, At
  <2>2. PICK place \in {"drop", "main", "idle"}, fine \in BOOLEAN :
          req' = [req EXCEPT ![t] = [req[t] EXCEPT !.pc = place, !.ok = fine]]
    <3>1. req[t].ok \in BOOLEAN /\ \A p : [req[t] EXCEPT !.pc = p] = [req[t] EXCEPT !.pc = p, !.ok = req[t].ok]
      BY <1>2 DEF RequestType
    <3>2. \/ \E p \in {"drop", "main"} : req' = [req EXCEPT ![t].pc = p]
          \/ req' = [req EXCEPT ![t].pc = "idle", ![t].ok = FALSE]
      BY <1>7 DEF CheckModule, DropModule, At, Goto
    <3>3. CASE \E p \in {"drop", "main"} : req' = [req EXCEPT ![t].pc = p]
      <4>1. PICK p \in {"drop", "main"} : req' = [req EXCEPT ![t].pc = p]
        BY <3>3
      <4>2. req' = [req EXCEPT ![t] = [req[t] EXCEPT !.pc = p, !.ok = req[t].ok]]
        BY <1>1, <3>1, <4>1
      <4> QED BY <3>1, <4>2
    <3>4. CASE req' = [req EXCEPT ![t].pc = "idle", ![t].ok = FALSE]
      <4>1. req' = [req EXCEPT ![t] = [req[t] EXCEPT !.pc = "idle", !.ok = FALSE]]
        BY <1>1, <3>4
      <4> QED BY <4>1
    <3> QED BY <3>2, <3>3, <3>4
  <2> DEFINE r == [req[t] EXCEPT !.pc = place, !.ok = fine]
  <2>3. r \in RequestType /\ r.pc = place /\ r.op = req[t].op /\ r.k = req[t].k
    BY <1>2, <2>2 DEF RequestType, Working
  <2>4. req' = [req EXCEPT ![t] = r] /\ t \in traffic.threads
        /\ req[t].op = "refresh" /\ req[t].k <= Loader
    BY <1>2, <2>1, <2>2 DEF Orderly, Working
  <2> HIDE DEF r
  <2>5. Shared' /\ Orderly(r)
    BY <1>1, <2>1, <2>2, <2>3, <2>4 DEF Shared, Orderly, Working
  <2> QED BY <2>1, <2>3, <2>4, <2>5, SaneReq
<1>8. ASSUME NEW t \in Thread, RunSensor(t) PROVE Sane'
  <2> DEFINE r == [req[t] EXCEPT !.k = @ + 1, !.pc = "check"]
  <2>1. /\ req[t].pc = "main" /\ req[t].k < Loader
        /\ UNCHANGED <<traffic, active, runNo>>
        /\ req' = [req EXCEPT ![t].k = @ + 1, ![t].pc = "check"]
        /\ modules' = modules \cup {req[t].k}
        /\ dir' = [dir EXCEPT ![active].canon[req[t].k] = req[t].run]
    BY <1>8 DEF RunSensor, At, Goto
  <2>2. /\ t \in traffic.threads /\ req[t].op = "refresh"
        /\ req[t].run \in Nat /\ req[t].k \in 1 .. Loader + 1
        /\ dir[active] \in Content /\ dir[active].canon \in [1 .. NSensors -> Nat]
        /\ req[t].pc \in {"register", "plan", "summary"} => req[t].k = Loader
        /\ req[t].k + 1 \in 1 .. Loader + 1
    <3>1. dir[active] \in Content /\ dir[active].canon \in [1 .. NSensors -> Nat]
      BY <1>1 DEF Content
    <3>2. req[t].run \in Nat /\ req[t].k \in 1 .. Loader + 1
      BY <1>2 DEF RequestType
    <3> QED BY <1>2, <2>1, <3>1, <3>2 DEF Orderly, Working
  <2>3. r \in RequestType /\ r.pc = "check" /\ r.op = "refresh" /\ r.k = req[t].k + 1
    BY <1>2, <2>1, <2>2 DEF RequestType, Working
  <2>4. req' = [req EXCEPT ![t] = r]
    BY <1>1, <2>1
  <2>5. dir' \in [Out -> Content]
    BY <1>1, <2>1, <2>2 DEF Content
  <2> HIDE DEF r
  <2>6. Shared' /\ Orderly(r)
    BY <1>1, <2>1, <2>2, <2>3, <2>5 DEF Shared, Orderly, Working
  <2> QED BY <2>1, <2>2, <2>3, <2>4, <2>6, SaneReq
<1>9. ASSUME NEW t \in Thread, LoadRecords(t) PROVE Sane'
  <2> DEFINE r == [req[t] EXCEPT !.read = dir[active].canon, !.pc = "register"]
  <2>1. /\ req[t].pc = "main" /\ req[t].k = Loader
        /\ UNCHANGED <<traffic, active, dir, runNo>>
        /\ req' = [req EXCEPT ![t].read = dir[active].canon, ![t].pc = "register"]
        /\ modules' = modules \cup {Loader}
    BY <1>9 DEF LoadRecords, At, Goto
  <2>2. /\ t \in traffic.threads /\ req[t].op = "refresh"
        /\ req[t].run \in Nat /\ req[t].k \in 1 .. Loader + 1
        /\ dir[active] \in Content /\ dir[active].canon \in [1 .. NSensors -> Nat]
        /\ req[t].pc \in {"register", "plan", "summary"} => req[t].k = Loader
        /\ req[t].k + 1 \in 1 .. Loader + 1
    <3>1. dir[active] \in Content /\ dir[active].canon \in [1 .. NSensors -> Nat]
      BY <1>1 DEF Content
    <3>2. req[t].run \in Nat /\ req[t].k \in 1 .. Loader + 1
      BY <1>2 DEF RequestType
    <3> QED BY <1>2, <2>1, <3>1, <3>2 DEF Orderly, Working
  <2>3. r \in RequestType /\ r.pc = "register" /\ r.op = "refresh" /\ r.k = Loader
    BY <1>2, <2>1, <2>2 DEF RequestType, Working
  <2>4. req' = [req EXCEPT ![t] = r]
    BY <1>1, <2>1
  <2>5. dir' \in [Out -> Content]
    BY <1>1, <2>1, <2>2 DEF Content
  <2> HIDE DEF r
  <2>6. Shared' /\ Orderly(r)
    BY <1>1, <2>1, <2>2, <2>3, <2>5 DEF Shared, Orderly, Working
  <2> QED BY <2>1, <2>2, <2>3, <2>4, <2>6, SaneReq
<1>14. ASSUME NEW t \in Thread, WriteRegister(t) PROVE Sane'
  <2> DEFINE r == [req[t] EXCEPT !.pc = "plan"]
  <2>1. /\ req[t].pc = "register" /\ req[t].k \in 1 .. Loader + 1
        /\ UNCHANGED <<traffic, active, modules, runNo>>
        /\ req' = [req EXCEPT ![t].pc = "plan"]
        /\ dir' = [dir EXCEPT ![active].reg = req[t].run]
    BY <1>2, <1>14 DEF WriteRegister, At, Goto, RequestType
  <2>2. /\ t \in traffic.threads /\ req[t].op = "refresh"
        /\ req[t].run \in Nat /\ req[t].k \in 1 .. Loader + 1
        /\ dir[active] \in Content /\ dir[active].canon \in [1 .. NSensors -> Nat]
        /\ req[t].pc \in {"register", "plan", "summary"} => req[t].k = Loader
        /\ req[t].k + 1 \in 1 .. Loader + 1
    <3>1. dir[active] \in Content /\ dir[active].canon \in [1 .. NSensors -> Nat]
      BY <1>1 DEF Content
    <3>2. req[t].run \in Nat /\ req[t].k \in 1 .. Loader + 1
      BY <1>2 DEF RequestType
    <3> QED BY <1>2, <2>1, <3>1, <3>2 DEF Orderly, Working
  <2>3. r \in RequestType /\ r.pc = "plan" /\ r.op = "refresh" /\ r.k = req[t].k
    BY <1>2, <2>1, <2>2 DEF RequestType, Working
  <2>4. req' = [req EXCEPT ![t] = r]
    BY <1>1, <2>1
  <2>5. dir' \in [Out -> Content]
    BY <1>1, <2>1, <2>2 DEF Content
  <2> HIDE DEF r
  <2>6. Shared' /\ Orderly(r)
    BY <1>1, <2>1, <2>2, <2>3, <2>5 DEF Shared, Orderly, Working
  <2> QED BY <2>1, <2>2, <2>3, <2>4, <2>6, SaneReq
<1>10. ASSUME NEW t \in Thread, WritePlan(t) PROVE Sane'
  <2> DEFINE r == [req[t] EXCEPT !.pc = "summary"]
  <2>1. /\ req[t].pc = "plan" /\ req[t].k \in 1 .. Loader + 1
        /\ UNCHANGED <<traffic, active, modules, runNo>>
        /\ req' = [req EXCEPT ![t].pc = "summary"]
        /\ dir' = [dir EXCEPT ![active].poam = req[t].run]
    BY <1>2, <1>10 DEF WritePlan, At, Goto, RequestType
  <2>2. /\ t \in traffic.threads /\ req[t].op = "refresh"
        /\ req[t].run \in Nat /\ req[t].k \in 1 .. Loader + 1
        /\ dir[active] \in Content /\ dir[active].canon \in [1 .. NSensors -> Nat]
        /\ req[t].pc \in {"register", "plan", "summary"} => req[t].k = Loader
        /\ req[t].k + 1 \in 1 .. Loader + 1
    <3>1. dir[active] \in Content /\ dir[active].canon \in [1 .. NSensors -> Nat]
      BY <1>1 DEF Content
    <3>2. req[t].run \in Nat /\ req[t].k \in 1 .. Loader + 1
      BY <1>2 DEF RequestType
    <3> QED BY <1>2, <2>1, <3>1, <3>2 DEF Orderly, Working
  <2>3. r \in RequestType /\ r.pc = "summary" /\ r.op = "refresh" /\ r.k = req[t].k
    BY <1>2, <2>1, <2>2 DEF RequestType, Working
  <2>4. req' = [req EXCEPT ![t] = r]
    BY <1>1, <2>1
  <2>5. dir' \in [Out -> Content]
    BY <1>1, <2>1, <2>2 DEF Content
  <2> HIDE DEF r
  <2>6. Shared' /\ Orderly(r)
    BY <1>1, <2>1, <2>2, <2>3, <2>5 DEF Shared, Orderly, Working
  <2> QED BY <2>1, <2>2, <2>3, <2>4, <2>6, SaneReq
<1>11. ASSUME NEW t \in Thread, WriteSummary(t) PROVE Sane'
  <2> DEFINE r == [req[t] EXCEPT !.k = @ + 1, !.pc = "estate"]
  <2>1. /\ req[t].pc = "summary" /\ req[t].k \in 1 .. Loader + 1
        /\ UNCHANGED <<traffic, active, modules, runNo>>
        /\ req' = [req EXCEPT ![t].k = @ + 1, ![t].pc = "estate"]
        /\ dir' = [dir EXCEPT ![active].sum = req[t].run, ![active].kind = "DEMO"]
    BY <1>2, <1>11 DEF WriteSummary, At, Goto, RequestType
  <2>2. /\ t \in traffic.threads /\ req[t].op = "refresh"
        /\ req[t].run \in Nat /\ req[t].k \in 1 .. Loader + 1
        /\ dir[active] \in Content /\ dir[active].canon \in [1 .. NSensors -> Nat]
        /\ req[t].pc \in {"register", "plan", "summary"} => req[t].k = Loader
        /\ req[t].k + 1 \in 1 .. Loader + 1
    <3>1. dir[active] \in Content /\ dir[active].canon \in [1 .. NSensors -> Nat]
      BY <1>1 DEF Content
    <3>2. req[t].run \in Nat /\ req[t].k \in 1 .. Loader + 1
      BY <1>2 DEF RequestType
    <3> QED BY <1>2, <2>1, <3>1, <3>2 DEF Orderly, Working
  <2>3. r \in RequestType /\ r.pc = "estate" /\ r.op = "refresh" /\ r.k = req[t].k + 1
    BY <1>2, <2>1, <2>2 DEF RequestType, Working
  <2>4. req' = [req EXCEPT ![t] = r]
    BY <1>1, <2>1
  <2>5. dir' \in [Out -> Content]
    BY <1>1, <2>1, <2>2 DEF Content, Kinds
  <2> HIDE DEF r
  <2>6. Shared' /\ Orderly(r)
    BY <1>1, <2>1, <2>2, <2>3, <2>5 DEF Shared, Orderly, Working
  <2> QED BY <2>1, <2>2, <2>3, <2>4, <2>6, SaneReq
<1>12. ASSUME NEW t \in Thread, Raise(t) PROVE Sane'
  <2> DEFINE r == [req[t] EXCEPT !.pc = "idle", !.ok = FALSE]
  <2>1. /\ UNCHANGED <<traffic, active, dir, modules, runNo>>
        /\ req' = [req EXCEPT ![t].pc = "idle", ![t].ok = FALSE]
    BY <1>12 DEF Raise
  <2>2. r \in RequestType /\ r.pc = "idle"
    BY <1>2 DEF RequestType, Working
  <2>3. req' = [req EXCEPT ![t] = r]
    BY <1>1, <2>1
  <2> HIDE DEF r
  <2>4. Shared' /\ Orderly(r)
    BY <1>1, <2>1, <2>2 DEF Shared, Orderly, Working
  <2> QED BY <2>1, <2>2, <2>3, <2>4, SaneReq
<1>13. CASE UNCHANGED vars
  BY <1>13 DEF vars, Sane, Shared, Orderly
<1> QED
  BY <1>3, <1>4, <1>5, <1>6, <1>7, <1>8, <1>9, <1>10, <1>11, <1>12, <1>13, <1>14 DEF Next, Proceed

LEMMA SaneHolds == Spec => []Sane
BY SaneInit, SaneNext, PTL DEF Spec
-----------------------------------------------------------------------------
(* One client, one request at a time: the refresh under way has written    *)
(* what it says it has, into the directory that is active.                 *)
Written(content, r) ==
  /\ content.sum = r.run /\ content.poam = r.run /\ content.reg = r.run
  /\ \A c \in 1 .. NSensors : r.read[c] = r.run

\* at: what is in the active directory; out: in the one the answer describes.
Faithful(at, out, r) ==
  /\ r.pc \in {"check", "drop", "main"} =>
       \A c \in 1 .. NSensors : c < r.k => at.canon[c] = r.run
  /\ r.pc \in {"register", "plan", "summary"} => \A c \in 1 .. NSensors : r.read[c] = r.run
  /\ r.pc \in {"plan", "summary"} => at.reg = r.run
  /\ r.pc = "summary" => at.poam = r.run
  /\ r.pc = "estate" /\ r.op = "refresh" =>
       IF r.k > Loader THEN Written(at, r) ELSE r.k = 1
  /\ r.pc = "idle" /\ r.op = "refresh" /\ r.ok /\ r.k > Loader => Written(out, r)

Alone ==
  OneAtATime => \A t \in Thread :
    IF t \in traffic.threads
      THEN Faithful(dir[active], dir[req[t].out], req[t])
      ELSE req[t].op = "none"

LEMMA TheOne ==
  ASSUME OneAtATime, traffic \in Traffics
  PROVE  \E t \in Thread : traffic.threads = {t}
<1>1. traffic.threads \subseteq Thread /\ IsFiniteSet(Thread)
  BY ConsoleConstants
<1>2. IsFiniteSet(traffic.threads)
  BY <1>1, FS_Subset
<1>3. \E x : traffic.threads = {x}
  BY <1>2, FS_Singleton DEF OneAtATime
<1> QED BY <1>1, <1>3

LEMMA AloneInit == Init => Alone
<1> SUFFICES ASSUME Init, NEW t \in Thread
             PROVE  Faithful(dir[active], dir[req[t].out], req[t]) /\ req[t].op = "none"
  BY DEF Alone
<1>1. req[t].pc = "idle" /\ req[t].op = "none"
  BY DEF Init, Blank
<1> QED BY <1>1 DEF Faithful

(* The only thread at work takes a step to request r.                      *)
LEMMA AloneStep ==
  ASSUME Sane, Alone, traffic' = traffic, NEW t \in Thread, t \in traffic.threads,
         NEW r, req' = [req EXCEPT ![t] = r],
         OneAtATime => Faithful(dir'[active'], dir'[r.out], r)
  PROVE  Alone'
<1> SUFFICES ASSUME OneAtATime, NEW o \in Thread
             PROVE  IF o \in traffic.threads
                      THEN Faithful(dir'[active'], dir'[req'[o].out], req'[o])
                      ELSE req'[o].op = "none"
  BY DEF Alone, OneAtATime, Faithful, Written
<1>1. traffic.threads = {t}
  BY TheOne DEF Sane, Shared
<1>2. req'[t] = r /\ (o # t => req'[o] = req[o])
  BY DEF Sane
<1>3. CASE o = t
  BY <1>1, <1>2, <1>3
<1>4. CASE o # t
  BY <1>1, <1>2, <1>4 DEF Alone
<1> QED BY <1>3, <1>4

(* A step keeps it: nobody else switches, and nothing else is written.     *)
LEMMA AloneNext == Sane /\ Alone /\ [Next]_vars => Alone'
<1> SUFFICES ASSUME Sane, Alone, [Next]_vars PROVE Alone'
  OBVIOUS
<1> USE NSensorsNat
<1>1. /\ traffic \in Traffics /\ active \in Out
      /\ dir \in [Out -> Content] /\ req \in [Thread -> RequestType]
  BY DEF Sane, Shared
<1>2. ASSUME NEW t \in Thread, req[t].pc # "idle" \/ t \in traffic.threads
      PROVE  /\ req[t] \in RequestType /\ Orderly(req[t]) /\ t \in traffic.threads
             /\ OneAtATime => Faithful(dir[active], dir[req[t].out], req[t])
  BY <1>2 DEF Sane, Alone
<1>3. ASSUME NEW t \in Thread, Receive(t) PROVE Alone'
  <2> DEFINE r == [Blank(active) EXCEPT !.op = "read", !.pc = "estate"]
  <2>1. req' = [req EXCEPT ![t] = r] /\ traffic' = traffic /\ t \in traffic.threads
    BY <1>3 DEF Receive, Takes
  <2>2. r.pc = "estate" /\ r.op = "read"
    BY DEF Blank
  <2> HIDE DEF r
  <2>3. Faithful(dir'[active'], dir'[r.out], r)
    BY <2>2 DEF Faithful
  <2> QED BY <2>1, <2>3, AloneStep
<1>4. ASSUME NEW t \in Thread, Refresh(t) PROVE Alone'
  <2> DEFINE r == [Blank(active) EXCEPT !.op = "refresh", !.pc = "estate", !.run = runNo + 1]
  <2>1. req' = [req EXCEPT ![t] = r] /\ traffic' = traffic /\ t \in traffic.threads
    BY <1>4 DEF Refresh, Takes
  <2>2. r.pc = "estate" /\ r.k = 1
    BY DEF Blank
  <2> HIDE DEF r
  <2>3. Faithful(dir'[active'], dir'[r.out], r)
    BY <2>2 DEF Faithful
  <2> QED BY <2>1, <2>3, AloneStep
<1>5. ASSUME NEW t \in Thread, NEW d \in Out, Select(t, d) PROVE Alone'
  <2> DEFINE r == [Blank(d) EXCEPT !.op = "select", !.pc = "estate"]
  <2>1. req' = [req EXCEPT ![t] = r] /\ traffic' = traffic /\ t \in traffic.threads
    BY <1>5 DEF Select, Takes
  <2>2. r.pc = "estate" /\ r.op = "select"
    BY DEF Blank
  <2> HIDE DEF r
  <2>3. Faithful(dir'[active'], dir'[r.out], r)
    BY <2>2 DEF Faithful
  <2> QED BY <2>1, <2>3, AloneStep
<1>6. ASSUME NEW t \in Thread, ReadEstate(t) PROVE Alone'
  <2>1. PICK place \in {"check", "idle"} :
          /\ req' = [req EXCEPT ![t].out = active, ![t].pc = place]
          /\ place = "check" => req[t].op = "refresh" /\ ~Ran(t)
          /\ UNCHANGED <<traffic, active, dir>> /\ req[t].pc = "estate"
    BY <1>6 DEF ReadEstate, At
  <2> DEFINE r == [req[t] EXCEPT !.out = active, !.pc = place]
  <2>2. /\ r.pc = place /\ r.out = active /\ r.op = req[t].op /\ r.k = req[t].k
        /\ r.run = req[t].run /\ r.read = req[t].read /\ req[t].k \in 1 .. Loader + 1
    BY <1>2, <2>1 DEF RequestType
  <2>3. req' = [req EXCEPT ![t] = r] /\ t \in traffic.threads
    BY <1>1, <1>2, <2>1
  <2>4. ASSUME OneAtATime PROVE Faithful(dir[active], dir[r.out], r)
    <3>1. r.op = "refresh" => IF r.k > Loader THEN Written(dir[active], req[t]) ELSE r.k = 1
      BY <1>2, <2>1, <2>2, <2>4 DEF Faithful
    <3>2. r.op = "refresh" => IF r.k > Loader THEN Written(dir[active], r) ELSE r.k = 1
      BY <2>2, <3>1 DEF Written
    <3> HIDE DEF r
    <3>3. CASE place = "idle"
      BY <2>2, <3>2, <3>3 DEF Faithful
    <3>4. CASE place = "check"
      <4>1. r.k = 1
        BY <2>1, <2>2, <3>2, <3>4 DEF Ran
      <4> QED BY <2>2, <3>4, <4>1 DEF Faithful
    <3> QED BY <3>3, <3>4
  <2> HIDE DEF r
  <2> QED BY <2>1, <2>3, <2>4, AloneStep
<1>7. ASSUME NEW t \in Thread, CheckModule(t) \/ DropModule(t) PROVE Alone'
  <2>1. /\ UNCHANGED <<traffic, active, dir>> /\ req[t].pc \in {"check", "drop"}
    BY <1>7 DEF CheckModule, DropModule, At
  <2>2. CASE \E p \in {"drop", "main"} : req' = [req EXCEPT ![t].pc = p]
    <3>1. PICK p \in {"drop", "main"} : req' = [req EXCEPT ![t].pc = p]
      BY <2>2
    <3> DEFINE r == [req[t] EXCEPT !.pc = p]
    <3>2. /\ req' = [req EXCEPT ![t] = r] /\ t \in traffic.threads
          /\ r.pc = p /\ r.k = req[t].k /\ r.run = req[t].run
      BY <1>1, <1>2, <2>1, <3>1 DEF RequestType
    <3> HIDE DEF r
    <3>3. OneAtATime => Faithful(dir[active], dir[r.out], r)
      BY <1>2, <2>1, <3>2 DEF Faithful
    <3> QED BY <2>1, <3>2, <3>3, AloneStep
  <2>3. CASE req' = [req EXCEPT ![t].pc = "idle", ![t].ok = FALSE]
    <3> DEFINE r == [req[t] EXCEPT !.pc = "idle", !.ok = FALSE]
    <3>1. /\ req' = [req EXCEPT ![t] = r] /\ t \in traffic.threads
          /\ r.pc = "idle" /\ ~r.ok
      BY <1>1, <1>2, <2>1, <2>3 DEF RequestType
    <3> HIDE DEF r
    <3>2. Faithful(dir[active], dir[r.out], r)
      BY <3>1 DEF Faithful
    <3> QED BY <2>1, <3>1, <3>2, AloneStep
  <2> QED BY <1>7, <2>2, <2>3 DEF CheckModule, DropModule, At, Goto
<1>8. ASSUME NEW t \in Thread, RunSensor(t) PROVE Alone'
  <2> DEFINE r == [req[t] EXCEPT !.k = @ + 1, !.pc = "check"]
  <2>1. /\ req[t].pc = "main" /\ UNCHANGED <<traffic, active>>
        /\ dir' = [dir EXCEPT ![active].canon[req[t].k] = req[t].run]
        /\ req' = [req EXCEPT ![t].k = @ + 1, ![t].pc = "check"] /\ req[t].k < Loader
    BY <1>8 DEF RunSensor, At
  <2>2. /\ req' = [req EXCEPT ![t] = r] /\ t \in traffic.threads
        /\ r.pc = "check" /\ r.k = req[t].k + 1 /\ r.run = req[t].run
        /\ req[t].k \in 1 .. NSensors
    BY <1>1, <1>2, <2>1 DEF RequestType
  <2>3. dir'[active].canon = [dir[active].canon EXCEPT ![req[t].k] = req[t].run]
    BY <1>1, <2>1 DEF Content
  <2>4. dir[active].canon \in [1 .. NSensors -> Nat]
    BY <1>1 DEF Content
  <2> HIDE DEF r
  <2>5. ASSUME OneAtATime, NEW c \in 1 .. NSensors, c < r.k
        PROVE  dir'[active].canon[c] = r.run
    <3>1. CASE c = req[t].k
      BY <2>2, <2>3, <2>4, <3>1
    <3>2. CASE c < req[t].k
      <4>1. dir[active].canon[c] = req[t].run
        BY <1>2, <2>1, <2>2, <2>5, <3>2 DEF Faithful
      <4> QED BY <2>2, <2>3, <2>4, <3>2, <4>1
    <3> QED BY <2>2, <2>5, <3>1, <3>2
  <2>6. OneAtATime => Faithful(dir'[active'], dir'[r.out], r)
    BY <2>1, <2>2, <2>5 DEF Faithful
  <2> QED BY <2>1, <2>2, <2>6, AloneStep
<1>9. ASSUME NEW t \in Thread, LoadRecords(t) PROVE Alone'
  <2> DEFINE r == [req[t] EXCEPT !.read = dir[active].canon, !.pc = "register"]
  <2>1. /\ req[t].pc = "main" /\ req[t].k = Loader /\ UNCHANGED <<traffic, active, dir>>
        /\ req' = [req EXCEPT ![t].read = dir[active].canon, ![t].pc = "register"]
    BY <1>9 DEF LoadRecords, At
  <2>2. /\ req' = [req EXCEPT ![t] = r] /\ t \in traffic.threads
        /\ r.pc = "register" /\ r.run = req[t].run /\ r.read = dir[active].canon
    BY <1>1, <1>2, <2>1 DEF RequestType
  <2> HIDE DEF r
  <2>3. OneAtATime => Faithful(dir[active], dir[r.out], r)
    BY <1>2, <2>1, <2>2 DEF Faithful
  <2> QED BY <2>1, <2>2, <2>3, AloneStep
<1>14. ASSUME NEW t \in Thread, WriteRegister(t) PROVE Alone'
  <2> DEFINE r == [req[t] EXCEPT !.pc = "plan"]
  <2>1. /\ req[t].pc = "register" /\ UNCHANGED <<traffic, active>>
        /\ dir' = [dir EXCEPT ![active].reg = req[t].run]
        /\ req' = [req EXCEPT ![t].pc = "plan"]
    BY <1>14 DEF WriteRegister, At, Goto
  <2>2. /\ req' = [req EXCEPT ![t] = r] /\ t \in traffic.threads
        /\ r.pc = "plan" /\ r.run = req[t].run /\ r.read = req[t].read
    BY <1>1, <1>2, <2>1 DEF RequestType
  <2>3. dir'[active].reg = req[t].run
    BY <1>1, <2>1 DEF Content
  <2> HIDE DEF r
  <2>4. OneAtATime => Faithful(dir'[active'], dir'[r.out], r)
    BY <1>2, <2>1, <2>2, <2>3 DEF Faithful
  <2> QED BY <2>1, <2>2, <2>4, AloneStep
<1>10. ASSUME NEW t \in Thread, WritePlan(t) PROVE Alone'
  <2> DEFINE r == [req[t] EXCEPT !.pc = "summary"]
  <2>1. /\ req[t].pc = "plan" /\ UNCHANGED <<traffic, active>>
        /\ dir' = [dir EXCEPT ![active].poam = req[t].run]
        /\ req' = [req EXCEPT ![t].pc = "summary"]
    BY <1>10 DEF WritePlan, At, Goto
  <2>2. /\ req' = [req EXCEPT ![t] = r] /\ t \in traffic.threads
        /\ r.pc = "summary" /\ r.run = req[t].run /\ r.read = req[t].read
    BY <1>1, <1>2, <2>1 DEF RequestType
  <2>3. dir'[active].poam = req[t].run /\ dir'[active].reg = dir[active].reg
    BY <1>1, <2>1 DEF Content
  <2> HIDE DEF r
  <2>4. OneAtATime => Faithful(dir'[active'], dir'[r.out], r)
    BY <1>2, <2>1, <2>2, <2>3 DEF Faithful
  <2> QED BY <2>1, <2>2, <2>4, AloneStep
<1>11. ASSUME NEW t \in Thread, WriteSummary(t) PROVE Alone'
  <2> DEFINE r == [req[t] EXCEPT !.k = @ + 1, !.pc = "estate"]
  <2>1. /\ req[t].pc = "summary" /\ UNCHANGED <<traffic, active>>
        /\ dir' = [dir EXCEPT ![active].sum = req[t].run, ![active].kind = "DEMO"]
        /\ req' = [req EXCEPT ![t].k = @ + 1, ![t].pc = "estate"]
    BY <1>11 DEF WriteSummary, At
  <2>2. /\ req' = [req EXCEPT ![t] = r] /\ t \in traffic.threads
        /\ r.pc = "estate" /\ r.run = req[t].run /\ r.read = req[t].read
        /\ r.k > Loader
    BY <1>1, <1>2, <2>1 DEF RequestType, Orderly
  <2>3. dir'[active].sum = req[t].run /\ dir'[active].poam = dir[active].poam
        /\ dir'[active].reg = dir[active].reg
    BY <1>1, <2>1 DEF Content
  <2> HIDE DEF r
  <2>4. ASSUME OneAtATime PROVE Written(dir'[active], r)
    BY <1>2, <2>1, <2>2, <2>3, <2>4 DEF Faithful, Written
  <2>5. OneAtATime => Faithful(dir'[active'], dir'[r.out], r)
    BY <2>1, <2>2, <2>4 DEF Faithful
  <2> QED BY <2>1, <2>2, <2>5, AloneStep
<1>12. ASSUME NEW t \in Thread, Raise(t) PROVE Alone'
  <2> DEFINE r == [req[t] EXCEPT !.pc = "idle", !.ok = FALSE]
  <2>1. /\ UNCHANGED <<traffic, active, dir>> /\ req[t].pc # "idle"
        /\ req' = [req EXCEPT ![t].pc = "idle", ![t].ok = FALSE]
    BY <1>12 DEF Raise
  <2>2. /\ req' = [req EXCEPT ![t] = r] /\ t \in traffic.threads
        /\ r.pc = "idle" /\ ~r.ok
    BY <1>1, <1>2, <2>1 DEF RequestType
  <2> HIDE DEF r
  <2>3. Faithful(dir[active], dir[r.out], r)
    BY <2>2 DEF Faithful
  <2> QED BY <2>1, <2>2, <2>3, AloneStep
<1>13. CASE UNCHANGED vars
  BY <1>13 DEF vars, Alone, OneAtATime, Faithful, Written
<1> QED
  BY <1>3, <1>4, <1>5, <1>6, <1>7, <1>8, <1>9, <1>10, <1>11, <1>12, <1>13, <1>14 DEF Next, Proceed

(* "POST /api/refresh" answers with one run's register, plan, summary and  *)
(* records when it ran the collectors: for every number of them, whatever  *)
(* an earlier refresh left behind when one of them raised, where requests  *)
(* come one at a time.  It says nothing of a refresh that only reloads.    *)
THEOREM OneRunAnAnswer == Spec => []RefreshWhole
<1>1. Sane /\ Alone => RefreshWhole
  <2> SUFFICES ASSUME Sane, Alone, OneAtATime, NEW t \in Thread, Done(t, "refresh"), Ran(t)
               PROVE  Written(dir[req[t].out], req[t])
    BY DEF RefreshWhole, Written
  <2>1. Faithful(dir[active], dir[req[t].out], req[t])
    BY DEF Alone, Done
  <2> QED BY <2>1 DEF Faithful, Done, Idle, At, Ran
<1>2. Sane /\ Alone /\ [Next]_vars => Alone'
  BY AloneNext
<1> QED BY <1>1, <1>2, AloneInit, SaneHolds, PTL DEF Spec
-----------------------------------------------------------------------------
(* Whoever switches is alone: then the directory a refresh found to be the *)
(* kit's own is the one its collectors write.                              *)
LoneSwitcher ==
  \A asks \in Traffics : "select" \in asks.ops => \E t \in Thread : asks.threads \subseteq {t}

Untouched ==
  /\ \A d \in Precious : dir[d].kind = Found[d]
  /\ \A t \in Thread : req[t].pc \in Working => active \notin Precious

LEMMA PreciousReloads ==
  ASSUME NEW d \in Precious, dir[d].kind = Found[d]
  PROVE  Mode(d) = "reload"
BY DEF Precious, Mode, Lab, Demo, Ready, HasSummary, Kind

LEMMA UntouchedInit == Init => Untouched
<1> SUFFICES ASSUME Init PROVE Untouched
  OBVIOUS
<1>1. \A d \in Precious : d \in Out
  BY DEF Precious
<1>2. \A t \in Thread : req[t].pc = "idle"
  BY DEF Init, Blank
<1> QED BY <1>1, <1>2 DEF Init, Untouched, Working

(* A thread at work goes on where it is, or rests; the directories of      *)
(* others keep their kind.                                                 *)
LEMMA UntouchedStep ==
  ASSUME Sane, Untouched, NEW t \in Thread, NEW r, req' = [req EXCEPT ![t] = r],
         active' = active, r.pc \in Working => active \notin Precious,
         \A d \in Precious : dir'[d] = dir[d]
  PROVE  Untouched'
<1>1. req'[t] = r /\ \A o \in Thread \ {t} : req'[o] = req[o]
  BY DEF Sane
<1>2. Precious' = Precious
  BY DEF Precious
<1> QED BY <1>1, <1>2 DEF Untouched

LEMMA UntouchedNext ==
  ASSUME LoneSwitcher, Sane, Untouched, [Next]_vars
  PROVE  Untouched' /\ \A d \in Precious : dir'[d] = dir[d]
<1> DEFINE Goal == Untouched' /\ \A d \in Precious : dir'[d] = dir[d]
<1>1. /\ traffic \in Traffics /\ active \in Out
      /\ dir \in [Out -> Content] /\ req \in [Thread -> RequestType]
  BY DEF Sane, Shared
<1>2. ASSUME NEW t \in Thread
      PROVE  req[t] \in RequestType /\ (req[t].pc # "idle" => t \in traffic.threads)
  BY DEF Sane
<1>3. ASSUME NEW t \in Thread, Receive(t) \/ Refresh(t) PROVE Goal
  <2>1. PICK r \in {[Blank(active) EXCEPT !.op = "read", !.pc = "estate"],
                    [Blank(active) EXCEPT !.op = "refresh", !.pc = "estate", !.run = runNo + 1]} :
          req' = [req EXCEPT ![t] = r] /\ UNCHANGED <<active, dir>>
    BY <1>3 DEF Receive, Refresh
  <2>2. r.pc = "estate"
    BY <2>1 DEF Blank
  <2>3. r.pc \notin Working
    BY <2>2 DEF Working
  <2> QED BY <2>1, <2>3, UntouchedStep
<1>4. ASSUME NEW t \in Thread, NEW d \in Out, Select(t, d) PROVE Goal
  <2>1. /\ req' = [req EXCEPT ![t] = [Blank(d) EXCEPT !.op = "select", !.pc = "estate"]]
        /\ dir' = dir /\ "select" \in traffic.ops /\ t \in traffic.threads
    BY <1>4 DEF Select, Takes
  <2>2. traffic.threads \subseteq {t}
    BY <1>1, <2>1 DEF LoneSwitcher
  <2>3. ASSUME NEW o \in Thread PROVE req'[o].pc \notin Working
    <3>1. CASE o = t
      BY <1>1, <2>1, <3>1 DEF Blank, Working
    <3>2. CASE o # t
      BY <1>1, <1>2, <2>1, <2>2, <3>2 DEF Working
    <3> QED BY <3>1, <3>2
  <2>4. Precious' = Precious
    BY DEF Precious
  <2> QED BY <2>1, <2>3, <2>4 DEF Untouched
<1>5. ASSUME NEW t \in Thread, ReadEstate(t) PROVE Goal
  <2>1. PICK place \in {"check", "idle"} :
          /\ req' = [req EXCEPT ![t].out = active, ![t].pc = place]
          /\ place = "check" => Mode(active) = "collectors"
          /\ UNCHANGED <<active, dir>>
    BY <1>5 DEF ReadEstate, At
  <2> DEFINE r == [req[t] EXCEPT !.out = active, !.pc = place]
  <2>2. req' = [req EXCEPT ![t] = r] /\ r.pc = place
    BY <1>1, <1>2, <2>1 DEF RequestType
  <2>3. place = "check" => active \notin Precious
    BY <2>1, PreciousReloads DEF Untouched
  <2> HIDE DEF r
  <2>4. r.pc \in Working => active \notin Precious
    BY <2>2, <2>3 DEF Working
  <2> QED BY <2>1, <2>2, <2>4, UntouchedStep
<1>6. ASSUME NEW t \in Thread,
             CheckModule(t) \/ DropModule(t) \/ RunSensor(t) \/ LoadRecords(t)
               \/ WriteRegister(t) \/ WritePlan(t) \/ WriteSummary(t) \/ Raise(t)
      PROVE  Goal
  <2>1. active \notin Precious /\ active' = active
    BY <1>6 DEF Untouched, Working, CheckModule, DropModule, RunSensor, LoadRecords,
       WriteRegister, WritePlan, WriteSummary, Raise, At
  <2>2. PICK content : dir' = [dir EXCEPT ![active] = content]
    <3>1. \/ dir' = [dir EXCEPT ![active] = dir[active]]
          \/ dir' = [dir EXCEPT ![active].canon[req[t].k] = req[t].run]
          \/ dir' = [dir EXCEPT ![active].reg = req[t].run]
          \/ dir' = [dir EXCEPT ![active].poam = req[t].run]
          \/ dir' = [dir EXCEPT ![active].sum = req[t].run, ![active].kind = "DEMO"]
      BY <1>1, <1>6 DEF CheckModule, DropModule, RunSensor, LoadRecords,
         WriteRegister, WritePlan, WriteSummary, Raise
    <3>2. ASSUME dir' = [dir EXCEPT ![active].sum = req[t].run, ![active].kind = "DEMO"]
          PROVE  dir' = [dir EXCEPT ![active] = [dir[active] EXCEPT !.sum = req[t].run,
                                                                    !.kind = "DEMO"]]
      BY <1>1, <3>2
    <3> QED BY <3>1, <3>2
  <2>3. \A d \in Precious : dir'[d] = dir[d]
    BY <1>1, <2>1, <2>2 DEF Precious
  <2>4. PICK r : req' = [req EXCEPT ![t] = r]
    <3>1. ASSUME NEW o \in Thread \ {t} PROVE req'[o] = req[o]
      BY <1>1, <1>6 DEF CheckModule, DropModule, RunSensor, LoadRecords,
         WriteRegister, WritePlan, WriteSummary, Raise, Goto
    <3>2. req' = [o \in Thread |-> req'[o]]
      BY <1>1, <1>6 DEF CheckModule, DropModule, RunSensor, LoadRecords,
         WriteRegister, WritePlan, WriteSummary, Raise, Goto
    <3>3. req' = [req EXCEPT ![t] = req'[t]]
      BY <1>1, <3>1, <3>2
    <3> QED BY <3>3
  <2> QED BY <2>1, <2>3, <2>4, UntouchedStep
<1>7. CASE UNCHANGED vars
  BY <1>7 DEF vars, Untouched, Precious
<1> QED BY <1>3, <1>4, <1>5, <1>6, <1>7 DEF Next, Proceed

(* "LAB / live out = disk reload" (refresh_mode_for): a directory found    *)
(* with a lab's or a client's estate is never written, however many        *)
(* threads refresh and read, where a client that switches comes alone.     *)
THEOREM FoundEstatesStay == LoneSwitcher => (Spec => ReloadOnly)
<1> SUFFICES ASSUME LoneSwitcher PROVE Spec => ReloadOnly
  OBVIOUS
<1>1. Sane /\ Untouched /\ [Next]_vars => Untouched'
  BY UntouchedNext
<1>2. Sane /\ Untouched /\ [Next]_vars => [\A d \in Precious : dir'[d] = dir[d]]_vars
  BY UntouchedNext
<1> QED BY <1>1, <1>2, UntouchedInit, SaneHolds, PTL DEF Spec, ReloadOnly
=============================================================================
