-------------------------- MODULE LiveProbeProofs --------------------------
(***************************************************************************)
(* Every connect of a live probe is one that a single SCOPE text, read for *)
(* that probe, permits.  Along a probe the run knows more and more of the  *)
(* text it has got: at hash that it is one, at recheck that it is in force *)
(* and not revoked, at resolve that it is not the pack's DEMO, at connect  *)
(* that it covers the name, the address and the port.  A banner or TLS     *)
(* probe carries the same fact of its first leg along to its last connect. *)
(***************************************************************************)
EXTENDS LiveProbe, TLAPS

(* The probe a run is at, as a function of its locals.                     *)
Doing(j) == IF j.todo = <<>> THEN NoProbe ELSE Head(j.todo)
Call(j, ip) == [target |-> j.target, port |-> Doing(j).port, ip |-> ip]

Known(j) ==
  /\ DOMAIN j = DOMAIN Resting
  /\ j.got \in TextType \cup {Empty} /\ j.leg \in 1 .. 3
  /\ j.leg # 1 => Doing(j).op = "pair" /\ Grants(j.held.by, Call(j, j.held.ip))
  /\ j.pc = "bind" => j.leg = 1
  /\ j.pc \in {"hash", "bind", "recheck", "resolve", "connect"} => j.got # Empty
  /\ j.pc \in {"bind", "recheck", "resolve", "connect"} => ~j.got.revoked
  /\ j.pc \in {"resolve", "connect"} => j.got.client = "ours" /\ j.got.stamp # DemoDigest
  /\ j.pc = "connect" => Grants(j.got, Call(j, j.ip))

AttestType == [pc : {"idle", "read", "truncate", "write"}, digest : Digest,
               text : TextType \cup {Empty}]

(* The texts that lie around are texts, also one half rewritten.           *)
Files ==
  /\ scopeFile \in TextType \cup {Empty} /\ consent \in Digest
  /\ attest \in AttestType
  /\ attest.pc \in {"truncate", "write"} => attest.text # Empty

Inv == Files /\ DOMAIN job = Thread /\ \A t \in Thread : Known(job[t])

-----------------------------------------------------------------------------
LEMMA RestingKnown == Known(Resting)
  BY DEF Known, Resting

(* A run that leaves its place knows no less: the next probe starts over.  *)
LEMMA PlaceKnown ==
  ASSUME NEW j, Known(j), NEW p \in {"idle", "demo", "load", "unbind", "write", "emit"}
  PROVE  Known([j EXCEPT !.pc = p])
  BY DEF Known, Doing, Call, Resting, Grants

LEMMA MissedKnown == ASSUME NEW j, Known(j) PROVE Known([j EXCEPT !.missed = TRUE])
  BY DEF Known, Doing, Call, Resting, Grants

LEMMA NextKnown == ASSUME NEW j, Known(j) PROVE Known(Next1(j))
  BY DEF Known, Doing, Call, Resting, Grants, Next1

LEMMA RefusedKnown ==
  ASSUME Inv, NEW t \in Thread, NEW why PROVE Known(Refused(t, why))
<1>1. Known([job[t] EXCEPT !.missed = TRUE]) BY MissedKnown DEF Inv
<1>2. Known(Next1([job[t] EXCEPT !.missed = TRUE])) BY <1>1, NextKnown
<1>3. Known([job[t] EXCEPT !.pc = "unbind"]) BY PlaceKnown DEF Inv
<1> QED BY <1>2, <1>3, RestingKnown DEF Refused

LEMMA ProbeIsDoing == ASSUME NEW t PROVE Probe(t) = Doing(job[t])
  BY DEF Probe, Doing

(* One thread's locals change, to locals of which the facts hold.          *)
LEMMA OneThread ==
  ASSUME Inv, Files', NEW t \in Thread, NEW j, Known(j), Becomes(t, j)
  PROVE  Inv'
  BY DEF Inv, Becomes

-----------------------------------------------------------------------------
LEMMA NoAttestTyped == NoAttest \in AttestType
<1>1. DemoDigest \in Digest BY LiveAssumption
<1> QED BY <1>1 DEF NoAttest, AttestType

LEMMA InitInv == ASSUME Init PROVE Inv
<1>1. PICK s \in Starts : scopeFile = s.scope /\ consent = s.consent BY DEF Init
<1>2. scopeFile \in TextType /\ consent \in Digest BY <1>1, LiveAssumption
<1>3. attest \in AttestType /\ attest.pc = "idle"
  BY NoAttestTyped DEF Init, NoAttest
<1>4. Files BY <1>2, <1>3 DEF Files
<1>5. DOMAIN job = Thread /\ \A t \in Thread : job[t] = Resting BY DEF Init
<1> QED BY <1>4, <1>5, RestingKnown DEF Inv

LEMMA StepInv == ASSUME Inv, NEW t \in Thread, Start(t) \/ Step(t) PROVE Inv'
<1> DEFINE j == job[t]
<1>k. Known(j) BY DEF Inv
<1>f. Files' BY DEF Inv, Files, Start, Step, Quiet, surroundings, RefuseDemo, Load, Hash, Bind,
                    Recheck, Resolve, Connect, Unbind, WriteSnapshot, WriteCanonical
<1>1. CASE Start(t)
  <2>1. PICK a \in asks : Becomes(t, [Resting EXCEPT !.pc = "demo", !.target = a.target,
          !.ports = a.ports, !.todo = <<[op |-> "begin", port |-> a.ports[1]]>>])
    BY <1>1 DEF Start
  <2>2. Known([Resting EXCEPT !.pc = "demo", !.target = a.target,
          !.ports = a.ports, !.todo = <<[op |-> "begin", port |-> a.ports[1]]>>])
    BY DEF Known, Resting
  <2> QED BY <2>1, <2>2, <1>f, OneThread
<1>2. CASE RefuseDemo(t)
  <2>1. Known([j EXCEPT !.pc = "load"]) BY <1>k, PlaceKnown
  <2> QED BY <1>2, <1>f, <2>1, RefusedKnown, OneThread DEF RefuseDemo
<1>3. CASE Load(t)
  <2>1. ASSUME scopeFile # Empty PROVE Known([j EXCEPT !.pc = "hash", !.got = scopeFile])
    BY <1>k, <2>1 DEF Inv, Files, Known, Doing, Call, Resting, Grants
  <2> QED BY <1>3, <1>f, <2>1, RefusedKnown, OneThread DEF Load, TextRead
<1>4. CASE Hash(t)
  <2>1. ASSUME Refusal(j.got, consent, today) = "none" PROVE Known([j EXCEPT !.pc = "recheck"])
    BY <1>k, <1>4, <2>1 DEF Hash, At, Refusal, Known, Doing, Call, Resting, Grants
  <2>2. ASSUME Refusal(j.got, consent, today) = "none", Op(t) = "begin"
        PROVE  Known([j EXCEPT !.pc = "bind"])
    BY <1>k, <1>4, <2>2, ProbeIsDoing
       DEF Hash, At, Op, Refusal, Known, Doing, Call, Resting, Grants
  <2> QED BY <1>4, <1>f, <2>1, <2>2, RefusedKnown, OneThread DEF Hash
<1>5. CASE Bind(t)
  <2>1. j.leg = 1 BY <1>k, <1>5 DEF Bind, At, Known
  <2>2. Known([[j EXCEPT !.bound = j.got] EXCEPT !.pc = "unbind"])
    BY <1>k, <2>1 DEF Known, Doing, Call, Resting
  <2>3. Known([[j EXCEPT !.bound = j.got] EXCEPT !.pc = "demo", !.todo = Work(j.ports)])
    BY <1>k, <2>1 DEF Known, Doing, Call, Resting
  <2>4. [j EXCEPT !.bound = j.got].ports = j.ports BY <1>k DEF Known, Resting
  <2> QED BY <1>5, <1>f, <2>2, <2>3, <2>4, RestingKnown, OneThread DEF Bind
<1>6. CASE Recheck(t)
  <2>1. Known(Next1([j EXCEPT !.bound = j.got]))
    <3>1. Known([j EXCEPT !.bound = j.got])
      BY <1>k DEF Known, Doing, Call, Resting, Grants
    <3> QED BY <3>1, NextKnown
  <2>2. ASSUME ~IsDemo(j.got, consent) PROVE Known([j EXCEPT !.pc = "resolve"])
    BY <1>k, <1>6, <2>2 DEF Recheck, At, IsDemo, TextType, Known, Doing, Call, Resting, Grants
  <2> QED BY <1>6, <1>f, <2>1, <2>2, RefusedKnown, OneThread DEF Recheck
<1>7. CASE Resolve(t)
  <2> DEFINE ip == Address(j.target)
             why == Unauthorised(j.got, j.target, Probe(t).port, ip)
  <2>1. ASSUME why = "none" PROVE Grants(j.got, Call(j, ip))
    BY <1>k, <1>7, <2>1, ProbeIsDoing
       DEF Resolve, At, Unauthorised, Known, Resting, Grants, Call
  <2>2. ASSUME why = "none" PROVE Known([j EXCEPT !.pc = "connect", !.ip = ip])
    BY <1>k, <2>1, <2>2, <1>7 DEF Resolve, At, Known, Doing, Call, Resting, Grants
  <2>3. ASSUME why = "none", Op(t) = "pair"
        PROVE  Known([j EXCEPT !.pc = "demo", !.leg = 2, !.held = [ip |-> ip, by |-> j.got]])
    BY <1>k, <2>1, <2>3, ProbeIsDoing DEF Op, Known, Doing, Call, Resting, Grants
  <2> QED BY <1>7, <1>f, <1>k, <2>2, <2>3, NextKnown, RefusedKnown, OneThread DEF Resolve
<1>8. CASE Connect(t)
  <2>1. ASSUME j.leg = 2 PROVE Known([j EXCEPT !.leg = 3])
    BY <1>k, <2>1 DEF Known, Doing, Call, Resting, Grants
  <2> QED BY <1>8, <1>f, <1>k, <2>1, NextKnown, OneThread DEF Connect
<1>9. CASE Unbind(t) \/ WriteSnapshot(t) \/ WriteCanonical(t)
  <2> QED BY <1>9, <1>f, <1>k, PlaceKnown, RestingKnown, OneThread
          DEF Unbind, WriteSnapshot, WriteCanonical
<1> QED BY <1>1, <1>2, <1>3, <1>4, <1>5, <1>6, <1>7, <1>8, <1>9 DEF Step

LEMMA SurroundInv == ASSUME Inv, Surround PROVE Inv'
<1>1. UNCHANGED job BY DEF Surround, Untouched, EditScope, EditConsent, Midnight, Move,
        AttestConsent, AttestRead, AttestTruncate, AttestWrite, AttestDies
<1>2. Files'
  <2>1. CASE EditScope \/ EditConsent \/ Midnight \/ Move
    BY <2>1, LiveAssumption DEF Inv, Files, EditScope, EditConsent, Midnight, Move
  <2>2. CASE AttestConsent \/ AttestRead \/ AttestDies
    BY <2>2, NoAttestTyped
       DEF Inv, Files, AttestConsent, AttestRead, AttestDies, NoAttest, AttestType
  <2>3. CASE AttestTruncate BY <2>3 DEF Inv, Files, AttestTruncate, AttestType
  <2>4. CASE AttestWrite
    <3>1. attest.text \in TextType /\ attest.digest \in Digest BY <2>4 DEF AttestWrite, Inv, Files, AttestType
    <3>2. [attest.text EXCEPT !.stamp = attest.digest] \in TextType BY <3>1 DEF TextType
    <3> QED BY <2>4, <3>2, NoAttestTyped DEF Inv, Files, AttestWrite, NoAttest
  <2> QED BY <2>1, <2>2, <2>3, <2>4 DEF Surround
<1> QED BY <1>1, <1>2 DEF Inv

LEMMA StutterInv == ASSUME Inv, UNCHANGED vars PROVE Inv'
  BY DEF Inv, Files, vars, surroundings

LEMMA InvAuthorises == ASSUME Inv PROVE ConnectsAuthorised
<1> SUFFICES ASSUME NEW t \in Thread, At(t, "connect") PROVE Grants(Dialled(t).by, Dialled(t))
  BY DEF ConnectsAuthorised
<1>1. Known(job[t]) BY DEF Inv
<1> QED BY <1>1, ProbeIsDoing DEF At, Known, Grants, Dialled, Call

\* For every set of SCOPE texts, consents, names and ports, any number of
\* threads and whatever is edited while they run, each connect goes to a name,
\* address and port that one text read for that probe permits (authorize_endpoint
\* and its callers in shared/web_tls_live.py).
THEOREM AuthorisedConnects == Spec => []ConnectsAuthorised
<1>1. Init => Inv BY InitInv
<1>2. Inv /\ [Next]_vars => Inv' BY StepInv, SurroundInv, StutterInv DEF Next
<1>3. Inv => ConnectsAuthorised BY InvAuthorises
<1> QED BY <1>1, <1>2, <1>3, PTL DEF Spec

-----------------------------------------------------------------------------
(* Late connects.  Whoever works on probes has the binding, so one run at  *)
(* most connects.  Once a late connect is counted, what that run has read  *)
(* is of the present (Current), but for a banner or TLS probe before its   *)
(* last connect, which is the second and last of the late ones.            *)

Working(j) == j.pc \notin {"idle", "unbind", "write", "emit"}

Exclusive(t) ==
  LET j == job[t]
  IN /\ j.pc = "unbind" \/ (Working(j) /\ j.bound # Empty) => holder = t
     /\ Working(j) /\ j.bound = Empty => Doing(j).op = "begin"
     /\ j.pc \in {"recheck", "resolve", "connect"} => j.bound # Empty

Current(j) ==
  Working(j) /\ j.bound # Empty =>
    /\ j.pc \in {"hash", "recheck", "resolve", "connect"} => j.got = scopeFile
    /\ j.pc \in {"recheck", "resolve", "connect"} => Refusal(scopeFile, consent, today) = "none"
    /\ j.pc \in {"resolve", "connect"} => ~IsDemo(scopeFile, consent)
    /\ j.pc = "connect" /\ j.leg # 3 =>
         Unauthorised(scopeFile, j.target, Doing(j).port, j.ip) = "none"
    /\ j.leg # 1 =>
         Standing(scopeFile, consent, today, j.target, j.held.ip, Doing(j).port)

LastLeg(t) == At(t, "connect") /\ job[t].leg = 3 /\ job[t].bound # Empty

Counted ==
  \/ late = 0
  \/ late \in {1, 2} /\ \A t \in Thread : Current(job[t])
  \/ late = 1 /\ \E t \in Thread : LastLeg(t)

LateInv == Inv /\ (\A t \in Thread : Exclusive(t)) /\ Counted

LEMMA InitLate == ASSUME Init PROVE LateInv
<1>1. Inv BY InitInv
<1>2. ASSUME NEW t \in Thread PROVE Exclusive(t)
  BY DEF Init, Exclusive, Resting, Working
<1> QED BY <1>1, <1>2 DEF LateInv, Counted, Init

(* The binding is held by the thread that works under it.                  *)
LEMMA ExclusiveStep ==
  ASSUME LateInv, NEW t \in Thread, Start(t) \/ Step(t), NEW u \in Thread
  PROVE  Exclusive(u)'
<1> DEFINE j == job[t]
<1>k. Known(j) /\ Known(job[u]) /\ Exclusive(t) /\ Exclusive(u) /\ Nobody \notin Thread
  BY LiveAssumption DEF LateInv, Inv
<1>d. DOMAIN job = Thread BY DEF LateInv, Inv
<1>1. CASE Start(t)
  <2>1. PICK a \in asks : job' = [job EXCEPT ![t] = [Resting EXCEPT !.pc = "demo",
          !.target = a.target, !.ports = a.ports, !.todo = <<[op |-> "begin", port |-> a.ports[1]]>>]]
    BY <1>1 DEF Start, Becomes
  <2>2. /\ job[t]'.pc = "demo" /\ job[t]'.bound = Empty
        /\ job[t]'.todo = <<[op |-> "begin", port |-> a.ports[1]]>>
    BY <2>1, <1>d DEF Resting
  <2>3. Doing(job[t]').op = "begin" BY <2>2 DEF Doing
  <2>4. Exclusive(t)' BY <2>2, <2>3 DEF Exclusive, Working
  <2>5. u # t => job[u]' = job[u] BY <2>1, <1>d
  <2>6. UNCHANGED holder BY <1>1 DEF Start
  <2> QED BY <2>4, <2>5, <2>6, <1>k DEF Exclusive
<1>2. ASSUME NEW why, Becomes(t, Refused(t, why)), UNCHANGED holder, Working(j)
      PROVE  Exclusive(u)'
  BY <1>2, <1>k, <1>d, ProbeIsDoing
     DEF Refused, Becomes, Next1, Exclusive, Working, Doing, Resting, Known, Op
<1>3. CASE RefuseDemo(t)
  BY <1>3, <1>2, <1>k, <1>d
     DEF RefuseDemo, At, Becomes, Quiet, Exclusive, Working, Doing, Resting, Known
<1>4. CASE Load(t)
  BY <1>4, <1>2, <1>k, <1>d
     DEF Load, At, Becomes, Quiet, Exclusive, Working, Doing, Resting, Known
<1>5. CASE Hash(t)
  BY <1>5, <1>2, <1>k, <1>d, ProbeIsDoing
     DEF Hash, At, Becomes, Quiet, Exclusive, Working, Doing, Resting, Known, Op
<1>6. CASE Bind(t)
  <2> DEFINE b == [j EXCEPT !.bound = j.got]
  <2>b. DOMAIN b = DOMAIN Resting /\ b.bound # Empty /\ j.pc = "bind"
    BY <1>6, <1>k DEF Bind, At, Known, Resting
  <2>u. u # t => job[u]' = job[u] BY <1>6, <1>d DEF Bind, Becomes
  <2>1. CASE holder # Nobody
    <3>1. job[t]' = Resting /\ holder' = holder BY <1>6, <2>1, <1>d DEF Bind, Becomes
    <3> QED BY <3>1, <2>u, <1>k DEF Exclusive, Resting, Working
  <2>2. CASE holder = Nobody
    <3>1. holder' = t BY <1>6, <2>2 DEF Bind
    <3>2. \/ job[t]' = [b EXCEPT !.pc = "demo", !.todo = Work(b.ports)]
          \/ job[t]' = [b EXCEPT !.pc = "unbind"]
      BY <1>6, <2>2, <1>d DEF Bind, Becomes
    <3>3. job[t]'.pc \in {"demo", "unbind"} /\ job[t]'.bound # Empty
      <4> HIDE DEF b
      <4> QED BY <3>2, <2>b DEF Resting
    <3>4. Exclusive(t)' BY <3>1, <3>3 DEF Exclusive, Working
    <3>5. u # t => Exclusive(u)' BY <2>u, <2>2, <1>k DEF Exclusive
    <3> QED BY <3>4, <3>5
  <2> QED BY <2>1, <2>2
<1>7. CASE Recheck(t)
  BY <1>7, <1>2, <1>k, <1>d
     DEF Recheck, At, Becomes, Quiet, Exclusive, Working, Doing, Resting, Known, Next1
<1>8. CASE Resolve(t)
  BY <1>8, <1>2, <1>k, <1>d
     DEF Resolve, At, Becomes, Quiet, Exclusive, Working, Doing, Resting, Known, Next1
<1>9. CASE Connect(t)
  BY <1>9, <1>k, <1>d
     DEF Connect, At, Becomes, Exclusive, Working, Doing, Resting, Known, Next1
<1>10. CASE Unbind(t) \/ WriteSnapshot(t) \/ WriteCanonical(t)
  BY <1>10, <1>k, <1>d
     DEF Unbind, WriteSnapshot, WriteCanonical, At, Becomes, Exclusive, Working, Doing, Resting, Known
<1> QED BY <1>1, <1>3, <1>4, <1>5, <1>6, <1>7, <1>8, <1>9, <1>10 DEF Step

(* Only the thread with the binding can be before a connect or a last leg. *)
LEMMA OthersRest ==
  ASSUME LateInv, NEW t \in Thread, NEW u \in Thread \ {t}, holder = t
  PROVE  Current(job[u])
  BY DEF LateInv, Exclusive, Current

(* What t's own reading knows is of the present when it read no earlier.   *)
LEMMA CurrentStep ==
  ASSUME LateInv, NEW t \in Thread, Start(t) \/ Step(t), Current(job[t]), ~Connect(t)
  PROVE  Current(job[t])'
<1> DEFINE j == job[t]
<1>k. Known(j) /\ Exclusive(t) /\ DOMAIN job = Thread BY DEF LateInv, Inv
<1>1. CASE Start(t)
  BY <1>1, <1>k DEF Start, Becomes, Current, Working, Resting
<1>2. ASSUME NEW why, Becomes(t, Refused(t, why)), Quiet PROVE Current(job[t])'
  BY <1>2, <1>k DEF Refused, Becomes, Next1, Current, Working, Resting, Known
<1>3. CASE RefuseDemo(t)
  BY <1>3, <1>2, <1>k DEF RefuseDemo, At, Becomes, Quiet, surroundings, Current, Working,
     Doing, Resting, Known
<1>4. CASE Load(t)
  BY <1>4, <1>2, <1>k DEF Load, TextRead, At, Becomes, Quiet, surroundings, Current, Working,
     Doing, Resting, Known
<1>5. CASE Hash(t)
  BY <1>5, <1>2, <1>k DEF Hash, At, Becomes, Quiet, surroundings, Current, Working,
     Doing, Resting, Known
<1>6. CASE Bind(t)
  <2> DEFINE b == [j EXCEPT !.bound = j.got]
  <2>b. DOMAIN b = DOMAIN Resting /\ b.leg = 1
    BY <1>6, <1>k DEF Bind, At, Known, Resting
  <2>1. \/ job[t]' = Resting
        \/ job[t]' = [b EXCEPT !.pc = "demo", !.todo = Work(b.ports)]
        \/ job[t]' = [b EXCEPT !.pc = "unbind"]
    BY <1>6, <1>k DEF Bind, Becomes
  <2>2. job[t]'.pc \in {"idle", "unbind"} \/ (job[t]'.pc = "demo" /\ job[t]'.leg = 1)
    <3> HIDE DEF b
    <3>1. {"pc", "leg", "todo"} \subseteq DOMAIN b BY <2>b DEF Resting
    <3>2. Resting.pc = "idle" BY DEF Resting
    <3> QED BY <2>1, <2>b, <3>1, <3>2
  <2> QED BY <2>2 DEF Current, Working
<1>7. CASE Recheck(t)
  BY <1>7, <1>2, <1>k DEF Recheck, At, Becomes, Quiet, surroundings, Current, Working,
     Doing, Resting, Known, Next1
<1>8. CASE Resolve(t)
  BY <1>8, <1>2, <1>k, ProbeIsDoing DEF Resolve, At, Becomes, Quiet, surroundings, Current, Working,
     Doing, Resting, Known, Next1, Standing
<1>10. CASE Unbind(t) \/ WriteSnapshot(t) \/ WriteCanonical(t)
  BY <1>10, <1>k DEF Unbind, WriteSnapshot, WriteCanonical, At, Becomes, Current, Working,
     Resting, Known
<1> QED BY <1>1, <1>3, <1>4, <1>5, <1>6, <1>7, <1>8, <1>10 DEF Step

(* A connect by t: late ones are the first after the change, then perhaps  *)
(* the last leg of the same probe.                                         *)
LEMMA ConnectCounted == ASSUME LateInv, NEW t \in Thread, Connect(t) PROVE Counted'
<1> DEFINE j == job[t]
<1>k. Known(j) /\ Exclusive(t) /\ DOMAIN job = Thread BY DEF LateInv, Inv
<1>h. holder = t /\ j.bound # Empty /\ holder' = holder /\ UNCHANGED surroundings
  BY <1>k DEF Exclusive, Connect, At, Working
<1>o. \A u \in Thread \ {t} : job[u]' = job[u] /\ Current(job[u])'
  <2> TAKE u \in Thread \ {t}
  <2>1. Current(job[u]) BY <1>h, OthersRest
  <2>2. job[u]' = job[u] BY <1>k DEF Connect, Becomes
  <2> QED BY <1>h, <2>1, <2>2 DEF Current, surroundings
<1>c. late' \in {late, late + 1} BY DEF Connect, Late
<1>1. CASE j.leg = 3
  <2>1. job[t]' = Next1(j) BY <1>1, <1>k DEF Connect, Becomes
  <2>2. Current(job[t])' BY <2>1, <1>k DEF Next1, Current, Working, Known, Resting
  <2>3. late = 2 => late' = late
    <3>1. late = 2 => Current(j) BY DEF LateInv, Counted
    <3> QED BY <3>1, <1>1, <1>k, <1>h, ProbeIsDoing
        DEF Connect, Late, Dialled, Current, At, Working
  <2> QED BY <1>c, <1>o, <2>2, <2>3 DEF LateInv, Counted
<1>2. CASE j.leg # 3
  <2>1. \/ job[t]' = Next1(j)
        \/ j.leg = 2 /\ job[t]' = [j EXCEPT !.leg = 3]
    BY <1>2, <1>k DEF Connect, Becomes
  <2>2. CASE late = 0
    <3>1. CASE job[t]' = Next1(j)
      <4>1. Current(job[t])' BY <3>1, <1>k DEF Next1, Current, Working, Known, Resting
      <4> QED BY <4>1, <2>2, <1>c, <1>o DEF Counted
    <3>2. CASE j.leg = 2 /\ job[t]' = [j EXCEPT !.leg = 3]
      <4>1. LastLeg(t)' BY <3>2, <1>k, <1>h DEF LastLeg, At, Connect, Known, Resting
      <4> QED BY <4>1, <2>2, <1>c DEF Counted
    <3> QED BY <2>1, <3>1, <3>2
  <2>3. CASE late # 0
    <3>1. \A u \in Thread : LastLeg(u) => u = t
      BY <1>h DEF LateInv, Exclusive, LastLeg, At, Working
    <3>2. late \in {1, 2} /\ Current(j)
      BY <2>3, <3>1, <1>2 DEF LateInv, Counted, LastLeg
    <3>3. late' = late
      BY <3>2, <1>2, <1>k, <1>h, ProbeIsDoing
         DEF Connect, Late, Dialled, Current, At, Working, Standing
    <3>4. Current(job[t])'
      BY <3>2, <2>1, <1>k, <1>h
         DEF Current, Next1, Working, Known, Resting, Doing, Connect, At, surroundings
    <3> QED BY <3>2, <3>3, <3>4, <1>o DEF Counted
  <2> QED BY <2>2, <2>3
<1> QED BY <1>1, <1>2

LEMMA StepCounted ==
  ASSUME LateInv, NEW t \in Thread, Start(t) \/ Step(t) PROVE Counted'
<1>1. CASE Connect(t) BY <1>1, ConnectCounted
<1>2. CASE ~Connect(t)
  <2>1. UNCHANGED <<late, scopeFile, consent, today>> /\ DOMAIN job = Thread
    BY <1>2 DEF LateInv, Inv, Start, Step, Quiet, surroundings, RefuseDemo, Load, Hash, Bind,
       Recheck, Resolve, Unbind, WriteSnapshot, WriteCanonical
  <2>2. \A u \in Thread \ {t} : job[u]' = job[u]
    BY <2>1, <1>2 DEF Becomes, Start, Step, RefuseDemo, Load, Hash, Bind,
       Recheck, Resolve, Unbind, WriteSnapshot, WriteCanonical
  <2>3. \A u \in Thread \ {t} : Current(job[u]) => Current(job[u])'
    BY <2>1, <2>2 DEF Current
  <2>4. CASE late = 0 BY <2>1, <2>4 DEF Counted
  <2>5. CASE late \in {1, 2} /\ \A u \in Thread : Current(job[u])
    <3>1. Current(job[t])' BY <2>5, <1>2, CurrentStep
    <3> QED BY <3>1, <2>1, <2>3, <2>5 DEF Counted
  <2>6. CASE late = 1 /\ \E u \in Thread : LastLeg(u)
    <3>1. PICK u \in Thread : LastLeg(u) BY <2>6
    <3>2. u # t
      BY <3>1, <1>2 DEF LastLeg, At, Start, Step, RefuseDemo, Load, Hash, Bind, Recheck, Resolve,
         Unbind, WriteSnapshot, WriteCanonical
    <3>3. LastLeg(u)' BY <3>1, <3>2, <2>2 DEF LastLeg, At
    <3> QED BY <3>3, <2>1, <2>6 DEF Counted
  <2> QED BY <2>4, <2>5, <2>6 DEF LateInv, Counted
<1> QED BY <1>1, <1>2

LEMMA SurroundLate == ASSUME LateInv, Surround PROVE LateInv'
<1>1. Inv' BY SurroundInv DEF LateInv
<1>2. UNCHANGED <<job, holder>>
  BY DEF Surround, Untouched, EditScope, EditConsent, Midnight, Move,
         AttestConsent, AttestRead, AttestTruncate, AttestWrite, AttestDies
<1>3. late' = 0 \/ UNCHANGED <<late, scopeFile, consent, today>>
  BY DEF Surround, EditScope, EditConsent, Midnight, Move,
         AttestConsent, AttestRead, AttestTruncate, AttestWrite, AttestDies
<1>4. Counted' BY <1>2, <1>3 DEF LateInv, Counted, Current, LastLeg, At
<1>5. \A t \in Thread : Exclusive(t)' BY <1>2 DEF LateInv, Exclusive
<1> QED BY <1>1, <1>4, <1>5 DEF LateInv

LEMMA StutterLate == ASSUME LateInv, UNCHANGED vars PROVE LateInv'
<1>1. Inv' BY StutterInv DEF LateInv
<1> QED BY <1>1 DEF LateInv, Exclusive, Counted, Current, LastLeg, At, vars, surroundings

\* However many threads and runs there are and however often SCOPE, consent and
\* date change, a change is followed by at most two connects that it forbids
\* (_require_bound_scope before every probe of shared/web_tls_live.py).
THEOREM LateConnectsBounded == Spec => []FewLateConnects
<1>1. Init => LateInv BY InitLate
<1>2. ASSUME LateInv, NEW t \in Thread, Start(t) \/ Step(t) PROVE LateInv'
  <2>1. Inv' BY <1>2, StepInv DEF LateInv
  <2>2. Counted' BY <1>2, StepCounted
  <2>3. \A u \in Thread : Exclusive(u)' BY <1>2, ExclusiveStep
  <2> QED BY <2>1, <2>2, <2>3 DEF LateInv
<1>3. LateInv /\ [Next]_vars => LateInv'
  BY <1>2, SurroundLate, StutterLate DEF Next
<1>4. LateInv => FewLateConnects BY DEF LateInv, Counted, FewLateConnects
<1> QED BY <1>1, <1>3, <1>4, PTL DEF Spec
=============================================================================
