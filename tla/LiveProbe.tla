----------------------------- MODULE LiveProbe -----------------------------
(***************************************************************************)
(* Live web and TLS probes (shared/web_tls_live.py) behind the SCOPE gate  *)
(* (dropbox/scope.py).  A run loads SCOPE, takes the process's one binding *)
(* and works off its probes: gates of the preflight, TCP connects, HTTP    *)
(* exchanges, TLS and SSH banners.  Each reads SCOPE and consent again,    *)
(* resolves the target and connects to the address it checked.  Meanwhile  *)
(* the operator edits SCOPE and consent, days pass, the name moves to      *)
(* another address and `dropbox attest --write` rewrites the file.         *)
(***************************************************************************)
EXTENDS Integers, Sequences, FiniteSets

CONSTANTS
  Thread,         \* threads of one process that call run_live
  Name, Ip,       \* host names and addresses
  NoIp,           \* what does not resolve
  Port,
  Web,            \* ports that have a default URL (80, 443, 8080, 8443)
  Paired,         \* ports whose probe connects twice (TLS 443, 8443; SSH 22)
  Exchanges,      \* HTTP exchanges of one URL
  Day,
  Digest, DemoDigest,   \* LF-canonical digests of consent texts
  Texts,          \* what the SCOPE file may say
  Starts,         \* [scope, consent, today, dns] before the first run, what runs
                  \* may be asked for, and the bounds: changes of the
                  \* surroundings, runs
  Empty,          \* a SCOPE file that is missing, torn or empty
  Nobody

Target == Name \cup Ip
TextType == [client: {"ours", "demo"}, stamp: Digest, days: SUBSET Day,
             revoked: BOOLEAN, ports: SUBSET Port, hosts: SUBSET Target]

ASSUME LiveAssumption ==
  /\ Name \cap Ip = {} /\ NoIp \notin Target /\ Nobody \notin Thread
  /\ Web \subseteq Port /\ Paired \subseteq Port
  /\ Exchanges \in Nat \ {0} /\ Day \subseteq Nat /\ DemoDigest \in Digest
  /\ Texts \subseteq TextType /\ Empty \notin TextType
  /\ Starts \subseteq [scope: Texts, consent: Digest, today: Day, dns: [Name -> Ip],
                 asks: SUBSET [target: Target, ports: Seq(Port) \ {<<>>}],
                 edits: Nat, runs: Nat]

VARIABLES
  scopeFile,    \* SCOPE.yaml
  consent,      \* digest of the consent file
  today,
  dns,          \* [Name -> its address]
  attest,       \* `dropbox attest --write` in progress
  holder,       \* the thread in _bind_scope
  job,          \* [Thread -> the run's place and locals]
  late,         \* see Late
  snapshot,     \* the file of --out
  canonical,    \* out/canonical/web_tls.jsonl
  asks,         \* never changes
  edits, runs   \* what is left of the bounds

surroundings == <<scopeFile, consent, today, dns, attest, edits>>
results == <<snapshot, canonical>>
vars == <<surroundings, holder, job, late, results, asks, runs>>

NoProbe == [op |-> "none", port |-> 0]
NoHold == [ip |-> NoIp, by |-> Empty]
Resting == [pc |-> "idle", target |-> NoIp, ports |-> <<>>, todo |-> <<>>, leg |-> 1,
            bound |-> Empty, got |-> Empty, ip |-> NoIp, held |-> NoHold,
            missed |-> FALSE, ok |-> FALSE]
NoAttest == [pc |-> "idle", digest |-> DemoDigest, text |-> Empty]

-----------------------------------------------------------------------------
(* The gate. *)

(* _refuse_demo_scope: a file that does not parse is left to load_scope.    *)
IsDemo(text, digest) ==
  text # Empty /\ (text.client = "demo" \/ DemoDigest \in {text.stamp, digest})

(* load_scope's refusals, in its order.                                     *)
Refusal(text, digest, day) ==
  IF text = Empty THEN "empty"
  ELSE IF digest # text.stamp THEN "consent"
  ELSE IF day \notin text.days THEN "window"
  ELSE IF text.revoked THEN "revoked"
  ELSE "none"

(* resolve_authorized: the name first, then what it resolves to.            *)
Unauthorised(text, target, port, ip) ==
  IF target \notin text.hosts THEN "target"
  ELSE IF port \notin text.ports THEN "port"
  ELSE IF ip = NoIp THEN "resolve"
  ELSE IF ip \notin text.hosts THEN "ip"
  ELSE "none"

Address(target) == IF target \in Ip THEN target ELSE dns[target]

(* http_exchange turns these refusals of authorize_endpoint into a row      *)
(* {"error": ...}; the others end the run.                                  *)
Soft == {"empty", "window", "target", "port", "resolve", "ip"}

-----------------------------------------------------------------------------
(* The probes of a run: _preflight, then build_snapshot.                    *)

Each(op, ports) == [i \in DOMAIN ports |-> [op |-> op, port |-> ports[i]]]

(* Of an exchange: SCOPE is read for itself, and again for the connect.     *)
Asks(ports) ==
  LET each == 2 * Exchanges
      urls == SelectSeq(ports, LAMBDA p : p \in Web)
  IN [i \in 1 .. each * Len(urls) |->
        [op |-> IF i % 2 = 1 THEN "require" ELSE "ask", port |-> urls[((i - 1) \div each) + 1]]]

Work(ports) ==
  Each("gate", <<ports[1]>> \o ports)
  \o <<[op |-> "require", port |-> ports[1]]>>
  \o Each("open", ports) \o Asks(ports)
  \o Each("pair", SelectSeq(ports, LAMBDA p : p \in Paired))

At(t, pc) == job[t].pc = pc
Probe(t) == IF job[t].todo = <<>> THEN NoProbe ELSE Head(job[t].todo)
Op(t) == Probe(t).op
Becomes(t, j) == job' = [job EXCEPT ![t] = j]

(* The next probe, or the end of build_snapshot.                            *)
Next1(j) ==
  IF Len(j.todo) > 1 THEN [j EXCEPT !.pc = "demo", !.todo = Tail(@), !.leg = 1]
  ELSE [j EXCEPT !.pc = "unbind", !.ok = TRUE]

(* A LiveRefuse: it leaves the with statement if the run is in it.          *)
Refused(t, why) ==
  IF Op(t) = "ask" /\ why \in Soft THEN Next1([job[t] EXCEPT !.missed = TRUE])
  ELSE IF holder = t THEN [job[t] EXCEPT !.pc = "unbind"]
  ELSE Resting

Quiet == UNCHANGED <<surroundings, holder, late, results, asks, runs>>

(* run_live.                                                                *)
Start(t) ==
  /\ At(t, "idle") /\ runs > 0
  /\ \E a \in asks :
       Becomes(t, [Resting EXCEPT !.pc = "demo", !.target = a.target, !.ports = a.ports,
                                  !.todo = <<[op |-> "begin", port |-> a.ports[1]]>>])
  /\ runs' = runs - 1
  /\ UNCHANGED <<surroundings, holder, late, results, asks>>

(* The reading of SCOPE, from run_live and from _require_bound_scope:       *)
(* _refuse_demo_scope, then load_scope's text and its consent file.         *)
RefuseDemo(t) ==
  /\ At(t, "demo")
  /\ Becomes(t, IF IsDemo(scopeFile, consent) THEN Refused(t, "demo")
                ELSE [job[t] EXCEPT !.pc = "load"])
  /\ Quiet

\* Mutant: a run that is bound trusts the SCOPE it was bound with.
BoundRead(t) == IF job[t].bound = Empty THEN scopeFile ELSE job[t].bound

(* The binding only says which file it is.                                  *)
TextRead(t) == scopeFile

Load(t) ==
  /\ At(t, "load")
  /\ Becomes(t, IF TextRead(t) = Empty THEN Refused(t, "empty")
                ELSE [job[t] EXCEPT !.pc = "hash", !.got = TextRead(t)])
  /\ Quiet

Hash(t) ==
  /\ At(t, "hash")
  /\ LET why == Refusal(job[t].got, consent, today)
     IN Becomes(t, IF why # "none" THEN Refused(t, why)
                   ELSE [job[t] EXCEPT !.pc = IF Op(t) = "begin" THEN "bind" ELSE "recheck"])
  /\ Quiet

(* _bind_scope, and the checks of _preflight before its first gate.         *)
Bind(t) ==
  /\ At(t, "bind")
  /\ LET j == [job[t] EXCEPT !.bound = job[t].got]
         covered == /\ j.target \in j.got.hosts
                    /\ \A i \in DOMAIN j.ports : j.ports[i] \in j.got.ports
     IN IF holder # Nobody THEN Becomes(t, Resting) /\ UNCHANGED holder
        ELSE /\ holder' = t
             /\ Becomes(t, IF covered THEN [j EXCEPT !.pc = "demo", !.todo = Work(j.ports)]
                           ELSE [j EXCEPT !.pc = "unbind"])
  /\ UNCHANGED <<surroundings, late, results, asks, runs>>

(* The end of _require_bound_scope: what was loaded may be the pack's DEMO  *)
(* although the file was not when it was first looked at.                   *)
Recheck(t) ==
  /\ At(t, "recheck")
  /\ Becomes(t, IF IsDemo(job[t].got, consent) THEN Refused(t, "demo")
                ELSE IF Op(t) = "require" THEN Next1([job[t] EXCEPT !.bound = job[t].got])
                ELSE [job[t] EXCEPT !.pc = "resolve"])
  /\ Quiet

(* resolve_authorized.  The first leg of a pair keeps the address for its   *)
(* last connect and opens the port like any other in between.               *)
Resolve(t) ==
  /\ At(t, "resolve")
  /\ LET j == job[t]
         ip == Address(j.target)
         why == Unauthorised(j.got, j.target, Probe(t).port, ip)
     IN Becomes(t, IF why # "none" THEN Refused(t, why)
                   ELSE IF Op(t) = "gate" THEN Next1(j)
                   ELSE IF Op(t) = "pair" /\ j.leg = 1
                     THEN [j EXCEPT !.pc = "demo", !.leg = 2, !.held = [ip |-> ip, by |-> j.got]]
                   ELSE [j EXCEPT !.pc = "connect", !.ip = ip])
  /\ Quiet

(* What SCOPE, consent and date say now of a connect.                       *)
Standing(text, digest, day, target, ip, port) ==
  /\ ~IsDemo(text, digest) /\ Refusal(text, digest, day) = "none"
  /\ Unauthorised(text, target, port, ip) = "none"

(* Late counts the connects, since SCOPE, consent or date last changed,     *)
(* that they do not permit.                                                 *)
Late(c) ==
  IF Standing(scopeFile, consent, today, c.target, c.ip, c.port) THEN late ELSE late + 1

\* Mutant: the connect resolves the name itself.
DialledByName(t) ==
  [target |-> job[t].target, port |-> Probe(t).port, ip |-> Address(job[t].target),
   by |-> IF job[t].leg = 3 THEN job[t].held.by ELSE job[t].got]

(* The connect about to be made, to the address the gate checked, and the   *)
(* SCOPE the gate read for it.                                              *)
Dialled(t) ==
  [target |-> job[t].target, port |-> Probe(t).port,
   ip |-> IF job[t].leg = 3 THEN job[t].held.ip ELSE job[t].ip,
   by |-> IF job[t].leg = 3 THEN job[t].held.by ELSE job[t].got]

Connect(t) ==
  /\ At(t, "connect")
  /\ \E up \in BOOLEAN :
       LET j == job[t]
       IN Becomes(t, IF Op(t) = "pair" /\ j.leg = 2 /\ up THEN [j EXCEPT !.leg = 3]
                     ELSE Next1(j))
  /\ late' = Late(Dialled(t))
  /\ UNCHANGED <<surroundings, holder, results, asks, runs>>

\* Mutant: the binding is released without a finally.
UnbindIfOk(t) ==
  /\ At(t, "unbind")
  /\ holder' = IF job[t].ok THEN Nobody ELSE holder
  /\ Becomes(t, IF job[t].ok THEN [job[t] EXCEPT !.pc = "write"] ELSE Resting)
  /\ UNCHANGED <<surroundings, late, results, asks, runs>>

(* The finally of _bind_scope; main writes --out, then the canonical file.  *)
Unbind(t) ==
  /\ At(t, "unbind")
  /\ holder' = Nobody
  /\ Becomes(t, IF job[t].ok THEN [job[t] EXCEPT !.pc = "write"] ELSE Resting)
  /\ UNCHANGED <<surroundings, late, results, asks, runs>>

Outcome(t) == IF job[t].missed THEN "missed" ELSE "whole"

WriteSnapshot(t) ==
  /\ At(t, "write")
  /\ snapshot' = Outcome(t)
  /\ Becomes(t, [job[t] EXCEPT !.pc = "emit"])
  /\ UNCHANGED <<surroundings, holder, late, canonical, asks, runs>>

WriteCanonical(t) ==
  /\ At(t, "emit")
  /\ canonical' = Outcome(t)
  /\ Becomes(t, Resting)
  /\ UNCHANGED <<surroundings, holder, late, snapshot, asks, runs>>

-----------------------------------------------------------------------------
(* The surroundings. *)

Untouched == UNCHANGED <<holder, job, results, asks, runs>>

(* The operator saves another text, signs another consent; midnight; the    *)
(* name moves.                                                              *)
EditScope ==
  /\ edits > 0 /\ edits' = edits - 1
  /\ scopeFile' \in Texts \ {scopeFile} /\ late' = 0
  /\ UNCHANGED <<consent, today, dns, attest>> /\ Untouched

EditConsent ==
  /\ edits > 0 /\ edits' = edits - 1
  /\ consent' \in Digest \ {consent} /\ late' = 0
  /\ UNCHANGED <<scopeFile, today, dns, attest>> /\ Untouched

Midnight ==
  /\ edits > 0 /\ edits' = edits - 1
  /\ today' = today + 1 /\ today' \in Day /\ late' = 0
  /\ UNCHANGED <<scopeFile, consent, dns, attest>> /\ Untouched

Move ==
  /\ edits > 0 /\ edits' = edits - 1
  /\ \E n \in Name, ip \in Ip \cup {NoIp} : ip # dns[n] /\ dns' = [dns EXCEPT ![n] = ip]
  /\ UNCHANGED <<scopeFile, consent, today, attest, late>> /\ Untouched

(* cmd_attest with --write: the consent file is read, then SCOPE, which is  *)
(* truncated and written back with the digest in its stamp.                 *)
AttestConsent ==
  /\ attest.pc = "idle" /\ scopeFile # Empty
  /\ edits > 0 /\ edits' = edits - 1
  /\ attest' = [NoAttest EXCEPT !.pc = "read", !.digest = consent]
  /\ UNCHANGED <<scopeFile, consent, today, dns, late>> /\ Untouched

AttestRead ==
  /\ attest.pc = "read"
  /\ attest' = IF scopeFile = Empty THEN NoAttest
               ELSE [attest EXCEPT !.pc = "truncate", !.text = scopeFile]
  /\ UNCHANGED <<scopeFile, consent, today, dns, late, edits>> /\ Untouched

AttestTruncate ==
  /\ attest.pc = "truncate"
  /\ scopeFile' = Empty /\ late' = 0
  /\ attest' = [attest EXCEPT !.pc = "write"]
  /\ UNCHANGED <<consent, today, dns, edits>> /\ Untouched

AttestWrite ==
  /\ attest.pc = "write"
  /\ scopeFile' = [attest.text EXCEPT !.stamp = attest.digest] /\ late' = 0
  /\ attest' = NoAttest
  /\ UNCHANGED <<consent, today, dns, edits>> /\ Untouched

AttestDies ==
  /\ attest.pc # "idle" /\ attest' = NoAttest
  /\ UNCHANGED <<scopeFile, consent, today, dns, late, edits>> /\ Untouched

-----------------------------------------------------------------------------
Step(t) ==
  \/ RefuseDemo(t) \/ Load(t) \/ Hash(t) \/ Bind(t) \/ Recheck(t) \/ Resolve(t)
  \/ Connect(t) \/ Unbind(t) \/ WriteSnapshot(t) \/ WriteCanonical(t)

Surround ==
  \/ EditScope \/ EditConsent \/ Midnight \/ Move
  \/ AttestConsent \/ AttestRead \/ AttestTruncate \/ AttestWrite \/ AttestDies

Init ==
  /\ \E s \in Starts : /\ scopeFile = s.scope /\ consent = s.consent
                       /\ today = s.today /\ dns = s.dns
                       /\ asks = s.asks /\ edits = s.edits /\ runs = s.runs
  /\ attest = NoAttest /\ holder = Nobody
  /\ job = [t \in Thread |-> Resting]
  /\ late = 0 /\ snapshot = "none" /\ canonical = "none"

Next == (\E t \in Thread : Start(t) \/ Step(t)) \/ Surround

Spec == Init /\ [][Next]_vars
FairSpec == Spec /\ \A t \in Thread : WF_vars(Step(t))

-----------------------------------------------------------------------------
(* Properties. *)

\* Every connect goes to an address and port that one SCOPE text, read whole
\* for the probe it belongs to, permits: the client's own and not the pack's
\* DEMO, not revoked, with the name, what the name resolved to and the port
\* ("resolved IP re-checked and pinned", shared/web_tls_live.py:7), although
\* the file is read three times and the name resolved anew while both change.
Grants(text, c) ==
  /\ text # Empty /\ text.client = "ours" /\ text.stamp # DemoDigest /\ ~text.revoked
  /\ {c.target, c.ip} \subseteq text.hosts /\ c.port \in text.ports

ConnectsAuthorised ==
  \A t \in Thread : At(t, "connect") => Grants(Dialled(t).by, Dialled(t))

\* Once SCOPE, consent or date have changed, at most two connects are made
\* that they no longer permit: the two of the TLS or banner probe that read
\* them before ("a mid-run revoke or a read error fails closed",
\* docs/WEB_TLS_SCOPE.md:39).
FewLateConnects == late <= 2

\* Every run comes to an end and leaves the binding free, whatever is refused
\* in the middle of it.
RunsEnd == \A t \in Thread : job[t].pc # "idle" ~> job[t].pc = "idle" /\ holder # t

\* At most one such connect ("SCOPE is re-read before every connect",
\* shared/web_tls_live.py:11).  Not so: the last connect of a TLS or banner
\* probe has no reading of its own.
OneLateConnect == late <= 1

\* "Any miss prints a clear error and exits non-zero. No snapshot is written."
\* (docs/WEB_TLS_SCOPE.md:51).  Not so of a miss in an HTTP exchange.
MissWritesNothing == "missed" \notin {snapshot, canonical}
=============================================================================
