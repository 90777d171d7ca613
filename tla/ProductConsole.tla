--------------------------- MODULE ProductConsole ---------------------------
(***************************************************************************)
(* The operator console (product/server.py).  A ThreadingHTTPServer gives  *)
(* every request a thread; the threads share one thing, the process        *)
(* environment, whose OUT_DIR says which out/ directory is active.  A      *)
(* request reads OUT_DIR anew each time it needs a directory, and so does  *)
(* every collector a refresh runs.                                         *)
(*                                                                         *)
(* Data abstraction.  The content of a file is the number of the refresh   *)
(* that wrote it, 0 for what was there before: a directory found without a *)
(* summary has no register and no plan either.  Collectors are numbered in *)
(* list order; the last one is the loader.  SAMPLE marks are left out, the *)
(* files of one writer that are read and written together are one.         *)
(***************************************************************************)
EXTENDS Naturals, FiniteSets

CONSTANTS
  Thread,    \* request threads
  Out,       \* out/ directories the console can discover
  Marked,    \* those with LAB.txt
  UsedIn,    \* those whose prove stamp says use_existing_in
  Found,     \* [Out -> Kind] estate_kind of the summary found at start
  NSensors,  \* collectors before the loader
  Traffics,  \* traffic: the threads serving requests at once, and the kinds of request
  MaxRuns    \* bound: refreshes received

Kinds   == {"none", "DEMO", "LAB", "CLIENT"}
Loader  == NSensors + 1

ASSUME ConsoleConstants ==
  /\ IsFiniteSet(Thread) /\ Marked \subseteq Out /\ UsedIn \subseteq Out
  /\ Found \in [Out -> Kinds]
  /\ NSensors \in Nat /\ MaxRuns \in Nat
  /\ Traffics \subseteq [threads: SUBSET Thread, ops: SUBSET {"refresh", "select", "read"}]

VARIABLES
  traffic,   \* who asks for what
  active,    \* os.environ["OUT_DIR"]
  dir,       \* the directories
  modules,   \* collectors in sys.modules
  runNo,     \* refreshes received
  req        \* the request each thread handles, or the last it answered

vars == <<traffic, active, dir, modules, runNo, req>>

-----------------------------------------------------------------------------
(* derive_honesty and refresh_mode_for. *)
HasSummary(d) == dir[d].kind # "none"
IsProveOut(d) == HasSummary(d) \/ d \in Marked

\* estate: _count_identity_summary adds the counts of a register or plan that is
\* there, so a directory without a summary.json may have one to show.
Ready(d) == HasSummary(d) \/ dir[d].reg # 0

Kind(d) == IF dir[d].kind = "CLIENT" /\ d \in Marked \cup UsedIn
             THEN "LAB" ELSE dir[d].kind
Lab(d)  == Kind(d) = "LAB" \/ (Kind(d) = "none" /\ d \in Marked \cup UsedIn)
Demo(d) == Kind(d) \in {"DEMO", "LAB"} \/ Lab(d)

Mode(d) == IF Lab(d) \/ d \in UsedIn \/ (Ready(d) /\ ~Demo(d))
             THEN "reload" ELSE "collectors"

-----------------------------------------------------------------------------
Blank(d) == [op |-> "none", pc |-> "idle", dest |-> d, out |-> d, k |-> 1,
             run |-> 0, read |-> [c \in 1 .. NSensors |-> 0], ok |-> TRUE]

Init ==
  /\ traffic \in Traffics
  /\ active \in Out
  /\ dir = [d \in Out |-> [kind |-> Found[d], canon |-> [c \in 1 .. NSensors |-> 0],
                           reg |-> 0, poam |-> 0, sum |-> 0]]
  /\ modules = {} /\ runNo = 0
  /\ req = [t \in Thread |-> Blank(active)]

At(t, place) == req[t].pc = place
Idle(t) == At(t, "idle")
\* A thread is free for a request of the kind.
Takes(t, op) == Idle(t) /\ t \in traffic.threads /\ op \in traffic.ops
Goto(t, place) == req' = [req EXCEPT ![t].pc = place]

\* The GETs that call estate().
Receive(t) ==
  /\ Takes(t, "read")
  /\ req' = [req EXCEPT ![t] = [Blank(active) EXCEPT !.op = "read", !.pc = "estate"]]
  /\ UNCHANGED <<traffic, active, dir, modules, runNo>>

\* POST /api/refresh.
Refresh(t) ==
  /\ Takes(t, "refresh") /\ runNo < MaxRuns
  /\ runNo' = runNo + 1
  /\ req' = [req EXCEPT ![t] = [Blank(active) EXCEPT !.op = "refresh", !.pc = "estate",
                                                    !.run = runNo + 1]]
  /\ UNCHANGED <<traffic, active, dir, modules>>

\* switch_active_out: resolve_run, then OUT_DIR is set.
Select(t, d) ==
  /\ Takes(t, "select") /\ IsProveOut(d)
  /\ active' = d
  /\ req' = [req EXCEPT ![t] = [Blank(d) EXCEPT !.op = "select", !.pc = "estate"]]
  /\ UNCHANGED <<traffic, dir, modules, runNo>>

\* The collectors of this refresh have run.
Ran(t) == req[t].k > Loader

\* Mutant: the mode is not asked.
ReadEstateBlind(t) ==
  /\ At(t, "estate")
  /\ req' = [req EXCEPT ![t].out = active,
                        ![t].pc = IF req[t].op = "refresh" /\ ~Ran(t) THEN "check"
                                  ELSE "idle"]
  /\ UNCHANGED <<traffic, active, dir, modules, runNo>>

\* estate: the directory is looked up and read, the mode decided.  A refresh
\* in collectors mode runs them once; every other request is answered.
ReadEstate(t) ==
  /\ At(t, "estate")
  /\ LET collect == req[t].op = "refresh" /\ ~Ran(t) /\ Mode(active) = "collectors"
     IN req' = [req EXCEPT ![t].out = active,
                           ![t].pc = IF collect THEN "check" ELSE "idle"]
  /\ UNCHANGED <<traffic, active, dir, modules, runNo>>

(* run_collectors, for collector k. *)

\* Mutant: a sensor imported before is not run again.
CheckModuleCached(t) ==
  /\ At(t, "check")
  /\ req' = IF req[t].k \in modules /\ req[t].k < Loader
              THEN [req EXCEPT ![t].k = @ + 1] ELSE [req EXCEPT ![t].pc = "main"]
  /\ UNCHANGED <<traffic, active, dir, modules, runNo>>

CheckModule(t) ==
  /\ At(t, "check")
  /\ Goto(t, IF req[t].k \in modules THEN "drop" ELSE "main")
  /\ UNCHANGED <<traffic, active, dir, modules, runNo>>

\* Mutant: the request waits for the module to come back.
DropModuleWait(t) ==
  /\ At(t, "drop") /\ req[t].k \in modules
  /\ modules' = modules \ {req[t].k}
  /\ Goto(t, "main")
  /\ UNCHANGED <<traffic, active, dir, runNo>>

\* del sys.modules[mod]: a KeyError when another thread deleted it first.
DropModule(t) ==
  /\ At(t, "drop")
  /\ modules' = modules \ {req[t].k}
  /\ req' = IF req[t].k \in modules
              THEN [req EXCEPT ![t].pc = "main"]
              ELSE [req EXCEPT ![t].pc = "idle", ![t].ok = FALSE]
  /\ UNCHANGED <<traffic, active, dir, runNo>>

\* A sensor's main writes its canonical file under the active directory.
RunSensor(t) ==
  /\ At(t, "main") /\ req[t].k < Loader
  /\ modules' = modules \cup {req[t].k}
  /\ dir' = [dir EXCEPT ![active].canon[req[t].k] = req[t].run]
  /\ req' = [req EXCEPT ![t].k = @ + 1, ![t].pc = "check"]
  /\ UNCHANGED <<traffic, active, runNo>>

\* The loader reads the canonical files, writes the register, the plan, then the
\* summary.
LoadRecords(t) ==
  /\ At(t, "main") /\ req[t].k = Loader
  /\ modules' = modules \cup {Loader}
  /\ req' = [req EXCEPT ![t].read = dir[active].canon, ![t].pc = "register"]
  /\ UNCHANGED <<traffic, active, dir, runNo>>

WriteRegister(t) ==
  /\ At(t, "register")
  /\ dir' = [dir EXCEPT ![active].reg = req[t].run]
  /\ Goto(t, "plan")
  /\ UNCHANGED <<traffic, active, modules, runNo>>

WritePlan(t) ==
  /\ At(t, "plan")
  /\ dir' = [dir EXCEPT ![active].poam = req[t].run]
  /\ Goto(t, "summary")
  /\ UNCHANGED <<traffic, active, modules, runNo>>

WriteSummary(t) ==
  /\ At(t, "summary")
  /\ dir' = [dir EXCEPT ![active].sum = req[t].run, ![active].kind = "DEMO"]
  /\ req' = [req EXCEPT ![t].k = @ + 1, ![t].pc = "estate"]
  /\ UNCHANGED <<traffic, active, modules, runNo>>

\* A collector raises, and nothing is undone: do_POST answers 500, or, of a
\* SystemExit, not at all, and the thread ends.
Raise(t) ==
  /\ req[t].pc \in {"main", "register", "plan", "summary"}
  /\ req' = [req EXCEPT ![t].pc = "idle", ![t].ok = FALSE]
  /\ UNCHANGED <<traffic, active, dir, modules, runNo>>

Proceed(t) ==
  \/ ReadEstate(t)
  \/ CheckModule(t) \/ DropModule(t) \/ RunSensor(t)
  \/ LoadRecords(t) \/ WriteRegister(t) \/ WritePlan(t) \/ WriteSummary(t)

Next == \E t \in Thread :
  \/ Receive(t) \/ Refresh(t)
  \/ \E d \in Out : Select(t, d)
  \/ Proceed(t)
  \/ Raise(t)

Spec == Init /\ [][Next]_vars
FairSpec == Spec /\ \A t \in Thread : WF_vars(Proceed(t))
-----------------------------------------------------------------------------
(* Properties. *)

\* "LAB / live out = disk reload" (refresh_mode_for, product/server.py:673): a
\* directory found with a lab's or a client's estate is never written.
Precious ==
  {d \in Out : d \in UsedIn \/ Found[d] \in {"LAB", "CLIENT"}
                \/ (Found[d] = "none" /\ d \in Marked)}

ReloadOnly == [][\A d \in Precious : dir'[d] = dir[d]]_vars

\* Answered and not failed.
Done(t, op) == Idle(t) /\ req[t].op = op /\ req[t].ok

\* The answer to a switch describes the directory that was switched to: its
\* stamp and its honesty belong together (switch_active_out).
SelectAnswersItsOut ==
  \A t \in Thread : Done(t, "select") => req[t].out = req[t].dest

\* When a refresh that ran the collectors has answered, register, plan, summary
\* and every record the loader read are of that one run, for requests served one
\* at a time: also where an earlier refresh died before its register, or anywhere
\* in a directory that had a DEMO summary, and left its files behind.  (After one
\* that died between register and summary of a fresh directory a refresh runs no
\* collectors: BootstrapCollects.)
OneAtATime == Cardinality(traffic.threads) = 1

RefreshWhole ==
  OneAtATime => \A t \in Thread : Done(t, "refresh") /\ Ran(t) =>
    /\ dir[req[t].out].sum = req[t].run /\ dir[req[t].out].poam = req[t].run
    /\ dir[req[t].out].reg = req[t].run
    /\ \A c \in 1 .. NSensors : req[t].read[c] = req[t].run

\* "Refresh re-runs DEMO collectors on local files unless honesty is LAB /
\* use-existing-in" (product-lab/OPERATOR.md:25): a refresh that only reloaded was
\* of a directory found with a lab's or a client's estate.
BootstrapCollects ==
  \A t \in Thread : Done(t, "refresh") /\ ~Ran(t) => req[t].out \in Precious

\* Every request comes to its end, whichever collectors fail and however two
\* refreshes race for the imported modules.
Answered == \A t \in Thread : ~Idle(t) ~> Idle(t)
=============================================================================
