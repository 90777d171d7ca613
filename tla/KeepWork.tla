------------------------------ MODULE KeepWork ------------------------------
(***************************************************************************)
(* KEEP lab runs (keep/lab.py) in work directories, started by the command *)
(* line (python -m keep lab) or by the MCP tool keep_ciso, which runs the  *)
(* same lab in a directory of its own unless it is told not to.  A call    *)
(* wipes in/ and out/ of its work directory, lands the pack's KEEP files   *)
(* or the bundled samples, runs collectors and loader as child processes,  *)
(* exports, judges the result and writes keep-lab.json beside in/ and out/.*)
(* Calls overlap, raise and die; the operator edits the pack meanwhile.    *)
(***************************************************************************)
EXTENDS Integers, Sequences, FiniteSets

CONSTANTS
  Call,         \* calls of keep lab and keep_ciso, each a process
  Mcp,          \* those of them that are MCP's
  Own,          \* those with a work directory no other call uses
  Base,         \* the shared keep/work
  Workloads,    \* what happens together: calls, initial packs, samples, edits
  Overlap,      \* calls in keep/work may overlap
  Order,        \* KEEP families, in the order of their collectors
  Name, Fam,    \* KEEP files of the pack's in/: place and name, and family
  Content,      \* what such a file holds
  Absent,
  Mark,         \* [Content -> {"client", "sample", "lab"}]
  Leaf,         \* [Family -> Content]: the files of fixtures/keep-samples
  Undo,         \* an edit may restore what the pack was
  MaxFaults     \* exceptions and deaths

Family == {Order[i] : i \in DOMAIN Order}
Dirs == Call \cup {Base}
Pack == [Name -> Content \cup {Absent}]

ASSUME KeepAssumption ==
  /\ Mcp \subseteq Call /\ Own \subseteq Call /\ Base \notin Call
  /\ \A w \in Workloads : w.calls \subseteq Call /\ w.packs \subseteq Pack /\ w.edits \in Nat
                         /\ w.whole \subseteq BOOLEAN
  /\ Overlap \in BOOLEAN /\ Undo \in BOOLEAN
  /\ Order \in Seq(Family)
  /\ Fam \in [Name -> Family] /\ Absent \notin Content
  /\ Mark \in [Content -> {"client", "sample", "lab"}]
  /\ Leaf \in [Family -> Content]
  /\ MaxFaults \in Nat

Runtime == INSTANCE Collector WITH
  File <- Content, NoFile <- Absent, Bundled <- Family,
  Kind <- [x \in Content |-> "rows"], Twin <- [x \in Content |-> Absent]

VARIABLES
  issued,       \* the calls that are made
  edits,        \* the operator's edits left
  pack,         \* the pack's in/
  past,         \* what it was before
  samplesWhole, \* fixtures/keep-samples passes its preflight
  landed,       \* [Dirs -> in/]: the files landed, and SAMPLE.txt
  canon,        \* [Dirs -> [Family -> out/canonical]]
  register,     \* [Dirs -> the loader's CSVs and summary]
  bundle,       \* [Dirs -> handoff.json and IMPORT.json]
  stamp,        \* [Dirs -> keep-lab.json]
  job,          \* [Call -> the call's place and locals]
  answer,       \* [Call -> what it returned]
  faults

files == <<landed, canon, register, bundle>>
vars == <<issued, edits, pack, past, samplesWhole, files, stamp, job, answer, faults>>

Nobody == <<>>
EmptyIn == [files |-> {}, banner |-> FALSE]
NoCanon == [recs |-> {}, demo |-> FALSE, by |-> Nobody]
NoRegister == [recs |-> {}, demo |-> FALSE, by |-> Nobody]
NoBundle == [client |-> FALSE, by |-> Nobody]
NoStamp == [status |-> "none", client |-> FALSE, written |-> FALSE, by |-> Nobody]
NewJob == [pc |-> "idle", outer |-> 0, inner |-> 0, wipes |-> 1, then |-> "look",
           first |-> [n \in Name |-> Absent], seen |-> [n \in Name |-> Absent],
           client |-> FALSE, rows |-> {}, sample |-> TRUE, at |-> 1,
           found |-> FALSE, ok |-> FALSE]

\* Mutant: every call works in keep/work.
DirShared(c) == Base

(* _want_isolate_work, _keep_work_choice, atomic_keep_work; --work          *)
Dir(c) == IF c \in Own THEN c ELSE Base

(* The attempt a call is in: what it writes carries this mark.             *)
Tag(c) == <<c, job[c].outer, job[c].inner>>

Active(c) == job[c].pc \notin {"idle", "done"}
At(c, pc) == job[c].pc = pc
Becomes(c, j) == job' = [job EXCEPT ![c] = j]
Goes(c, pc) == Becomes(c, [job[c] EXCEPT !.pc = pc])

Start(c) ==
  /\ At(c, "idle") /\ c \in issued
  /\ ~Overlap /\ c \notin Own => \A o \in Call \ Own : ~Active(o)
  /\ Goes(c, IF c \in Mcp THEN "before" ELSE "wipeIn")
  /\ UNCHANGED <<issued, edits, pack, past, samplesWhole, files, stamp, answer, faults>>

-----------------------------------------------------------------------------
(* The wipes.  keep_ciso fingerprints the pack's in/ and wipes both trees  *)
(* before keep_lab wipes them again.                                       *)

Before(c) ==
  /\ At(c, "before")
  /\ Becomes(c, [job[c] EXCEPT !.pc = "wipeIn", !.wipes = 2, !.then = "look", !.first = pack])
  /\ UNCHANGED <<issued, edits, pack, past, samplesWhole, files, stamp, answer, faults>>

WipeIn(c) ==
  /\ At(c, "wipeIn")
  /\ landed' = [landed EXCEPT ![Dir(c)] = EmptyIn]
  /\ Goes(c, "wipeOut")
  /\ UNCHANGED <<issued, edits, pack, past, samplesWhole, canon, register, bundle, stamp, answer, faults>>

WipeOut(c) ==
  /\ At(c, "wipeOut")
  /\ canon' = [canon EXCEPT ![Dir(c)] = [f \in Family |-> NoCanon]]
  /\ register' = [register EXCEPT ![Dir(c)] = NoRegister]
  /\ bundle' = [bundle EXCEPT ![Dir(c)] = NoBundle]
  /\ Becomes(c, [job[c] EXCEPT !.wipes = @ - 1,
                               !.pc = IF job[c].wipes = 1 THEN job[c].then ELSE "wipeIn"])
  /\ UNCHANGED <<issued, edits, pack, past, samplesWhole, landed, stamp, answer, faults>>

-----------------------------------------------------------------------------
(* _run_once                                                               *)

Look(c) ==
  /\ At(c, "look")
  /\ Becomes(c, [job[c] EXCEPT !.pc = "choose", !.seen = pack])
  /\ UNCHANGED <<issued, edits, pack, past, samplesWhole, files, stamp, answer, faults>>

PackRows == {[name |-> n, fam |-> Fam[n], content |-> pack[n]] :
               n \in {m \in Name : pack[m] # Absent}}
LeafRows == {[name |-> f, fam |-> f, content |-> Leaf[f]] : f \in Family}

(* client_keep_ready                                                       *)
ClientReady(rows) ==
  \A f \in Family : \E r \in rows : r.fam = f /\ Mark[r.content] = "client"

(* _choose_sources; MCP gives keep_lab an empty directory for the pack.    *)
FromPack(c) == c \notin Mcp /\ ClientReady(PackRows)

Failed(c) == [NoStamp EXCEPT !.status = "fail", !.by = Tag(c)]

Choose(c) ==
  /\ At(c, "choose")
  /\ IF FromPack(c) \/ samplesWhole
     THEN /\ Becomes(c, [job[c] EXCEPT !.pc = "land", !.client = FromPack(c),
                                       !.rows = IF FromPack(c) THEN PackRows ELSE LeafRows])
          /\ UNCHANGED stamp
     ELSE /\ Becomes(c, [job[c] EXCEPT !.pc = "answer", !.client = FALSE, !.ok = FALSE])
          /\ stamp' = [stamp EXCEPT ![Dir(c)] = Failed(c)]
  /\ UNCHANGED <<issued, edits, pack, past, samplesWhole, files, answer, faults>>

Marked(rows, mark) == \E r \in rows : Mark[r.content] = mark

(* land_keep_files copies what the files hold by now; its rows, and with   *)
(* them the sample flag, still say what the scan saw.                      *)
Landed(c, seen) ==
  /\ At(c, "land")
  /\ LET here == {r \in job[c].rows : job[c].client => pack[r.name] # Absent}
         sample == ~job[c].client \/ Marked(here, "sample")
         copies == {[r EXCEPT !.content = IF job[c].client THEN pack[r.name] ELSE @] : r \in here}
     IN /\ landed' = [landed EXCEPT ![Dir(c)] =
                        [files |-> @.files \cup copies, banner |-> @.banner \/ sample]]
        /\ Becomes(c, [job[c] EXCEPT !.pc = "collect", !.rows = here, !.seen = seen,
                                     !.sample = sample, !.at = 1])
  /\ UNCHANGED <<issued, edits, pack, past, samplesWhole, canon, register, bundle, stamp, answer, faults>>

\* Mutant: the fingerprint is taken when the files have been copied.
LandThenLook(c) == Landed(c, pack)
Land(c) == Landed(c, job[c].seen)

(* One collector, with IN_DIR, OUT_DIR and DROPBOX_DEMO of the call.       *)
Output(c, f) ==
  LET in == landed[Dir(c)]
      fs == {r.content : r \in {q \in in.files : q.fam = f}}
      hint == Runtime!EstateHint("", IF in.banner THEN {"SAMPLE"} ELSE {}, job[c].sample)
      subst == Runtime!Substitutes(fs, hint, in.files # {})
      recs == Runtime!Records(f, fs, subst)
  IN [recs |-> recs, demo |-> Runtime!Stamps(recs, hint, subst), by |-> Tag(c)]

Collect(c) ==
  /\ At(c, "collect") /\ job[c].at \in DOMAIN Order
  /\ canon' = [canon EXCEPT ![Dir(c)][Order[job[c].at]] = Output(c, Order[job[c].at])]
  /\ Becomes(c, [job[c] EXCEPT !.at = @ + 1])
  /\ UNCHANGED <<issued, edits, pack, past, samplesWhole, landed, register, bundle, stamp, answer, faults>>

(* _stamp_sample_labels, over the canonical files it finds.                *)
Label(c) ==
  /\ At(c, "collect") /\ job[c].at \notin DOMAIN Order
  /\ canon' = IF job[c].sample
              THEN [canon EXCEPT ![Dir(c)] =
                      [f \in Family |-> [canon[Dir(c)][f] EXCEPT !.demo = @ \/ canon[Dir(c)][f].recs # {}]]]
              ELSE canon
  /\ Goes(c, "load")
  /\ UNCHANGED <<issued, edits, pack, past, samplesWhole, landed, register, bundle, stamp, answer, faults>>

AllRecs(d) == UNION {canon[d][f].recs : f \in Family}

Load(c) ==
  /\ At(c, "load")
  /\ register' = [register EXCEPT ![Dir(c)] =
                    [recs |-> AllRecs(Dir(c)), demo |-> \E f \in Family : canon[Dir(c)][f].demo,
                     by |-> Tag(c)]]
  /\ Goes(c, "export")
  /\ UNCHANGED <<issued, edits, pack, past, samplesWhole, landed, canon, bundle, stamp, answer, faults>>

(* Sinks, handoff.json with its findings, IMPORT.json.                     *)
Export(c) ==
  /\ At(c, "export")
  /\ bundle' = [bundle EXCEPT ![Dir(c)] =
                  [client |-> job[c].client /\ ~job[c].sample, by |-> Tag(c)]]
  /\ Becomes(c, [job[c] EXCEPT !.pc = "judge", !.found = AllRecs(Dir(c)) # {}])
  /\ UNCHANGED <<issued, edits, pack, past, samplesWhole, landed, canon, register, stamp, answer, faults>>

MissingFamily(c) == \E f \in Family : \A r \in job[c].rows : r.fam # f
CsvMissing(c) == register[Dir(c)] = NoRegister

(* The checks behind the bundle; misshapen stands for those of headers and *)
(* register shape.                                                         *)
Passes(c, misshapen) ==
  /\ ~MissingFamily(c) /\ ~CsvMissing(c) /\ ~misshapen
  /\ ~(job[c].client /\ ~job[c].sample /\ Marked(job[c].rows, "lab"))
  /\ job[c].found
  /\ job[c].sample => register[Dir(c)].demo
  /\ job[c].client \/ job[c].seen = pack

\* Mutant: the second failure is retried like the first.
AgainAlways(j) == [j EXCEPT !.pc = "wipeIn", !.inner = 1, !.wipes = 2, !.then = "look"]

(* _run after "CISO Assistant CSVs missing": both trees are reset, and the *)
(* first time the lab is run again, which resets them once more.           *)
Again(j) ==
  IF j.inner = 0
  THEN [j EXCEPT !.pc = "wipeIn", !.inner = 1, !.wipes = 2, !.then = "look"]
  ELSE [j EXCEPT !.pc = "wipeIn", !.wipes = 1, !.then = "answer"]

Judge(c) ==
  /\ At(c, "judge")
  /\ \E misshapen \in BOOLEAN :
       LET ok == Passes(c, misshapen)
           told == [job[c] EXCEPT !.ok = ok, !.pc = "answer"]
       IN /\ stamp' = [stamp EXCEPT ![Dir(c)] =
                         [status |-> IF ok THEN "pass" ELSE "fail",
                          client |-> job[c].client /\ ~job[c].sample,
                          written |-> job[c].seen # pack, by |-> Tag(c)]]
          /\ Becomes(c, IF CsvMissing(c) /\ ~MissingFamily(c) THEN Again(told) ELSE told)
  /\ UNCHANGED <<issued, edits, pack, past, samplesWhole, files, answer, faults>>

(* MCP's ok also asks that the pack's in/ is what it was.                  *)
Answer(c) ==
  /\ At(c, "answer")
  /\ answer' = [answer EXCEPT ![c] =
                  IF job[c].ok /\ (c \in Mcp => job[c].first = pack) THEN "ok" ELSE "fail"]
  /\ Goes(c, "done")
  /\ UNCHANGED <<issued, edits, pack, past, samplesWhole, files, stamp, faults>>

-----------------------------------------------------------------------------
(* A wipe, copy or child process raises.  keep_ciso tries again, once, when*)
(* the error reads like a transient one of the file system.                *)
Raise(c) ==
  /\ Active(c) /\ faults < MaxFaults
  /\ faults' = faults + 1
  /\ \/ /\ c \in Mcp /\ job[c].outer = 0
        /\ Becomes(c, [NewJob EXCEPT !.pc = "before", !.outer = 1])
        /\ UNCHANGED answer
     \/ /\ Goes(c, "done")
        /\ answer' = [answer EXCEPT ![c] = "error"]
  /\ UNCHANGED <<issued, edits, pack, past, samplesWhole, files, stamp>>

Die(c) ==
  /\ Active(c) /\ faults < MaxFaults
  /\ faults' = faults + 1
  /\ Goes(c, "done")
  /\ answer' = [answer EXCEPT ![c] = "dead"]
  /\ UNCHANGED <<issued, edits, pack, past, samplesWhole, files, stamp>>

(* The operator adds, changes or removes a file of the pack's in/; only    *)
(* with Undo so that the pack is what it once was.                         *)
Edit ==
  /\ edits > 0 /\ edits' = edits - 1
  /\ \E n \in Name, x \in Content \cup {Absent} : pack' = [pack EXCEPT ![n] = x]
  /\ pack' # pack
  /\ ~Undo => pack' \notin past
  /\ past' = past \cup {pack}
  /\ UNCHANGED <<issued, samplesWhole, files, stamp, job, answer, faults>>

Proceed(c) ==
  \/ Before(c) \/ WipeIn(c) \/ WipeOut(c) \/ Look(c) \/ Choose(c) \/ Land(c)
  \/ Collect(c) \/ Label(c) \/ Load(c) \/ Export(c) \/ Judge(c) \/ Answer(c)

Init ==
  /\ \E w \in Workloads : issued = w.calls /\ pack \in w.packs /\ edits = w.edits
                         /\ samplesWhole \in w.whole
  /\ past = {}
  /\ landed = [d \in Dirs |-> EmptyIn]
  /\ canon = [d \in Dirs |-> [f \in Family |-> NoCanon]]
  /\ register = [d \in Dirs |-> NoRegister]
  /\ bundle = [d \in Dirs |-> NoBundle]
  /\ stamp = [d \in Dirs |-> NoStamp]
  /\ job = [c \in Call |-> NewJob]
  /\ answer = [c \in Call |-> "none"]
  /\ faults = 0

Next == \/ \E c \in Call : Start(c) \/ Proceed(c) \/ Raise(c) \/ Die(c)
        \/ Edit

Spec == Init /\ [][Next]_vars
FairSpec == Spec /\ \A c \in Call : WF_vars(Proceed(c))

-----------------------------------------------------------------------------
(* A call in a directory of its own that answered ok left a whole bundle   *)
(* there: records, register, handoff and stamp of one and the same         *)
(* attempt, whatever other calls wiped, wrote, retried or left half done   *)
(* meanwhile or do later.                                                  *)
WholeBundle(c) ==
  LET d == Dir(c) IN
  /\ stamp[d].status = "pass" /\ stamp[d].by = Tag(c)
  /\ \A f \in Family : canon[d][f].by = Tag(c)
  /\ register[d].by = Tag(c) /\ register[d].recs = AllRecs(d)
  /\ bundle[d].by = Tag(c)

OkIsWhole == \A c \in Own : answer[c] = "ok" => WholeBundle(c)

(* A pass that says client_keep and that the pack was not written during   *)
(* the run is a snapshot: the register in the call's own directory has the *)
(* records of the files that lie in the pack's in/ at that moment, no      *)
(* others, and none of them is a sample's or a lab's.                      *)
Snapshot(c) ==
  /\ register[Dir(c)].recs = {pack[n] : n \in Name} \ {Absent}
  /\ \A x \in register[Dir(c)].recs : Mark[x] = "client"

ClientIsSnapshot ==
  [][\A c \in Own :
       LET told == stamp'[Dir(c)] IN
       told # stamp[Dir(c)] /\ told.status = "pass" /\ told.client /\ ~told.written
         => Snapshot(c)]_vars

(* A call that has begun comes to an end, however often others empty the   *)
(* directory it works in.                                                  *)
EveryCallEnds == \A c \in Call : Active(c) ~> answer[c] # "none"

(* While no call works in a directory, its keep-lab.json says pass only of *)
(* what lies beside it.  Not so in keep/work: keep-lab.json outlives the   *)
(* trees that a later call empties before it raises or dies.               *)
StampTrue ==
  \A d \in Dirs :
    stamp[d].status = "pass" /\ (\A c \in Call : Dir(c) = d => ~Active(c))
      => register[d].by = stamp[d].by /\ bundle[d].by = stamp[d].by
=============================================================================
