--------------------------- MODULE KeepWorkProofs ---------------------------
(***************************************************************************)
(* A call of keep lab that works in a directory of its own and answers ok  *)
(* has left a whole bundle of one attempt there.  Chain says, for each     *)
(* place of the call, which parts of the bundle bear the mark of the       *)
(* attempt it is in; other calls cannot touch them, since Base and the     *)
(* other calls' directories are different ones.  CopyInv follows the files *)
(* of the pack into the register of a call that may say client_keep.       *)
(***************************************************************************)
EXTENDS KeepWork, TLAPS

Pcs == {"idle", "before", "wipeIn", "wipeOut", "look", "choose", "land", "collect",
        "load", "export", "judge", "answer", "done"}
Tags == {Nobody} \cup (Call \X {0, 1} \X {0, 1})
RowSet == [name : Name \cup Family, fam : Family, content : Content]
RecSet == [recs : SUBSET (Content \cup {"fixture"}), demo : BOOLEAN, by : Tags]
StampSet == [status : {"none", "pass", "fail"}, client : BOOLEAN, written : BOOLEAN, by : Tags]
(* The rows of a client's run are files of the pack.                       *)
JobSet == {j \in [pc : Pcs, outer : {0, 1}, inner : {0, 1}, wipes : Int, then : {"look", "answer"},
                  first : Pack, seen : Pack, client : BOOLEAN, rows : SUBSET RowSet,
                  sample : BOOLEAN, at : Nat, found : BOOLEAN, ok : BOOLEAN] :
             j.client => \A r \in j.rows : r.name \in Name}

(* The shape of the state.                                                 *)
TypeInv ==
  /\ pack \in Pack
  /\ landed \in [Dirs -> [files : SUBSET RowSet, banner : BOOLEAN]]
  /\ canon \in [Dirs -> [Family -> RecSet]]
  /\ register \in [Dirs -> RecSet]
  /\ bundle \in [Dirs -> [client : BOOLEAN, by : Tags]]
  /\ stamp \in [Dirs -> StampSet]
  /\ job \in [Call -> JobSet]
  /\ answer \in [Call -> {"none", "ok", "fail", "error", "dead"}]

Chain(c) ==
  /\ job[c].ok => job[c].pc \in {"answer", "done"}
  /\ answer[c] = "ok" => job[c].pc = "done" /\ job[c].ok
  /\ job[c].pc = "collect" => job[c].at > 0
  /\ job[c].pc = "collect" =>
       \A i \in DOMAIN Order : i < job[c].at => canon[c][Order[i]].by = Tag(c)
  /\ job[c].pc \in {"load", "export", "judge"} \/ job[c].ok =>
       \A f \in Family : canon[c][f].by = Tag(c)
  /\ job[c].pc \in {"export", "judge"} \/ job[c].ok =>
       register[c].by = Tag(c) /\ register[c].recs = AllRecs(c)
  /\ job[c].pc = "judge" \/ job[c].ok => bundle[c].by = Tag(c)
  /\ job[c].ok => stamp[c].status = "pass" /\ stamp[c].by = Tag(c)

Inv == TypeInv /\ \A c \in Own : Chain(c)

-----------------------------------------------------------------------------
LEMMA DirTyped == ASSUME NEW c \in Call PROVE Dir(c) \in Dirs
  BY DEF Dir, Dirs

LEMMA TagTyped == ASSUME TypeInv, NEW c \in Call PROVE Tag(c) \in Tags
  BY DEF TypeInv, JobSet, Tag, Tags

LEMMA NewJobTyped == NewJob \in JobSet
  BY KeepAssumption DEF NewJob, JobSet, Pcs, Pack

(* Each local that a wipe is begun with.                                   *)
LEMMA PcTyped == ASSUME NEW j \in JobSet, NEW p \in Pcs PROVE [j EXCEPT !.pc = p] \in JobSet
  BY DEF JobSet
LEMMA WipesTyped == ASSUME NEW j \in JobSet, NEW w \in Int PROVE [j EXCEPT !.wipes = w] \in JobSet
  BY DEF JobSet
LEMMA InnerTyped == ASSUME NEW j \in JobSet PROVE [j EXCEPT !.inner = 1] \in JobSet
  BY DEF JobSet
LEMMA ThenTyped ==
  ASSUME NEW j \in JobSet, NEW t \in {"look", "answer"} PROVE [j EXCEPT !.then = t] \in JobSet
  BY DEF JobSet
LEMMA FirstTyped == ASSUME NEW j \in JobSet, NEW q \in Pack PROVE [j EXCEPT !.first = q] \in JobSet
  BY DEF JobSet

LEMMA RowsTyped == ASSUME TypeInv 
  PROVE /\ PackRows \in SUBSET RowSet /\ LeafRows \in SUBSET RowSet
        /\ \A r \in PackRows : r.name \in Name
  BY KeepAssumption DEF TypeInv, PackRows, LeafRows, RowSet, Pack

LEMMA OutputBy == ASSUME NEW c \in Call, NEW f PROVE Output(c, f).by = Tag(c)
<1> DEFINE in == landed[Dir(c)]
           fs == {r.content : r \in {q \in in.files : q.fam = f}}
           hint == Runtime!EstateHint("", IF in.banner THEN {"SAMPLE"} ELSE {}, job[c].sample)
           subst == Runtime!Substitutes(fs, hint, in.files # {})
           recs == Runtime!Records(f, fs, subst)
<1>1. Output(c, f) = [recs |-> recs, demo |-> Runtime!Stamps(recs, hint, subst), by |-> Tag(c)]
  BY DEF Output
<1> HIDE DEF in, fs, hint, subst, recs
<1> QED  BY <1>1

LEMMA OutputTyped ==
  ASSUME TypeInv, NEW c \in Call, NEW f \in Family
  PROVE  Output(c, f) \in RecSet
<1> DEFINE in == landed[Dir(c)]
           fs == {r.content : r \in {q \in in.files : q.fam = f}}
           hint == Runtime!EstateHint("", IF in.banner THEN {"SAMPLE"} ELSE {}, job[c].sample)
           subst == Runtime!Substitutes(fs, hint, in.files # {})
           recs == Runtime!Records(f, fs, subst)
<1>1. fs \in SUBSET Content
  BY DirTyped DEF TypeInv, RowSet
<1>2. recs \in SUBSET (Content \cup {"fixture"})
  <2> HIDE DEF fs, subst
  <2> QED  BY <1>1 DEF Runtime!Records, Runtime!Fixture
<1>3. Runtime!Stamps(recs, hint, subst) \in BOOLEAN
  BY DEF Runtime!Stamps, Runtime!Substitutes
<1>4. Tag(c) \in Tags
  BY TagTyped
<1>5. Output(c, f) = [recs |-> recs, demo |-> Runtime!Stamps(recs, hint, subst), by |-> Tag(c)]
  BY DEF Output
<1> HIDE DEF in, fs, hint, subst, recs
<1> QED  BY <1>2, <1>3, <1>4, <1>5 DEF RecSet
-----------------------------------------------------------------------------
(* Every variable but issued, edits, past, samplesWhole and faults has a   *)
(* type, which each step keeps.                                            *)
LEMMA TypeInit == Init => TypeInv
BY KeepAssumption, NewJobTyped
   DEF Init, TypeInv, EmptyIn, NoCanon, NoRegister, NoBundle, NoStamp, RecSet, StampSet, Tags

LEMMA TypeStep == TypeInv /\ [Next]_vars => TypeInv'
<1> SUFFICES ASSUME TypeInv, [Next]_vars PROVE TypeInv'
  OBVIOUS
<1>1. CASE Edit
  BY <1>1, KeepAssumption DEF Edit, TypeInv, Pack, files
<1>2. CASE UNCHANGED vars
  BY <1>2 DEF vars, files, TypeInv
<1>3. ASSUME NEW c \in Call, Start(c) \/ Proceed(c) \/ Raise(c) \/ Die(c) PROVE TypeInv'
  <2>a. Dir(c) \in Dirs /\ Tag(c) \in Tags
    BY DirTyped, TagTyped
  <2>b. job \in [Call -> JobSet] /\ job[c] \in JobSet /\ pack \in Pack
    BY DEF TypeInv
  <2>1. CASE Start(c)
    <3>1. [job[c] EXCEPT !.pc = IF c \in Mcp THEN "before" ELSE "wipeIn"] \in JobSet
      BY <2>b DEF JobSet, Pcs
    <3>2. job' \in [Call -> JobSet]
      BY <2>1, <2>b, <3>1 DEF Start, Becomes, Goes
    <3> QED BY <2>1, <3>2 DEF Start, TypeInv, files
  <2>2. CASE Before(c)
    <3>1. [job[c] EXCEPT !.pc = "wipeIn", !.wipes = 2, !.then = "look", !.first = pack] \in JobSet
      <4> DEFINE i == [job[c] EXCEPT !.pc = "wipeIn"]
                 j == [i EXCEPT !.wipes = 2]
                 k == [j EXCEPT !.then = "look"]
      <4>1. i \in JobSet
        BY <2>b, PcTyped DEF Pcs
      <4>2. j \in JobSet
        <5> HIDE DEF i
        <5> QED BY <4>1, WipesTyped
      <4>3. k \in JobSet
        <5> HIDE DEF j
        <5> QED BY <4>2, ThenTyped
      <4>4. [k EXCEPT !.first = pack] \in JobSet
        <5> HIDE DEF k
        <5> QED BY <2>b, <4>3, FirstTyped
      <4> QED BY <4>4
    <3>2. job' \in [Call -> JobSet]
      BY <2>2, <2>b, <3>1 DEF Before, Becomes
    <3> QED BY <2>2, <3>2 DEF Before, TypeInv, files
  <2>3. CASE WipeIn(c)
    <3>1. [job[c] EXCEPT !.pc = "wipeOut"] \in JobSet
      BY <2>b DEF JobSet, Pcs
    <3>2. job' \in [Call -> JobSet]
      BY <2>3, <2>b, <3>1 DEF WipeIn, Becomes, Goes
    <3> QED BY <2>3, <2>a, <3>2 DEF WipeIn, TypeInv, EmptyIn
  <2>4. CASE WipeOut(c)
    <3>1. [job[c] EXCEPT !.wipes = @ - 1,
                         !.pc = IF job[c].wipes = 1 THEN job[c].then ELSE "wipeIn"] \in JobSet
      <4>1. /\ job[c].wipes - 1 \in Int
            /\ (IF job[c].wipes = 1 THEN job[c].then ELSE "wipeIn") \in Pcs
        BY <2>b DEF JobSet, Pcs
      <4> QED BY <2>b, <4>1 DEF JobSet
    <3>2. job' \in [Call -> JobSet]
      BY <2>4, <2>b, <3>1 DEF WipeOut, Becomes
    <3> QED BY <2>4, <2>a, <3>2 DEF WipeOut, TypeInv, NoCanon, NoRegister, NoBundle, RecSet, Tags
  <2>5. CASE Look(c)
    <3>1. [job[c] EXCEPT !.pc = "choose", !.seen = pack] \in JobSet
      BY <2>b DEF JobSet, Pcs
    <3>2. job' \in [Call -> JobSet]
      BY <2>5, <2>b, <3>1 DEF Look, Becomes
    <3> QED BY <2>5, <3>2 DEF Look, TypeInv, files
  <2>6. CASE Choose(c)
    <3>1. FromPack(c) \in BOOLEAN
      BY DEF FromPack, ClientReady
    <3>2. /\ PackRows \in SUBSET RowSet /\ LeafRows \in SUBSET RowSet
          /\ \A r \in PackRows : r.name \in Name
      BY RowsTyped
    <3>3. [job[c] EXCEPT !.pc = "land", !.client = FromPack(c),
                         !.rows = IF FromPack(c) THEN PackRows ELSE LeafRows] \in JobSet
      BY <2>b, <3>1, <3>2 DEF JobSet, Pcs
    <3>4. [job[c] EXCEPT !.pc = "answer", !.client = FALSE, !.ok = FALSE] \in JobSet
      BY <2>b DEF JobSet, Pcs
    <3>5. job' \in [Call -> JobSet]
      BY <2>6, <2>b, <3>3, <3>4 DEF Choose, Becomes
    <3>6. Failed(c) \in StampSet
      BY <2>a DEF Failed, NoStamp, StampSet
    <3>7. stamp' \in [Dirs -> StampSet]
      BY <2>6, <2>a, <3>6 DEF Choose, TypeInv
    <3> QED BY <2>6, <3>5, <3>7 DEF Choose, TypeInv, files
  <2>7. CASE Land(c)
    <3> DEFINE here == {r \in job[c].rows : job[c].client => pack[r.name] # Absent}
               sample == ~job[c].client \/ Marked(here, "sample")
               copies == {[r EXCEPT !.content = IF job[c].client THEN pack[r.name] ELSE @] : r \in here}
    <3>1. /\ here \in SUBSET RowSet /\ sample \in BOOLEAN
          /\ job[c].client => \A r \in here : r.name \in Name
      BY <2>b DEF JobSet, Marked
    <3>2. copies \in SUBSET RowSet
      <4>1. ASSUME NEW r \in here PROVE [r EXCEPT !.content = IF job[c].client THEN pack[r.name] ELSE @] \in RowSet
        <5>1. r \in RowSet /\ (job[c].client => r.name \in Name /\ pack[r.name] # Absent)
          BY <2>b, <3>1 DEF JobSet
        <5>2. job[c].client => pack[r.name] \in Content
          BY <2>b, <5>1 DEF Pack
        <5> QED BY <5>1, <5>2 DEF RowSet
      <4> HIDE DEF here
      <4> QED BY <4>1
    <3>3. /\ landed' = [landed EXCEPT ![Dir(c)] =
                          [files |-> @.files \cup copies, banner |-> @.banner \/ sample]]
          /\ Becomes(c, [job[c] EXCEPT !.pc = "collect", !.rows = here, !.seen = job[c].seen,
                                       !.sample = sample, !.at = 1])
          /\ UNCHANGED <<pack, canon, register, bundle, stamp, answer>>
      BY <2>7 DEF Land, Landed
    <3> HIDE DEF here, sample, copies
    <3>4. [job[c] EXCEPT !.pc = "collect", !.rows = here, !.seen = job[c].seen,
                         !.sample = sample, !.at = 1] \in JobSet
      <4> DEFINE j == [job[c] EXCEPT !.pc = "collect", !.rows = here, !.seen = job[c].seen]
      <4>1. j \in JobSet /\ 1 \in Nat
        BY <2>b, <3>1 DEF JobSet, Pcs
      <4>2. [j EXCEPT !.sample = sample, !.at = 1] \in JobSet
        <5> HIDE DEF j
        <5> QED BY <3>1, <4>1 DEF JobSet
      <4> QED BY <4>2
    <3>5. job' \in [Call -> JobSet]
      BY <2>b, <3>3, <3>4 DEF Becomes
    <3>6. landed' \in [Dirs -> [files : SUBSET RowSet, banner : BOOLEAN]]
      BY <2>a, <3>1, <3>2, <3>3 DEF TypeInv
    <3> QED BY <3>3, <3>5, <3>6 DEF TypeInv
  <2>8. CASE Collect(c)
    <3>1. Order[job[c].at] \in Family
      BY <2>8 DEF Collect, Family
    <3>2. Output(c, Order[job[c].at]) \in RecSet
      BY <3>1, OutputTyped
    <3>3. [job[c] EXCEPT !.at = @ + 1] \in JobSet
      BY <2>b DEF JobSet
    <3>4. job' \in [Call -> JobSet]
      BY <2>8, <2>b, <3>3 DEF Collect, Becomes
    <3>5. canon' \in [Dirs -> [Family -> RecSet]]
      BY <2>8, <2>a, <3>1, <3>2 DEF Collect, TypeInv
    <3> QED BY <2>8, <3>4, <3>5 DEF Collect, TypeInv
  <2>9. CASE Label(c)
    <3>1. [job[c] EXCEPT !.pc = "load"] \in JobSet
      BY <2>b DEF JobSet, Pcs
    <3>2. job' \in [Call -> JobSet]
      BY <2>9, <2>b, <3>1 DEF Label, Becomes, Goes
    <3>3. ASSUME NEW f \in Family
          PROVE  [canon[Dir(c)][f] EXCEPT !.demo = @ \/ canon[Dir(c)][f].recs # {}] \in RecSet
      <4> DEFINE r == canon[Dir(c)][f]
      <4>1. r \in RecSet
        BY <2>a DEF TypeInv
      <4> HIDE DEF r
      <4>2. [r EXCEPT !.demo = @ \/ r.recs # {}] \in RecSet
        BY <4>1 DEF RecSet
      <4> QED BY <4>2 DEF r
    <3>4. canon' \in [Dirs -> [Family -> RecSet]]
      BY <2>9, <2>a, <3>3 DEF Label, TypeInv
    <3> QED BY <2>9, <3>2, <3>4 DEF Label, TypeInv
  <2>10. CASE Load(c)
    <3>1. [job[c] EXCEPT !.pc = "export"] \in JobSet
      BY <2>b DEF JobSet, Pcs
    <3>2. job' \in [Call -> JobSet]
      BY <2>10, <2>b, <3>1 DEF Load, Becomes, Goes
    <3>3. AllRecs(Dir(c)) \in SUBSET (Content \cup {"fixture"})
      BY <2>a DEF AllRecs, TypeInv, RecSet
    <3>4. (\E f \in Family : canon[Dir(c)][f].demo) \in BOOLEAN
      OBVIOUS
    <3>5. register' \in [Dirs -> RecSet]
      BY <2>10, <2>a, <3>3, <3>4 DEF Load, TypeInv, RecSet
    <3> QED BY <2>10, <3>2, <3>5 DEF Load, TypeInv
  <2>11. CASE Export(c)
    <3>1. (AllRecs(Dir(c)) # {}) \in BOOLEAN /\ (job[c].client /\ ~job[c].sample) \in BOOLEAN
      OBVIOUS
    <3>2. [job[c] EXCEPT !.pc = "judge", !.found = AllRecs(Dir(c)) # {}] \in JobSet
      BY <2>b, <3>1 DEF JobSet, Pcs
    <3>3. job' \in [Call -> JobSet]
      BY <2>11, <2>b, <3>2 DEF Export, Becomes
    <3>4. bundle' \in [Dirs -> [client : BOOLEAN, by : Tags]]
      BY <2>11, <2>a, <3>1 DEF Export, TypeInv
    <3> QED BY <2>11, <3>3, <3>4 DEF Export, TypeInv
  <2>12. CASE Judge(c)
    <3>1. PICK misshapen \in BOOLEAN :
          LET ok == Passes(c, misshapen)
              told == [job[c] EXCEPT !.ok = ok, !.pc = "answer"]
          IN /\ stamp' = [stamp EXCEPT ![Dir(c)] =
                            [status |-> IF ok THEN "pass" ELSE "fail",
                             client |-> job[c].client /\ ~job[c].sample,
                             written |-> job[c].seen # pack, by |-> Tag(c)]]
             /\ Becomes(c, IF CsvMissing(c) /\ ~MissingFamily(c) THEN Again(told) ELSE told)
      BY <2>12 DEF Judge
    <3> DEFINE told == [job[c] EXCEPT !.ok = Passes(c, misshapen), !.pc = "answer"]
    <3>2. told \in JobSet
      <4>1. Passes(c, misshapen) \in BOOLEAN
        BY DEF Passes
      <4> HIDE DEF Passes
      <4> QED BY <2>b, <4>1 DEF JobSet, Pcs
    <3>3. /\ [told EXCEPT !.pc = "wipeIn", !.inner = 1, !.wipes = 2, !.then = "look"] \in JobSet
          /\ [told EXCEPT !.pc = "wipeIn", !.wipes = 1, !.then = "answer"] \in JobSet
      <4> DEFINE g == [told EXCEPT !.pc = "wipeIn"]
                 h == [g EXCEPT !.inner = 1]
                 i == [h EXCEPT !.wipes = 2]
                 k == [g EXCEPT !.wipes = 1]
      <4> HIDE DEF told
      <4>1. g \in JobSet
        BY <3>2, PcTyped DEF Pcs
      <4>2. h \in JobSet /\ k \in JobSet
        <5> HIDE DEF g
        <5> QED BY <4>1, InnerTyped, WipesTyped
      <4>3. i \in JobSet
        <5> HIDE DEF h
        <5> QED BY <4>2, WipesTyped
      <4>4. [i EXCEPT !.then = "look"] \in JobSet /\ [k EXCEPT !.then = "answer"] \in JobSet
        <5> HIDE DEF i, k
        <5> QED BY <4>2, <4>3, ThenTyped
      <4> QED BY <4>4
    <3>4. Again(told) \in JobSet
      <4> HIDE DEF told
      <4> QED BY <3>3 DEF Again
    <3>5. Becomes(c, IF CsvMissing(c) /\ ~MissingFamily(c) THEN Again(told) ELSE told)
      BY <3>1
    <3>6. job' \in [Call -> JobSet]
      <4> HIDE DEF told
      <4> QED BY <2>b, <3>2, <3>4, <3>5 DEF Becomes
    <3>7. stamp' \in [Dirs -> StampSet]
      <4>1. (job[c].client /\ ~job[c].sample) \in BOOLEAN /\ (job[c].seen # pack) \in BOOLEAN
        OBVIOUS
      <4>2. PICK s \in {"pass", "fail"} :
              stamp' = [stamp EXCEPT ![Dir(c)] =
                          [status |-> s, client |-> job[c].client /\ ~job[c].sample,
                           written |-> job[c].seen # pack, by |-> Tag(c)]]
        BY <3>1
      <4> QED BY <2>a, <4>1, <4>2 DEF TypeInv, StampSet
    <3> QED BY <2>12, <3>6, <3>7 DEF Judge, TypeInv, files
  <2>13. CASE Answer(c)
    <3>1. [job[c] EXCEPT !.pc = "done"] \in JobSet
      BY <2>b DEF JobSet, Pcs
    <3>2. job' \in [Call -> JobSet]
      BY <2>13, <2>b, <3>1 DEF Answer, Becomes, Goes
    <3> QED BY <2>13, <3>2 DEF Answer, TypeInv, files
  <2>14. CASE Raise(c)
    <3>1. [NewJob EXCEPT !.pc = "before", !.outer = 1] \in JobSet
      BY NewJobTyped DEF JobSet, Pcs
    <3>2. [job[c] EXCEPT !.pc = "done"] \in JobSet
      BY <2>b DEF JobSet, Pcs
    <3>3. job' \in [Call -> JobSet]
      BY <2>14, <2>b, <3>1, <3>2 DEF Raise, Becomes, Goes
    <3> QED BY <2>14, <3>3 DEF Raise, TypeInv, files
  <2>15. CASE Die(c)
    <3>1. [job[c] EXCEPT !.pc = "done"] \in JobSet
      BY <2>b DEF JobSet, Pcs
    <3>2. job' \in [Call -> JobSet]
      BY <2>15, <2>b, <3>1 DEF Die, Becomes, Goes
    <3> QED BY <2>15, <3>2 DEF Die, TypeInv, files
  <2> QED BY <1>3, <2>1, <2>2, <2>3, <2>4, <2>5, <2>6, <2>7, <2>8, <2>9, <2>10, <2>11,
             <2>12, <2>13, <2>14, <2>15 DEF Proceed
<1> QED BY <1>1, <1>2, <1>3 DEF Next

-----------------------------------------------------------------------------
(* Directories.                                                            *)
LEMMA OwnDir == ASSUME NEW c \in Own PROVE c \in Call /\ c \in Dirs /\ Dir(c) = c
  BY KeepAssumption DEF Dir, Dirs

LEMMA OtherDir ==
  ASSUME NEW c \in Own, NEW o \in Call, o # c PROVE Dir(o) # c /\ Dir(o) \in Dirs
  BY KeepAssumption DEF Dir, Dirs

(* What a call in a directory of its own goes by.                          *)
Bundle(c) == <<landed[c], canon[c], register[c], bundle[c], stamp[c]>>

LEMMA OthersKeep ==
  ASSUME TypeInv, NEW c \in Own, NEW o \in Call, o # c,
         Start(o) \/ Proceed(o) \/ Raise(o) \/ Die(o)
  PROVE  job'[c] = job[c] /\ answer'[c] = answer[c] /\ Bundle(c)' = Bundle(c)
<1>1. c \in Call /\ c \in Dirs /\ Dir(o) # c /\ Dir(o) \in Dirs
  BY OwnDir, OtherDir
<1>2. /\ job \in [Call -> JobSet]
      /\ DOMAIN answer = Call /\ DOMAIN canon = Dirs /\ DOMAIN register = Dirs
      /\ DOMAIN bundle = Dirs /\ DOMAIN stamp = Dirs /\ DOMAIN landed = Dirs
  BY DEF TypeInv
<1>3. job'[c] = job[c]
  <2>1. \E j : Becomes(o, j)
    <3>1. CASE Start(o) \/ WipeIn(o) \/ Label(o) \/ Load(o) \/ Answer(o) \/ Die(o) \/ Raise(o)
      BY <3>1 DEF Start, WipeIn, Label, Load, Answer, Die, Raise, Goes
    <3>2. CASE Before(o) \/ WipeOut(o) \/ Look(o) \/ Choose(o) \/ Land(o) \/ Collect(o)
               \/ Export(o) \/ Judge(o)
      BY <3>2 DEF Before, WipeOut, Look, Choose, Land, Landed, Collect, Export, Judge
    <3> QED BY <3>1, <3>2 DEF Proceed
  <2> QED BY <1>1, <1>2, <2>1 DEF Becomes
<1>4. answer'[c] = answer[c]
  BY <1>1, <1>2 DEF Start, Proceed, Before, WipeIn, WipeOut, Look, Choose, Land, Landed, Collect,
                    Label, Load, Export, Judge, Answer, Raise, Die
<1>5. canon'[c] = canon[c]
  BY <1>1, <1>2 DEF Start, Proceed, Before, WipeIn, WipeOut, Look, Choose, Land, Landed, Collect,
                    Label, Load, Export, Judge, Answer, Raise, Die, files
<1>6. register'[c] = register[c]
  BY <1>1, <1>2 DEF Start, Proceed, Before, WipeIn, WipeOut, Look, Choose, Land, Landed, Collect,
                    Label, Load, Export, Judge, Answer, Raise, Die, files
<1>7. bundle'[c] = bundle[c]
  BY <1>1, <1>2 DEF Start, Proceed, Before, WipeIn, WipeOut, Look, Choose, Land, Landed, Collect,
                    Label, Load, Export, Judge, Answer, Raise, Die, files
<1>8. stamp'[c] = stamp[c]
  BY <1>1, <1>2 DEF Start, Proceed, Before, WipeIn, WipeOut, Look, Choose, Land, Landed, Collect,
                    Label, Load, Export, Judge, Answer, Raise, Die
<1>9. landed'[c] = landed[c]
  BY <1>1, <1>2 DEF Start, Proceed, Before, WipeIn, WipeOut, Look, Choose, Land, Landed, Collect,
                    Label, Load, Export, Judge, Answer, Raise, Die, files
<1> QED BY <1>3, <1>4, <1>5, <1>6, <1>7, <1>8, <1>9 DEF Bundle

(* Chain where nothing has been written yet, and where no file changes.    *)
LEMMA Blank ==
  ASSUME NEW c \in Own, ~job'[c].ok, answer'[c] # "ok",
         job'[c].pc \notin {"collect", "load", "export", "judge"}
  PROVE  Chain(c)'
  BY DEF Chain

LEMMA Kept ==
  ASSUME NEW c \in Own, Chain(c), Bundle(c)' = Bundle(c), Tag(c)' = Tag(c),
         job'[c].ok = job[c].ok, job'[c].at = job[c].at,
         job'[c].pc = job[c].pc \/ job'[c].pc \in {"answer", "done"},
         answer'[c] = "ok" => job'[c].pc = "done" /\ job'[c].ok
  PROVE  Chain(c)'
<1>1. canon'[c] = canon[c] /\ register'[c] = register[c] /\ bundle'[c] = bundle[c] /\ stamp'[c] = stamp[c]
  BY DEF Bundle
<1>2. AllRecs(c)' = AllRecs(c)
  BY <1>1 DEF AllRecs
<1> QED BY <1>1, <1>2 DEF Chain

-----------------------------------------------------------------------------
LEMMA ChainInit == Init => \A c \in Own : Chain(c)
BY KeepAssumption DEF Init, Chain, NewJob

(* A step of the call itself.                                              *)
LEMMA OwnStep ==
  ASSUME TypeInv, TypeInv', NEW c \in Own, Chain(c),
         Start(c) \/ Proceed(c) \/ Raise(c) \/ Die(c)
  PROVE  Chain(c)'
<1>a. c \in Call /\ c \in Dirs /\ Dir(c) = c
  BY OwnDir
<1>b. job \in [Call -> JobSet] /\ job[c] \in JobSet
  BY <1>a DEF TypeInv
<1>c. /\ DOMAIN answer = Call /\ DOMAIN canon = Dirs /\ DOMAIN register = Dirs
      /\ DOMAIN bundle = Dirs /\ DOMAIN stamp = Dirs /\ DOMAIN job = Call
  BY DEF TypeInv
<1>d. /\ job[c].ok => job[c].pc \in {"answer", "done"}
      /\ answer[c] = "ok" => job[c].pc = "done" /\ job[c].ok
  BY DEF Chain
<1>1. CASE Start(c) \/ Before(c) \/ WipeIn(c) \/ WipeOut(c) \/ Look(c) \/ Choose(c) \/ Land(c)
  <2>1. ~job[c].ok /\ answer[c] # "ok"
    BY <1>1, <1>d DEF Start, Before, WipeIn, WipeOut, Look, Choose, Land, Landed, At
  <2>2. answer' = answer
    BY <1>1 DEF Start, Before, WipeIn, WipeOut, Look, Choose, Land, Landed
  <2>3. CASE Land(c)
    <3>1. ~job'[c].ok /\ job'[c].pc = "collect" /\ job'[c].at = 1
      BY <2>1, <2>3, <1>b, <1>a DEF Land, Landed, Becomes, JobSet
    <3>2. \A i \in DOMAIN Order : i \in Nat /\ i > 0
      BY KeepAssumption
    <3> QED BY <2>1, <2>2, <3>1, <3>2 DEF Chain
  <2>4. CASE Start(c) \/ Before(c) \/ WipeIn(c) \/ WipeOut(c) \/ Look(c) \/ Choose(c)
    <3>a. ASSUME Choose(c)
          PROVE  \/ \E x, y : job' = [job EXCEPT ![c] = [job[c] EXCEPT !.pc = "land", !.client = x, !.rows = y]]
                 \/ job' = [job EXCEPT ![c] = [job[c] EXCEPT !.pc = "answer", !.client = FALSE, !.ok = FALSE]]
      BY <3>a DEF Choose, Becomes
    <3>1. job'[c].ok = job[c].ok \/ job'[c].ok = FALSE
      <4>1. CASE Start(c) \/ WipeIn(c)
        BY <4>1, <1>b, <1>a DEF Start, WipeIn, Becomes, Goes, JobSet
      <4>2. CASE Before(c)
        BY <4>2, <1>b, <1>a DEF Before, Becomes, JobSet
      <4>3. CASE WipeOut(c)
        BY <4>3, <1>b, <1>a DEF WipeOut, Becomes, JobSet
      <4>4. CASE Look(c)
        BY <4>4, <1>b, <1>a DEF Look, Becomes, JobSet
      <4>5. CASE Choose(c)
        BY <4>5, <3>a, <1>b, <1>a DEF JobSet
      <4> QED BY <2>4, <4>1, <4>2, <4>3, <4>4, <4>5
    <3>2. job'[c].pc \in {"before", "wipeIn", "wipeOut", "look", "choose", "land", "answer"}
      <4>1. CASE Start(c)
        BY <4>1, <1>a, <1>b DEF Start, Becomes, Goes, JobSet
      <4>2. CASE Before(c)
        BY <4>2, <1>a, <1>b DEF Before, Becomes, JobSet
      <4>3. CASE WipeIn(c)
        BY <4>3, <1>a, <1>b DEF WipeIn, Becomes, Goes, JobSet
      <4>4. CASE WipeOut(c)
        <5>1. job'[c].pc = IF job[c].wipes = 1 THEN job[c].then ELSE "wipeIn"
          BY <4>4, <1>a, <1>b DEF WipeOut, Becomes, JobSet
        <5>2. job[c].then \in {"look", "answer"}
          BY <1>b DEF JobSet
        <5> QED BY <5>1, <5>2
      <4>5. CASE Look(c)
        BY <4>5, <1>a, <1>b DEF Look, Becomes, JobSet
      <4>6. CASE Choose(c)
        BY <4>6, <3>a, <1>a, <1>b DEF JobSet
      <4> QED BY <2>4, <4>1, <4>2, <4>3, <4>4, <4>5, <4>6
    <3> QED BY <2>1, <2>2, <3>1, <3>2, Blank
  <2> QED BY <1>1, <2>3, <2>4
<1>2. CASE Collect(c)
  <2>1. /\ job'[c].pc = "collect" /\ job'[c].at = job[c].at + 1 /\ job'[c].ok = job[c].ok
        /\ Tag(c)' = Tag(c) /\ answer' = answer
        /\ job[c].pc = "collect" /\ job[c].at \in DOMAIN Order
    BY <1>2, <1>a, <1>b DEF Collect, Becomes, At, Tag, JobSet
  <2>2. \A f \in Family : f # Order[job[c].at] => canon'[c][f] = canon[c][f]
    BY <1>2, <1>a, <1>c DEF Collect, TypeInv
  <2>3. canon'[c][Order[job[c].at]].by = Tag(c)
    <3>1. Order[job[c].at] \in Family
      BY <2>1 DEF Family
    <3>2. canon'[c][Order[job[c].at]] = Output(c, Order[job[c].at])
      BY <1>2, <1>a, <1>c, <3>1 DEF Collect, TypeInv
    <3> QED BY <1>a, <3>2, OutputBy
  <2>4. ASSUME NEW i \in DOMAIN Order, i < job'[c].at PROVE canon'[c][Order[i]].by = Tag(c)
    <3>1. i \in Nat /\ job[c].at \in Nat
      BY KeepAssumption, <2>1
    <3>2. i < job[c].at \/ i = job[c].at
      BY <2>1, <2>4, <3>1
    <3>3. i < job[c].at => canon[c][Order[i]].by = Tag(c)
      BY <2>1 DEF Chain
    <3>4. Order[i] \in Family
      BY DEF Family
    <3> QED BY <2>2, <2>3, <3>2, <3>3, <3>4
  <2>5. ~job'[c].ok /\ answer'[c] # "ok" /\ job'[c].at > 0
    <3>1. job[c].at \in Nat
      BY KeepAssumption, <2>1
    <3> QED BY <2>1, <1>d, <3>1
  <2> QED BY <2>1, <2>4, <2>5 DEF Chain
<1>3. CASE Label(c)
  <2>1. /\ job'[c].pc = "load" /\ job'[c].ok = job[c].ok /\ Tag(c)' = Tag(c) /\ answer' = answer
        /\ job[c].pc = "collect" /\ job[c].at \notin DOMAIN Order
    BY <1>3, <1>a, <1>b DEF Label, Becomes, Goes, At, Tag, JobSet
  <2>2. ASSUME NEW f \in Family PROVE canon[c][f].by = Tag(c)
    <3>1. PICK i \in DOMAIN Order : f = Order[i]
      BY DEF Family
    <3>2. i < job[c].at
      <4>1. Len(Order) \in Nat /\ DOMAIN Order = 1..Len(Order) /\ job[c].at \in Nat
        BY KeepAssumption, <1>b DEF JobSet
      <4>2. job[c].at > 0
        BY <2>1 DEF Chain
      <4> QED BY <2>1, <4>1, <4>2
    <3> QED BY <2>1, <3>1, <3>2 DEF Chain
  <2>3. ASSUME NEW f \in Family PROVE canon'[c][f].by = canon[c][f].by
    <3>1. canon[c][f] \in RecSet
      BY <1>a DEF TypeInv
    <3>2. CASE job[c].sample
      <4>1. canon'[c][f] = [canon[c][f] EXCEPT !.demo = @ \/ canon[c][f].recs # {}]
        BY <1>3, <1>a, <1>c, <3>2 DEF Label
      <4> QED BY <3>1, <4>1 DEF RecSet
    <3>3. CASE ~job[c].sample
      BY <1>3, <3>3 DEF Label
    <3> QED BY <3>2, <3>3
  <2> QED BY <2>1, <2>2, <2>3, <1>d DEF Chain
<1>4. CASE Load(c)
  <2>1. /\ job'[c].pc = "export" /\ job'[c].ok = job[c].ok /\ Tag(c)' = Tag(c) /\ answer' = answer
        /\ job[c].pc = "load" /\ canon' = canon
    BY <1>4, <1>a, <1>b DEF Load, Becomes, Goes, At, Tag, JobSet
  <2>2. register'[c].recs = AllRecs(c) /\ register'[c].by = Tag(c) /\ AllRecs(c)' = AllRecs(c)
    BY <1>4, <1>a, <1>c, <2>1 DEF Load, AllRecs
  <2> QED BY <2>1, <2>2, <1>d DEF Chain
<1>5. CASE Export(c)
  <2>1. /\ job'[c].pc = "judge" /\ job'[c].ok = job[c].ok /\ Tag(c)' = Tag(c) /\ answer' = answer
        /\ job[c].pc = "export" /\ canon' = canon /\ register' = register
    BY <1>5, <1>a, <1>b DEF Export, Becomes, At, Tag, JobSet
  <2>2. bundle'[c].by = Tag(c) /\ AllRecs(c)' = AllRecs(c)
    BY <1>5, <1>a, <1>c, <2>1 DEF Export, AllRecs
  <2> QED BY <2>1, <2>2, <1>d DEF Chain
<1>6. CASE Judge(c)
  <2>1. PICK misshapen \in BOOLEAN :
        LET ok == Passes(c, misshapen)
            told == [job[c] EXCEPT !.ok = ok, !.pc = "answer"]
        IN /\ stamp' = [stamp EXCEPT ![Dir(c)] =
                          [status |-> IF ok THEN "pass" ELSE "fail",
                           client |-> job[c].client /\ ~job[c].sample,
                           written |-> job[c].seen # pack, by |-> Tag(c)]]
           /\ Becomes(c, IF CsvMissing(c) /\ ~MissingFamily(c) THEN Again(told) ELSE told)
    BY <1>6 DEF Judge
  <2> DEFINE told == [job[c] EXCEPT !.ok = Passes(c, misshapen), !.pc = "answer"]
  <2>2. /\ job[c].pc = "judge" /\ answer' = answer
        /\ canon' = canon /\ register' = register /\ bundle' = bundle
    BY <1>6 DEF Judge, At, files
  <2>3. answer'[c] # "ok"
    BY <2>2, <1>d
  <2>4. CASE Passes(c, misshapen)
    <3>1. ~CsvMissing(c)
      BY <2>4 DEF Passes
    <3>2. job' = [job EXCEPT ![c] = told]
      BY <2>1, <3>1 DEF Becomes
    <3>3. job'[c].pc = "answer" /\ Tag(c)' = Tag(c)
      BY <3>2, <1>a, <1>b DEF Tag, JobSet
    <3>4. stamp'[c].status = "pass" /\ stamp'[c].by = Tag(c)
      BY <2>1, <2>4, <1>a, <1>c
    <3>5. AllRecs(c)' = AllRecs(c)
      BY <2>2 DEF AllRecs
    <3> QED BY <2>2, <2>3, <3>3, <3>4, <3>5 DEF Chain
  <2>5. CASE ~Passes(c, misshapen)
    <3>1. told.ok = FALSE /\ told.pc = "answer"
      BY <2>5, <1>b DEF JobSet
    <3>2. Again(told).ok = FALSE /\ Again(told).pc = "wipeIn"
      <4>1. told \in JobSet
        <5>1. Passes(c, misshapen) \in BOOLEAN
          BY DEF Passes
        <5> QED BY <5>1, <1>b DEF JobSet, Pcs
      <4> HIDE DEF told
      <4> QED BY <3>1, <4>1 DEF Again, JobSet
    <3>3. job'[c] = told \/ job'[c] = Again(told)
      BY <2>1, <1>a, <1>c DEF Becomes
    <3> HIDE DEF told
    <3> QED BY <2>3, <3>1, <3>2, <3>3, Blank
  <2> QED BY <2>4, <2>5
<1>7. CASE Answer(c) \/ Die(c) \/ Raise(c)
  <2>1. CASE job'[c] = [NewJob EXCEPT !.pc = "before", !.outer = 1] /\ answer' = answer /\ Active(c)
    <3>1. ~job'[c].ok /\ job'[c].pc = "before"
      BY <2>1 DEF NewJob
    <3>2. answer'[c] # "ok"
      BY <2>1, <1>d DEF Active
    <3> QED BY <3>1, <3>2, Blank
  <2>2. CASE job'[c] = [job[c] EXCEPT !.pc = "done"]
    <3>1. /\ job'[c].ok = job[c].ok /\ job'[c].at = job[c].at /\ job'[c].pc = "done"
          /\ Tag(c)' = Tag(c)
      BY <2>2, <1>b DEF JobSet, Tag
    <3>2. Bundle(c)' = Bundle(c)
      BY <1>7 DEF Answer, Die, Raise, Bundle, files
    <3>3. answer'[c] = "ok" => job[c].ok
      BY <1>7, <1>a, <1>c, <1>d DEF Answer, Die, Raise
    <3> QED BY <3>1, <3>2, <3>3, Kept
  <2> QED BY <1>7, <2>1, <2>2, <1>a, <1>c DEF Answer, Die, Raise, Goes, Becomes
<1> QED BY <1>1, <1>2, <1>3, <1>4, <1>5, <1>6, <1>7 DEF Proceed

LEMMA InvStep == Inv /\ [Next]_vars => Inv'
<1> SUFFICES ASSUME Inv, [Next]_vars PROVE Inv'
  OBVIOUS
<1>1. TypeInv /\ TypeInv'
  BY TypeStep DEF Inv
<1>2. ASSUME NEW c \in Own PROVE Chain(c)'
  <2>1. Chain(c)
    BY DEF Inv
  <2>2. CASE Edit \/ UNCHANGED vars
    <3>1. job' = job /\ answer' = answer /\ Bundle(c)' = Bundle(c) /\ Tag(c)' = Tag(c)
      BY <2>2 DEF Edit, vars, files, Bundle, Tag
    <3>2. answer[c] = "ok" => job[c].pc = "done" /\ job[c].ok
      BY <2>1 DEF Chain
    <3> QED BY <2>1, <3>1, <3>2, Kept
  <2>3. ASSUME NEW o \in Call, Start(o) \/ Proceed(o) \/ Raise(o) \/ Die(o) PROVE Chain(c)'
    <3>1. CASE o = c
      BY <1>1, <2>1, <2>3, <3>1, OwnStep
    <3>2. CASE o # c
      <4>1. job'[c] = job[c] /\ answer'[c] = answer[c] /\ Bundle(c)' = Bundle(c)
        BY <1>1, <2>3, <3>2, OthersKeep
      <4>2. Tag(c)' = Tag(c)
        BY <4>1 DEF Tag
      <4>3. answer[c] = "ok" => job[c].pc = "done" /\ job[c].ok
        BY <2>1 DEF Chain
      <4> QED BY <2>1, <4>1, <4>2, <4>3, Kept
    <3> QED BY <3>1, <3>2
  <2> QED BY <2>2, <2>3 DEF Next
<1> QED BY <1>1, <1>2 DEF Inv

(* keep/lab.py and keep_ciso: an answer of ok from a call with a work      *)
(* directory of its own means that the records, register, handoff and      *)
(* keep-lab.json there are all of the attempt that answered, for any       *)
(* number of calls, retries, exceptions, deaths and edits of the pack.     *)
THEOREM WholeWhenOk == Spec => []OkIsWhole
<1>1. Init => Inv
  BY TypeInit, ChainInit DEF Inv
<1>2. Inv /\ [Next]_vars => Inv'
  BY InvStep
<1>3. Inv => OkIsWhole
  <2> SUFFICES ASSUME Inv, NEW c \in Own, answer[c] = "ok" PROVE WholeBundle(c)
    BY DEF OkIsWhole
  <2>1. Chain(c) /\ Dir(c) = c
    BY OwnDir DEF Inv
  <2> QED BY <2>1 DEF Chain, WholeBundle
<1> QED BY <1>1, <1>2, <1>3, PTL DEF Spec

-----------------------------------------------------------------------------
(* A pass of a client's run is a snapshot of the pack.  While edits do not *)
(* restore an earlier pack, a pack that is what the call saw is one nobody *)
(* touched since: then the rows, the landed copies, the records and the    *)
(* register of the call all speak of the pack as it is.                    *)
Contents(f) == {r.content : r \in {q \in PackRows : q.fam = f}}
PackFiles == {pack[n] : n \in Name} \ {Absent}

Untouched(c) == job[c].client /\ job[c].seen = pack

Copied(c) ==
  /\ job[c].pc \in {"choose", "land", "collect", "load", "export", "judge"} =>
       job[c].seen \in past \cup {pack}
  /\ job[c].pc \in {"wipeOut", "look", "choose", "land"} => landed[c] = EmptyIn
  /\ job[c].pc \in {"land", "collect", "load", "export", "judge"} /\ Untouched(c) =>
       ClientReady(PackRows) /\ job[c].rows = PackRows
  /\ job[c].pc \in {"collect", "load", "export", "judge"} /\ Untouched(c) =>
       landed[c].files = PackRows /\ (Marked(PackRows, "sample") => job[c].sample)
  /\ job[c].pc = "collect" => job[c].at > 0
  /\ job[c].pc = "collect" /\ Untouched(c) =>
       \A i \in DOMAIN Order : i < job[c].at => canon[c][Order[i]].recs = Contents(Order[i])
  /\ job[c].pc \in {"load", "export", "judge"} /\ Untouched(c) =>
       \A f \in Family : canon[c][f].recs = Contents(f)
  /\ job[c].pc \in {"export", "judge"} /\ Untouched(c) => register[c].recs = PackFiles

CopyInv == pack \notin past /\ \A c \in Own : Copied(c)

LEMMA OutputContents ==
  ASSUME TypeInv, NEW c \in Own, NEW f \in Family,
         landed[c].files = PackRows, ClientReady(PackRows)
  PROVE  Output(c, f).recs = Contents(f)
<1> DEFINE in == landed[Dir(c)]
           fs == {r.content : r \in {q \in in.files : q.fam = f}}
           hint == Runtime!EstateHint("", IF in.banner THEN {"SAMPLE"} ELSE {}, job[c].sample)
           subst == Runtime!Substitutes(fs, hint, in.files # {})
           recs == Runtime!Records(f, fs, subst)
<1>1. fs = Contents(f)
  BY OwnDir DEF Contents
<1>2. fs # {} /\ fs \subseteq Content
  <2>1. PackRows \in SUBSET RowSet
    BY RowsTyped
  <2>2. PICK r \in PackRows : r.fam = f
    BY DEF ClientReady
  <2>3. r.content \in fs
    BY <1>1, <2>2 DEF Contents
  <2> QED BY <1>1, <2>1, <2>3 DEF Contents, RowSet
<1>3. Output(c, f).recs = recs
  BY DEF Output
<1>4. ~subst
  <2> HIDE DEF fs, hint
  <2>1. Runtime!Accepted(fs) = fs
    BY <1>2 DEF Runtime!Accepted
  <2> QED BY <1>2, <2>1 DEF Runtime!Substitutes
<1>5. recs = fs
  <2> HIDE DEF fs, subst
  <2> QED BY <1>2, <1>4 DEF Runtime!Records
<1> QED BY <1>1, <1>3, <1>5

LEMMA UnionOfFamilies ==
  ASSUME TypeInv, NEW c \in Own, \A f \in Family : canon[c][f].recs = Contents(f)
  PROVE  AllRecs(c) = PackFiles
<1>1. ASSUME NEW x \in AllRecs(c) PROVE x \in PackFiles
  <2>1. PICK f \in Family : x \in Contents(f)
    BY DEF AllRecs
  <2> QED BY <2>1 DEF Contents, PackRows, PackFiles
<1>2. ASSUME NEW x \in PackFiles PROVE x \in AllRecs(c)
  <2>1. PICK n \in Name : x = pack[n] /\ pack[n] # Absent
    BY DEF PackFiles
  <2> DEFINE r == [name |-> n, fam |-> Fam[n], content |-> pack[n]]
  <2>2. r \in PackRows /\ r.fam = Fam[n] /\ r.content = x /\ Fam[n] \in Family
    BY <2>1, KeepAssumption DEF PackRows
  <2>3. x \in Contents(Fam[n])
    BY <2>2 DEF Contents
  <2> QED BY <2>2, <2>3 DEF AllRecs
<1> QED BY <1>1, <1>2

(* Where the call is not yet, or no more, at work on the pack.             *)
LEMMA NotCopying ==
  ASSUME NEW c \in Own,
         job'[c].pc \notin {"wipeOut", "look", "choose", "land", "collect", "load", "export", "judge"}
  PROVE  Copied(c)'
BY DEF Copied

LEMMA CopiedKept ==
  ASSUME NEW c \in Own, Copied(c), job'[c] = job[c], Bundle(c)' = Bundle(c),
         UNCHANGED <<pack, past>>
  PROVE  Copied(c)'
<1>1. landed'[c] = landed[c] /\ canon'[c] = canon[c] /\ register'[c] = register[c]
  BY DEF Bundle
<1>2. PackRows' = PackRows /\ PackFiles' = PackFiles /\ (\A f : Contents(f)' = Contents(f))
      /\ Untouched(c)' = Untouched(c)
  BY DEF PackRows, PackFiles, Contents, Untouched
<1> QED BY <1>1, <1>2 DEF Copied, Untouched

LEMMA CopyStep ==
  ASSUME TypeInv, NEW c \in Own, Copied(c), Start(c) \/ Proceed(c) \/ Raise(c) \/ Die(c)
  PROVE  Copied(c)'
<1>a. c \in Call /\ c \in Dirs /\ Dir(c) = c
  BY OwnDir
<1>b. job \in [Call -> JobSet] /\ job[c] \in JobSet /\ DOMAIN job = Call
  BY <1>a DEF TypeInv
<1>c. /\ DOMAIN canon = Dirs /\ DOMAIN register = Dirs /\ DOMAIN landed = Dirs
      /\ canon[c] \in [Family -> RecSet]
  BY <1>a DEF TypeInv
<1>d. UNCHANGED <<pack, past>>
  BY DEF Start, Proceed, Before, WipeIn, WipeOut, Look, Choose, Land, Landed, Collect,
         Label, Load, Export, Judge, Answer, Raise, Die
<1>e. PackRows' = PackRows /\ PackFiles' = PackFiles /\ (\A f : Contents(f)' = Contents(f))
  BY <1>d DEF PackRows, PackFiles, Contents
<1>1. CASE Start(c) \/ Before(c) \/ Answer(c) \/ Raise(c) \/ Die(c)
  <2>1. job'[c].pc \in {"before", "wipeIn", "done"}
    <3>1. CASE Start(c)
      BY <3>1, <1>a, <1>b DEF Start, Goes, Becomes, JobSet
    <3>2. CASE Before(c)
      BY <3>2, <1>a, <1>b DEF Before, Becomes, JobSet
    <3>3. CASE Answer(c) \/ Die(c)
      BY <3>3, <1>a, <1>b DEF Answer, Die, Goes, Becomes, JobSet
    <3>4. CASE Raise(c)
      <4>1. [NewJob EXCEPT !.pc = "before", !.outer = 1].pc = "before"
        BY DEF NewJob
      <4>2. [job[c] EXCEPT !.pc = "done"].pc = "done"
        BY <1>b DEF JobSet
      <4> QED BY <3>4, <4>1, <4>2, <1>a, <1>b DEF Raise, Goes, Becomes
    <3> QED BY <1>1, <3>1, <3>2, <3>3, <3>4
  <2> QED BY <2>1, NotCopying
<1>2. CASE WipeIn(c)
  <2>1. job'[c].pc = "wipeOut" /\ landed'[c] = EmptyIn
    BY <1>2, <1>a, <1>b, <1>c DEF WipeIn, Goes, Becomes, JobSet
  <2> QED BY <2>1 DEF Copied
<1>3. CASE WipeOut(c)
  <2>1. job'[c].pc = IF job[c].wipes = 1 THEN job[c].then ELSE "wipeIn"
    BY <1>3, <1>a, <1>b DEF WipeOut, Becomes, JobSet
  <2>2. job[c].then \in {"look", "answer"} /\ landed'[c] = EmptyIn
    BY <1>3, <1>b DEF WipeOut, JobSet, At, Copied
  <2> QED BY <2>1, <2>2 DEF Copied
<1>4. CASE Look(c)
  <2>1. job'[c].pc = "choose" /\ job'[c].seen = pack
    BY <1>4, <1>a, <1>b DEF Look, Becomes, JobSet
  <2>2. landed'[c] = EmptyIn
    BY <1>4 DEF Look, files, At, Copied
  <2> QED BY <1>d, <2>1, <2>2 DEF Copied
<1>5. CASE Choose(c)
  <2>1. CASE job' = [job EXCEPT ![c] = [job[c] EXCEPT !.pc = "answer", !.client = FALSE, !.ok = FALSE]]
    <3>1. job'[c].pc = "answer"
      BY <2>1, <1>a, <1>b DEF JobSet
    <3> QED BY <3>1, NotCopying
  <2>2. CASE job' = [job EXCEPT ![c] = [job[c] EXCEPT !.pc = "land", !.client = FromPack(c),
                                         !.rows = IF FromPack(c) THEN PackRows ELSE LeafRows]]
    <3>1. /\ job'[c].pc = "land" /\ job'[c].client = FromPack(c) /\ job'[c].seen = job[c].seen
          /\ job'[c].rows = IF FromPack(c) THEN PackRows ELSE LeafRows
      BY <2>2, <1>a, <1>b DEF JobSet
    <3>2. landed'[c] = EmptyIn /\ job[c].seen \in past \cup {pack}
      BY <1>5 DEF Choose, files, At, Copied
    <3>3. job'[c].client => ClientReady(PackRows) /\ job'[c].rows = PackRows
      BY <3>1 DEF FromPack
    <3>4. ClientReady(PackRows)' = ClientReady(PackRows)
      BY <1>e DEF ClientReady
    <3> QED BY <1>d, <1>e, <3>1, <3>2, <3>3, <3>4 DEF Copied, Untouched
  <2> QED BY <1>5, <2>1, <2>2 DEF Choose, Becomes
<1>6. CASE Land(c)
  <2> DEFINE here == {r \in job[c].rows : job[c].client => pack[r.name] # Absent}
             sample == ~job[c].client \/ Marked(here, "sample")
             copies == {[r EXCEPT !.content = IF job[c].client THEN pack[r.name] ELSE @] : r \in here}
  <2>1. /\ landed' = [landed EXCEPT ![Dir(c)] =
                        [files |-> @.files \cup copies, banner |-> @.banner \/ sample]]
        /\ job' = [job EXCEPT ![c] = [job[c] EXCEPT !.pc = "collect", !.rows = here,
                                        !.seen = job[c].seen, !.sample = sample, !.at = 1]]
        /\ job[c].pc = "land"
    BY <1>6 DEF Land, Landed, Becomes, At
  <2>2. ASSUME Untouched(c)
        PROVE  ClientReady(PackRows) /\ here = PackRows /\ copies = PackRows
    <3>1. ClientReady(PackRows) /\ job[c].rows = PackRows /\ job[c].client
      BY <2>1, <2>2 DEF Copied, Untouched
    <3>2. \A r \in PackRows : /\ pack[r.name] # Absent /\ r.content = pack[r.name]
                              /\ r = [name |-> r.name, fam |-> r.fam, content |-> r.content]
      BY DEF PackRows
    <3>3. here = PackRows
      BY <3>1, <3>2
    <3>4. \A r \in PackRows : [r EXCEPT !.content = pack[r.name]] = r
      BY <3>2
    <3>5. copies = {[r EXCEPT !.content = pack[r.name]] : r \in PackRows}
      BY <3>1, <3>3
    <3> QED BY <3>1, <3>3, <3>4, <3>5
  <2> HIDE DEF here, sample, copies
  <2>3. /\ job'[c].pc = "collect" /\ job'[c].rows = here /\ job'[c].seen = job[c].seen
        /\ job'[c].sample = sample /\ job'[c].at = 1 /\ job'[c].client = job[c].client
    BY <2>1, <1>a, <1>b DEF JobSet
  <2>4. landed'[c].files = EmptyIn.files \cup copies
    BY <2>1, <1>a, <1>c DEF Copied
  <2>5. Untouched(c)' = Untouched(c) /\ job'[c].seen \in past \cup {pack}
    BY <1>d, <2>1, <2>3 DEF Untouched, Copied
  <2>6. ClientReady(PackRows)' = ClientReady(PackRows) /\ Marked(PackRows, "sample")' = Marked(PackRows, "sample")
    BY <1>e DEF ClientReady, Marked
  <2>7. Untouched(c) => landed'[c].files = PackRows /\ job'[c].rows = PackRows
                        /\ (Marked(PackRows, "sample") => sample)
    BY <2>2, <2>3, <2>4 DEF EmptyIn, sample
  <2>8. \A i \in DOMAIN Order : ~(i < 1)
    BY KeepAssumption
  <2> QED BY <1>d, <1>e, <2>2, <2>3, <2>5, <2>6, <2>7, <2>8 DEF Copied
<1>7. CASE Collect(c)
  <2>1. /\ job'[c].pc = "collect" /\ job'[c].at = job[c].at + 1 /\ job'[c].client = job[c].client
        /\ job'[c].seen = job[c].seen /\ job'[c].rows = job[c].rows /\ job'[c].sample = job[c].sample
        /\ job[c].pc = "collect" /\ job[c].at \in DOMAIN Order /\ landed' = landed
    BY <1>7, <1>a, <1>b DEF Collect, Becomes, At, JobSet
  <2>2. canon'[c] = [canon[c] EXCEPT ![Order[job[c].at]] = Output(c, Order[job[c].at])]
    BY <1>7, <1>a, <1>c DEF Collect
  <2>3. Untouched(c)' = Untouched(c)
    BY <1>d, <2>1 DEF Untouched
  <2>4. ASSUME Untouched(c), NEW i \in DOMAIN Order, i < job'[c].at
        PROVE  canon'[c][Order[i]].recs = Contents(Order[i])
    <3>1. i < job[c].at \/ i = job[c].at
      BY <2>1, <2>4, KeepAssumption
    <3>2. Order[i] \in Family
      BY DEF Family
    <3>3. CASE Order[i] = Order[job[c].at]
      <4>1. canon'[c][Order[i]] = Output(c, Order[i])
        BY <1>c, <2>2, <3>2, <3>3
      <4>2. landed[c].files = PackRows /\ ClientReady(PackRows)
        BY <2>1, <2>4 DEF Copied
      <4> QED BY <3>2, <4>1, <4>2, OutputContents
    <3>4. CASE Order[i] # Order[job[c].at]
      <4>1. i < job[c].at
        BY <3>1, <3>4
      <4>2. canon'[c][Order[i]] = canon[c][Order[i]]
        BY <1>c, <2>2, <3>2, <3>4
      <4> QED BY <2>1, <2>4, <4>1, <4>2 DEF Copied
    <3> QED BY <3>3, <3>4
  <2>5. ClientReady(PackRows)' = ClientReady(PackRows) /\ Marked(PackRows, "sample")' = Marked(PackRows, "sample")
    BY <1>e DEF ClientReady, Marked
  <2>6. job'[c].at > 0
    BY <2>1, KeepAssumption
  <2> QED BY <1>d, <1>e, <2>1, <2>3, <2>4, <2>5, <2>6 DEF Copied
<1>8. CASE Label(c)
  <2>1. /\ job'[c] = [job[c] EXCEPT !.pc = "load"] /\ landed' = landed
        /\ job[c].pc = "collect" /\ job[c].at \notin DOMAIN Order
    BY <1>8, <1>a, <1>b DEF Label, Goes, Becomes, At
  <2>2. ASSUME NEW f \in Family PROVE canon'[c][f].recs = canon[c][f].recs
    <3>1. canon[c][f] \in RecSet
      BY <1>c
    <3>2. CASE job[c].sample
      <4>1. canon'[c][f] = [canon[c][f] EXCEPT !.demo = @ \/ canon[c][f].recs # {}]
        BY <1>8, <1>a, <1>c, <3>2 DEF Label
      <4> QED BY <3>1, <4>1 DEF RecSet
    <3> QED BY <1>8, <3>2 DEF Label
  <2>3. ASSUME Untouched(c), NEW f \in Family PROVE canon[c][f].recs = Contents(f)
    <3>1. PICK i \in DOMAIN Order : f = Order[i]
      BY DEF Family
    <3>2. i < job[c].at
      <4>1. Len(Order) \in Nat /\ DOMAIN Order = 1..Len(Order) /\ job[c].at \in Nat
        BY KeepAssumption, <1>b DEF JobSet
      <4>2. job[c].at > 0
        BY <2>1 DEF Copied
      <4> QED BY <2>1, <4>1, <4>2
    <3> QED BY <2>1, <2>3, <3>1, <3>2 DEF Copied
  <2>4. /\ job'[c].pc = "load" /\ job'[c].client = job[c].client /\ job'[c].seen = job[c].seen
        /\ job'[c].rows = job[c].rows /\ job'[c].sample = job[c].sample
    BY <2>1, <1>b DEF JobSet
  <2>5. Untouched(c)' = Untouched(c)
    BY <1>d, <2>4 DEF Untouched
  <2>6. ClientReady(PackRows)' = ClientReady(PackRows) /\ Marked(PackRows, "sample")' = Marked(PackRows, "sample")
    BY <1>e DEF ClientReady, Marked
  <2> QED BY <1>d, <1>e, <2>1, <2>2, <2>3, <2>4, <2>5, <2>6 DEF Copied
<1>9. CASE Load(c) \/ Export(c)
  <2>1. /\ job'[c].pc = (IF job[c].pc = "load" THEN "export" ELSE "judge")
        /\ job'[c].client = job[c].client /\ job'[c].seen = job[c].seen
        /\ job'[c].rows = job[c].rows /\ job'[c].sample = job[c].sample
        /\ job[c].pc \in {"load", "export"} /\ landed' = landed /\ canon' = canon
    <3>1. CASE Load(c)
      BY <3>1, <1>a, <1>b DEF Load, Goes, Becomes, At, JobSet
    <3>2. CASE Export(c)
      BY <3>2, <1>a, <1>b DEF Export, Becomes, At, JobSet
    <3> QED BY <1>9, <3>1, <3>2
  <2>2. Untouched(c)' = Untouched(c)
    BY <1>d, <2>1 DEF Untouched
  <2>3. Untouched(c) => register'[c].recs = PackFiles
    <3>1. CASE Load(c)
      <4>1. register'[c].recs = AllRecs(c)
        BY <3>1, <1>a, <1>c DEF Load
      <4> QED BY <2>1, <4>1, UnionOfFamilies DEF Copied
    <3>2. CASE Export(c)
      BY <3>2 DEF Export, Copied, At
    <3> QED BY <1>9, <3>1, <3>2
  <2>4. ClientReady(PackRows)' = ClientReady(PackRows) /\ Marked(PackRows, "sample")' = Marked(PackRows, "sample")
    BY <1>e DEF ClientReady, Marked
  <2> QED BY <1>d, <1>e, <2>1, <2>2, <2>3, <2>4 DEF Copied
<1>10. CASE Judge(c)
  <2>1. job'[c].pc \in {"answer", "wipeIn"}
    <3>1. PICK misshapen \in BOOLEAN :
          LET told == [job[c] EXCEPT !.ok = Passes(c, misshapen), !.pc = "answer"]
          IN Becomes(c, IF CsvMissing(c) /\ ~MissingFamily(c) THEN Again(told) ELSE told)
      BY <1>10 DEF Judge
    <3> DEFINE told == [job[c] EXCEPT !.ok = Passes(c, misshapen), !.pc = "answer"]
    <3>2. told \in JobSet /\ told.pc = "answer"
      <4>1. Passes(c, misshapen) \in BOOLEAN
        BY DEF Passes
      <4> QED BY <4>1, <1>b DEF JobSet, Pcs
    <3>3. job'[c] = told \/ job'[c] = Again(told)
      BY <3>1, <1>a, <1>b DEF Becomes
    <3> HIDE DEF told
    <3>4. Again(told).pc = "wipeIn"
      BY <3>2 DEF Again, JobSet
    <3> QED BY <3>2, <3>3, <3>4
  <2> QED BY <2>1, NotCopying
<1> QED BY <1>1, <1>2, <1>3, <1>4, <1>5, <1>6, <1>7, <1>8, <1>9, <1>10 DEF Proceed

LEMMA CopyInvStep == ~Undo /\ TypeInv /\ CopyInv /\ [Next]_vars => CopyInv'
<1> SUFFICES ASSUME ~Undo, TypeInv, CopyInv, [Next]_vars PROVE CopyInv'
  OBVIOUS
<1>1. CASE Edit
  <2>1. pack' \notin past \cup {pack} /\ past' = past \cup {pack} /\ job' = job /\ UNCHANGED landed
    BY <1>1 DEF Edit, files
  <2>2. ASSUME NEW c \in Own PROVE Copied(c)'
    <3>1. /\ job[c].pc \in {"choose", "land", "collect", "load", "export", "judge"} =>
               job[c].seen \in past \cup {pack}
          /\ job[c].pc \in {"wipeOut", "look", "choose", "land"} => landed[c] = EmptyIn
          /\ job[c].pc = "collect" => job[c].at > 0
      BY DEF CopyInv, Copied
    <3>2. job[c].pc \in {"land", "collect", "load", "export", "judge"} => ~Untouched(c)'
      BY <2>1, <3>1 DEF Untouched
    <3> QED BY <2>1, <3>1, <3>2 DEF Copied
  <2> QED BY <2>1, <2>2 DEF CopyInv
<1>2. CASE UNCHANGED vars
  <2>0. UNCHANGED <<pack, past, job, landed, canon, register, bundle, stamp>>
    BY <1>2 DEF vars, files
  <2>1. ASSUME NEW c \in Own PROVE Copied(c)'
    <3>1. job'[c] = job[c] /\ Bundle(c)' = Bundle(c) /\ UNCHANGED <<pack, past>>
      BY <2>0 DEF Bundle
    <3> QED BY <3>1, CopiedKept DEF CopyInv
  <2> QED BY <2>0, <2>1 DEF CopyInv
<1>3. ASSUME NEW o \in Call, Start(o) \/ Proceed(o) \/ Raise(o) \/ Die(o) PROVE CopyInv'
  <2>1. UNCHANGED <<pack, past>>
    BY <1>3 DEF Start, Proceed, Before, WipeIn, WipeOut, Look, Choose, Land, Landed, Collect,
                Label, Load, Export, Judge, Answer, Raise, Die
  <2>2. ASSUME NEW c \in Own PROVE Copied(c)'
    <3>1. CASE o = c
      BY <1>3, <3>1, CopyStep DEF CopyInv
    <3>2. CASE o # c
      BY <1>3, <2>1, <3>2, OthersKeep, CopiedKept DEF CopyInv
    <3> QED BY <3>1, <3>2
  <2> QED BY <2>1, <2>2 DEF CopyInv
<1> QED BY <1>1, <1>2, <1>3 DEF Next

LEMMA JudgedSnapshot ==
  ASSUME TypeInv, CopyInv, [Next]_vars, NEW c \in Own,
         stamp'[c] # stamp[c], stamp'[c].status = "pass", stamp'[c].client, ~stamp'[c].written
  PROVE  Snapshot(c)
<1>a. c \in Call /\ c \in Dirs /\ Dir(c) = c /\ DOMAIN stamp = Dirs
  BY OwnDir DEF TypeInv
<1>1. PICK o \in Call : Start(o) \/ Proceed(o) \/ Raise(o) \/ Die(o)
  BY DEF Next, Edit, vars
<1>2. o = c
  BY <1>1, OthersKeep DEF Bundle
<1>3. Judge(c)
  <2>1. ~Choose(c)
    BY <1>a DEF Choose, Failed, NoStamp
  <2> QED BY <1>1, <1>2, <2>1 DEF Start, Proceed, Raise, Die, Before, WipeIn, WipeOut, Look,
             Land, Landed, Collect, Label, Load, Export, Answer
<1>4. PICK misshapen \in BOOLEAN :
        stamp'[c] = [status |-> IF Passes(c, misshapen) THEN "pass" ELSE "fail",
                     client |-> job[c].client /\ ~job[c].sample,
                     written |-> job[c].seen # pack, by |-> Tag(c)]
  BY <1>3, <1>a DEF Judge
<1>5. Passes(c, misshapen) /\ job[c].client /\ ~job[c].sample /\ job[c].seen = pack
  BY <1>4
<1>6. /\ job[c].pc = "judge" /\ Untouched(c) /\ Copied(c)
  BY <1>3, <1>5 DEF Judge, At, Untouched, CopyInv
<1>7. register[c].recs = PackFiles /\ job[c].rows = PackRows /\ ~Marked(PackRows, "sample")
  BY <1>5, <1>6 DEF Copied
<1>8. ~Marked(PackRows, "lab")
  BY <1>5, <1>7 DEF Passes
<1>9. ASSUME NEW x \in PackFiles PROVE Mark[x] = "client"
  <2>1. PICK n \in Name : x = pack[n] /\ pack[n] # Absent
    BY DEF PackFiles
  <2> DEFINE r == [name |-> n, fam |-> Fam[n], content |-> pack[n]]
  <2>2. r \in PackRows /\ r.content = x
    BY <2>1 DEF PackRows
  <2>3. Mark[x] # "sample" /\ Mark[x] # "lab"
    BY <1>7, <1>8, <2>2 DEF Marked
  <2>4. x \in Content
    BY <2>1 DEF TypeInv, Pack
  <2> QED BY <2>3, <2>4, KeepAssumption
<1> QED BY <1>a, <1>7, <1>9 DEF Snapshot, PackFiles

(* keep/lab.py: a pass that is a client's and says the pack was not written *)
(* has in its register the files of the pack as it is, all of them and no  *)
(* sample's or lab's, as long as no edit restores an earlier pack: the two *)
(* fingerprints cannot tell that from no edit (see KeepWithdrawn).         *)
THEOREM PassIsSnapshot == ~Undo => (Spec => ClientIsSnapshot)
<1> SUFFICES ASSUME ~Undo PROVE Spec => ClientIsSnapshot
  OBVIOUS
<1>1. Init => TypeInv /\ CopyInv
  BY TypeInit, KeepAssumption DEF Init, CopyInv, Copied, NewJob
<1>2. TypeInv /\ [Next]_vars => TypeInv'
  BY TypeStep
<1>3. TypeInv /\ CopyInv /\ [Next]_vars => CopyInv'
  BY CopyInvStep
<1>4. TypeInv /\ CopyInv /\ [Next]_vars =>
        [\A c \in Own :
           LET told == stamp'[Dir(c)] IN
           told # stamp[Dir(c)] /\ told.status = "pass" /\ told.client /\ ~told.written
             => Snapshot(c)]_vars
  BY JudgedSnapshot, OwnDir
<1> QED BY <1>1, <1>2, <1>3, <1>4, PTL DEF Spec, ClientIsSnapshot
=============================================================================
