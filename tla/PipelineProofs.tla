--------------------------- MODULE PipelineProofs ---------------------------
(***************************************************************************)
(* For any number of runs, sites, packages and edits: the types of the     *)
(* pipeline; what exit code 0 says; that a baseline hides nothing new, by  *)
(* counting the findings of an identity; and that it hides what it accepts. *)
(***************************************************************************)
EXTENDS Pipeline, FiniteSetTheorems, TLAPS

(* A run that did not come to the baseline yet has kept nothing, so that    *)
(* what is kept stays within what was found when the findings are filtered. *)
NothingKeptEarly == \A p \in Proc : pc[p] \in {"start", "loaded"} => kept[p] = {}

(* Each way through a run belongs to its command line.                      *)
OnItsWay ==
  \A p \in Proc :
    /\ pc[p] = "writing" => opts[p].mode = "write"
    /\ pc[p] = "fixed" => opts[p].mode = "fix"

(* Whoever suppressed something had a baseline to apply.                    *)
AllKeptWithout == \A p \in Proc : pc[p] \in {"ready", "fixed"} => Applies(p) \/ kept[p] = found[p]

Reports(p) == opts[p].mode \in {"report", "fix"} /\ ~opts[p].exitZero

(* Exit code 0 of a reporting run: nothing was left to report, and it was   *)
(* the baseline, if anything, that left nothing.                            *)
ZeroMeansQuiet ==
  \A p \in Proc :
    pc[p] = "done" /\ exit[p] = 0 /\ Reports(p) => kept[p] = {} /\ (Applies(p) \/ found[p] = {})

IInv == TypeOK /\ NothingKeptEarly /\ OnItsWay /\ AllKeptWithout /\ ZeroMeansQuiet

-----------------------------------------------------------------------------
LEMMA SurvivorsFound ==
  ASSUME NEW found0, NEW version, NEW entries, NEW mods
  PROVE  Survivors(found0, version, entries, mods) \subseteq found0
BY DEF Survivors

LEMMA InitHolds == Init => IInv
<1> SUFFICES ASSUME Init PROVE IInv
  OBVIOUS
<1>1. baseline.version \in 0..2 /\ baseline.whole \in BOOLEAN /\ accepts \subseteq Site
  <2>1. NoFileYet.version = 0 /\ NoFileYet.whole = TRUE
    BY DEF NoFileYet
  <2>2. LegacyFile.version = 1 /\ LegacyFile.whole = TRUE
    BY DEF LegacyFile
  <2>3. \/ baseline = NoFileYet /\ accepts = {}
        \/ baseline = LegacyFile /\ accepts = Legacy
    BY DEF Init
  <2>4. baseline.version \in {0, 1}
    BY <2>1, <2>2, <2>3
  <2>5. baseline.version \in 0..2
    BY <2>4
  <2>6. baseline.whole \in BOOLEAN
    BY <2>1, <2>2, <2>3, Zenon
  <2>7. accepts \subseteq Site
    BY <2>3, PipelineAssumption
  <2>8. QED
    BY <2>5, <2>6, <2>7
<1>2. TypeOK
  BY <1>1, PipelineAssumption DEF Init, TypeOK
<1>3. QED
  BY <1>2 DEF IInv, Init, NothingKeptEarly, OnItsWay, AllKeptWithout, ZeroMeansQuiet

(* What Goto and Exit do to the place and the exit code of every run.       *)
LEMMA Going ==
  ASSUME TypeOK, NEW p \in Proc, NEW from, NEW to, Goto(p, from, to)
  PROVE  pc[p] = from /\ pc'[p] = to /\ \A q \in Proc \ {p} : pc'[q] = pc[q]
BY DEF TypeOK, Goto

LEMMA Exiting ==
  ASSUME TypeOK, NEW p \in Proc, NEW from, NEW code, Exit(p, from, code)
  PROVE  /\ pc[p] = from /\ pc'[p] = "done" /\ exit'[p] = code
         /\ \A q \in Proc \ {p} : pc'[q] = pc[q] /\ exit'[q] = exit[q]
BY DEF TypeOK, Goto, Exit

(* Two arguments serve most actions. A run that ends with nothing but its   *)
(* exit code changed keeps the invariant if code 0 is what it should be.    *)
LEMMA EndsWell ==
  ASSUME IInv, NEW p \in Proc, NEW from, NEW code \in 0..2, Exit(p, from, code),
         UNCHANGED <<source, accepts, opts, modules, found, kept, trusted>>,
         baseline'.version \in 0..2, baseline'.whole \in BOOLEAN,
         code = 0 /\ Reports(p) => kept[p] = {} /\ (Applies(p) \/ found[p] = {})
  PROVE  IInv'
<1>1. /\ pc[p] = from /\ pc'[p] = "done" /\ exit'[p] = code
      /\ \A q \in Proc \ {p} : pc'[q] = pc[q] /\ exit'[q] = exit[q]
  BY Exiting DEF IInv
<1>2. TypeOK'
  <2>1. pc' \in [Proc -> {"start", "loaded", "filtered", "writing", "ready", "fixed", "done"}]
    BY DEF IInv, TypeOK, Goto, Exit
  <2>2. exit' \in [Proc -> 0..2]
    BY DEF IInv, TypeOK, Exit
  <2>3. QED
    BY <2>1, <2>2 DEF IInv, TypeOK, source
<1>3. NothingKeptEarly' /\ OnItsWay'
  BY <1>1 DEF IInv, NothingKeptEarly, OnItsWay
<1>4. AllKeptWithout'
  BY <1>1 DEF IInv, AllKeptWithout, Applies
<1>5. ZeroMeansQuiet'
  BY <1>1 DEF IInv, ZeroMeansQuiet, Applies, Reports
<1>6. QED
  BY <1>2, <1>3, <1>4, <1>5 DEF IInv

(* And a run that moves on with its findings decides about itself only.     *)
LEMMA MovesWell ==
  ASSUME IInv, NEW p \in Proc, NEW from, NEW to \in {"loaded", "filtered", "ready", "fixed", "writing"},
         Goto(p, from, to), UNCHANGED <<opts, exit>>,
         TypeOK', \A q \in Proc \ {p} : found'[q] = found[q] /\ kept'[q] = kept[q],
         to = "loaded" => kept'[p] = {},
         to = "writing" => opts[p].mode = "write",
         to = "fixed" => opts[p].mode = "fix",
         to \in {"ready", "fixed"} => Applies(p) \/ kept'[p] = found'[p]
  PROVE  IInv'
<1>1. pc[p] = from /\ pc'[p] = to /\ \A q \in Proc \ {p} : pc'[q] = pc[q]
  BY Going DEF IInv
<1>2. NothingKeptEarly'
  BY <1>1 DEF IInv, NothingKeptEarly
<1>3. OnItsWay'
  BY <1>1 DEF IInv, OnItsWay
<1>4. AllKeptWithout'
  BY <1>1 DEF IInv, AllKeptWithout, Applies
<1>5. ZeroMeansQuiet'
  BY <1>1 DEF IInv, ZeroMeansQuiet, Applies, Reports
<1>6. QED
  BY <1>2, <1>3, <1>4, <1>5 DEF IInv

-----------------------------------------------------------------------------
Quiet == UNCHANGED <<pc, opts, found, kept, exit>>

LEMMA StaysWell == ASSUME IInv, TypeOK', Quiet PROVE IInv'
BY DEF IInv, Quiet, NothingKeptEarly, OnItsWay, AllKeptWithout, ZeroMeansQuiet, Applies, Reports

LEMMA EditKeeps == ASSUME IInv, EditSource PROVE IInv'
<1>1. present' \subseteq Site /\ ignored' \subseteq Site
  BY DEF IInv, TypeOK, EditSource
<1>2. edits' \in 0..MaxEdits
  BY PipelineAssumption DEF IInv, TypeOK, EditSource
<1>3. TypeOK'
  BY <1>1, <1>2 DEF IInv, TypeOK, EditSource, file
<1>4. Quiet
  BY DEF EditSource, Quiet
<1>5. QED
  BY <1>3, <1>4, StaysWell

LEMMA LoadKeeps == ASSUME IInv, NEW p \in Proc, Load(p) PROVE IInv'
<1>1. pc[p] = "start" /\ pc'[p] = "loaded"
  BY Going DEF IInv, Load
<1>2. kept[p] = {} /\ kept' = kept
  BY <1>1 DEF IInv, NothingKeptEarly, Load
<1>3. found' \in [Proc -> SUBSET Site] /\ \A q \in Proc \ {p} : found'[q] = found[q]
  BY DEF IInv, TypeOK, Load
<1>4. pc' \in [Proc -> {"start", "loaded", "filtered", "writing", "ready", "fixed", "done"}]
  BY DEF IInv, TypeOK, Load, Goto
<1>5. \A q \in Proc : kept'[q] \subseteq found'[q]
  BY <1>2, <1>3 DEF IInv, TypeOK
<1>6. modules' \in [Proc -> SUBSET {ModuleOf[g] : g \in Package}]
  <2>1. opts[p].scope \subseteq Package
    BY PipelineAssumption DEF IInv, TypeOK
  <2>2. {ModuleOf[g] : g \in opts[p].scope} \ {NoModule} \in SUBSET {ModuleOf[g] : g \in Package}
    BY <2>1
  <2>3. QED
    BY <2>2 DEF IInv, TypeOK, Load
<1>7. TypeOK'
  BY <1>3, <1>4, <1>5, <1>6 DEF IInv, TypeOK, Load, source, file
<1>8. QED
  BY <1>2, <1>3, <1>7, MovesWell DEF Load

LEMMA FilterKeeps == ASSUME IInv, NEW p \in Proc, Filter(p) PROVE IInv'
<1>1. pc[p] = "loaded" /\ pc'[p] = "filtered"
  BY Going DEF IInv, Filter
<1>2. kept[p] = {} /\ kept' = kept
  BY <1>1 DEF IInv, NothingKeptEarly, Filter
<1>3. found' \in [Proc -> SUBSET Site] /\ \A q \in Proc \ {p} : found'[q] = found[q]
  <2>1. PICK S \in SUBSET Wanted(p) : found' = [found EXCEPT ![p] = S]
    BY DEF Filter
  <2>2. S \in SUBSET Site
    BY <2>1 DEF Wanted, IInv, TypeOK
  <2>3. QED
    BY <2>1, <2>2 DEF IInv, TypeOK
<1>4. pc' \in [Proc -> {"start", "loaded", "filtered", "writing", "ready", "fixed", "done"}]
  BY DEF IInv, TypeOK, Filter, Goto
<1>5. \A q \in Proc : kept'[q] \subseteq found'[q]
  BY <1>2, <1>3 DEF IInv, TypeOK
<1>6. TypeOK'
  BY <1>3, <1>4, <1>5 DEF IInv, TypeOK, Filter, source, file
<1>7. QED
  BY <1>2, <1>3, <1>6, MovesWell DEF Filter

(* Writing the baseline.                                                    *)
LEMMA StartWriteKeeps == ASSUME IInv, NEW p \in Proc, StartWrite(p) PROVE IInv'
<1>1. pc' \in [Proc -> {"start", "loaded", "filtered", "writing", "ready", "fixed", "done"}]
  BY DEF IInv, TypeOK, StartWrite, Goto
<1>2. baseline'.version \in 0..2 /\ baseline'.whole \in BOOLEAN /\ accepts' \subseteq Site
  BY DEF IInv, TypeOK, StartWrite
<1>3. TypeOK'
  BY <1>1, <1>2 DEF IInv, TypeOK, StartWrite, source
<1>4. QED
  BY <1>3, MovesWell DEF StartWrite

LEMMA WritePartKeeps == ASSUME IInv, NEW p \in Proc, WritePart(p) PROVE IInv'
<1>1. baseline'.version \in 0..2 /\ baseline'.whole \in BOOLEAN
  BY DEF WritePart
<1>2. TypeOK'
  BY <1>1 DEF IInv, TypeOK, WritePart, source
<1>3. QED
  BY <1>2, StaysWell DEF Quiet, WritePart

LEMMA WriteCompletesKeeps == ASSUME IInv, NEW p \in Proc, WriteCompletes(p) PROVE IInv'
<1>1. pc[p] = "writing"
  BY Exiting DEF IInv, WriteCompletes
<1>2. ~Reports(p)
  BY <1>1 DEF IInv, OnItsWay, Reports
<1>3. baseline'.version \in 0..2 /\ baseline'.whole \in BOOLEAN
  BY DEF WriteCompletes
<1>4. QED
  BY <1>2, <1>3, EndsWell DEF WriteCompletes

(* The errors: exit code 2 whatever was found.                              *)
LEMMA FailureKeeps ==
  ASSUME IInv, NEW p \in Proc, LoadFails(p) \/ WriteRefused(p) \/ WriteDies(p) \/ ApplyFails(p)
  PROVE  IInv'
<1>1. PICK from \in {"start", "filtered", "writing"} : Exit(p, from, 2)
  BY DEF LoadFails, WriteRefused, WriteDies, ApplyFails
<1>2. UNCHANGED <<source, file, opts, modules, found, kept, trusted>>
  BY DEF LoadFails, WriteRefused, WriteDies, ApplyFails
<1>3. baseline'.version \in 0..2 /\ baseline'.whole \in BOOLEAN
  BY <1>2 DEF IInv, TypeOK, file
<1>4. QED
  BY <1>1, <1>2, <1>3, EndsWell DEF file

-----------------------------------------------------------------------------
(* The findings of a run once the baseline was applied or passed over.      *)
LEMMA KeepsWell ==
  ASSUME IInv, NEW p \in Proc, Goto(p, "filtered", "ready"),
         NEW S, S \subseteq found[p], kept' = [kept EXCEPT ![p] = S],
         Applies(p) \/ S = found[p],
         UNCHANGED <<source, file, opts, modules, found, exit>>,
         trusted' \in [Proc -> [sites : SUBSET Site, whole : BOOLEAN]]
  PROVE  IInv'
<1>1. /\ kept' \in [Proc -> SUBSET Site]
      /\ kept'[p] = S /\ \A q \in Proc \ {p} : kept'[q] = kept[q]
  BY DEF IInv, TypeOK
<1>2. pc' \in [Proc -> {"start", "loaded", "filtered", "writing", "ready", "fixed", "done"}]
  BY DEF IInv, TypeOK, Goto
<1>3. \A q \in Proc : kept'[q] \subseteq found'[q]
  BY <1>1 DEF IInv, TypeOK
<1>4. TypeOK'
  BY <1>2, <1>3 DEF IInv, TypeOK, source, file
<1>5. QED
  BY <1>1, <1>4, MovesWell

LEMMA ApplyKeeps == ASSUME IInv, NEW p \in Proc, ApplyBaseline(p) PROVE IInv'
<1> DEFINE S == Survivors(found[p], baseline.version, baseline.entries, modules[p])
<1>1. S \subseteq found[p]
  BY SurvivorsFound
<1>2. trusted' \in [Proc -> [sites : SUBSET Site, whole : BOOLEAN]]
  BY DEF IInv, TypeOK, ApplyBaseline
<1>3. /\ Goto(p, "filtered", "ready") /\ kept' = [kept EXCEPT ![p] = S] /\ Applies(p)
      /\ UNCHANGED <<source, file, opts, modules, found, exit>>
  BY DEF ApplyBaseline
<1> HIDE DEF S
<1>4. QED
  BY <1>1, <1>2, <1>3, KeepsWell

LEMMA SkipKeeps == ASSUME IInv, NEW p \in Proc, SkipBaseline(p) PROVE IInv'
<1>1. trusted' \in [Proc -> [sites : SUBSET Site, whole : BOOLEAN]]
  BY DEF IInv, TypeOK, SkipBaseline
<1>2. QED
  BY <1>1, KeepsWell DEF SkipBaseline

(* What a run does with the findings that are left.                         *)
LEMMA DiffKeeps == ASSUME IInv, NEW p \in Proc, ShowDiff(p) PROVE IInv'
<1>1. ~Reports(p)
  BY DEF ShowDiff, Reports
<1>2. PICK code \in {0, 1} : Exit(p, "ready", code)
  BY DEF ShowDiff
<1>3. UNCHANGED <<source, file, opts, modules, found, kept, trusted>>
  BY DEF ShowDiff
<1>4. baseline'.version \in 0..2 /\ baseline'.whole \in BOOLEAN
  BY <1>3 DEF IInv, TypeOK, file
<1>5. QED
  BY <1>1, <1>2, <1>3, <1>4, EndsWell DEF file

LEMMA FixKeeps == ASSUME IInv, NEW p \in Proc, Fix(p) PROVE IInv'
<1>1. pc[p] = "ready"
  BY Going DEF IInv, Fix
<1>2. Applies(p) \/ kept[p] = found[p]
  BY <1>1 DEF IInv, AllKeptWithout
<1>3. pc' \in [Proc -> {"start", "loaded", "filtered", "writing", "ready", "fixed", "done"}]
  BY DEF IInv, TypeOK, Fix, Goto
<1>4. present' \subseteq Site
  BY DEF IInv, TypeOK, Fix
<1>5. TypeOK'
  BY <1>3, <1>4 DEF IInv, TypeOK, Fix, file
<1>6. QED
  BY <1>2, <1>5, MovesWell DEF Fix

LEMMA ReportKeeps == ASSUME IInv, NEW p \in Proc, Report(p) PROVE IInv'
<1> DEFINE code == IF kept[p] # {} /\ ~opts[p].exitZero THEN 1 ELSE 0
<1>1. code \in 0..2
  OBVIOUS
<1>2. Exit(p, pc[p], code) /\ UNCHANGED <<source, file, opts, modules, found, kept, trusted>>
  BY DEF Report
<1>3. Applies(p) \/ kept[p] = found[p]
  BY DEF IInv, AllKeptWithout, Report
<1>4. code = 0 /\ Reports(p) => kept[p] = {} /\ (Applies(p) \/ found[p] = {})
  BY <1>3 DEF Reports
<1>5. baseline'.version \in 0..2 /\ baseline'.whole \in BOOLEAN
  BY <1>2 DEF IInv, TypeOK, file
<1> HIDE DEF code
<1>6. QED
  BY <1>1, <1>2, <1>4, <1>5, EndsWell DEF file

LEMMA NextKeeps == IInv /\ [Next]_vars => IInv'
<1> SUFFICES ASSUME IInv, [Next]_vars PROVE IInv'
  OBVIOUS
<1>1. CASE EditSource
  BY <1>1, EditKeeps
<1>2. ASSUME NEW p \in Proc, Run(p) PROVE IInv'
  <2>1. CASE Load(p)
    BY <2>1, LoadKeeps
  <2>2. CASE Filter(p)
    BY <2>2, FilterKeeps
  <2>3. CASE LoadFails(p) \/ WriteRefused(p) \/ WriteDies(p) \/ ApplyFails(p)
    BY <2>3, FailureKeeps
  <2>4. CASE StartWrite(p)
    BY <2>4, StartWriteKeeps
  <2>5. CASE WritePart(p)
    BY <2>5, WritePartKeeps
  <2>6. CASE WriteCompletes(p)
    BY <2>6, WriteCompletesKeeps
  <2>7. CASE ApplyBaseline(p)
    BY <2>7, ApplyKeeps
  <2>8. CASE SkipBaseline(p)
    BY <2>8, SkipKeeps
  <2>9. CASE ShowDiff(p)
    BY <2>9, DiffKeeps
  <2>10. CASE Fix(p)
    BY <2>10, FixKeeps
  <2>11. CASE Report(p)
    BY <2>11, ReportKeeps
  <2>12. QED
    BY <1>2, <2>1, <2>2, <2>3, <2>4, <2>5, <2>6, <2>7, <2>8, <2>9, <2>10, <2>11 DEF Run
<1>3. CASE UNCHANGED vars
  <2>1. TypeOK'
    BY <1>3 DEF IInv, TypeOK, vars
  <2>2. Quiet
    BY <1>3 DEF Quiet, vars
  <2>3. QED
    BY <2>1, <2>2, StaysWell
<1>4. QED
  BY <1>1, <1>2, <1>3 DEF Next, Return

-----------------------------------------------------------------------------
(* However many runs share the tree and the baseline, a run keeps a part of *)
(* what it found and every variable its type (Run, runner.go).              *)
THEOREM TypeCorrect == Spec => []TypeOK
<1>1. IInv => TypeOK
  BY DEF IInv
<1>2. QED
  BY InitHolds, NextKeeps, <1>1, PTL DEF Spec

(* Exit code 0 of a run that reports or fixes (runner.go, Run) says that    *)
(* nothing was left to report, on whatever path the run came there, and,    *)
(* when it had no baseline to apply, that nothing was found.                *)
THEOREM ZeroIsQuiet == Spec => []ZeroMeansQuiet
<1>1. IInv => ZeroMeansQuiet
  BY DEF IInv
<1>2. QED
  BY InitHolds, NextKeeps, <1>1, PTL DEF Spec

-----------------------------------------------------------------------------
(* Of the baseline's operators: what an identity tells, and how much a      *)
(* budget lets pass.                                                        *)
Loaded(scope) == {ModuleOf[g] : g \in scope} \ {NoModule}

(* Two directories around one file, as deep as each other, are the same.    *)
LEMMA OneDirAtADepth ==
  ASSUME NEW f \in Seq(STRING), NEW d \in Seq(STRING), NEW e \in Seq(STRING),
         IsPrefix(d, f), IsPrefix(e, f), Len(d) = Len(e)
  PROVE  d = e
<1>1. \A i \in 1..Len(d) : d[i] = f[i]
  BY DEF IsPrefix
<1>2. \A i \in 1..Len(e) : e[i] = f[i]
  BY DEF IsPrefix
<1>3. QED
  BY <1>1, <1>2

(* A name relative to a directory belongs to one file.                      *)
LEMMA RelPathNames ==
  ASSUME NEW f \in Seq(STRING), NEW g \in Seq(STRING), NEW d \in Seq(STRING),
         RelPath(f, d) = RelPath(g, d)
  PROVE  f = g
<1>1. CASE ~IsPrefix(d, f)
  BY <1>1 DEF RelPath
<1>2. CASE IsPrefix(d, f)
  <2>1. RelPath(f, d).under /\ RelPath(f, d).name = SubSeq(f, Len(d) + 1, Len(f))
    BY <1>2 DEF RelPath
  <2>2. IsPrefix(d, g) /\ RelPath(g, d).name = SubSeq(g, Len(d) + 1, Len(g))
    BY <2>1 DEF RelPath
  <2>3. SubSeq(f, Len(d) + 1, Len(f)) = SubSeq(g, Len(d) + 1, Len(g))
    BY <2>1, <2>2
  <2>4. Len(d) <= Len(f) /\ Len(d) <= Len(g)
    BY <1>2, <2>2 DEF IsPrefix
  <2>5. Len(f) = Len(g)
    <3>1. Len(SubSeq(f, Len(d) + 1, Len(f))) = Len(f) - Len(d)
      BY <2>4
    <3>2. Len(SubSeq(g, Len(d) + 1, Len(g))) = Len(g) - Len(d)
      BY <2>4
    <3>3. QED
      BY <2>3, <3>1, <3>2
  <2>6. ASSUME NEW i \in 1..Len(f) PROVE f[i] = g[i]
    <3>1. CASE i <= Len(d)
      BY <1>2, <2>2, <3>1 DEF IsPrefix
    <3>2. CASE i > Len(d)
      <4>1. i - Len(d) \in 1..(Len(f) - Len(d))
        BY <2>4, <3>2
      <4>2. SubSeq(f, Len(d) + 1, Len(f))[i - Len(d)] = f[i]
        BY <2>4, <4>1
      <4>3. SubSeq(g, Len(d) + 1, Len(g))[i - Len(d)] = g[i]
        BY <2>4, <2>5, <4>1
      <4>4. QED
        BY <2>3, <4>2, <4>3
    <3>3. QED
      BY <3>1, <3>2
  <2>7. QED
    BY <2>5, <2>6
<1>3. QED
  BY <1>1, <1>2

(* The one module at a directory is among the modules.                      *)
LEMMA ModulePathNames ==
  ASSUME NEW dir, NEW M, ModulePath(dir, M) # NoName
  PROVE  \E m \in M : m.dir = dir /\ m.path = ModulePath(dir, M)
BY DEF ModulePath

(* An identity belongs to findings of one file, check and message, whatever *)
(* modules the runs know that compute it.                                   *)
LEMMA KeyNames ==
  ASSUME NEW s \in Site, NEW t \in Site, NEW version,
         NEW M \in SUBSET Loaded(Package), NEW N \in SUBSET Loaded(Package),
         FindingKey(s, version, M) = FindingKey(t, version, N)
  PROVE  s.file = t.file /\ s.id = t.id /\ s.msg = t.msg
<1> DEFINE near == NearestDir(Enclosing(s.file, M))
           other == NearestDir(Enclosing(t.file, N))
           owned == version >= 2 /\ Enclosing(s.file, M) # {} /\ ModulePath(near, M) # NoName
           owns == version >= 2 /\ Enclosing(t.file, N) # {} /\ ModulePath(other, N) # NoName
           ms == IF owned THEN ModulePath(near, M) ELSE NoName
           mt == IF owns THEN ModulePath(other, N) ELSE NoName
           fs == RelPath(s.file, IF owned THEN near ELSE Anchor)
           ft == RelPath(t.file, IF owns THEN other ELSE Anchor)
<1>1. FindingKey(s, version, M) = [module |-> ms, file |-> fs, id |-> s.id, msg |-> s.msg]
  BY DEF FindingKey
<1>2. FindingKey(t, version, N) = [module |-> mt, file |-> ft, id |-> t.id, msg |-> t.msg]
  BY DEF FindingKey
<1>3. s.id = t.id /\ s.msg = t.msg /\ ms = mt /\ fs = ft
  <2> HIDE DEF near, other, owned, owns, ms, mt, fs, ft
  <2> DEFINE r == FindingKey(s, version, M)
  <2>1. r.module = ms /\ r.file = fs /\ r.id = s.id /\ r.msg = s.msg
    BY <1>1
  <2>2. r = [module |-> mt, file |-> ft, id |-> t.id, msg |-> t.msg]
    BY <1>2
  <2> HIDE DEF r
  <2>3. r.module = mt /\ r.file = ft /\ r.id = t.id /\ r.msg = t.msg
    BY <2>2
  <2>4. QED
    BY <2>1, <2>3
<1> HIDE DEF near, other
<1>5. s.file \in Seq(STRING) /\ t.file \in Seq(STRING) /\ Anchor \in Seq(STRING)
  BY SitesAreFindings, ModulesHaveDirs
<1>6. CASE owned
  <2>1. owns /\ ModulePath(near, M) = ModulePath(other, N)
    BY <1>3, <1>6
  <2>2. PICK m \in M : m.dir = near /\ m.path = ModulePath(near, M)
    BY <1>6, ModulePathNames
  <2>3. PICK n \in N : n.dir = other /\ n.path = ModulePath(other, N)
    BY <2>1, ModulePathNames
  <2>4. PICK g \in Package, h \in Package : /\ m = ModuleOf[g] /\ ModuleOf[g] # NoModule
                                           /\ n = ModuleOf[h] /\ ModuleOf[h] # NoModule
    BY <2>2, <2>3 DEF Loaded
  <2>5. ModuleOf[h].path = ModuleOf[g].path
    BY <2>1, <2>2, <2>3, <2>4
  <2>6. near = other /\ near \in Seq(STRING)
    BY <2>2, <2>3, <2>4, <2>5, ModulesHaveDirs
  <2>7. QED
    BY <1>3, <1>5, <1>6, <2>1, <2>6, RelPathNames
<1>7. CASE ~owned
  <2>1. ~owns
    BY <1>3, <1>7
  <2>2. QED
    BY <1>3, <1>5, <1>7, <2>1, RelPathNames
<1>8. QED
  BY <1>6, <1>7

(* And what a finding's identity depends on is its file, check and message. *)
LEMMA KeyOfLike ==
  ASSUME NEW s, NEW t, NEW version, NEW M, s.file = t.file, s.id = t.id, s.msg = t.msg
  PROVE  FindingKey(s, version, M) = FindingKey(t, version, M)
BY DEF FindingKey

(* No more findings of an identity are suppressed than its budget: the      *)
(* place of each among those of its identity is a different number, and     *)
(* within the budget.                                                       *)
LEMMA SuppressedInBudget ==
  ASSUME NEW F \in SUBSET Site, Deduped(F), NEW version, NEW entries,
         NEW M \in SUBSET Loaded(Package), NEW k, Budget(k, entries) \in Nat
  PROVE  Cardinality({f \in F \ Survivors(F, version, entries, M) : FindingKey(f, version, M) = k})
           <= Budget(k, entries)
<1> DEFINE B == Budget(k, entries)
           Upto(f) == {g \in F : FindingKey(g, version, M) = k /\ NotAfter(g, f)}
           S == {f \in F \ Survivors(F, version, entries, M) : FindingKey(f, version, M) = k}
           rank == [f \in S |-> Cardinality(Upto(f))]
<1>1. IsFiniteSet(F)
  BY FS_Subset, SitesAreFindings
<1>2. ASSUME NEW f \in S PROVE /\ IsFiniteSet(Upto(f)) /\ f \in Upto(f)
                               /\ Cardinality(Upto(f)) \in 1..B
  <2>1. IsFiniteSet(Upto(f))
    BY <1>1, FS_Subset
  <2>2. f \in Upto(f)
    BY SitesAreFindings DEF NotAfter
  <2>3. Cardinality(Upto(f)) \in Nat /\ Cardinality(Upto(f)) # 0
    BY <2>1, <2>2, FS_CardinalityType, FS_EmptySet
  <2>4. ~(Cardinality(Upto(f)) > B)
    BY DEF Survivors
  <2>5. QED
    BY <2>1, <2>2, <2>3, <2>4
<1>3. ASSUME NEW f \in S, NEW g \in S, f.at < g.at PROVE Cardinality(Upto(f)) # Cardinality(Upto(g))
  <2>1. f.file = g.file
    BY KeyNames
  <2>2. Upto(f) \subseteq Upto(g)
    BY <1>3, <2>1, SitesAreFindings DEF NotAfter
  <2>3. g \in Upto(g) /\ g \notin Upto(f)
    BY <1>2, <1>3, SitesAreFindings DEF NotAfter
  <2>4. IsFiniteSet(Upto(g))
    BY <1>2
  <2> HIDE DEF Upto, S
  <2>5. QED
    BY <2>2, <2>3, <2>4, FS_Subset
<1>4. ASSUME NEW f \in S, NEW g \in S, f # g PROVE f.at # g.at
  <2>1. f.file = g.file /\ f.id = g.id
    BY KeyNames
  <2>2. QED
    BY <1>4, <2>1 DEF Deduped, SamePlace
<1>5. rank \in [S -> 1..B]
  BY <1>2
<1>6. ASSUME NEW f \in S, NEW g \in S, rank[f] = rank[g] PROVE f = g
  <2>1. Cardinality(Upto(f)) = Cardinality(Upto(g))
    BY <1>6
  <2>2. f.at \in Nat /\ g.at \in Nat
    BY SitesAreFindings
  <2> HIDE DEF Upto, S
  <2>3. QED
    BY <1>3, <1>4, <2>1, <2>2
<1>7. rank \in Injection(S, 1..B)
  BY <1>5, <1>6 DEF Injection, IsInjective
<1>8. IsFiniteSet(1..B) /\ Cardinality(1..B) = B
  BY FS_Interval
<1> HIDE DEF S, rank, B
<1>9. Cardinality(S) <= Cardinality(1..B)
  BY <1>7, <1>8, FS_Injection
<1>10. QED
  BY <1>8, <1>9 DEF S, B

(* Where modules own their sites, the identity of a finding is the same in   *)
(* every scan of a package that reports it.                                 *)
LEMMA KeyOfOwned ==
  ASSUME SitesOwned(ModuleOf), NEW s \in Site, NEW scope \in SUBSET Package,
         NEW g \in s.pkgs \cap scope
  PROVE  FindingKey(s, 2, Loaded(scope)) =
           IF ModuleOf[g] = NoModule
           THEN [module |-> NoName, file |-> RelPath(s.file, Anchor), id |-> s.id, msg |-> s.msg]
           ELSE [module |-> ModuleOf[g].path, file |-> RelPath(s.file, ModuleOf[g].dir),
                 id |-> s.id, msg |-> s.msg]
<1> DEFINE dirs == Enclosing(s.file, Loaded(scope))
           around == {h \in Package : ModuleOf[h] # NoModule /\ IsPrefix(ModuleOf[h].dir, s.file)}
<1>1. /\ ModuleOf[g] = NoModule => around = {}
      /\ ModuleOf[g] # NoModule =>
           /\ g \in around
           /\ \A h \in around : /\ Len(ModuleOf[h].dir) <= Len(ModuleOf[g].dir)
                                /\ ModuleOf[h].dir = ModuleOf[g].dir => ModuleOf[h].path = ModuleOf[g].path
  BY DEF SitesOwned
<1>2. \A d \in dirs : \E h \in around : h \in scope /\ d = ModuleOf[h].dir
  BY DEF Enclosing, Loaded
<1>3. CASE ModuleOf[g] = NoModule
  <2>1. dirs = {}
    BY <1>1, <1>2, <1>3
  <2>2. QED
    BY <1>3, <2>1 DEF FindingKey
<1>4. CASE ModuleOf[g] # NoModule
  <2> DEFINE d == ModuleOf[g].dir
             near == NearestDir(dirs)
             paths == {m.path : m \in {n \in Loaded(scope) : n.dir = d}}
  <2>1. g \in around /\ ModuleOf[g] \in Loaded(scope)
    BY <1>1, <1>4 DEF Loaded
  <2>2. d \in dirs /\ \A e \in dirs : Len(e) <= Len(d)
    BY <1>1, <1>2, <1>4, <2>1 DEF Enclosing
  <2>3. near \in dirs /\ \A e \in dirs : Len(e) <= Len(near)
    BY <2>2 DEF NearestDir
  <2>4. \A e \in dirs : e \in Seq(STRING) /\ IsPrefix(e, s.file)
    BY <1>2, ModulesHaveDirs
  <2> HIDE DEF dirs, near
  <2>5. Len(near) = Len(d)
    BY <2>2, <2>3, <2>4
  <2>6. near = d
    BY <2>2, <2>3, <2>4, <2>5, OneDirAtADepth, SitesAreFindings
  <2>7. ModuleOf[g].path \in paths
    BY <2>1
  <2>8. ASSUME NEW q \in paths PROVE q = ModuleOf[g].path
    <3>1. PICK h \in scope : ModuleOf[h] # NoModule /\ ModuleOf[h].dir = d /\ q = ModuleOf[h].path
      BY DEF Loaded
    <3>2. h \in around
      BY <2>1, <3>1
    <3>3. QED
      BY <1>1, <1>4, <3>1, <3>2
  <2>9. paths = {ModuleOf[g].path}
    BY <2>7, <2>8
  <2>10. ModulePath(d, Loaded(scope)) = ModuleOf[g].path
    BY <2>9 DEF ModulePath
  <2>11. ModuleOf[g].path # NoName
    BY <1>4, ModulesHaveDirs
  <2>12. FindingKey(s, 2, Loaded(scope)) =
           [module |-> IF dirs # {} /\ ModulePath(near, Loaded(scope)) # NoName
                       THEN ModulePath(near, Loaded(scope)) ELSE NoName,
            file |-> RelPath(s.file, IF dirs # {} /\ ModulePath(near, Loaded(scope)) # NoName
                                     THEN near ELSE Anchor),
            id |-> s.id, msg |-> s.msg]
    BY DEF FindingKey, dirs, near
  <2>13. QED
    BY <1>4, <2>2, <2>6, <2>10, <2>11, <2>12
<1>5. QED
  BY <1>3, <1>4

LEMMA KeyStable ==
  ASSUME SitesOwned(ModuleOf), NEW s \in Site,
         NEW scope \in SUBSET Package, s.pkgs \cap scope # {},
         NEW other \in SUBSET Package, s.pkgs \cap other # {}
  PROVE  FindingKey(s, 2, Loaded(scope)) = FindingKey(s, 2, Loaded(other))
<1> DEFINE around == {h \in Package : ModuleOf[h] # NoModule /\ IsPrefix(ModuleOf[h].dir, s.file)}
<1>1. PICK g \in s.pkgs \cap scope, h \in s.pkgs \cap other : TRUE
  OBVIOUS
<1>2. \A x \in {g, h} :
        /\ ModuleOf[x] = NoModule => around = {}
        /\ ModuleOf[x] # NoModule =>
             /\ x \in around
             /\ \A y \in around : /\ Len(ModuleOf[y].dir) <= Len(ModuleOf[x].dir)
                                  /\ ModuleOf[y].dir = ModuleOf[x].dir => ModuleOf[y].path = ModuleOf[x].path
  BY DEF SitesOwned
<1>3. CASE ModuleOf[g] = NoModule
  <2>1. ModuleOf[h] = NoModule
    BY <1>2, <1>3
  <2>2. QED
    BY <1>3, <2>1, KeyOfOwned
<1>4. CASE ModuleOf[g] # NoModule
  <2>1. ModuleOf[h] # NoModule /\ g \in around /\ h \in around
    BY <1>2, <1>4
  <2>2. ModuleOf[g].dir \in Seq(STRING) /\ ModuleOf[h].dir \in Seq(STRING)
    BY <2>1, ModulesHaveDirs
  <2>3. Len(ModuleOf[g].dir) <= Len(ModuleOf[h].dir) /\ Len(ModuleOf[h].dir) <= Len(ModuleOf[g].dir)
    BY <1>2, <1>4, <2>1
  <2>4. Len(ModuleOf[g].dir) = Len(ModuleOf[h].dir)
    BY <2>2, <2>3
  <2>5. ModuleOf[g].dir = ModuleOf[h].dir
    BY <2>1, <2>2, <2>4, OneDirAtADepth, SitesAreFindings
  <2>6. ModuleOf[g].path = ModuleOf[h].path
    BY <1>2, <1>4, <2>1, <2>5
  <2>7. QED
    BY <1>4, <2>1, <2>5, <2>6, KeyOfOwned
<1>5. QED
  BY <1>3, <1>4

-----------------------------------------------------------------------------
(* What the baseline file holds, whoever wrote it and however far.          *)

(* A run knows the modules of its scope, and what it found is from there.   *)
Gathered ==
  \A p \in Proc :
    /\ pc[p] \in {"loaded", "filtered", "writing"} =>
         /\ modules[p] = Loaded(opts[p].scope)
         /\ \A s \in found[p] : s.pkgs \cap opts[p].scope # {}
    /\ pc[p] \in {"filtered", "writing"} => Deduped(found[p])

(* Only the run that is writing decides what the file will accept.          *)
WritesOwn == \A p \in Proc : pc[p] = "writing" => accepts = found[p]

(* No entry accepts more than the last writer found, torn or not.           *)
HonestFile ==
  \E M \in SUBSET Loaded(Package) : \A k \in DOMAIN baseline.entries :
    baseline.entries[k] \in 0..Cardinality({f \in accepts : FindingKey(f, baseline.version, M) = k})

(* And a file that was written to its end accepts all of it.                *)
WholeFile ==
  baseline.whole /\ baseline.version # 0 =>
    \E scope \in SUBSET Package :
      /\ baseline.entries = AcceptedEntries(accepts, baseline.version, Loaded(scope))
      /\ baseline.version = 2 => \A s \in accepts : s.pkgs \cap scope # {}

FileInv == Gathered /\ WritesOwn /\ HonestFile /\ WholeFile

LEMMA CountsAreCounts ==
  ASSUME NEW F \in SUBSET Site
  PROVE  \A P \in SUBSET F : Cardinality(P) \in Nat /\ Cardinality(P) <= Cardinality(F)
BY FS_Subset, FS_CardinalityType, SitesAreFindings

LEMMA EntriesCount ==
  ASSUME NEW F, NEW version, NEW M
  PROVE  \A k \in DOMAIN AcceptedEntries(F, version, M) :
           AcceptedEntries(F, version, M)[k] = Cardinality({f \in F : FindingKey(f, version, M) = k})
BY DEF AcceptedEntries

(* A file that has the entries of its findings, or fewer of them, is honest. *)
LEMMA EntriesHonest ==
  ASSUME NEW F \in SUBSET Site, NEW version, NEW M, NEW entries,
         DOMAIN entries \subseteq DOMAIN AcceptedEntries(F, version, M),
         \A k \in DOMAIN entries : entries[k] \in 0..AcceptedEntries(F, version, M)[k]
  PROVE  \A k \in DOMAIN entries :
           entries[k] \in 0..Cardinality({f \in F : FindingKey(f, version, M) = k})
BY EntriesCount

LEMMA EntriesWhole ==
  ASSUME NEW F \in SUBSET Site, NEW version, NEW M
  PROVE  \A k \in DOMAIN AcceptedEntries(F, version, M) :
           AcceptedEntries(F, version, M)[k] \in 0..AcceptedEntries(F, version, M)[k]
<1> SUFFICES ASSUME NEW k \in DOMAIN AcceptedEntries(F, version, M)
             PROVE  AcceptedEntries(F, version, M)[k] \in 0..AcceptedEntries(F, version, M)[k]
  OBVIOUS
<1>1. {f \in F : FindingKey(f, version, M) = k} \in SUBSET F
  OBVIOUS
<1>2. Cardinality({f \in F : FindingKey(f, version, M) = k}) \in Nat
  BY <1>1, CountsAreCounts, Zenon
<1>3. QED
  BY <1>2, EntriesCount

LEMMA InitFile == Init => FileInv
<1> SUFFICES ASSUME Init PROVE FileInv
  OBVIOUS
<1>1. Gathered /\ WritesOwn
  BY DEF Init, Gathered, WritesOwn
<1>2. Loaded({}) = {} /\ Loaded({}) \in SUBSET Loaded(Package)
  BY DEF Loaded
<1>3. CASE baseline = NoFileYet /\ accepts = {}
  <2>1. DOMAIN baseline.entries = {} /\ baseline.version = 0
    BY <1>3 DEF NoFileYet
  <2>2. HonestFile /\ WholeFile
    BY <1>2, <2>1 DEF HonestFile, WholeFile
  <2>3. QED
    BY <1>1, <2>2 DEF FileInv
<1>4. CASE baseline = LegacyFile /\ accepts = Legacy
  <2>1. baseline.version = 1 /\ baseline.entries = AcceptedEntries(Legacy, 1, {})
    BY <1>4 DEF LegacyFile
  <2>2. \A k \in DOMAIN baseline.entries :
          baseline.entries[k] \in 0..Cardinality({f \in accepts : FindingKey(f, 1, {}) = k})
    BY <1>4, <2>1, EntriesHonest, EntriesWhole, PipelineAssumption
  <2>3. HonestFile
    BY <1>2, <2>1, <2>2 DEF HonestFile
  <2>4. WholeFile
    BY <1>2, <1>4, <2>1 DEF WholeFile
  <2>5. QED
    BY <1>1, <2>3, <2>4 DEF FileInv
<1>5. QED
  BY <1>3, <1>4 DEF Init

(* Most steps leave the file alone, and a run either stays where it is or   *)
(* leaves the part of its way that leads to the file.                       *)
LEMMA FileStays ==
  ASSUME FileInv, UNCHANGED <<file, opts>>,
         \A q \in Proc : pc'[q] \in {"loaded", "filtered", "writing"} =>
           pc'[q] = pc[q] /\ found'[q] = found[q] /\ modules'[q] = modules[q]
  PROVE  FileInv'
<1>1. Gathered' /\ WritesOwn'
  BY DEF FileInv, Gathered, WritesOwn, file
<1>2. HonestFile' /\ WholeFile'
  BY DEF FileInv, HonestFile, WholeFile, file
<1>3. QED
  BY <1>1, <1>2 DEF FileInv

LEMMA LoadFile == ASSUME IInv, FileInv, NEW p \in Proc, Load(p) PROVE FileInv'
<1>1. pc[p] = "start" /\ pc'[p] = "loaded" /\ \A q \in Proc \ {p} : pc'[q] = pc[q]
  BY Going DEF IInv, Load
<1>2. /\ found'[p] = {s \in present : s.pkgs \cap opts[p].scope # {}}
      /\ modules'[p] = Loaded(opts[p].scope)
      /\ \A q \in Proc \ {p} : found'[q] = found[q] /\ modules'[q] = modules[q]
  BY DEF IInv, TypeOK, Load, Loaded
<1>3. opts' = opts /\ accepts' = accepts
  BY DEF Load, file
<1>4. Gathered'
  BY <1>1, <1>2, <1>3 DEF FileInv, Gathered
<1>5. WritesOwn'
  BY <1>1, <1>2, <1>3 DEF FileInv, WritesOwn
<1>6. HonestFile' /\ WholeFile'
  BY DEF FileInv, HonestFile, WholeFile, Load, file
<1>7. QED
  BY <1>4, <1>5, <1>6 DEF FileInv

LEMMA FilterFile == ASSUME IInv, FileInv, NEW p \in Proc, Filter(p) PROVE FileInv'
<1>1. pc[p] = "loaded" /\ pc'[p] = "filtered" /\ \A q \in Proc \ {p} : pc'[q] = pc[q]
  BY Going DEF IInv, Filter
<1>2. PICK S \in SUBSET Wanted(p) : Deduped(S) /\ found' = [found EXCEPT ![p] = S]
  BY DEF Filter
<1>3. found'[p] = S /\ \A q \in Proc \ {p} : found'[q] = found[q]
  BY <1>2 DEF IInv, TypeOK
<1>4. S \subseteq found[p]
  BY <1>2 DEF Wanted
<1>5. opts' = opts /\ accepts' = accepts /\ modules' = modules
  BY DEF Filter, file
<1>6. ASSUME NEW q \in Proc, pc'[q] \in {"loaded", "filtered", "writing"}
      PROVE  /\ modules'[q] = Loaded(opts'[q].scope)
             /\ \A s \in found'[q] : s.pkgs \cap opts'[q].scope # {}
             /\ pc'[q] \in {"filtered", "writing"} => Deduped(found'[q])
  <2>1. CASE q = p
    BY <1>1, <1>2, <1>3, <1>4, <1>5, <2>1 DEF FileInv, Gathered
  <2>2. CASE q # p
    BY <1>1, <1>3, <1>5, <1>6, <2>2 DEF FileInv, Gathered
  <2>3. QED
    BY <2>1, <2>2
<1>7. Gathered'
  BY <1>6 DEF Gathered, Deduped, SamePlace
<1>8. WritesOwn'
  BY <1>1, <1>3, <1>5 DEF FileInv, WritesOwn
<1>9. HonestFile' /\ WholeFile'
  BY DEF FileInv, HonestFile, WholeFile, Filter, file
<1>10. QED
  BY <1>7, <1>8, <1>9 DEF FileInv

(* What the writing steps leave as it was.                                  *)
LEMMA WriterGathered ==
  ASSUME IInv, FileInv, NEW p \in Proc, pc[p] \in {"filtered", "writing"},
         pc'[p] \in {"writing", "done"}, \A q \in Proc \ {p} : pc'[q] = pc[q],
         UNCHANGED <<opts, modules, found>>
  PROVE  Gathered'
BY DEF FileInv, Gathered, Deduped, SamePlace

LEMMA StartWriteFile == ASSUME IInv, FileInv, NEW p \in Proc, StartWrite(p) PROVE FileInv'
<1>1. pc[p] = "filtered" /\ pc'[p] = "writing" /\ \A q \in Proc \ {p} : pc'[q] = pc[q]
  BY Going DEF IInv, StartWrite
<1>2. Gathered'
  BY <1>1, WriterGathered DEF StartWrite
<1>3. WritesOwn'
  BY <1>1 DEF StartWrite, WritesOwn
<1>4. ~baseline'.whole /\ DOMAIN baseline'.entries = {}
  BY DEF StartWrite
<1>5. HonestFile' /\ WholeFile'
  BY <1>4 DEF HonestFile, WholeFile
<1>6. QED
  BY <1>2, <1>3, <1>5 DEF FileInv

(* The writer's own scope is what its entries are of.                       *)
LEMMA WriterEntries ==
  ASSUME IInv, FileInv, NEW p \in Proc, pc[p] = "writing"
  PROVE  \E scope \in SUBSET Package :
           /\ Whole(p) = AcceptedEntries(accepts, 2, Loaded(scope))
           /\ Loaded(scope) \in SUBSET Loaded(Package)
           /\ \A s \in accepts : s.pkgs \cap scope # {}
<1>1. opts[p].scope \in SUBSET Package
  BY PipelineAssumption DEF IInv, TypeOK
<1>2. modules[p] = Loaded(opts[p].scope) /\ accepts = found[p]
  BY DEF FileInv, Gathered, WritesOwn
<1>3. \A s \in accepts : s.pkgs \cap opts[p].scope # {}
  BY <1>2 DEF FileInv, Gathered
<1>4. Loaded(opts[p].scope) \in SUBSET Loaded(Package)
  BY <1>1 DEF Loaded
<1>5. Whole(p) = AcceptedEntries(accepts, 2, Loaded(opts[p].scope))
  BY <1>2 DEF Whole
<1>6. QED
  BY <1>1, <1>3, <1>4, <1>5

LEMMA WritePartFile == ASSUME IInv, FileInv, NEW p \in Proc, WritePart(p) PROVE FileInv'
<1>1. pc[p] = "writing" /\ accepts' = accepts
  BY DEF WritePart
<1>2. PICK scope \in SUBSET Package : /\ Whole(p) = AcceptedEntries(accepts, 2, Loaded(scope))
                                     /\ Loaded(scope) \in SUBSET Loaded(Package)
  BY <1>1, WriterEntries
<1>3. PICK K \in SUBSET DOMAIN Whole(p) : \E last \in K : \E c \in 0..Whole(p)[last] :
        baseline' = [version |-> 2, whole |-> FALSE,
                     entries |-> [k \in K |-> IF k = last THEN c ELSE Whole(p)[k]]]
  BY DEF WritePart
<1>4. PICK last \in K : \E c \in 0..Whole(p)[last] :
        baseline' = [version |-> 2, whole |-> FALSE,
                     entries |-> [k \in K |-> IF k = last THEN c ELSE Whole(p)[k]]]
  BY <1>3
<1>5. PICK c \in 0..Whole(p)[last] :
        baseline' = [version |-> 2, whole |-> FALSE,
                     entries |-> [k \in K |-> IF k = last THEN c ELSE Whole(p)[k]]]
  BY <1>4
<1>6. accepts \in SUBSET Site
  BY DEF IInv, TypeOK
<1>7. \A k \in DOMAIN Whole(p) : Whole(p)[k] \in 0..Whole(p)[k]
  BY <1>2, <1>6, EntriesWhole
<1> DEFINE torn == [k \in K |-> IF k = last THEN c ELSE Whole(p)[k]]
<1>8. DOMAIN torn \subseteq DOMAIN Whole(p) /\ \A k \in DOMAIN torn : torn[k] \in 0..Whole(p)[k]
  BY <1>5, <1>7
<1>9. baseline'.version = 2 /\ baseline'.entries = torn /\ ~baseline'.whole
  BY <1>5
<1> HIDE DEF torn
<1>10. \A k \in DOMAIN torn : torn[k] \in 0..Cardinality({f \in accepts : FindingKey(f, 2, Loaded(scope)) = k})
  BY <1>2, <1>6, <1>8, EntriesHonest
<1>11. HonestFile'
  BY <1>1, <1>2, <1>9, <1>10 DEF HonestFile
<1>12. WholeFile'
  BY <1>9 DEF WholeFile
<1>13. Gathered' /\ WritesOwn'
  BY DEF FileInv, Gathered, WritesOwn, WritePart
<1>14. QED
  BY <1>11, <1>12, <1>13 DEF FileInv

LEMMA WriteCompletesFile == ASSUME IInv, FileInv, NEW p \in Proc, WriteCompletes(p) PROVE FileInv'
<1>1. pc[p] = "writing" /\ pc'[p] = "done" /\ \A q \in Proc \ {p} : pc'[q] = pc[q]
  BY Exiting DEF IInv, WriteCompletes
<1>2. PICK scope \in SUBSET Package : /\ Whole(p) = AcceptedEntries(accepts, 2, Loaded(scope))
                                     /\ Loaded(scope) \in SUBSET Loaded(Package)
                                     /\ \A s \in accepts : s.pkgs \cap scope # {}
  BY <1>1, WriterEntries
<1>3. accepts \in SUBSET Site /\ accepts' = accepts
  BY DEF IInv, TypeOK, WriteCompletes
<1>4. baseline'.version = 2 /\ baseline'.entries = AcceptedEntries(accepts, 2, Loaded(scope))
  BY <1>2 DEF WriteCompletes
<1>5. \A k \in DOMAIN baseline'.entries :
        baseline'.entries[k] \in 0..Cardinality({f \in accepts : FindingKey(f, 2, Loaded(scope)) = k})
  BY <1>3, <1>4, EntriesHonest, EntriesWhole
<1>6. HonestFile'
  BY <1>2, <1>3, <1>4, <1>5 DEF HonestFile
<1>7. WholeFile'
  BY <1>2, <1>3, <1>4 DEF WholeFile
<1>8. Gathered'
  BY <1>1, WriterGathered DEF WriteCompletes
<1>9. WritesOwn'
  BY <1>1, <1>3 DEF FileInv, WritesOwn, WriteCompletes
<1>10. QED
  BY <1>6, <1>7, <1>8, <1>9 DEF FileInv

LEMMA NextFile == IInv /\ FileInv /\ [Next]_vars => FileInv'
<1> SUFFICES ASSUME IInv, FileInv, [Next]_vars PROVE FileInv'
  OBVIOUS
<1>1. CASE EditSource
  BY <1>1, FileStays DEF EditSource
<1>2. ASSUME NEW p \in Proc, Run(p) PROVE FileInv'
  <2>1. CASE Load(p)
    BY <2>1, LoadFile
  <2>2. CASE Filter(p)
    BY <2>2, FilterFile
  <2>3. CASE LoadFails(p) \/ WriteRefused(p) \/ WriteDies(p) \/ ApplyFails(p)
    <3>1. PICK from \in {"start", "filtered", "writing"} : Exit(p, from, 2)
      BY <2>3 DEF LoadFails, WriteRefused, WriteDies, ApplyFails
    <3>2. UNCHANGED <<file, opts, modules, found>>
      BY <2>3 DEF LoadFails, WriteRefused, WriteDies, ApplyFails
    <3>3. pc'[p] = "done" /\ \A q \in Proc \ {p} : pc'[q] = pc[q]
      BY <3>1, Exiting DEF IInv
    <3>4. QED
      BY <3>2, <3>3, FileStays
  <2>4. CASE StartWrite(p)
    BY <2>4, StartWriteFile
  <2>5. CASE WritePart(p)
    BY <2>5, WritePartFile
  <2>6. CASE WriteCompletes(p)
    BY <2>6, WriteCompletesFile
  <2>7. CASE ApplyBaseline(p) \/ SkipBaseline(p)
    <3>1. Goto(p, "filtered", "ready") /\ UNCHANGED <<file, opts, modules, found>>
      BY <2>7 DEF ApplyBaseline, SkipBaseline
    <3>2. pc'[p] = "ready" /\ \A q \in Proc \ {p} : pc'[q] = pc[q]
      BY <3>1, Going DEF IInv
    <3>3. QED
      BY <3>1, <3>2, FileStays
  <2>8. CASE Fix(p)
    <3>1. pc'[p] = "fixed" /\ \A q \in Proc \ {p} : pc'[q] = pc[q]
      BY <2>8, Going DEF IInv, Fix
    <3>2. QED
      BY <2>8, <3>1, FileStays DEF Fix
  <2>9. CASE ShowDiff(p) \/ Report(p)
    <3>1. PICK from, code : Exit(p, from, code)
      BY <2>9 DEF ShowDiff, Report
    <3>2. UNCHANGED <<file, opts, modules, found>>
      BY <2>9 DEF ShowDiff, Report
    <3>3. pc'[p] = "done" /\ \A q \in Proc \ {p} : pc'[q] = pc[q]
      BY <3>1, Exiting DEF IInv
    <3>4. QED
      BY <3>2, <3>3, FileStays
  <2>10. QED
    BY <1>2, <2>1, <2>2, <2>3, <2>4, <2>5, <2>6, <2>7, <2>8, <2>9 DEF Run
<1>3. CASE UNCHANGED vars
  BY <1>3, FileStays DEF vars, file
<1>4. QED
  BY <1>1, <1>2, <1>3 DEF Next, Return

-----------------------------------------------------------------------------
(* What a run makes of the file it reads.                                   *)

(* No step but ApplyBaseline brings a run to where the baseline is applied, *)
(* and none changes what such a run has found, kept and trusted.            *)
AppliedStays ==
  /\ opts' = opts
  /\ \A q \in Proc : Applied(q)' =>
       Applied(q) /\ found'[q] = found[q] /\ kept'[q] = kept[q] /\ trusted'[q] = trusted[q]

LEMMA EndsApplied ==
  ASSUME IInv, NEW p \in Proc, NEW from, NEW code, Exit(p, from, code),
         code # 2 /\ Applies(p) => from \in {"ready", "fixed"},
         UNCHANGED <<opts, found, kept, trusted>>
  PROVE  AppliedStays
<1>1. /\ pc[p] = from /\ pc'[p] = "done" /\ exit'[p] = code
      /\ \A q \in Proc \ {p} : pc'[q] = pc[q] /\ exit'[q] = exit[q]
  BY Exiting DEF IInv
<1>2. QED
  BY <1>1 DEF AppliedStays, Applied, Applies

LEMMA OthersLeaveApplied ==
  ASSUME IInv, [Next]_vars, \A p \in Proc : ~ApplyBaseline(p)
  PROVE  AppliedStays
<1>1. CASE EditSource \/ UNCHANGED vars
  BY <1>1 DEF AppliedStays, Applied, Applies, EditSource, vars
<1>2. ASSUME NEW p \in Proc, Run(p) PROVE AppliedStays
  <2>1. CASE Load(p)
    <3>1. pc'[p] = "loaded" /\ \A q \in Proc \ {p} : pc'[q] = pc[q] /\ found'[q] = found[q]
      BY <2>1, Going DEF IInv, TypeOK, Load
    <3>2. QED
      BY <2>1, <3>1 DEF AppliedStays, Applied, Applies, Load
  <2>2. CASE Filter(p)
    <3>1. pc'[p] = "filtered" /\ \A q \in Proc \ {p} : pc'[q] = pc[q] /\ found'[q] = found[q]
      BY <2>2, Going DEF IInv, TypeOK, Filter
    <3>2. QED
      BY <2>2, <3>1 DEF AppliedStays, Applied, Applies, Filter
  <2>3. CASE LoadFails(p) \/ WriteRefused(p) \/ WriteDies(p) \/ ApplyFails(p)
    <3>1. PICK from : Exit(p, from, 2)
      BY <2>3 DEF LoadFails, WriteRefused, WriteDies, ApplyFails
    <3>2. UNCHANGED <<opts, found, kept, trusted>>
      BY <2>3 DEF LoadFails, WriteRefused, WriteDies, ApplyFails
    <3>3. QED
      BY <3>1, <3>2, EndsApplied
  <2>4. CASE StartWrite(p)
    <3>1. pc'[p] = "writing" /\ \A q \in Proc \ {p} : pc'[q] = pc[q]
      BY <2>4, Going DEF IInv, StartWrite
    <3>2. QED
      BY <2>4, <3>1 DEF AppliedStays, Applied, Applies, StartWrite
  <2>5. CASE WritePart(p)
    BY <2>5 DEF AppliedStays, Applied, Applies, WritePart
  <2>6. CASE WriteCompletes(p)
    <3>1. Exit(p, "writing", 0) /\ UNCHANGED <<opts, found, kept, trusted>>
      BY <2>6 DEF WriteCompletes
    <3>2. ~Applies(p)
      BY <3>1, Exiting DEF IInv, OnItsWay, Applies
    <3>3. QED
      BY <3>1, <3>2, EndsApplied
  <2>7. CASE SkipBaseline(p)
    <3>1. \A q \in Proc \ {p} : pc'[q] = pc[q] /\ kept'[q] = kept[q]
      BY <2>7, Going DEF IInv, TypeOK, SkipBaseline
    <3>2. ~Applies(p)
      BY <2>7 DEF Applies, SkipBaseline
    <3>3. QED
      BY <2>7, <3>1, <3>2 DEF AppliedStays, Applied, Applies, SkipBaseline
  <2>8. CASE Fix(p)
    <3>1. pc[p] = "ready" /\ pc'[p] = "fixed" /\ \A q \in Proc \ {p} : pc'[q] = pc[q]
      BY <2>8, Going DEF IInv, Fix
    <3>2. QED
      BY <2>8, <3>1 DEF AppliedStays, Applied, Applies, Fix
  <2>9. CASE ShowDiff(p)
    <3>1. PICK code : Exit(p, "ready", code)
      BY <2>9 DEF ShowDiff
    <3>2. QED
      BY <2>9, <3>1, EndsApplied DEF ShowDiff
  <2>10. CASE Report(p)
    <3>1. PICK code : Exit(p, pc[p], code)
      BY <2>10 DEF Report
    <3>2. pc[p] \in {"ready", "fixed"}
      BY <2>10 DEF Report
    <3>3. QED
      BY <2>10, <3>1, <3>2, EndsApplied DEF Report
  <2>11. QED
    BY <1>2, <2>1, <2>2, <2>3, <2>4, <2>5, <2>6, <2>7, <2>8, <2>9, <2>10 DEF Run
<1>3. QED
  BY <1>1, <1>2 DEF Next, Return

(* The step that applies the baseline.                                      *)
LEMMA Applying ==
  ASSUME IInv, FileInv, NEW p \in Proc, ApplyBaseline(p)
  PROVE  /\ opts' = opts /\ found' = found
         /\ kept'[p] = Survivors(found[p], baseline.version, baseline.entries, modules[p])
         /\ trusted'[p] = [sites |-> accepts, whole |-> baseline.whole]
         /\ \A q \in Proc \ {p} : Applied(q)' => /\ Applied(q) /\ kept'[q] = kept[q]
                                                /\ trusted'[q] = trusted[q]
         /\ found[p] \in SUBSET Site /\ Deduped(found[p]) /\ accepts \in SUBSET Site
         /\ modules[p] = Loaded(opts[p].scope) /\ opts[p].scope \in SUBSET Package
         /\ \A s \in found[p] : s.pkgs \cap opts[p].scope # {}
<1>1. pc[p] = "filtered" /\ pc'[p] = "ready" /\ \A q \in Proc \ {p} : pc'[q] = pc[q]
  BY Going DEF IInv, ApplyBaseline
<1>2. /\ kept'[p] = Survivors(found[p], baseline.version, baseline.entries, modules[p])
      /\ trusted'[p] = [sites |-> accepts, whole |-> baseline.whole]
      /\ \A q \in Proc \ {p} : kept'[q] = kept[q] /\ trusted'[q] = trusted[q]
  BY DEF IInv, TypeOK, ApplyBaseline
<1>3. opts' = opts /\ found' = found /\ exit' = exit
  BY DEF ApplyBaseline
<1>4. \A q \in Proc \ {p} : Applied(q)' => Applied(q)
  BY <1>1, <1>3 DEF Applied, Applies
<1>5. /\ modules[p] = Loaded(opts[p].scope) /\ Deduped(found[p])
      /\ \A s \in found[p] : s.pkgs \cap opts[p].scope # {}
  BY <1>1 DEF FileInv, Gathered
<1>6. opts[p].scope \in SUBSET Package
  BY PipelineAssumption DEF IInv, TypeOK
<1>7. found[p] \in SUBSET Site /\ accepts \in SUBSET Site
  BY DEF IInv, TypeOK
<1>8. QED
  BY <1>2, <1>3, <1>4, <1>5, <1>6, <1>7

LEMMA NextHidesNothing ==
  IInv /\ FileInv /\ OnlyAcceptedSuppressed /\ [Next]_vars => OnlyAcceptedSuppressed'
<1> SUFFICES ASSUME IInv, FileInv, OnlyAcceptedSuppressed, [Next]_vars PROVE OnlyAcceptedSuppressed'
  OBVIOUS
<1>1. CASE \A p \in Proc : ~ApplyBaseline(p)
  BY <1>1, OthersLeaveApplied DEF AppliedStays, OnlyAcceptedSuppressed, Like
<1>2. ASSUME NEW p \in Proc, ApplyBaseline(p) PROVE OnlyAcceptedSuppressed'
  <2> DEFINE v == baseline.version
             F == found[p]
             left == Survivors(F, v, baseline.entries, modules[p])
  <2>1. /\ found' = found /\ kept'[p] = left /\ trusted'[p].sites = accepts
        /\ \A q \in Proc \ {p} : Applied(q)' => /\ Applied(q) /\ kept'[q] = kept[q]
                                               /\ trusted'[q] = trusted[q]
        /\ F \in SUBSET Site /\ Deduped(F) /\ accepts \in SUBSET Site
        /\ modules[p] = Loaded(opts[p].scope) /\ opts[p].scope \in SUBSET Package
    BY <1>2, Applying
  <2>2. modules[p] \in SUBSET Loaded(Package)
    BY <2>1 DEF Loaded
  <2>3. PICK M \in SUBSET Loaded(Package) : \A k \in DOMAIN baseline.entries :
          baseline.entries[k] \in 0..Cardinality({f \in accepts : FindingKey(f, v, M) = k})
    BY DEF FileInv, HonestFile
  <2>4. ASSUME NEW s \in F
        PROVE  Cardinality(Like(s, F \ left)) <= Cardinality(Like(s, accepts))
    <3> DEFINE k == FindingKey(s, v, modules[p])
               hidden == {f \in F \ left : FindingKey(f, v, modules[p]) = k}
               accepted == {f \in accepts : FindingKey(f, v, M) = k}
    <3>1. Like(s, F \ left) \in SUBSET hidden
      BY KeyOfLike DEF Like
    <3>2. accepted \in SUBSET Like(s, accepts)
      BY <2>1, <2>2, KeyNames DEF Like
    <3>3. hidden \in SUBSET Site /\ Like(s, accepts) \in SUBSET Site /\ accepted \in SUBSET Site
      BY <2>1 DEF Like
    <3>4. Budget(k, baseline.entries) \in Nat /\ Budget(k, baseline.entries) <= Cardinality(accepted)
      <4>1. Cardinality(accepted) \in Nat
        BY <3>3, CountsAreCounts, Zenon
      <4>2. CASE k \in DOMAIN baseline.entries
        <5>1. baseline.entries[k] \in 0..Cardinality(accepted)
          BY <2>3, <4>2, Zenon
        <5>2. QED
          BY <4>1, <4>2, <5>1 DEF Budget
      <4>3. CASE k \notin DOMAIN baseline.entries
        BY <4>1, <4>3 DEF Budget
      <4>4. QED
        BY <4>2, <4>3
    <3>5. Cardinality(hidden) <= Budget(k, baseline.entries)
      BY <2>1, <2>2, <3>4, SuppressedInBudget
    <3> HIDE DEF hidden, accepted, k, left, F
    <3>6. Cardinality(Like(s, F \ left)) <= Cardinality(hidden) /\ Cardinality(Like(s, F \ left)) \in Nat
      BY <3>1, <3>3, CountsAreCounts, Zenon
    <3>7. Cardinality(accepted) <= Cardinality(Like(s, accepts)) /\ Cardinality(accepted) \in Nat
      BY <3>2, <3>3, CountsAreCounts, Zenon
    <3>8. Cardinality(hidden) \in Nat /\ Cardinality(Like(s, accepts)) \in Nat
      BY <3>3, CountsAreCounts, Zenon
    <3>9. QED
      BY <3>4, <3>5, <3>6, <3>7, <3>8
  <2> HIDE DEF left
  <2>5. \A s \in found'[p] :
          Cardinality(Like(s, found'[p] \ kept'[p])) <= Cardinality(Like(s, trusted'[p].sites))
    BY <2>1, <2>4
  <2>6. ASSUME NEW q \in Proc \ {p}, Applied(q)', NEW s \in found'[q]
        PROVE  Cardinality(Like(s, found'[q] \ kept'[q])) <= Cardinality(Like(s, trusted'[q].sites))
    BY <2>1, <2>6 DEF OnlyAcceptedSuppressed
  <2>7. QED
    BY <2>5, <2>6 DEF OnlyAcceptedSuppressed, Like
<1>3. QED
  BY <1>1, <1>2

LEMMA NextStaysQuiet ==
  ASSUME SitesOwned(ModuleOf)
  PROVE  IInv /\ FileInv /\ QuietWhenAccepted /\ [Next]_vars => QuietWhenAccepted'
<1> SUFFICES ASSUME IInv, FileInv, QuietWhenAccepted, [Next]_vars PROVE QuietWhenAccepted'
  OBVIOUS
<1>1. CASE \A p \in Proc : ~ApplyBaseline(p)
  BY <1>1, OthersLeaveApplied DEF AppliedStays, QuietWhenAccepted
<1>2. ASSUME NEW p \in Proc, ApplyBaseline(p) PROVE QuietWhenAccepted'
  <2> DEFINE v == baseline.version
             F == found[p]
             mine == modules[p]
             left == Survivors(F, v, baseline.entries, mine)
  <2>1. /\ found' = found /\ kept'[p] = left
        /\ trusted'[p].sites = accepts /\ trusted'[p].whole = baseline.whole
        /\ \A q \in Proc \ {p} : Applied(q)' => /\ Applied(q) /\ kept'[q] = kept[q]
                                               /\ trusted'[q] = trusted[q]
        /\ F \in SUBSET Site /\ accepts \in SUBSET Site
        /\ mine = Loaded(opts[p].scope) /\ opts[p].scope \in SUBSET Package
        /\ \A s \in F : s.pkgs \cap opts[p].scope # {}
    BY <1>2, Applying
  <2>2. v \in {1, 2}
    BY <1>2 DEF IInv, TypeOK, ApplyBaseline
  <2>3. ASSUME baseline.whole, F \subseteq accepts PROVE left = {}
    <3>1. PICK scope \in SUBSET Package :
            /\ baseline.entries = AcceptedEntries(accepts, v, Loaded(scope))
            /\ v = 2 => \A s \in accepts : s.pkgs \cap scope # {}
      BY <2>2, <2>3 DEF FileInv, WholeFile
    <3>2. ASSUME NEW f \in F PROVE FindingKey(f, v, mine) = FindingKey(f, v, Loaded(scope))
      <4>1. CASE v = 1
        BY <4>1 DEF FindingKey
      <4>2. CASE v = 2
        BY <2>1, <2>3, <3>1, <4>2, KeyStable
      <4>3. QED
        BY <2>2, <4>1, <4>2
    <3>3. ASSUME NEW f \in F PROVE f \notin left
      <4> DEFINE k == FindingKey(f, v, mine)
                 upto == {g \in F : FindingKey(g, v, mine) = k /\ NotAfter(g, f)}
                 accepted == {g \in accepts : FindingKey(g, v, Loaded(scope)) = k}
      <4>1. upto \in SUBSET accepted
        BY <2>3, <3>2
      <4>2. accepted \in SUBSET Site
        BY <2>1
      <4>3. k \in DOMAIN baseline.entries
        BY <2>3, <3>1, <3>2 DEF AcceptedEntries
      <4>4. Budget(k, baseline.entries) = Cardinality(accepted)
        BY <3>1, <4>3, EntriesCount DEF Budget
      <4>5. Cardinality(upto) \in Nat /\ Cardinality(upto) <= Cardinality(accepted)
        <5> HIDE DEF upto, accepted
        <5>1. QED
          BY <4>1, <4>2, CountsAreCounts, Zenon
      <4>6. Cardinality(accepted) \in Nat
        <5> HIDE DEF accepted
        <5>1. QED
          BY <4>2, CountsAreCounts, Zenon
      <4>7. ~(Cardinality(upto) > Budget(k, baseline.entries))
        BY <4>4, <4>5, <4>6
      <4>8. QED
        BY <4>7 DEF Survivors
    <3>4. left \subseteq F
      BY SurvivorsFound
    <3> HIDE DEF left
    <3>5. QED
      BY <3>3, <3>4
  <2> HIDE DEF left, mine, v
  <2>4. QED
    BY <2>1, <2>3 DEF QuietWhenAccepted
<1>3. QED
  BY <1>1, <1>2

(* The ratchet hides nothing new (baseline.go, applyBaseline): whoever      *)
(* wrote the baseline, in what version, scope and modules, however much of  *)
(* it arrived and whatever happened to the sources, a run suppresses no     *)
(* more findings of one check and message in a file than were accepted.     *)
THEOREM RatchetHidesNothingNew == Spec => []OnlyAcceptedSuppressed
<1>1. Init => OnlyAcceptedSuppressed
  BY DEF Init, OnlyAcceptedSuppressed, Applied
<1>2. QED
  BY InitHolds, NextKeeps, InitFile, NextFile, <1>1, NextHidesNothing, PTL DEF Spec

(* Accepted findings stay quiet (baseline.go, baselineFindingEntry): where  *)
(* the modules are the innermost ones of their files, one to a directory, a *)
(* run that finds only what a baseline written to its end accepts reports   *)
(* nothing, in a scan of whatever packages. MCPipeline evaluates that its   *)
(* modules are such; with two modules in one directory it is not so.        *)
THEOREM AcceptedStaysQuiet ==
  ASSUME SitesOwned(ModuleOf)
  PROVE  Spec => []QuietWhenAccepted
<1>1. Init => QuietWhenAccepted
  BY DEF Init, QuietWhenAccepted, Applied
<1>2. IInv /\ FileInv /\ QuietWhenAccepted /\ [Next]_vars => QuietWhenAccepted'
  BY NextStaysQuiet
<1>3. QED
  BY InitHolds, NextKeeps, InitFile, NextFile, <1>1, <1>2, PTL DEF Spec

(* "exit 1 only on NEW findings" (README.md; Run, runner.go): exit code 0 of *)
(* a reporting run says that no file has more findings than were accepted.  *)
(* No other step of a run lets a finding pass.                              *)
THEOREM GateAlwaysHolds == Spec => []GateHolds
<1>1. IInv /\ OnlyAcceptedSuppressed => GateHolds
  <2> SUFFICES ASSUME IInv, OnlyAcceptedSuppressed,
                      NEW p \in Proc, pc[p] = "done", exit[p] = 0, Reports(p), NEW s \in found[p]
               PROVE  Cardinality(Like(s, found[p])) <= Cardinality(Like(s, trusted[p].sites))
    BY DEF GateHolds, Reports
  <2>1. kept[p] = {} /\ Applies(p)
    BY DEF IInv, ZeroMeansQuiet
  <2>2. Applied(p)
    BY <2>1 DEF Applied
  <2>3. found[p] \ kept[p] = found[p]
    BY <2>1
  <2>4. QED
    BY <2>2, <2>3 DEF OnlyAcceptedSuppressed
<1>2. Spec => []IInv
  BY InitHolds, NextKeeps, PTL DEF Spec
<1>3. QED
  BY <1>1, <1>2, RatchetHidesNothingNew, PTL
=============================================================================
