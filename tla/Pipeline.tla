------------------------------ MODULE Pipeline ------------------------------
(***************************************************************************)
(* Runs of perfscan over a changing source tree that share one baseline    *)
(* file (internal/runner/runner.go, Run; baseline.go): a run loads and     *)
(* analyzes its packages, filters and deduplicates the findings, accepts   *)
(* them all (-write-baseline) or suppresses the accepted ones (-baseline), *)
(* and then reports, shows a diff, or fixes. Between any two steps of a    *)
(* run the sources may be edited, and another run may go on; a run that    *)
(* writes the baseline may fail or be killed half way.                     *)
(***************************************************************************)
EXTENDS Baseline

CONSTANTS
  Proc,        (* the runs                                                  *)
  Site,        (* the places a check can report, with fields file, at, id,  *)
               (* msg, generated, fixable and pkgs, the packages whose      *)
               (* analysis reports it                                       *)
  Sources,     (* what the sources may hold at first: sets of sites          *)
  Package,     (* the packages                                              *)
  ModuleOf,    (* ModuleOf[pkg]: its module [dir, path], or NoModule        *)
  NoModule,
  Option,      (* the command lines: [mode, baseline, exitZero,             *)
               (* includeGenerated, exclude, scope]                         *)
  Legacy,      (* the accepted sites a version-1 baseline may start with    *)
  MaxEdits     (* bound on the edits of the sources                         *)

ASSUME PipelineAssumption ==
  /\ MaxEdits \in Nat /\ Legacy \subseteq Site /\ Sources \subseteq SUBSET Site
  /\ \A o \in Option : o.scope \subseteq Package

\* A site is told from the others by what is reported of it and where.
ASSUME SitesAreFindings ==
  /\ IsFiniteSet(Site)
  /\ \A s \in Site : s.file \in Seq(STRING) /\ s.at \in Nat
  /\ \A s, t \in Site : (\A a \in {"file", "at", "id", "msg"} : s[a] = t[a]) => s = t

\* What the go command says of modules: a module path names one directory.
ASSUME ModulesHaveDirs ==
  /\ Anchor \in Seq(STRING)
  /\ \A g \in Package : ModuleOf[g] # NoModule =>
       /\ ModuleOf[g].dir \in Seq(STRING) /\ ModuleOf[g].path # NoName
       /\ \A h \in Package : ModuleOf[h] # NoModule /\ ModuleOf[h].path = ModuleOf[g].path =>
            ModuleOf[h].dir = ModuleOf[g].dir

\* The module of a package is the innermost one around its files, and the only
\* one in its directory: what a scan of a subset of the packages relies on. Of a
\* place that a //line directive moves out of its module it is not so.
SitesOwned(module) ==
  \A s \in Site : \A g \in s.pkgs \cap Package :
    LET around == {h \in Package : module[h] # NoModule /\ IsPrefix(module[h].dir, s.file)}
    IN  /\ module[g] = NoModule => around = {}
        /\ module[g] # NoModule =>
             /\ g \in around
             /\ \A h \in around :
                  /\ Len(module[h].dir) <= Len(module[g].dir)
                  /\ module[h].dir = module[g].dir => module[h].path = module[g].path

VARIABLES
  present,     (* the sites that are in the sources now                     *)
  ignored,     (* the sites an ignore directive covers in the files now     *)
  edits,       (* how many edits were made                                  *)
  baseline,    (* the baseline file: [version, entries, whole]; version 0   *)
               (* stands for no file, or an empty one                       *)
  accepts,     (* history: the sites the file's last writer accepts         *)
  pc, opts, modules,   (* of each run: where it is, its command line, the   *)
               (* modules it loaded                                         *)
  found,       (* its filtered findings                                     *)
  kept,        (* those that the baseline left                              *)
  exit,        (* its exit code                                             *)
  trusted      (* history: what the baseline the run applied accepts         *)
vars == <<present, ignored, edits, baseline, accepts, pc, opts, modules, found, kept, exit, trusted>>
source == <<present, ignored, edits>>
file == <<baseline, accepts>>

-----------------------------------------------------------------------------
NoFileYet == [version |-> 0, entries |-> <<>>, whole |-> TRUE]
LegacyFile == [version |-> 1, entries |-> AcceptedEntries(Legacy, 1, {}), whole |-> TRUE]

Init ==
  /\ present \in Sources
  /\ ignored = {}
  /\ edits = 0
  /\ \/ baseline = NoFileYet /\ accepts = {}
     \/ baseline = LegacyFile /\ accepts = Legacy
  /\ pc = [p \in Proc |-> "start"]
  /\ opts \in [Proc -> Option]
  /\ modules = [p \in Proc |-> {}]
  /\ found = [p \in Proc |-> {}]
  /\ kept = [p \in Proc |-> {}]
  /\ exit = [p \in Proc |-> 0]
  /\ trusted = [p \in Proc |-> [sites |-> {}, whole |-> FALSE]]

\* The sources change: a reportable place or a directive comes or goes.
EditSource ==
  /\ edits < MaxEdits
  /\ edits' = edits + 1
  /\ \E s \in Site :
       \/ present' = (present \ {s}) \cup ({s} \ present) /\ UNCHANGED ignored
       \/ ignored' = (ignored \ {s}) \cup ({s} \ ignored) /\ UNCHANGED present
  /\ UNCHANGED <<file, pc, opts, modules, found, kept, exit, trusted>>

Goto(p, from, to) == pc[p] = from /\ pc' = [pc EXCEPT ![p] = to]
Exit(p, from, code) == Goto(p, from, "done") /\ exit' = [exit EXCEPT ![p] = code]

\* The packages in scope are loaded and analyzed.
Load(p) ==
  /\ Goto(p, "start", "loaded")
  /\ modules' = [modules EXCEPT ![p] = {ModuleOf[g] : g \in opts[p].scope} \ {NoModule}]
  /\ found' = [found EXCEPT ![p] = {s \in present : s.pkgs \cap opts[p].scope # {}}]
  /\ UNCHANGED <<source, file, opts, kept, exit, trusted>>

LoadFails(p) ==
  /\ Exit(p, "start", 2)
  /\ UNCHANGED <<source, file, opts, modules, found, kept, trusted>>

SamePlace(s, t) == s.file = t.file /\ s.at = t.at /\ s.id = t.id
Deduped(S) == \A s, t \in S : SamePlace(s, t) => s = t

\* What survives the directives now in the files, the generated-file filter
\* and -exclude.
Wanted(p) ==
  {s \in found[p] : /\ s \notin ignored
                    /\ opts[p].includeGenerated \/ ~s.generated
                    /\ s.file \notin opts[p].exclude}

\* And of one check's findings at one place the one that is sorted first, which
\* may be any: neither the sort nor the duplicates look at the message.
Filter(p) ==
  /\ Goto(p, "loaded", "filtered")
  /\ LET wanted == Wanted(p) IN
     \E S \in SUBSET wanted :
       /\ Deduped(S) /\ \A s \in wanted : \E t \in S : SamePlace(s, t)
       /\ found' = [found EXCEPT ![p] = S]
  /\ UNCHANGED <<source, file, opts, modules, kept, exit, trusted>>

\* -write-baseline without -baseline names no file to write.
WriteRefused(p) ==
  /\ opts[p].mode = "write" /\ ~opts[p].baseline
  /\ Exit(p, "filtered", 2)
  /\ UNCHANGED <<source, file, opts, modules, found, kept, trusted>>

\* os.WriteFile truncates the file and writes its bytes. Only one run writes
\* at a time: two that race leave a mixture nobody relies on.
Whole(p) == AcceptedEntries(found[p], 2, modules[p])

StartWrite(p) ==
  /\ opts[p].mode = "write" /\ opts[p].baseline
  /\ \A q \in Proc : pc[q] # "writing"
  /\ Goto(p, "filtered", "writing")
  /\ baseline' = [version |-> 0, entries |-> <<>>, whole |-> FALSE]
  /\ accepts' = found[p]
  /\ UNCHANGED <<source, opts, modules, found, kept, exit, trusted>>

\* Some of the bytes are there, more than before: some entries, of which the
\* last one's count may be cut short. Any order of the identities will do.
WritePart(p) ==
  /\ pc[p] = "writing"
  /\ LET whole == Whole(p) IN
     \E K \in SUBSET DOMAIN whole : \E last \in K :
       /\ DOMAIN baseline.entries \subseteq K /\ DOMAIN baseline.entries # K
       /\ \E c \in 0..whole[last] :
            baseline' = [version |-> 2, whole |-> FALSE,
                         entries |-> [k \in K |-> IF k = last THEN c ELSE whole[k]]]
  /\ UNCHANGED <<source, accepts, pc, opts, modules, found, kept, exit, trusted>>

WriteCompletes(p) ==
  /\ Exit(p, "writing", 0)
  /\ baseline' = [version |-> 2, entries |-> Whole(p), whole |-> TRUE]
  /\ UNCHANGED <<source, accepts, opts, modules, found, kept, trusted>>

\* The write fails, or the run is killed: the file stays as it is.
WriteDies(p) ==
  /\ Exit(p, "writing", 2)
  /\ UNCHANGED <<source, file, opts, modules, found, kept, trusted>>

Applies(p) == opts[p].mode # "write" /\ opts[p].baseline

\* The file is missing, empty or, when torn, no longer YAML.
ApplyFails(p) ==
  /\ Applies(p)
  /\ baseline.version = 0 \/ ~baseline.whole
  /\ Exit(p, "filtered", 2)
  /\ UNCHANGED <<source, file, opts, modules, found, kept, trusted>>

\* Faulty variant: an empty baseline file is one that accepts everything.
ApplyEmptyToo(p) ==
  /\ Applies(p)
  /\ Goto(p, "filtered", "ready")
  /\ kept' = [kept EXCEPT ![p] =
       IF baseline.version = 0 THEN {} ELSE Survivors(found[p], baseline.version, baseline.entries, modules[p])]
  /\ trusted' = [trusted EXCEPT ![p] = [sites |-> accepts, whole |-> baseline.whole]]
  /\ UNCHANGED <<source, file, opts, modules, found, exit>>

ApplyBaseline(p) ==
  /\ Applies(p)
  /\ baseline.version # 0
  /\ Goto(p, "filtered", "ready")
  /\ kept' = [kept EXCEPT ![p] = Survivors(found[p], baseline.version, baseline.entries, modules[p])]
  /\ trusted' = [trusted EXCEPT ![p] = [sites |-> accepts, whole |-> baseline.whole]]
  /\ UNCHANGED <<source, file, opts, modules, found, exit>>

SkipBaseline(p) ==
  /\ opts[p].mode # "write" /\ ~opts[p].baseline
  /\ Goto(p, "filtered", "ready")
  /\ kept' = [kept EXCEPT ![p] = found[p]]
  /\ UNCHANGED <<source, file, opts, modules, found, exit, trusted>>

\* -diff prints a patch of the fixable findings (module FixApply) and exits 1
\* when there is one, whatever else was found, unless told to exit 0.
ShowDiff(p) ==
  /\ opts[p].mode = "diff"
  /\ \E patch \in SUBSET {s \in kept[p] : s.fixable} :
       Exit(p, "ready", IF patch = {} \/ opts[p].exitZero THEN 0 ELSE 1)
  /\ UNCHANGED <<source, file, opts, modules, found, kept, trusted>>

\* -fix rewrites the sources at some of its fixable findings (module FixApply).
Fix(p) ==
  /\ opts[p].mode = "fix"
  /\ Goto(p, "ready", "fixed")
  /\ \E done \in SUBSET {s \in kept[p] : s.fixable} : present' = present \ done
  /\ UNCHANGED <<ignored, edits, file, opts, modules, found, kept, exit, trusted>>

\* Every finding left is reported, the fixed ones too.
Report(p) ==
  /\ \/ opts[p].mode = "report" /\ pc[p] = "ready"
     \/ pc[p] = "fixed"
  /\ Exit(p, pc[p], IF kept[p] # {} /\ ~opts[p].exitZero THEN 1 ELSE 0)
  /\ UNCHANGED <<source, file, opts, modules, found, kept, trusted>>

Return == (\A p \in Proc : pc[p] = "done") /\ UNCHANGED vars

Run(p) ==
  \/ Load(p) \/ LoadFails(p) \/ Filter(p)
  \/ WriteRefused(p) \/ StartWrite(p) \/ WritePart(p) \/ WriteCompletes(p) \/ WriteDies(p)
  \/ ApplyFails(p) \/ ApplyBaseline(p) \/ SkipBaseline(p)
  \/ ShowDiff(p) \/ Fix(p) \/ Report(p)
Next == EditSource \/ (\E p \in Proc : Run(p)) \/ Return
Spec == Init /\ [][Next]_vars

-----------------------------------------------------------------------------
(* Type invariant: the file, the runs and the histories keep their shape.   *)
TypeOK ==
  /\ present \subseteq Site /\ ignored \subseteq Site /\ accepts \subseteq Site
  /\ edits \in 0..MaxEdits
  /\ baseline.version \in 0..2 /\ baseline.whole \in BOOLEAN
  /\ pc \in [Proc -> {"start", "loaded", "filtered", "writing", "ready", "fixed", "done"}]
  /\ opts \in [Proc -> Option] /\ modules \in [Proc -> SUBSET {ModuleOf[g] : g \in Package}]
  /\ found \in [Proc -> SUBSET Site] /\ trusted \in [Proc -> [sites : SUBSET Site, whole : BOOLEAN]]
  /\ kept \in [Proc -> SUBSET Site] /\ \A p \in Proc : kept[p] \subseteq found[p]
  /\ exit \in [Proc -> 0..2]

Like(s, S) == {t \in S : t.file = s.file /\ t.id = s.id /\ t.msg = s.msg}
Applied(p) == Applies(p) /\ (pc[p] \in {"ready", "fixed"} \/ (pc[p] = "done" /\ exit[p] # 2))

(* The ratchet hides nothing new: of the findings of one check with one     *)
(* message in one file, a run never suppresses more than the baseline it    *)
(* read accepted there, be the file legacy, torn, or from another scope,    *)
(* and whatever findings of the same name other modules have.               *)
OnlyAcceptedSuppressed ==
  \A p \in Proc : Applied(p) =>
    \A s \in found[p] :
      Cardinality(Like(s, found[p] \ kept[p])) <= Cardinality(Like(s, trusted[p].sites))

(* "exit 1 only on NEW findings" (README.md), one way: exit code 0 of a     *)
(* reporting run means no file has more findings than were accepted, even   *)
(* if the baseline was being rewritten meanwhile.                           *)
GateHolds ==
  \A p \in Proc : pc[p] = "done" /\ exit[p] = 0 /\ opts[p].mode \in {"report", "fix"}
                   /\ ~opts[p].exitZero =>
    \A s \in found[p] : Cardinality(Like(s, found[p])) <= Cardinality(Like(s, trusted[p].sites))

(* And the other way: accepted findings stay quiet. A run that finds only   *)
(* what a completely written baseline accepted reports nothing, however     *)
(* small its scope ("keeps identity stable when scanning a subset or when   *)
(* findings disappear", baseline.go).                                       *)
QuietWhenAccepted ==
  \A p \in Proc :
    Applied(p) /\ trusted[p].whole /\ found[p] \subseteq trusted[p].sites => kept[p] = {}
=============================================================================
