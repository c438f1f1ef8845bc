------------------------------- MODULE Capture -------------------------------
(***************************************************************************)
(* A capture of trace evidence (captureSupervised): the declared inputs    *)
(* are classified and hashed, a helper is compiled that lets xctrace       *)
(* attach to the workload, the trace is hashed, its tables are exported    *)
(* and validated, the trace is hashed again, and result.json tells whether *)
(* the evidence is accepted.                                               *)
(*                                                                         *)
(* None of that is atomic. Links are retargeted between any two looks at   *)
(* them, the files of the toolchain are updated one by one, somebody still *)
(* writes to the trace or to the output of the workload, the caller        *)
(* cancels, a file cannot be written, the capture is killed. Contents are  *)
(* versions, which are only ever replaced by later ones.                   *)
(***************************************************************************)
EXTENDS Naturals, Sequences, FiniteSets

CONSTANTS
  Path,        (* absolute paths                                           *)
  Declared,    (* those of the inputs; the first is the executable         *)
  Protected,   (* the paths below a privacy root                           *)
  Resolutions, (* what all paths may lead to together, all links resolved  *)
  None,        (* no path                                                  *)
  ToolFiles,   (* the number of hashed files: compiler and headers         *)
  Member,      (* the number of files of the trace bundle                  *)
  Tables,      (* the number of required tables                            *)
  Marked,      (* the versions of the output with all markers in order     *)
  MaxChanges   (* bound on what the rest of the machine changes meanwhile  *)

(* What a path leads to is free of links: it leads to itself.               *)
ASSUME CaptureAssumption ==
  /\ Declared \in Seq(Path) /\ Declared # <<>>
  /\ ToolFiles \in Nat \ {0} /\ Member \in Nat \ {0} /\ Tables \in Nat \ {0}
  /\ MaxChanges \in Nat
  /\ Protected \subseteq Path /\ None \notin Path
  /\ \A r \in Resolutions : r \in [Path -> Path] /\ \A p \in Path : r[r[p]] = r[p]

Inputs == 1..Len(Declared)
Tools == 1..ToolFiles
Members == 1..Member

VARIABLES
  changes,                (* the number of changes so far                  *)
  leads,                  (* what each path leads to now                   *)
  late,                   (* history: the inputs for which a link moved    *)
                          (* only after their hashing had begun            *)
  toolchain,              (* versions of the files of the toolchain        *)
  bundle, output,         (* versions of the trace and of target.txt       *)
  cancelled,
  pc,
  canonical,              (* where each path led when it was classified    *)
  opened,                 (* what was read or executed for which input,    *)
                          (* and whether the input was late by then        *)
  compiler, helper,       (* the recorded toolchain; the one that compiled *)
  rehashed,               (* the number of its files hashed a second time  *)
  record,                 (* the outcome of the recorder                   *)
  walk,                   (* the members read by the present walk          *)
  before, exports, seen,  (* first digest; what each export read; output   *)
  refusal,                (* a problem was found                           *)
  result, file            (* what the caller is told; result.json          *)
vars == <<changes, leads, late, toolchain, bundle, output, cancelled, pc, canonical, opened,
          compiler, helper, rehashed, record, walk, before, exports, seen, refusal, result, file>>
links == <<leads, late>>
trace == <<bundle, output>>
inputs == <<canonical, opened>>
build == <<compiler, helper, rehashed>>
observed == <<before, exports, seen>>
verdict == <<refusal, result, file>>
world == <<changes, links, toolchain, trace, cancelled>>

Nothing == [m \in {} |-> 0]
Put(f, x, v) == [y \in DOMAIN f \cup {x} |-> IF y = x THEN v ELSE f[y]]
NotRecorded == [failed |-> TRUE, exit |-> 1, marked |-> FALSE, attached |-> "none"]

Init ==
  /\ changes = 0 /\ leads \in Resolutions /\ late = {}
  /\ toolchain = [t \in Tools |-> 0]
  /\ bundle = [m \in Members |-> 0] /\ output = 0
  /\ cancelled = FALSE /\ pc = "mkdir"
  /\ canonical = [i \in Inputs |-> None] /\ opened = {}
  /\ compiler = Nothing /\ helper = Nothing /\ rehashed = 0 /\ record = NotRecorded /\ walk = Nothing
  /\ before = Nothing /\ exports = <<>> /\ seen = 0
  /\ refusal = FALSE /\ result = "none" /\ file = "absent"

-----------------------------------------------------------------------------
(* The rest of the machine. The trace and the output exist once the         *)
(* recorder has run.                                                        *)
Ended == pc \in {"returned", "refused", "dead"}
Recorded == pc \in {"before", "output", "toc", "tables", "after", "again", "accept", "finish"}
private == <<pc, inputs, build, record, walk, observed, verdict>>

(* The inputs are hashed in order: those that were opened, whether it is    *)
(* input i's turn, and those whose turn began, opened yet or not.           *)
Hashed == {o.input : o \in opened}
Due(i) == i \notin Hashed /\ \A j \in 1..(i - 1) : j \in Hashed
Begun == Hashed \cup {i \in Inputs : pc = "open" /\ Due(i)}

Change == changes < MaxChanges /\ changes' = changes + 1
(* A link, or a directory on the way to a place, is replaced.               *)
Retarget ==
  /\ Change
  /\ pc \in {"plan", "classify", "hash", "open", "version", "build", "compile", "verify", "record"}
  /\ \E r \in Resolutions \ {leads} : leads' = r
  /\ late' = late \cup Begun
  /\ UNCHANGED <<toolchain, trace, cancelled, private>>
UpdateToolchain ==
  /\ Change
  /\ pc \in {"build", "compile", "verify"}
  /\ \E t \in Tools : toolchain' = [toolchain EXCEPT ![t] = @ + 1]
  /\ UNCHANGED <<links, trace, cancelled, private>>
LateWrite ==
  /\ Change
  /\ Recorded
  /\ \/ /\ \E m \in Members : bundle' = [bundle EXCEPT ![m] = @ + 1]
        /\ UNCHANGED output
     \/ /\ output' = output + 1
        /\ UNCHANGED bundle
  /\ UNCHANGED <<links, toolchain, cancelled, private>>
Cancel ==
  /\ ~Ended /\ ~cancelled /\ cancelled' = TRUE
  /\ UNCHANGED <<changes, links, toolchain, trace, private>>
(* The capture is killed. What it wrote of result.json stays.               *)
Killed ==
  /\ ~Ended /\ pc' = "dead"
  /\ UNCHANGED <<world, inputs, build, record, walk, observed, verdict>>

-----------------------------------------------------------------------------
(* A step fails: a file cannot be written or read, a command fails, runs    *)
(* out of time or is cancelled, or a table is not what was required.        *)
Refuse == pc' = "finish" /\ refusal' = TRUE
Problem ==
  /\ ~Ended /\ pc \notin {"mkdir", "finish"} /\ Refuse
  /\ UNCHANGED <<world, inputs, build, record, walk, observed, result, file>>

(* The directory must be new: an earlier capture is never written over.     *)
MakeDirectory ==
  /\ pc = "mkdir" /\ ~cancelled /\ pc' \in {"plan", "refused"}
  /\ UNCHANGED <<world, inputs, build, record, walk, observed, verdict>>
RefuseCancelled ==
  /\ pc = "mkdir" /\ cancelled /\ pc' = "refused"
  /\ UNCHANGED <<world, inputs, build, record, walk, observed, verdict>>
WritePlan ==
  /\ pc = "plan" /\ pc' = "classify"
  /\ UNCHANGED <<world, inputs, build, record, walk, observed, verdict>>

(* Every path is classified before the content of any input is read. A      *)
(* classification is one look at the file system here.                      *)
AllClassified == \A i \in Inputs : canonical[i] # None
Eligible(path) ==
  /\ path \notin Protected /\ leads[path] \notin Protected
  /\ \A i \in Inputs : canonical[i] # leads[path]
ClassifyInput ==
  /\ pc = "classify" /\ ~cancelled
  /\ \E i \in Inputs :
       /\ canonical[i] = None /\ \A j \in 1..(i - 1) : canonical[j] # None
       /\ IF Eligible(Declared[i])
          THEN canonical' = [canonical EXCEPT ![i] = leads[Declared[i]]] /\ UNCHANGED <<pc, refusal>>
          ELSE Refuse /\ UNCHANGED canonical
  /\ UNCHANGED <<world, opened, build, record, walk, observed, result, file>>
Classified ==
  /\ pc = "classify" /\ AllClassified /\ pc' = "hash"
  /\ UNCHANGED <<world, inputs, build, record, walk, observed, verdict>>

(* A slip: the declared path is not resolved again.                         *)
ResolveOnce ==
  /\ pc = "hash" /\ (\E i \in Inputs : Due(i)) /\ pc' = "open"
  /\ UNCHANGED <<world, inputs, build, record, walk, observed, verdict>>
(* The declared path must still lead to where it was classified.            *)
ResolveAgain ==
  /\ pc = "hash"
  /\ \E i \in Inputs :
       /\ Due(i)
       /\ IF leads[Declared[i]] = canonical[i] THEN pc' = "open" /\ UNCHANGED refusal ELSE Refuse
  /\ UNCHANGED <<world, inputs, build, record, walk, observed, result, file>>
(* What is read is what the canonical name leads to by then. (Where Lstat   *)
(* and Open find two files, none is read: a Problem.)                       *)
Open(i) == opened' = opened \cup {[input |-> i, place |-> leads[canonical[i]], late |-> i \in late]}
HashInput ==
  /\ pc = "open" /\ ~cancelled
  /\ \E i \in Inputs : Due(i) /\ Open(i)
  /\ pc' = "hash"
  /\ UNCHANGED <<world, canonical, build, record, walk, observed, verdict>>
PreflightPasses ==
  /\ pc = "hash" /\ ~cancelled /\ Hashed = Inputs
  /\ pc' = "version"
  /\ UNCHANGED <<world, inputs, build, record, walk, observed, verdict>>
ObserveVersion ==
  /\ pc = "version" /\ ~cancelled /\ pc' = "build"
  /\ UNCHANGED <<world, inputs, build, record, walk, observed, verdict>>

-----------------------------------------------------------------------------
(* The helper is compiled between two hashes of the toolchain: a file at a  *)
(* time, the compilation reads them in any order.                           *)
HashToolchain ==
  /\ pc = "build" /\ ~cancelled
  /\ \E t \in Tools \ DOMAIN compiler :
       /\ \A s \in Tools \ DOMAIN compiler : t <= s
       /\ compiler' = Put(compiler, t, toolchain[t])
  /\ pc' = IF DOMAIN compiler' = Tools THEN "compile" ELSE "build"
  /\ UNCHANGED <<world, inputs, helper, rehashed, record, walk, observed, verdict>>
Compile ==
  /\ pc = "compile" /\ ~cancelled
  /\ \E t \in Tools \ DOMAIN helper : helper' = Put(helper, t, toolchain[t])
  /\ pc' = IF DOMAIN helper' = Tools THEN "verify" ELSE "compile"
  /\ UNCHANGED <<world, inputs, compiler, rehashed, record, walk, observed, verdict>>
(* A slip: only what was compiled is hashed again.                          *)
VerifyBinary ==
  /\ pc = "verify" /\ ~cancelled /\ pc' = "record"
  /\ UNCHANGED <<world, inputs, build, record, walk, observed, verdict>>
VerifyToolchain ==
  /\ pc = "verify" /\ ~cancelled
  /\ rehashed' = rehashed + 1
  /\ IF toolchain[rehashed'] = compiler[rehashed']
     THEN pc' = (IF rehashed' = ToolFiles THEN "record" ELSE "verify") /\ UNCHANGED refusal
     ELSE Refuse
  /\ UNCHANGED <<world, inputs, compiler, helper, record, walk, observed, result, file>>

(* The recorder runs the canonical executable, by name. The target's        *)
(* process number can be another process's only once the target was         *)
(* reaped, which is before it was resumed only if the helper failed.        *)
Outcomes ==
  {r \in [failed : BOOLEAN, exit : {0, 54, 1}, marked : BOOLEAN,
          attached : {"target", "recycled", "other"}] :
     r.attached = "recycled" => r.failed}
Record ==
  /\ pc = "record" /\ ~cancelled
  /\ record' \in Outcomes /\ Open(1) /\ pc' = "qualify"
  /\ UNCHANGED <<world, canonical, build, walk, observed, verdict>>

(* Exit 54 is the time limit, if the recorder's own words say so.           *)
Qualified == ~record.failed /\ record.exit \in {0, 54} /\ (record.exit = 54 => record.marked)
Qualify ==
  /\ pc = "qualify"
  /\ IF Qualified THEN pc' = "before" /\ UNCHANGED refusal ELSE Refuse
  /\ UNCHANGED <<world, inputs, build, record, walk, observed, result, file>>

-----------------------------------------------------------------------------
(* A walk over the bundle reads its files one after another: a digest does  *)
(* in their order, an export in any order.                                  *)
Unread == Members \ DOMAIN walk
ReadMember ==
  /\ pc \in {"before", "toc", "tables", "after"} /\ ~cancelled
  /\ \E m \in Unread :
       /\ pc \in {"before", "after"} => \A n \in Unread : m <= n
       /\ walk' = Put(walk, m, bundle[m])
  /\ UNCHANGED <<world, pc, inputs, build, record, observed, verdict>>

DigestBefore ==
  /\ pc = "before" /\ Unread = {} /\ before' = walk /\ walk' = Nothing /\ pc' = "output"
  /\ UNCHANGED <<world, inputs, build, record, exports, seen, verdict>>
ReadOutput ==
  /\ pc = "output" /\ seen' = output
  /\ IF output \in Marked THEN pc' = "toc" /\ UNCHANGED refusal ELSE Refuse
  /\ UNCHANGED <<world, inputs, build, record, walk, before, exports, result, file>>

(* The trace must name the target: by its process number and executable.    *)
AnyProcess == record.attached # "none"   (* a slip *)
AttachedTarget == record.attached \in {"target", "recycled"}
ExportContents ==
  /\ pc = "toc" /\ Unread = {} /\ exports' = <<walk>> /\ walk' = Nothing
  /\ IF AttachedTarget THEN pc' = "tables" /\ UNCHANGED refusal ELSE Refuse
  /\ UNCHANGED <<world, inputs, build, record, before, seen, result, file>>
ExportTable ==
  /\ pc = "tables" /\ Unread = {} /\ exports' = Append(exports, walk) /\ walk' = Nothing
  /\ pc' = IF Len(exports) = Tables THEN "after" ELSE "tables"
  /\ UNCHANGED <<world, inputs, build, record, before, seen, verdict>>

(* A slip: the second digest is taken and not compared.                     *)
DigestIgnored ==
  /\ pc = "after" /\ Unread = {} /\ walk' = Nothing /\ pc' = "again"
  /\ UNCHANGED <<world, inputs, build, record, observed, verdict>>
DigestAfter ==
  /\ pc = "after" /\ Unread = {} /\ walk' = Nothing
  /\ IF walk = before THEN pc' = "again" /\ UNCHANGED refusal ELSE Refuse
  /\ UNCHANGED <<world, inputs, build, record, observed, result, file>>
ReadOutputAgain ==
  /\ pc = "again"
  /\ IF output = seen THEN pc' = "accept" /\ UNCHANGED refusal ELSE Refuse
  /\ UNCHANGED <<world, inputs, build, record, walk, observed, result, file>>
(* The last look at the caller's context.                                   *)
Accept ==
  /\ pc = "accept"
  /\ IF cancelled THEN Refuse ELSE pc' = "finish" /\ UNCHANGED refusal
  /\ UNCHANGED <<world, inputs, build, record, walk, observed, result, file>>

-----------------------------------------------------------------------------
(* result.json: created, and then written; either may fail. An error after  *)
(* the last byte leaves a whole file behind a refusal.                      *)
Verdict == IF refusal THEN "rejected" ELSE "accepted"
CreateResult ==
  /\ pc = "finish" /\ file = "absent" /\ file' = "partial"
  /\ UNCHANGED <<world, pc, inputs, build, record, walk, observed, refusal, result>>
WriteResult ==
  /\ pc = "finish" /\ file = "partial" /\ file' = Verdict
  /\ UNCHANGED <<world, pc, inputs, build, record, walk, observed, refusal, result>>
(* A slip: what was found is returned, whatever became of the file.         *)
ReturnVerdict ==
  /\ pc = "finish" /\ pc' = "returned" /\ result' = Verdict
  /\ UNCHANGED <<world, inputs, build, record, walk, observed, refusal, file>>
Return ==
  /\ pc = "finish" /\ pc' = "returned"
  /\ \/ file = Verdict /\ result' = Verdict
     \/ result' = "rejected"
  /\ UNCHANGED <<world, inputs, build, record, walk, observed, refusal, file>>

Next ==
  \/ Retarget \/ UpdateToolchain \/ LateWrite \/ Cancel \/ Killed
  \/ Problem \/ MakeDirectory \/ RefuseCancelled \/ WritePlan
  \/ ClassifyInput \/ Classified \/ ResolveAgain \/ HashInput \/ PreflightPasses \/ ObserveVersion
  \/ HashToolchain \/ Compile \/ VerifyToolchain \/ Record \/ Qualify
  \/ ReadMember \/ DigestBefore \/ ReadOutput \/ ExportContents \/ ExportTable
  \/ DigestAfter \/ ReadOutputAgain \/ Accept
  \/ CreateResult \/ WriteResult \/ Return

Spec == Init /\ [][Next]_vars

-----------------------------------------------------------------------------
(* Evidence is accepted if the caller is told so or result.json says so: a  *)
(* capture that is killed after it wrote the file counts.                   *)
Accepted == result = "accepted" \/ file = "accepted"

(* All the tables of accepted evidence, and the table of contents, were     *)
(* exported from the very trace whose digest is recorded, although neither  *)
(* a digest nor an export reads the bundle at one moment and somebody may   *)
(* write to it all the while (captureSupervised, before and after).         *)
OneTrace ==
  Accepted => /\ Len(exports) = 1 + Tables
              /\ \A e \in DOMAIN exports : exports[e] = before

(* Accepted evidence is of the workload's own process: not of another that  *)
(* xctrace chose, nor of one that got the number of a target already        *)
(* killed (attachedTarget, Supervision.valid).                              *)
OwnTarget == Accepted => record.attached = "target"

(* The helper that ran was compiled by the very files of the toolchain whose *)
(* hashes the evidence names, although they are hashed, used and hashed     *)
(* again one by one and may be updated all the while (prepareSupervisor).   *)
BuiltAsRecorded == record # NotRecorded => helper = compiler

(* Nothing is read or run before every input has been classified, and what  *)
(* is read or run for an input is then what the input was cleared as,       *)
(* outside all privacy roots - unless a link moved after the hashing of     *)
(* that very input had begun. All earlier moves are noticed, while other    *)
(* inputs are hashed too; of later ones the code promises nothing           *)
(* (preflightInputs, and the canonical path it leaves to the recorder).     *)
ReadsAsCleared ==
  opened # {} =>
    /\ AllClassified
    /\ \A o \in opened : ~o.late => o.place = canonical[o.input] /\ o.place \notin Protected

(* Who is told that the evidence is accepted finds a whole result.json that *)
(* says so (finish in captureSupervised).                                   *)
ResultHonest == result = "accepted" => file = "accepted"
=============================================================================
