---------------------------- MODULE CaptureProofs ----------------------------
(***************************************************************************)
(* What the verdict of a capture promises, for every number of inputs, of  *)
(* files in the toolchain, in the trace and of tables, and for any number  *)
(* of retargeted links, updates and late writes.                           *)
(***************************************************************************)
EXTENDS Capture, TLAPS

LEMMA NothingRead == DOMAIN Nothing = {} /\ Nothing \in [{} -> Nat]
BY DEF Nothing

(* Versions only grow. So the version of a file that the compilation read   *)
(* is between the one hashed before and the one there is now, and is fixed  *)
(* once the second hash of that file is equal to the first.                 *)
Unbuilt == {"mkdir", "plan", "classify", "hash", "open", "version", "build"}
Built == {"compile", "verify", "record"}
ToolsRead ==
  /\ toolchain \in [Tools -> Nat]
  /\ DOMAIN compiler \subseteq Tools /\ compiler \in [DOMAIN compiler -> Nat]
  /\ DOMAIN helper \subseteq Tools /\ helper \in [DOMAIN helper -> Nat]
InBetween ==
  /\ \A t \in DOMAIN compiler : compiler[t] <= toolchain[t]
  /\ \A t \in DOMAIN helper : t \in DOMAIN compiler /\ compiler[t] <= helper[t] /\ helper[t] <= toolchain[t]
Rehashed ==
  /\ pc \in Unbuilt \cup {"compile"} => rehashed = 0
  /\ pc = "verify" => rehashed \in Nat /\ rehashed < ToolFiles /\ \A t \in 1..rehashed : helper[t] = compiler[t]
BuildInv ==
  /\ ToolsRead /\ InBetween /\ Rehashed
  /\ pc \in Unbuilt => helper = Nothing
  /\ pc \in Built => DOMAIN compiler = Tools
  /\ pc \in Built \ {"compile"} => DOMAIN helper = Tools
  /\ pc \in Unbuilt \cup Built => record = NotRecorded
  /\ pc = "record" => helper = compiler
  /\ BuiltAsRecorded

(* Steps that read nothing of the toolchain and do not go on to where it is. *)
LEMMA ElsewhereKeepsBuild ==
  ASSUME BuildInv, UNCHANGED <<toolchain, compiler, helper, record>>,
         \/ pc' = pc /\ rehashed' = rehashed
         \/ pc \in Unbuilt /\ pc' \in Unbuilt /\ rehashed' = rehashed
         \/ pc' \notin Unbuilt \cup Built
  PROVE  BuildInv'
BY DEF BuildInv, ToolsRead, InBetween, Rehashed, BuiltAsRecorded, Unbuilt, Built

LEMMA UpdateKeepsBuild ==
  ASSUME BuildInv, UpdateToolchain
  PROVE  BuildInv'
<1>1. UNCHANGED <<compiler, helper, rehashed, record, pc>>
  BY DEF UpdateToolchain, private, build
<1>2. PICK t \in Tools : toolchain' = [toolchain EXCEPT ![t] = @ + 1]
  BY DEF UpdateToolchain
<1>3. toolchain' \in [Tools -> Nat] /\ \A s \in Tools : toolchain[s] <= toolchain'[s]
  BY <1>2 DEF BuildInv, ToolsRead
<1>4. InBetween'
  BY <1>1, <1>3 DEF BuildInv, ToolsRead, InBetween
<1> QED
  BY <1>1, <1>3, <1>4 DEF BuildInv, ToolsRead, Rehashed, BuiltAsRecorded

LEMMA HashKeepsBuild ==
  ASSUME BuildInv, HashToolchain
  PROVE  BuildInv'
<1>1. UNCHANGED <<toolchain, helper, rehashed, record>> /\ pc = "build" /\ pc' \in {"compile", "build"}
      /\ (pc' = "compile" => DOMAIN compiler' = Tools)
  BY DEF HashToolchain, world
<1>2. PICK t \in Tools \ DOMAIN compiler : compiler' = Put(compiler, t, toolchain[t])
  BY DEF HashToolchain
<1>3. toolchain[t] \in Nat /\ compiler \in [DOMAIN compiler -> Nat] /\ DOMAIN compiler \subseteq Tools
  BY <1>2 DEF BuildInv, ToolsRead
<1>4. /\ DOMAIN compiler' = DOMAIN compiler \cup {t} /\ compiler'[t] = toolchain[t]
      /\ \A s \in DOMAIN compiler : s # t => compiler'[s] = compiler[s]
  BY <1>2 DEF Put
<1>5. compiler' \in [DOMAIN compiler \cup {t} -> Nat]
  BY <1>2, <1>3 DEF Put
<1>6. ToolsRead'
  BY <1>1, <1>2, <1>3, <1>4, <1>5 DEF BuildInv, ToolsRead
<1>7. helper = Nothing
  BY <1>1 DEF BuildInv, Unbuilt
<1>8. InBetween'
  BY <1>1, <1>3, <1>4, <1>7, NothingRead DEF BuildInv, InBetween
<1>9. Rehashed' /\ record = NotRecorded
  BY <1>1 DEF BuildInv, Rehashed, Unbuilt
<1> QED
  BY <1>1, <1>6, <1>7, <1>8, <1>9 DEF BuildInv, BuiltAsRecorded, Unbuilt, Built

LEMMA CompileKeepsBuild ==
  ASSUME BuildInv, Compile
  PROVE  BuildInv'
<1>1. UNCHANGED <<toolchain, compiler, rehashed, record>> /\ pc = "compile" /\ pc' \in {"compile", "verify"}
      /\ (pc' = "verify" => DOMAIN helper' = Tools)
  BY DEF Compile, world
<1>2. PICK t \in Tools \ DOMAIN helper : helper' = Put(helper, t, toolchain[t])
  BY DEF Compile
<1>3. /\ toolchain[t] \in Nat /\ helper \in [DOMAIN helper -> Nat] /\ DOMAIN helper \subseteq Tools
      /\ DOMAIN compiler = Tools
  BY <1>1, <1>2 DEF BuildInv, ToolsRead, Built
<1>4. /\ DOMAIN helper' = DOMAIN helper \cup {t} /\ helper'[t] = toolchain[t]
      /\ \A s \in DOMAIN helper : s # t => helper'[s] = helper[s]
  BY <1>2 DEF Put
<1>5. helper' \in [DOMAIN helper \cup {t} -> Nat]
  BY <1>2, <1>3 DEF Put
<1>6. ToolsRead'
  BY <1>1, <1>2, <1>3, <1>4, <1>5 DEF BuildInv, ToolsRead
<1>7. InBetween'
  BY <1>1, <1>2, <1>3, <1>4 DEF BuildInv, InBetween
<1>8. Rehashed' /\ record = NotRecorded
  BY <1>1, CaptureAssumption DEF BuildInv, Rehashed, Unbuilt, Built
<1> QED
  BY <1>1, <1>3, <1>6, <1>7, <1>8 DEF BuildInv, BuiltAsRecorded, Unbuilt, Built

LEMMA VerifyKeepsBuild ==
  ASSUME BuildInv, VerifyToolchain
  PROVE  BuildInv'
<1>1. UNCHANGED <<toolchain, compiler, helper, record>> /\ pc = "verify" /\ rehashed' = rehashed + 1
  BY DEF VerifyToolchain, world
<1>2. /\ DOMAIN compiler = Tools /\ DOMAIN helper = Tools /\ record = NotRecorded
      /\ rehashed \in Nat /\ rehashed < ToolFiles /\ \A t \in 1..rehashed : helper[t] = compiler[t]
  BY <1>1 DEF BuildInv, Rehashed, Built
<1>3. CASE toolchain[rehashed'] = compiler[rehashed']
  <2>1. rehashed' \in Tools /\ rehashed' <= ToolFiles
    BY <1>1, <1>2, CaptureAssumption DEF Tools
  <2>2. /\ compiler[rehashed'] \in Nat /\ helper[rehashed'] \in Nat
        /\ compiler[rehashed'] <= helper[rehashed'] /\ helper[rehashed'] <= toolchain[rehashed']
    BY <1>2, <2>1 DEF BuildInv, ToolsRead, InBetween
  <2>3. helper[rehashed'] = compiler[rehashed']
    BY <1>3, <2>2
  <2>4. \A t \in 1..rehashed' : t \in 1..rehashed \/ t = rehashed'
    BY <1>1, <1>2
  <2>5. \A t \in 1..rehashed' : helper[t] = compiler[t]
    BY <1>2, <2>3, <2>4
  <2>6. pc' = IF rehashed' = ToolFiles THEN "record" ELSE "verify"
    BY <1>3 DEF VerifyToolchain
  <2>7. ASSUME rehashed' = ToolFiles PROVE helper = compiler
    <3>1. \A t \in Tools : helper[t] = compiler[t]
      BY <2>5, <2>7 DEF Tools
    <3> QED
      BY <1>2, <3>1 DEF BuildInv, ToolsRead
  <2>8. pc' = "verify" => rehashed' \in Nat /\ rehashed' < ToolFiles
    BY <1>1, <1>2, <2>1, <2>6, CaptureAssumption
  <2>9. Rehashed'
    BY <1>1, <2>5, <2>6, <2>8 DEF Rehashed, Unbuilt
  <2> QED
    BY <1>1, <1>2, <2>6, <2>7, <2>9 DEF BuildInv, ToolsRead, InBetween, BuiltAsRecorded, Unbuilt, Built
<1>4. CASE toolchain[rehashed'] # compiler[rehashed']
  <2>1. pc' = "finish"
    BY <1>4 DEF VerifyToolchain, Refuse
  <2> QED
    BY <1>1, <2>1, ElsewhereKeepsBuild DEF Unbuilt, Built
<1> QED
  BY <1>3, <1>4

LEMMA RecordKeepsBuild ==
  ASSUME BuildInv, Record
  PROVE  BuildInv'
<1>1. UNCHANGED <<toolchain, compiler, helper, rehashed>> /\ pc = "record" /\ pc' = "qualify"
  BY DEF Record, world, build
<1>2. helper = compiler
  BY <1>1 DEF BuildInv
<1> QED
  BY <1>1, <1>2 DEF BuildInv, ToolsRead, InBetween, Rehashed, BuiltAsRecorded, Unbuilt, Built

(* The helper that ran was compiled by the very files whose hashes are      *)
(* recorded (prepareSupervisor), however often any of them is updated       *)
(* before, between and after the looks at it.                               *)
THEOREM HelperAsRecorded == Spec => []BuiltAsRecorded
<1>1. Init => BuildInv
  BY NothingRead DEF Init, BuildInv, ToolsRead, InBetween, Rehashed, BuiltAsRecorded, Unbuilt, Built
<1>2. BuildInv /\ [Next]_vars => BuildInv'
  <2> SUFFICES ASSUME BuildInv, [Next]_vars PROVE BuildInv'
    OBVIOUS
  <2> USE DEF world, trace, links, inputs, build, observed, verdict, private, Refuse, Ended, Unbuilt, Built
  <2>1. CASE Retarget \/ LateWrite \/ Cancel \/ Killed \/ Problem
    BY <2>1, ElsewhereKeepsBuild DEF Retarget, LateWrite, Cancel, Killed, Problem
  <2>2. CASE MakeDirectory \/ RefuseCancelled \/ WritePlan \/ Classified \/ PreflightPasses \/ ObserveVersion
    BY <2>2, ElsewhereKeepsBuild
    DEF MakeDirectory, RefuseCancelled, WritePlan, Classified, PreflightPasses, ObserveVersion
  <2>3. CASE ClassifyInput \/ ResolveAgain \/ HashInput
    BY <2>3, ElsewhereKeepsBuild DEF ClassifyInput, ResolveAgain, HashInput
  <2>4. CASE Qualify \/ ReadMember \/ DigestBefore \/ ReadOutput \/ ExportContents \/ ExportTable
    BY <2>4, ElsewhereKeepsBuild DEF Qualify, ReadMember, DigestBefore, ReadOutput, ExportContents, ExportTable
  <2>5. CASE DigestAfter \/ ReadOutputAgain \/ Accept \/ CreateResult \/ WriteResult \/ Return
    BY <2>5, ElsewhereKeepsBuild DEF DigestAfter, ReadOutputAgain, Accept, CreateResult, WriteResult, Return
  <2>6. CASE UNCHANGED vars
    BY <2>6, ElsewhereKeepsBuild DEF vars
  <2> QED
    BY <2>1, <2>2, <2>3, <2>4, <2>5, <2>6, UpdateKeepsBuild, HashKeepsBuild, CompileKeepsBuild,
       VerifyKeepsBuild, RecordKeepsBuild
    DEF Next
<1>3. BuildInv => BuiltAsRecorded
  BY DEF BuildInv
<1> QED
  BY <1>1, <1>2, <1>3, PTL DEF Spec

-----------------------------------------------------------------------------
(* Before the hashing starts nothing is opened; from then on every input    *)
(* has been classified. A canonical name leads to itself from the moment    *)
(* the input's turn comes, until a link moves.                              *)
Unopen == {"mkdir", "plan", "classify", "refused"}
Opening == {"hash", "open"}
AllHashed == {"version", "build", "compile", "verify", "record"}
InPlace == \A i \in Begun : i \in late \/ leads[canonical[i]] = canonical[i]
ClearedInv ==
  /\ leads \in Resolutions
  /\ canonical \in [Inputs -> (Path \ Protected) \cup {None}]
  /\ Hashed \subseteq Inputs
  /\ pc \in Unopen => opened = {}
  /\ pc \in Opening \cup AllHashed => AllClassified
  /\ pc \in AllHashed => Hashed = Inputs
  /\ InPlace
  /\ ReadsAsCleared

LEMMA LedToAPath ==
  ASSUME leads \in Resolutions, NEW i \in Inputs
  PROVE  /\ Declared[i] \in Path /\ leads[Declared[i]] \in Path
         /\ leads[leads[Declared[i]]] = leads[Declared[i]]
BY CaptureAssumption DEF Inputs

(* Only one input's turn can have come.                                     *)
LEMMA OneIsDue ==
  ASSUME NEW i \in Inputs, NEW j \in Inputs, Due(i), Due(j)
  PROVE  i = j
BY CaptureAssumption DEF Due, Inputs

(* Steps that neither move a link nor open or classify an input.            *)
LEMMA ElsewhereKeepsCleared ==
  ASSUME ClearedInv, UNCHANGED <<leads, late, canonical, opened>>,
         pc' # "open" \/ pc = "open",
         pc' \in Unopen => pc \in Unopen,
         pc' \in Opening \cup AllHashed => AllClassified,
         pc' \in AllHashed => Hashed = Inputs
  PROVE  ClearedInv'
<1>1. Hashed' = Hashed /\ (\A i : Due(i)' = Due(i)) /\ AllClassified' = AllClassified
  BY DEF Hashed, Due, AllClassified
<1>2. Begun' \subseteq Begun
  BY <1>1 DEF Begun
<1> QED
  BY <1>1, <1>2 DEF ClearedInv, InPlace, ReadsAsCleared

LEMMA RetargetKeepsCleared ==
  ASSUME ClearedInv, Retarget
  PROVE  ClearedInv'
<1>1. UNCHANGED <<pc, canonical, opened>> /\ leads' \in Resolutions /\ late' = late \cup Begun
  BY DEF Retarget, private, inputs
<1>2. Hashed' = Hashed /\ (\A i : Due(i)' = Due(i)) /\ AllClassified' = AllClassified
  BY <1>1 DEF Hashed, Due, AllClassified
<1>3. Begun' = Begun
  BY <1>1, <1>2 DEF Begun
<1> QED
  BY <1>1, <1>2, <1>3 DEF ClearedInv, InPlace, ReadsAsCleared

LEMMA ClassifyKeepsCleared ==
  ASSUME ClearedInv, ClassifyInput
  PROVE  ClearedInv'
<1>1. UNCHANGED <<leads, late, opened>> /\ pc = "classify" /\ opened = {} /\ pc' \in {"classify", "finish"}
  BY DEF ClassifyInput, world, links, Refuse, ClearedInv, Unopen
<1>2. canonical' \in [Inputs -> (Path \ Protected) \cup {None}]
  BY LedToAPath DEF ClassifyInput, Eligible, ClearedInv
<1>3. Hashed' = {} /\ Begun' = {}
  BY <1>1 DEF Hashed, Begun
<1> QED
  BY <1>1, <1>2, <1>3 DEF ClearedInv, InPlace, ReadsAsCleared, Unopen, Opening, AllHashed

(* The declared path leads to the canonical one, which leads no further.    *)
LEMMA ResolveKeepsCleared ==
  ASSUME ClearedInv, ResolveAgain
  PROVE  ClearedInv'
<1>1. UNCHANGED <<leads, late, canonical, opened>> /\ pc = "hash" /\ pc' \in {"open", "finish"} /\ AllClassified
  BY DEF ResolveAgain, world, links, inputs, Refuse, ClearedInv, Opening
<1>2. Hashed' = Hashed /\ (\A i : Due(i)' = Due(i)) /\ AllClassified' = AllClassified
  BY <1>1 DEF Hashed, Due, AllClassified
<1>3. CASE pc' = "finish"
  BY <1>1, <1>3, ElsewhereKeepsCleared DEF Unopen, Opening, AllHashed
<1>4. CASE pc' = "open"
  <2>1. PICK i \in Inputs : Due(i) /\ leads[Declared[i]] = canonical[i]
    BY <1>4 DEF ResolveAgain, Refuse
  <2>2. leads[canonical[i]] = canonical[i]
    BY <2>1, LedToAPath DEF ClearedInv
  <2>3. Begun' \subseteq Begun \cup {i}
    BY <1>2, <2>1, OneIsDue DEF Begun
  <2>4. InPlace'
    BY <1>1, <2>2, <2>3 DEF ClearedInv, InPlace
  <2> QED
    BY <1>1, <1>2, <1>4, <2>4 DEF ClearedInv, ReadsAsCleared, Unopen, Opening, AllHashed
<1> QED
  BY <1>1, <1>3, <1>4

(* What is opened for an input whose hashing has begun.                     *)
LEMMA OpenKeepsCleared ==
  ASSUME ClearedInv, NEW i \in Begun, i \in Inputs, Open(i), AllClassified,
         UNCHANGED <<leads, late, canonical>>, pc' \notin Unopen \cup AllHashed \cup {"open"}
  PROVE  ClearedInv'
<1>1. opened' = opened \cup {[input |-> i, place |-> leads[canonical[i]], late |-> i \in late]}
  BY DEF Open
<1>2. Hashed' = Hashed \cup {i}
  <2> DEFINE this == [input |-> i, place |-> leads[canonical[i]], late |-> i \in late]
  <2>1. this.input = i
    OBVIOUS
  <2> HIDE DEF this
  <2>2. opened' = opened \cup {this}
    BY <1>1 DEF this
  <2> QED
    BY <2>1, <2>2 DEF Hashed
<1>3. Begun' \subseteq Begun
  BY <1>2 DEF Begun
<1>4. AllClassified'
  BY DEF AllClassified
<1>5. canonical[i] \in Path \ Protected
  BY DEF ClearedInv, AllClassified
<1>6. ASSUME NEW o \in opened', ~o.late
      PROVE  o.place = canonical[o.input] /\ o.place \notin Protected
  <2>1. CASE o \in opened
    BY <1>6, <2>1 DEF ClearedInv, ReadsAsCleared
  <2>2. CASE o = [input |-> i, place |-> leads[canonical[i]], late |-> i \in late]
    <3>1. o.input = i /\ o.place = leads[canonical[i]] /\ o.late = (i \in late)
      BY <2>2
    <3> QED
      BY <1>5, <1>6, <3>1 DEF ClearedInv, InPlace
  <2> QED
    BY <1>1, <2>1, <2>2
<1>7. ReadsAsCleared'
  BY <1>4, <1>6 DEF ReadsAsCleared
<1> QED
  BY <1>2, <1>3, <1>4, <1>7 DEF ClearedInv, InPlace, Opening

(* However often links are retargeted: nothing is read or run before all    *)
(* inputs are classified, and what is read or run for an input is what it   *)
(* was cleared as, unless a link moved after its hashing had begun          *)
(* (preflightInputs, which claims nothing of later moves).                  *)
THEOREM ReadsWhatWasCleared == Spec => []ReadsAsCleared
<1>1. Init => ClearedInv
  BY CaptureAssumption
  DEF Init, ClearedInv, InPlace, ReadsAsCleared, Hashed, Begun, Unopen, Opening, AllHashed
<1>2. ClearedInv /\ [Next]_vars => ClearedInv'
  <2> SUFFICES ASSUME ClearedInv, [Next]_vars PROVE ClearedInv'
    OBVIOUS
  <2> USE DEF world, trace, links, inputs, build, observed, verdict, private, Refuse, Ended, Unopen, Opening, AllHashed
  <2>1. CASE UpdateToolchain \/ LateWrite \/ Cancel \/ Killed \/ Problem
    BY <2>1, ElsewhereKeepsCleared DEF UpdateToolchain, LateWrite, Cancel, Killed, Problem, ClearedInv
  <2>2. CASE MakeDirectory \/ RefuseCancelled \/ WritePlan \/ Classified \/ PreflightPasses \/ ObserveVersion
    BY <2>2, ElsewhereKeepsCleared
    DEF MakeDirectory, RefuseCancelled, WritePlan, Classified, PreflightPasses, ObserveVersion, ClearedInv
  <2>3. CASE HashInput
    <3>1. PICK i \in Inputs : Due(i) /\ Open(i)
      BY <2>3 DEF HashInput
    <3>2. i \in Begun
      BY <2>3, <3>1 DEF HashInput, Begun
    <3> QED
      BY <2>3, <3>1, <3>2, OpenKeepsCleared DEF HashInput, ClearedInv
  <2>4. CASE HashToolchain \/ Compile \/ VerifyToolchain
    BY <2>4, ElsewhereKeepsCleared DEF HashToolchain, Compile, VerifyToolchain, ClearedInv
  <2>5. CASE Record
    <3>1. 1 \in Inputs
      BY CaptureAssumption DEF Inputs
    <3>2. 1 \in Begun
      BY <2>5, <3>1 DEF Record, ClearedInv, Begun
    <3> QED
      BY <2>5, <3>1, <3>2, OpenKeepsCleared DEF Record, ClearedInv
  <2>6. CASE Qualify \/ ReadMember \/ DigestBefore \/ ReadOutput \/ ExportContents \/ ExportTable
    BY <2>6, ElsewhereKeepsCleared
    DEF Qualify, ReadMember, DigestBefore, ReadOutput, ExportContents, ExportTable, ClearedInv
  <2>7. CASE DigestAfter \/ ReadOutputAgain \/ Accept \/ CreateResult \/ WriteResult \/ Return
    BY <2>7, ElsewhereKeepsCleared
    DEF DigestAfter, ReadOutputAgain, Accept, CreateResult, WriteResult, Return, ClearedInv
  <2>8. CASE UNCHANGED vars
    BY <2>8, ElsewhereKeepsCleared DEF vars, ClearedInv
  <2> QED
    BY <2>1, <2>2, <2>3, <2>4, <2>5, <2>6, <2>7, <2>8, RetargetKeepsCleared, ClassifyKeepsCleared,
       ResolveKeepsCleared
    DEF Next
<1>3. ClearedInv => ReadsAsCleared
  BY DEF ClearedInv
<1> QED
  BY <1>1, <1>2, <1>3, PTL DEF Spec

-----------------------------------------------------------------------------
(* The verdict is not yet given, or it is what was found.                   *)
Concluding == {"finish", "returned", "dead"}
Sound == (~refusal /\ pc \in {"again", "accept", "finish"}) \/ Accepted
VerdictInv ==
  /\ Accepted => ~refusal /\ pc \in Concluding
  /\ result # "none" => pc = "returned"
  /\ ResultHonest

LEMMA InitVerdict == Init => VerdictInv
BY DEF Init, VerdictInv, Accepted, ResultHonest

LEMMA NextVerdict ==
  ASSUME VerdictInv, [Next]_vars
  PROVE  VerdictInv'
<1> USE DEF world, trace, links, inputs, build, observed, verdict, private, Refuse, Ended, VerdictInv, Accepted,
            ResultHonest, Concluding
<1>1. CASE Retarget \/ UpdateToolchain \/ LateWrite \/ Cancel \/ Killed \/ Problem
  BY <1>1 DEF Retarget, UpdateToolchain, LateWrite, Cancel, Killed, Problem
<1>2. CASE MakeDirectory \/ RefuseCancelled \/ WritePlan \/ Classified \/ PreflightPasses \/ ObserveVersion
  BY <1>2 DEF MakeDirectory, RefuseCancelled, WritePlan, Classified, PreflightPasses, ObserveVersion
<1>3. CASE ClassifyInput \/ ResolveAgain \/ HashInput \/ HashToolchain \/ Compile \/ VerifyToolchain \/ Record
  BY <1>3 DEF ClassifyInput, ResolveAgain, HashInput, HashToolchain, Compile, VerifyToolchain, Record
<1>4. CASE Qualify \/ ReadMember \/ DigestBefore \/ ReadOutput \/ ExportContents \/ ExportTable
  BY <1>4 DEF Qualify, ReadMember, DigestBefore, ReadOutput, ExportContents, ExportTable
<1>5. CASE DigestAfter \/ ReadOutputAgain \/ Accept
  BY <1>5 DEF DigestAfter, ReadOutputAgain, Accept
<1>6. CASE CreateResult \/ WriteResult \/ Return
  BY <1>6 DEF CreateResult, WriteResult, Return, Verdict
<1>7. CASE UNCHANGED vars
  BY <1>7 DEF vars
<1> QED
  BY <1>1, <1>2, <1>3, <1>4, <1>5, <1>6, <1>7 DEF Next

(* A capture that tells its caller that the evidence is accepted has left a *)
(* whole result.json that says so (finish).                                 *)
THEOREM AcceptedIsOnDisk == Spec => []ResultHonest
<1>1. VerdictInv /\ [Next]_vars => VerdictInv'
  BY NextVerdict
<1>2. VerdictInv => ResultHonest
  BY DEF VerdictInv
<1> QED
  BY <1>1, <1>2, InitVerdict, PTL DEF Spec

-----------------------------------------------------------------------------
(* What is accepted passed Qualify and AttachedTarget.                      *)
Attaching == {"before", "output", "toc"}
Attached == {"tables", "after"}
TargetInv ==
  /\ VerdictInv
  /\ record # NotRecorded => record \in Outcomes
  /\ pc = "qualify" => record \in Outcomes
  /\ pc \in Attaching => record \in Outcomes /\ ~record.failed
  /\ pc \in Attached \/ Sound => record.attached = "target"

LEMMA InitTarget == Init => TargetInv
BY InitVerdict DEF Init, TargetInv, Sound, Accepted, Attaching, Attached

LEMMA NextTarget ==
  ASSUME TargetInv, [Next]_vars
  PROVE  TargetInv'
<1> USE DEF world, trace, links, inputs, build, observed, verdict, private, Refuse, Ended, TargetInv, Accepted,
            Sound, Attaching, Attached
<1> VerdictInv /\ VerdictInv'
  BY NextVerdict
<1>1. CASE Retarget \/ UpdateToolchain \/ LateWrite \/ Cancel \/ Killed \/ Problem
  BY <1>1 DEF Retarget, UpdateToolchain, LateWrite, Cancel, Killed, Problem
<1>2. CASE MakeDirectory \/ RefuseCancelled \/ WritePlan \/ Classified \/ PreflightPasses \/ ObserveVersion
  BY <1>2 DEF MakeDirectory, RefuseCancelled, WritePlan, Classified, PreflightPasses, ObserveVersion
<1>3. CASE ClassifyInput \/ ResolveAgain \/ HashInput \/ HashToolchain \/ Compile \/ VerifyToolchain \/ Record
  BY <1>3 DEF ClassifyInput, ResolveAgain, HashInput, HashToolchain, Compile, VerifyToolchain, Record, VerdictInv, Concluding
<1>4. CASE Qualify \/ ReadMember \/ DigestBefore \/ ReadOutput \/ ExportTable
  BY <1>4 DEF Qualify, Qualified, ReadMember, DigestBefore, ReadOutput, ExportTable, VerdictInv, Concluding
<1>5. CASE ExportContents
  <2>1. record \in Outcomes /\ ~record.failed => record.attached # "recycled"
    BY DEF Outcomes
  <2> QED
    BY <1>5, <2>1 DEF ExportContents, AttachedTarget, VerdictInv, Concluding
<1>6. CASE DigestAfter \/ ReadOutputAgain \/ Accept
  BY <1>6 DEF DigestAfter, ReadOutputAgain, Accept, VerdictInv, Concluding
<1>7. CASE CreateResult \/ WriteResult \/ Return
  BY <1>7 DEF CreateResult, WriteResult, Return, Verdict, VerdictInv, Concluding
<1>8. CASE UNCHANGED vars
  BY <1>8 DEF vars
<1> QED
  BY <1>1, <1>2, <1>3, <1>4, <1>5, <1>6, <1>7, <1>8 DEF Next

(* Accepted evidence is of the process that the capture started, never of   *)
(* one that got its number later (attachedTarget and Supervision.valid).    *)
THEOREM AcceptedIsOfTarget == Spec => []OwnTarget
<1>1. TargetInv /\ [Next]_vars => TargetInv'
  BY NextTarget
<1>2. TargetInv => OwnTarget
  BY DEF TargetInv, OwnTarget, Sound
<1> QED
  BY <1>1, <1>2, InitTarget, PTL DEF Spec

-----------------------------------------------------------------------------
(* Versions only grow, so every export is between the first digest and the  *)
(* second one, member by member: if those are equal, it is equal to both.   *)
Versions == [Members -> Nat]
Below(low, high) == \A m \in Members \cap DOMAIN high : low[m] <= high[m]
Walked == DOMAIN walk \subseteq Members /\ walk \in [DOMAIN walk -> Nat] /\ \A m \in DOMAIN walk : walk[m] <= bundle[m]
Exporting == {"toc", "tables", "after"}
Digested == before \in Versions /\ Below(before, bundle)
Exported ==
  /\ exports \in Seq(Versions)
  /\ \A e \in DOMAIN exports : Below(before, exports[e]) /\ Below(exports[e], bundle)
AllEqual == Len(exports) = 1 + Tables /\ \A e \in DOMAIN exports : exports[e] = before
TraceInv ==
  /\ VerdictInv
  /\ bundle \in Versions /\ Walked
  /\ pc = "output" => walk = Nothing
  /\ pc \in Exporting \cup {"output"} => Digested
  /\ pc \in Exporting => Below(before, walk)
  /\ pc \in {"tables", "after"} => Exported
  /\ pc = "tables" => Len(exports) \in 1..Tables
  /\ pc = "after" => Len(exports) = 1 + Tables /\ \A e \in DOMAIN exports : Below(exports[e], walk)
  /\ Sound => AllEqual

LEMMA InitTrace == Init => TraceInv
BY InitVerdict, NothingRead DEF Init, TraceInv, Versions, Walked, Sound, Accepted, Exporting

(* A walk that has read every member is a snapshot of the whole bundle.     *)
LEMMA WholeWalk ==
  ASSUME Walked, Unread = {}
  PROVE  walk \in Versions /\ Below(walk, bundle)
<1>1. DOMAIN walk = Members
  BY DEF Walked, Unread
<1> QED
  BY <1>1 DEF Walked, Versions, Below

LEMMA Squeezed ==
  ASSUME NEW low \in Versions, NEW mid \in Versions, Below(low, mid), Below(mid, low)
  PROVE  mid = low
<1>1. \A m \in Members : low[m] <= mid[m] /\ mid[m] <= low[m] /\ low[m] \in Nat /\ mid[m] \in Nat
  BY DEF Versions, Below
<1>2. \A m \in Members : mid[m] = low[m]
  BY <1>1
<1> QED
  BY <1>2 DEF Versions

LEMMA WriteKeepsTrace ==
  ASSUME TraceInv, LateWrite
  PROVE  TraceInv'
<1> USE DEF world, trace, links, inputs, build, observed, verdict, private, LateWrite
<1>1. VerdictInv'
  BY DEF TraceInv, VerdictInv, Accepted, ResultHonest, Concluding
<1>2. bundle' \in Versions /\ Below(bundle, bundle')
  BY DEF TraceInv, Versions, Below
<1>3. ASSUME NEW low, low \in Versions \/ (low \in [DOMAIN low -> Nat] /\ DOMAIN low \subseteq Members),
             \A m \in DOMAIN low : low[m] <= bundle[m]
      PROVE  \A m \in DOMAIN low : low[m] <= bundle'[m]
  BY <1>2, <1>3 DEF TraceInv, Versions, Below
<1>4. Walked'
  BY <1>3 DEF TraceInv, Walked
<1>5. pc \in Exporting \cup {"output"} => Digested'
  BY <1>2, <1>3 DEF TraceInv, Digested, Below, Versions
<1>6. pc \in {"tables", "after"} => Exported'
  <2> SUFFICES ASSUME pc \in {"tables", "after"} PROVE Exported'
    OBVIOUS
  <2>1. Exported
    BY DEF TraceInv
  <2>2. \A e \in DOMAIN exports : exports[e] \in Versions
    BY <2>1 DEF Exported
  <2>3. \A e \in DOMAIN exports : Below(exports[e], bundle')
    BY <1>2, <2>1, <2>2 DEF Exported, Below, Versions, TraceInv
  <2> QED
    BY <2>1, <2>3 DEF Exported
<1> QED
  BY <1>1, <1>2, <1>4, <1>5, <1>6 DEF TraceInv, Exporting, Sound, Accepted, AllEqual, Below

(* Steps that read nothing of the trace and do not go on to where it is.    *)
LEMMA ElsewhereKeepsTrace ==
  ASSUME TraceInv, VerdictInv', UNCHANGED <<bundle, walk, before, exports>>, Sound' => Sound,
         pc' = pc \/ pc' \notin Exporting \cup {"output"}
  PROVE  TraceInv'
BY DEF TraceInv, Walked, Digested, Exported, Exporting, AllEqual, Below

LEMMA ReadMemberKeepsTrace ==
  ASSUME TraceInv, VerdictInv', ReadMember
  PROVE  TraceInv'
<1> USE DEF world, trace, inputs, build, observed, verdict
<1>1. PICK m \in Unread : walk' = [n \in DOMAIN walk \cup {m} |-> IF n = m THEN bundle[m] ELSE walk[n]]
  BY DEF ReadMember, Put
<1>2. DOMAIN walk' = DOMAIN walk \cup {m} /\ walk'[m] = bundle[m] /\ m \in Members /\ m \notin DOMAIN walk
  BY <1>1 DEF Unread
<1>3. \A n \in DOMAIN walk : walk'[n] = walk[n]
  BY <1>1, <1>2
<1>4. UNCHANGED <<bundle, pc, before, exports, refusal, result, file>>
  BY DEF ReadMember
<1>5. Walked'
  BY <1>1, <1>2, <1>3, <1>4 DEF TraceInv, Walked, Versions
<1> HIDE DEF trace, observed, verdict
<1>below. ASSUME NEW low, Below(low, walk), Below(low, bundle)
      PROVE  Below(low, walk')
  <2> SUFFICES ASSUME NEW n \in Members, n \in DOMAIN walk' PROVE low[n] <= walk'[n]
    BY DEF Below
  <2>1. CASE n = m
    BY <1>2, <1>below, <2>1 DEF Below, TraceInv, Versions
  <2>2. CASE n # m
    BY <1>2, <1>3, <1>below, <2>2 DEF Below
  <2> QED
    BY <2>1, <2>2
<1>6. pc \in Exporting => Below(before, walk)'
  BY <1>below, <1>4 DEF TraceInv, Digested
<1>7. pc = "after" => \A e \in DOMAIN exports : Below(exports[e], walk)'
  BY <1>below, <1>4 DEF TraceInv, Exported
<1>8. pc # "output"
  BY DEF ReadMember
<1>9. pc \in Exporting \cup {"output"} => Digested'
  BY <1>4 DEF TraceInv, Digested, Below
<1>10. pc \in {"tables", "after"} => Exported'
  BY <1>4 DEF TraceInv, Exported, Below
<1> QED
  BY <1>4, <1>5, <1>6, <1>7, <1>8, <1>9, <1>10 DEF TraceInv, Sound, Accepted, AllEqual

LEMMA DigestBeforeKeepsTrace ==
  ASSUME TraceInv, VerdictInv', DigestBefore
  PROVE  TraceInv'
<1> USE DEF world, inputs, build, trace, verdict
<1>1. walk \in Versions /\ Below(walk, bundle)
  BY WholeWalk DEF DigestBefore, TraceInv
<1>2. UNCHANGED <<bundle, exports, refusal, result, file>> /\ before' = walk /\ walk' = Nothing
      /\ pc = "before" /\ pc' = "output"
  BY DEF DigestBefore
<1>3. Walked'
  BY <1>2, NothingRead DEF Walked
<1>4. ~Sound'
  BY <1>2 DEF Sound, Accepted, TraceInv, VerdictInv, Concluding
<1> QED
  BY <1>1, <1>2, <1>3, <1>4 DEF TraceInv, Exporting, Digested, Below

LEMMA ExportKeepsTrace ==
  ASSUME TraceInv, VerdictInv', ExportContents \/ ExportTable
  PROVE  TraceInv'
<1> USE DEF world, inputs, build, trace, verdict, Refuse
<1>1. walk \in Versions /\ Below(walk, bundle) /\ Below(before, walk)
  BY WholeWalk DEF ExportContents, ExportTable, TraceInv, Exporting
<1>2. UNCHANGED <<bundle, before, result, file>> /\ walk' = Nothing
  BY DEF ExportContents, ExportTable
<1>3. Walked' /\ Digested' /\ bundle' \in Versions
  BY <1>2, NothingRead DEF Walked, TraceInv, Digested, Below, Exporting, ExportContents, ExportTable
<1>4. \A low : Below(low, Nothing)
  BY NothingRead DEF Below
<1>5. ~Sound'
  BY <1>2 DEF Sound, Accepted, TraceInv, VerdictInv, Concluding, ExportContents, ExportTable
<1>6. CASE ExportContents
  <2>1. exports' = <<walk>> /\ pc' \in {"tables", "finish"}
    BY <1>6 DEF ExportContents
  <2>2. exports' \in Seq(Versions) /\ Len(exports') = 1 /\ DOMAIN exports' = {1} /\ exports'[1] = walk
    BY <1>1, <2>1
  <2>3. Exported'
    BY <1>1, <1>2, <2>2 DEF Exported
  <2> QED
    BY <1>2, <1>3, <1>4, <1>5, <2>1, <2>2, <2>3, CaptureAssumption DEF TraceInv, Exporting
<1>7. CASE ExportTable
  <2>1. /\ exports' = Append(exports, walk) /\ pc = "tables"
        /\ pc' = IF Len(exports) = Tables THEN "after" ELSE "tables"
    BY <1>7 DEF ExportTable
  <2>2. exports \in Seq(Versions) /\ Len(exports) \in 1..Tables /\ Exported
    BY <2>1 DEF TraceInv, Exported
  <2>3. /\ exports' \in Seq(Versions) /\ Len(exports') = Len(exports) + 1
        /\ DOMAIN exports' = 1..(Len(exports) + 1) /\ DOMAIN exports = 1..Len(exports)
        /\ exports'[Len(exports) + 1] = walk
        /\ \A e \in DOMAIN exports : exports'[e] = exports[e]
    BY <1>1, <2>1, <2>2
  <2>4. \A e \in DOMAIN exports' : e \in DOMAIN exports \/ e = Len(exports) + 1
    BY <2>2, <2>3
  <2>5. Exported'
    BY <1>1, <1>2, <2>2, <2>3, <2>4 DEF Exported
  <2>more. \A n \in 1..Tables : n # Tables => n + 1 \in 1..Tables
    BY CaptureAssumption
  <2>6. pc' = "tables" => Len(exports') \in 1..Tables
    BY <2>1, <2>2, <2>3, <2>more
  <2>last. pc' = "after" => Len(exports) = Tables
    BY <2>1
  <2>sum. Tables + 1 = 1 + Tables
    BY CaptureAssumption
  <2>7. pc' = "after" => Len(exports') = 1 + Tables
    BY <2>last, <2>3, <2>sum
  <2>8. pc' \in {"tables", "after"}
    BY <2>1
  <2> QED
    BY <1>2, <1>3, <1>4, <1>5, <2>5, <2>6, <2>7, <2>8 DEF TraceInv, Exporting
<1> QED
  BY <1>6, <1>7

LEMMA DigestAfterKeepsTrace ==
  ASSUME TraceInv, VerdictInv', DigestAfter
  PROVE  TraceInv'
<1> USE DEF world, inputs, build, trace, observed, verdict, Refuse
<1>1. walk \in Versions
  BY WholeWalk DEF DigestAfter, TraceInv
<1>2. UNCHANGED <<bundle, before, exports, result, file>> /\ walk' = Nothing /\ pc = "after"
  BY DEF DigestAfter
<1>3. Walked'
  BY <1>2, NothingRead DEF Walked
<1>4. ASSUME walk = before
      PROVE  AllEqual
  <2>1. /\ exports \in Seq(Versions) /\ before \in Versions /\ Len(exports) = 1 + Tables
        /\ \A e \in DOMAIN exports : Below(before, exports[e]) /\ Below(exports[e], before)
    BY <1>2, <1>4 DEF TraceInv, Exported, Exporting, Digested
  <2>2. \A e \in DOMAIN exports : exports[e] \in Versions
    BY <2>1
  <2>3. \A e \in DOMAIN exports : exports[e] = before
    BY <2>1, <2>2, Squeezed
  <2> QED
    BY <2>1, <2>3 DEF AllEqual
<1>5. Sound' => walk = before
  BY <1>2 DEF DigestAfter, Sound, Accepted, TraceInv, VerdictInv, Concluding
<1>6. pc' \in {"again", "finish"}
  BY DEF DigestAfter
<1> QED
  BY <1>2, <1>3, <1>4, <1>5, <1>6 DEF TraceInv, Exporting, AllEqual

LEMMA NextTrace ==
  ASSUME TraceInv, [Next]_vars
  PROVE  TraceInv'
<1> USE DEF world, trace, links, inputs, build, observed, verdict, private, Refuse, Ended
<1> VerdictInv /\ VerdictInv'
  BY NextVerdict DEF TraceInv
<1>1. CASE Retarget \/ UpdateToolchain \/ Cancel \/ Killed \/ Problem
  BY <1>1, ElsewhereKeepsTrace
  DEF Retarget, UpdateToolchain, Cancel, Killed, Problem, Sound, Accepted, Exporting
<1>2. CASE MakeDirectory \/ RefuseCancelled \/ WritePlan \/ Classified \/ PreflightPasses \/ ObserveVersion
  BY <1>2, ElsewhereKeepsTrace
  DEF MakeDirectory, RefuseCancelled, WritePlan, Classified, PreflightPasses, ObserveVersion, Sound, Accepted,
      Exporting
<1>3. CASE ClassifyInput \/ ResolveAgain \/ HashInput \/ HashToolchain \/ Compile \/ VerifyToolchain \/ Record \/ Qualify
  BY <1>3, ElsewhereKeepsTrace
  DEF ClassifyInput, ResolveAgain, HashInput, HashToolchain, Compile, VerifyToolchain, Record, Qualify, Sound, Accepted,
      Exporting, VerdictInv, Concluding
<1>4. CASE ReadOutput
  <2>1. UNCHANGED <<bundle, walk, before, exports, result, file>> /\ pc = "output" /\ pc' \in {"toc", "finish"}
    BY <1>4 DEF ReadOutput
  <2>2. Walked' /\ Digested' /\ ~Sound'
    BY <1>4, <2>1 DEF ReadOutput, TraceInv, Walked, Digested, Below, Sound, Accepted, VerdictInv, Concluding
  <2>3. Below(before, walk)'
    BY <2>1, NothingRead DEF TraceInv, Below
  <2> QED
    BY <2>1, <2>2, <2>3 DEF TraceInv, Exporting
<1>5. CASE ReadOutputAgain \/ Accept
  BY <1>5, ElsewhereKeepsTrace DEF ReadOutputAgain, Accept, Sound, Accepted, Exporting, VerdictInv, Concluding
<1>6. CASE CreateResult \/ WriteResult \/ Return
  BY <1>6, ElsewhereKeepsTrace DEF CreateResult, WriteResult, Return, Verdict, Sound, Accepted, Exporting
<1>7. CASE UNCHANGED vars
  BY <1>7, ElsewhereKeepsTrace DEF vars, Sound, Accepted
<1> QED
  BY <1>1, <1>2, <1>3, <1>4, <1>5, <1>6, <1>7, WriteKeepsTrace, ReadMemberKeepsTrace, DigestBeforeKeepsTrace,
     ExportKeepsTrace, DigestAfterKeepsTrace
  DEF Next

(* The tables of accepted evidence were all exported from the very trace    *)
(* whose digest is recorded, whoever writes to it and whenever              *)
(* (captureSupervised).                                                     *)
THEOREM TablesOfOneTrace == Spec => []OneTrace
<1>1. TraceInv /\ [Next]_vars => TraceInv'
  BY NextTrace
<1>2. TraceInv => OneTrace
  BY DEF TraceInv, OneTrace, Sound, AllEqual
<1> QED
  BY <1>1, <1>2, InitTrace, PTL DEF Spec
=============================================================================
