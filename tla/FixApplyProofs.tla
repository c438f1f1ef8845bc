--------------------------- MODULE FixApplyProofs ---------------------------
(***************************************************************************)
(* Proofs about FixApply, for all findings and files. Its type invariant,  *)
(* and that the accepted edits of a file never overlap, rest on one        *)
(* invariant: every queued fix is usable and lies in the file being        *)
(* resolved (IInv). The ledger of verdicts given so far (Ledger) ends in   *)
(* what the counters say; the order of the queue (Priority) says which     *)
(* fix wins; what the clean-up starts from (Grounds) gives the promises    *)
(* about imports; and that a maximal set of the judged fixes is what is    *)
(* spliced (Promise) gives the refinement of AtomicFix, once splicing from *)
(* the back is shown to be merging from the front (SpliceIsMerge).         *)
(***************************************************************************)
EXTENDS FixApply, FiniteSetTheorems, SequenceTheorems, TLAPS

(* A fix of f is one of the reported findings, and its edits are edits. *)
LEMMA FixesTyped ==
  ASSUME NEW fs \in Inputs, NEW f \in File
  PROVE  /\ FixesOf(fs, f) \in SUBSET (1..Len(fs))
         /\ \A i \in FixesOf(fs, f) : EditsIn(fs[i], f) \in Seq(TextEdit)
<1>1. fs \in Seq(Finding)
  BY InputsAreFindings
<1>2. FixesOf(fs, f) \in SUBSET (1..Len(fs))
  BY DEF FixesOf
<1>3. ASSUME NEW i \in FixesOf(fs, f)
      PROVE  EditsIn(fs[i], f) \in Seq(TextEdit)
  <2>1. i \in 1..Len(fs) /\ fs[i].autofix /\ fs[i].fixes # <<>>
    BY DEF FixesOf, UsesFix
  <2>2. fs[i] \in Finding
    BY <1>1, <2>1
  <2>3. fs[i].fixes \in Seq(Fix)
    BY <2>2 DEF Finding
  <2>4. Head(fs[i].fixes) \in Fix
    BY <2>1, <2>3
  <2>5. QED
    BY <2>4 DEF EditsIn, Fix
<1>4. QED
  BY <1>2, <1>3

(* Appending edits that overlap neither each other nor the accepted ones    *)
(* keeps the accepted edits disjoint: the accept branch of the greedy loop. *)
LEMMA AppendDisjoint ==
  ASSUME NEW a \in Seq(TextEdit), NEW es \in Seq(TextEdit),
         \A i, j \in DOMAIN a : i # j => ~Overlap(a[i], a[j]),
         ~SelfOverlaps(es), ~Conflicts(es, a)
  PROVE  \A i, j \in DOMAIN (a \o es) : i # j => ~Overlap((a \o es)[i], (a \o es)[j])
<1> DEFINE b == a \o es
<1>1. /\ b \in Seq(TextEdit) /\ Len(b) = Len(a) + Len(es)
      /\ \A i \in 1..Len(a) : b[i] = a[i]
      /\ \A i \in Len(a) + 1..Len(b) : b[i] = es[i - Len(a)] /\ i - Len(a) \in 1..Len(es)
  BY ConcatProperties
<1>2. \A e, g \in TextEdit : Overlap(e, g) <=> Overlap(g, e)
  BY DEF Overlap
<1>3. /\ Len(a) \in Nat /\ Len(es) \in Nat
      /\ DOMAIN a = 1..Len(a) /\ DOMAIN es = 1..Len(es) /\ DOMAIN b = 1..Len(b)
      /\ \A i \in 1..Len(a) : a[i] \in TextEdit
      /\ \A i \in 1..Len(es) : es[i] \in TextEdit
  BY <1>1
<1>4. \A i \in 1..Len(a), j \in 1..Len(a) : i # j => ~Overlap(a[i], a[j])
  BY <1>3
<1>5. \A i \in 1..Len(es), j \in 1..Len(a) : ~Overlap(es[i], a[j])
  BY <1>3 DEF Conflicts
<1>6. \A i, j \in 1..Len(es) : i # j => ~Overlap(es[i], es[j])
  BY <1>2, <1>3 DEF SelfOverlaps
<1>7. ASSUME NEW i \in 1..Len(b), NEW j \in 1..Len(b), i # j
      PROVE  ~Overlap(b[i], b[j])
  <2>1. i \in Int /\ j \in Int /\ i >= 1 /\ j >= 1 /\ i <= Len(b) /\ j <= Len(b)
    BY <1>1, <1>3
  <2>2. CASE i <= Len(a) /\ j <= Len(a)
    <3>1. i \in 1..Len(a) /\ j \in 1..Len(a)
      BY <1>3, <2>1, <2>2
    <3>2. b[i] = a[i] /\ b[j] = a[j]
      BY <1>1, <3>1
    <3>3. QED
      BY <1>4, <1>7, <3>1, <3>2, Zenon
  <2>3. CASE i > Len(a) /\ j > Len(a)
    <3>1. i - Len(a) # j - Len(a) /\ i \in Len(a) + 1..Len(b) /\ j \in Len(a) + 1..Len(b)
      BY <1>1, <1>3, <1>7, <2>1, <2>3
    <3>2. b[i] = es[i - Len(a)] /\ b[j] = es[j - Len(a)]
          /\ i - Len(a) \in 1..Len(es) /\ j - Len(a) \in 1..Len(es)
      BY <1>1, <3>1
    <3>3. QED
      BY <1>6, <3>1, <3>2, Zenon
  <2>4. CASE i > Len(a) /\ j <= Len(a)
    BY <1>1, <1>3, <1>5, <2>1, <2>4
  <2>5. CASE i <= Len(a) /\ j > Len(a)
    BY <1>1, <1>2, <1>3, <1>5, <2>1, <2>5
  <2>6. QED
    BY <1>3, <2>1, <2>2, <2>3, <2>4, <2>5
<1>8. QED
  BY <1>3, <1>7

-----------------------------------------------------------------------------
(* Every queued fix is one of the usable fixes of the file being resolved.  *)
QueueFits ==
  /\ \A f \in File : perFile[f] \subseteq FixesOf(findings, f)
  /\ cur = NoFile => queue = <<>>
  /\ \A k \in DOMAIN queue : queue[k] \in FixesOf(findings, cur)

(* The inductive invariant: the acceptance test compares edits, so disjoint *)
(* edits stay disjoint only if what is queued are fixes made of edits.      *)
IInv == TypeOK /\ QueueFits /\ AcceptedDisjoint

LEMMA InitIInv == Init => IInv
<1> SUFFICES ASSUME Init PROVE IInv
  OBVIOUS
<1>1. TypeOK
  BY KindsAreKinds DEF Init, TypeOK
<1>2. QueueFits /\ AcceptedDisjoint
  BY DEF Init, QueueFits, AcceptedDisjoint
<1>3. QED
  BY <1>1, <1>2 DEF IInv

(* The fix at the head of the queue is made of edits of the current file. *)
LEMMA HeadTyped ==
  ASSUME IInv, Advance
  PROVE  /\ cur \in File
         /\ NextFix \in FixesOf(findings, cur)
         /\ NextEdits \in Seq(TextEdit)
         /\ Tail(queue) \in Seq(1..Len(findings))
         /\ \A k \in DOMAIN Tail(queue) : Tail(queue)[k] \in FixesOf(findings, cur)
<1>1. cur \in File /\ findings \in Inputs /\ queue \in Seq(1..Len(findings)) /\ queue # <<>>
  BY DEF IInv, TypeOK, Advance
<1>2. NextFix \in FixesOf(findings, cur)
  BY <1>1 DEF IInv, QueueFits, NextFix
<1>3. NextEdits \in Seq(TextEdit)
  BY <1>1, <1>2, FixesTyped DEF NextEdits, Edits
<1>4. /\ Tail(queue) \in Seq(1..Len(findings))
      /\ \A k \in 1..Len(Tail(queue)) : Tail(queue)[k] = queue[k + 1] /\ k + 1 \in DOMAIN queue
  BY <1>1
<1>5. \A k \in DOMAIN Tail(queue) : Tail(queue)[k] \in FixesOf(findings, cur)
  BY <1>4 DEF IInv, QueueFits
<1>6. QED
  BY <1>1, <1>2, <1>3, <1>4, <1>5

(* The counters stay naturals: a file has finitely many fixes.              *)
LEMMA CountTyped ==
  ASSUME NEW n \in Nat, NEW c \in {"applied", "overlapping", "failed"}, IInv, Count(c, n)
  PROVE  count' \in [applied : Nat, overlapping : Nat, failed : Nat]
BY DEF Count, IInv, TypeOK

LEMMA FixesFinite ==
  ASSUME NEW n \in Nat, NEW S \in SUBSET (1..n)
  PROVE  Cardinality(S) \in Nat
<1>1. IsFiniteSet(1..n)
  BY FS_Interval
<1>2. IsFiniteSet(S)
  BY <1>1, FS_Subset
<1>3. QED
  BY <1>2, FS_CardinalityType

(* Every step keeps the invariant: one step per action. *)
LEMMA NextIInv == IInv /\ [Next]_vars => IInv'
<1> SUFFICES ASSUME IInv, [Next]_vars PROVE IInv'
  OBVIOUS
<1> USE DEF input
<1>0. /\ findings \in Inputs /\ Len(findings) \in Nat
      /\ findings \in Seq(Finding)
  BY InputsAreFindings DEF IInv, TypeOK
<1>1. CASE Group
  <2>1. TypeOK'
    <3>1. \A f \in File : FixesOf(findings, f) \in SUBSET (1..Len(findings))
      BY <1>0, FixesTyped
    <3> DEFINE Lost == {i \in DOMAIN findings : UsesFix(findings[i]) /\ ~Resolvable(findings[i])}
    <3>2. Cardinality(Lost) \in Nat
      <4>1. Lost \in SUBSET (1..Len(findings))
        BY <1>0
      <4>2. QED
        BY <1>0, <4>1, FixesFinite
    <3>3. count' \in [applied : Nat, overlapping : Nat, failed : Nat]
      BY <1>1, <3>2, CountTyped DEF Group
    <3>4. QED
      BY <1>1, <3>1, <3>3 DEF Group, IInv, TypeOK
  <2>2. QueueFits' /\ AcceptedDisjoint'
    BY <1>1 DEF Group, IInv, QueueFits, AcceptedDisjoint
  <2>3. QED
    BY <2>1, <2>2 DEF IInv
<1>2. ASSUME NEW f \in File, RejectFile(f) PROVE IInv'
  <2>1. Cardinality(perFile[f]) \in Nat
    BY <1>0, FixesFinite DEF IInv, TypeOK
  <2>2. count' \in [applied : Nat, overlapping : Nat, failed : Nat]
    BY <1>2, <2>1, CountTyped DEF RejectFile
  <2>3. QED
    BY <1>2, <2>2 DEF RejectFile, IInv, TypeOK, QueueFits, AcceptedDisjoint
<1>3. ASSUME NEW f \in File, OpenFile(f) PROVE IInv'
  <2> DEFINE n == Cardinality(perFile[f])
  <2>1. queue' \in [1..n -> perFile[f]]
    BY <1>3 DEF OpenFile
  <2>2. n \in Nat /\ perFile[f] \subseteq 1..Len(findings) /\ perFile[f] \subseteq FixesOf(findings, f)
    BY <1>0, FixesFinite DEF IInv, TypeOK, QueueFits
  <2> HIDE DEF n
  <2>3. queue' \in Seq(1..Len(findings)) /\ \A k \in DOMAIN queue' : queue'[k] \in FixesOf(findings, f)
    BY <2>1, <2>2
  <2>4. TypeOK'
    BY <1>3, <2>3 DEF OpenFile, IInv, TypeOK
  <2>5. QueueFits'
    BY <1>3, <2>3, KindsAreKinds DEF OpenFile, IInv, QueueFits
  <2>6. AcceptedDisjoint'
    BY <1>3 DEF OpenFile, AcceptedDisjoint
  <2>7. QED
    BY <2>4, <2>5, <2>6 DEF IInv
<1>4. ASSUME RejectMalformed \/ SkipOverlapping PROVE IInv'
  <2>1. Advance /\ UNCHANGED accepted
        /\ count' \in [applied : Nat, overlapping : Nat, failed : Nat]
    BY <1>4, CountTyped DEF RejectMalformed, SkipOverlapping
  <2>2. QED
    BY <2>1, HeadTyped DEF Advance, IInv, TypeOK, QueueFits, AcceptedDisjoint
<1>5. CASE AcceptFix
  <2>1. Advance /\ count' \in [applied : Nat, overlapping : Nat, failed : Nat]
    BY <1>5, CountTyped DEF AcceptFix
  <2>2. accepted' = accepted \o NextEdits /\ NextEdits \in Seq(TextEdit)
        /\ accepted \in Seq(TextEdit)
    BY <1>5, <2>1, HeadTyped DEF AcceptFix, IInv, TypeOK
  <2>3. TypeOK'
    BY <2>1, <2>2, HeadTyped DEF Advance, IInv, TypeOK
  <2>4. QueueFits'
    BY <2>1, HeadTyped DEF Advance, IInv, TypeOK, QueueFits
  <2>5. AcceptedDisjoint'
    BY <1>5, <2>2, AppendDisjoint DEF AcceptFix, IInv, AcceptedDisjoint
  <2>6. QED
    BY <2>3, <2>4, <2>5 DEF IInv
<1>6. ASSUME CloseUntouched \/ ClosePatched PROVE IInv'
  <2>1. CloseFile /\ cur \in File
    BY <1>6 DEF CloseUntouched, ClosePatched, CloseFile, IInv, TypeOK
  <2>2. DOMAIN files' \subseteq File
    <3>1. CASE CloseUntouched
      BY <3>1 DEF CloseUntouched, IInv, TypeOK
    <3>2. CASE ClosePatched
      BY <2>1, <3>2 DEF ClosePatched, IInv, TypeOK
    <3>3. QED
      BY <1>6, <3>1, <3>2
  <2>3. TypeOK'
    BY <2>1, <2>2 DEF CloseFile, IInv, TypeOK
  <2>4. QueueFits' /\ AcceptedDisjoint'
    BY <2>1 DEF CloseFile, IInv, QueueFits, AcceptedDisjoint
  <2>5. QED
    BY <2>3, <2>4 DEF IInv
<1>7. CASE StartWriting \/ ShowDiff
  BY <1>7 DEF StartWriting, ShowDiff, Patched, IInv, TypeOK, QueueFits, AcceptedDisjoint
<1>8. ASSUME NEW f \in File, WriteFile(f) PROVE IInv'
  BY <1>8 DEF WriteFile, IInv, TypeOK, QueueFits, AcceptedDisjoint
<1>9. ASSUME NEW f \in File, WriteFails(f) PROVE IInv'
  <2>1. count' \in [applied : Nat, overlapping : Nat, failed : Nat]
    BY <1>9, CountTyped DEF WriteFails
  <2>2. QED
    BY <1>9, <2>1 DEF WriteFails, IInv, TypeOK, QueueFits, AcceptedDisjoint
<1>10. CASE Finish \/ Return \/ UNCHANGED vars
  BY <1>10 DEF Finish, Return, vars, IInv, TypeOK, QueueFits, AcceptedDisjoint
<1>11. QED
  BY <1>1, <1>2, <1>3, <1>4, <1>5, <1>6, <1>7, <1>8, <1>9, <1>10 DEF Next

(* perfscan's fix state keeps its types whatever is reported. *)
THEOREM TypeCorrect == Spec => []TypeOK
<1>1. IInv => TypeOK
  BY DEF IInv
<1>2. QED
  BY InitIInv, NextIInv, <1>1, PTL DEF Spec

(* For any findings and files, accepted edits of a file never overlap. *)
THEOREM AcceptedNeverOverlap == Spec => []AcceptedDisjoint
<1>1. IInv => AcceptedDisjoint
  BY DEF IInv
<1>2. QED
  BY InitIInv, NextIInv, <1>1, PTL DEF Spec

-----------------------------------------------------------------------------
(* The counters. A verdict is given once, so the fixes that have one are    *)
(* counted by adding up; which have one is told by the queue and todo.      *)
Lost == {i \in DOMAIN findings : UsesFix(findings[i]) /\ ~Resolvable(findings[i])}
Queued == {queue[k] : k \in DOMAIN queue}
JudgedIn(f) ==
  IF f = cur THEN FixesOf(findings, f) \ Queued
  ELSE IF f \in todo THEN {} ELSE FixesOf(findings, f)

(* Nothing is judged or counted before the fixes are grouped.               *)
Fresh ==
  pc = "group" =>
    /\ cur = NoFile /\ DOMAIN verdict = {}
    /\ count.applied = 0 /\ count.overlapping = 0 /\ count.failed = 0

(* A file is one of those left until it is closed, and no fix waits twice.  *)
InTurn ==
  pc = "patch" =>
    /\ \A f \in File : perFile[f] = FixesOf(findings, f)
    /\ cur # NoFile => cur \in todo
    /\ \A k, l \in DOMAIN queue : k # l => queue[k] # queue[l]

(* The fixes judged so far are those out of the queue in the current file,  *)
(* and all of the files that are done.                                      *)
VerdictsSoFar ==
  pc = "patch" =>
    \A x : x \in DOMAIN verdict <=> \E f \in File : \E i \in JudgedIn(f) : x = <<i, f>>

Tallied ==
  /\ IsFiniteSet(DOMAIN verdict)
  /\ count.applied = Judged("applied")
  /\ count.overlapping = Judged("overlapping")
  /\ count.failed = Judged("failed") + Cardinality(Lost)
TalliedSoFar == pc = "patch" => Tallied

Writing == pc = "write" => fixMode /\ todo \subseteq DOMAIN files

Ledger == Fresh /\ InTurn /\ VerdictsSoFar /\ TalliedSoFar /\ Writing /\ CountersAccount

(* A batch of verdicts, on fixes that have none, adds to one count.         *)
LEMMA JudgeTally ==
  ASSUME IsFiniteSet(DOMAIN verdict), NEW F, IsFiniteSet(F), NEW f, NEW v, Judge(F, f, v),
         (F \X {f}) \cap DOMAIN verdict = {}
  PROVE  /\ DOMAIN verdict' = DOMAIN verdict \cup (F \X {f})
         /\ IsFiniteSet(DOMAIN verdict')
         /\ Judged(v)' = Judged(v) + Cardinality(F)
         /\ \A w : w # v => Judged(w)' = Judged(w)
<1> DEFINE News == F \X {f}
           With(w) == {x \in DOMAIN verdict : verdict[x] = w}
<1>1. /\ verdict' = [x \in News \cup DOMAIN verdict |-> IF x \in News THEN v ELSE verdict[x]]
      /\ News \cap DOMAIN verdict = {}
  BY DEF Judge
<1>2. IsFiniteSet(News) /\ Cardinality(News) = Cardinality(F)
  <2>1. IsFiniteSet({f}) /\ Cardinality({f}) = 1
    BY FS_Singleton
  <2>2. IsFiniteSet(News) /\ Cardinality(News) = Cardinality(F) * 1
    BY <2>1, FS_Product
  <2>3. Cardinality(F) \in Nat
    BY FS_CardinalityType
  <2>4. QED
    BY <2>2, <2>3
<1>3. \A w : IsFiniteSet(With(w))
  BY FS_Subset
<1> HIDE DEF News
<1>4. DOMAIN verdict' = DOMAIN verdict \cup News
  BY <1>1
<1>5. IsFiniteSet(DOMAIN verdict')
  BY <1>2, <1>4, FS_Union
<1>6. {x \in DOMAIN verdict' : verdict'[x] = v} = With(v) \cup News
  BY <1>1
<1>7. \A w : w # v => {x \in DOMAIN verdict' : verdict'[x] = w} = With(w)
  BY <1>1
<1>8. With(v) \cap News = {}
  BY <1>1
<1>9. Cardinality(With(v) \cup News) = Cardinality(With(v)) + Cardinality(News)
  <2>1. Cardinality(With(v) \cup News)
          = Cardinality(With(v)) + Cardinality(News) - Cardinality(With(v) \cap News)
    <3>1. IsFiniteSet(With(v)) /\ IsFiniteSet(News)
      BY <1>2, <1>3
    <3> HIDE DEF With
    <3>2. QED
      BY <3>1, FS_Union, Zenon
  <2>2. Cardinality(With(v) \cap News) = 0
    BY <1>8, FS_EmptySet
  <2>3. Cardinality(With(v)) \in Nat /\ Cardinality(News) \in Nat
    BY <1>2, <1>3, FS_CardinalityType
  <2>4. QED
    BY <2>1, <2>2, <2>3
<1>10. QED
  BY <1>2, <1>4, <1>5, <1>6, <1>7, <1>9 DEF Judged, News

LEMMA CountedOne ==
  ASSUME IInv, NEW n \in Nat, NEW c \in {"applied", "overlapping", "failed"}, Count(c, n)
  PROVE  /\ count.applied \in Nat /\ count.overlapping \in Nat /\ count.failed \in Nat
         /\ count'.applied = count.applied + (IF c = "applied" THEN n ELSE 0)
         /\ count'.overlapping = count.overlapping + (IF c = "overlapping" THEN n ELSE 0)
         /\ count'.failed = count.failed + (IF c = "failed" THEN n ELSE 0)
BY DEF Count, IInv, TypeOK

LEMMA JudgedNat == ASSUME IsFiniteSet(DOMAIN verdict), NEW v PROVE Judged(v) \in Nat
<1>1. IsFiniteSet({x \in DOMAIN verdict : verdict[x] = v})
  BY FS_Subset
<1>2. QED
  BY <1>1, FS_CardinalityType DEF Judged

(* Counter and verdicts grow by the same fixes.                             *)
LEMMA TallyKept ==
  ASSUME IInv, Tallied, NEW F, IsFiniteSet(F), NEW f,
         NEW v \in {"applied", "overlapping", "failed"},
         Judge(F, f, v), Count(v, Cardinality(F)), UNCHANGED findings,
         (F \X {f}) \cap DOMAIN verdict = {}
  PROVE  Tallied' /\ DOMAIN verdict' = DOMAIN verdict \cup (F \X {f})
<1>0. IsFiniteSet(DOMAIN verdict)
  BY DEF Tallied
<1>1. /\ DOMAIN verdict' = DOMAIN verdict \cup (F \X {f})
      /\ IsFiniteSet(DOMAIN verdict')
      /\ Judged(v)' = Judged(v) + Cardinality(F)
      /\ \A w : w # v => Judged(w)' = Judged(w)
  BY <1>0, JudgeTally, Zenon
<1>2. Cardinality(F) \in Nat
  BY FS_CardinalityType
<1>3. /\ count.applied \in Nat /\ count.overlapping \in Nat /\ count.failed \in Nat
      /\ count'.applied = count.applied + (IF v = "applied" THEN Cardinality(F) ELSE 0)
      /\ count'.overlapping = count.overlapping + (IF v = "overlapping" THEN Cardinality(F) ELSE 0)
      /\ count'.failed = count.failed + (IF v = "failed" THEN Cardinality(F) ELSE 0)
  BY <1>2, CountedOne
<1>4. Lost' = Lost /\ Cardinality(Lost) \in Nat
  <2>1. findings \in Seq(Finding)
    BY InputsAreFindings DEF IInv, TypeOK
  <2>2. Lost \in SUBSET (1..Len(findings)) /\ Len(findings) \in Nat
    BY <2>1 DEF Lost
  <2>3. QED
    BY <2>2, FixesFinite DEF Lost
<1>5. Judged("applied") \in Nat /\ Judged("overlapping") \in Nat /\ Judged("failed") \in Nat
  BY JudgedNat DEF Tallied
<1>6. count'.applied = Judged("applied")'
  BY <1>1, <1>2, <1>3, <1>5 DEF Tallied
<1>7. count'.overlapping = Judged("overlapping")'
  BY <1>1, <1>2, <1>3, <1>5 DEF Tallied
<1>8. count'.failed = Judged("failed")' + Cardinality(Lost)
  BY <1>1, <1>2, <1>3, <1>4, <1>5 DEF Tallied
<1>9. QED
  BY <1>1, <1>4, <1>6, <1>7, <1>8 DEF Tallied

-----------------------------------------------------------------------------
(* While the files are patched, the ledger is what is due then.             *)
LEMMA PatchLedger ==
  ASSUME pc' = "patch", InTurn', VerdictsSoFar', Tallied'
  PROVE  Ledger'
BY DEF Ledger, Fresh, TalliedSoFar, Writing, CountersAccount

LEMMA GroupLedger == ASSUME IInv, Ledger, Group PROVE Ledger'
<1>1. /\ pc = "group" /\ pc' = "patch" /\ cur = NoFile /\ queue = <<>> /\ DOMAIN verdict = {}
      /\ count.applied = 0 /\ count.overlapping = 0 /\ count.failed = 0
      /\ UNCHANGED <<findings, cur, queue, verdict>>
  BY DEF Group, Ledger, Fresh, IInv, QueueFits, input
<1>2. InTurn'
  BY <1>1 DEF Group, InTurn
<1>3. \A f \in File : JudgedIn(f)' = {}
  <2>1. NoFile \notin File
    BY KindsAreKinds
  <2>2. QED
    BY <1>1, <2>1 DEF Group, JudgedIn
<1>4. VerdictsSoFar'
  BY <1>1, <1>3 DEF VerdictsSoFar
<1>5. Tallied'
  <2>1. Lost' = Lost /\ Cardinality(Lost) \in Nat
    <3>1. findings \in Seq(Finding)
      BY InputsAreFindings DEF IInv, TypeOK
    <3>2. Lost \in SUBSET (1..Len(findings)) /\ Len(findings) \in Nat
      BY <3>1 DEF Lost
    <3>3. QED
      BY <1>1, <3>2, FixesFinite DEF Lost
  <2>2. \A v : Judged(v)' = 0
    <3>1. \A v : {x \in DOMAIN verdict' : verdict'[x] = v} = {}
      BY <1>1
    <3>2. QED
      BY <3>1, FS_EmptySet DEF Judged
  <2>3. Count("failed", Cardinality(Lost))
    BY DEF Group, Lost
  <2>4. /\ count'.applied = 0 /\ count'.overlapping = 0 /\ count'.failed = Cardinality(Lost)
    BY <1>1, <2>1, <2>3, CountedOne
  <2>5. IsFiniteSet(DOMAIN verdict')
    BY <1>1, FS_EmptySet
  <2>6. QED
    BY <2>1, <2>2, <2>4, <2>5 DEF Tallied
<1>6. QED
  BY <1>1, <1>2, <1>4, <1>5, PatchLedger DEF Ledger

LEMMA RejectLedger == ASSUME IInv, Ledger, NEW f \in File, RejectFile(f) PROVE Ledger'
<1>1. /\ pc = "patch" /\ pc' = "patch" /\ cur = NoFile /\ queue = <<>> /\ f \in todo
      /\ todo' = todo \ {f} /\ UNCHANGED <<findings, perFile, cur, queue>>
      /\ InTurn /\ VerdictsSoFar /\ Tallied
  BY DEF RejectFile, Ledger, TalliedSoFar, IInv, QueueFits, input
<1>2. perFile[f] = FixesOf(findings, f)
  BY <1>1 DEF InTurn
<1>3. IsFiniteSet(perFile[f])
  <2>1. findings \in Seq(Finding) /\ perFile[f] \in SUBSET (1..Len(findings))
    BY InputsAreFindings DEF IInv, TypeOK
  <2>2. IsFiniteSet(1..Len(findings))
    BY <2>1, FS_Interval
  <2>3. QED
    BY <2>1, <2>2, FS_Subset
<1>4. NoFile \notin File
  BY KindsAreKinds
<1>5. JudgedIn(f) = {} /\ JudgedIn(f)' = perFile[f]
  BY <1>1, <1>2, <1>4 DEF JudgedIn
<1>6. \A g \in File \ {f} : JudgedIn(g)' = JudgedIn(g)
  BY <1>1, <1>4 DEF JudgedIn
<1>7. (perFile[f] \X {f}) \cap DOMAIN verdict = {}
  BY <1>1, <1>5 DEF VerdictsSoFar
<1>8. Tallied' /\ DOMAIN verdict' = DOMAIN verdict \cup (perFile[f] \X {f})
  <2>1. Judge(perFile[f], f, "failed") /\ Count("failed", Cardinality(perFile[f]))
    BY DEF RejectFile
  <2>2. QED
    BY <1>1, <1>3, <1>7, <2>1, TallyKept
<1>9. InTurn'
  BY <1>1 DEF InTurn
<1>10. VerdictsSoFar'
  BY <1>1, <1>5, <1>6, <1>8 DEF VerdictsSoFar
<1>11. QED
  BY <1>1, <1>8, <1>9, <1>10, PatchLedger DEF Ledger

(* The queue of an opened file holds each of its fixes, once.               *)
LEMMA OpenLedger == ASSUME IInv, Ledger, NEW f \in File, OpenFile(f) PROVE Ledger'
<1>1. /\ pc = "patch" /\ pc' = "patch" /\ cur = NoFile /\ cur' = f /\ f \in todo
      /\ UNCHANGED <<findings, perFile, todo, count, verdict>>
      /\ InTurn /\ VerdictsSoFar /\ Tallied
  BY DEF OpenFile, Ledger, TalliedSoFar, input
<1>2. perFile[f] = FixesOf(findings, f)
  BY <1>1 DEF InTurn
<1> DEFINE n == Cardinality(perFile[f])
<1>3. IsFiniteSet(perFile[f]) /\ n \in Nat
  <2>1. findings \in Seq(Finding) /\ perFile[f] \in SUBSET (1..Len(findings))
    BY InputsAreFindings DEF IInv, TypeOK
  <2>2. IsFiniteSet(1..Len(findings))
    BY <2>1, FS_Interval
  <2>3. IsFiniteSet(perFile[f])
    BY <2>1, <2>2, FS_Subset
  <2>4. QED
    BY <2>3, FS_CardinalityType
<1>4. queue' \in [1..n -> perFile[f]] /\ InOrder(queue', perFile[f], f)
  BY DEF OpenFile
<1> HIDE DEF n
<1>5. queue' \in Surjection(1..n, perFile[f]) /\ perFile[f] = {queue'[k] : k \in DOMAIN queue'}
  BY <1>4 DEF Surjection, InOrder
<1>6. queue' \in Injection(1..n, perFile[f])
  <2>1. IsFiniteSet(1..n) /\ Cardinality(1..n) = n
    BY <1>3, FS_Interval
  <2>2. QED
    BY <1>3, <1>5, <2>1, FS_Surjection DEF n
<1>7. \A k, l \in DOMAIN queue' : k # l => queue'[k] # queue'[l]
  BY <1>6 DEF Injection, IsInjective
<1>8. InTurn'
  BY <1>1, <1>7 DEF InTurn
<1>9. NoFile \notin File
  BY KindsAreKinds
<1>10. JudgedIn(f) = {} /\ JudgedIn(f)' = {}
  BY <1>1, <1>2, <1>5, <1>9 DEF JudgedIn, Queued
<1>11. \A g \in File : JudgedIn(g)' = JudgedIn(g)
  BY <1>1, <1>9, <1>10 DEF JudgedIn
<1>12. VerdictsSoFar'
  BY <1>1, <1>11 DEF VerdictsSoFar
<1>13. Tallied'
  BY <1>1 DEF Tallied, Judged, Lost
<1>14. QED
  BY <1>1, <1>8, <1>12, <1>13, PatchLedger DEF Ledger

(* The loop leaves a queue without its head, which so far was not judged.   *)
LEMMA QueueShifts ==
  ASSUME IInv, InTurn, Advance
  PROVE  /\ NextFix = queue[1] /\ Len(queue) \in Nat \ {0}
         /\ DOMAIN queue = 1..Len(queue) /\ DOMAIN queue' = 1..Len(queue) - 1
         /\ \A k \in DOMAIN queue' : queue'[k] = queue[k + 1] /\ k + 1 \in DOMAIN queue
         /\ InTurn'
         /\ NextFix \notin JudgedIn(cur)
         /\ JudgedIn(cur)' = JudgedIn(cur) \cup {NextFix}
         /\ \A g \in File \ {cur} : JudgedIn(g)' = JudgedIn(g)
<1>1. /\ pc = "patch" /\ pc' = "patch" /\ cur \in File
      /\ UNCHANGED <<findings, perFile, todo, cur>> /\ InTurn
  BY DEF Advance, input, IInv, TypeOK
<1>2. NextFix \in FixesOf(findings, cur)
  BY HeadTyped
<1>3. /\ queue \in Seq(1..Len(findings)) /\ queue # <<>> /\ queue' = Tail(queue)
      /\ NextFix = queue[1]
  BY DEF Advance, IInv, TypeOK, NextFix
<1>4. /\ DOMAIN queue' = 1..Len(queue) - 1 /\ DOMAIN queue = 1..Len(queue) /\ Len(queue) \in Nat \ {0}
      /\ \A k \in DOMAIN queue' : queue'[k] = queue[k + 1] /\ k + 1 \in DOMAIN queue
  BY <1>3
<1>5. \A k, l \in DOMAIN queue : k # l => queue[k] # queue[l]
  BY <1>1 DEF InTurn
<1>6. \A k, l \in DOMAIN queue' : k # l => queue'[k] # queue'[l]
  <2>1. \A k, l \in DOMAIN queue' : k # l => k + 1 # l + 1
    BY <1>4
  <2>2. QED
    BY <1>4, <1>5, <2>1, Zenon
<1>7. NextFix \in Queued /\ NextFix \notin Queued'
  <2>1. \A k \in DOMAIN queue' : queue'[k] # queue[1]
    <3>1. \A k \in DOMAIN queue' : k + 1 # 1 /\ 1 \in DOMAIN queue
      BY <1>4
    <3>2. QED
      BY <1>4, <1>5, <3>1, Zenon
  <2>2. QED
    BY <1>3, <1>4, <2>1 DEF Queued
<1>8. Queued = Queued' \cup {NextFix}
  <2>1. Queued' \subseteq Queued
    BY <1>4 DEF Queued
  <2>2. ASSUME NEW k \in DOMAIN queue PROVE queue[k] \in Queued' \cup {NextFix}
    <3>1. CASE k = 1
      BY <1>3, <3>1
    <3>2. CASE k # 1
      <4>1. k - 1 \in DOMAIN queue' /\ (k - 1) + 1 = k
        BY <1>4, <3>2
      <4>2. queue'[k - 1] = queue[k]
        BY <1>4, <4>1
      <4>3. QED
        BY <4>1, <4>2 DEF Queued
    <3>3. QED
      BY <3>1, <3>2
  <2>3. QED
    BY <1>7, <2>1, <2>2 DEF Queued
<1>9. /\ NextFix \notin JudgedIn(cur)
      /\ JudgedIn(cur)' = JudgedIn(cur) \cup {NextFix}
  BY <1>1, <1>2, <1>7, <1>8 DEF JudgedIn
<1>10. \A g \in File \ {cur} : JudgedIn(g)' = JudgedIn(g)
  BY <1>1 DEF JudgedIn
<1>11. InTurn'
  BY <1>1, <1>6 DEF InTurn
<1>12. QED
  BY <1>3, <1>4, <1>9, <1>10, <1>11

(* The fix at the head of the queue gets its verdict.                       *)
LEMMA HeadLedger ==
  ASSUME IInv, Ledger, Advance, NEW v \in {"applied", "overlapping", "failed"},
         Judge({NextFix}, cur, v), Count(v, 1)
  PROVE  Ledger'
<1>1. /\ pc = "patch" /\ pc' = "patch" /\ cur \in File
      /\ UNCHANGED <<findings, perFile, todo, cur>>
      /\ InTurn /\ VerdictsSoFar /\ Tallied
  BY DEF Advance, Ledger, TalliedSoFar, input, IInv, TypeOK
<1>2. /\ InTurn'
      /\ NextFix \notin JudgedIn(cur)
      /\ JudgedIn(cur)' = JudgedIn(cur) \cup {NextFix}
      /\ \A g \in File \ {cur} : JudgedIn(g)' = JudgedIn(g)
  BY <1>1, QueueShifts
<1>3. ({NextFix} \X {cur}) \cap DOMAIN verdict = {}
  BY <1>1, <1>2 DEF VerdictsSoFar
<1>4. Tallied' /\ DOMAIN verdict' = DOMAIN verdict \cup ({NextFix} \X {cur})
  <2>1. IsFiniteSet({NextFix}) /\ Cardinality({NextFix}) = 1
    BY FS_Singleton
  <2>2. Count(v, Cardinality({NextFix}))
    BY <2>1
  <2>3. Tallied /\ UNCHANGED findings
    BY <1>1
  <2> DEFINE F == {NextFix}
             f == cur
  <2>4. /\ IInv /\ Tallied /\ findings' = findings
        /\ IsFiniteSet(F) /\ Judge(F, f, v) /\ Count(v, Cardinality(F))
        /\ (F \X {f}) \cap DOMAIN verdict = {}
    BY <1>3, <2>1, <2>2, <2>3
  <2>5. Tallied' /\ DOMAIN verdict' = DOMAIN verdict \cup (F \X {f})
    <3> HIDE DEF F, f
    <3> QED BY <2>4, TallyKept
  <2>6. QED
    BY <2>5
<1>5. VerdictsSoFar'
  <2>1. \A x : x \in {NextFix} \X {cur} <=> x = <<NextFix, cur>>
    OBVIOUS
  <2>2. QED
    BY <1>1, <1>2, <1>4, <2>1 DEF VerdictsSoFar
<1>6. QED
  BY <1>1, <1>2, <1>4, <1>5, PatchLedger DEF Ledger

LEMMA CloseLedger == ASSUME IInv, Ledger, CloseFile PROVE Ledger'
<1>1. /\ pc = "patch" /\ pc' = "patch" /\ cur # NoFile /\ cur' = NoFile /\ queue = <<>>
      /\ todo' = todo \ {cur} /\ UNCHANGED <<findings, perFile, queue, count, verdict>>
      /\ InTurn /\ VerdictsSoFar /\ Tallied
  BY DEF CloseFile, Ledger, TalliedSoFar, input
<1>2. \A g \in File : JudgedIn(g)' = JudgedIn(g)
  <2>1. NoFile \notin File /\ Queued = {}
    BY <1>1, KindsAreKinds DEF Queued
  <2>2. QED
    BY <1>1, <2>1 DEF JudgedIn
<1>3. InTurn' /\ VerdictsSoFar'
  BY <1>1, <1>2 DEF InTurn, VerdictsSoFar
<1>4. Tallied'
  BY <1>1 DEF Tallied, Judged, Lost
<1>5. QED
  BY <1>1, <1>3, <1>4, PatchLedger DEF Ledger

(* When no file is left, the ledger is what the counters are to account.    *)
LEMMA PatchedLedger == ASSUME IInv, Ledger, StartWriting \/ ShowDiff PROVE Ledger'
<1>1. /\ pc = "patch" /\ cur = NoFile /\ todo = {} /\ UNCHANGED <<findings, files, count, verdict>>
      /\ VerdictsSoFar /\ Tallied
  BY DEF StartWriting, ShowDiff, Patched, Ledger, TalliedSoFar, input
<1>2. (pc' = "write" /\ fixMode' /\ todo' = DOMAIN files') \/ pc' = "done"
  BY <1>1 DEF StartWriting, ShowDiff, Patched, input
<1>3. \A f \in File : JudgedIn(f) = FixesOf(findings, f)
  <2>1. NoFile \notin File
    BY KindsAreKinds
  <2>2. QED
    BY <1>1, <2>1 DEF JudgedIn
<1>4. DOMAIN verdict = UNION {FixesOf(findings, f) \X {f} : f \in File}
  BY <1>1, <1>3 DEF VerdictsSoFar
<1>5. CountersAccount'
  BY <1>1, <1>4 DEF CountersAccount, Tallied, Judged, Lost
<1>6. QED
  BY <1>2, <1>5 DEF Ledger, Fresh, InTurn, VerdictsSoFar, TalliedSoFar, Writing

LEMMA WriteLedger ==
  ASSUME IInv, Ledger, NEW f \in File, WriteFile(f) \/ WriteFails(f)
  PROVE  Ledger'
<1>1. /\ pc = "write" /\ pc' = "write" /\ f \in todo /\ todo' = todo \ {f}
      /\ UNCHANGED <<fixMode, files>> /\ fixMode /\ todo \subseteq DOMAIN files
  BY DEF WriteFile, WriteFails, input, Ledger, Writing
<1>2. QED
  BY <1>1 DEF Ledger, Fresh, InTurn, VerdictsSoFar, TalliedSoFar, Writing, CountersAccount

LEMMA NextLedger == IInv /\ Ledger /\ [Next]_vars => Ledger'
<1> SUFFICES ASSUME IInv, Ledger, [Next]_vars PROVE Ledger'
  OBVIOUS
<1>1. CASE Group
  BY <1>1, GroupLedger
<1>2. ASSUME NEW f \in File, RejectFile(f) PROVE Ledger'
  BY <1>2, RejectLedger
<1>3. ASSUME NEW f \in File, OpenFile(f) PROVE Ledger'
  BY <1>3, OpenLedger
<1>4. CASE RejectMalformed \/ SkipOverlapping \/ AcceptFix
  <2>1. Advance
    BY <1>4 DEF RejectMalformed, SkipOverlapping, AcceptFix
  <2>2. PICK v \in {"applied", "overlapping", "failed"} : Judge({NextFix}, cur, v) /\ Count(v, 1)
    BY <1>4 DEF RejectMalformed, SkipOverlapping, AcceptFix
  <2>3. QED
    BY <2>1, <2>2, HeadLedger
<1>5. CASE CloseUntouched \/ ClosePatched
  BY <1>5, CloseLedger DEF CloseUntouched, ClosePatched
<1>6. CASE StartWriting \/ ShowDiff
  BY <1>6, PatchedLedger
<1>7. ASSUME NEW f \in File, WriteFile(f) \/ WriteFails(f) PROVE Ledger'
  BY <1>7, WriteLedger
<1>8. CASE Finish
  BY <1>8 DEF Finish, input, Ledger, Fresh, InTurn, VerdictsSoFar, TalliedSoFar, Writing, CountersAccount
<1>9. CASE Return \/ UNCHANGED vars
  <2>1. UNCHANGED vars
    BY <1>9 DEF Return
  <2>2. UNCHANGED <<Lost, Queued>> /\ (\A f : JudgedIn(f)' = JudgedIn(f)) /\ \A v : Judged(v)' = Judged(v)
    BY <2>1 DEF vars, Lost, Queued, JudgedIn, Judged
  <2>3. Fresh' /\ InTurn' /\ Writing' /\ CountersAccount'
    BY <2>1, <2>2 DEF vars, Ledger, Fresh, InTurn, Writing, CountersAccount
  <2>4. VerdictsSoFar' /\ TalliedSoFar'
    BY <2>1, <2>2 DEF vars, Ledger, VerdictsSoFar, TalliedSoFar, Tallied
  <2>5. QED
    BY <2>3, <2>4 DEF Ledger
<1>10. QED
  BY <1>1, <1>2, <1>3, <1>4, <1>5, <1>6, <1>7, <1>8, <1>9 DEF Next

(* At the start no verdict has been given and no counter moved.             *)
LEMMA InitLedger == Init => Ledger
BY DEF Init, Ledger, Fresh, InTurn, VerdictsSoFar, TalliedSoFar, Writing, CountersAccount

(* For any findings, files and failures: once patchedFiles is done, every   *)
(* fix of every file has one verdict, and the counters -fix prints add up   *)
(* to the fixes and the findings that have no file (applyFixes, runner.go). *)
THEOREM CountersAlwaysAccount == Spec => []CountersAccount
<1>1. Ledger => CountersAccount
  BY DEF Ledger
<1>2. QED
  BY InitIInv, NextIInv, InitLedger, NextLedger, <1>1, PTL DEF Spec

-----------------------------------------------------------------------------
(* Priority. The queue is in order and whatever was judged before it in the *)
(* file precedes all of it, so that a fix meets only earlier ones; and an   *)
(* accepted edit is one of a fix that was applied.                          *)
Before(i, k) ==
  \/ FixMinStart(Edits(i, cur)) < FixMinStart(Edits(k, cur))
  \/ FixMinStart(Edits(i, cur)) = FixMinStart(Edits(k, cur)) /\ i < k

QueueInOrder ==
  pc = "patch" =>
    /\ \A k, l \in DOMAIN queue : k < l => Before(queue[k], queue[l])
    /\ \A i \in JudgedIn(cur), k \in DOMAIN queue : Before(i, queue[k])

OfApplied(e) ==
  \E i \in JudgedIn(cur) :
    /\ <<i, cur>> \in DOMAIN verdict /\ verdict[<<i, cur>>] = "applied"
    /\ \E m \in DOMAIN Edits(i, cur) : e = Edits(i, cur)[m]
AcceptedFromApplied ==
  /\ pc = "group" => accepted = <<>>
  /\ pc = "patch" => \A j \in DOMAIN accepted : OfApplied(accepted[j])

Priority == QueueInOrder /\ AcceptedFromApplied /\ OverlapLostToEarlier

(* Later verdicts, which are on other fixes, take nothing away.             *)
LEMMA LostStays ==
  ASSUME OverlapLostToEarlier, UNCHANGED findings,
         DOMAIN verdict \subseteq DOMAIN verdict',
         \A x \in DOMAIN verdict : verdict'[x] = verdict[x],
         \A x \in DOMAIN verdict' \ DOMAIN verdict : verdict'[x] # "overlapping"
  PROVE  OverlapLostToEarlier'
BY DEF OverlapLostToEarlier, Edits

LEMMA AppliedStays ==
  ASSUME UNCHANGED <<findings, cur>>, JudgedIn(cur) \subseteq JudgedIn(cur)',
         \A x \in DOMAIN verdict : x \in DOMAIN verdict' /\ verdict'[x] = verdict[x]
  PROVE  \A e : OfApplied(e) => OfApplied(e)'
BY DEF OfApplied, Edits

LEMMA OpenPriority == ASSUME IInv, Ledger, Priority, NEW f \in File, OpenFile(f) PROVE Priority'
<1>1. /\ pc = "patch" /\ cur = NoFile /\ cur' = f /\ f \in todo /\ accepted' = <<>>
      /\ UNCHANGED <<findings, perFile, todo, count, verdict>> /\ InTurn
  BY DEF OpenFile, Ledger, input
<1>2. perFile[f] = FixesOf(findings, f)
  BY <1>1 DEF InTurn
<1>3. InOrder(queue', perFile[f], f)
  BY DEF OpenFile
<1>4. JudgedIn(cur)' = {}
  BY <1>1, <1>2, <1>3 DEF JudgedIn, Queued, InOrder
<1>5. QueueInOrder'
  BY <1>1, <1>3, <1>4 DEF QueueInOrder, InOrder, Before, Edits
<1>6. AcceptedFromApplied'
  BY <1>1 DEF AcceptedFromApplied
<1>7. OverlapLostToEarlier'
  BY <1>1, LostStays DEF Priority
<1>8. QED
  BY <1>5, <1>6, <1>7 DEF Priority

(* What holds of every verdict on the head of the queue.                    *)
LEMMA HeadPriority ==
  ASSUME IInv, Ledger, Priority, Advance, NEW v, Judge({NextFix}, cur, v)
  PROVE  /\ QueueInOrder'
         /\ JudgedIn(cur)' = JudgedIn(cur) \cup {NextFix}
         /\ DOMAIN verdict' = DOMAIN verdict \cup {<<NextFix, cur>>}
         /\ <<NextFix, cur>> \notin DOMAIN verdict
         /\ verdict'[<<NextFix, cur>>] = v
         /\ \A x \in DOMAIN verdict : verdict'[x] = verdict[x]
         /\ \A i \in JudgedIn(cur) : Before(i, NextFix)
<1>1. /\ pc = "patch" /\ pc' = "patch" /\ cur \in File
      /\ UNCHANGED <<findings, perFile, todo, cur>> /\ InTurn /\ VerdictsSoFar
      /\ QueueInOrder
  BY DEF Advance, Ledger, input, IInv, TypeOK, Priority
<1>3. /\ NextFix = queue[1] /\ Len(queue) \in Nat \ {0}
      /\ DOMAIN queue = 1..Len(queue) /\ DOMAIN queue' = 1..Len(queue) - 1
      /\ \A k \in DOMAIN queue' : queue'[k] = queue[k + 1] /\ k + 1 \in DOMAIN queue
  BY <1>1, QueueShifts
<1>4. 1 \in DOMAIN queue /\ \A k \in DOMAIN queue' : 1 < k + 1
  BY <1>3
<1>5. JudgedIn(cur)' = JudgedIn(cur) \cup {NextFix} /\ NextFix \notin JudgedIn(cur)
  BY <1>1, QueueShifts
<1>6. \A i \in JudgedIn(cur) : Before(i, NextFix)
  BY <1>1, <1>3, <1>4 DEF QueueInOrder
<1>7. QueueInOrder'
  <2>1. \A i, k : Before(i, k)' <=> Before(i, k)
    BY <1>1 DEF Before, Edits
  <2>2. ASSUME NEW k \in DOMAIN queue', NEW l \in DOMAIN queue', k < l
        PROVE  Before(queue'[k], queue'[l])
    <3>1. k + 1 < l + 1
      BY <1>3, <2>2
    <3>2. QED
      BY <1>1, <1>3, <3>1 DEF QueueInOrder
  <2>3. ASSUME NEW k \in DOMAIN queue', NEW i \in JudgedIn(cur)'
        PROVE  Before(i, queue'[k])
    <3>1. CASE i = NextFix
      BY <1>1, <1>3, <1>4, <3>1 DEF QueueInOrder
    <3>2. CASE i \in JudgedIn(cur)
      BY <1>1, <1>3, <3>2 DEF QueueInOrder
    <3>3. QED
      BY <1>5, <3>1, <3>2
  <2>4. QED
    BY <2>1, <2>2, <2>3 DEF QueueInOrder
<1>8. <<NextFix, cur>> \notin DOMAIN verdict
  BY <1>1, <1>5 DEF VerdictsSoFar
<1>9. /\ DOMAIN verdict' = DOMAIN verdict \cup {<<NextFix, cur>>}
      /\ verdict'[<<NextFix, cur>>] = v
      /\ \A x \in DOMAIN verdict : verdict'[x] = verdict[x]
  <2>1. {NextFix} \X {cur} = {<<NextFix, cur>>}
    OBVIOUS
  <2>2. QED
    BY <1>8, <2>1 DEF Judge
<1>10. QED
  BY <1>5, <1>6, <1>7, <1>8, <1>9

LEMMA MalformedPriority == ASSUME IInv, Ledger, Priority, RejectMalformed PROVE Priority'
<1>1. Advance /\ Judge({NextFix}, cur, "failed") /\ accepted' = accepted /\ UNCHANGED <<findings, cur>>
  BY DEF RejectMalformed, Advance, input
<1>2. /\ QueueInOrder'
      /\ JudgedIn(cur)' = JudgedIn(cur) \cup {NextFix}
      /\ DOMAIN verdict' = DOMAIN verdict \cup {<<NextFix, cur>>}
      /\ <<NextFix, cur>> \notin DOMAIN verdict
      /\ verdict'[<<NextFix, cur>>] = "failed"
      /\ \A x \in DOMAIN verdict : verdict'[x] = verdict[x]
  BY <1>1, HeadPriority
<1>3. AcceptedFromApplied'
  <2>1. \A e : OfApplied(e) => OfApplied(e)'
    BY <1>1, <1>2, AppliedStays
  <2>2. QED
    BY <1>1, <2>1 DEF Advance, Priority, AcceptedFromApplied
<1>4. OverlapLostToEarlier'
  BY <1>1, <1>2, LostStays DEF Priority
<1>5. QED
  BY <1>2, <1>3, <1>4 DEF Priority

LEMMA SkipPriority == ASSUME IInv, Ledger, Priority, SkipOverlapping PROVE Priority'
<1>1. /\ Advance /\ Judge({NextFix}, cur, "overlapping") /\ accepted' = accepted
      /\ UNCHANGED <<findings, cur>> /\ pc = "patch" /\ Conflicts(NextEdits, accepted)
  BY DEF SkipOverlapping, Advance, input
<1>2. /\ QueueInOrder'
      /\ JudgedIn(cur)' = JudgedIn(cur) \cup {NextFix}
      /\ DOMAIN verdict' = DOMAIN verdict \cup {<<NextFix, cur>>}
      /\ <<NextFix, cur>> \notin DOMAIN verdict
      /\ verdict'[<<NextFix, cur>>] = "overlapping"
      /\ \A x \in DOMAIN verdict : verdict'[x] = verdict[x]
      /\ \A i \in JudgedIn(cur) : Before(i, NextFix)
  BY <1>1, HeadPriority
<1>3. AcceptedFromApplied'
  <2>1. \A e : OfApplied(e) => OfApplied(e)'
    BY <1>1, <1>2, AppliedStays
  <2>2. QED
    BY <1>1, <2>1 DEF Advance, Priority, AcceptedFromApplied
<1>4. PICK i \in JudgedIn(cur) :
        /\ <<i, cur>> \in DOMAIN verdict /\ verdict[<<i, cur>>] = "applied"
        /\ Conflicts(NextEdits, Edits(i, cur))
  BY <1>1 DEF Priority, AcceptedFromApplied, OfApplied, Conflicts
<1>5. Before(i, NextFix)
  BY <1>2
<1>6. OverlapLostToEarlier'
  <2> DEFINE LostTo(x, y) ==
        /\ verdict[y] = "applied" /\ y[2] = x[2]
        /\ Conflicts(Edits(x[1], x[2]), Edits(y[1], y[2]))
        /\ \/ FixMinStart(Edits(y[1], y[2])) < FixMinStart(Edits(x[1], x[2]))
           \/ FixMinStart(Edits(y[1], y[2])) = FixMinStart(Edits(x[1], x[2])) /\ y[1] < x[1]
  <2>1. \A x \in DOMAIN verdict : verdict[x] = "overlapping" => \E y \in DOMAIN verdict : LostTo(x, y)
    BY DEF Priority, OverlapLostToEarlier
  <2>2. LostTo(<<NextFix, cur>>, <<i, cur>>)
    BY <1>4, <1>5 DEF Before, NextEdits
  <2>3. \A y \in DOMAIN verdict : \A x : LostTo(x, y) => LostTo(x, y)'
    BY <1>1, <1>2 DEF Edits
  <2>4. \A x \in DOMAIN verdict' : verdict'[x] = "overlapping" => \E y \in DOMAIN verdict' : LostTo(x, y)'
    <3> HIDE DEF LostTo
    <3> QED BY <1>2, <1>4, <2>1, <2>2, <2>3
  <2>5. QED
    BY <2>4 DEF OverlapLostToEarlier
<1>7. QED
  BY <1>2, <1>3, <1>6 DEF Priority

LEMMA AcceptPriority == ASSUME IInv, Ledger, Priority, AcceptFix PROVE Priority'
<1>1. /\ Advance /\ Judge({NextFix}, cur, "applied") /\ accepted' = accepted \o NextEdits
      /\ UNCHANGED <<findings, cur>> /\ pc = "patch" /\ NextEdits = Edits(NextFix, cur)
  BY DEF AcceptFix, Advance, input, NextEdits
<1>2. /\ QueueInOrder'
      /\ JudgedIn(cur)' = JudgedIn(cur) \cup {NextFix}
      /\ DOMAIN verdict' = DOMAIN verdict \cup {<<NextFix, cur>>}
      /\ <<NextFix, cur>> \notin DOMAIN verdict
      /\ verdict'[<<NextFix, cur>>] = "applied"
      /\ \A x \in DOMAIN verdict : verdict'[x] = verdict[x]
  BY <1>1, HeadPriority
<1>3. ASSUME NEW j \in DOMAIN accepted'
      PROVE  \/ j \in DOMAIN accepted /\ accepted'[j] = accepted[j]
             \/ \E m \in DOMAIN NextEdits : accepted'[j] = NextEdits[m]
  <2>1. accepted \in Seq(TextEdit) /\ NextEdits \in Seq(TextEdit)
    BY <1>1, HeadTyped DEF IInv, TypeOK
  <2>2. /\ Len(accepted) \in Nat /\ Len(NextEdits) \in Nat
        /\ DOMAIN accepted = 1..Len(accepted) /\ DOMAIN NextEdits = 1..Len(NextEdits)
        /\ DOMAIN accepted' = 1..Len(accepted) + Len(NextEdits)
    BY <1>1, <2>1
  <2>3. CASE j <= Len(accepted)
    BY <1>1, <2>1, <2>2, <2>3
  <2>4. CASE j > Len(accepted)
    <3>1. j - Len(accepted) \in DOMAIN NextEdits
      BY <1>3, <2>2, <2>4
    <3>2. accepted'[j] = NextEdits[j - Len(accepted)]
      BY <1>1, <1>3, <2>1, <2>2, <2>4
    <3>3. QED
      BY <3>1, <3>2
  <2>5. QED
    BY <1>3, <2>2, <2>3, <2>4
<1>4. AcceptedFromApplied'
  <2>1. \A e : OfApplied(e) => OfApplied(e)'
    BY <1>1, <1>2, AppliedStays
  <2>2. \A e : (\E m \in DOMAIN NextEdits : e = NextEdits[m]) => OfApplied(e)'
    BY <1>1, <1>2 DEF OfApplied, Edits
  <2>3. \A j \in DOMAIN accepted : OfApplied(accepted[j])
    BY <1>1 DEF Priority, AcceptedFromApplied
  <2>4. \A e : (\E j \in DOMAIN accepted' : e = accepted'[j]) => OfApplied(e)'
    BY <1>3, <2>1, <2>2, <2>3
  <2>5. pc' = "patch"
    BY <1>1 DEF Advance
  <2>6. QED
    BY <2>4, <2>5 DEF AcceptedFromApplied
<1>5. OverlapLostToEarlier'
  BY <1>1, <1>2, LostStays DEF Priority
<1>6. QED
  BY <1>2, <1>4, <1>5 DEF Priority

(* A file that is rejected gives no verdict of overlap, and the others keep *)
(* their verdicts.                                                          *)
LEMMA RejectPriority == ASSUME IInv, Ledger, Priority, NEW f \in File, RejectFile(f) PROVE Priority'
<1>1. /\ pc = "patch" /\ cur = NoFile /\ cur' = NoFile /\ queue = <<>> /\ f \in todo
      /\ UNCHANGED <<findings, perFile, queue, accepted>> /\ VerdictsSoFar
      /\ Judge(perFile[f], f, "failed")
  BY DEF RejectFile, Ledger, IInv, QueueFits, input
<1>2. (perFile[f] \X {f}) \cap DOMAIN verdict = {}
  <2>1. f # NoFile
    BY KindsAreKinds
  <2>2. JudgedIn(f) = {}
    BY <1>1, <2>1 DEF JudgedIn
  <2>3. QED
    BY <1>1, <2>2 DEF VerdictsSoFar
<1>3. /\ DOMAIN verdict \subseteq DOMAIN verdict'
      /\ \A x \in DOMAIN verdict : verdict'[x] = verdict[x]
      /\ \A x \in DOMAIN verdict' \ DOMAIN verdict : verdict'[x] = "failed"
  BY <1>1, <1>2 DEF Judge
<1>4. OverlapLostToEarlier'
  BY <1>1, <1>3, LostStays DEF Priority
<1>5. QueueInOrder'
  BY <1>1 DEF QueueInOrder
<1>6. AcceptedFromApplied'
  <2>1. JudgedIn(cur)' = JudgedIn(cur)
    <3>1. NoFile \notin todo
      BY KindsAreKinds DEF IInv, TypeOK
    <3>2. QED
      BY <1>1, <3>1 DEF JudgedIn, Queued, RejectFile
  <2>2. \A e : OfApplied(e) => OfApplied(e)'
    BY <1>1, <1>3, <2>1, AppliedStays
  <2>3. QED
    BY <1>1, <2>2 DEF RejectFile, Priority, AcceptedFromApplied
<1>7. QED
  BY <1>4, <1>5, <1>6 DEF Priority

(* At the start there is no queue and nothing is accepted.                  *)
LEMMA InitPriority == Init => Priority
BY DEF Init, Priority, QueueInOrder, AcceptedFromApplied, OverlapLostToEarlier

LEMMA NextPriority == IInv /\ Ledger /\ Priority /\ [Next]_vars => Priority'
<1> SUFFICES ASSUME IInv, Ledger, Priority, [Next]_vars PROVE Priority'
  OBVIOUS
<1> USE DEF input
<1>1. CASE Group
  <2>1. pc = "group" /\ cur' = cur /\ queue = <<>> /\ UNCHANGED <<findings, queue, accepted, verdict>>
    BY <1>1 DEF Group, Ledger, Fresh, IInv, QueueFits
  <2>2. accepted = <<>>
    BY <2>1 DEF Priority, AcceptedFromApplied
  <2>3. QED
    BY <2>1, <2>2, LostStays DEF Priority, QueueInOrder, AcceptedFromApplied
<1>2. CASE RejectMalformed \/ SkipOverlapping \/ AcceptFix
  BY <1>2, MalformedPriority, SkipPriority, AcceptPriority
<1>3. ASSUME NEW f \in File, RejectFile(f) \/ OpenFile(f) PROVE Priority'
  BY <1>3, RejectPriority, OpenPriority
<1>4. CASE CloseUntouched \/ ClosePatched
  <2>1. CloseFile
    BY <1>4 DEF CloseUntouched, ClosePatched
  <2>2. queue' = <<>> /\ accepted' = <<>> /\ UNCHANGED <<findings, verdict>>
    BY <2>1 DEF CloseFile
  <2>3. QED
    BY <2>2, LostStays DEF Priority, QueueInOrder, AcceptedFromApplied
<1>5. CASE StartWriting \/ ShowDiff \/ Finish \/ \E f \in File : WriteFile(f) \/ WriteFails(f)
  <2>1. pc' \notin {"group", "patch"} /\ UNCHANGED <<findings, verdict>>
    BY <1>5 DEF StartWriting, ShowDiff, Patched, Finish, WriteFile, WriteFails
  <2>2. QED
    BY <2>1, LostStays DEF Priority, QueueInOrder, AcceptedFromApplied
<1>6. CASE Return \/ UNCHANGED vars
  <2>1. UNCHANGED vars
    BY <1>6 DEF Return
  <2>2. UNCHANGED <<pc, cur, queue, accepted, verdict, findings>> /\ JudgedIn(cur)' = JudgedIn(cur)
    BY <2>1 DEF vars, JudgedIn, Queued
  <2>3. QueueInOrder'
    BY <2>2 DEF Priority, QueueInOrder, Before, Edits
  <2>4. \A e : OfApplied(e) => OfApplied(e)'
    BY <2>2, AppliedStays
  <2>5. AcceptedFromApplied'
    BY <2>2, <2>4 DEF Priority, AcceptedFromApplied
  <2>6. OverlapLostToEarlier'
    BY <2>2, LostStays DEF Priority
  <2>7. QED
    BY <2>3, <2>5, <2>6 DEF Priority
<1>7. QED
  BY <1>1, <1>2, <1>3, <1>4, <1>5, <1>6 DEF Next

(* Whatever the findings and the order of files: a fix that is skipped as   *)
(* overlapping lost to an applied fix of the same file that starts no later *)
(* and, starting level with it, was reported first (patchedFiles).          *)
THEOREM SkippedLostToEarlier == Spec => []OverlapLostToEarlier
<1>1. Priority => OverlapLostToEarlier
  BY DEF Priority
<1>2. QED
  BY InitIInv, NextIInv, InitLedger, NextLedger, InitPriority, NextPriority, <1>1, PTL DEF Spec

-----------------------------------------------------------------------------
(* The import passes. What they do to a file is told by the tokens that are *)
(* kept, so that only the loops that build a sequence need an induction.    *)

(* Every set of naturals that is not empty has a least one: what an         *)
(* induction over a loop comes down to.                                     *)
LEMMA LeastNumber ==
  ASSUME NEW T \in SUBSET Nat, T # {}
  PROVE  \E n \in T : \A m \in T : n <= m
<1> DEFINE Upto(n) == 0..n
           U == {Upto(n) : n \in T}
<1>1. IsWellFoundedOn(StrictSubsetOrdering(Nat), FiniteSubsetsOf(Nat))
  BY FS_StrictSubsetOrderingWellFounded
<1>2. U \subseteq FiniteSubsetsOf(Nat) /\ U # {}
  <2>1. \A n \in T : Upto(n) \in SUBSET Nat /\ IsFiniteSet(Upto(n))
    BY FS_Interval
  <2>2. QED
    BY <2>1 DEF FiniteSubsetsOf
<1>3. PICK x \in U : \A y \in U : ~(<<y, x>> \in StrictSubsetOrdering(Nat))
  <2> HIDE DEF U
  <2>1. QED
    BY <1>1, <1>2, WFMin, Zenon
<1>4. PICK n \in T : x = Upto(n)
  OBVIOUS
<1>5. ASSUME NEW m \in T, m < n PROVE FALSE
  <2>1. n \in Upto(n) /\ n \notin Upto(m)
    BY <1>5
  <2>2. Upto(m) \subseteq Upto(n) /\ Upto(m) # Upto(n)
    BY <1>5, <2>1
  <2>3. Upto(m) \in SUBSET Nat /\ Upto(n) \in SUBSET Nat
    OBVIOUS
  <2>4. <<Upto(m), Upto(n)>> \in StrictSubsetOrdering(Nat)
    BY <2>2, <2>3 DEF StrictSubsetOrdering
  <2>5. QED
    BY <1>3, <1>4, <2>4
<1>6. QED
  BY <1>5

(* Counting up to N: a set with 0 and, after each number, the next has all. *)
LEMMA CountingUp ==
  ASSUME NEW N \in Nat, NEW S \in SUBSET (0..N), 0 \in S, \A n \in 1..N : n - 1 \in S => n \in S
  PROVE  S = 0..N
<1> DEFINE T == (0..N) \ S
<1>1. ASSUME T # {} PROVE FALSE
  <2>1. T \in SUBSET Nat
    OBVIOUS
  <2> HIDE DEF T
  <2>2. PICK n \in T : \A m \in T : n <= m
    BY <1>1, <2>1, LeastNumber
  <2>3. n \in 1..N /\ n \notin S
    BY <2>2 DEF T
  <2>4. n - 1 \in 0..N /\ n - 1 < n
    BY <2>3
  <2>5. n - 1 \notin T
    BY <2>2, <2>3, <2>4
  <2>6. n - 1 \in S
    BY <2>4, <2>5 DEF T
  <2>7. QED
    BY <2>3, <2>6
<1>2. QED
  BY <1>1

(* The runs of a loop: f[n] is what it holds after n rounds.                *)
Runs(X, x0, N, step) ==
  {f \in [0..N -> X] : f[0] = x0 /\ \A n \in 1..N : f[n] = step[n][f[n - 1]]}

(* A loop from 1 to N that replaces a value by step[n] of it has a value    *)
(* after every round.                                                       *)
LEMMA Looping ==
  ASSUME NEW X, NEW x0 \in X, NEW N \in Nat, NEW step \in [1..N -> [X -> X]]
  PROVE  Runs(X, x0, N, step) # {}
<1> DEFINE Short(n) == {f \in [0..n -> X] : f[0] = x0 /\ \A i \in 1..n : f[i] = step[i][f[i - 1]]}
           T == {n \in 0..N : Short(n) = {}}
<1>1. ASSUME T # {} PROVE FALSE
  <2>1. PICK n \in T : \A m \in T : n <= m
    <3>1. T \in SUBSET Nat
      OBVIOUS
    <3> HIDE DEF T
    <3>2. QED
      BY <1>1, <3>1, LeastNumber
  <2>2. n # 0
    <3>1. [i \in 0..0 |-> x0] \in Short(0)
      OBVIOUS
    <3>2. QED
      BY <3>1
  <2>3. n \in 1..N /\ n - 1 \in 0..N
    BY <2>2
  <2>4. n - 1 \notin T
    <3>1. n - 1 < n
      BY <2>3
    <3> HIDE DEF T
    <3>2. QED
      BY <2>1, <2>3, <3>1
  <2>5a. Short(n - 1) # {}
    <3> HIDE DEF Short
    <3>1. QED
      BY <2>3, <2>4
  <2>4a. PICK f \in Short(n - 1) : TRUE
    <3> HIDE DEF Short, T
    <3>1. QED
      BY <2>5a
  <2> DEFINE g == [i \in 0..n |-> IF i < n THEN f[i] ELSE step[n][f[n - 1]]]
  <2>5. f \in [0..n - 1 -> X] /\ f[0] = x0 /\ \A i \in 1..n - 1 : f[i] = step[i][f[i - 1]]
    BY <2>4a
  <2>6. f[n - 1] \in X /\ step[n] \in [X -> X]
    BY <2>3, <2>5
  <2>7. g \in [0..n -> X]
    BY <2>3, <2>5, <2>6
  <2>8. g[0] = x0
    BY <2>3, <2>5
  <2>9. ASSUME NEW i \in 1..n PROVE g[i] = step[i][g[i - 1]]
    <3>1. g[i - 1] = f[i - 1]
      BY <2>3
    <3>2. CASE i < n
      BY <2>3, <2>5, <3>1, <3>2
    <3>3. CASE i = n
      BY <2>3, <3>1, <3>3
    <3>4. QED
      BY <2>3, <3>2, <3>3
  <2> HIDE DEF g
  <2>10. g \in Short(n)
    BY <2>7, <2>8, <2>9
  <2>11. QED
    BY <2>1, <2>10
<1>2. Short(N) # {}
  <2> HIDE DEF Short
  <2>1. QED
    BY <1>1
<1>3. QED
  BY <1>2 DEF Runs

(* What is kept of a file: each of its tokens comes from a place of its own *)
(* among the kept ones, and every kept place is there.                      *)
LEMMA KeepTokens ==
  ASSUME NEW src \in Seq(Token), NEW I \in SUBSET (1..Len(src))
  PROVE  /\ Keep(src, I) \in Seq(Token)
         /\ \E place \in [1..Len(Keep(src, I)) -> I] :
              /\ \A k \in 1..Len(Keep(src, I)) : Keep(src, I)[k] = src[place[k]]
              /\ \A k, l \in 1..Len(Keep(src, I)) : k < l => place[k] < place[l]
              /\ \A i \in I : \E k \in 1..Len(Keep(src, I)) : place[k] = i
<1> DEFINE N == Len(src)
           X == Seq(Token)
           step == [n \in 1..N |-> [s \in X |-> IF n \in I THEN Append(s, src[n]) ELSE s]]
           Body(f) == [n \in 0..N |-> IF n = 0 THEN <<>>
                                      ELSE IF n \in I THEN Append(f[n - 1], src[n]) ELSE f[n - 1]]
           kept == CHOOSE f : f = Body(f)
<1>1. N \in Nat /\ <<>> \in X /\ step \in [1..N -> [X -> X]]
  OBVIOUS
<1>2. PICK f \in [0..N -> X] : f[0] = <<>> /\ \A n \in 1..N : f[n] = step[n][f[n - 1]]
  <2> HIDE DEF N, X, step
  <2>1. Runs(X, <<>>, N, step) # {}
    BY <1>1, Looping
  <2>2. QED
    BY <2>1 DEF Runs
<1>3. f = Body(f)
  <2>1. \A n \in 1..N : n - 1 \in 0..N /\ f[n - 1] \in X
    BY <1>1, <1>2
  <2>2. \A n \in 1..N : f[n] = IF n \in I THEN Append(f[n - 1], src[n]) ELSE f[n - 1]
    BY <1>2, <2>1
  <2>3. \A n \in 0..N : n = 0 \/ n \in 1..N
    BY <1>1
  <2>4. \A n \in 0..N : f[n] = Body(f)[n]
    BY <1>2, <2>2, <2>3
  <2>5. QED
    BY <1>2, <2>4
<1>4. kept = Body(kept)
  <2> HIDE DEF Body
  <2>1. QED
    BY <1>3, Zenon
<1>5. Keep(src, I) = kept[N]
  BY DEF Keep
<1> DEFINE Good(n) == /\ kept[n] \in X
                      /\ \E place \in [1..Len(kept[n]) -> I] :
                           /\ \A k \in 1..Len(kept[n]) : kept[n][k] = src[place[k]] /\ place[k] <= n
                           /\ \A k, l \in 1..Len(kept[n]) : k < l => place[k] < place[l]
                           /\ \A i \in I : i <= n => \E k \in 1..Len(kept[n]) : place[k] = i
<1> HIDE DEF kept, N, X, step
<1>6. kept[0] = <<>> /\ \A n \in 1..N : kept[n] = IF n \in I THEN Append(kept[n - 1], src[n]) ELSE kept[n - 1]
  <2> DEFINE b == Body(kept)
  <2>1. b[0] = <<>> /\ \A n \in 1..N : b[n] = IF n \in I THEN Append(kept[n - 1], src[n]) ELSE kept[n - 1]
    BY <1>1
  <2>2. kept = b
    BY <1>4
  <2> HIDE DEF b
  <2>3. QED
    BY <2>1, <2>2
<1> HIDE DEF Body
<1>7. Good(0)
  <2> DEFINE none == [k \in 1..0 |-> 0]
  <2>1. Len(kept[0]) = 0 /\ kept[0] \in X
    BY <1>1, <1>6
  <2>2. none \in [1..0 -> I]
    OBVIOUS
  <2>3. \A i \in I : ~(i <= 0)
    OBVIOUS
  <2>4. \A k \in 1..0 : FALSE
    OBVIOUS
  <2> HIDE DEF none
  <2>5. QED
    BY <2>1, <2>2, <2>3, <2>4
<1>8. ASSUME NEW n \in 1..N, Good(n - 1) PROVE Good(n)
  <2> DEFINE old == kept[n - 1]
             L == Len(old)
  <2>1. PICK place \in [1..L -> I] :
          /\ \A k \in 1..L : old[k] = src[place[k]] /\ place[k] <= n - 1
          /\ \A k, l \in 1..L : k < l => place[k] < place[l]
          /\ \A i \in I : i <= n - 1 => \E k \in 1..L : place[k] = i
    BY <1>8
  <2>2. old \in X /\ n \in Nat /\ n \in DOMAIN src
    BY <1>1, <1>8 DEF N
  <2>3. L \in Nat
    BY <2>2 DEF X
  <2>4. src[n] \in Token
    BY <2>2
  <2> HIDE DEF old, L
  <2>5. ASSUME NEW k \in 1..L PROVE place[k] \in I /\ place[k] \in Nat /\ place[k] <= n - 1 /\ place[k] < n
    <3>1. place[k] \in I /\ place[k] <= n - 1
      BY <2>1
    <3>2. place[k] \in Nat
      <4>1. \A i \in I : i \in Nat
        OBVIOUS
      <4>2. QED
        BY <3>1, <4>1, Zenon
    <3>3. QED
      BY <2>2, <3>1, <3>2
  <2>6. CASE n \notin I
    <3>1. kept[n] = old
      BY <1>6, <2>6 DEF old
    <3>2. \A i \in I : i <= n => i <= n - 1
      BY <2>2, <2>6
    <3>3. \A k \in 1..L : place[k] <= n
      BY <2>2, <2>5
    <3>4. QED
      BY <2>1, <2>2, <3>1, <3>2, <3>3 DEF L
  <2>7. CASE n \in I
    <3> DEFINE more == [k \in 1..L + 1 |-> IF k <= L THEN place[k] ELSE n]
    <3>1. kept[n] = Append(old, src[n])
      BY <1>6, <2>7 DEF old
    <3>2. /\ kept[n] \in X /\ Len(kept[n]) = L + 1
          /\ \A k \in 1..L : kept[n][k] = old[k]
          /\ kept[n][L + 1] = src[n]
      BY <2>2, <2>4, <3>1 DEF X, L
    <3>3. more \in [1..L + 1 -> I]
      BY <2>3, <2>5, <2>7
    <3>4. \A k \in 1..L : more[k] = place[k]
      BY <2>3
    <3>5. more[L + 1] = n
      BY <2>3
    <3> HIDE DEF more
    <3>6. \A k \in 1..L + 1 : k \in 1..L \/ k = L + 1
      BY <2>3
    <3>7. \A k \in 1..L + 1 : kept[n][k] = src[more[k]] /\ more[k] <= n
      BY <2>1, <2>2, <2>5, <3>2, <3>4, <3>5, <3>6
    <3>8. ASSUME NEW k \in 1..L + 1, NEW l \in 1..L + 1, k < l PROVE more[k] < more[l]
      <4>1. k \in 1..L
        BY <2>3, <3>6, <3>8
      <4>2. CASE l \in 1..L
        BY <2>1, <3>4, <3>8, <4>1, <4>2
      <4>3. CASE l = L + 1
        BY <2>5, <3>4, <3>5, <4>1, <4>3
      <4>4. QED
        BY <3>6, <4>2, <4>3
    <3>9. ASSUME NEW i \in I, i <= n PROVE \E k \in 1..L + 1 : more[k] = i
      <4>1. CASE i = n
        BY <2>3, <3>5, <4>1
      <4>2. CASE i <= n - 1
        <5>1. PICK k \in 1..L : place[k] = i
          BY <2>1, <4>2
        <5>2. k \in 1..L + 1
          BY <2>3
        <5>3. QED
          BY <3>4, <5>1, <5>2
      <4>3. QED
        BY <2>2, <3>9, <4>1, <4>2
    <3>10. QED
      BY <3>2, <3>3, <3>7, <3>8, <3>9
  <2>8. QED
    BY <2>6, <2>7
<1>9. Good(N)
  <2> DEFINE S == {n \in 0..N : Good(n)}
  <2> HIDE DEF Good
  <2>1. S \in SUBSET (0..N) /\ 0 \in S /\ \A n \in 1..N : n - 1 \in S => n \in S
    BY <1>1, <1>7, <1>8
  <2> HIDE DEF S
  <2>2. S = 0..N
    BY <1>1, <2>1, CountingUp
  <2>3. N \in 0..N
    BY <1>1
  <2>4. QED
    BY <2>2, <2>3 DEF S
<1>10. \A i \in I : i <= N
  BY DEF N
<1>11. QED
  BY <1>5, <1>9, <1>10 DEF X

(* A file made of tokens of another uses, declares and imports no more. *)
LEMMA FewerTokens ==
  ASSUME NEW a \in Seq(Token), NEW b \in Seq(Token),
         \A k \in 1..Len(a) : \E l \in 1..Len(b) : a[k] = b[l]
  PROVE  Uses(a) \subseteq Uses(b) /\ Declared(a) \subseteq Declared(b) /\ Imported(a) \subseteq Imported(b)
<1>1. DOMAIN a = 1..Len(a) /\ DOMAIN b = 1..Len(b)
  OBVIOUS
<1>2. Uses(a) \subseteq Uses(b)
  BY <1>1 DEF Uses
<1>3. Declared(a) \subseteq Declared(b)
  BY <1>1 DEF Declared
<1>4. Imported(a) \subseteq Imported(b)
  BY <1>1 DEF Imported
<1>5. QED
  BY <1>2, <1>3, <1>4

(* dedupeImports drops no package, and nothing but imports. *)
LEMMA Deduped ==
  ASSUME NEW src \in Seq(Token)
  PROVE  /\ DedupeImports(src) \in Seq(Token)
         /\ NoDuplicateImport(DedupeImports(src))
         /\ Uses(DedupeImports(src)) = Uses(src)
         /\ Declared(DedupeImports(src)) = Declared(src)
         /\ Imported(DedupeImports(src)) = Imported(src)
<1> DEFINE I == {n \in DOMAIN src : src[n].imp # NoPkg => \A m \in 1..n - 1 : src[m].imp # src[n].imp}
           D == DedupeImports(src)
<1>1. I \in SUBSET (1..Len(src)) /\ D = Keep(src, I)
  BY DEF DedupeImports
<1> HIDE DEF D
<1>2. D \in Seq(Token)
  <2> HIDE DEF I
  <2>1. QED
    BY <1>1, KeepTokens
<1>3. PICK place \in [1..Len(D) -> I] :
              /\ \A k \in 1..Len(D) : D[k] = src[place[k]]
              /\ \A k, l \in 1..Len(D) : k < l => place[k] < place[l]
              /\ \A i \in I : \E k \in 1..Len(D) : place[k] = i
  <2> HIDE DEF I
  <2>1. QED
    BY <1>1, KeepTokens
<1>4. DOMAIN D = 1..Len(D) /\ DOMAIN src = 1..Len(src) /\ Len(D) \in Nat /\ Len(src) \in Nat
  BY <1>2
<1>5. ASSUME NEW k \in 1..Len(D), NEW l \in 1..Len(D), k < l, D[k].imp = D[l].imp, D[k].imp # NoPkg
      PROVE  FALSE
  <2>1. place[k] \in I /\ place[l] \in I /\ place[k] < place[l] /\ D[k] = src[place[k]] /\ D[l] = src[place[l]]
    BY <1>3, <1>5
  <2>2. place[k] \in 1..place[l] - 1
    BY <1>4, <2>1
  <2>3. QED
    BY <1>5, <2>1, <2>2
<1>6. NoDuplicateImport(D)
  <2> SUFFICES ASSUME NEW k \in 1..Len(D), NEW l \in 1..Len(D), D[k].imp = D[l].imp, D[k].imp # NoPkg, k # l
               PROVE  FALSE
    BY <1>4 DEF NoDuplicateImport
  <2>1. k < l \/ l < k
    BY <1>4
  <2>2. QED
    BY <1>5, <2>1
<1>7. ASSUME NEW k \in 1..Len(D) PROVE \E l \in 1..Len(src) : D[k] = src[l]
  BY <1>1, <1>3
<1>8. \A n \in 1..Len(src) : src[n].imp = NoPkg => \E k \in 1..Len(D) : D[k] = src[n]
  <2>1. \A n \in 1..Len(src) : src[n].imp = NoPkg => n \in I
    BY <1>4
  <2> HIDE DEF I
  <2>2. QED
    BY <1>3, <2>1
<1>9. ASSUME NEW n \in 1..Len(src), src[n].imp # NoPkg
      PROVE  \E k \in 1..Len(D) : D[k].imp = src[n].imp
  <2> DEFINE T == {m \in 1..Len(src) : src[m].imp = src[n].imp}
  <2>1. T \in SUBSET Nat /\ T # {}
    BY <1>4
  <2>2. PICK m \in T : \A l \in T : m <= l
    <3> HIDE DEF T
    <3>1. QED
      BY <2>1, LeastNumber
  <2>3. \A l \in 1..m - 1 : l \in 1..Len(src) /\ ~(m <= l)
    BY <1>4, <2>2
  <2>4. m \in I
    BY <1>4, <1>9, <2>2, <2>3
  <2>5. QED
    BY <1>3, <2>2, <2>4
<1>10. \A n \in 1..Len(src) : src[n] \in Token
  BY <1>4
<1>11. \A n \in 1..Len(src) : src[n].imp # NoPkg => src[n].uses = {} /\ src[n].decl = {}
  BY <1>10 DEF Token
<1>12. Uses(D) \subseteq Uses(src) /\ Declared(D) \subseteq Declared(src) /\ Imported(D) \subseteq Imported(src)
  BY <1>2, <1>7, FewerTokens
<1>13. Uses(src) \subseteq Uses(D) /\ Declared(src) \subseteq Declared(D)
  <2> HIDE DEF I
  <2>1. QED
    BY <1>4, <1>8, <1>11 DEF Uses, Declared
<1>14. Imported(src) \subseteq Imported(D)
  <2> HIDE DEF I
  <2>1. QED
    BY <1>4, <1>9 DEF Imported
<1>15. QED
  BY <1>2, <1>6, <1>12, <1>13, <1>14 DEF D

(* pruneOrphanedImports drops the imports nothing uses, and nothing else. *)
LEMMA Pruned ==
  ASSUME NEW src \in Seq(Token), NoDuplicateImport(src)
  PROVE  LET P == PruneOrphanedImports(src) IN
         /\ P \in Seq(Token)
         /\ NoDuplicateImport(P)
         /\ Uses(P) = Uses(src)
         /\ Declared(P) = Declared(src)
         /\ Imported(P) = {p \in Imported(src) : p \in Stdlib => p \in Uses(src)}
<1> DEFINE I == {n \in DOMAIN src : src[n].imp \in Stdlib => src[n].imp \in Uses(src)}
           P == PruneOrphanedImports(src)
<1>1. I \in SUBSET (1..Len(src)) /\ P = Keep(src, I)
  BY DEF PruneOrphanedImports
<1> HIDE DEF P
<1>2. P \in Seq(Token)
  <2> HIDE DEF I
  <2>1. QED
    BY <1>1, KeepTokens
<1>3. PICK place \in [1..Len(P) -> I] :
              /\ \A k \in 1..Len(P) : P[k] = src[place[k]]
              /\ \A k, l \in 1..Len(P) : k < l => place[k] < place[l]
              /\ \A i \in I : \E k \in 1..Len(P) : place[k] = i
  <2> HIDE DEF I
  <2>1. QED
    BY <1>1, KeepTokens
<1>4. DOMAIN P = 1..Len(P) /\ DOMAIN src = 1..Len(src) /\ Len(P) \in Nat /\ Len(src) \in Nat
  BY <1>2
<1>5. ASSUME NEW k \in 1..Len(P), NEW l \in 1..Len(P), k < l, P[k].imp = P[l].imp, P[k].imp # NoPkg
      PROVE  FALSE
  <2>1. place[k] \in I /\ place[l] \in I /\ place[k] < place[l] /\ P[k] = src[place[k]] /\ P[l] = src[place[l]]
    BY <1>3, <1>5
  <2>2. place[k] \in DOMAIN src /\ place[l] \in DOMAIN src /\ place[k] # place[l]
    BY <1>4, <2>1
  <2> HIDE DEF I
  <2>3. QED
    BY <1>5, <2>1, <2>2 DEF NoDuplicateImport
<1>6. NoDuplicateImport(P)
  <2> SUFFICES ASSUME NEW k \in 1..Len(P), NEW l \in 1..Len(P), P[k].imp = P[l].imp, P[k].imp # NoPkg, k # l
               PROVE  FALSE
    BY <1>4 DEF NoDuplicateImport
  <2>1. k < l \/ l < k
    BY <1>4
  <2>2. QED
    BY <1>5, <2>1
<1>7. ASSUME NEW k \in 1..Len(P) PROVE \E l \in I : P[k] = src[l]
  BY <1>1, <1>3
<1>8. \A n \in I : \E k \in 1..Len(P) : P[k] = src[n]
  <2> HIDE DEF I
  <2>1. QED
    BY <1>3
<1>9. \A n \in 1..Len(src) : src[n] \in Token
  BY <1>4
<1>10. \A n \in 1..Len(src) : n \notin I => src[n].imp # NoPkg
  BY <1>4, FixableIsStdlib
<1>11. \A n \in 1..Len(src) : n \notin I => src[n].uses = {} /\ src[n].decl = {}
  BY <1>9, <1>10 DEF Token
<1>12. Uses(P) \subseteq Uses(src) /\ Declared(P) \subseteq Declared(src)
  BY <1>1, <1>2, <1>7, FewerTokens
<1>13. Uses(src) \subseteq Uses(P) /\ Declared(src) \subseteq Declared(P)
  <2> HIDE DEF I
  <2>1. QED
    BY <1>4, <1>8, <1>11 DEF Uses, Declared
<1>14. Imported(P) = {p \in Imported(src) : p \in Stdlib => p \in Uses(src)}
  <2>1. \A n \in 1..Len(src) : n \in I <=> (src[n].imp \in Stdlib => src[n].imp \in Uses(src))
    BY <1>4
  <2>2. \A n \in I : n \in 1..Len(src)
    BY <1>1
  <2>3. \A p : p \in Imported(P) <=> p # NoPkg /\ \E k \in 1..Len(P) : P[k].imp = p
    BY <1>4 DEF Imported
  <2>4. \A p : p \in Imported(src) <=> p # NoPkg /\ \E n \in 1..Len(src) : src[n].imp = p
    BY <1>4 DEF Imported
  <2> HIDE DEF I
  <2>5. ASSUME NEW p \in Imported(P) PROVE p \in Imported(src) /\ (p \in Stdlib => p \in Uses(src))
    BY <1>7, <2>1, <2>2, <2>3, <2>4
  <2>6. ASSUME NEW p \in Imported(src), p \in Stdlib => p \in Uses(src) PROVE p \in Imported(P)
    BY <1>8, <2>1, <2>3, <2>4, <2>6
  <2>7. QED
    BY <2>5, <2>6
<1>15. QED
  BY <1>2, <1>6, <1>12, <1>13, <1>14 DEF P

(* Go's sorted list of a set: each member once. *)
LEMMA Listed ==
  ASSUME NEW S, IsFiniteSet(S)
  PROVE  LET q == SetToSeq(S) IN
         /\ q \in Seq(S)
         /\ \A x \in S : \E k \in 1..Len(q) : q[k] = x
         /\ \A k, l \in 1..Len(q) : q[k] = q[l] => k = l
<1> DEFINE q == SetToSeq(S)
           N == Cardinality(S)
<1>1. N \in Nat
  BY FS_CardinalityType
<1>2. PICK f : f \in Bijection(1..N, S)
  BY FS_CardinalityType DEF ExistsBijection
<1>3. f \in [1..N -> S] /\ \A a, b \in 1..N : f[a] = f[b] => a = b
  BY <1>2 DEF Bijection, Injection, IsInjective
<1>4. f \in [1..N -> S] /\ IsInjective(f)
  BY <1>3 DEF IsInjective
<1>5. q \in [1..N -> S] /\ IsInjective(q)
  <2> HIDE DEF N
  <2>1. q = CHOOSE g \in [1..N -> S] : IsInjective(g)
    BY DEF SetToSeq, N
  <2> HIDE DEF q
  <2>2. QED
    BY <1>4, <2>1
<1> HIDE DEF q
<1>6. q \in Injection(1..N, S) /\ IsFiniteSet(1..N) /\ Cardinality(1..N) = N
  BY <1>1, <1>5, FS_Interval DEF Injection
<1>7. q \in Surjection(1..N, S)
  BY <1>6, FS_Injection
<1> HIDE DEF N
<1>8. q \in Seq(S) /\ Len(q) = N
  BY <1>1, <1>5
<1>9. \A x \in S : \E k \in 1..Len(q) : q[k] = x
  BY <1>7, <1>8 DEF Surjection
<1>10. \A k, l \in 1..Len(q) : q[k] = q[l] => k = l
  BY <1>5, <1>8 DEF IsInjective
<1>11. QED
  BY <1>8, <1>9, <1>10 DEF q

(* addReferencedStdlibImports imports what is missing and was not missing   *)
(* before, each package once.                                               *)
LEMMA Added ==
  ASSUME NEW src \in Seq(Token), NEW orig \in Seq(Token), NoDuplicateImport(src)
  PROVE  LET A == AddReferencedStdlibImports(src, orig) IN
         /\ A \in Seq(Token)
         /\ NoDuplicateImport(A)
         /\ Uses(A) = Uses(src)
         /\ Declared(A) = Declared(src)
         /\ Imported(A) = Imported(src) \cup (MissingFixableImports(src) \ MissingFixableImports(orig))
<1> DEFINE new == MissingFixableImports(src) \ MissingFixableImports(orig)
           S == {ImportSpec(p) : p \in new}
           q == SetToSeq(S)
           A == AddReferencedStdlibImports(src, orig)
<1>1. /\ new \subseteq Fixable /\ new \cap Imported(src) = {}
      /\ \A p \in new : p \in STRING /\ p # NoPkg
  BY FixableIsStdlib DEF MissingFixableImports
<1>2. IsFiniteSet(new)
  BY <1>1, FixableIsStdlib, FS_Subset
<1> HIDE DEF new
<1>3. IsFiniteSet(S)
  <2> DEFINE f == [p \in new |-> ImportSpec(p)]
  <2>1. f \in Surjection(new, S)
    BY DEF Surjection
  <2> HIDE DEF f, S
  <2>2. QED
    BY <1>2, <2>1, FS_Surjection
<1>4. \A t \in S : t \in Token /\ t.uses = {} /\ t.decl = {} /\ t.imp \in new
  BY <1>1 DEF ImportSpec, Token
<1>5. \A p \in new : ImportSpec(p) \in S /\ ImportSpec(p).imp = p
  BY DEF ImportSpec
<1>6. ASSUME NEW s \in S, NEW t \in S, s.imp = t.imp PROVE s = t
  <2>1. PICK p \in new : s = ImportSpec(p)
    OBVIOUS
  <2>2. PICK r \in new : t = ImportSpec(r)
    OBVIOUS
  <2>3. s.imp = p /\ t.imp = r
    BY <1>5, <2>1, <2>2
  <2>4. QED
    BY <1>6, <2>1, <2>2, <2>3
<1>7. A = q \o src
  BY DEF AddReferencedStdlibImports, new
<1> HIDE DEF S, A
<1>8. /\ q \in Seq(S)
      /\ \A x \in S : \E k \in 1..Len(q) : q[k] = x
      /\ \A k, l \in 1..Len(q) : q[k] = q[l] => k = l
  BY <1>3, Listed
<1> HIDE DEF q
<1>9. q \in Seq(Token)
  BY <1>4, <1>8
<1>10. /\ A \in Seq(Token) /\ Len(A) = Len(q) + Len(src)
       /\ \A k \in 1..Len(q) : A[k] = q[k]
       /\ \A k \in Len(q) + 1..Len(A) : A[k] = src[k - Len(q)] /\ k - Len(q) \in 1..Len(src)
  BY <1>7, <1>9, ConcatProperties
<1>11. /\ Len(q) \in Nat /\ Len(src) \in Nat /\ Len(A) \in Nat
       /\ DOMAIN A = 1..Len(A) /\ DOMAIN src = 1..Len(src) /\ DOMAIN q = 1..Len(q)
  BY <1>9, <1>10
<1>12. \A k \in 1..Len(A) : k \in 1..Len(q) \/ k \in Len(q) + 1..Len(A)
  BY <1>11
<1>13. \A k \in 1..Len(q) : k \in 1..Len(A) /\ A[k] \in S /\ A[k] = q[k]
  BY <1>8, <1>10, <1>11
<1>14. ASSUME NEW n \in 1..Len(src) PROVE n + Len(q) \in 1..Len(A) /\ A[n + Len(q)] = src[n]
  <2> DEFINE k == n + Len(q)
  <2>1. k \in Len(q) + 1..Len(A) /\ k \in 1..Len(A) /\ k - Len(q) = n
    BY <1>10, <1>11
  <2> HIDE DEF k
  <2>2. A[k] = src[n]
    BY <1>10, <2>1
  <2>3. QED
    BY <2>1, <2>2 DEF k
<1>15. NoDuplicateImport(A)
  <2> SUFFICES ASSUME NEW k \in 1..Len(A), NEW l \in 1..Len(A), A[k].imp = A[l].imp, A[k].imp # NoPkg
               PROVE  k = l
    BY <1>11 DEF NoDuplicateImport
  <2>1. CASE k \in 1..Len(q) /\ l \in 1..Len(q)
    <3>1. q[k] \in S /\ q[l] \in S /\ q[k].imp = q[l].imp
      BY <1>13, <2>1
    <3>2. q[k] = q[l]
      BY <1>6, <3>1
    <3>3. QED
      BY <1>8, <2>1, <3>2
  <2>2. CASE k \in Len(q) + 1..Len(A) /\ l \in Len(q) + 1..Len(A)
    <3> DEFINE i == k - Len(q)
               j == l - Len(q)
    <3>1. i \in 1..Len(src) /\ j \in 1..Len(src) /\ A[k] = src[i] /\ A[l] = src[j]
      BY <1>10, <2>2
    <3>2. k = i + Len(q) /\ l = j + Len(q)
      BY <1>11
    <3> HIDE DEF i, j
    <3>3. i = j
      BY <1>11, <3>1 DEF NoDuplicateImport
    <3>4. QED
      BY <3>2, <3>3
  <2>3. ASSUME NEW i \in 1..Len(q), NEW j \in Len(q) + 1..Len(A), A[i].imp = A[j].imp, A[i].imp # NoPkg PROVE FALSE
    <3>1. A[i].imp \in new
      BY <1>4, <1>13
    <3>2. A[j].imp \in Imported(src)
      BY <1>10, <1>11, <2>3 DEF Imported
    <3>3. QED
      BY <1>1, <2>3, <3>1, <3>2
  <2>4. QED
    BY <1>12, <2>1, <2>2, <2>3
<1>16. ASSUME NEW k \in 1..Len(A)
       PROVE  (\E n \in 1..Len(src) : A[k] = src[n]) \/ A[k] \in S
  BY <1>10, <1>12, <1>13
<1>17. Uses(A) = Uses(src)
  <2>1. \A x : x \in Uses(A) <=> \E k \in 1..Len(A) : x \in A[k].uses
    BY <1>11 DEF Uses
  <2>2. \A x : x \in Uses(src) <=> \E k \in 1..Len(src) : x \in src[k].uses
    BY <1>11 DEF Uses
  <2>3. \A x \in Uses(A) : x \in Uses(src)
    BY <1>4, <1>16, <2>1, <2>2
  <2>4. \A x \in Uses(src) : x \in Uses(A)
    BY <1>14, <2>1, <2>2
  <2>5. QED
    BY <2>3, <2>4
<1>18. Declared(A) = Declared(src)
  <2>1. \A x : x \in Declared(A) <=> \E k \in 1..Len(A) : x \in A[k].decl
    BY <1>11 DEF Declared
  <2>2. \A x : x \in Declared(src) <=> \E k \in 1..Len(src) : x \in src[k].decl
    BY <1>11 DEF Declared
  <2>3. \A x \in Declared(A) : x \in Declared(src)
    BY <1>4, <1>16, <2>1, <2>2
  <2>4. \A x \in Declared(src) : x \in Declared(A)
    BY <1>14, <2>1, <2>2
  <2>5. QED
    BY <2>3, <2>4
<1>19. Imported(A) = Imported(src) \cup new
  <2>1. \A x : x \in Imported(A) <=> x # NoPkg /\ \E k \in 1..Len(A) : x = A[k].imp
    BY <1>11 DEF Imported
  <2>2. \A x : x \in Imported(src) <=> x # NoPkg /\ \E k \in 1..Len(src) : x = src[k].imp
    BY <1>11 DEF Imported
  <2>3. \A x \in Imported(A) : x \in Imported(src) \/ x \in new
    BY <1>4, <1>16, <2>1, <2>2
  <2>4. \A x \in Imported(src) : x \in Imported(A)
    BY <1>14, <2>1, <2>2
  <2>5. \A x \in new : x \in Imported(A)
    <3> SUFFICES ASSUME NEW x \in new PROVE x \in Imported(A)
      OBVIOUS
    <3>1. PICK k \in 1..Len(q) : q[k] = ImportSpec(x)
      BY <1>5, <1>8
    <3>2. QED
      BY <1>1, <1>5, <1>13, <2>1, <3>1
  <2>6. QED
    BY <2>3, <2>4, <2>5
<1>20. QED
  BY <1>10, <1>15, <1>17, <1>18, <1>19 DEF A, new

(* The three passes leave the imports in agreement with the code. *)
LEMMA Cleaned ==
  ASSUME NEW src \in Seq(Token), NEW orig \in Seq(Token)
  PROVE  LET C == CleanImports(src, orig, FALSE) IN
         /\ NoDuplicateImport(C)
         /\ NoOrphanImport(C)
         /\ MissingFixableImports(C) \subseteq MissingFixableImports(orig)
         /\ Imported(C) \cap (Declared(C) \cup MissingFixableImports(orig)) \subseteq Imported(src)
<1> DEFINE D == DedupeImports(src)
           A == AddReferencedStdlibImports(D, orig)
           P == PruneOrphanedImports(A)
<1>1. CleanImports(src, orig, FALSE) = P
  BY DEF CleanImports
<1>2. /\ D \in Seq(Token) /\ NoDuplicateImport(D)
      /\ Uses(D) = Uses(src) /\ Declared(D) = Declared(src) /\ Imported(D) = Imported(src)
  BY Deduped
<1> HIDE DEF D
<1>3. /\ A \in Seq(Token) /\ NoDuplicateImport(A)
      /\ Uses(A) = Uses(D) /\ Declared(A) = Declared(D)
      /\ Imported(A) = Imported(D) \cup (MissingFixableImports(D) \ MissingFixableImports(orig))
  BY <1>2, Added
<1> HIDE DEF A
<1>4. /\ NoDuplicateImport(P)
      /\ Uses(P) = Uses(A) /\ Declared(P) = Declared(A)
      /\ Imported(P) = {p \in Imported(A) : p \in Stdlib => p \in Uses(A)}
  BY <1>3, Pruned
<1> HIDE DEF P
<1>5. NoOrphanImport(P)
  BY <1>4 DEF NoOrphanImport
<1>6. ASSUME NEW p \in MissingFixableImports(P) PROVE p \in MissingFixableImports(orig)
  <2>1. p \in Fixable /\ p \in Uses(A) /\ p \notin Imported(P) /\ p \notin Declared(A)
    BY <1>4, <1>6 DEF MissingFixableImports
  <2>2. p \notin Imported(A)
    BY <1>4, <2>1
  <2>3. p \in MissingFixableImports(D)
    BY <1>3, <2>1, <2>2 DEF MissingFixableImports
  <2>4. QED
    BY <1>3, <2>2, <2>3
<1>7. ASSUME NEW p \in Imported(P), p \in Declared(P) \cup MissingFixableImports(orig) PROVE p \in Imported(src)
  <2>1. p \in Imported(A)
    BY <1>4
  <2>2. ~(p \in MissingFixableImports(D) \ MissingFixableImports(orig))
    BY <1>3, <1>4, <1>7 DEF MissingFixableImports
  <2>3. QED
    BY <1>2, <1>3, <2>1, <2>2
<1>8. QED
  BY <1>1, <1>4, <1>5, <1>6, <1>7

-----------------------------------------------------------------------------
(* The splice. *)

(* The accepted edits, sorted: each of them once, the last in the file first. *)
LEMMA SortedEdits ==
  ASSUME NEW a \in Seq(TextEdit)
  PROVE  \E from \in [1..Len(a) -> 1..Len(a)] :
           /\ BackToFront(a) = [r \in 1..Len(a) |-> a[from[r]]]
           /\ \A r, q \in 1..Len(a) : from[r] = from[q] => r = q
           /\ \A r, q \in 1..Len(a) : r < q => a[from[q]].start <= a[from[r]].start
<1> DEFINE N == Len(a)
           before(i) == {j \in DOMAIN a : \/ a[j].start > a[i].start
                                          \/ a[j].start = a[i].start /\ j <= i}
           rank == [i \in 1..N |-> Cardinality(before(i))]
           First(i, j) == a[i].start > a[j].start \/ (a[i].start = a[j].start /\ i < j)
           from == [r \in 1..N |-> CHOOSE i \in 1..N : rank[i] = r]
<1>1. N \in Nat /\ DOMAIN a = 1..N /\ \A i \in 1..N : a[i].start \in Int
  <2>1. \A i \in 1..N : a[i] \in TextEdit
    OBVIOUS
  <2>2. \A e \in TextEdit : e.start \in Int
    BY DEF TextEdit
  <2>3. N \in Nat /\ DOMAIN a = 1..N
    OBVIOUS
  <2> HIDE DEF N
  <2>4. QED
    BY <2>1, <2>2, <2>3
<1>2. \A i \in 1..N : before(i) \subseteq 1..N /\ i \in before(i)
  BY <1>1
<1>3. IsFiniteSet(1..N) /\ Cardinality(1..N) = N
  BY <1>1, FS_Interval
<1>4. ASSUME NEW i \in 1..N
      PROVE  IsFiniteSet(before(i)) /\ Cardinality(before(i)) \in 1..N
  <2>1. before(i) \in SUBSET (1..N) /\ before(i) # {}
    BY <1>2
  <2> HIDE DEF before
  <2>2. IsFiniteSet(before(i)) /\ Cardinality(before(i)) <= N
    BY <1>3, <2>1, FS_Subset
  <2>3. Cardinality(before(i)) \in Nat /\ Cardinality(before(i)) # 0
    BY <2>1, <2>2, FS_CardinalityType, FS_EmptySet
  <2>4. QED
    BY <1>1, <2>2, <2>3
<1>5. ASSUME NEW i \in 1..N, NEW j \in 1..N, First(i, j)
      PROVE  rank[i] < rank[j]
  <2>1. before(i) \in SUBSET before(j) /\ j \in before(j) /\ j \notin before(i)
    BY <1>1, <1>5
  <2> HIDE DEF before
  <2>2. Cardinality(before(i)) <= Cardinality(before(j)) /\ Cardinality(before(i)) # Cardinality(before(j))
    BY <1>4, <2>1, FS_Subset
  <2>3. Cardinality(before(i)) \in Nat /\ Cardinality(before(j)) \in Nat
    BY <1>4
  <2>4. QED
    BY <2>2, <2>3
<1>6. \A i, j \in 1..N : i = j \/ First(i, j) \/ First(j, i)
  BY <1>1
<1>7. rank \in [1..N -> 1..N]
  <2> HIDE DEF before
  <2>1. QED
    BY <1>4
<1>8. BackToFront(a) = [r \in 1..N |-> a[CHOOSE i \in 1..N : Cardinality(before(i)) = r]]
  BY <1>1 DEF BackToFront
<1>9. \A i \in 1..N : rank[i] = Cardinality(before(i))
  <2> HIDE DEF before
  <2>1. QED
    OBVIOUS
<1> HIDE DEF rank, First, before, N
<1>10. \A i, j \in 1..N : rank[i] = rank[j] => i = j
  BY <1>5, <1>6, <1>7
<1>11. rank \in Injection(1..N, 1..N)
  BY <1>7, <1>10 DEF Injection, IsInjective
<1>12. rank \in Surjection(1..N, 1..N)
  BY <1>3, <1>11, FS_Injection
<1>13. \A r \in 1..N : \E i \in 1..N : rank[i] = r
  BY <1>12 DEF Surjection
<1>14. \A r \in 1..N : from[r] \in 1..N /\ rank[from[r]] = r
  BY <1>13
<1>15. from \in [1..N -> 1..N]
  BY <1>14
<1>16. BackToFront(a) = [r \in 1..N |-> a[from[r]]]
  <2>1. \A r \in 1..N : (CHOOSE i \in 1..N : Cardinality(before(i)) = r) = from[r]
    BY <1>9
  <2> HIDE DEF from
  <2>2. QED
    BY <1>8, <2>1
<1> HIDE DEF from
<1>17. \A r, q \in 1..N : from[r] = from[q] => r = q
  BY <1>14
<1>18. ASSUME NEW r \in 1..N, NEW q \in 1..N, r < q
       PROVE  a[from[q]].start <= a[from[r]].start
  <2>1. from[r] \in 1..N /\ from[q] \in 1..N /\ ~(rank[from[q]] < rank[from[r]])
    BY <1>1, <1>14, <1>18
  <2>2. ~First(from[q], from[r])
    BY <1>5, <2>1
  <2>3. QED
    BY <1>1, <2>1, <2>2 DEF First
<1>19. QED
  BY <1>15, <1>16, <1>17, <1>18 DEF N

(* The tokens of two texts put together. *)
LEMMA Joined ==
  ASSUME NEW u \in Seq(Token), NEW t \in Seq(Token)
  PROVE  /\ u \o t \in Seq(Token) /\ Len(u \o t) = Len(u) + Len(t)
         /\ \A k \in 1..Len(u) : (u \o t)[k] = u[k]
         /\ \A k \in Len(u) + 1..Len(u \o t) : (u \o t)[k] = t[k - Len(u)] /\ k - Len(u) \in 1..Len(t)
<1> DEFINE w == u \o t
<1>1. /\ w \in Seq(Token) /\ Len(w) = Len(u) + Len(t)
      /\ \A i \in 1..Len(u) + Len(t) : w[i] = IF i <= Len(u) THEN u[i] ELSE t[i - Len(u)]
  BY ConcatProperties
<1>2. Len(u) \in Nat /\ Len(t) \in Nat
  OBVIOUS
<1> HIDE DEF w
<1>3. ASSUME NEW k \in 1..Len(u) PROVE w[k] = u[k]
  <2>1. k \in 1..Len(u) + Len(t) /\ k <= Len(u)
    BY <1>2
  <2>2. QED
    BY <1>1, <2>1
<1>4. ASSUME NEW k \in Len(u) + 1..Len(w) PROVE w[k] = t[k - Len(u)] /\ k - Len(u) \in 1..Len(t)
  <2>1. k \in 1..Len(u) + Len(t) /\ ~(k <= Len(u)) /\ k - Len(u) \in 1..Len(t)
    BY <1>1, <1>2
  <2>2. QED
    BY <1>1, <2>1
<1>5. QED
  BY <1>1, <1>3, <1>4 DEF w

(* One edit within the bytes of a file. *)
LEMMA SplicedOnce ==
  ASSUME NEW s \in Seq(Token), NEW e \in TextEdit, ~OutOfRange(e, Len(s))
  PROVE  /\ Splice(s, e) \in Seq(Token)
         /\ Len(Splice(s, e)) = Len(s) - (e.end - e.start) + Len(e.text)
         /\ \A k \in 1..Len(Splice(s, e)) :
              \/ \E l \in 1..Len(s) : Splice(s, e)[k] = s[l]
              \/ \E l \in 1..Len(e.text) : Splice(s, e)[k] = e.text[l]
<1> DEFINE N == Len(s)
           u == SubSeq(s, 1, e.start)
           t == e.text
           v == SubSeq(s, e.end + 1, N)
<1>1. /\ N \in Nat /\ e.start \in Nat /\ e.end \in Nat /\ e.start <= e.end /\ e.end <= N
      /\ t \in Seq(Token)
  BY DEF OutOfRange, TextEdit
<1> HIDE DEF t
<1>2. /\ u \in Seq(Token) /\ Len(u) = e.start
      /\ \A k \in 1..Len(u) : \E l \in 1..N : u[k] = s[l]
  <2> DEFINE m == e.start
  <2>1. m \in 0..N /\ 1 \in Int /\ m \in Int /\ m - 1 + 1 = m /\ \A i \in 1..m : i \in 1..N /\ s[i] \in Token /\ 1 + i - 1 = i
    BY <1>1
  <2>2. u = SubSeq(s, 1, m)
    OBVIOUS
  <2> HIDE DEF m, u, N
  <2>3. /\ u \in Seq(Token) /\ Len(u) = IF 1 <= m THEN m - 1 + 1 ELSE 0
        /\ \A i \in 1..m - 1 + 1 : u[i] = s[1 + i - 1]
    BY <2>1, <2>2, SubSeqProperties
  <2>4. Len(u) = m
    BY <1>1, <2>1, <2>3
  <2>5. \A k \in 1..Len(u) : k \in 1..N /\ u[k] = s[k]
    BY <1>1, <2>1, <2>3, <2>4
  <2>6. QED
    BY <2>3, <2>4, <2>5 DEF m
<1>3. /\ v \in Seq(Token) /\ Len(v) = N - e.end
      /\ \A k \in 1..Len(v) : \E l \in 1..N : v[k] = s[l]
  <2> DEFINE m == e.end + 1
  <2>1. m \in 1..N + 1 /\ N - m + 1 = N - e.end /\ \A i \in m..N : i \in 1..N /\ s[i] \in Token
    BY <1>1
  <2>2. v = SubSeq(s, m, N)
    OBVIOUS
  <2> HIDE DEF m, v, N
  <2>3. /\ v \in Seq(Token) /\ Len(v) = IF m <= N THEN N - m + 1 ELSE 0
        /\ \A i \in 1..N - m + 1 : v[i] = s[m + i - 1]
    BY <1>1, <2>1, <2>2, SubSeqProperties
  <2>4. Len(v) = N - e.end
    BY <1>1, <2>1, <2>3
  <2>5. \A k \in 1..Len(v) : k \in 1..N - m + 1 /\ m + k - 1 \in 1..N
    BY <1>1, <2>1, <2>4
  <2>6. QED
    BY <2>3, <2>4, <2>5
<1>4. Splice(s, e) = (u \o t) \o v
  BY DEF Splice, t
<1> HIDE DEF u, v, N
<1>5. /\ u \o t \in Seq(Token) /\ Len(u \o t) = Len(u) + Len(t)
      /\ \A k \in 1..Len(u) : (u \o t)[k] = u[k]
      /\ \A k \in Len(u) + 1..Len(u \o t) : (u \o t)[k] = t[k - Len(u)] /\ k - Len(u) \in 1..Len(t)
  BY <1>1, <1>2, Joined
<1> DEFINE w == u \o t
<1> HIDE DEF w
<1>6. /\ w \o v \in Seq(Token) /\ Len(w \o v) = Len(w) + Len(v)
      /\ \A k \in 1..Len(w) : (w \o v)[k] = w[k]
      /\ \A k \in Len(w) + 1..Len(w \o v) : (w \o v)[k] = v[k - Len(w)] /\ k - Len(w) \in 1..Len(v)
  <2>1. w \in Seq(Token)
    BY <1>5 DEF w
  <2>2. QED
    BY <1>3, <2>1, Joined
<1>7. \A k \in 1..Len(w) : (\E l \in 1..N : w[k] = s[l]) \/ (\E l \in 1..Len(t) : w[k] = t[l])
  <2> SUFFICES ASSUME NEW k \in 1..Len(w)
               PROVE  (\E l \in 1..N : w[k] = s[l]) \/ (\E l \in 1..Len(t) : w[k] = t[l])
    OBVIOUS
  <2>1. CASE k <= Len(u)
    <3>1. k \in 1..Len(u)
      BY <1>1, <1>2, <2>1
    <3>2. w[k] = u[k]
      BY <1>5, <3>1 DEF w
    <3>3. QED
      BY <1>2, <3>1, <3>2
  <2>2. CASE ~(k <= Len(u))
    <3>1. k - Len(u) \in 1..Len(t) /\ w[k] = t[k - Len(u)]
      <4>1. k \in Len(u) + 1..Len(w)
        BY <1>1, <1>2, <1>5, <2>2 DEF w
      <4>2. QED
        BY <1>5, <4>1 DEF w
    <3>2. QED
      BY <3>1
  <2>3. QED
    BY <2>1, <2>2
<1>8. ASSUME NEW k \in 1..Len(w \o v)
      PROVE  (\E l \in 1..N : (w \o v)[k] = s[l]) \/ (\E l \in 1..Len(t) : (w \o v)[k] = t[l])
  <2>1. Len(w) \in Nat /\ Len(v) \in Nat
    BY <1>3, <1>5 DEF w
  <2>2. CASE k <= Len(w)
    BY <1>6, <1>7, <2>1, <2>2
  <2>3. CASE ~(k <= Len(w))
    <3>1. k - Len(w) \in 1..Len(v) /\ (w \o v)[k] = v[k - Len(w)]
      <4>1. k \in Len(w) + 1..Len(w \o v)
        BY <1>6, <2>1, <2>3
      <4>2. QED
        BY <1>6, <4>1
    <3>2. PICK l \in 1..N : v[k - Len(w)] = s[l]
      BY <1>3, <3>1
    <3>3. QED
      BY <3>1, <3>2
  <2>4. QED
    BY <2>2, <2>3
<1>9. Len(w \o v) = N - (e.end - e.start) + Len(t)
  <2>1. Len(w) = Len(u) + Len(t)
    BY <1>5 DEF w
  <2> DEFINE all == w \o v
  <2>2. Len(all) = Len(w) + Len(v)
    BY <1>6
  <2>3. Len(u) = e.start /\ Len(v) = N - e.end
    BY <1>2, <1>3
  <2>4. e.start \in Int /\ e.end \in Int /\ N \in Int /\ Len(t) \in Int
    BY <1>1
  <2> HIDE DEF all
  <2>5. Len(all) = (e.start + Len(t)) + (N - e.end)
    BY <2>1, <2>2, <2>3
  <2>6. (e.start + Len(t)) + (N - e.end) = N - (e.end - e.start) + Len(t)
    BY <2>4
  <2>7. QED
    BY <2>5, <2>6 DEF all
<1>10. QED
  BY <1>4, <1>6, <1>8, <1>9 DEF w, t, N

(* The loop that splices, step by step: the edits are taken as from tells,  *)
(* no edit before one that starts later, and spliced[n] is the file after   *)
(* n of them.                                                               *)
Splicing(src, a, from, spliced) ==
  /\ \A r, q \in 1..Len(a) : from[r] = from[q] => r = q
  /\ \A r, q \in 1..Len(a) : r < q => a[from[q]].start <= a[from[r]].start
  /\ spliced[0] = src
  /\ \A n \in 1..Len(a) : spliced[n] = Splice(spliced[n - 1], a[from[n]])
  /\ SpliceAll(src, a) = spliced[Len(a)]

(* The loop takes every edit once.                                          *)
LEMMA SpliceSteps ==
  ASSUME NEW src \in Seq(Token), NEW a \in Seq(TextEdit)
  PROVE  \E from \in [1..Len(a) -> 1..Len(a)] : \E spliced : Splicing(src, a, from, spliced)
<1> DEFINE es == BackToFront(a)
           N == Len(a)
<1>1. PICK from \in [1..N -> 1..N] :
           /\ es = [r \in 1..N |-> a[from[r]]]
           /\ \A r, q \in 1..N : from[r] = from[q] => r = q
           /\ \A r, q \in 1..N : r < q => a[from[q]].start <= a[from[r]].start
  BY SortedEdits
<1>2. N \in Nat /\ DOMAIN a = 1..N /\ \A i \in 1..N : a[i] \in TextEdit
  OBVIOUS
<1> HIDE DEF es, N
<1>3. /\ Len(es) = N
      /\ \A r \in 1..N : es[r] = a[from[r]] /\ from[r] \in 1..N
  BY <1>1, <1>2
<1> DEFINE Upto(n, f) == [i \in 0..n |-> IF i = 0 THEN src ELSE Splice(f[i - 1], es[i])]
           T == {n \in 0..N : \A f : f # Upto(n, f)}
<1>4. ASSUME T # {} PROVE FALSE
  <2>1. PICK n \in T : \A m \in T : n <= m
    <3>1. T \in SUBSET Nat
      BY <1>2
    <3> HIDE DEF T
    <3>2. QED
      BY <1>4, <3>1, LeastNumber
  <2>2. n # 0
    <3> DEFINE f == [i \in 0..0 |-> src]
    <3>1. f = Upto(0, f)
      OBVIOUS
    <3> HIDE DEF f, Upto
    <3>2. QED
      BY <2>1, <3>1
  <2>3. n \in 1..N /\ n - 1 \in 0..N /\ n - 1 < n
    BY <1>2, <2>1, <2>2
  <2>4. n - 1 \notin T
    <3> HIDE DEF T
    <3>1. QED
      BY <2>1, <2>3
  <2>5. PICK f : f = Upto(n - 1, f)
    <3> HIDE DEF Upto
    <3>1. QED
      BY <2>3, <2>4
  <2> DEFINE g == [i \in 0..n |-> IF i < n THEN f[i] ELSE Splice(f[n - 1], es[n])]
  <2>6. \A i \in 0..n - 1 : f[i] = IF i = 0 THEN src ELSE Splice(f[i - 1], es[i])
    BY <2>5
  <2>7. g[n] = Splice(f[n - 1], es[n]) /\ \A i \in 0..n - 1 : g[i] = f[i]
    BY <2>3
  <2>8. g = [i \in 0..n |-> g[i]]
    OBVIOUS
  <2> HIDE DEF g
  <2>9. \A i \in 0..n : g[i] = IF i = 0 THEN src ELSE Splice(g[i - 1], es[i])
    <3> SUFFICES ASSUME NEW i \in 0..n PROVE g[i] = IF i = 0 THEN src ELSE Splice(g[i - 1], es[i])
      OBVIOUS
    <3>1. CASE i = n
      <4>1. n - 1 \in 0..n - 1
        BY <2>3
      <4>2. QED
        BY <2>3, <2>7, <3>1, <4>1
    <3>2. CASE i \in 1..n - 1
      <4>1. i - 1 \in 0..n - 1 /\ i \in 0..n - 1 /\ i # 0
        BY <2>3, <3>2
      <4>2. QED
        BY <2>6, <2>7, <4>1
    <3>3. CASE i = 0
      BY <2>3, <2>6, <2>7, <3>3
    <3>4. QED
      BY <2>3, <3>1, <3>2, <3>3
  <2>10. g = Upto(n, g)
    BY <2>8, <2>9
  <2> HIDE DEF Upto
  <2>11. QED
    BY <2>1, <2>10
<1>5. \E f : f = Upto(N, f)
  <2>1. N \in 0..N
    BY <1>2
  <2>2. N \notin T
    <3> HIDE DEF T
    <3>1. QED
      BY <1>4
  <2> HIDE DEF Upto
  <2>3. QED
    BY <2>1, <2>2
<1> DEFINE spliced == CHOOSE f : f = Upto(N, f)
<1>6. spliced = Upto(N, spliced)
  <2> HIDE DEF Upto
  <2>1. QED
    BY <1>5
<1>7. SpliceAll(src, a) = spliced[N]
  <2>1. SpliceAll(src, a) = (CHOOSE f : f = Upto(Len(es), f))[Len(es)]
    BY DEF SpliceAll, es
  <2> HIDE DEF Upto
  <2>2. QED
    BY <1>3, <2>1
<1> HIDE DEF spliced
<1>8. spliced[0] = src /\ \A n \in 1..N : spliced[n] = Splice(spliced[n - 1], es[n])
  <2> DEFINE b == Upto(N, spliced)
  <2>1. b[0] = src /\ \A n \in 1..N : b[n] = Splice(spliced[n - 1], es[n])
    BY <1>2
  <2>2. spliced = b
    BY <1>6
  <2> HIDE DEF b
  <2>3. QED
    BY <2>1, <2>2
<1>9. \A n \in 1..N : spliced[n] = Splice(spliced[n - 1], a[from[n]])
  BY <1>3, <1>8
<1>10. Splicing(src, a, from, spliced)
  BY <1>1, <1>7, <1>8, <1>9 DEF Splicing, N
<1>11. QED
  BY <1>1, <1>10 DEF N

(* The back-to-front loop never leaves the bytes it has: it ends with a     *)
(* file made of what was there and of what the edits write.                 *)
LEMMA SplicedAll ==
  ASSUME NEW src \in Seq(Token), NEW a \in Seq(TextEdit),
         \A i, j \in 1..Len(a) : i # j => ~Overlap(a[i], a[j]),
         \A i \in 1..Len(a) : ~OutOfRange(a[i], Len(src))
  PROVE  /\ SpliceAll(src, a) \in Seq(Token)
         /\ \A k \in 1..Len(SpliceAll(src, a)) :
              \/ \E l \in 1..Len(src) : SpliceAll(src, a)[k] = src[l]
              \/ \E i \in 1..Len(a) : \E l \in 1..Len(a[i].text) : SpliceAll(src, a)[k] = a[i].text[l]
<1> DEFINE N == Len(a)
<1>a. PICK from \in [1..N -> 1..N] : \E spliced : Splicing(src, a, from, spliced)
  BY SpliceSteps
<1>b. PICK spliced : Splicing(src, a, from, spliced)
  BY <1>a
<1>1. /\ from \in [1..N -> 1..N]
      /\ \A r, q \in 1..N : from[r] = from[q] => r = q
      /\ \A r, q \in 1..N : r < q => a[from[q]].start <= a[from[r]].start
      /\ spliced[0] = src
      /\ \A n \in 1..N : spliced[n] = Splice(spliced[n - 1], a[from[n]])
      /\ SpliceAll(src, a) = spliced[N]
  BY <1>a, <1>b DEF Splicing
<1> DEFINE es == [r \in 1..N |-> a[from[r]]]
<1>2. N \in Nat /\ DOMAIN a = 1..N /\ \A i \in 1..N : a[i] \in TextEdit
  OBVIOUS
<1>3. \A r \in 1..N : es[r] = a[from[r]] /\ from[r] \in 1..N
  BY <1>1, <1>2
<1> HIDE DEF es, N
<1>4. ASSUME NEW r \in 1..N
      PROVE  es[r] \in TextEdit /\ ~OutOfRange(es[r], Len(src))
  BY <1>2, <1>3 DEF N
<1>5. ASSUME NEW r \in 1..N, NEW q \in 1..N, r < q
      PROVE  es[q].start <= es[r].start /\ ~Overlap(es[r], es[q])
  <2>1. r # q
    BY <1>2, <1>5
  <2>2. from[r] # from[q] /\ a[from[q]].start <= a[from[r]].start
    BY <1>1, <1>5, <2>1, Zenon
  <2>3. QED
    BY <1>3, <2>2 DEF N
<1>6. spliced[0] = src /\ \A n \in 1..N : spliced[n] = Splice(spliced[n - 1], es[n])
  BY <1>1, <1>3
<1> DEFINE Known(t) == \/ \E l \in 1..Len(src) : t = src[l]
                       \/ \E i \in 1..N : \E l \in 1..Len(a[i].text) : t = a[i].text[l]
           Good(n) == /\ spliced[n] \in Seq(Token)
                      /\ \A k \in 1..Len(spliced[n]) : Known(spliced[n][k])
                      /\ \A m \in n + 1..N : es[m].end <= Len(spliced[n])
<1>7. Good(0)
  <2>1. ASSUME NEW m \in 0 + 1..N PROVE es[m].end <= Len(src)
    <3>1. m \in 1..N
      BY <1>2
    <3>2. ~(es[m].end > Len(src)) /\ es[m].end \in Int
      BY <1>4, <3>1 DEF OutOfRange, TextEdit
    <3>3. QED
      BY <3>2
  <2>2. QED
    BY <1>6, <2>1
<1>8. ASSUME NEW n \in 1..N, Good(n - 1) PROVE Good(n)
  <2> DEFINE s == spliced[n - 1]
             e == es[n]
             t == spliced[n]
  <2>1. s \in Seq(Token) /\ (\A k \in 1..Len(s) : Known(s[k])) /\ \A m \in n - 1 + 1..N : es[m].end <= Len(s)
    BY <1>8
  <2>2. t = Splice(s, e) /\ e \in TextEdit /\ ~OutOfRange(e, Len(src))
    BY <1>4, <1>6
  <2>3. e.start \in Nat /\ e.end \in Nat /\ e.start <= e.end /\ e.text \in Seq(Token)
    BY <2>2 DEF OutOfRange, TextEdit
  <2>4. n \in n - 1 + 1..N /\ \A m \in n + 1..N : m \in n - 1 + 1..N /\ m \in 1..N /\ n < m
    BY <1>2
  <2>5. e.end <= Len(s)
    BY <2>1, <2>4
  <2>6. e = a[from[n]] /\ from[n] \in 1..N
    BY <1>3
  <2> HIDE DEF s, t, Known
  <2>7. ~OutOfRange(e, Len(s))
    BY <2>3, <2>5 DEF OutOfRange
  <2>8. /\ t \in Seq(Token)
        /\ Len(t) = Len(s) - (e.end - e.start) + Len(e.text)
        /\ \A k \in 1..Len(t) :
              \/ \E l \in 1..Len(s) : t[k] = s[l]
              \/ \E l \in 1..Len(e.text) : t[k] = e.text[l]
    BY <2>1, <2>2, <2>7, SplicedOnce
  <2>9. \A l \in 1..Len(e.text) : Known(e.text[l])
    BY <2>6 DEF Known
  <2>10. \A k \in 1..Len(t) : Known(t[k])
    BY <2>1, <2>8, <2>9
  <2>11. ASSUME NEW m \in n + 1..N PROVE es[m].end <= Len(t)
    <3> DEFINE d == es[m]
    <3>1. d.start <= e.start /\ ~Overlap(e, d) /\ d.end <= Len(s) /\ d \in TextEdit /\ ~OutOfRange(d, Len(src))
      BY <1>4, <1>5, <2>1, <2>4
    <3> HIDE DEF d, e
    <3>2. d.start \in Nat /\ d.end \in Nat /\ d.start <= d.end
      BY <3>1 DEF OutOfRange, TextEdit
    <3>3. Len(s) \in Nat /\ Len(e.text) \in Nat
      BY <2>1, <2>3
    <3>4. d.end <= e.start \/ e.start = e.end
      BY <2>3, <3>1, <3>2 DEF Overlap
    <3>5. e.start <= Len(s) - (e.end - e.start)
      BY <2>3, <2>5, <3>3
    <3>6. Len(t) \in Int /\ Len(s) - (e.end - e.start) <= Len(t)
      BY <2>3, <2>8, <3>3
    <3>7. CASE d.end <= e.start
      BY <2>3, <3>2, <3>3, <3>5, <3>6, <3>7 DEF d
    <3>8. CASE e.start = e.end
      BY <2>3, <3>1, <3>2, <3>3, <3>6, <3>8 DEF d
    <3>9. QED
      BY <3>4, <3>7, <3>8
  <2>12. QED
    BY <2>8, <2>10, <2>11 DEF t
<1> HIDE DEF Good
<1>9. Good(N)
  <2> DEFINE S == {n \in 0..N : Good(n)}
  <2> HIDE DEF Good
  <2>1. S \in SUBSET (0..N) /\ 0 \in S /\ \A n \in 1..N : n - 1 \in S => n \in S
    BY <1>2, <1>7, <1>8
  <2> HIDE DEF S
  <2>2. S = 0..N
    BY <1>2, <2>1, CountingUp
  <2>3. N \in 0..N
    BY <1>2
  <2>4. QED
    BY <2>2, <2>3 DEF S
<1>10. QED
  BY <1>1, <1>9 DEF Good, N

-----------------------------------------------------------------------------
(* What the clean-up of a file starts from: until something is written, the *)
(* disk is as it was read; the file being resolved may be touched, so its   *)
(* edits lie within it; and what is accepted are edits of its fixes.        *)
AsRead == pc \in {"group", "patch"} => \A f \in File : disk[f] = Source(f, kind[f])
MayTouch == cur # NoFile => ~Rejected(findings, cur, kind[cur])
EditOf(e, f) == \E i \in FixesOf(findings, f) : \E n \in 1..Len(Edits(i, f)) : e = Edits(i, f)[n]
FromFixes == \A n \in 1..Len(accepted) : EditOf(accepted[n], cur)

Grounds == AsRead /\ MayTouch /\ FromFixes /\ ImportsRestored /\ NoClobber

(* One file: the accepted edits are spliced into the bytes that were parsed, *)
(* and whatever they did to its imports is put right.                       *)
LEMMA CleanedFile ==
  ASSUME IInv, Grounds, pc = "patch", cur \in File, kind[cur] = "ok"
  PROVE  LET C == CleanImports(SpliceAll(disk[cur], accepted), disk[cur], kind[cur] = "linedir") IN
         /\ NoDuplicateImport(C)
         /\ NoOrphanImport(C)
         /\ MissingFixableImports(C) \subseteq MissingFixableImports(Orig[cur])
         /\ Imported(C) \cap (Declared(C) \cup MissingFixableImports(Orig[cur]))
              \subseteq Imported(Orig[cur]) \cup BroughtImports(cur)
<1> DEFINE src == Orig[cur]
           S == SpliceAll(src, accepted)
           C == CleanImports(S, src, FALSE)
<1>1. disk[cur] = src /\ Source(cur, kind[cur]) = src
  BY DEF Grounds, AsRead, Source
<1>2. CleanImports(SpliceAll(disk[cur], accepted), disk[cur], kind[cur] = "linedir") = C
  BY <1>1 DEF CleanImports
<1>3. src \in Seq(Token) /\ accepted \in Seq(TextEdit) /\ findings \in Inputs
  BY OrigIsParsed DEF IInv, TypeOK
<1> HIDE DEF src
<1>4. \A i, j \in 1..Len(accepted) : i # j => ~Overlap(accepted[i], accepted[j])
  BY <1>3 DEF IInv, AcceptedDisjoint
<1>5. ASSUME NEW n \in 1..Len(accepted) PROVE ~OutOfRange(accepted[n], Len(src))
  <2>1. cur # NoFile /\ ~Rejected(findings, cur, kind[cur])
    BY KindsAreKinds DEF Grounds, MayTouch
  <2>2. PICK i \in FixesOf(findings, cur) : \E m \in 1..Len(Edits(i, cur)) : accepted[n] = Edits(i, cur)[m]
    BY DEF Grounds, FromFixes, EditOf
  <2>3. PICK m \in 1..Len(Edits(i, cur)) : accepted[n] = Edits(i, cur)[m]
    BY <2>2
  <2>4. Edits(i, cur) \in Seq(TextEdit)
    BY <1>3, FixesTyped DEF Edits
  <2>5. m \in DOMAIN EditsIn(findings[i], cur) /\ accepted[n] = EditsIn(findings[i], cur)[m]
    BY <2>3, <2>4 DEF Edits
  <2>6. QED
    BY <1>1, <2>1, <2>5 DEF Rejected
<1>6. /\ S \in Seq(Token)
      /\ \A k \in 1..Len(S) :
              \/ \E l \in 1..Len(src) : S[k] = src[l]
              \/ \E i \in 1..Len(accepted) : \E l \in 1..Len(accepted[i].text) : S[k] = accepted[i].text[l]
  BY <1>3, <1>4, <1>5, SplicedAll
<1> HIDE DEF S
<1>7. /\ NoDuplicateImport(C)
      /\ NoOrphanImport(C)
      /\ MissingFixableImports(C) \subseteq MissingFixableImports(src)
      /\ Imported(C) \cap (Declared(C) \cup MissingFixableImports(src)) \subseteq Imported(S)
  BY <1>3, <1>6, Cleaned
<1>8. ASSUME NEW p \in Imported(S) PROVE p \in Imported(src) \cup BroughtImports(cur)
  <2>1. PICK k \in 1..Len(S) : S[k].imp = p
    BY <1>6 DEF Imported
  <2>2. p # NoPkg
    BY DEF Imported
  <2>3. CASE \E l \in 1..Len(src) : S[k] = src[l]
    BY <1>3, <2>1, <2>2, <2>3 DEF Imported
  <2>4. CASE \E i \in 1..Len(accepted) : \E l \in 1..Len(accepted[i].text) : S[k] = accepted[i].text[l]
    <3>1. PICK i \in 1..Len(accepted) : \E l \in 1..Len(accepted[i].text) : S[k] = accepted[i].text[l]
      BY <2>4
    <3>2. accepted[i] \in TextEdit
      BY <1>3
    <3>3. accepted[i].text \in Seq(Token)
      BY <3>2 DEF TextEdit
    <3>4. p \in Imported(accepted[i].text)
      BY <2>1, <2>2, <3>1, <3>3 DEF Imported
    <3>5. PICK x \in FixesOf(findings, cur) : \E m \in 1..Len(Edits(x, cur)) : accepted[i] = Edits(x, cur)[m]
      BY DEF Grounds, FromFixes, EditOf
    <3>6. PICK m \in 1..Len(Edits(x, cur)) : accepted[i] = Edits(x, cur)[m]
      BY <3>5
    <3>7. Edits(x, cur) \in Seq(TextEdit)
      BY <1>3, FixesTyped DEF Edits
    <3>8. m \in DOMAIN Edits(x, cur) /\ p \in Imported(Edits(x, cur)[m].text)
      BY <3>4, <3>6, <3>7
    <3>9. p \in BroughtImports(cur)
      BY <3>8 DEF BroughtImports
    <3>10. QED
      BY <3>9
  <2>5. QED
    BY <1>6, <2>3, <2>4
<1> HIDE DEF C
<1>9. QED
  BY <1>2, <1>7, <1>8 DEF src

(* What is said of the result only depends on the findings and the files.   *)
LEMMA ResultStays ==
  ASSUME Grounds, UNCHANGED <<findings, kind, files>>
  PROVE  (ImportsRestored /\ NoClobber)'
<1>1. \A f : BroughtImports(f)' = BroughtImports(f)
  BY DEF BroughtImports, Edits
<1>2. QED
  BY <1>1 DEF Grounds, ImportsRestored, NoClobber

LEMMA FromFixesStays ==
  ASSUME Grounds, UNCHANGED <<findings, cur, accepted>>
  PROVE  FromFixes'
BY DEF Grounds, FromFixes, EditOf, Edits

LEMMA NextGrounds == IInv /\ Grounds /\ [Next]_vars => Grounds'
<1> SUFFICES ASSUME IInv, Grounds, [Next]_vars PROVE Grounds'
  OBVIOUS
<1> USE DEF input
<1>1. CASE Group
  <2>1. pc = "group" /\ UNCHANGED <<findings, kind, disk, cur, accepted, files>>
    BY <1>1 DEF Group
  <2>2. QED
    BY <2>1, ResultStays, FromFixesStays DEF Grounds, AsRead, MayTouch
<1>2. ASSUME NEW f \in File, RejectFile(f) PROVE Grounds'
  <2>1. pc' = pc /\ UNCHANGED <<findings, kind, disk, cur, accepted, files>>
    BY <1>2 DEF RejectFile
  <2>2. QED
    BY <2>1, ResultStays, FromFixesStays DEF Grounds, AsRead, MayTouch
<1>3. ASSUME NEW f \in File, OpenFile(f) PROVE Grounds'
  <2>1. pc' = pc /\ UNCHANGED <<findings, kind, disk, files>> /\ cur' = f /\ accepted' = <<>> /\ ~Rejected(findings, f, kind[f])
    BY <1>3 DEF OpenFile
  <2>2. FromFixes'
    BY <2>1 DEF FromFixes
  <2>3. QED
    BY <2>1, <2>2, ResultStays DEF Grounds, AsRead, MayTouch
<1>4. CASE RejectMalformed \/ SkipOverlapping
  <2>1. pc' = pc /\ UNCHANGED <<findings, kind, disk, cur, accepted, files>>
    BY <1>4 DEF RejectMalformed, SkipOverlapping, Advance
  <2>2. QED
    BY <2>1, ResultStays, FromFixesStays DEF Grounds, AsRead, MayTouch
<1>5. CASE AcceptFix
  <2>1. Advance /\ pc' = pc /\ UNCHANGED <<findings, kind, disk, cur, files>> /\ accepted' = accepted \o NextEdits
    BY <1>5 DEF AcceptFix, Advance
  <2>2. NextFix \in FixesOf(findings, cur) /\ NextEdits \in Seq(TextEdit) /\ NextEdits = Edits(NextFix, cur)
    BY <2>1, HeadTyped DEF NextEdits
  <2>3. accepted \in Seq(TextEdit)
    BY DEF IInv, TypeOK
  <2>4. \A e, f : EditOf(e, f)' <=> EditOf(e, f)
    BY <2>1 DEF EditOf, Edits
  <2> DEFINE b == accepted \o NextEdits
  <2>5. /\ Len(b) = Len(accepted) + Len(NextEdits) /\ Len(accepted) \in Nat /\ Len(NextEdits) \in Nat
        /\ \A i \in 1..Len(accepted) : b[i] = accepted[i]
        /\ \A i \in Len(accepted) + 1..Len(b) : b[i] = NextEdits[i - Len(accepted)] /\ i - Len(accepted) \in 1..Len(NextEdits)
    BY <2>2, <2>3, ConcatProperties
  <2> HIDE DEF b
  <2>6. ASSUME NEW n \in 1..Len(b) PROVE EditOf(b[n], cur)
    <3>1. CASE n \in 1..Len(accepted)
      BY <2>5, <3>1 DEF Grounds, FromFixes
    <3>2. CASE n \in Len(accepted) + 1..Len(b)
      BY <2>2, <2>5, <3>2 DEF EditOf
    <3>3. QED
      BY <2>5, <3>1, <3>2
  <2>7. FromFixes'
    BY <2>1, <2>4, <2>6 DEF FromFixes, b
  <2>8. QED
    BY <2>1, <2>7, ResultStays DEF Grounds, AsRead, MayTouch
<1>6. CASE CloseUntouched \/ ClosePatched
  <2>1. CloseFile /\ pc = "patch" /\ pc' = pc /\ UNCHANGED <<findings, kind, disk>> /\ cur' = NoFile /\ accepted' = <<>>
    BY <1>6 DEF CloseUntouched, ClosePatched, CloseFile
  <2>2. AsRead' /\ MayTouch' /\ FromFixes'
    BY <2>1 DEF Grounds, AsRead, MayTouch, FromFixes
  <2>3. CASE CloseUntouched
    BY <2>1, <2>2, <2>3, ResultStays DEF Grounds, CloseUntouched
  <2>4. CASE ClosePatched
    <3> DEFINE C == CleanImports(SpliceAll(disk[cur], accepted), disk[cur], kind[cur] = "linedir")
    <3>1. cur \in File
      BY <2>1 DEF IInv, TypeOK, CloseFile
    <3>2. /\ DOMAIN files' = DOMAIN files \cup {cur}
          /\ files'[cur] = C
          /\ \A f \in DOMAIN files \ {cur} : files'[f] = files[f]
      BY <2>4 DEF ClosePatched
    <3>3. \A f : BroughtImports(f)' = BroughtImports(f)
      BY <2>1 DEF BroughtImports, Edits
    <3>4. kind[cur] = "ok" =>
            /\ NoDuplicateImport(C)
            /\ NoOrphanImport(C)
            /\ MissingFixableImports(C) \subseteq MissingFixableImports(Orig[cur])
            /\ Imported(C) \cap (Declared(C) \cup MissingFixableImports(Orig[cur]))
                 \subseteq Imported(Orig[cur]) \cup BroughtImports(cur)
      BY <2>1, <3>1, CleanedFile
    <3> HIDE DEF C
    <3>5. ImportsRestored'
      BY <2>1, <3>2, <3>4 DEF Grounds, ImportsRestored
    <3>6. NoClobber'
      BY <2>1, <3>2, <3>3, <3>4 DEF Grounds, NoClobber
    <3>7. QED
      BY <2>2, <3>5, <3>6 DEF Grounds
  <2>5. QED
    BY <1>6, <2>3, <2>4
<1>7. CASE StartWriting \/ ShowDiff \/ Finish \/ \E f \in File : WriteFile(f) \/ WriteFails(f)
  <2>1. pc' \notin {"group", "patch"} /\ UNCHANGED <<findings, kind, cur, accepted, files>>
    BY <1>7 DEF StartWriting, ShowDiff, Patched, Finish, WriteFile, WriteFails
  <2>2. QED
    BY <2>1, ResultStays, FromFixesStays DEF Grounds, AsRead, MayTouch
<1>8. CASE Return \/ UNCHANGED vars
  <2>1. pc' = pc /\ UNCHANGED <<findings, kind, disk, cur, accepted, files>>
    BY <1>8 DEF Return, vars
  <2>2. QED
    BY <2>1, ResultStays, FromFixesStays DEF Grounds, AsRead, MayTouch
<1>9. QED
  BY <1>1, <1>2, <1>3, <1>4, <1>5, <1>6, <1>7, <1>8 DEF Next

LEMMA InitGrounds == Init => Grounds
BY DEF Init, Grounds, AsRead, MayTouch, FromFixes, ImportsRestored, NoClobber

(* Whatever the findings, and whatever set of their fixes is accepted: the   *)
(* patched file imports nothing twice and nothing its code does not use,     *)
(* and misses no import that it did not miss before (dedupeImports,          *)
(* addReferencedStdlibImports, pruneOrphanedImports).                        *)
THEOREM ImportsAlwaysRestored == Spec => []ImportsRestored
<1>1. Grounds => ImportsRestored
  BY DEF Grounds
<1>2. QED
  BY InitIInv, NextIInv, InitGrounds, NextGrounds, <1>1, PTL DEF Spec

(* And the passes force no import on a name the file declares itself or      *)
(* already used without one: what they add was neither.                      *)
THEOREM NothingClobbered == Spec => []NoClobber
<1>1. Grounds => NoClobber
  BY DEF Grounds
<1>2. QED
  BY InitIInv, NextIInv, InitGrounds, NextGrounds, <1>1, PTL DEF Spec

-----------------------------------------------------------------------------
(* What the splicing comes to. Read from the front of the file, edits that  *)
(* do not tie each lie behind the one before; spliced from the back, each   *)
(* of them meets bytes that none of the others has moved.                   *)

(* Three texts put together, from either side.                              *)
Associate(u, t, v) == (u \o t) \o v = u \o (t \o v)

LEMMA JoinedThree ==
  ASSUME NEW u \in Seq(Token), NEW t \in Seq(Token), NEW v \in Seq(Token)
  PROVE  Associate(u, t, v)
BY ConcatAssociative DEF Associate

(* Four of them.                                                            *)
Regroup(m, u, t, v) == ((m \o u) \o t) \o v = m \o (u \o (t \o v))

LEMMA JoinedFour ==
  ASSUME NEW m \in Seq(Token), NEW u \in Seq(Token), NEW t \in Seq(Token), NEW v \in Seq(Token)
  PROVE  Regroup(m, u, t, v)
<1> DEFINE w == m \o u
           x == t \o v
<1>1. w \in Seq(Token) /\ x \in Seq(Token)
  BY Joined
<1> HIDE DEF w, x
<1>2. Associate(w, t, v) /\ Associate(m, u, x)
  BY <1>1, JoinedThree
<1>3. QED
  BY <1>2 DEF Associate, Regroup, w, x

(* A stretch of a text. *)
LEMMA Cut ==
  ASSUME NEW s \in Seq(Token), NEW n \in 0..Len(s), NEW m \in 0..n
  PROVE  /\ SubSeq(s, m + 1, n) \in Seq(Token) /\ Len(SubSeq(s, m + 1, n)) = n - m
         /\ \A i \in 1..n - m : SubSeq(s, m + 1, n)[i] = s[m + i]
<1> DEFINE v == SubSeq(s, m + 1, n)
           a == m + 1
<1>1. Len(s) \in Nat /\ n \in Int /\ a \in Int /\ m \in Nat /\ n \in Nat /\ m <= n /\ n <= Len(s)
  OBVIOUS
<1>2. ASSUME NEW i \in a..n PROVE s[i] \in Token
  <2>1. i \in 1..Len(s)
    BY <1>1
  <2>2. QED
    BY <2>1
<1> HIDE DEF v
<1>3. /\ v \in Seq(Token) /\ Len(v) = (IF a <= n THEN n - a + 1 ELSE 0)
      /\ \A i \in 1..n - a + 1 : v[i] = s[a + i - 1]
  <2> HIDE DEF a
  <2>1. v = SubSeq(s, a, n)
    BY DEF v, a
  <2>2. QED
    BY <1>1, <1>2, <2>1, SubSeqProperties
<1>4. Len(v) = n - m /\ n - a + 1 = n - m
  BY <1>1, <1>3
<1>5. ASSUME NEW i \in 1..n - m PROVE v[i] = s[m + i]
  <2>1. a + i - 1 = m + i
    BY <1>1
  <2>2. QED
    BY <1>3, <1>4, <2>1
<1>6. QED
  BY <1>3, <1>4, <1>5 DEF v

(* Cutting a text in two loses nothing, and a cut in the first of two       *)
(* joined texts leaves the second one alone.                                *)
LEMMA CutJoined ==
  ASSUME NEW src \in Seq(Token), NEW t \in Seq(Token), NEW c \in 0..Len(src),
         NEW x \in 0..c, NEW y \in 0..c
  PROVE  LET s == SubSeq(src, 1, c) \o t IN
         /\ SubSeq(s, 1, x) = SubSeq(src, 1, x)
         /\ SubSeq(s, y + 1, Len(s)) = SubSeq(src, y + 1, c) \o t
<1> DEFINE u == SubSeq(src, 1, c)
           s == u \o t
           v == SubSeq(src, y + 1, c)
           w == SubSeq(src, 1, x)
           b == v \o t
           front == SubSeq(s, 1, x)
           back == SubSeq(s, y + 1, Len(s))
<1>1. /\ Len(src) \in Nat /\ c \in Nat /\ c <= Len(src) /\ Len(t) \in Nat
      /\ x \in Nat /\ y \in Nat /\ x <= c /\ y <= c
  OBVIOUS
<1>2. u \in Seq(Token) /\ Len(u) = c /\ \A i \in 1..c : u[i] = src[i]
  <2>1. 0 \in 0..c /\ u = SubSeq(src, 0 + 1, c) /\ c - 0 = c
    BY <1>1
  <2> HIDE DEF u
  <2>2. u \in Seq(Token) /\ Len(u) = c - 0 /\ \A i \in 1..c - 0 : u[i] = src[0 + i]
    BY <2>1, Cut
  <2>3. QED
    BY <1>1, <2>2
<1>3. v \in Seq(Token) /\ Len(v) = c - y /\ \A i \in 1..c - y : v[i] = src[y + i]
  BY Cut
<1>4. w \in Seq(Token) /\ Len(w) = x /\ \A i \in 1..x : w[i] = src[i]
  <2>1. 0 \in 0..x /\ x \in 0..Len(src) /\ w = SubSeq(src, 0 + 1, x) /\ x - 0 = x
    BY <1>1
  <2> HIDE DEF w
  <2>2. w \in Seq(Token) /\ Len(w) = x - 0 /\ \A i \in 1..x - 0 : w[i] = src[0 + i]
    BY <2>1, Cut
  <2>3. QED
    BY <1>1, <2>2
<1> HIDE DEF u, v, w
<1>5. /\ s \in Seq(Token) /\ Len(s) = Len(u) + Len(t)
      /\ \A k \in 1..Len(u) : s[k] = u[k]
      /\ \A k \in Len(u) + 1..Len(s) : s[k] = t[k - Len(u)]
  BY <1>2, Joined
<1>6. /\ b \in Seq(Token) /\ Len(b) = Len(v) + Len(t)
      /\ \A k \in 1..Len(v) : b[k] = v[k]
      /\ \A k \in Len(v) + 1..Len(b) : b[k] = t[k - Len(v)]
  BY <1>3, Joined
<1> HIDE DEF s, b
<1>7. Len(s) = c + Len(t) /\ Len(b) = c - y + Len(t)
  BY <1>2, <1>3, <1>5, <1>6
<1>8. \A k \in 1..c : s[k] = src[k]
  BY <1>2, <1>5
<1>9. front = w
  <2>1. 0 \in 0..x /\ x \in 0..Len(s) /\ front = SubSeq(s, 0 + 1, x) /\ x - 0 = x
    BY <1>1, <1>7
  <2> HIDE DEF front
  <2>2. front \in Seq(Token) /\ Len(front) = x - 0 /\ \A i \in 1..x - 0 : front[i] = s[0 + i]
    BY <1>5, <2>1, Cut
  <2>3. Len(front) = Len(w) /\ \A i \in 1..Len(front) : front[i] = w[i]
    BY <1>1, <1>4, <1>8, <2>2
  <2>4. QED
    BY <1>4, <2>2, <2>3, SeqEqual
<1>10. back = b
  <2>1. Len(s) \in 0..Len(s) /\ y \in 0..Len(s) /\ Len(s) - y = c - y + Len(t)
    BY <1>1, <1>7
  <2> HIDE DEF back
  <2>2. back \in Seq(Token) /\ Len(back) = Len(s) - y /\ \A i \in 1..Len(s) - y : back[i] = s[y + i]
    BY <1>5, <2>1, Cut DEF back
  <2>3. ASSUME NEW i \in 1..Len(back) PROVE back[i] = b[i]
    <3>1. i \in Nat /\ 1 <= i /\ i <= c - y + Len(t) /\ back[i] = s[y + i]
      BY <1>1, <2>1, <2>2
    <3>2. CASE i <= c - y
      <4>1. y + i \in 1..c /\ i \in 1..c - y
        BY <1>1, <3>1, <3>2
      <4>2. s[y + i] = src[y + i] /\ b[i] = v[i] /\ v[i] = src[y + i]
        BY <1>3, <1>6, <1>8, <4>1
      <4>3. QED
        BY <3>1, <4>2
    <3>3. CASE ~(i <= c - y)
      <4> DEFINE j == y + i - Len(u)
      <4>1. y + i \in Len(u) + 1..Len(s) /\ i \in Len(v) + 1..Len(b) /\ j = i - Len(v)
        BY <1>1, <1>2, <1>3, <1>7, <3>1, <3>3
      <4>2. s[y + i] = t[j]
        <5>1. \A l \in Len(u) + 1..Len(s) : s[l] = t[l - Len(u)]
          BY <1>5
        <5>2. QED
          BY <4>1, <5>1
      <4> HIDE DEF j
      <4>3. \A l \in Len(v) + 1..Len(b) : b[l] = t[l - Len(v)]
        BY <1>6
      <4>4. b[i] = t[i - Len(v)]
        BY <4>1, <4>3, Zenon
      <4>5. QED
        BY <3>1, <4>1, <4>2, <4>4
    <3>4. QED
      BY <3>2, <3>3
  <2>4. Len(back) = Len(b)
    BY <1>7, <2>1, <2>2
  <2>5. QED
    BY <1>6, <2>2, <2>3, <2>4, SeqEqual
<1>11. QED
  BY <1>9, <1>10 DEF s, b, u, v, w

(* An edit in what is untouched in front of a text.                         *)
SplicesBefore(src, c, t, e) ==
  Splice(SubSeq(src, 1, c) \o t, e)
    = SubSeq(src, 1, e.start) \o (e.text \o (SubSeq(src, e.end + 1, c) \o t))

LEMMA SplicedBefore ==
  ASSUME NEW src \in Seq(Token), NEW t \in Seq(Token), NEW c \in 0..Len(src),
         NEW e \in TextEdit, 0 <= e.start, e.start <= e.end, e.end <= c
  PROVE  SplicesBefore(src, c, t, e)
<1> DEFINE s == SubSeq(src, 1, c) \o t
           x == e.start
           y == e.end
           w == SubSeq(src, 1, x)
           v == SubSeq(src, y + 1, c)
           b == v \o t
           p == e.text
<1>1. x \in 0..c /\ y \in 0..c /\ p \in Seq(Token) /\ c \in Nat /\ c <= Len(src) /\ Len(src) \in Nat
  BY DEF TextEdit
<1>2. Splice(s, e) = SubSeq(s, 1, x) \o p \o SubSeq(s, y + 1, Len(s))
  BY DEF Splice
<1> HIDE DEF x, y, p
<1>3. SubSeq(s, 1, x) = w /\ SubSeq(s, y + 1, Len(s)) = b
  BY <1>1, CutJoined
<1>4. v \in Seq(Token)
  BY <1>1, Cut
<1>5. w \in Seq(Token)
  <2>1. 0 \in 0..x /\ x \in 0..Len(src) /\ w = SubSeq(src, 0 + 1, x)
    BY <1>1
  <2>2. QED
    BY <2>1, Cut
<1> HIDE DEF s, w, v
<1>6. b \in Seq(Token)
  BY <1>4, Joined
<1> HIDE DEF b
<1>7. (w \o p) \o b = w \o (p \o b)
  <2>1. Associate(w, p, b)
    BY <1>1, <1>5, <1>6, JoinedThree
  <2>2. QED
    BY <2>1 DEF Associate
<1>8. QED
  BY <1>2, <1>3, <1>7 DEF SplicesBefore, s, x, y, w, v, b, p

(* The steps of a merge, front to back.                                     *)
LEMMA MergeSteps ==
  ASSUME NEW src \in Seq(Token), NEW q \in Seq(TextEdit), InFileOrder(q),
         \A i \in 1..Len(q) : ~OutOfRange(q[i], Len(src)),
         NEW upto, upto[0] = 0, \A k \in 1..Len(q) : upto[k] = q[k].end
  PROVE  \E merged \in [0..Len(q) -> Seq(Token)] :
           /\ merged[0] = <<>>
           /\ \A k \in 1..Len(q) :
                merged[k] = merged[k - 1] \o SubSeq(src, upto[k - 1] + 1, q[k].start) \o q[k].text
           /\ Merge(src, q) = merged[Len(q)] \o SubSeq(src, upto[Len(q)] + 1, Len(src))
<1> DEFINE N == Len(q)
           X == Seq(Token)
           gap(k) == SubSeq(src, upto[k - 1] + 1, q[k].start)
           x0 == <<>>
           step == [k \in 1..N |-> [s \in X |-> s \o gap(k) \o q[k].text]]
           end(k) == IF k = 0 THEN 0 ELSE q[k].end
           Body(f) == [k \in 0..N |->
                         IF k = 0 THEN <<>>
                         ELSE f[k - 1] \o SubSeq(src, end(k - 1) + 1, q[k].start) \o q[k].text]
           merged == CHOOSE f : f = Body(f)
<1>1. N \in Nat /\ <<>> \in X /\ Len(src) \in Nat /\ DOMAIN q = 1..N
  OBVIOUS
<1>2. ASSUME NEW k \in 1..N
      PROVE  /\ q[k].start \in 0..Len(src) /\ q[k].end \in 0..Len(src) /\ q[k].start <= q[k].end
             /\ q[k].text \in X
  <2> DEFINE e == q[k]
  <2>1. e \in TextEdit /\ ~OutOfRange(e, Len(src))
    OBVIOUS
  <2> HIDE DEF e
  <2>2. /\ e.start \in 0..Len(src) /\ e.end \in 0..Len(src) /\ e.start <= e.end
        /\ e.text \in Seq(Token)
    BY <1>1, <2>1 DEF OutOfRange, TextEdit
  <2>3. QED
    BY <2>2 DEF e
<1>3. \A k \in 0..N : upto[k] = end(k)
  BY <1>1
<1>4. ASSUME NEW k \in 1..N PROVE gap(k) \in X
  <2>1. upto[k - 1] \in 0..q[k].start
    <3>1. CASE k = 1
      BY <1>2, <3>1
    <3>2. CASE k # 1
      <4>1. k - 1 \in 1..N /\ k - 1 < k
        BY <1>1, <3>2
      <4>2. q[k - 1].end <= q[k].start
        BY <1>1, <4>1 DEF InFileOrder
      <4>3. QED
        BY <1>2, <4>1, <4>2
    <3>3. QED
      BY <3>1, <3>2
  <2>2. q[k].start \in 0..Len(src)
    BY <1>2
  <2>3. QED
    BY <2>1, <2>2, Cut
<1> HIDE DEF gap
<1>5. step \in [1..N -> [X -> X]] /\ x0 \in X /\ N \in Nat
  <2>1. ASSUME NEW k \in 1..N, NEW s \in X PROVE s \o gap(k) \o q[k].text \in X
    <3>1. s \o gap(k) \in X
      BY <1>4, Joined
    <3>2. QED
      BY <1>2, <3>1, Joined
  <2>2. QED
    BY <1>1, <2>1
<1>6. PICK f \in [0..N -> X] : f[0] = x0 /\ \A k \in 1..N : f[k] = step[k][f[k - 1]]
  <2> HIDE DEF X, x0, N, step
  <2>1. Runs(X, x0, N, step) # {}
    BY <1>5, Looping
  <2>2. QED
    BY <2>1 DEF Runs
<1> HIDE DEF N, X, step, end
<1>7. \A k \in 1..N : k - 1 \in 0..N /\ f[k - 1] \in X
  BY <1>1, <1>6
<1>8. \A k \in 1..N : f[k] = f[k - 1] \o gap(k) \o q[k].text
  BY <1>6, <1>7 DEF step
<1>9. \A k \in 1..N : gap(k) = SubSeq(src, end(k - 1) + 1, q[k].start)
  BY <1>3, <1>7 DEF gap
<1>10. f = Body(f)
  <2>1. \A k \in 0..N : k = 0 \/ k \in 1..N
    BY <1>1
  <2>2. \A k \in 0..N : f[k] = Body(f)[k]
    BY <1>6, <1>8, <1>9, <2>1
  <2>3. QED
    BY <1>6, <2>2
<1>11. merged = Body(merged)
  <2> HIDE DEF Body
  <2>1. QED
    BY <1>10, Zenon
<1>12. Merge(src, q) = merged[N] \o SubSeq(src, end(N) + 1, Len(src))
  BY DEF Merge, N, end
<1> HIDE DEF merged
<1>13. merged[0] = <<>> /\ \A k \in 1..N : merged[k] = merged[k - 1] \o gap(k) \o q[k].text
  <2> DEFINE b == Body(merged)
  <2>1. 0 \in 0..N /\ \A k \in 1..N : k \in 0..N /\ k # 0
    BY <1>1
  <2>1a. b[0] = <<>> /\ \A k \in 1..N : b[k] = merged[k - 1] \o gap(k) \o q[k].text
    <3> HIDE DEF end, gap
    <3> QED BY <1>9, <2>1
  <2>2. merged = b
    BY <1>11
  <2> HIDE DEF b
  <2>3. QED
    BY <2>1a, <2>2
<1> DEFINE S == {k \in 0..N : merged[k] = f[k]}
<1>14. S = 0..N
  <2>1. ASSUME NEW k \in 1..N, k - 1 \in S PROVE k \in S
    <3>1. merged[k - 1] = f[k - 1] /\ k \in 0..N
      BY <1>1, <2>1
    <3>2. merged[k] = merged[k - 1] \o gap(k) \o q[k].text
      BY <1>13
    <3>3. f[k] = f[k - 1] \o gap(k) \o q[k].text
      BY <1>8
    <3>4. QED
      BY <3>1, <3>2, <3>3
  <2>2. 0 \in S /\ S \in SUBSET (0..N)
    BY <1>1, <1>6, <1>13
  <2> HIDE DEF S
  <2>3. QED
    BY <1>1, <2>1, <2>2, CountingUp
<1>15. f[N] = merged[N] /\ end(N) = upto[N]
  BY <1>1, <1>3, <1>14
<1>16. QED
  BY <1>6, <1>8, <1>12, <1>15 DEF gap, N, X

(* What the splicing loop makes of edits that do not tie is what they mean: *)
(* after n rounds, what is in front of the n last edits is untouched, and   *)
(* what is behind it is what the merge ends with.                           *)
LEMMA SpliceIsMerge ==
  ASSUME NEW src \in Seq(Token), NEW q \in Seq(TextEdit), InFileOrder(q),
         \A i \in 1..Len(q) : ~OutOfRange(q[i], Len(src)),
         NEW spliced, spliced[0] = src,
         \A n \in 1..Len(q) : spliced[n] = Splice(spliced[n - 1], q[Len(q) + 1 - n])
  PROVE  spliced[Len(q)] = Merge(src, q)
<1> DEFINE N == Len(q)
           X == Seq(Token)
           L == Len(src)
           upto == [k \in 0..N |-> IF k = 0 THEN 0 ELSE q[k].end]
           cut == [n \in 0..N |-> IF n = 0 THEN L ELSE q[N + 1 - n].start]
           M == Merge(src, q)
<1>1. N \in Nat /\ <<>> \in X /\ L \in Nat /\ DOMAIN q = 1..N
  OBVIOUS
<1>2. ASSUME NEW k \in 1..N
      PROVE  /\ q[k].start \in 0..L /\ q[k].end \in 0..L /\ q[k].start <= q[k].end
             /\ q[k].text \in X /\ q[k] \in TextEdit
  <2> DEFINE e == q[k]
  <2>1. e \in TextEdit /\ ~OutOfRange(e, Len(src))
    OBVIOUS
  <2> HIDE DEF e
  <2>2. e.start \in Int /\ e.end \in Int /\ e.text \in X
    BY <2>1 DEF TextEdit
  <2>3. 0 <= e.start /\ e.start <= e.end /\ e.end <= L
    BY <1>1, <2>1, <2>2 DEF OutOfRange
  <2>4. e.start \in 0..L /\ e.end \in 0..L
    BY <1>1, <2>2, <2>3
  <2>5. QED
    BY <2>1, <2>2, <2>3, <2>4 DEF e
<1>3. upto[0] = 0 /\ \A k \in 1..N : upto[k] = q[k].end
  BY <1>1
<1>4. cut[0] = L /\ \A n \in 1..N : cut[n] = q[N + 1 - n].start
  BY <1>1
<1>5. \A n \in 1..N : spliced[n] = Splice(spliced[n - 1], q[N + 1 - n])
  OBVIOUS
<1>6. \A k, l \in 1..N : k < l => q[k].end <= q[l].start
  BY <1>1 DEF InFileOrder
<1> HIDE DEF upto, cut
<1>7. PICK merged \in [0..N -> X] :
           /\ merged[0] = <<>>
           /\ \A k \in 1..N : merged[k] = merged[k - 1] \o SubSeq(src, upto[k - 1] + 1, q[k].start) \o q[k].text
           /\ M = merged[N] \o SubSeq(src, upto[N] + 1, L)
  BY <1>3, MergeSteps, Zenon
<1> HIDE DEF N, X, L, M
<1>8. \A n \in 0..N : cut[n] \in 0..L /\ upto[N - n] \in 0..cut[n]
  <2> SUFFICES ASSUME NEW n \in 0..N PROVE cut[n] \in 0..L /\ upto[N - n] \in 0..cut[n]
    OBVIOUS
  <2>1. N - n \in 0..N
    BY <1>1
  <2>2. CASE n = 0
    <3>1. cut[n] = L /\ N - n = N
      BY <1>1, <1>4, <2>2
    <3>2. upto[N] \in 0..L
      BY <1>1, <1>2, <1>3
    <3>3. QED
      BY <1>1, <3>1, <3>2
  <2>3. CASE n # 0
    <3>1. n \in 1..N /\ N + 1 - n \in 1..N /\ N - n < N + 1 - n
      BY <1>1, <2>3
    <3>2. cut[n] = q[N + 1 - n].start /\ cut[n] \in 0..L
      BY <1>2, <1>4, <3>1
    <3>3. CASE N - n = 0
      BY <1>1, <1>3, <3>2, <3>3
    <3>4. CASE N - n # 0
      <4>1. N - n \in 1..N
        BY <2>1, <3>4
      <4>2. upto[N - n] = q[N - n].end /\ q[N - n].end \in 0..L
        BY <1>2, <1>3, <4>1
      <4>3. q[N - n].end <= q[N + 1 - n].start
        BY <1>6, <3>1, <4>1
      <4>4. QED
        BY <1>1, <3>2, <4>2, <4>3
    <3>5. QED
      BY <3>3, <3>4
  <2>4. QED
    BY <2>2, <2>3
<1> DEFINE Good(n) == \E t \in X :
             /\ spliced[n] = SubSeq(src, 1, cut[n]) \o t
             /\ M = merged[N - n] \o (SubSeq(src, upto[N - n] + 1, cut[n]) \o t)
           S == {n \in 0..N : Good(n)}
<1>9. Good(0)
  <2>1. SubSeq(src, 1, L) = src /\ N - 0 = N /\ cut[0] = L
    BY <1>1, <1>4 DEF L
  <2>2. src \o <<>> = src
    BY ConcatEmptySeq
  <2>3. SubSeq(src, upto[N] + 1, L) \o <<>> = SubSeq(src, upto[N] + 1, L)
    <3>1. L \in 0..Len(src) /\ upto[N] \in 0..L
      BY <1>1, <1>8, <2>1 DEF L
    <3>2. SubSeq(src, upto[N] + 1, L) \in Seq(Token)
      BY <3>1, Cut
    <3>3. QED
      BY <3>2, ConcatEmptySeq
  <2>4. QED
    BY <1>1, <1>7, <2>1, <2>2, <2>3
<1>10. ASSUME NEW n \in 1..N, Good(n - 1) PROVE Good(n)
  <2> DEFINE e == q[N + 1 - n]
             c == cut[n - 1]
             k == N + 1 - n
             y == e.end
             x == e.start
             p == e.text
  <2>1. PICK t \in X :
          /\ spliced[n - 1] = SubSeq(src, 1, c) \o t
          /\ M = merged[N - (n - 1)] \o (SubSeq(src, upto[N - (n - 1)] + 1, c) \o t)
    BY <1>10
  <2>2. k \in 1..N /\ n - 1 \in 0..N /\ N - (n - 1) = k /\ k - 1 = N - n /\ n \in 0..N /\ k - 1 \in 0..N
    BY <1>1
  <2> HIDE DEF k
  <2>3. e = q[k] /\ e \in TextEdit /\ x \in 0..L /\ y \in 0..L /\ x <= y /\ p \in X /\ upto[k] = y
    BY <1>2, <1>3, <2>2 DEF k
  <2>4. c \in 0..L /\ y \in 0..c /\ cut[n] = x
    BY <1>4, <1>8, <2>2, <2>3
  <2>5. /\ x \in 0..L /\ upto[k - 1] \in 0..x
    BY <1>8, <2>2, <2>3, <2>4
  <2> DEFINE gap == SubSeq(src, upto[k - 1] + 1, x)
             v == SubSeq(src, y + 1, c)
             w == SubSeq(src, 1, x)
             b == v \o t
             r == p \o b
  <2>6. gap \in X /\ v \in X
    <3> HIDE DEF c, x, y
    <3>1. QED
      BY <1>1, <2>4, <2>5, Cut DEF L, X
  <2>7. spliced[n] = w \o r
    <3>1. spliced[n] = Splice(spliced[n - 1], e)
      BY <1>5
    <3>2. c \in 0..Len(src) /\ t \in Seq(Token)
      BY <2>1, <2>4 DEF L, X
    <3> HIDE DEF c, e
    <3>2a. 0 <= e.start /\ e.start <= e.end /\ e.end <= c
      BY <1>1, <2>3, <2>4
    <3>3. SplicesBefore(src, c, t, e)
      BY <2>3, <3>2, <3>2a, SplicedBefore
    <3>4. QED
      BY <2>1, <3>1, <3>3 DEF SplicesBefore
  <2>8. merged[k] = merged[k - 1] \o gap \o p /\ merged[k - 1] \in X
    BY <1>7, <2>2, <2>3
  <2>9. M = merged[k] \o b
    BY <2>1, <2>2, <2>3
  <2> HIDE DEF e, c, k, y, x, p, gap, v, w
  <2>10. b \in X
    BY <2>1, <2>6, Joined DEF X
  <2> HIDE DEF b
  <2>11. r \in X
    BY <2>3, <2>10, Joined DEF X
  <2> DEFINE m == merged[k - 1]
  <2>12. ((m \o gap) \o p) \o b = m \o (gap \o r)
    <3> HIDE DEF m
    <3>1. m \in Seq(Token) /\ gap \in Seq(Token) /\ p \in Seq(Token) /\ b \in Seq(Token) /\ r \in Seq(Token)
      BY <2>3, <2>6, <2>8, <2>10, <2>11 DEF X, m
    <3>2. Regroup(m, gap, p, b)
      BY <3>1, JoinedFour
    <3>3. QED
      BY <3>2 DEF Regroup, r
  <2>13. M = m \o (gap \o r)
    BY <2>8, <2>9, <2>12
  <2> HIDE DEF r
  <2>14. spliced[n] = SubSeq(src, 1, cut[n]) \o r
    BY <2>4, <2>7 DEF w
  <2>15. M = merged[N - n] \o (SubSeq(src, upto[N - n] + 1, cut[n]) \o r)
    BY <2>2, <2>4, <2>13 DEF gap, m
  <2>16. QED
    BY <2>11, <2>14, <2>15
<1> HIDE DEF Good
<1>11. S = 0..N
  <2>1. 0 \in S /\ S \in SUBSET (0..N)
    BY <1>1, <1>9
  <2>2. \A n \in 1..N : n - 1 \in S => n \in S
    BY <1>1, <1>10
  <2> HIDE DEF S
  <2>3. QED
    BY <1>1, <2>1, <2>2, CountingUp
<1>12. PICK t \in X :
             /\ spliced[N] = SubSeq(src, 1, cut[N]) \o t
             /\ M = merged[N - N] \o (SubSeq(src, upto[N - N] + 1, cut[N]) \o t)
  BY <1>1, <1>11 DEF Good
<1>13. N - N = 0 /\ upto[0] + 1 = 1 /\ cut[N] \in 0..Len(src) /\ 0 \in 0..cut[N]
  BY <1>1, <1>3, <1>8 DEF L
<1> DEFINE w == SubSeq(src, 1, cut[N])
<1>14. w \o t \in Seq(Token)
  <2>1. SubSeq(src, 0 + 1, cut[N]) \in Seq(Token)
    BY <1>13, Cut
  <2>2. w \in Seq(Token)
    BY <2>1
  <2>3. QED
    BY <1>12, <2>2, Joined DEF X
<1>15. <<>> \o (w \o t) = w \o t
  <2> DEFINE s == w \o t
  <2> HIDE DEF s
  <2>1. QED
    BY <1>14, ConcatEmptySeq DEF s
<1>16. QED
  BY <1>7, <1>12, <1>13, <1>15 DEF N, M

-----------------------------------------------------------------------------
(* The refinement. What AtomicFix says of files, fixes and edits is, under  *)
(* the refinement mapping, what the operators of the same names say here.   *)
LEMMA SameOperators ==
  /\ \A i, f : Atomic!Edits(i, f) = Edits(i, f)
  /\ \A f : Atomic!FixesOf(findings, f) = FixesOf(findings, f)
  /\ \A es : Atomic!SelfOverlaps(es) = SelfOverlaps(es)
  /\ \A es, a : Atomic!Conflicts(es, a) = Conflicts(es, a)
  /\ \A S : Atomic!SetToSeqs(S) = SetToSeqs(S)
  /\ \A q : Atomic!InFileOrder(q) = InFileOrder(q)
  /\ \A s, q : Atomic!Merge(s, q) = Merge(s, q)
  /\ \A f, k : Atomic!Source(f, k) = Source(f, k)
  /\ \A f, k : Atomic!Rejected(findings, f, k) = Rejected(findings, f, k)
<1>1. \A i, f : Atomic!Edits(i, f) = Edits(i, f)
  BY DEF Atomic!Edits, Edits, Atomic!EditsIn, EditsIn
<1>2. \A f : Atomic!FixesOf(findings, f) = FixesOf(findings, f)
  BY DEF Atomic!FixesOf, FixesOf, Atomic!UsesFix, UsesFix, Atomic!Resolvable, Resolvable, Atomic!EditsIn, EditsIn
<1>3. \A es : Atomic!SelfOverlaps(es) = SelfOverlaps(es)
  BY DEF Atomic!SelfOverlaps, SelfOverlaps, Atomic!Overlap, Overlap
<1>4. \A es, a : Atomic!Conflicts(es, a) = Conflicts(es, a)
  BY DEF Atomic!Conflicts, Conflicts, Atomic!Overlap, Overlap
<1>5. \A S : Atomic!SetToSeqs(S) = SetToSeqs(S)
  BY DEF Atomic!SetToSeqs, SetToSeqs, Atomic!Cardinality, Cardinality
<1>6. \A q : Atomic!InFileOrder(q) = InFileOrder(q)
  BY DEF Atomic!InFileOrder, InFileOrder
<1>7. \A s, q : Atomic!Merge(s, q) = Merge(s, q)
  BY DEF Atomic!Merge, Merge
<1>8. \A f, k : Atomic!Source(f, k) = Source(f, k)
  BY DEF Atomic!Source, Source
<1>9. \A f, k : Atomic!Rejected(findings, f, k) = Rejected(findings, f, k)
  BY <1>2, <1>8 DEF Atomic!Rejected, Rejected, Atomic!OutOfRange, OutOfRange, Atomic!EditsIn, EditsIn
<1>10. QED
  BY <1>1, <1>2, <1>3, <1>4, <1>5, <1>6, <1>7, <1>8, <1>9

(* Neither do the import passes differ.                                     *)
LEMMA SameCleanUp ==
  \A s, o, l : Atomic!CleanImports(s, o, l) = CleanImports(s, o, l)
<1>1. \A s : Atomic!Uses(s) = Uses(s) /\ Atomic!Imported(s) = Imported(s) /\ Atomic!Declared(s) = Declared(s)
  BY DEF Atomic!Uses, Uses, Atomic!Imported, Imported, Atomic!Declared, Declared
<1>2. \A s : Atomic!MissingFixableImports(s) = MissingFixableImports(s)
  BY <1>1 DEF Atomic!MissingFixableImports, MissingFixableImports
<1>3. \A s, I : Atomic!Keep(s, I) = Keep(s, I)
  BY DEF Atomic!Keep, Keep
<1>4. \A s : Atomic!DedupeImports(s) = DedupeImports(s)
  BY <1>3 DEF Atomic!DedupeImports, DedupeImports
<1>5. \A s : Atomic!PruneOrphanedImports(s) = PruneOrphanedImports(s)
  BY <1>1, <1>3 DEF Atomic!PruneOrphanedImports, PruneOrphanedImports
<1>6. \A S : Atomic!Cardinality(S) = Cardinality(S)
  BY DEF Atomic!Cardinality, Cardinality
<1>7. \A S : Atomic!SetToSeq(S) = SetToSeq(S)
  BY <1>6 DEF Atomic!SetToSeq, SetToSeq, Atomic!IsInjective, IsInjective
<1>8. \A s, o : Atomic!AddReferencedStdlibImports(s, o) = AddReferencedStdlibImports(s, o)
  BY <1>2, <1>7 DEF Atomic!AddReferencedStdlibImports, AddReferencedStdlibImports, Atomic!ImportSpec, ImportSpec
<1>9. QED
  BY <1>4, <1>5, <1>8 DEF Atomic!CleanImports, CleanImports

(* What becomes of the fixes of the current file: the applied ones are      *)
(* well formed and their edits, each once, are the accepted edits; only a   *)
(* malformed one has failed.                                                *)
AppliedFixes == {i \in JudgedIn(cur) : <<i, cur>> \in DOMAIN verdict /\ verdict[<<i, cur>>] = "applied"}
EditsOf(S) == UNION {{i} \X DOMAIN Edits(i, cur) : i \in S}
Enrolls(place) ==
  /\ place \in [1..Len(accepted) -> EditsOf(AppliedFixes)]
  /\ \A k, l \in 1..Len(accepted) : place[k] = place[l] => k = l
  /\ \A x \in EditsOf(AppliedFixes) : \E k \in 1..Len(accepted) : place[k] = x
  /\ \A k \in 1..Len(accepted) : accepted[k] = Edits(place[k][1], cur)[place[k][2]]
Enrolled == pc = "patch" /\ cur # NoFile => \E place : Enrolls(place)
JudgedOnMerit ==
  pc = "patch" /\ cur # NoFile =>
    \A i \in JudgedIn(cur) :
      \/ verdict[<<i, cur>>] \in {"applied", "overlapping"} /\ ~SelfOverlaps(Edits(i, cur))
      \/ verdict[<<i, cur>>] = "failed" /\ SelfOverlaps(Edits(i, cur))

(* Every patched file is what AtomicFix may make of it, and is still as it  *)
(* was when its turn to be written comes.                                   *)
CarriedOut ==
  \A f \in DOMAIN files :
    /\ ~Rejected(findings, f, kind[f])
    /\ \E S \in Atomic!MaximalSets(f) \ {{}} : \E q \in Atomic!Arrangements(f, S) :
         files[f] = CleanImports(Merge(Source(f, kind[f]), q), Source(f, kind[f]), kind[f] = "linedir")
Unwritten == pc = "write" => \A f \in todo : disk[f] = Source(f, kind[f])

Promise == Enrolled /\ JudgedOnMerit /\ CarriedOut /\ Unwritten

(* When the queue is empty every fix of the file is judged, and no fix that *)
(* is not applied could be added to those that are.                         *)
LEMMA AppliedAreMaximal ==
  ASSUME IInv, Ledger, Priority, Promise, pc = "patch", cur \in File, queue = <<>>
  PROVE  AppliedFixes \in Atomic!MaximalSets(cur)
<1> DEFINE A == AppliedFixes
           W == Atomic!WellFormed(cur)
<1>1. cur # NoFile /\ DOMAIN queue = {}
  BY KindsAreKinds
<1>2. JudgedIn(cur) = FixesOf(findings, cur)
  BY <1>1 DEF JudgedIn, Queued
<1>3. W = {i \in FixesOf(findings, cur) : ~SelfOverlaps(Edits(i, cur))}
  BY SameOperators DEF Atomic!WellFormed
<1>4. \A i, j : Atomic!Compatible(i, j, cur) <=> ~Conflicts(Edits(i, cur), Edits(j, cur))
  BY SameOperators DEF Atomic!Compatible
<1>5. \A i \in JudgedIn(cur) : <<i, cur>> \in DOMAIN verdict
  BY DEF Ledger, VerdictsSoFar
<1>6. A \in SUBSET W
  BY <1>1, <1>2, <1>3 DEF AppliedFixes, Promise, JudgedOnMerit
<1>7. ASSUME NEW i \in A, NEW j \in A, i # j PROVE ~Conflicts(Edits(i, cur), Edits(j, cur))
  <2> SUFFICES ASSUME NEW m \in DOMAIN Edits(i, cur), NEW n \in DOMAIN Edits(j, cur)
               PROVE  ~Overlap(Edits(i, cur)[m], Edits(j, cur)[n])
    BY DEF Conflicts
  <2>1. PICK place : Enrolls(place)
    BY <1>1 DEF Promise, Enrolled
  <2>2. <<i, m>> \in EditsOf(A) /\ <<j, n>> \in EditsOf(A)
    BY DEF EditsOf
  <2>3. PICK k \in 1..Len(accepted) : place[k] = <<i, m>>
    BY <2>1, <2>2 DEF Enrolls
  <2>4. PICK l \in 1..Len(accepted) : place[l] = <<j, n>>
    BY <2>1, <2>2 DEF Enrolls
  <2>5. accepted[k] = Edits(i, cur)[m] /\ accepted[l] = Edits(j, cur)[n]
    BY <2>1, <2>3, <2>4 DEF Enrolls
  <2>6. k # l
    BY <1>7, <2>3, <2>4
  <2>7. k \in DOMAIN accepted /\ l \in DOMAIN accepted
    BY DEF IInv, TypeOK
  <2>8. QED
    BY <2>5, <2>6, <2>7 DEF IInv, AcceptedDisjoint
<1>8. ASSUME NEW i \in W \ A PROVE \E j \in A : Conflicts(Edits(i, cur), Edits(j, cur))
  <2>1. /\ i \in JudgedIn(cur) /\ <<i, cur>> \in DOMAIN verdict /\ ~SelfOverlaps(Edits(i, cur))
    BY <1>2, <1>3, <1>5
  <2>2. verdict[<<i, cur>>] = "overlapping"
    BY <1>1, <2>1 DEF AppliedFixes, Promise, JudgedOnMerit
  <2>3. PICK y \in DOMAIN verdict :
          /\ verdict[y] = "applied" /\ y[2] = cur
          /\ Conflicts(Edits(i, cur), Edits(y[1], cur))
    <3> DEFINE x == <<i, cur>>
    <3>1. x \in DOMAIN verdict /\ verdict[x] = "overlapping" /\ x[1] = i /\ x[2] = cur
      BY <2>1, <2>2
    <3> HIDE DEF x
    <3>2. \E y \in DOMAIN verdict :
          /\ verdict[y] = "applied" /\ y[2] = x[2]
          /\ Conflicts(Edits(x[1], x[2]), Edits(y[1], y[2]))
      BY <3>1 DEF Priority, OverlapLostToEarlier
    <3>3. QED
      BY <3>1, <3>2
  <2>4. PICK f \in File : \E j \in JudgedIn(f) : y = <<j, f>>
    BY <2>3 DEF Ledger, VerdictsSoFar
  <2>5. PICK j \in JudgedIn(f) : y = <<j, f>>
    BY <2>4
  <2>6. f = cur /\ y[1] = j
    BY <2>3, <2>5
  <2>7. j \in A
    BY <2>3, <2>5, <2>6 DEF AppliedFixes
  <2>8. QED
    BY <2>3, <2>6, <2>7
<1> HIDE DEF A, W
<1>9. QED
  BY <1>4, <1>6, <1>7, <1>8 DEF Atomic!MaximalSets, A, W

(* A file is a text, also when it was cut short.                            *)
LEMMA SourceIsText == ASSUME NEW f \in File, NEW k PROVE Source(f, k) \in Seq(Token)
<1> DEFINE o == Orig[f]
           n == Len(o) - 1
<1>1. o \in Seq(Token) /\ Len(o) \in Nat
  BY OrigIsParsed
<1> HIDE DEF o
<1>2. CASE Len(o) = 0
  <2>1. /\ SubSeq(o, 1, n) \in Seq(Token)
    <3>1. n \in Int /\ \A i \in 1..n : o[i] \in Token
      BY <1>1, <1>2
    <3> HIDE DEF n
    <3>2. QED
      BY <3>1, SubSeqProperties
  <2>2. QED
    BY <1>1, <2>1 DEF Source, o
<1>3. CASE Len(o) # 0
  <2>1. n \in 0..Len(o) /\ 0 \in 0..n
    BY <1>1, <1>3
  <2> HIDE DEF n
  <2>2. SubSeq(o, 0 + 1, n) \in Seq(Token)
    BY <1>1, <2>1, Cut
  <2>3. QED
    BY <1>1, <2>2 DEF Source, o, n
<1>4. QED
  BY <1>2, <1>3

(* Behind every accepted edit is a well-formed fix of a file that may be    *)
(* touched.                                                                 *)
LEMMA AcceptedFits ==
  ASSUME IInv, Grounds, Promise, pc = "patch", cur \in File, NoTies(findings)
  PROVE  /\ \A k \in 1..Len(accepted) : ~OutOfRange(accepted[k], Len(Source(cur, kind[cur])))
         /\ \A k, l \in 1..Len(accepted) :
              IsInsertion(accepted[k]) /\ ~IsInsertion(accepted[l]) => accepted[k].start # accepted[l].start
<1>1. cur # NoFile
  BY KindsAreKinds
<1>2. PICK place : Enrolls(place)
  BY <1>1 DEF Promise, Enrolled
<1>3. ASSUME NEW k \in 1..Len(accepted)
      PROVE  \E i \in FixesOf(findings, cur) : \E m \in DOMAIN EditsIn(findings[i], cur) :
               accepted[k] = EditsIn(findings[i], cur)[m] /\ ~SelfOverlaps(EditsIn(findings[i], cur))
  <2>1. place[k] \in EditsOf(AppliedFixes) /\ accepted[k] = Edits(place[k][1], cur)[place[k][2]]
    BY <1>2 DEF Enrolls
  <2>2. PICK i \in AppliedFixes : place[k] \in {i} \X DOMAIN Edits(i, cur)
    BY <2>1 DEF EditsOf
  <2>3. place[k][1] = i /\ place[k][2] \in DOMAIN Edits(i, cur)
    BY <2>2
  <2>4. i \in FixesOf(findings, cur)
    BY <2>2 DEF AppliedFixes, JudgedIn
  <2>5. ~SelfOverlaps(Edits(i, cur))
    BY <1>1, <2>2 DEF AppliedFixes, Promise, JudgedOnMerit
  <2>6. QED
    BY <2>1, <2>3, <2>4, <2>5 DEF Edits
<1>4. ~Rejected(findings, cur, kind[cur])
  BY <1>1 DEF Grounds, MayTouch
<1>5. \A k \in 1..Len(accepted) : ~OutOfRange(accepted[k], Len(Source(cur, kind[cur])))
  BY <1>3, <1>4 DEF Rejected
<1>6. ASSUME NEW k \in 1..Len(accepted), NEW l \in 1..Len(accepted),
             IsInsertion(accepted[k]), ~IsInsertion(accepted[l])
      PROVE  accepted[k].start # accepted[l].start
  <2>1. PICK i \in FixesOf(findings, cur) : \E m \in DOMAIN EditsIn(findings[i], cur) :
          accepted[k] = EditsIn(findings[i], cur)[m] /\ ~SelfOverlaps(EditsIn(findings[i], cur))
    BY <1>3
  <2>2. PICK j \in FixesOf(findings, cur) : \E n \in DOMAIN EditsIn(findings[j], cur) :
          accepted[l] = EditsIn(findings[j], cur)[n] /\ ~SelfOverlaps(EditsIn(findings[j], cur))
    BY <1>3
  <2> DEFINE x == EditsIn(findings[i], cur)
             y == EditsIn(findings[j], cur)
  <2>3. ~SelfOverlaps(x) /\ ~SelfOverlaps(y) =>
          \A m \in DOMAIN x, n \in DOMAIN y : IsInsertion(x[m]) /\ ~IsInsertion(y[n]) => x[m].start # y[n].start
    BY DEF NoTies
  <2> HIDE DEF x, y
  <2>4. PICK m \in DOMAIN x : accepted[k] = x[m] /\ ~SelfOverlaps(x)
    BY <2>1 DEF x
  <2>5. PICK n \in DOMAIN y : accepted[l] = y[n] /\ ~SelfOverlaps(y)
    BY <2>2 DEF y
  <2>6. QED
    BY <1>6, <2>3, <2>4, <2>5
<1>7. QED
  BY <1>5, <1>6

(* The accepted edits, read from the front of the file, are an arrangement  *)
(* of the edits of the applied fixes; and splicing them is carrying them    *)
(* out.                                                                     *)
LEMMA SplicedAsMeant ==
  ASSUME IInv, Grounds, Promise, pc = "patch", cur \in File, NoTies(findings)
  PROVE  \E q \in Atomic!Arrangements(cur, AppliedFixes) :
           SpliceAll(disk[cur], accepted) = Merge(Source(cur, kind[cur]), q)
<1> DEFINE src == Source(cur, kind[cur])
           a == accepted
           N == Len(a)
           E == EditsOf(AppliedFixes)
<1>1. /\ cur # NoFile /\ disk[cur] = src /\ src \in Seq(Token) /\ a \in Seq(TextEdit)
      /\ N \in Nat /\ DOMAIN a = 1..N
  BY KindsAreKinds, SourceIsText DEF Grounds, AsRead, IInv, TypeOK
<1>2. /\ \A k \in 1..N : ~OutOfRange(a[k], Len(src))
      /\ \A k, l \in 1..N : IsInsertion(a[k]) /\ ~IsInsertion(a[l]) => a[k].start # a[l].start
  BY AcceptedFits
<1>3. \A k, l \in 1..N : k # l => ~Overlap(a[k], a[l])
  BY <1>1 DEF IInv, AcceptedDisjoint
<1>4. PICK place : Enrolls(place)
  BY <1>1 DEF Promise, Enrolled
<1>5. /\ place \in [1..N -> E]
      /\ \A k, l \in 1..N : place[k] = place[l] => k = l
      /\ \A x \in E : \E k \in 1..N : place[k] = x
      /\ \A k \in 1..N : a[k] = Edits(place[k][1], cur)[place[k][2]]
  BY <1>4 DEF Enrolls
<1> HIDE DEF src, a, E
<1>a. PICK from \in [1..N -> 1..N] : \E spliced : Splicing(src, a, from, spliced)
  <2>1. a \in Seq(TextEdit)
    BY <1>1
  <2>2. QED
    BY <1>1, <2>1, SpliceSteps, Zenon
<1>b. PICK spliced : Splicing(src, a, from, spliced)
  BY <1>a
<1>6. /\ from \in [1..N -> 1..N]
      /\ \A r, q \in 1..N : from[r] = from[q] => r = q
      /\ \A r, q \in 1..N : r < q => a[from[q]].start <= a[from[r]].start
      /\ spliced[0] = src
      /\ \A n \in 1..N : spliced[n] = Splice(spliced[n - 1], a[from[n]])
      /\ SpliceAll(src, a) = spliced[N]
  BY <1>a, <1>b DEF Splicing
<1> HIDE DEF N
<1> DEFINE q == [k \in 1..N |-> a[from[N + 1 - k]]]
           o == [k \in 1..N |-> place[from[N + 1 - k]]]
<1>7. ASSUME NEW k \in 1..N
      PROVE  /\ N + 1 - k \in 1..N /\ N + 1 - (N + 1 - k) = k
             /\ from[N + 1 - k] \in 1..N
  BY <1>1
<1>8. q \in Seq(TextEdit) /\ Len(q) = N /\ DOMAIN q = 1..N
  <2>1. \A k \in 1..N : a[from[N + 1 - k]] \in TextEdit
    BY <1>1, <1>7
  <2>2. QED
    BY <1>1, <2>1
<1>9. \A k \in 1..N : ~OutOfRange(q[k], Len(src))
  BY <1>2, <1>7
<1>10. InFileOrder(q)
  <2> SUFFICES ASSUME NEW k \in 1..N, NEW l \in 1..N, k < l PROVE q[k].end <= q[l].start
    BY <1>8 DEF InFileOrder
  <2> DEFINE i == from[N + 1 - k]
             j == from[N + 1 - l]
             e == a[i]
             d == a[j]
  <2>1. N + 1 - l < N + 1 - k /\ N + 1 - l # N + 1 - k
    BY <1>1
  <2>2. i \in 1..N /\ j \in 1..N /\ N + 1 - k \in 1..N /\ N + 1 - l \in 1..N
    BY <1>7
  <2>3. i # j
    BY <1>6, <2>1, <2>2
  <2>4. e.start <= d.start
    BY <1>6, <2>1, <2>2
  <2>5. q[k] = e /\ q[l] = d
    BY <2>2
  <2> HIDE DEF i, j
  <2>6. /\ ~Overlap(e, d) /\ e \in TextEdit /\ d \in TextEdit
        /\ ~OutOfRange(e, Len(src)) /\ ~OutOfRange(d, Len(src))
        /\ IsInsertion(d) /\ ~IsInsertion(e) => d.start # e.start
    BY <1>1, <1>2, <1>3, <2>2, <2>3
  <2> HIDE DEF e, d
  <2>7. /\ e.start \in Int /\ e.end \in Int /\ e.start <= e.end
        /\ d.start \in Int /\ d.end \in Int /\ d.start <= d.end
    BY <2>6 DEF OutOfRange, TextEdit
  <2>7a. e.end <= d.start
    BY <2>4, <2>6, <2>7 DEF Overlap, IsInsertion
  <2>8. QED
    BY <2>5, <2>7a
<1>11. \A n \in 1..N : spliced[n] = Splice(spliced[n - 1], q[N + 1 - n])
  BY <1>6, <1>7
<1>12. o \in SetToSeqs(E) /\ DOMAIN o = 1..N
  <2>1. o \in [1..N -> E]
    BY <1>5, <1>7
  <2>2. \A k, l \in 1..N : k # l => o[k] # o[l]
    <3>1. ASSUME NEW k \in 1..N, NEW l \in 1..N, o[k] = o[l] PROVE k = l
      <4>1. from[N + 1 - k] = from[N + 1 - l]
        BY <1>5, <1>7, <3>1
      <4>2. N + 1 - k = N + 1 - l
        BY <1>6, <1>7, <4>1
      <4>3. QED
        BY <1>1, <4>2
    <3>2. QED
      BY <3>1
  <2>3. Cardinality(E) = N
    <3>1. place \in Bijection(1..N, E)
      BY <1>5 DEF Bijection, Injection, Surjection, IsInjective
    <3>2. IsFiniteSet(1..N) /\ Cardinality(1..N) = N
      BY <1>1, FS_Interval
    <3>3. QED
      BY <3>1, <3>2, FS_Bijection DEF ExistsBijection
  <2> HIDE DEF o
  <2>4. QED
    BY <2>1, <2>2, <2>3 DEF SetToSeqs
<1>13. q = [k \in DOMAIN o |-> Edits(o[k][1], cur)[o[k][2]]]
  BY <1>5, <1>7, <1>12
<1> HIDE DEF q, o
<1>14. q \in Atomic!Arrangements(cur, AppliedFixes)
  <2>1. Atomic!EditsOf(cur, AppliedFixes) = E
    BY SameOperators DEF Atomic!EditsOf, EditsOf, E
  <2>2. o \in Atomic!SetToSeqs(Atomic!EditsOf(cur, AppliedFixes))
    BY <1>12, <2>1, SameOperators
  <2>3. q = [k \in DOMAIN o |-> Atomic!Edits(o[k][1], cur)[o[k][2]]]
    BY <1>13, SameOperators
  <2>4. Atomic!InFileOrder(q)
    BY <1>10, SameOperators
  <2>5. QED
    BY <2>2, <2>3, <2>4 DEF Atomic!Arrangements
<1>15. spliced[N] = Merge(src, q)
  <2>1. \A n \in 1..Len(q) : spliced[n] = Splice(spliced[n - 1], q[Len(q) + 1 - n])
    BY <1>8, <1>11
  <2>2. \A i \in 1..Len(q) : ~OutOfRange(q[i], Len(src))
    BY <1>8, <1>9
  <2>3. spliced[Len(q)] = Merge(src, q)
    <3>1. src \in Seq(Token) /\ q \in Seq(TextEdit) /\ spliced[0] = src
      BY <1>1, <1>6, <1>8
    <3> HIDE DEF q
    <3>2. QED
      BY <1>10, <2>1, <2>2, <3>1, SpliceIsMerge
  <2>4. QED
    BY <1>8, <2>3
<1>16. QED
  BY <1>1, <1>6, <1>14, <1>15 DEF a, src

(* The patched bytes are right as long as the fixes they come from stay.    *)
LEMMA CarriedOutStays ==
  ASSUME CarriedOut, UNCHANGED <<findings, kind, files>>
  PROVE  CarriedOut'
<1>1. \A f : (Atomic!MaximalSets(f))' = Atomic!MaximalSets(f)
  BY DEF Atomic!MaximalSets, Atomic!WellFormed, Atomic!Compatible, Atomic!Edits
<1>2. \A f, S : (Atomic!Arrangements(f, S))' = Atomic!Arrangements(f, S)
  BY DEF Atomic!Arrangements, Atomic!EditsOf, Atomic!Edits
<1>3. QED
  BY <1>1, <1>2 DEF CarriedOut

(* A file is opened: none of its fixes is judged, none of their edits       *)
(* accepted.                                                                *)
LEMMA OpenPromise == ASSUME IInv, Ledger, Promise, NEW f \in File, OpenFile(f) PROVE Promise'
<1>1. /\ pc = "patch" /\ pc' = "patch" /\ cur = NoFile /\ cur' = f
      /\ accepted' = <<>> /\ UNCHANGED <<findings, kind, perFile, files, verdict>>
  BY DEF OpenFile, input
<1>2. PICK q \in [1..Cardinality(perFile[f]) -> perFile[f]] : queue' = q /\ InOrder(q, perFile[f], f)
  BY DEF OpenFile
<1>3. perFile[f] = FixesOf(findings, f) /\ FixesOf(findings, f) = {queue'[k] : k \in DOMAIN queue'}
  BY <1>1, <1>2 DEF Ledger, InTurn, InOrder
<1>4. JudgedIn(cur)' = {}
  BY <1>1, <1>3 DEF JudgedIn, Queued
<1>5. AppliedFixes' = {} /\ EditsOf(AppliedFixes)' = {}
  BY <1>4 DEF AppliedFixes, EditsOf
<1>6. Enrolled'
  <2> DEFINE none == [k \in 1..0 |-> <<>>]
  <2>1. none \in [1..0 -> {}] /\ Len(accepted') = 0 /\ \A k \in 1..0 : FALSE
    BY <1>1
  <2> HIDE DEF none
  <2>2. Enrolls(none)'
    BY <1>5, <2>1 DEF Enrolls
  <2>3. QED
    BY <2>2 DEF Enrolled
<1>7. JudgedOnMerit'
  BY <1>4 DEF JudgedOnMerit
<1>8. CarriedOut' /\ Unwritten'
  BY <1>1, CarriedOutStays DEF Promise, Unwritten
<1>9. QED
  BY <1>6, <1>7, <1>8 DEF Promise

(* A fix that is not accepted is not applied.                               *)
LEMMA PassOverPromise ==
  ASSUME IInv, Ledger, Priority, Promise, RejectMalformed \/ SkipOverlapping
  PROVE  Promise'
<1>1. PICK v \in {"failed", "overlapping"} :
        /\ Advance /\ UNCHANGED accepted /\ Judge({NextFix}, cur, v)
        /\ v = "failed" => SelfOverlaps(Edits(NextFix, cur))
        /\ v = "overlapping" => ~SelfOverlaps(Edits(NextFix, cur))
  BY DEF RejectMalformed, SkipOverlapping, NextEdits
<1>2. /\ pc = "patch" /\ pc' = "patch" /\ cur # NoFile /\ cur \in File
      /\ UNCHANGED <<findings, kind, cur, files, accepted>>
  BY <1>1 DEF Advance, input, IInv, TypeOK
<1>3. /\ JudgedIn(cur)' = JudgedIn(cur) \cup {NextFix}
      /\ <<NextFix, cur>> \notin DOMAIN verdict
      /\ verdict'[<<NextFix, cur>>] = v
      /\ DOMAIN verdict' = DOMAIN verdict \cup {<<NextFix, cur>>}
      /\ \A x \in DOMAIN verdict : verdict'[x] = verdict[x]
  BY <1>1, HeadPriority
<1>4. \A i \in JudgedIn(cur) : <<i, cur>> \in DOMAIN verdict
  BY <1>2 DEF Ledger, VerdictsSoFar
<1>5. AppliedFixes' = AppliedFixes
  <2>1. v # "applied"
    OBVIOUS
  <2>2. QED
    BY <1>2, <1>3, <1>4, <2>1 DEF AppliedFixes
<1>6. EditsOf(AppliedFixes)' = EditsOf(AppliedFixes)
  BY <1>2, <1>5 DEF EditsOf, Edits
<1>7. PICK place : Enrolls(place)
  BY <1>2 DEF Promise, Enrolled
<1>8. Enrolls(place)'
  BY <1>2, <1>6, <1>7 DEF Enrolls, Edits
<1>9. JudgedOnMerit'
  <2> SUFFICES ASSUME NEW i \in JudgedIn(cur)'
               PROVE  \/ verdict'[<<i, cur>>] \in {"applied", "overlapping"} /\ ~SelfOverlaps(Edits(i, cur))
                      \/ verdict'[<<i, cur>>] = "failed" /\ SelfOverlaps(Edits(i, cur))
    BY <1>2 DEF JudgedOnMerit, Edits
  <2>1. CASE i = NextFix
    BY <1>1, <1>3, <2>1
  <2>2. CASE i \in JudgedIn(cur)
    BY <1>2, <1>3, <1>4, <2>2 DEF Promise, JudgedOnMerit
  <2>3. QED
    BY <1>3, <2>1, <2>2
<1>10. CarriedOut' /\ Unwritten'
  BY <1>2, CarriedOutStays DEF Promise, Unwritten
<1>11. QED
  BY <1>8, <1>9, <1>10 DEF Promise, Enrolled

(* An accepted fix brings all its edits.                                    *)
LEMMA AcceptPromise ==
  ASSUME IInv, Ledger, Priority, Promise, AcceptFix
  PROVE  Promise'
<1>1. /\ Advance /\ accepted' = accepted \o NextEdits /\ Judge({NextFix}, cur, "applied")
      /\ ~SelfOverlaps(Edits(NextFix, cur)) /\ NextEdits = Edits(NextFix, cur)
  BY DEF AcceptFix, NextEdits
<1>2. /\ pc = "patch" /\ pc' = "patch" /\ cur # NoFile /\ cur \in File
      /\ UNCHANGED <<findings, kind, cur, files>>
  BY <1>1 DEF Advance, input, IInv, TypeOK
<1>3. /\ JudgedIn(cur)' = JudgedIn(cur) \cup {NextFix}
      /\ <<NextFix, cur>> \notin DOMAIN verdict
      /\ verdict'[<<NextFix, cur>>] = "applied"
      /\ DOMAIN verdict' = DOMAIN verdict \cup {<<NextFix, cur>>}
      /\ \A x \in DOMAIN verdict : verdict'[x] = verdict[x]
  BY <1>1, HeadPriority
<1>4. \A i \in JudgedIn(cur) : <<i, cur>> \in DOMAIN verdict
  BY <1>2 DEF Ledger, VerdictsSoFar
<1>5. AppliedFixes' = AppliedFixes \cup {NextFix} /\ NextFix \notin AppliedFixes
  BY <1>2, <1>3, <1>4 DEF AppliedFixes
<1> DEFINE a == accepted
           es == NextEdits
           fix == NextFix
           b == a \o es
           E == EditsOf(AppliedFixes)
           F == {fix} \X (1..Len(es))
<1>6. a \in Seq(TextEdit) /\ es \in Seq(TextEdit)
  BY <1>1, HeadTyped DEF IInv, TypeOK
<1>7. /\ Len(b) = Len(a) + Len(es) /\ Len(a) \in Nat /\ Len(es) \in Nat /\ DOMAIN es = 1..Len(es)
      /\ \A i \in 1..Len(a) : b[i] = a[i]
      /\ \A i \in Len(a) + 1..Len(b) : b[i] = es[i - Len(a)] /\ i - Len(a) \in 1..Len(es)
  BY <1>6, ConcatProperties
<1>8. EditsOf(AppliedFixes)' = E \cup F
  <2>1. EditsOf(AppliedFixes)' = UNION {{i} \X DOMAIN Edits(i, cur) : i \in AppliedFixes'}
    BY <1>2 DEF EditsOf, Edits
  <2>2. DOMAIN Edits(fix, cur) = 1..Len(es)
    BY <1>1, <1>7
  <2>3. QED
    BY <1>5, <2>1, <2>2 DEF EditsOf
<1>9. PICK place : Enrolls(place)
  BY <1>2 DEF Promise, Enrolled
<1>10. /\ place \in [1..Len(a) -> E]
       /\ \A k, l \in 1..Len(a) : place[k] = place[l] => k = l
       /\ \A x \in E : \E k \in 1..Len(a) : place[k] = x
       /\ \A k \in 1..Len(a) : a[k] = Edits(place[k][1], cur)[place[k][2]]
  BY <1>9 DEF Enrolls
<1>11. E \cap F = {}
  BY <1>5 DEF EditsOf
<1>12. es = Edits(fix, cur) /\ accepted' = b
  BY <1>1
<1> HIDE DEF a, es, fix, b, E
<1> DEFINE wider == [k \in 1..Len(b) |-> IF k <= Len(a) THEN place[k] ELSE <<fix, k - Len(a)>>]
<1>13. ASSUME NEW k \in 1..Len(b)
       PROVE  \/ k \in 1..Len(a) /\ wider[k] = place[k] /\ place[k] \in E
              \/ k \in Len(a) + 1..Len(b) /\ wider[k] = <<fix, k - Len(a)>> /\ k - Len(a) \in 1..Len(es)
  <2>1. CASE k <= Len(a)
    <3>1. k \in 1..Len(a)
      BY <1>7, <2>1
    <3>2. QED
      BY <1>10, <2>1, <3>1
  <2>2. CASE ~(k <= Len(a))
    <3>1. k \in Len(a) + 1..Len(b)
      BY <1>7, <2>2
    <3>2. QED
      BY <1>7, <2>2, <3>1
  <2>3. QED
    BY <2>1, <2>2
<1> DEFINE G == E \cup F
<1>14. wider \in [1..Len(b) -> G]
  BY <1>13
<1> HIDE DEF wider
<1>15. ASSUME NEW k \in 1..Len(b), NEW l \in 1..Len(b), wider[k] = wider[l] PROVE k = l
  <2>1. CASE k \in 1..Len(a) /\ wider[k] = place[k] /\ place[k] \in E
    <3>1. CASE l \in 1..Len(a) /\ wider[l] = place[l]
      <4>1. place[k] = place[l]
        BY <1>15, <2>1, <3>1, Zenon
      <4>2. \A m, n \in 1..Len(a) : place[m] = place[n] => m = n
        BY <1>10
      <4>3. QED
        BY <2>1, <3>1, <4>1, <4>2, Zenon
    <3>2. CASE wider[l] = <<fix, l - Len(a)>> /\ l - Len(a) \in 1..Len(es)
      <4>1. wider[l] \in F
        BY <3>2
      <4>2. QED
        BY <1>11, <1>15, <2>1, <4>1
    <3>3. QED
      BY <1>13, <3>1, <3>2
  <2>2. CASE k \in Len(a) + 1..Len(b) /\ wider[k] = <<fix, k - Len(a)>> /\ k - Len(a) \in 1..Len(es)
    <3>1. CASE wider[l] = place[l] /\ place[l] \in E
      <4>1. wider[k] \in F
        BY <2>2
      <4>2. QED
        BY <1>11, <1>15, <3>1, <4>1
    <3>2. CASE l \in Len(a) + 1..Len(b) /\ wider[l] = <<fix, l - Len(a)>>
      <4>1. <<fix, k - Len(a)>> = <<fix, l - Len(a)>>
        BY <1>15, <2>2, <3>2
      <4>2. k - Len(a) = l - Len(a)
        BY <4>1
      <4>3. QED
        BY <1>7, <2>2, <3>2, <4>2
    <3>3. QED
      BY <1>13, <3>1, <3>2
  <2>3. QED
    BY <1>13, <2>1, <2>2
<1>16. ASSUME NEW x \in G PROVE \E k \in 1..Len(b) : wider[k] = x
  <2>1. CASE x \in E
    <3>1. PICK k \in 1..Len(a) : place[k] = x
      BY <1>10, <2>1
    <3>2. k \in 1..Len(b) /\ k <= Len(a)
      BY <1>7
    <3>3. QED
      BY <3>1, <3>2 DEF wider
  <2>2. CASE x \in F
    <3>1. PICK m \in 1..Len(es) : x = <<fix, m>>
      BY <2>2
    <3>2. Len(a) + m \in 1..Len(b) /\ ~(Len(a) + m <= Len(a)) /\ Len(a) + m - Len(a) = m
      BY <1>7
    <3>3. wider[Len(a) + m] = <<fix, Len(a) + m - Len(a)>>
      BY <3>2 DEF wider
    <3>4. QED
      BY <3>1, <3>2, <3>3
  <2>3. QED
    BY <2>1, <2>2
<1>17. ASSUME NEW k \in 1..Len(b) PROVE b[k] = Edits(wider[k][1], cur)[wider[k][2]]
  <2>1. CASE k \in 1..Len(a) /\ wider[k] = place[k]
    BY <1>7, <1>10, <2>1
  <2>2. CASE k \in Len(a) + 1..Len(b) /\ wider[k] = <<fix, k - Len(a)>>
    BY <1>7, <1>12, <2>2
  <2>3. QED
    BY <1>13, <2>1, <2>2
<1>18. \E w : Enrolls(w)'
  <2>1. PICK w : w = wider
    OBVIOUS
  <2>2. EditsOf(AppliedFixes)' = G
    BY <1>8
  <2>3. \A i : Edits(i, cur)' = Edits(i, cur)
    BY <1>2 DEF Edits
  <2> HIDE DEF G
  <2>4. /\ w \in [1..Len(b) -> G]
        /\ \A k, l \in 1..Len(b) : w[k] = w[l] => k = l
        /\ \A x \in G : \E k \in 1..Len(b) : w[k] = x
        /\ \A k \in 1..Len(b) : b[k] = Edits(w[k][1], cur)[w[k][2]]
    BY <1>14, <1>15, <1>16, <1>17, <2>1
  <2>5. Enrolls(w)'
    BY <1>12, <2>2, <2>3, <2>4 DEF Enrolls
  <2>6. QED
    BY <2>5
<1>19. JudgedOnMerit'
  <2> SUFFICES ASSUME NEW i \in JudgedIn(cur)'
               PROVE  \/ verdict'[<<i, cur>>] \in {"applied", "overlapping"} /\ ~SelfOverlaps(Edits(i, cur))
                      \/ verdict'[<<i, cur>>] = "failed" /\ SelfOverlaps(Edits(i, cur))
    BY <1>2 DEF JudgedOnMerit, Edits
  <2>1. CASE i = NextFix
    BY <1>1, <1>3, <2>1
  <2>2. CASE i \in JudgedIn(cur)
    BY <1>2, <1>3, <1>4, <2>2 DEF Promise, JudgedOnMerit
  <2>3. QED
    BY <1>3, <2>1, <2>2
<1>20. CarriedOut' /\ Unwritten'
  BY <1>2, CarriedOutStays DEF Promise, Unwritten
<1>21. QED
  BY <1>18, <1>19, <1>20 DEF Promise, Enrolled

(* A file is closed: what was accepted are all edits of a maximal set of    *)
(* compatible fixes, and they are carried out.                              *)
LEMMA PatchedPromise ==
  ASSUME NoTies(findings), IInv, Ledger, Priority, Grounds, Promise, ClosePatched
  PROVE  CarriedOut'
<1>1. /\ pc = "patch" /\ cur # NoFile /\ cur \in File /\ queue = <<>> /\ accepted # <<>>
      /\ UNCHANGED <<findings, kind>>
  BY DEF ClosePatched, CloseFile, input, IInv, TypeOK
<1> DEFINE S == AppliedFixes
           src == Source(cur, kind[cur])
<1>2. S \in Atomic!MaximalSets(cur)
  BY <1>1, AppliedAreMaximal
<1>3. S # {}
  <2>1. PICK place : Enrolls(place)
    BY <1>1 DEF Promise, Enrolled
  <2>2. 1 \in 1..Len(accepted)
    BY <1>1 DEF IInv, TypeOK
  <2>3. place[1] \in EditsOf(S)
    BY <2>1, <2>2 DEF Enrolls
  <2>4. QED
    BY <2>3 DEF EditsOf
<1>4. PICK q \in Atomic!Arrangements(cur, S) : SpliceAll(disk[cur], accepted) = Merge(src, q)
  BY <1>1, SplicedAsMeant
<1>5. disk[cur] = src
  BY <1>1 DEF Grounds, AsRead
<1>6. ~Rejected(findings, cur, kind[cur])
  BY <1>1 DEF Grounds, MayTouch
<1>7. /\ DOMAIN files' = DOMAIN files \cup {cur}
      /\ files'[cur] = CleanImports(Merge(src, q), src, kind[cur] = "linedir")
      /\ \A f \in DOMAIN files \ {cur} : files'[f] = files[f]
  BY <1>4, <1>5 DEF ClosePatched
<1> HIDE DEF S, src
<1>8. \A f : (Atomic!MaximalSets(f))' = Atomic!MaximalSets(f)
  BY <1>1 DEF Atomic!MaximalSets, Atomic!WellFormed, Atomic!Compatible, Atomic!Edits
<1>9. \A f, F : (Atomic!Arrangements(f, F))' = Atomic!Arrangements(f, F)
  BY <1>1 DEF Atomic!Arrangements, Atomic!EditsOf, Atomic!Edits
<1> DEFINE Right(f, new) ==
      /\ ~Rejected(findings, f, kind[f])
      /\ \E F \in Atomic!MaximalSets(f) \ {{}} : \E r \in Atomic!Arrangements(f, F) :
           new = CleanImports(Merge(Source(f, kind[f]), r), Source(f, kind[f]), kind[f] = "linedir")
<1>10. Right(cur, files'[cur])
  BY <1>2, <1>3, <1>6, <1>7 DEF src
<1>11. \A f \in DOMAIN files : Right(f, files[f])
  BY DEF Promise, CarriedOut
<1> HIDE DEF Right
<1>12. \A f \in DOMAIN files' : Right(f, files'[f])
  BY <1>7, <1>10, <1>11
<1>13. QED
  BY <1>1, <1>8, <1>9, <1>12 DEF CarriedOut, Right

(* Every step keeps the promise: one step per action.                       *)
LEMMA NextPromise ==
  ASSUME NoTies(findings), IInv, Ledger, Priority, Grounds, Promise, [Next]_vars
  PROVE  Promise'
<1> USE DEF input
<1>1. CASE Group
  <2>1. pc' = "patch" /\ cur' = NoFile /\ UNCHANGED <<findings, kind, files>>
    BY <1>1 DEF Group, Ledger, Fresh
  <2>2. QED
    BY <2>1, CarriedOutStays DEF Promise, Enrolled, JudgedOnMerit, Unwritten
<1>2. ASSUME NEW f \in File, RejectFile(f) PROVE Promise'
  <2>1. pc' = "patch" /\ cur' = NoFile /\ UNCHANGED <<findings, kind, files>>
    BY <1>2 DEF RejectFile
  <2>2. QED
    BY <2>1, CarriedOutStays DEF Promise, Enrolled, JudgedOnMerit, Unwritten
<1>3. ASSUME NEW f \in File, OpenFile(f) PROVE Promise'
  BY <1>3, OpenPromise
<1>4. CASE RejectMalformed \/ SkipOverlapping
  BY <1>4, PassOverPromise
<1>5. CASE AcceptFix
  BY <1>5, AcceptPromise
<1>6. CASE CloseUntouched \/ ClosePatched
  <2>1. pc' = "patch" /\ cur' = NoFile /\ UNCHANGED <<findings, kind>>
    BY <1>6 DEF CloseUntouched, ClosePatched, CloseFile
  <2>2. CarriedOut'
    <3>1. CASE CloseUntouched
      BY <2>1, <3>1, CarriedOutStays DEF Promise, CloseUntouched
    <3>2. CASE ClosePatched
      BY <3>2, PatchedPromise
    <3>3. QED
      BY <1>6, <3>1, <3>2
  <2>3. QED
    BY <2>1, <2>2 DEF Promise, Enrolled, JudgedOnMerit, Unwritten
<1>7. CASE StartWriting
  <2>1. pc = "patch" /\ pc' = "write" /\ todo' = DOMAIN files /\ UNCHANGED <<findings, kind, disk, files>>
    BY <1>7 DEF StartWriting, Patched
  <2>2. Unwritten'
    BY <2>1 DEF Unwritten, Grounds, AsRead, IInv, TypeOK
  <2>3. QED
    BY <2>1, <2>2, CarriedOutStays DEF Promise, Enrolled, JudgedOnMerit
<1>8. ASSUME NEW f \in File, WriteFile(f) \/ WriteFails(f) PROVE Promise'
  <2>1. /\ pc = "write" /\ pc' = "write" /\ todo' = todo \ {f} /\ UNCHANGED <<findings, kind, files>>
        /\ \A g \in File \ {f} : disk'[g] = disk[g]
    BY <1>8 DEF WriteFile, WriteFails, IInv, TypeOK
  <2>2. Unwritten'
    BY <2>1 DEF Promise, Unwritten, IInv, TypeOK
  <2>3. QED
    BY <2>1, <2>2, CarriedOutStays DEF Promise, Enrolled, JudgedOnMerit
<1>9. CASE ShowDiff \/ Finish
  <2>1. pc' = "done" /\ UNCHANGED <<findings, kind, files>>
    BY <1>9 DEF ShowDiff, Patched, Finish
  <2>2. QED
    BY <2>1, CarriedOutStays DEF Promise, Enrolled, JudgedOnMerit, Unwritten
<1>10. CASE Return \/ UNCHANGED vars
  <2>1. UNCHANGED vars
    BY <1>10 DEF Return
  <2>2. UNCHANGED <<findings, kind, disk, pc, todo, cur, queue, accepted, files, verdict>>
    BY <2>1 DEF vars
  <2>3. JudgedIn(cur)' = JudgedIn(cur) /\ \A i : Edits(i, cur)' = Edits(i, cur)
    BY <2>2 DEF JudgedIn, Queued, Edits
  <2>4. AppliedFixes' = AppliedFixes
    BY <2>2, <2>3 DEF AppliedFixes
  <2>5. EditsOf(AppliedFixes)' = EditsOf(AppliedFixes)
    BY <2>2, <2>3, <2>4 DEF EditsOf
  <2>6. Enrolled'
    BY <2>2, <2>3, <2>5 DEF Promise, Enrolled, Enrolls
  <2>7. JudgedOnMerit'
    BY <2>2, <2>3 DEF Promise, JudgedOnMerit
  <2>8. QED
    BY <2>2, <2>6, <2>7, CarriedOutStays DEF Promise, Unwritten
<1>11. QED
  BY <1>1, <1>2, <1>3, <1>4, <1>5, <1>6, <1>7, <1>8, <1>9, <1>10 DEF Next

LEMMA InitPromise == Init => Promise
BY DEF Init, Promise, Enrolled, JudgedOnMerit, CarriedOut, Unwritten

(* A file that is written takes what AtomicFix may make of it.              *)
LEMMA WriteRewrites ==
  ASSUME IInv, Ledger, Promise, NEW f \in File, WriteFile(f) \/ WriteFails(f)
  PROVE  Atomic!Next
<1>1. /\ pc = "write" /\ pc' = "write" /\ f \in todo /\ todo' = todo \ {f}
      /\ UNCHANGED <<findings, kind, files>>
  BY DEF WriteFile, WriteFails, input
<1>2. f \in DOMAIN files /\ todo \subseteq DOMAIN files /\ disk[f] = Source(f, kind[f])
  BY <1>1 DEF Ledger, Writing, Promise, Unwritten
<1>3. /\ ~Rejected(findings, f, kind[f])
      /\ \E S \in Atomic!MaximalSets(f) \ {{}} : \E q \in Atomic!Arrangements(f, S) :
           files[f] = CleanImports(Merge(disk[f], q), disk[f], kind[f] = "linedir")
  BY <1>2 DEF Promise, CarriedOut
<1>4. Atomic!Settle(f)
  BY <1>1, <1>2, <1>3, SameOperators DEF Atomic!Settle
<1>5. files[f] \in Atomic!Outcomes(f)
  <2>1. PICK S \in Atomic!MaximalSets(f) \ {{}} : \E q \in Atomic!Arrangements(f, S) :
           files[f] = CleanImports(Merge(disk[f], q), disk[f], kind[f] = "linedir")
    BY <1>3
  <2>2. files[f] \in Atomic!Fixed(f, S)
    BY <2>1, SameOperators, SameCleanUp DEF Atomic!Fixed
  <2>3. QED
    BY <2>2 DEF Atomic!Outcomes
<1>6. CASE WriteFile(f)
  <2>1. disk' = [disk EXCEPT ![f] = files[f]]
    BY <1>6 DEF WriteFile
  <2>2. Atomic!Rewrite(f)
    BY <1>4, <1>5, <2>1 DEF Atomic!Rewrite
  <2>3. QED
    BY <2>2 DEF Atomic!Next
<1>7. CASE WriteFails(f)
  <2>1. PICK left \in {disk[f]} \cup Prefixes(files[f]) : disk' = [disk EXCEPT ![f] = left]
    BY <1>7 DEF WriteFails
  <2>2. Atomic!Prefixes(files[f]) = Prefixes(files[f])
    BY DEF Prefixes, Atomic!Prefixes
  <2>3. left \in {disk[f]} \cup UNION {Atomic!Prefixes(new) : new \in Atomic!Outcomes(f)}
    BY <1>5, <2>1, <2>2
  <2>4. Atomic!RewriteFails(f)
    BY <1>4, <2>1, <2>3 DEF Atomic!RewriteFails
  <2>5. QED
    BY <2>4 DEF Atomic!Next
<1>8. QED
  BY <1>6, <1>7

(* Every step is one of AtomicFix, or changes nothing that it speaks of.    *)
LEMMA NextRefines ==
  ASSUME IInv, Ledger, Promise, [Next]_vars
  PROVE  [Atomic!Next]_Atomic!vars
<1> USE DEF input, Atomic!vars
<1>1. CASE \E f \in File : WriteFile(f) \/ WriteFails(f)
  BY <1>1, WriteRewrites
<1>2. CASE Group \/ (\E f \in File : RejectFile(f) \/ OpenFile(f)) \/ StartWriting \/ ShowDiff
           \/ RejectMalformed \/ SkipOverlapping \/ AcceptFix \/ CloseUntouched \/ ClosePatched
  <2>1. pc \in {"group", "patch"} /\ UNCHANGED <<findings, kind, disk>>
    BY <1>2 DEF Group, RejectFile, OpenFile, StartWriting, ShowDiff, Patched, RejectMalformed,
                SkipOverlapping, AcceptFix, Advance, CloseUntouched, ClosePatched, CloseFile
  <2>2. \/ pc' = "patch"
        \/ pc' = "write" /\ todo' = DOMAIN files'
        \/ pc' = "done" /\ ~fixMode'
    BY <1>2 DEF Group, RejectFile, OpenFile, StartWriting, ShowDiff, Patched, RejectMalformed,
                SkipOverlapping, AcceptFix, Advance, CloseUntouched, ClosePatched, CloseFile
  <2>3. QED
    BY <2>1, <2>2
<1>3. CASE Finish
  <2>1. /\ pc = "write" /\ todo = {} /\ fixMode /\ pc' = "done"
        /\ UNCHANGED <<findings, kind, disk, files, fixMode>>
    BY <1>3 DEF Finish, Ledger, Writing
  <2>2. QED
    BY <2>1
<1>4. CASE Return \/ UNCHANGED vars
  BY <1>4 DEF Return, vars
<1>5. QED
  BY <1>1, <1>2, <1>3, <1>4 DEF Next

(* Whatever the findings, if no insertion ties with a replacement: -fix     *)
(* takes every file in one step from its bytes to those of a maximal set of *)
(* compatible whole fixes, carried out and with its imports put right; if   *)
(* the write fails, to its old bytes or a front part of those new ones.     *)
THEOREM FixesAreAtomic ==
  ASSUME \A s \in Inputs : NoTies(s)
  PROVE  Spec => ImplementsAtomicFix
<1>1. Init => IInv /\ Ledger /\ Priority /\ Grounds /\ Promise
  BY InitIInv, InitLedger, InitPriority, InitGrounds, InitPromise
<1>2. IInv /\ Ledger /\ Priority /\ Grounds /\ Promise /\ [Next]_vars
        => (IInv /\ Ledger /\ Priority /\ Grounds /\ Promise)'
  <2>1. IInv => NoTies(findings)
    BY DEF IInv, TypeOK
  <2>2. QED
    BY <2>1, NextIInv, NextLedger, NextPriority, NextGrounds, NextPromise
<1>3. Init => Atomic!Init
  BY SameOperators DEF Init, Atomic!Init, Atomic!Kind, Kind
<1>4. IInv /\ Ledger /\ Promise /\ [Next]_vars => [Atomic!Next]_Atomic!vars
  BY NextRefines
<1>5. QED
  BY <1>1, <1>2, <1>3, <1>4, PTL DEF Spec, ImplementsAtomicFix, Atomic!Spec
=============================================================================
