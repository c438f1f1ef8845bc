------------------------------ MODULE FixApply ------------------------------
(***************************************************************************)
(* perfscan -fix and -diff: how the suggested fixes of the reported        *)
(* findings become bytes on disk (internal/runner/runner.go, patchedFiles  *)
(* and applyFixes; internal/runner/diff.go, diffFixes).                    *)
(*                                                                         *)
(* One step per loop iteration of the code: the edits of every finding are *)
(* grouped by the file they belong to (Group); each file, in the arbitrary *)
(* order of a Go map, is rejected whole (RejectFile) or opened, its fixes  *)
(* taken in order of their first edit and accepted, skipped or rejected,   *)
(* then spliced and cleaned up (ClosePatched); the results are written     *)
(* (WriteFile, WriteFails) or only shown (ShowDiff).                       *)
(***************************************************************************)
EXTENDS FixInputs

VARIABLES
  findings,  (* the reported findings, in report order                     *)
  fixMode,   (* opts.Fix (TRUE) or opts.Diff (FALSE)                       *)
  exitZero,  (* opts.ExitZero, as far as -diff looks at it                 *)
  kind,      (* kind[f]                                                    *)
  disk,      (* disk[f]: the file's content now                            *)
  pc,        (* where patchedFiles and its caller are                      *)
  perFile,   (* perFile[f]: the fixes of f, by the index of their finding   *)
  todo,      (* the files of perFile not iterated yet                      *)
  cur,       (* the file being resolved                                    *)
  queue,     (* the fixes of cur still to resolve, in order                *)
  accepted,  (* the edits accepted in cur so far                           *)
  files,     (* the result: the patched bytes of each file that has some   *)
  count,     (* the counters applied, overlapping and failed               *)
  verdict,   (* history: what became of finding i's fix in file f          *)
  exit       (* diffFixes' result                                          *)
vars == <<findings, fixMode, exitZero, kind, disk, pc, perFile, todo, cur, queue, accepted,
          files, count, verdict, exit>>
input == <<findings, fixMode, exitZero, kind>>

-----------------------------------------------------------------------------
Edits(i, f) == EditsIn(findings[i], f)

Count(c, n) == count' = [count EXCEPT ![c] = @ + n]
Judge(F, f, v) ==
  verdict' = [x \in (F \X {f}) \cup DOMAIN verdict |-> IF x \in F \X {f} THEN v ELSE verdict[x]]

Init ==
  /\ findings \in Inputs
  /\ fixMode \in BOOLEAN /\ exitZero \in BOOLEAN /\ ~(fixMode /\ exitZero)
  /\ kind \in {k \in [File -> Kind] : \A f \in File : k[f] \in Kinds[f]}
  /\ disk = [f \in File |-> Source(f, kind[f])]
  /\ pc = "group"
  /\ perFile = [f \in File |-> {}]
  /\ todo = {}
  /\ cur = NoFile
  /\ queue = <<>>
  /\ accepted = <<>>
  /\ files = [f \in {} |-> <<>>]
  /\ count = [applied |-> 0, overlapping |-> 0, failed |-> 0]
  /\ verdict = [x \in {} |-> "none"]
  /\ exit = 0

\* Group every usable fix by file; a fix with an edit in no file fails whole.
Group ==
  /\ pc = "group"
  /\ pc' = "patch"
  /\ perFile' = [f \in File |-> FixesOf(findings, f)]
  /\ todo' = {f \in File : FixesOf(findings, f) # {}}
  /\ Count("failed", Cardinality({i \in DOMAIN findings : UsesFix(findings[i]) /\ ~Resolvable(findings[i])}))
  /\ UNCHANGED <<input, disk, cur, queue, accepted, files, verdict, exit>>

\* The next file may not be touched: all its fixes fail.
RejectFile(f) ==
  /\ pc = "patch" /\ cur = NoFile /\ f \in todo
  /\ Rejected(findings, f, kind[f])
  /\ Count("failed", Cardinality(perFile[f]))
  /\ Judge(perFile[f], f, "failed")
  /\ todo' = todo \ {f}
  /\ UNCHANGED <<input, disk, pc, perFile, cur, queue, accepted, files, exit>>

\* Faulty variant: fixes stay in the order their findings were reported.
InReportOrder(q, F, f) ==
  /\ F = {q[k] : k \in DOMAIN q}
  /\ \A k, l \in DOMAIN q : k < l => q[k] < q[l]

\* q holds the fixes F of f by their first edit, level ones as reported.
InOrder(q, F, f) ==
  /\ F = {q[k] : k \in DOMAIN q}
  /\ \A k, l \in DOMAIN q : k < l =>
       \/ FixMinStart(Edits(q[k], f)) < FixMinStart(Edits(q[l], f))
       \/ FixMinStart(Edits(q[k], f)) = FixMinStart(Edits(q[l], f)) /\ q[k] < q[l]

\* The next file is read and its fixes put in order.
OpenFile(f) ==
  /\ pc = "patch" /\ cur = NoFile /\ f \in todo
  /\ ~Rejected(findings, f, kind[f])
  /\ cur' = f
  /\ accepted' = <<>>
  /\ queue' \in {q \in [1..Cardinality(perFile[f]) -> perFile[f]] : InOrder(q, perFile[f], f)}
  /\ UNCHANGED <<input, disk, pc, perFile, todo, files, count, verdict, exit>>

\* The first fix of cur still to resolve, and the loop's advance past it.
NextFix == Head(queue)
NextEdits == Edits(NextFix, cur)
Advance ==
  /\ pc = "patch" /\ cur # NoFile /\ queue # <<>>
  /\ queue' = Tail(queue)
  /\ UNCHANGED <<input, disk, pc, perFile, todo, cur, files, exit>>

RejectMalformed ==
  /\ Advance
  /\ SelfOverlaps(NextEdits)
  /\ Count("failed", 1)
  /\ Judge({NextFix}, cur, "failed")
  /\ UNCHANGED accepted

\* Faulty variant: a benign overlap is counted as a failure.
SkipAsFailure ==
  /\ Advance
  /\ ~SelfOverlaps(NextEdits) /\ Conflicts(NextEdits, accepted)
  /\ Count("failed", 1)
  /\ Judge({NextFix}, cur, "overlapping")
  /\ UNCHANGED accepted

\* Faulty variant: the edits of an overlapping fix that meet nothing are kept.
SkipOverlappingEdits ==
  /\ Advance
  /\ ~SelfOverlaps(NextEdits) /\ Conflicts(NextEdits, accepted)
  /\ Count("overlapping", 1)
  /\ Judge({NextFix}, cur, "overlapping")
  /\ accepted' = accepted \o SelectSeq(NextEdits, LAMBDA e : ~Conflicts(<<e>>, accepted))

SkipOverlapping ==
  /\ Advance
  /\ ~SelfOverlaps(NextEdits) /\ Conflicts(NextEdits, accepted)
  /\ Count("overlapping", 1)
  /\ Judge({NextFix}, cur, "overlapping")
  /\ UNCHANGED accepted

AcceptFix ==
  /\ Advance
  /\ ~SelfOverlaps(NextEdits) /\ ~Conflicts(NextEdits, accepted)
  /\ accepted' = accepted \o NextEdits
  /\ Count("applied", 1)
  /\ Judge({NextFix}, cur, "applied")

CloseFile ==
  /\ pc = "patch" /\ cur # NoFile /\ queue = <<>>
  /\ todo' = todo \ {cur}
  /\ cur' = NoFile
  /\ accepted' = <<>>
  /\ UNCHANGED <<input, disk, pc, perFile, queue, count, verdict, exit>>

\* Nothing was accepted: the file is not even reformatted.
CloseUntouched ==
  /\ CloseFile
  /\ accepted = <<>>
  /\ UNCHANGED files

\* The accepted edits are spliced and the imports cleaned up. An accepted fix
\* always brings at least one edit.
ClosePatched ==
  /\ CloseFile
  /\ accepted # <<>>
  /\ files' = [f \in DOMAIN files \cup {cur} |->
                 IF f = cur
                 THEN CleanImports(SpliceAll(disk[f], accepted), disk[f], kind[f] = "linedir")
                 ELSE files[f]]

\* patchedFiles returns; -fix goes on to write, -diff compares and stops.
Patched ==
  /\ pc = "patch" /\ cur = NoFile /\ todo = {}
  /\ UNCHANGED <<input, disk, perFile, cur, queue, accepted, files, count, verdict>>

StartWriting ==
  /\ Patched /\ fixMode
  /\ pc' = "write"
  /\ todo' = DOMAIN files
  /\ UNCHANGED exit

ShowDiff ==
  /\ Patched /\ ~fixMode
  /\ pc' = "done"
  /\ exit' = IF ~exitZero /\ \E f \in DOMAIN files : files[f] # disk[f] THEN 1 ELSE 0
  /\ UNCHANGED todo

WriteFile(f) ==
  /\ pc = "write" /\ f \in todo
  /\ disk' = [disk EXCEPT ![f] = files[f]]
  /\ todo' = todo \ {f}
  /\ UNCHANGED <<input, pc, perFile, cur, queue, accepted, files, count, verdict, exit>>

\* os.WriteFile fails before it opens the file, or after it truncated it and
\* wrote some of the new text: none of it, a part, or all but the close.
WriteFails(f) ==
  /\ pc = "write" /\ f \in todo
  /\ \E left \in {disk[f]} \cup Prefixes(files[f]) : disk' = [disk EXCEPT ![f] = left]
  /\ Count("failed", 1)
  /\ todo' = todo \ {f}
  /\ UNCHANGED <<input, pc, perFile, cur, queue, accepted, files, verdict, exit>>

Finish ==
  /\ pc = "write" /\ todo = {}
  /\ pc' = "done"
  /\ UNCHANGED <<input, disk, perFile, todo, cur, queue, accepted, files, count, verdict, exit>>

\* Nothing is left to do: the report follows (module Pipeline).
Return == pc = "done" /\ UNCHANGED vars

Next ==
  \/ Group
  \/ \E f \in File : RejectFile(f) \/ OpenFile(f)
  \/ RejectMalformed \/ SkipOverlapping \/ AcceptFix
  \/ CloseUntouched \/ ClosePatched
  \/ StartWriting \/ ShowDiff
  \/ \E f \in File : WriteFile(f) \/ WriteFails(f)
  \/ Finish \/ Return

Spec == Init /\ [][Next]_vars

-----------------------------------------------------------------------------
(* Type invariant: every variable of patchedFiles keeps its shape; a fix is *)
(* an index into the reported findings, an accepted edit an edit of one.    *)
TypeOK ==
  /\ findings \in Inputs
  /\ fixMode \in BOOLEAN /\ exitZero \in BOOLEAN
  /\ kind \in [File -> Kind]
  /\ DOMAIN disk = File
  /\ pc \in {"group", "patch", "write", "done"}
  /\ perFile \in [File -> SUBSET (1..Len(findings))]
  /\ todo \in SUBSET File
  /\ cur \in File \cup {NoFile}
  /\ queue \in Seq(1..Len(findings))
  /\ accepted \in Seq(TextEdit)
  /\ DOMAIN files \subseteq File
  /\ count \in [applied : Nat, overlapping : Nat, failed : Nat]
  /\ exit \in {0, 1}

(* Two accepted edits of a file never overlap, so splicing them cannot      *)
(* corrupt the file (the greedy loop of patchedFiles).                      *)
AcceptedDisjoint ==
  \A i, j \in DOMAIN accepted : i # j => ~Overlap(accepted[i], accepted[j])

(* Once patchedFiles is done, every fix of every file has exactly one       *)
(* verdict, and the three counters -fix prints add up to the fixes and the  *)
(* unresolvable findings (plus the writes that failed after them).          *)
Judged(v) == Cardinality({x \in DOMAIN verdict : verdict[x] = v})
CountersAccount ==
  (pc = "write" /\ todo = DOMAIN files) \/ (pc = "done" /\ ~fixMode) =>
    /\ DOMAIN verdict = UNION {FixesOf(findings, f) \X {f} : f \in File}
    /\ count.applied = Judged("applied")
    /\ count.overlapping = Judged("overlapping")
    /\ count.failed = Judged("failed")
         + Cardinality({i \in DOMAIN findings : UsesFix(findings[i]) /\ ~Resolvable(findings[i])})

(* A skipped fix is benign: it overlaps an applied fix that starts no later *)
(* and, starting level with it, was reported before it, whatever order the  *)
(* files of the map came in.                                                *)
OverlapLostToEarlier ==
  \A x \in DOMAIN verdict : verdict[x] = "overlapping" =>
    \E y \in DOMAIN verdict :
      LET ex == Edits(x[1], x[2])  ey == Edits(y[1], y[2]) IN
      /\ verdict[y] = "applied" /\ y[2] = x[2]
      /\ Conflicts(ex, ey)
      /\ \/ FixMinStart(ey) < FixMinStart(ex)
         \/ FixMinStart(ey) = FixMinStart(ex) /\ y[1] < x[1]

(* The fixes of a file leave no import twice, none unused, and no qualifier *)
(* undefined that was not already resolved elsewhere in the package, even   *)
(* when fixes drop the same import, add the same import, or the finding     *)
(* that carried the import edit was filtered out (the three import passes). *)
ImportsRestored ==
  \A f \in DOMAIN files : kind[f] = "ok" =>
    /\ NoDuplicateImport(files[f])
    /\ NoOrphanImport(files[f])
    /\ MissingFixableImports(files[f]) \subseteq MissingFixableImports(Orig[f])

(* No import is forced on a name the file declares itself or, without       *)
(* importing it, already used: it would redeclare a package-level name.     *)
BroughtImports(f) ==
  UNION {UNION {Imported(Edits(i, f)[n].text) : n \in DOMAIN Edits(i, f)}
           : i \in FixesOf(findings, f)}
NoClobber ==
  \A f \in DOMAIN files : kind[f] = "ok" =>
    Imported(files[f]) \cap (Declared(files[f]) \cup MissingFixableImports(Orig[f]))
      \subseteq Imported(Orig[f]) \cup BroughtImports(f)

(* A fix counted as applied is on disk when -fix is done: "patchedFiles     *)
(* must count a fix as applied only once its target file is actually        *)
(* written" (internal/runner/fixcount_test.go). The code counts before it   *)
(* writes and does not take the count back when the write fails.            *)
AppliedMeansWritten ==
  pc = "done" /\ fixMode =>
    count.applied = Cardinality({x \in DOMAIN verdict :
                                   verdict[x] = "applied" /\ disk[x[2]] = files[x[2]]})

(* All edits of an accepted fix are carried out: the text each of them      *)
(* writes is in the patched file ("all its edits apply or none do"). An     *)
(* insertion accepted before a replacement that starts level with it is     *)
(* spliced first and then overwritten.                                      *)
AcceptedEditsLand ==
  \A x \in DOMAIN verdict : verdict[x] = "applied" /\ x[2] \in DOMAIN files =>
    \A n \in DOMAIN Edits(x[1], x[2]) :
      Range(Code(Edits(x[1], x[2])[n].text)) \subseteq Range(files[x[2]])

(* patchedFiles and applyFixes implement AtomicFix: every file changes at   *)
(* most once, from its original bytes to those of a maximal compatible set  *)
(* of whole fixes, whatever the greedy order and the splice do on the way.  *)
Atomic == INSTANCE AtomicFix WITH settled <-
  IF pc = "write" THEN DOMAIN files \ todo
  ELSE IF pc = "done" /\ fixMode THEN DOMAIN files ELSE {}
ImplementsAtomicFix == Atomic!Spec
=============================================================================
