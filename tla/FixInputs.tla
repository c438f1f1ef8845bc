------------------------------ MODULE FixInputs ------------------------------
(***************************************************************************)
(* What perfscan -fix starts from: the reported findings with their        *)
(* suggested fixes, the files their edits belong to, and which fixes of    *)
(* which file the grouping loop of patchedFiles makes of them              *)
(* (internal/runner/runner.go). Shared by the detailed specification,      *)
(* FixApply, and by what it promises, AtomicFix.                           *)
(*                                                                         *)
(* A finding is [autofix, fixes]: whether its check is auto-fixable and    *)
(* its suggested fixes. A fix is its edits by the file they belong to, in  *)
(* the order of TextEdits: a function from files, and from NoFile for an   *)
(* edit that lies in none, to sequences of edits [start, end, text].       *)
(***************************************************************************)
EXTENDS TextEdits, ImportPass

CONSTANTS
  File,      (* the files edits may belong to                              *)
  NoFile,    (* fset.File(te.Pos) = nil                                    *)
  Orig,      (* Orig[f]: the tokens of f the analyzer parsed               *)
  Inputs,    (* the sequences of reported findings to start from           *)
  Kinds      (* Kinds[f]: what f may turn out to be when it is opened      *)

\* "outside": under GOCACHE, GOMODCACHE or GOROOT; "generated": carries the
\* DO NOT EDIT marker; "linedir": cgo or //line, the import passes skip it;
\* "shrunk": one token fewer on disk than was parsed.
Kind == {"ok", "linedir", "shrunk", "outside", "unreadable", "generated"}
ASSUME KindsAreKinds == NoFile \notin File /\ Kinds \in [File -> SUBSET Kind]
ASSUME OrigIsParsed == Orig \in [File -> Seq(Token)]

\* The bytes on disk of a file of kind k.
Source(f, k) == IF k = "shrunk" THEN SubSeq(Orig[f], 1, Len(Orig[f]) - 1) ELSE Orig[f]

TextEdit == [start : Int, end : Int, text : Seq(Token)]
Fix == [File \cup {NoFile} -> Seq(TextEdit)]
Finding == [autofix : BOOLEAN, fixes : Seq(Fix)]
ASSUME InputsAreFindings == Inputs \subseteq Seq(Finding)

\* -fix uses the first suggested fix of an auto-fixable check.
UsesFix(finding) == finding.autofix /\ finding.fixes # <<>>
EditsIn(finding, f) == Head(finding.fixes)[f]
Resolvable(finding) == EditsIn(finding, NoFile) = <<>>

\* The findings (by index) with a fix in f: one fileFix each.
FixesOf(findings, f) ==
  {i \in 1..Len(findings) : /\ UsesFix(findings[i]) /\ Resolvable(findings[i])
                            /\ EditsIn(findings[i], f) # <<>>}

\* f may not be touched: what it is, or an edit that misses its bytes.
Rejected(findings, f, k) ==
  \/ k \in {"outside", "unreadable", "generated"}
  \/ \E i \in FixesOf(findings, f) :
       \E n \in DOMAIN EditsIn(findings[i], f) :
         OutOfRange(EditsIn(findings[i], f)[n], Len(Source(f, k)))

\* No insertion of a well-formed fix starts level with what another edit of
\* such a fix replaces: these two do not overlap, but their order matters.
NoTies(findings) ==
  \A f \in File : \A i, j \in FixesOf(findings, f) :
    LET a == EditsIn(findings[i], f)  b == EditsIn(findings[j], f) IN
    ~SelfOverlaps(a) /\ ~SelfOverlaps(b) =>
      \A m \in DOMAIN a, n \in DOMAIN b :
        IsInsertion(a[m]) /\ ~IsInsertion(b[n]) => a[m].start # b[n].start
=============================================================================
