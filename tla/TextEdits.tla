----------------------------- MODULE TextEdits -----------------------------
(***************************************************************************)
(* The edit algebra behind perfscan's -fix and -diff modes                 *)
(* (internal/runner/runner.go, patchedFiles): half-open byte-range edits,  *)
(* the overlap tests that decide which fixes are accepted, the back-to-    *)
(* front splice that applies them, and, beside it, what a set of           *)
(* non-overlapping edits MEANS (Merge), which the splice must compute.     *)
(*                                                                         *)
(* A source file is a sequence of tokens: opaque pieces of text of which   *)
(* nothing is read but the packages they mention (module ImportPass).      *)
(* An edit [start, end) replaces tokens start+1 .. end by edit.text; an    *)
(* edit with start = end is an insertion.                                  *)
(***************************************************************************)
EXTENDS Integers, Sequences, FiniteSets, SequencesExt

\* Two half-open ranges meet. An insertion meets a range only strictly inside it.
Overlap(e, a) == e.start < a.end /\ a.start < e.end

\* Does one of the edits es overlap one of the accepted edits?
Conflicts(es, accepted) ==
  \E i \in DOMAIN es, j \in DOMAIN accepted : Overlap(es[i], accepted[j])

\* Faulty variant: trusts every fix to be well formed.
SelfOverlapsIgnored(es) == FALSE

\* Do two edits of a single (malformed) fix overlap?
SelfOverlaps(es) == \E i, j \in DOMAIN es : i < j /\ Overlap(es[i], es[j])

\* The edit does not address the n tokens that are on disk.
OutOfRange(e, n) == e.start < 0 \/ e.start > e.end \/ e.end > n

\* A fix's earliest offset, its sort key.
FixMinStart(es) == Min({es[i].start : i \in DOMAIN es})

\* Replace the range of one edit in src.
Splice(src, e) ==
  SubSeq(src, 1, e.start) \o e.text \o SubSeq(src, e.end + 1, Len(src))

\* The accepted edits, the last one in the file first. slices.SortFunc sorts up
\* to 12 elements by insertion, which keeps edits with one start in order.
BackToFront(accepted) ==
  LET before(i) == {j \in DOMAIN accepted :
                      \/ accepted[j].start > accepted[i].start
                      \/ accepted[j].start = accepted[i].start /\ j <= i}
  IN  [r \in DOMAIN accepted |->
         accepted[CHOOSE i \in DOMAIN accepted : Cardinality(before(i)) = r]]

\* They are applied in that order, so that earlier offsets stay valid.
SpliceAll(src, accepted) ==
  LET edits == BackToFront(accepted)
      spliced[n \in 0..Len(edits)] == IF n = 0 THEN src ELSE Splice(spliced[n - 1], edits[n])
  IN  spliced[Len(edits)]

-----------------------------------------------------------------------------
(* What a set of accepted edits means, independently of any order in which *)
(* they are accepted or spliced.                                           *)

IsInsertion(e) == e.start = e.end

\* The edits are given as they lie in the file, each behind the one before;
\* insertions at one boundary may be in either order.
InFileOrder(edits) == \A k, l \in DOMAIN edits : k < l => edits[k].end <= edits[l].start

\* What is before the first edit, its text, what is between it and the second
\* one, and so on to the end of src.
Merge(src, edits) ==
  LET upto(k) == IF k = 0 THEN 0 ELSE edits[k].end
      merged[k \in 0..Len(edits)] ==
        IF k = 0 THEN <<>>
        ELSE merged[k - 1] \o SubSeq(src, upto(k - 1) + 1, edits[k].start) \o edits[k].text
  IN  merged[Len(edits)] \o SubSeq(src, upto(Len(edits)) + 1, Len(src))
=============================================================================
