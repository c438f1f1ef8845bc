------------------------------ MODULE AtomicFix ------------------------------
(***************************************************************************)
(* What perfscan -fix promises of every file: either it keeps its bytes,   *)
(* or in one step it takes a maximal set of well-formed, mutually          *)
(* compatible fixes, each wholly carried out, with its imports put right.  *)
(* Nothing is said of the order in which fixes are looked at, compared or  *)
(* spliced. A write that fails settles the file too: it keeps its bytes,   *)
(* or a front part of the new text is left. FixApply implements this       *)
(* specification.                                                          *)
(***************************************************************************)
EXTENDS FixInputs

VARIABLES findings, kind, disk,
          settled    (* the files whose rewrite was tried *)
vars == <<findings, kind, disk, settled>>

Edits(i, f) == EditsIn(findings[i], f)
WellFormed(f) == {i \in FixesOf(findings, f) : ~SelfOverlaps(Edits(i, f))}
Compatible(i, j, f) == ~Conflicts(Edits(i, f), Edits(j, f))

\* Sets of fixes to which no well-formed fix of f could be added.
MaximalSets(f) ==
  {S \in SUBSET WellFormed(f) :
     /\ \A i, j \in S : i # j => Compatible(i, j, f)
     /\ \A i \in WellFormed(f) \ S : \E j \in S : ~Compatible(i, j, f)}

\* The edits of the fixes of S, each by its fix and its place in it, and these
\* edits as they lie in the file.
EditsOf(f, S) == UNION {{i} \X DOMAIN Edits(i, f) : i \in S}
Arrangements(f, S) ==
  {q \in {[k \in DOMAIN o |-> Edits(o[k][1], f)[o[k][2]]] : o \in SetToSeqs(EditsOf(f, S))} :
     InFileOrder(q)}

\* f with the fixes of S carried out.
Fixed(f, S) ==
  {CleanImports(Merge(disk[f], q), disk[f], kind[f] = "linedir") : q \in Arrangements(f, S)}
Outcomes(f) == UNION {Fixed(f, S) : S \in MaximalSets(f) \ {{}}}

Init ==
  /\ findings \in Inputs
  /\ kind \in {k \in [File -> Kind] : \A f \in File : k[f] \in Kinds[f]}
  /\ disk = [f \in File |-> Source(f, kind[f])]
  /\ settled = {}

Settle(f) ==
  /\ f \notin settled
  /\ ~Rejected(findings, f, kind[f])
  /\ settled' = settled \cup {f}
  /\ UNCHANGED <<findings, kind>>

Rewrite(f) ==
  /\ Settle(f)
  /\ \E new \in Outcomes(f) : disk' = [disk EXCEPT ![f] = new]

RewriteFails(f) ==
  /\ Settle(f)
  /\ \E left \in {disk[f]} \cup UNION {Prefixes(new) : new \in Outcomes(f)} :
       disk' = [disk EXCEPT ![f] = left]

Next == \E f \in File : Rewrite(f) \/ RewriteFails(f)
Spec == Init /\ [][Next]_vars
=============================================================================
