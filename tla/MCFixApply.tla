----------------------------- MODULE MCFixApply -----------------------------
(***************************************************************************)
(* Instances of FixApply for TLC: two small files and a pool of findings   *)
(* covering what the loops of patchedFiles tell apart.                     *)
(***************************************************************************)
EXTENDS FixApply

CONSTANTS A, B

Plain(n) == [uses |-> {}, decl |-> {n}, imp |-> NoPkg]
Using(p) == [uses |-> {p}, decl |-> {}, imp |-> NoPkg]

\* A: a package clause, import sort, then code that uses sort twice.
\* B: code that uses io, a name another file of its package declares.
MCOrig == (A :> <<Plain("clause"), ImportSpec("sort"), Plain("g"), Using("sort"), Using("sort"), Plain("h")>>)
       @@ (B :> <<Plain("clause"), Using("io"), Plain("k")>>)

Edit(s, e, text) == [start |-> s, end |-> e, text |-> text]
Auto(a, b) == [autofix |-> TRUE, fixes |-> <<(A :> a) @@ (B :> b) @@ (NoFile :> <<>>)>>]

AddSlices == Edit(2, 2, <<ImportSpec("slices")>>)
FirstUse == Auto(<<AddSlices, Edit(3, 4, <<Using("slices")>>)>>, <<>>)
SecondUse == Auto(<<AddSlices, Edit(4, 5, <<Using("slices"), Plain("s2")>>)>>, <<>>)
BareUse == Auto(<<Edit(4, 5, <<Using("slices")>>)>>, <<>>)      \* its sibling carries the import
BothUses == Auto(<<Edit(3, 5, <<Using("cmp")>>), Edit(6, 6, <<Plain("c")>>)>>, <<>>)
DropImport == Auto(<<Edit(1, 2, <<>>), Edit(6, 6, <<Plain("d")>>)>>, <<>>)
Malformed == Auto(<<Edit(1, 4, <<Plain("m")>>), Edit(3, 5, <<>>)>>, <<>>)
TwoFiles == Auto(<<Edit(5, 6, <<Plain("a2")>>)>>, <<Edit(2, 3, <<Plain("b2"), Using("io")>>)>>)
OnB == Auto(<<>>, <<Edit(1, 2, <<Using("slices")>>), Edit(0, 0, <<Plain("slices")>>)>>)
Lost == [autofix |-> TRUE, fixes |-> <<(A :> <<>>) @@ (B :> <<Edit(0, 1, <<>>)>>)
                                         @@ (NoFile :> <<Edit(0, 0, <<>>)>>)>>]
Advisory == [Auto(<<Edit(0, 6, <<>>)>>, <<>>) EXCEPT !.autofix = FALSE]

Pool == {FirstUse, SecondUse, BareUse, BothUses, DropImport, Malformed, TwoFiles, OnB, Lost, Advisory}
Distinct(S, n) == {s \in UNION {[1..k -> S] : k \in 0..n} : \A i, j \in DOMAIN s : s[i] = s[j] => i = j}

TieFree == Distinct(Pool, 3)
ASSUME PoolHasNoTies == \A s \in TieFree : NoTies(s)
PairsFree == Distinct(Pool, 2)
AllKinds == (A :> {"ok", "linedir"}) @@ (B :> Kind)

\* An insertion level with the start of a replacement: the two do not overlap.
WrapFirst == Auto(<<Edit(3, 3, <<Plain("open")>>)>>, <<>>)
BareFirst == Auto(<<Edit(3, 4, <<Using("slices")>>)>>, <<>>)
WithTies == Distinct({FirstUse, BareFirst, WrapFirst, TwoFiles}, 3)
OnlyOK == [f \in File |-> {"ok"}]
=============================================================================
