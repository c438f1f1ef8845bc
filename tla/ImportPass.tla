----------------------------- MODULE ImportPass -----------------------------
(***************************************************************************)
(* The import clean-up that patchedFiles runs over a spliced file          *)
(* (internal/runner/runner.go): dedupeImports, addReferencedStdlibImports  *)
(* and pruneOrphanedImports, in that order. Independent fixes can each add *)
(* the same import, each drop the last reference but one, or lose the      *)
(* sibling finding that carried the import edit; the three passes restore  *)
(* a file that compiles.                                                   *)
(*                                                                         *)
(* A token is a record [uses, decl, imp]: the package names it qualifies a *)
(* selector with, the identifiers it declares, and the package it imports  *)
(* (NoPkg for a token that is not an import spec). Package NAMES stand for *)
(* paths: aliases, dot and blank imports, versioned and third-party paths, *)
(* which the passes leave alone, are one class, the names outside Stdlib.  *)
(***************************************************************************)
EXTENDS Integers, Sequences, FiniteSets, SequencesExt

CONSTANTS
  Stdlib,    (* standard-library package names: only these are ever pruned  *)
  Fixable,   (* fixableStdlibImports: only these are ever added             *)
  NoPkg      (* "is not an import spec"                                     *)

ASSUME FixableIsStdlib ==
  Fixable \subseteq Stdlib /\ IsFiniteSet(Fixable) /\ Stdlib \subseteq STRING \ {NoPkg}

\* An import spec neither uses nor declares a name.
Token ==
  {t \in [uses : SUBSET STRING, decl : SUBSET STRING, imp : STRING] :
     t.imp # NoPkg => t.uses = {} /\ t.decl = {}}

Uses(src) == UNION {src[i].uses : i \in DOMAIN src}
Declared(src) == UNION {src[i].decl : i \in DOMAIN src}
Imported(src) == {src[i].imp : i \in DOMAIN src} \ {NoPkg}
Code(src) == SelectSeq(src, LAMBDA t : t.imp = NoPkg)
ImportSpec(p) == [uses |-> {}, decl |-> {}, imp |-> p]

\* The tokens of src at the positions in I, in order.
Keep(src, I) ==
  LET kept[n \in 0..Len(src)] ==
        IF n = 0 THEN <<>>
        ELSE IF n \in I THEN Append(kept[n - 1], src[n]) ELSE kept[n - 1]
  IN  kept[Len(src)]

\* One copy of every import: all copies of a duplicate go, one comes back.
DedupeImports(src) ==
  Keep(src, {n \in DOMAIN src : src[n].imp # NoPkg => \A m \in 1..n - 1 : src[m].imp # src[n].imp})

\* Faulty variant: a local name that shadows a package is not respected.
MissingIgnoringDecls(src) == (Uses(src) \cap Fixable) \ Imported(src)

\* Allowlisted names used as a qualifier, neither imported nor declared here.
MissingFixableImports(src) ==
  (Uses(src) \cap Fixable) \ (Imported(src) \cup Declared(src))

\* Add them, except those the original file already used without importing.
AddReferencedStdlibImports(src, orig) ==
  SetToSeq({ImportSpec(p) : p \in MissingFixableImports(src) \ MissingFixableImports(orig)})
    \o src

\* Drop the standard-library imports nothing refers to any more.
PruneOrphanedImports(src) ==
  LET uses == Uses(src)
  IN  Keep(src, {n \in DOMAIN src : src[n].imp \in Stdlib => src[n].imp \in uses})

\* Faulty variant: two fixes that add one import leave it twice.
CleanWithoutDedupe(src, orig, opaque) ==
  IF opaque THEN src ELSE PruneOrphanedImports(AddReferencedStdlibImports(src, orig))

\* The whole clean-up, but for gofmt's layout; a cgo or //line file (opaque) is left as spliced.
CleanImports(src, orig, opaque) ==
  IF opaque THEN src
  ELSE PruneOrphanedImports(AddReferencedStdlibImports(DedupeImports(src), orig))

-----------------------------------------------------------------------------
(* A file's imports agree with its code.                                   *)

NoDuplicateImport(src) ==
  \A i, j \in DOMAIN src : src[i].imp = src[j].imp /\ src[i].imp # NoPkg => i = j
NoOrphanImport(src) == Imported(src) \cap Stdlib \subseteq Uses(src)
=============================================================================
