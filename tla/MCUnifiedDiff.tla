--------------------------- MODULE MCUnifiedDiff ---------------------------
(***************************************************************************)
(* All pairs of files of up to MaxLines lines over two line texts, the     *)
(* last line of which may lack its newline.                                *)
(***************************************************************************)
EXTENDS UnifiedDiff

CONSTANT MaxLines   (* bound on the lines of a version                     *)

Whole == {"x", "y"}
Cut == {"x without newline"}
MCLine == Whole \cup Cut
Files ==
  LET whole == UNION {[1 .. n -> Whole] : n \in 0 .. MaxLines}
  IN  whole \cup {Append(f, l) : f \in {g \in whole : Len(g) < MaxLines}, l \in Cut}
MCVersions == Files \X Files
=============================================================================
