----------------------------- MODULE MCFactFlow -----------------------------
(***************************************************************************)
(* Three packages that import one another in a chain, the first of them    *)
(* with two functions, and one without syntax.                             *)
(***************************************************************************)
EXTENDS FactFlow

CONSTANTS lib, mid, app, unsafe, f1, f2, g, h

MCDeps ==
  [p \in Package |-> CASE p = app -> {mid, lib, unsafe} [] p = mid -> {lib} [] OTHER -> {}]
MCPkgOf ==
  [f \in Func |-> CASE f \in {f1, f2} -> lib [] f = g -> mid [] OTHER -> app]

(* Bodies that make, call one of the functions given, call it and then make *)
(* anew, or do one on one path and another on another.                      *)
Plain == {<<>>, <<<<Make>>>>, <<<<Other>>>>}
Calling(callees) ==
  UNION {{<<<<c>>>>, <<<<c, Make>>>>, <<<<Make>>, <<c>>>>, <<<<Make, Other>>, <<c>>>>} : c \in callees}
MCBodies ==
  {[f \in Func |-> CASE f = f1 -> b1 [] f = f2 -> b2 [] f = g -> bg [] OTHER -> bh] :
     b1 \in Plain \cup Calling({f1, f2}), b2 \in Plain \cup Calling({f1}),
     bg \in Plain \cup Calling({f2}), bh \in {<<<<Make>>>>, <<<<g>>>>, <<<<h, g>>>>}}

MCLoopCalls ==
  [p \in Package |-> CASE p = app -> {f1, g, h} [] p = mid -> {f2, g} [] p = lib -> {f1} [] OTHER -> {}]
MCRequests == {{app}, {mid}, {lib, app}}
=============================================================================
