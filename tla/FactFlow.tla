------------------------------ MODULE FactFlow ------------------------------
(***************************************************************************)
(* A check with facts over the import graph (runFactCheckWithScope, the    *)
(* factStore), with the facts of PS6103 (checks/ps6103.go): a function     *)
(* whose result is always a fresh allocation carries a fact, which the     *)
(* passes of the packages that call it read.                               *)
(*                                                                         *)
(* A pass resolves its functions one by one in the order of a Go map, and  *)
(* each with the functions it calls first; what is being resolved counts   *)
(* as not allocating where it is asked for again.                          *)
(*                                                                         *)
(* A function is the sequence of its returns; a return is the sequence of  *)
(* the values given to what it returns, the last of which is returned. A   *)
(* value is Make (make, new, &T{}), Other, or the function that is called. *)
(* A function without a body or without a return is <<>>.                  *)
(***************************************************************************)
EXTENDS Integers, Sequences, FiniteSets

CONSTANTS
  Package,     (* the packages the load returns                            *)
  Source,      (* those that have syntax                                   *)
  Deps,        (* Deps[p]: what p imports, directly or not                 *)
  Func,        (* their functions                                          *)
  PkgOf,       (* PkgOf[f]: the package that declares f                    *)
  Make, Other, (* values that are no calls                                 *)
  Bodies,      (* the bodies the functions may have                        *)
  LoopCalls,   (* LoopCalls[p]: what p calls in loops of fixed count       *)
  HasInto,     (* functions with a sibling that writes to its argument     *)
  Requests,    (* the sets of packages the patterns may name               *)
  None

Value == Func \cup {Make, Other}
Return == Seq(Value) \ {<<>>}

ASSUME FactAssumption ==
  /\ Source \subseteq Package /\ None \notin Package
  /\ Deps \in [Package -> SUBSET Package]
  /\ \A p \in Package : p \notin Deps[p] /\ \A q \in Deps[p] : Deps[q] \subseteq Deps[p]
  /\ PkgOf \in [Func -> Package]
  /\ Make \notin Func /\ Other \notin Func /\ Make # Other
  /\ Bodies \subseteq [Func -> Seq(Return)]
  /\ \A body \in Bodies, f \in Func : PkgOf[f] \notin Source => body[f] = <<>>
  /\ \A body \in Bodies, f \in Func : \A r \in DOMAIN body[f] : \A v \in DOMAIN body[f][r] :
       body[f][r][v] \in Func => PkgOf[body[f][r][v]] \in Deps[PkgOf[f]] \cup {PkgOf[f]}
  /\ LoopCalls \in [Package -> SUBSET Func]
  /\ \A p \in Package : \A f \in LoopCalls[p] : PkgOf[f] \in Deps[p] \cup {p}
  /\ Requests \subseteq SUBSET Package

ASSUME PackagesFinite == IsFiniteSet(Package)

VARIABLES
  body,        (* the bodies of the functions                              *)
  roots,       (* the packages the user asked for                          *)
  visited,     (* the packages whose pass is over                          *)
  cur,         (* the package of the pass that runs                        *)
  memo,        (* memo[f]: what the pass knows of its function f           *)
  stack,       (* the functions being resolved, the innermost first:       *)
               (* [fn, ret, val], the place in the body of fn              *)
  facts,       (* the functions that carry the fact                        *)
  findings,    (* <<p, f>>: reported in p, a loop that calls f             *)
  result       (* "running", "done", or "failed" (exit status 2)           *)
vars == <<body, roots, visited, cur, memo, stack, facts, findings, result>>
program == <<body, roots>>

Init ==
  /\ body \in Bodies /\ roots \in Requests
  /\ visited = {} /\ cur = None
  /\ memo = [f \in Func |-> "none"] /\ stack = <<>>
  /\ facts = {} /\ findings = {} /\ result = "running"

-----------------------------------------------------------------------------
(* The packages of the graph, those without syntax left out.                *)
Graph == (roots \cup UNION {Deps[p] : p \in roots}) \cap Source

(* A slip: a package is visited before those it imports.                    *)
BeginPassFirst(p) ==
  /\ result = "running" /\ cur = None
  /\ p \in Graph \ visited
  /\ cur' = p
  /\ memo' = [f \in Func |-> "none"]
  /\ UNCHANGED <<program, visited, stack, facts, findings, result>>

BeginPass(p) ==
  /\ result = "running" /\ cur = None
  /\ p \in Graph \ visited /\ Deps[p] \cap Graph \subseteq visited
  /\ cur' = p
  /\ memo' = [f \in Func |-> "none"]
  /\ UNCHANGED <<program, visited, stack, facts, findings, result>>

(* The analyzer returns an error: the run ends and reports nothing.         *)
AnalyzerFails ==
  /\ result = "running" /\ cur # None
  /\ result' = "failed" /\ findings' = {}
  /\ UNCHANGED <<program, visited, cur, memo, stack, facts>>

-----------------------------------------------------------------------------
Local(v) == v \in Func /\ PkgOf[v] = cur

(* A slip: what is being resolved counts as allocating.                     *)
AllocatesOrBusy(v) ==
  \/ v = Make
  \/ Local(v) /\ memo[v] \in {"fresh", "busy"}
  \/ v \in Func /\ ~Local(v) /\ v \in facts

(* What the pass takes a value to be: a function of its own package is what *)
(* the pass found, another one what its fact says.                          *)
Allocates(v) ==
  \/ v = Make
  \/ Local(v) /\ memo[v] = "fresh"
  \/ v \in Func /\ ~Local(v) /\ v \in facts

Enter(f) ==
  /\ stack' = <<[fn |-> f, ret |-> 1, val |-> 1]>> \o stack
  /\ memo' = [memo EXCEPT ![f] = "busy"]

Resolve(f) ==
  /\ result = "running" /\ cur # None /\ stack = <<>>
  /\ PkgOf[f] = cur /\ memo[f] = "none"
  /\ Enter(f)
  /\ UNCHANGED <<program, visited, cur, facts, findings, result>>

(* The innermost function is at a value of one of its returns.              *)
Reading == result = "running" /\ stack # <<>> /\ Head(stack).ret \in DOMAIN body[Head(stack).fn]
Place == body[Head(stack).fn][Head(stack).ret]
At == Place[Head(stack).val]
Unresolved == Local(At) /\ memo[At] = "none"

Descend ==
  /\ Reading /\ Unresolved
  /\ Enter(At)
  /\ UNCHANGED <<program, visited, cur, facts, findings, result>>

GoTo(ret, val) ==
  stack' = [stack EXCEPT ![1] = [fn |-> @.fn, ret |-> ret, val |-> val]]

(* A value that is assigned again does not matter, once it is resolved.     *)
Overwritten ==
  /\ Reading /\ ~Unresolved /\ Head(stack).val < Len(Place)
  /\ GoTo(Head(stack).ret, Head(stack).val + 1)
  /\ UNCHANGED <<program, visited, cur, memo, facts, findings, result>>

ReturnsFresh ==
  /\ Reading /\ ~Unresolved /\ Head(stack).val = Len(Place) /\ Allocates(At)
  /\ GoTo(Head(stack).ret + 1, 1)
  /\ UNCHANGED <<program, visited, cur, memo, facts, findings, result>>

Leave(verdict) ==
  /\ memo' = [memo EXCEPT ![Head(stack).fn] = verdict]
  /\ stack' = Tail(stack)

(* A slip: a function that does not allocate is not remembered.             *)
ReturnsOtherForgotten ==
  /\ Reading /\ ~Unresolved /\ Head(stack).val = Len(Place) /\ ~Allocates(At)
  /\ Leave("none")
  /\ UNCHANGED <<program, visited, cur, facts, findings, result>>

ReturnsOther ==
  /\ Reading /\ ~Unresolved /\ Head(stack).val = Len(Place) /\ ~Allocates(At)
  /\ Leave("not")
  /\ UNCHANGED <<program, visited, cur, facts, findings, result>>

AllReturnsRead ==
  /\ result = "running" /\ stack # <<>>
  /\ Head(stack).ret > Len(body[Head(stack).fn])
  /\ Leave(IF body[Head(stack).fn] = <<>> THEN "not" ELSE "fresh")
  /\ UNCHANGED <<program, visited, cur, facts, findings, result>>

-----------------------------------------------------------------------------
(* A call in a loop is reported if it allocates and can be replaced.        *)
Reported(f) == Allocates(f) /\ (f \in HasInto \/ Local(f))

(* The pass exports its facts and reports; what a dependency reports is     *)
(* dropped.                                                                 *)
EndPass ==
  /\ result = "running" /\ cur # None /\ stack = <<>>
  /\ \A f \in Func : PkgOf[f] = cur => memo[f] # "none"
  /\ facts' = facts \cup {f \in Func : PkgOf[f] = cur /\ memo[f] = "fresh"}
  /\ findings' = findings \cup
       {<<cur, f>> : f \in {c \in LoopCalls[cur] : cur \in roots /\ Reported(c)}}
  /\ visited' = visited \cup {cur} /\ cur' = None
  /\ UNCHANGED <<program, memo, stack, result>>

Finish ==
  /\ result = "running" /\ cur = None /\ Graph \subseteq visited
  /\ result' = "done"
  /\ UNCHANGED <<program, visited, cur, memo, stack, facts, findings>>

Next ==
  \/ \E p \in Package : BeginPass(p)
  \/ \E f \in Func : Resolve(f)
  \/ Descend \/ Overwritten \/ ReturnsFresh \/ ReturnsOther \/ AllReturnsRead
  \/ EndPass \/ AnalyzerFails \/ Finish

(* One goroutine runs the passes one after the other.                       *)
Spec == Init /\ [][Next]_vars /\ WF_vars(Next)

-----------------------------------------------------------------------------
(* S holds every function whose returns are all allocations or calls of     *)
(* functions of S. The functions that allocate whatever they call are those *)
(* of every such set.                                                       *)
Closed(S) ==
  \A f \in Func :
    /\ body[f] # <<>>
    /\ \A r \in DOMAIN body[f] : body[f][r][Len(body[f][r])] \in S \cup {Make}
    => f \in S
AlwaysFresh == {f \in Func : \A S \in SUBSET Func : Closed(S) => f \in S}

(* No fact is wrong, whatever the order of the map and however the          *)
(* functions call one another (runPS6103, resolvesAllocation): a function   *)
(* with the fact returns a fresh allocation on every path.                  *)
FactsSound == \A S \in SUBSET Func : Closed(S) => facts \subseteq S

CallsOf(f) == Func \cap UNION {{body[f][r][v] : v \in DOMAIN body[f][r]} : r \in DOMAIN body[f]}
RecursionFree == \A T \in (SUBSET Func) \ {{}} : \E f \in T : CallsOf(f) \cap T = {}

Expected ==
  UNION {{<<p, f>> : f \in {c \in LoopCalls[p] \cap AlwaysFresh : c \in HasInto \/ PkgOf[c] = p}} :
           p \in roots \cap Source}

(* Only packages that were asked for are reported, whatever else was        *)
(* analyzed for its facts, and only what really allocates; without          *)
(* recursion all of it is, across packages too, and the same whatever else  *)
(* was asked for (runFactCheckWithScope, "Diagnostics remain scoped to the  *)
(* packages the user requested, while dependency passes exist only to       *)
(* publish facts").                                                         *)
FindingsExact ==
  /\ findings \subseteq Expected
  /\ result = "done" /\ RecursionFree => findings = Expected

(* The passes end, although functions call one another: none is resolved    *)
(* twice and none waits for itself (resolvesAllocation).                    *)
Ends == <>(result # "running")
=============================================================================
