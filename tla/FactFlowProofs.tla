--------------------------- MODULE FactFlowProofs ---------------------------
(***************************************************************************)
(* For every program and every order of resolution: no function carries    *)
(* the fact that its result is fresh unless it is.                         *)
(***************************************************************************)
EXTENDS FactFlow, FiniteSetTheorems, TLAPS

Frame == [fn : Func, ret : Nat \ {0}, val : Nat \ {0}]

TypeOK ==
  /\ body \in [Func -> Seq(Return)]
  /\ facts \subseteq Func
  /\ memo \in [Func -> {"none", "busy", "fresh", "not"}]
  /\ stack \in Seq(Frame)

Last(f, r) == body[f][r][Len(body[f][r])]

(* S holds all that the pass takes for fresh, and the returns it has read.  *)
Within(S) ==
  /\ facts \subseteq S
  /\ \A f \in Func : memo[f] = "fresh" => f \in S
  /\ \A n \in DOMAIN stack : \A r \in DOMAIN body[stack[n].fn] :
       r < stack[n].ret => Last(stack[n].fn, r) \in S \cup {Make}
Sound == \A S \in SUBSET Func : Closed(S) => Within(S)

LEMMA FrameParts ==
  /\ \A fr \in Frame : fr.fn \in Func /\ fr.ret \in Nat \ {0} /\ fr.val \in Nat \ {0}
  /\ \A f \in Func : [fn |-> f, ret |-> 1, val |-> 1] \in Frame
BY DEF Frame

LEMMA InitSound == Init => TypeOK /\ Sound
BY FactAssumption DEF Init, TypeOK, Sound, Within

(* A function is entered at its first return.                               *)
LEMMA Entering ==
  ASSUME TypeOK, Sound, NEW f \in Func, Enter(f), UNCHANGED <<body, facts>>
  PROVE  TypeOK' /\ Sound'
<1> DEFINE top == [fn |-> f, ret |-> 1, val |-> 1]
<1>1. top \in Frame /\ top.fn = f /\ top.ret = 1
  BY FrameParts
<1> HIDE DEF top
<1>2. /\ stack' = <<top>> \o stack
      /\ memo' = [memo EXCEPT ![f] = "busy"]
  BY DEF Enter, top
<1>3. /\ stack' \in Seq(Frame)
      /\ DOMAIN stack' = 1 .. Len(stack) + 1 /\ Len(stack) \in Nat
      /\ DOMAIN stack = 1 .. Len(stack)
      /\ stack'[1] = top
      /\ \A n \in 2 .. Len(stack) + 1 : stack'[n] = stack[n - 1]
  BY <1>1, <1>2 DEF TypeOK
<1>4. TypeOK'
  BY <1>2, <1>3 DEF TypeOK
<1>5. ASSUME NEW S \in SUBSET Func, Closed(S)' PROVE Within(S)'
  <2>1. Within(S)
    BY <1>5 DEF Sound, Closed
  <2>2. \A g \in Func : memo'[g] = "fresh" => g \in S
    BY <1>2, <2>1 DEF Within, TypeOK
  <2>3. \A n \in DOMAIN stack' : \A r \in DOMAIN body[stack'[n].fn] :
          r < stack'[n].ret => Last(stack'[n].fn, r) \in S \cup {Make}
    <3>1. SUFFICES ASSUME NEW n \in DOMAIN stack', NEW r \in DOMAIN body[stack'[n].fn],
                          r < stack'[n].ret
                   PROVE  Last(stack'[n].fn, r) \in S \cup {Make}
      OBVIOUS
    <3>2. CASE n = 1
      <4>1. body[f] \in Seq(Return)
        BY DEF TypeOK
      <4>2. r \in 1 .. Len(body[f]) /\ r < 1
        BY <1>1, <1>3, <3>1, <3>2, <4>1
      <4> QED
        BY <4>2
    <3>3. CASE n # 1
      <4>1. n - 1 \in DOMAIN stack /\ stack'[n] = stack[n - 1]
        BY <1>3, <3>1, <3>3
      <4> QED
        BY <2>1, <3>1, <4>1 DEF Within
    <3> QED
      BY <3>2, <3>3
  <2> QED
    BY <2>1, <2>2, <2>3 DEF Within, Last
<1> QED
  BY <1>4, <1>5 DEF Sound

(* What the innermost function returns next.                                *)
LEMMA AtValue ==
  ASSUME TypeOK, Reading, Head(stack).val = Len(Place)
  PROVE  At = Last(Head(stack).fn, Head(stack).ret)
BY DEF At, Place, Last

(* What a pass takes for fresh is in S.                                     *)
LEMMA AllocatesWithin ==
  ASSUME TypeOK, NEW S \in SUBSET Func, Within(S), NEW v, Allocates(v)
  PROVE  v \in S \cup {Make}
BY DEF Allocates, Local, Within

(* The innermost function moves on; the others stay where they are.         *)
LEMMA Moving ==
  ASSUME TypeOK, Sound, stack # <<>>, UNCHANGED <<body, facts, memo>>,
         NEW ret \in Nat \ {0}, NEW val \in Nat \ {0},
         GoTo(ret, val),
         \A S \in SUBSET Func : Closed(S) =>
           \A r \in DOMAIN body[Head(stack).fn] :
             r < ret => Last(Head(stack).fn, r) \in S \cup {Make}
  PROVE  TypeOK' /\ Sound'
<1> DEFINE top == [fn |-> Head(stack).fn, ret |-> ret, val |-> val]
<1>1. /\ DOMAIN stack = 1 .. Len(stack) /\ Len(stack) \in Nat /\ Len(stack) > 0
      /\ Head(stack) = stack[1] /\ stack[1] \in Frame
  BY DEF TypeOK
<1>2. top \in Frame /\ top.fn = Head(stack).fn /\ top.ret = ret
  BY <1>1 DEF Frame
<1> HIDE DEF top
<1>3. stack' = [stack EXCEPT ![1] = top]
  <2>1. stack' = [stack EXCEPT ![1] = [fn |-> stack[1].fn, ret |-> ret, val |-> val]]
    BY DEF GoTo
  <2> QED
    BY <1>1, <2>1 DEF top
<1>4. /\ stack' \in Seq(Frame) /\ DOMAIN stack' = DOMAIN stack
      /\ stack'[1] = top
      /\ \A n \in DOMAIN stack : n # 1 => stack'[n] = stack[n]
  BY <1>1, <1>2, <1>3 DEF TypeOK
<1>5. TypeOK'
  BY <1>4 DEF TypeOK
<1>6. ASSUME NEW S \in SUBSET Func, Closed(S)' PROVE Within(S)'
  <2>1. Closed(S) /\ Within(S)
    BY <1>6 DEF Sound, Closed
  <2>2. \A n \in DOMAIN stack' : \A r \in DOMAIN body[stack'[n].fn] :
          r < stack'[n].ret => Last(stack'[n].fn, r) \in S \cup {Make}
    BY <1>1, <1>2, <1>4, <2>1 DEF Within
  <2> QED
    BY <2>1, <2>2 DEF Within, Last
<1> QED
  BY <1>5, <1>6 DEF Sound

(* The innermost function is left with a verdict that holds.                *)
LEMMA Leaving ==
  ASSUME TypeOK, Sound, stack # <<>>, UNCHANGED <<body, facts>>,
         NEW verdict \in {"not", "fresh"}, Leave(verdict),
         verdict = "fresh" => \A S \in SUBSET Func : Closed(S) => Head(stack).fn \in S
  PROVE  TypeOK' /\ Sound'
<1>1. /\ DOMAIN stack = 1 .. Len(stack) /\ Len(stack) \in Nat /\ Len(stack) > 0
      /\ Head(stack).fn \in Func
  BY FrameParts DEF TypeOK
<1>2. /\ stack' = Tail(stack) /\ memo' = [memo EXCEPT ![Head(stack).fn] = verdict]
  BY DEF Leave
<1>3. /\ stack' \in Seq(Frame) /\ DOMAIN stack' = 1 .. Len(stack) - 1
      /\ \A n \in DOMAIN stack' : n + 1 \in DOMAIN stack /\ stack'[n] = stack[n + 1]
  BY <1>1, <1>2 DEF TypeOK
<1>4. TypeOK'
  BY <1>1, <1>2, <1>3 DEF TypeOK
<1>5. ASSUME NEW S \in SUBSET Func, Closed(S)' PROVE Within(S)'
  <2>1. Closed(S) /\ Within(S)
    BY <1>5 DEF Sound, Closed
  <2>2. \A g \in Func : memo'[g] = "fresh" => g \in S
    BY <1>1, <1>2, <2>1 DEF Within, TypeOK
  <2>3. \A n \in DOMAIN stack' : \A r \in DOMAIN body[stack'[n].fn] :
          r < stack'[n].ret => Last(stack'[n].fn, r) \in S \cup {Make}
    BY <1>3, <2>1 DEF Within
  <2> QED
    BY <2>1, <2>2, <2>3 DEF Within, Last
<1> QED
  BY <1>4, <1>5 DEF Sound

LEMMA NextSound == TypeOK /\ Sound /\ [Next]_vars => TypeOK' /\ Sound'
<1> SUFFICES ASSUME TypeOK, Sound, [Next]_vars PROVE TypeOK' /\ Sound'
  OBVIOUS
<1> USE DEF program
<1>1. ASSUME NEW p \in Package, BeginPass(p) PROVE TypeOK' /\ Sound'
  <2>1. UNCHANGED <<body, stack, facts>> /\ \A f \in Func : memo'[f] = "none"
    BY <1>1 DEF BeginPass
  <2>2. TypeOK'
    BY <1>1 DEF BeginPass, TypeOK
  <2>3. ASSUME NEW S \in SUBSET Func, Closed(S)' PROVE Within(S)'
    <3>1. Within(S)
      BY <2>1, <2>3 DEF Sound, Closed
    <3> QED
      BY <2>1, <3>1 DEF Within, Last
  <2> QED
    BY <2>2, <2>3 DEF Sound
<1>2. ASSUME NEW f \in Func, Resolve(f) PROVE TypeOK' /\ Sound'
  BY <1>2, Entering DEF Resolve
<1>3. CASE Descend
  <2>1. At \in Func /\ Enter(At) /\ UNCHANGED <<body, facts>>
    BY <1>3 DEF Descend, Unresolved, Local
  <2> QED
    BY <2>1, Entering
<1>4. CASE Overwritten
  <2>1. /\ stack # <<>> /\ UNCHANGED <<body, facts, memo>>
        /\ GoTo(Head(stack).ret, Head(stack).val + 1)
    BY <1>4 DEF Overwritten, Reading
  <2>2. /\ stack[1] = Head(stack) /\ stack[1] \in Frame /\ 1 \in DOMAIN stack
    BY <2>1 DEF TypeOK
  <2>3. Head(stack).ret \in Nat \ {0} /\ Head(stack).val + 1 \in Nat \ {0}
    BY <2>2, FrameParts
  <2>4. \A S \in SUBSET Func : Closed(S) =>
          \A r \in DOMAIN body[Head(stack).fn] :
            r < Head(stack).ret => Last(Head(stack).fn, r) \in S \cup {Make}
    BY <2>2 DEF Sound, Within
  <2> QED
    BY <2>1, <2>3, <2>4, Moving
<1>5. CASE ReturnsFresh
  <2>1. /\ stack # <<>> /\ UNCHANGED <<body, facts, memo>> /\ Reading
        /\ Head(stack).val = Len(Place) /\ Allocates(At)
        /\ GoTo(Head(stack).ret + 1, 1)
    BY <1>5 DEF ReturnsFresh, Reading
  <2>2. /\ stack[1] = Head(stack) /\ stack[1] \in Frame /\ 1 \in DOMAIN stack
    BY <2>1 DEF TypeOK
  <2>5. /\ Head(stack).ret \in Nat \ {0} /\ Head(stack).ret + 1 \in Nat \ {0}
        /\ 1 \in Nat \ {0} /\ Head(stack).fn \in Func
    BY <2>2, FrameParts
  <2>6. ASSUME NEW S \in SUBSET Func, Closed(S),
               NEW r \in DOMAIN body[Head(stack).fn], r < Head(stack).ret + 1
        PROVE  Last(Head(stack).fn, r) \in S \cup {Make}
    <3>1. Within(S)
      BY <2>6 DEF Sound
    <3>2. r \in Nat
      BY <2>5, <2>6 DEF TypeOK
    <3>3. CASE r < Head(stack).ret
      BY <2>2, <2>6, <3>1, <3>3 DEF Within
    <3>4. CASE r = Head(stack).ret
      BY <2>1, <3>1, <3>4, AtValue, AllocatesWithin
    <3> QED
      BY <2>5, <2>6, <3>2, <3>3, <3>4
  <2> QED
    BY <2>1, <2>5, <2>6, Moving
<1>6. CASE ReturnsOther
  <2>1. stack # <<>> /\ UNCHANGED <<body, facts>> /\ Leave("not")
    BY <1>6 DEF ReturnsOther, Reading
  <2>2. "not" \in {"not", "fresh"} /\ "not" # "fresh"
    OBVIOUS
  <2> QED
    BY <2>1, <2>2, Leaving
<1>7. CASE AllReturnsRead
  <2> DEFINE f == Head(stack).fn
             verdict == IF body[f] = <<>> THEN "not" ELSE "fresh"
  <2>1. /\ stack # <<>> /\ UNCHANGED <<body, facts>> /\ Leave(verdict)
        /\ Head(stack).ret > Len(body[f])
    BY <1>7 DEF AllReturnsRead
  <2>2. stack[1] = Head(stack) /\ stack[1] \in Frame /\ 1 \in DOMAIN stack
    BY <2>1 DEF TypeOK
  <2>3. f \in Func /\ Head(stack).ret \in Nat
    BY <2>2, FrameParts
  <2>4. ASSUME verdict = "fresh", NEW S \in SUBSET Func, Closed(S) PROVE f \in S
    <3>1. Within(S) /\ body[f] # <<>>
      BY <2>4 DEF Sound
    <3>2. \A r \in DOMAIN body[f] : r < Head(stack).ret
      BY <2>1, <2>3 DEF TypeOK
    <3>3. \A r \in DOMAIN body[f] : Last(f, r) \in S \cup {Make}
      BY <2>2, <3>1, <3>2 DEF Within
    <3> QED
      BY <2>3, <2>4, <3>1, <3>3 DEF Closed, Last
  <2>5. verdict \in {"not", "fresh"}
    OBVIOUS
  <2> QED
    BY <2>1, <2>4, <2>5, Leaving
<1>8. CASE EndPass
  <2>1. /\ facts' = facts \cup {f \in Func : PkgOf[f] = cur /\ memo[f] = "fresh"}
        /\ UNCHANGED <<body, memo, stack>>
    BY <1>8 DEF EndPass
  <2>2. TypeOK'
    BY <2>1 DEF TypeOK
  <2>3. ASSUME NEW S \in SUBSET Func, Closed(S)' PROVE Within(S)'
    BY <2>1, <2>3 DEF Sound, Within, Closed, Last
  <2> QED
    BY <2>2, <2>3 DEF Sound
<1>9. CASE AnalyzerFails \/ Finish \/ UNCHANGED vars
  BY <1>9 DEF AnalyzerFails, Finish, vars, TypeOK, Sound, Within, Closed, Last
<1> QED
  BY <1>1, <1>2, <1>3, <1>4, <1>5, <1>6, <1>7, <1>8, <1>9 DEF Next

(* Whatever the program, the packages asked for and the order in which the  *)
(* functions are resolved, a function that carries the fact allocates       *)
(* (runPS6103): it is in every set that is closed under the rule.           *)
THEOREM NoWrongFact == Spec => []FactsSound
<1>1. Sound => FactsSound
  BY DEF Sound, Within, FactsSound
<1>2. TypeOK /\ Sound /\ [Next]_vars => (TypeOK /\ Sound)'
  BY NextSound
<1> QED
  BY <1>1, <1>2, InitSound, PTL DEF Spec

-----------------------------------------------------------------------------
(* The passes run in the order of the imports, and a function on the stack  *)
(* is called by the one below it.                                           *)
Located ==
  /\ body \in Bodies /\ roots \subseteq Package
  /\ cur # None => cur \in Graph /\ Deps[cur] \cap Graph \subseteq visited
  /\ \A n \in DOMAIN stack :
       LET fn == stack[n].fn
       IN  /\ cur # None /\ PkgOf[fn] = cur
           /\ stack[n].ret \in DOMAIN body[fn] => stack[n].val \in DOMAIN body[fn][stack[n].ret]
           /\ n - 1 \in DOMAIN stack => stack[n - 1].fn \in CallsOf(fn)
  /\ \A f \in Func : memo[f] = "busy" => \E n \in DOMAIN stack : stack[n].fn = f

(* Without recursion a function is not missed, and no finding of a pass     *)
(* that is over.                                                            *)
ExpectedIn(p) == {f \in LoopCalls[p] \cap AlwaysFresh : f \in HasInto \/ PkgOf[f] = p}
NoneMissed ==
  /\ \A f \in Func : memo[f] = "not" => f \notin AlwaysFresh
  /\ \A f \in AlwaysFresh : PkgOf[f] \in visited => f \in facts
  /\ result # "failed" => \A p \in visited \cap roots : \A f \in ExpectedIn(p) : <<p, f>> \in findings
Complete ==
  /\ Located
  /\ findings \subseteq Expected
  /\ result = "done" => Graph \subseteq visited
  /\ RecursionFree => NoneMissed

LEMMA CallsOfBody ==
  ASSUME NEW f, NEW r \in DOMAIN body[f], NEW v \in DOMAIN body[f][r], body[f][r][v] \in Func
  PROVE  body[f][r][v] \in CallsOf(f)
<1>1. body[f][r][v] \in {body[f][r][w] : w \in DOMAIN body[f][r]}
  OBVIOUS
<1>2. body[f][r][v] \in UNION {{body[f][s][w] : w \in DOMAIN body[f][s]} : s \in DOMAIN body[f]}
  BY <1>1
<1> QED
  BY <1>2 DEF CallsOf

LEMMA InitLocated == Init => Located
BY FactAssumption DEF Init, Located

(* How the stack changes.                                                   *)
LEMMA EnterStack ==
  ASSUME TypeOK, NEW f \in Func, Enter(f)
  PROVE  /\ DOMAIN stack' = 1 .. Len(stack) + 1 /\ Len(stack) \in Nat /\ DOMAIN stack = 1 .. Len(stack)
         /\ stack'[1] = [fn |-> f, ret |-> 1, val |-> 1]
         /\ \A n \in DOMAIN stack' : n # 1 => n - 1 \in DOMAIN stack /\ stack'[n] = stack[n - 1]
<1> DEFINE top == [fn |-> f, ret |-> 1, val |-> 1]
<1>1. top \in Frame
  BY FrameParts
<1>2. stack' = <<top>> \o stack
  BY DEF Enter
<1> HIDE DEF top
<1>3. /\ DOMAIN stack' = 1 .. Len(stack) + 1 /\ Len(stack) \in Nat /\ DOMAIN stack = 1 .. Len(stack)
      /\ stack'[1] = top
      /\ \A n \in DOMAIN stack' : n # 1 => n - 1 \in DOMAIN stack /\ stack'[n] = stack[n - 1]
  BY <1>1, <1>2 DEF TypeOK
<1> QED
  BY <1>3 DEF top

LEMMA GoToStack ==
  ASSUME TypeOK, stack # <<>>, NEW ret, NEW val, GoTo(ret, val)
  PROVE  /\ DOMAIN stack' = DOMAIN stack /\ 1 \in DOMAIN stack
         /\ stack'[1] = [fn |-> stack[1].fn, ret |-> ret, val |-> val]
         /\ \A n \in DOMAIN stack : n # 1 => stack'[n] = stack[n]
<1> DEFINE top == [fn |-> stack[1].fn, ret |-> ret, val |-> val]
<1>1. stack' = [stack EXCEPT ![1] = top]
  BY DEF GoTo
<1> HIDE DEF top
<1>2. /\ DOMAIN stack' = DOMAIN stack /\ 1 \in DOMAIN stack /\ stack'[1] = top
      /\ \A n \in DOMAIN stack : n # 1 => stack'[n] = stack[n]
  BY <1>1 DEF TypeOK
<1> QED
  BY <1>2 DEF top

LEMMA LeaveStack ==
  ASSUME TypeOK, stack # <<>>, NEW verdict, Leave(verdict)
  PROVE  /\ DOMAIN stack = 1 .. Len(stack) /\ Len(stack) \in Nat /\ Len(stack) > 0
         /\ DOMAIN stack' = 1 .. Len(stack) - 1
         /\ \A n \in DOMAIN stack' : n + 1 \in DOMAIN stack /\ stack'[n] = stack[n + 1]
BY DEF TypeOK, Leave

(* The frames of the functions that wait, after the innermost moved on.     *)
LEMMA LocatedMoving ==
  ASSUME TypeOK, Located, stack # <<>>, UNCHANGED <<program, visited, cur, memo>>,
         NEW ret \in Nat \ {0}, NEW val \in Nat \ {0}, GoTo(ret, val),
         ret \in DOMAIN body[Head(stack).fn] => val \in DOMAIN body[Head(stack).fn][ret]
  PROVE  Located'
<1>1. /\ DOMAIN stack' = DOMAIN stack /\ 1 \in DOMAIN stack
      /\ stack'[1] = [fn |-> stack[1].fn, ret |-> ret, val |-> val]
      /\ \A n \in DOMAIN stack : n # 1 => stack'[n] = stack[n]
  BY GoToStack
<1>2. Head(stack) = stack[1]
  BY DEF TypeOK
<1>3. \A n \in DOMAIN stack : stack'[n].fn = stack[n].fn
  BY <1>1
<1>4. UNCHANGED <<body, roots, visited, cur, memo>>
  BY DEF program
<1>5. \A n \in DOMAIN stack' : stack'[n].ret \in DOMAIN body[stack'[n].fn] =>
        stack'[n].val \in DOMAIN body[stack'[n].fn][stack'[n].ret]
  BY <1>1, <1>2 DEF Located
<1>6. \A f : CallsOf(f)' = CallsOf(f)
  BY <1>4 DEF CallsOf
<1>7. Graph' = Graph
  BY <1>4 DEF Graph
<1>8. \A n \in DOMAIN stack' :
        /\ cur # None /\ PkgOf[stack'[n].fn] = cur
        /\ n - 1 \in DOMAIN stack' => stack'[n - 1].fn \in CallsOf(stack'[n].fn)
  BY <1>1, <1>3 DEF Located
<1>9. \A f \in Func : memo'[f] = "busy" => \E n \in DOMAIN stack' : stack'[n].fn = f
  BY <1>1, <1>3, <1>4 DEF Located
<1> QED
  BY <1>4, <1>5, <1>6, <1>7, <1>8, <1>9 DEF Located

LEMMA LocatedLeaving ==
  ASSUME TypeOK, Located, stack # <<>>, UNCHANGED <<program, visited, cur>>,
         NEW verdict \in {"not", "fresh"}, Leave(verdict)
  PROVE  Located'
<1>1. /\ DOMAIN stack = 1 .. Len(stack) /\ Len(stack) \in Nat /\ Len(stack) > 0
      /\ DOMAIN stack' = 1 .. Len(stack) - 1
      /\ \A n \in DOMAIN stack' : n + 1 \in DOMAIN stack /\ stack'[n] = stack[n + 1]
  BY LeaveStack
<1>2. Head(stack) = stack[1] /\ memo' = [memo EXCEPT ![stack[1].fn] = verdict]
  <2>1. Head(stack) = stack[1]
    BY DEF TypeOK
  <2> QED
    BY <2>1 DEF Leave
<1>3. UNCHANGED <<body, roots, visited, cur>> /\ Graph' = Graph
  BY DEF program, Graph
<1>4. \A f : CallsOf(f)' = CallsOf(f)
  BY <1>3 DEF CallsOf
<1>5. ASSUME NEW n \in DOMAIN stack'
      PROVE  /\ cur # None /\ PkgOf[stack'[n].fn] = cur
             /\ stack'[n].ret \in DOMAIN body[stack'[n].fn] =>
                  stack'[n].val \in DOMAIN body[stack'[n].fn][stack'[n].ret]
             /\ n - 1 \in DOMAIN stack' => stack'[n - 1].fn \in CallsOf(stack'[n].fn)
  <2>1. n + 1 \in DOMAIN stack /\ stack'[n] = stack[n + 1] /\ n \in Nat
    BY <1>1, <1>5
  <2>2. n - 1 \in DOMAIN stack' => stack'[n - 1] = stack[n] /\ (n + 1) - 1 = n /\ n \in DOMAIN stack
    <3> SUFFICES ASSUME n - 1 \in DOMAIN stack'
                 PROVE  stack'[n - 1] = stack[n] /\ (n + 1) - 1 = n /\ n \in DOMAIN stack
      OBVIOUS
    <3>1. (n - 1) + 1 = n /\ (n + 1) - 1 = n
      BY <2>1
    <3> QED
      BY <1>1, <3>1
  <2> QED
    BY <2>1, <2>2 DEF Located
<1>6. ASSUME NEW f \in Func, memo'[f] = "busy" PROVE \E n \in DOMAIN stack' : stack'[n].fn = f
  <2>1. f # stack[1].fn /\ memo[f] = "busy"
    BY <1>2, <1>6 DEF TypeOK
  <2>2. PICK n \in DOMAIN stack : stack[n].fn = f
    BY <2>1 DEF Located
  <2>3. n # 1
    BY <2>1, <2>2
  <2>4. n - 1 \in DOMAIN stack' /\ (n - 1) + 1 = n
    BY <1>1, <2>3
  <2>5. stack'[n - 1] = stack[n]
    BY <1>1, <2>4
  <2> QED
    BY <2>2, <2>4, <2>5
<1> QED
  BY <1>3, <1>4, <1>5, <1>6 DEF Located

(* A function that is entered is one of the pass, called by the innermost.  *)
LEMMA LocatedEntering ==
  ASSUME TypeOK, Located, NEW f \in Func, Enter(f), UNCHANGED <<program, visited, cur>>,
         cur # None, PkgOf[f] = cur, stack # <<>> => f \in CallsOf(Head(stack).fn)
  PROVE  Located'
<1>1. /\ DOMAIN stack' = 1 .. Len(stack) + 1 /\ Len(stack) \in Nat /\ DOMAIN stack = 1 .. Len(stack)
      /\ stack'[1] = [fn |-> f, ret |-> 1, val |-> 1]
      /\ \A n \in DOMAIN stack' : n # 1 => n - 1 \in DOMAIN stack /\ stack'[n] = stack[n - 1]
  BY EnterStack
<1>2. stack # <<>> => Head(stack) = stack[1]
  BY DEF TypeOK
<1>3. UNCHANGED <<body, roots, visited, cur>> /\ Graph' = Graph
  BY DEF program, Graph
<1>4. \A g : CallsOf(g)' = CallsOf(g)
  BY <1>3 DEF CallsOf
<1>5. ASSUME NEW n \in DOMAIN stack'
      PROVE  /\ cur # None /\ PkgOf[stack'[n].fn] = cur
             /\ stack'[n].ret \in DOMAIN body[stack'[n].fn] =>
                  stack'[n].val \in DOMAIN body[stack'[n].fn][stack'[n].ret]
             /\ n - 1 \in DOMAIN stack' => stack'[n - 1].fn \in CallsOf(stack'[n].fn)
  <2>1. CASE n = 1
    <3>1. stack'[n].fn = f /\ stack'[n].ret = 1 /\ stack'[n].val = 1
      BY <1>1, <2>1
    <3>2. n - 1 \notin DOMAIN stack'
      BY <1>1, <2>1
    <3>3. 1 \in DOMAIN body[f] => 1 \in DOMAIN body[f][1]
      <4>1. body[f] \in Seq(Return)
        BY DEF TypeOK
      <4>2. 1 \in DOMAIN body[f] => body[f][1] \in Seq(Value) /\ body[f][1] # <<>>
        BY <4>1 DEF Return
      <4> QED
        BY <4>2
    <3> QED
      BY <3>1, <3>2, <3>3
  <2>2. CASE n # 1
    <3>1. n - 1 \in DOMAIN stack /\ stack'[n] = stack[n - 1]
      BY <1>1, <2>2
    <3>2. stack'[n - 1].fn \in CallsOf(stack'[n].fn)
      <4>1. CASE n - 1 = 1
        <5>1. stack # <<>> /\ stack'[n - 1].fn = f /\ stack'[n].fn = Head(stack).fn
          BY <1>1, <1>2, <3>1, <4>1
        <5> QED
          BY <5>1
      <4>2. CASE n - 1 # 1
        <5>1. n - 1 \in DOMAIN stack'
          BY <1>1, <3>1
        <5>2. (n - 1) - 1 \in DOMAIN stack /\ stack'[n - 1] = stack[(n - 1) - 1]
          BY <1>1, <4>2, <5>1
        <5> QED
          BY <3>1, <5>2 DEF Located
      <4> QED
        BY <4>1, <4>2
    <3> QED
      BY <3>1, <3>2 DEF Located
  <2> QED
    BY <2>1, <2>2
<1>6. ASSUME NEW g \in Func, memo'[g] = "busy" PROVE \E n \in DOMAIN stack' : stack'[n].fn = g
  <2>1. CASE g = f
    <3>1. 1 \in DOMAIN stack' /\ stack'[1].fn = f
      BY <1>1
    <3> QED
      BY <2>1, <3>1
  <2>2. CASE g # f
    <3>1. memo[g] = "busy"
      BY <1>6, <2>2 DEF Enter, TypeOK
    <3>2. PICK n \in DOMAIN stack : stack[n].fn = g
      BY <3>1 DEF Located
    <3>3. n + 1 \in DOMAIN stack' /\ n + 1 # 1 /\ (n + 1) - 1 = n
      BY <1>1
    <3>4. stack'[n + 1] = stack[n]
      BY <1>1, <3>3
    <3> QED
      BY <3>2, <3>3, <3>4
  <2> QED
    BY <2>1, <2>2
<1> QED
  BY <1>3, <1>4, <1>5, <1>6 DEF Located

LEMMA NextLocated ==
  ASSUME TypeOK, Located, [Next]_vars
  PROVE  Located'
<1>1. ASSUME NEW p \in Package, BeginPass(p) PROVE Located'
  <2>1. /\ cur = None /\ p \in Graph /\ Deps[p] \cap Graph \subseteq visited /\ cur' = p
        /\ UNCHANGED <<body, roots, visited, stack>> /\ memo' = [f \in Func |-> "none"]
    BY <1>1 DEF BeginPass, program
  <2>2. DOMAIN stack = {}
    BY <2>1 DEF Located
  <2> QED
    BY <2>1, <2>2 DEF Located, Graph
<1>2. ASSUME NEW f \in Func, Resolve(f) PROVE Located'
  BY <1>2, LocatedEntering DEF Resolve
<1>3. CASE Descend
  <2>1. /\ At \in Func /\ PkgOf[At] = cur /\ Enter(At) /\ UNCHANGED <<program, visited, cur>>
        /\ stack # <<>> /\ Head(stack).ret \in DOMAIN body[Head(stack).fn]
    BY <1>3 DEF Descend, Reading, Unresolved, Local
  <2>2. 1 \in DOMAIN stack /\ Head(stack) = stack[1]
    BY <2>1 DEF TypeOK
  <2>3. cur # None /\ Head(stack).val \in DOMAIN Place
    BY <2>1, <2>2 DEF Located, Place
  <2>4. At \in CallsOf(Head(stack).fn)
    BY <2>1, <2>3, CallsOfBody DEF At, Place
  <2>5. PICK f \in Func : f = At
    BY <2>1
  <2>6. /\ Enter(f) /\ UNCHANGED <<program, visited, cur>> /\ cur # None /\ PkgOf[f] = cur
        /\ f \in CallsOf(Head(stack).fn)
    BY <2>1, <2>3, <2>4, <2>5 DEF Enter
  <2> QED
    BY <2>6, LocatedEntering
<1>4. CASE Overwritten
  <2>1. /\ stack # <<>> /\ UNCHANGED <<program, visited, cur, memo>>
        /\ GoTo(Head(stack).ret, Head(stack).val + 1)
        /\ Head(stack).ret \in DOMAIN body[Head(stack).fn] /\ Head(stack).val < Len(Place)
    BY <1>4 DEF Overwritten, Reading
  <2>2. /\ stack[1] = Head(stack) /\ stack[1] \in Frame /\ 1 \in DOMAIN stack
    BY <2>1 DEF TypeOK
  <2>3. Head(stack).ret \in Nat \ {0} /\ Head(stack).val \in Nat \ {0} /\ Head(stack).fn \in Func
    BY <2>2, FrameParts
  <2>4. Place \in Seq(Value)
    <3>1. body[Head(stack).fn] \in Seq(Return)
      BY <2>3 DEF TypeOK
    <3> QED
      BY <2>1, <3>1 DEF Place, Return
  <2>5. Head(stack).val + 1 \in Nat \ {0} /\ Head(stack).val + 1 \in DOMAIN Place
    BY <2>1, <2>3, <2>4
  <2> QED
    BY <2>1, <2>3, <2>5, LocatedMoving DEF Place
<1>5. CASE ReturnsFresh
  <2>1. /\ stack # <<>> /\ UNCHANGED <<program, visited, cur, memo>>
        /\ GoTo(Head(stack).ret + 1, 1)
    BY <1>5 DEF ReturnsFresh, Reading
  <2>2. /\ stack[1] = Head(stack) /\ stack[1] \in Frame /\ 1 \in DOMAIN stack
    BY <2>1 DEF TypeOK
  <2>3. Head(stack).ret + 1 \in Nat \ {0} /\ 1 \in Nat \ {0} /\ Head(stack).fn \in Func
    BY <2>2, FrameParts
  <2> DEFINE next == Head(stack).ret + 1
  <2>4. next \in DOMAIN body[Head(stack).fn] => 1 \in DOMAIN body[Head(stack).fn][next]
    <3>1. body[Head(stack).fn] \in Seq(Return)
      BY <2>3 DEF TypeOK
    <3>2. next \in DOMAIN body[Head(stack).fn] =>
            body[Head(stack).fn][next] \in Seq(Value) /\ body[Head(stack).fn][next] # <<>>
      BY <3>1 DEF Return
    <3> QED
      BY <3>2
  <2> QED
    BY <2>1, <2>3, <2>4, LocatedMoving
<1>6. CASE ReturnsOther
  <2>1. stack # <<>> /\ UNCHANGED <<program, visited, cur>> /\ Leave("not")
    BY <1>6 DEF ReturnsOther, Reading
  <2> QED
    BY <2>1, LocatedLeaving
<1>7. CASE AllReturnsRead
  <2> DEFINE verdict == IF body[Head(stack).fn] = <<>> THEN "not" ELSE "fresh"
  <2>1. stack # <<>> /\ UNCHANGED <<program, visited, cur>> /\ Leave(verdict)
    BY <1>7 DEF AllReturnsRead
  <2>2. verdict \in {"not", "fresh"}
    OBVIOUS
  <2> HIDE DEF verdict
  <2> QED
    BY <2>1, <2>2, LocatedLeaving
<1>8. CASE EndPass
  <2>1. stack = <<>> /\ cur' = None /\ UNCHANGED <<body, roots, memo, stack>>
    BY <1>8 DEF EndPass, program
  <2> QED
    BY <2>1 DEF Located
<1>9. CASE AnalyzerFails \/ Finish \/ UNCHANGED vars
  BY <1>9 DEF AnalyzerFails, Finish, vars, program, Located, Graph, CallsOf
<1> QED
  BY <1>1, <1>2, <1>3, <1>4, <1>5, <1>6, <1>7, <1>8, <1>9 DEF Next

(* What is in every closed set is itself closed, and the least such set:    *)
(* a function is in it only if all it returns is.                           *)
LEMMA AlwaysFreshClosed ==
  ASSUME NEW f \in Func, body[f] # <<>>, \A r \in DOMAIN body[f] : Last(f, r) \in AlwaysFresh \cup {Make}
  PROVE  f \in AlwaysFresh
<1> SUFFICES ASSUME NEW S \in SUBSET Func, Closed(S) PROVE f \in S
  BY DEF AlwaysFresh
<1>1. AlwaysFresh \subseteq S
  BY DEF AlwaysFresh
<1>2. \A r \in DOMAIN body[f] : body[f][r][Len(body[f][r])] \in S \cup {Make}
  BY <1>1 DEF Last
<1> QED
  BY <1>2 DEF Closed

LEMMA AlwaysFreshReturns ==
  ASSUME NEW f \in AlwaysFresh
  PROVE  body[f] # <<>> /\ \A r \in DOMAIN body[f] : Last(f, r) \in AlwaysFresh \cup {Make}
<1> DEFINE Allowed == body[f] # <<>> /\ \A r \in DOMAIN body[f] : Last(f, r) \in AlwaysFresh \cup {Make}
           S == AlwaysFresh \ {f}
<1> SUFFICES ASSUME ~Allowed PROVE FALSE
  OBVIOUS
<1>1. f \in Func /\ AlwaysFresh \subseteq Func
  BY DEF AlwaysFresh
<1>2. ASSUME NEW g \in Func, body[g] # <<>>,
             \A r \in DOMAIN body[g] : body[g][r][Len(body[g][r])] \in S \cup {Make}
      PROVE  g \in S
  <2>1. \A r \in DOMAIN body[g] : Last(g, r) \in AlwaysFresh \cup {Make}
    BY <1>2 DEF Last
  <2>2. g \in AlwaysFresh
    BY <1>2, <2>1, AlwaysFreshClosed
  <2>3. g # f
    BY <1>2, <2>1
  <2> QED
    BY <2>2, <2>3
<1>3. S \in SUBSET Func /\ Closed(S)
  BY <1>1, <1>2 DEF Closed
<1>4. f \in S
  BY <1>3 DEF AlwaysFresh
<1> QED
  BY <1>4

(* Only what is fresh is taken for fresh.                                   *)
LEMMA AllocatesIsFresh ==
  ASSUME TypeOK, Sound, NEW f \in Func, Allocates(f)
  PROVE  f \in AlwaysFresh
<1> SUFFICES ASSUME NEW S \in SUBSET Func, Closed(S) PROVE f \in S
  BY DEF AlwaysFresh
<1>1. f \in S \cup {Make}
  BY AllocatesWithin DEF Sound
<1> QED
  BY <1>1, FactAssumption

(* Without recursion a pass does not ask for a function that waits.         *)
LEMMA NotBusy ==
  ASSUME TypeOK, Located, RecursionFree, Reading, Local(At)
  PROVE  memo[At] # "busy"
<1> SUFFICES ASSUME memo[At] = "busy" PROVE FALSE
  OBVIOUS
<1>1. At \in Func
  BY DEF Local
<1>2. PICK k \in DOMAIN stack : stack[k].fn = At
  BY <1>1 DEF Located
<1>3. DOMAIN stack = 1 .. Len(stack) /\ Len(stack) \in Nat /\ 1 \in DOMAIN stack /\ Head(stack) = stack[1]
      /\ \A n \in DOMAIN stack : stack[n].fn \in Func
  <2>1. stack # <<>>
    BY DEF Reading
  <2>2. \A n \in DOMAIN stack : stack[n] \in Frame
    BY DEF TypeOK
  <2> QED
    BY <2>1, <2>2, FrameParts DEF TypeOK
<1>4. At \in CallsOf(stack[1].fn)
  <2>1. Head(stack).ret \in DOMAIN body[Head(stack).fn]
    BY DEF Reading
  <2>2. Head(stack).val \in DOMAIN Place
    BY <1>3, <2>1 DEF Located, Place
  <2> QED
    BY <1>1, <1>3, <2>1, <2>2, CallsOfBody DEF At, Place
<1> DEFINE T == {stack[n].fn : n \in 1 .. k}
<1>5. T \in (SUBSET Func) \ {{}}
  <2>1. 1 .. k \subseteq DOMAIN stack /\ k \in 1 .. k
    BY <1>2, <1>3
  <2>2. T \subseteq Func
    BY <1>3, <2>1
  <2>3. stack[k].fn \in T
    BY <2>1
  <2> QED
    BY <2>2, <2>3
<1>6. ASSUME NEW f \in T PROVE CallsOf(f) \cap T # {}
  <2>1. PICK n \in 1 .. k : f = stack[n].fn
    BY <1>6
  <2>2. CASE n = 1
    <3>1. At \in T
      <4>1. k \in 1 .. k
        BY <1>2, <1>3
      <4> QED
        BY <1>2, <4>1
    <3> QED
      BY <1>4, <2>1, <2>2, <3>1
  <2>3. CASE n # 1
    <3>1. n - 1 \in 1 .. k /\ n \in DOMAIN stack /\ n - 1 \in DOMAIN stack
      BY <1>2, <1>3, <2>1, <2>3
    <3>2. stack[n - 1].fn \in CallsOf(f)
      BY <2>1, <3>1 DEF Located
    <3>3. stack[n - 1].fn \in T
      BY <3>1
    <3> QED
      BY <3>2, <3>3
  <2> QED
    BY <2>2, <2>3
<1> QED
  BY <1>5, <1>6 DEF RecursionFree

(* A fresh function of a dependency carries its fact by now.                *)
LEMMA FactOfDependency ==
  ASSUME Located, NoneMissed, cur # None, NEW f \in AlwaysFresh, PkgOf[f] \in Deps[cur]
  PROVE  f \in facts
<1>1. f \in Func /\ body[f] # <<>>
  BY AlwaysFreshReturns DEF AlwaysFresh
<1>2. PkgOf[f] \in Source
  BY <1>1, FactAssumption DEF Located
<1>3. cur \in roots \/ \E p \in roots : cur \in Deps[p]
  BY DEF Located, Graph
<1>4. PkgOf[f] \in UNION {Deps[p] : p \in roots}
  <2>1. CASE cur \in roots
    BY <2>1
  <2>2. ASSUME NEW p \in roots, cur \in Deps[p] PROVE PkgOf[f] \in UNION {Deps[q] : q \in roots}
    <3>1. Deps[cur] \subseteq Deps[p]
      BY <2>2, FactAssumption DEF Located
    <3> QED
      BY <3>1
  <2> QED
    BY <1>3, <2>1, <2>2
<1>5. PkgOf[f] \in Graph
  BY <1>2, <1>4 DEF Graph
<1> QED
  BY <1>5 DEF Located, NoneMissed

(* A function that returns what does not allocate is not fresh.             *)
LEMMA NotFresh ==
  ASSUME TypeOK, Located, RecursionFree, NoneMissed, ReturnsOther
  PROVE  Head(stack).fn \notin AlwaysFresh
<1> DEFINE f == Head(stack).fn
<1> SUFFICES ASSUME f \in AlwaysFresh PROVE FALSE
  OBVIOUS
<1>1. /\ Reading /\ ~Unresolved /\ Head(stack).val = Len(Place) /\ ~Allocates(At)
      /\ stack # <<>> /\ Head(stack).ret \in DOMAIN body[f]
  BY DEF ReturnsOther, Reading
<1>2. 1 \in DOMAIN stack /\ Head(stack) = stack[1]
  BY <1>1 DEF TypeOK
<1>3. At \in AlwaysFresh \cup {Make}
  BY <1>1, AtValue, AlwaysFreshReturns
<1>4. At \in AlwaysFresh /\ At \in Func
  BY <1>1, <1>3 DEF Allocates, AlwaysFresh
<1>5. CASE Local(At)
  <2>1. memo[At] # "none" /\ memo[At] # "fresh" /\ memo[At] # "busy"
    BY <1>1, <1>5, NotBusy DEF Unresolved, Allocates
  <2>2. memo[At] = "not"
    BY <1>4, <2>1 DEF TypeOK
  <2> QED
    BY <1>4, <2>2 DEF NoneMissed
<1>6. CASE ~Local(At)
  <2>1. Head(stack).val \in DOMAIN Place /\ cur # None /\ PkgOf[f] = cur
    BY <1>1, <1>2 DEF Located, Place
  <2>2. f \in Func /\ PkgOf[At] \in Deps[cur] \cup {cur}
    <3>1. f \in Func
      BY DEF AlwaysFresh
    <3> DEFINE r == Head(stack).ret
               v == Head(stack).val
    <3>2. At = body[f][r][v] /\ r \in DOMAIN body[f] /\ v \in DOMAIN body[f][r]
      BY <1>1, <2>1, Zenon DEF At, Place
    <3>3. body \in Bodies
      BY DEF Located
    <3> HIDE DEF f, r, v
    <3>4. body[f][r][v] \in Func => PkgOf[body[f][r][v]] \in Deps[PkgOf[f]] \cup {PkgOf[f]}
      BY <3>1, <3>2, <3>3, FactAssumption, Zenon
    <3> QED
      BY <1>4, <2>1, <3>1, <3>2, <3>4, Zenon
  <2>3. PkgOf[At] \in Deps[cur]
    BY <1>4, <1>6, <2>2 DEF Local
  <2>4. At \in facts
    BY <1>4, <2>1, <2>3, FactOfDependency
  <2> QED
    BY <1>1, <1>4, <1>6, <2>4 DEF Allocates
<1> QED
  BY <1>5, <1>6

(* A call that is expected to be reported is.                               *)
LEMMA ExpectedReported ==
  ASSUME TypeOK, Located, RecursionFree, NoneMissed, EndPass, NEW f \in ExpectedIn(cur)
  PROVE  Reported(f)
<1>1. f \in LoopCalls[cur] /\ f \in AlwaysFresh /\ (f \in HasInto \/ PkgOf[f] = cur) /\ f \in Func
  BY DEF ExpectedIn, AlwaysFresh
<1>2. cur # None /\ stack = <<>> /\ \A g \in Func : PkgOf[g] = cur => memo[g] # "none"
  BY DEF EndPass
<1>3. CASE PkgOf[f] = cur
  <2>1. memo[f] # "busy"
    BY <1>1, <1>2 DEF Located
  <2>2. memo[f] = "fresh"
    BY <1>1, <1>2, <1>3, <2>1 DEF TypeOK, NoneMissed
  <2> QED
    BY <1>1, <1>3, <2>2 DEF Reported, Allocates, Local
<1>4. CASE PkgOf[f] # cur
  <2>1. cur \in Package
    BY <1>2, FactAssumption DEF Located, Graph
  <2>2. PkgOf[f] \in Deps[cur]
    BY <1>1, <1>4, <2>1, FactAssumption
  <2>3. f \in facts
    BY <1>1, <1>2, <2>2, FactOfDependency
  <2> QED
    BY <1>1, <1>4, <2>3 DEF Reported, Allocates, Local
<1> QED
  BY <1>3, <1>4

LEMMA StepNoneMissed ==
  ASSUME TypeOK, Located, RecursionFree, NoneMissed, [Next]_vars
  PROVE  NoneMissed'
<1>1. UNCHANGED <<body, roots>>
  BY Zenon DEF Next, BeginPass, Resolve, Descend, Overwritten, ReturnsFresh, ReturnsOther, AllReturnsRead, EndPass,
     AnalyzerFails, Finish, program, vars
<1>2. AlwaysFresh' = AlwaysFresh /\ \A p : ExpectedIn(p)' = ExpectedIn(p)
  BY <1>1 DEF AlwaysFresh, Closed, ExpectedIn
<1>3. ASSUME UNCHANGED <<visited, facts, findings>>, result' = "failed" \/ result # "failed" \/ result' = result,
             \A f \in Func : memo'[f] = "not" => memo[f] = "not" \/ f \notin AlwaysFresh
      PROVE  NoneMissed'
  BY <1>1, <1>2, <1>3 DEF NoneMissed
<1>4. ASSUME NEW p \in Package, BeginPass(p) PROVE NoneMissed'
  <2>1. \A f \in Func : memo'[f] # "not"
    BY <1>4 DEF BeginPass
  <2> QED
    BY <1>3, <1>4, <2>1 DEF BeginPass
<1>5. ASSUME NEW f \in Func, Enter(f), UNCHANGED <<visited, facts, findings, result>> PROVE NoneMissed'
  <2>1. \A g \in Func : memo'[g] = "not" => memo[g] = "not"
    BY <1>5 DEF Enter, TypeOK
  <2> QED
    BY <1>3, <1>5, <2>1
<1>6. CASE Descend
  <2>1. PICK f \in Func : f = At
    BY <1>6 DEF Descend, Unresolved, Local
  <2>2. Enter(f) /\ UNCHANGED <<visited, facts, findings, result>>
    BY <1>6, <2>1 DEF Descend, Enter
  <2> QED
    BY <1>5, <2>2
<1>7. CASE Overwritten \/ ReturnsFresh
  <2>1. UNCHANGED <<visited, facts, findings, result, memo>>
    BY <1>7 DEF Overwritten, ReturnsFresh
  <2> QED
    BY <1>3, <2>1
<1>8. CASE ReturnsOther
  <2>1. UNCHANGED <<visited, facts, findings, result>> /\ memo' = [memo EXCEPT ![Head(stack).fn] = "not"]
    BY <1>8 DEF ReturnsOther, Leave
  <2>2. \A f \in Func : memo'[f] = "not" => memo[f] = "not" \/ f = Head(stack).fn
    BY <2>1 DEF TypeOK
  <2> QED
    BY <1>3, <1>8, <2>1, <2>2, NotFresh
<1>9. CASE AllReturnsRead
  <2> DEFINE f == Head(stack).fn
             verdict == IF body[f] = <<>> THEN "not" ELSE "fresh"
  <2>1. UNCHANGED <<visited, facts, findings, result>> /\ memo' = [memo EXCEPT ![f] = verdict]
    BY <1>9 DEF AllReturnsRead, Leave
  <2>2. verdict = "not" => f \notin AlwaysFresh
    BY AlwaysFreshReturns
  <2> HIDE DEF verdict
  <2>3. \A g \in Func : memo'[g] = "not" => memo[g] = "not" \/ (g = f /\ verdict = "not")
    BY <2>1 DEF TypeOK
  <2> QED
    BY <1>3, <2>1, <2>2, <2>3
<1>10. CASE EndPass
  <2>1. /\ facts' = facts \cup {f \in Func : PkgOf[f] = cur /\ memo[f] = "fresh"}
        /\ findings' = findings \cup
             {<<cur, f>> : f \in {c \in LoopCalls[cur] : cur \in roots /\ Reported(c)}}
        /\ visited' = visited \cup {cur} /\ UNCHANGED <<memo, result>>
        /\ cur # None /\ stack = <<>> /\ \A f \in Func : PkgOf[f] = cur => memo[f] # "none"
    BY <1>10 DEF EndPass
  <2>2. ASSUME NEW f \in AlwaysFresh, PkgOf[f] = cur PROVE f \in facts'
    <3>1. f \in Func /\ memo[f] # "busy" /\ memo[f] # "not" /\ memo[f] # "none"
      BY <2>1, <2>2 DEF Located, NoneMissed, AlwaysFresh
    <3>2. memo[f] = "fresh"
      BY <3>1 DEF TypeOK
    <3> QED
      BY <2>1, <2>2, <3>1, <3>2
  <2>3. \A f \in AlwaysFresh : PkgOf[f] \in visited' => f \in facts'
    BY <2>1, <2>2 DEF NoneMissed
  <2>4. ASSUME cur \in roots, NEW f \in ExpectedIn(cur) PROVE <<cur, f>> \in findings'
    <3>1. Reported(f) /\ f \in LoopCalls[cur]
      BY <1>10, ExpectedReported DEF ExpectedIn
    <3> QED
      BY <2>1, <2>4, <3>1
  <2>5. result # "failed" => \A p \in visited' \cap roots : \A f \in ExpectedIn(p) : <<p, f>> \in findings'
    BY <2>1, <2>4 DEF NoneMissed
  <2> QED
    BY <1>1, <1>2, <2>1, <2>3, <2>5 DEF NoneMissed
<1>11. CASE AnalyzerFails
  BY <1>1, <1>2, <1>11 DEF AnalyzerFails, NoneMissed
<1>12. CASE Finish
  BY <1>1, <1>2, <1>12 DEF Finish, NoneMissed
<1>13. CASE UNCHANGED vars
  BY <1>2, <1>13 DEF vars, NoneMissed
<1>14. ASSUME NEW f \in Func, Resolve(f) PROVE NoneMissed'
  BY <1>5, <1>14 DEF Resolve
<1> QED
  BY <1>4, <1>6, <1>7, <1>8, <1>9, <1>10, <1>11, <1>12, <1>13, <1>14 DEF Next

(* Only what really allocates is reported, and only where it was asked.     *)
LEMMA StepExpected ==
  ASSUME TypeOK, Sound, Located, findings \subseteq Expected, [Next]_vars
  PROVE  findings' \subseteq Expected'
<1>1. UNCHANGED <<body, roots>>
  BY Zenon DEF Next, BeginPass, Resolve, Descend, Overwritten, ReturnsFresh, ReturnsOther, AllReturnsRead, EndPass,
     AnalyzerFails, Finish, program, vars
<1>2. Expected' = Expected
  BY <1>1 DEF Expected, AlwaysFresh, Closed
<1>3. CASE EndPass
  <2>1. /\ findings' = findings \cup
             {<<cur, f>> : f \in {c \in LoopCalls[cur] : cur \in roots /\ Reported(c)}}
        /\ cur # None
    BY <1>3 DEF EndPass
  <2>2. ASSUME NEW f \in LoopCalls[cur], cur \in roots, Reported(f) PROVE <<cur, f>> \in Expected
    <3>1. cur \in Graph /\ cur \in Package
      BY <2>1, FactAssumption DEF Located, Graph
    <3>2. f \in Func /\ Allocates(f) /\ (f \in HasInto \/ PkgOf[f] = cur)
      BY <2>2, <3>1, FactAssumption DEF Reported, Local
    <3>3. f \in ExpectedIn(cur)
      BY <2>2, <3>2, AllocatesIsFresh DEF ExpectedIn
    <3>4. cur \in roots \cap Source
      BY <2>2, <3>1 DEF Graph
    <3> QED
      BY <3>3, <3>4 DEF Expected, ExpectedIn
  <2> QED
    BY <1>2, <2>1, <2>2
<1>4. CASE AnalyzerFails
  BY <1>4 DEF AnalyzerFails
<1>5. CASE ~EndPass /\ ~AnalyzerFails
  <2>1. findings' = findings
    BY <1>5, Zenon DEF Next, BeginPass, Resolve, Descend, Overwritten, ReturnsFresh, ReturnsOther, AllReturnsRead,
       Finish, vars
  <2> QED
    BY <1>2, <2>1
<1> QED
  BY <1>3, <1>4, <1>5

LEMMA StepFinished ==
  ASSUME [Next]_vars, result = "done" => Graph \subseteq visited
  PROVE  result' = "done" => Graph' \subseteq visited'
<1>1. UNCHANGED <<body, roots>>
  BY Zenon DEF Next, BeginPass, Resolve, Descend, Overwritten, ReturnsFresh, ReturnsOther, AllReturnsRead, EndPass,
     AnalyzerFails, Finish, program, vars
<1>2. Graph' = Graph
  BY <1>1 DEF Graph
<1>3. CASE Finish
  BY <1>2, <1>3 DEF Finish
<1>4. CASE ~Finish
  <2>1. visited \subseteq visited' /\ (result' = "done" => result = "done")
    BY <1>4 DEF Next, BeginPass, Resolve, Descend, Overwritten, ReturnsFresh, ReturnsOther, AllReturnsRead, EndPass,
       AnalyzerFails, vars
  <2> QED
    BY <1>2, <2>1
<1> QED
  BY <1>3, <1>4

LEMMA InitComplete == Init => Complete
<1> SUFFICES ASSUME Init PROVE Complete
  OBVIOUS
<1>1. /\ visited = {} /\ findings = {} /\ result = "running"
      /\ \A f \in Func : memo[f] # "not"
  BY DEF Init
<1>2. NoneMissed
  BY <1>1, FactAssumption DEF NoneMissed, AlwaysFresh
<1> QED
  BY <1>1, <1>2, InitLocated DEF Complete

LEMMA StepComplete == TypeOK /\ Sound /\ Complete /\ [Next]_vars => Complete'
<1> SUFFICES ASSUME TypeOK, Sound, Complete, [Next]_vars PROVE Complete'
  OBVIOUS
<1>1. Located'
  BY NextLocated DEF Complete
<1>2. findings' \subseteq Expected'
  BY StepExpected DEF Complete
<1>3. result' = "done" => Graph' \subseteq visited'
  BY StepFinished DEF Complete
<1>4. RecursionFree' => RecursionFree
  <2>1. UNCHANGED body
    BY Zenon DEF Next, BeginPass, Resolve, Descend, Overwritten, ReturnsFresh, ReturnsOther, AllReturnsRead, EndPass,
       AnalyzerFails, Finish, program, vars
  <2>2. \A f : CallsOf(f)' = CallsOf(f)
    BY <2>1 DEF CallsOf
  <2> QED
    BY <2>2 DEF RecursionFree
<1>5. RecursionFree' => NoneMissed'
  BY <1>4, StepNoneMissed DEF Complete
<1> QED
  BY <1>1, <1>2, <1>3, <1>5 DEF Complete

(* What is reported is what really allocates, for any program, any import   *)
(* graph and any order of resolution: nothing else is reported, and without *)
(* recursion nothing is missed, across packages too (runFactCheckWithScope, *)
(* runPS6103).                                                              *)
THEOREM FindingsAreExact == Spec => []FindingsExact
<1>1. Complete => FindingsExact
  <2> SUFFICES ASSUME Complete PROVE FindingsExact
    OBVIOUS
  <2>1. ASSUME result = "done", RecursionFree PROVE Expected \subseteq findings
    <3> SUFFICES ASSUME NEW p \in roots \cap Source,
                        NEW f \in {c \in LoopCalls[p] \cap AlwaysFresh : c \in HasInto \/ PkgOf[c] = p}
                 PROVE  <<p, f>> \in findings
      BY DEF Expected
    <3>1. p \in visited \cap roots
      BY <2>1 DEF Complete, Graph
    <3> QED
      BY <2>1, <3>1 DEF Complete, NoneMissed, ExpectedIn
  <2> QED
    BY <2>1 DEF Complete, FindingsExact
<1>2. TypeOK /\ Sound /\ Complete /\ [Next]_vars => (TypeOK /\ Sound /\ Complete)'
  BY NextSound, StepComplete
<1> QED
  BY <1>1, <1>2, InitSound, InitComplete, PTL DEF Spec

-----------------------------------------------------------------------------
(* The functions on the stack wait for one another, each once, in a pass    *)
(* that has not been.                                                       *)
Waiting ==
  /\ cur # None => cur \notin visited
  /\ \A n \in DOMAIN stack : memo[stack[n].fn] = "busy"
  /\ \A m, n \in DOMAIN stack : stack[m].fn = stack[n].fn => m = n

LEMMA WaitingEntering ==
  ASSUME TypeOK, Waiting, NEW f \in Func, memo[f] = "none", Enter(f), UNCHANGED <<visited, cur>>
  PROVE  Waiting'
<1>1. /\ DOMAIN stack' = 1 .. Len(stack) + 1 /\ Len(stack) \in Nat /\ DOMAIN stack = 1 .. Len(stack)
      /\ stack'[1] = [fn |-> f, ret |-> 1, val |-> 1]
      /\ \A n \in DOMAIN stack' : n # 1 => n - 1 \in DOMAIN stack /\ stack'[n] = stack[n - 1]
  BY EnterStack
<1>2. memo' = [memo EXCEPT ![f] = "busy"] /\ stack'[1].fn = f
  BY <1>1 DEF Enter
<1>3. \A n \in DOMAIN stack : memo[stack[n].fn] = "busy" /\ stack[n].fn # f
  BY DEF Waiting
<1>4. \A n \in DOMAIN stack : stack[n].fn \in Func
  BY FrameParts DEF TypeOK
<1>5. ASSUME NEW n \in DOMAIN stack' PROVE memo'[stack'[n].fn] = "busy"
  <2>1. CASE n = 1
    BY <1>2, <2>1 DEF TypeOK
  <2>2. CASE n # 1
    <3>1. n - 1 \in DOMAIN stack /\ stack'[n] = stack[n - 1]
      BY <1>1, <2>2
    <3>2. stack'[n].fn \in Func /\ stack'[n].fn # f /\ memo[stack'[n].fn] = "busy"
      BY <1>3, <1>4, <3>1
    <3> QED
      BY <1>2, <3>2 DEF TypeOK
  <2> QED
    BY <2>1, <2>2
<1>6. ASSUME NEW m \in DOMAIN stack', NEW n \in DOMAIN stack', stack'[m].fn = stack'[n].fn
      PROVE  m = n
  <2>1. \A k \in DOMAIN stack' : k # 1 => stack'[k].fn # f
    BY <1>1, <1>3
  <2>2. m = 1 <=> n = 1
    BY <1>2, <1>6, <2>1
  <2>3. CASE m # 1
    <3>1. m - 1 = n - 1
      BY <1>1, <1>6, <2>2, <2>3 DEF Waiting
    <3> QED
      BY <1>1, <3>1
  <2> QED
    BY <2>2, <2>3
<1> QED
  BY <1>5, <1>6 DEF Waiting

LEMMA WaitingMoving ==
  ASSUME TypeOK, Waiting, stack # <<>>, UNCHANGED <<visited, cur, memo>>, NEW ret, NEW val, GoTo(ret, val)
  PROVE  Waiting'
<1>1. /\ DOMAIN stack' = DOMAIN stack
      /\ stack'[1] = [fn |-> stack[1].fn, ret |-> ret, val |-> val]
      /\ \A n \in DOMAIN stack : n # 1 => stack'[n] = stack[n]
  BY GoToStack
<1>2. \A n \in DOMAIN stack : stack'[n].fn = stack[n].fn
  BY <1>1
<1> QED
  BY <1>1, <1>2 DEF Waiting

LEMMA WaitingLeaving ==
  ASSUME TypeOK, Waiting, stack # <<>>, UNCHANGED <<visited, cur>>, NEW verdict, Leave(verdict)
  PROVE  Waiting'
<1>1. /\ DOMAIN stack = 1 .. Len(stack) /\ Len(stack) \in Nat /\ Len(stack) > 0
      /\ DOMAIN stack' = 1 .. Len(stack) - 1
      /\ \A n \in DOMAIN stack' : n + 1 \in DOMAIN stack /\ stack'[n] = stack[n + 1]
  BY LeaveStack
<1>2. Head(stack) = stack[1] /\ memo' = [memo EXCEPT ![stack[1].fn] = verdict]
  <2>1. Head(stack) = stack[1]
    BY DEF TypeOK
  <2> QED
    BY <2>1 DEF Leave
<1>3. \A n \in DOMAIN stack : stack[n].fn \in Func
  BY FrameParts DEF TypeOK
<1>4. ASSUME NEW n \in DOMAIN stack' PROVE memo'[stack'[n].fn] = "busy"
  <2>1. n + 1 \in DOMAIN stack /\ 1 \in DOMAIN stack /\ n + 1 # 1 /\ stack'[n] = stack[n + 1]
    BY <1>1
  <2>2. stack[n + 1].fn # stack[1].fn /\ memo[stack[n + 1].fn] = "busy"
    BY <2>1 DEF Waiting
  <2> QED
    BY <1>2, <1>3, <2>1, <2>2 DEF TypeOK
<1>5. ASSUME NEW m \in DOMAIN stack', NEW n \in DOMAIN stack', stack'[m].fn = stack'[n].fn
      PROVE  m = n
  <2>1. m + 1 = n + 1
    BY <1>1, <1>5 DEF Waiting
  <2> QED
    BY <1>1, <2>1
<1> QED
  BY <1>4, <1>5 DEF Waiting

LEMMA NextWaiting ==
  ASSUME TypeOK, Located, Waiting, [Next]_vars
  PROVE  Waiting'
<1>1. ASSUME NEW p \in Package, BeginPass(p) PROVE Waiting'
  <2>1. cur = None /\ p \notin visited /\ cur' = p /\ UNCHANGED <<visited, stack>>
    BY <1>1 DEF BeginPass
  <2>2. DOMAIN stack = {}
    BY <2>1 DEF Located
  <2> QED
    BY <2>1, <2>2 DEF Waiting
<1>2. ASSUME NEW f \in Func, Resolve(f) PROVE Waiting'
  BY <1>2, WaitingEntering DEF Resolve
<1>3. CASE Descend
  BY <1>3, WaitingEntering DEF Descend, Unresolved, Local
<1>4. CASE Overwritten
  BY <1>4, WaitingMoving DEF Overwritten, Reading
<1>5. CASE ReturnsFresh
  BY <1>5, WaitingMoving DEF ReturnsFresh, Reading
<1>6. CASE ReturnsOther
  BY <1>6, WaitingLeaving DEF ReturnsOther, Reading
<1>7. CASE AllReturnsRead
  BY <1>7, WaitingLeaving DEF AllReturnsRead
<1>8. CASE EndPass
  <2>1. stack' = <<>> /\ cur' = None
    BY <1>8 DEF EndPass
  <2> QED
    BY <2>1 DEF Waiting
<1>9. CASE AnalyzerFails \/ Finish \/ UNCHANGED vars
  BY <1>9 DEF AnalyzerFails, Finish, vars, Waiting
<1> QED
  BY <1>1, <1>2, <1>3, <1>4, <1>5, <1>6, <1>7, <1>8, <1>9 DEF Next

(* How far a run is. No step goes back: in this order, the run ends, one    *)
(* more package is done, a pass begins, one function less is unknown or     *)
(* waits, or the innermost one goes on within its body. All of these are    *)
(* bounded in a finite program.                                             *)
Unknown == {f \in Func : memo[f] = "none"}
Busy == {f \in Func : memo[f] = "busy"}
Less(S, T) == S \subseteq T /\ S # T

GoesOnInBody ==
  /\ stack # <<>> /\ DOMAIN stack' = DOMAIN stack /\ stack'[1].fn = stack[1].fn
  /\ \A n \in DOMAIN stack : n # 1 => stack'[n] = stack[n]
  /\ LET returns == body[stack[1].fn]
     IN  /\ stack[1].ret \in DOMAIN returns
         /\ \/ stack'[1].ret = stack[1].ret + 1
            \/ /\ stack'[1].ret = stack[1].ret /\ stack'[1].val = stack[1].val + 1
               /\ stack[1].val < Len(returns[stack[1].ret])
Onward ==
  /\ UNCHANGED program
  /\ \/ result = "running" /\ result' # "running"
     \/ Less(visited, visited') /\ visited' \subseteq visited \cup Graph
     \/ visited' = visited /\ cur = None /\ cur' # None
     \/ /\ UNCHANGED <<visited, cur>>
        /\ \/ Less(Unknown', Unknown)
           \/ Unknown' = Unknown /\ Less(Busy', Busy)
           \/ memo' = memo /\ GoesOnInBody
  /\ result # "running" => result' = result

LEMMA EnteringIsOnward ==
  ASSUME TypeOK, NEW f \in Func, memo[f] = "none", Enter(f)
  PROVE  Less(Unknown', Unknown)
<1>1. memo' = [memo EXCEPT ![f] = "busy"]
  BY DEF Enter
<1>2. f \in Unknown /\ f \notin Unknown'
  BY <1>1 DEF Unknown, TypeOK
<1>3. Unknown' \subseteq Unknown
  BY <1>1 DEF Unknown, TypeOK
<1> QED
  BY <1>2, <1>3 DEF Less

LEMMA LeavingIsOnward ==
  ASSUME TypeOK, Waiting, stack # <<>>, NEW verdict \in {"not", "fresh"}, Leave(verdict)
  PROVE  Unknown' = Unknown /\ Less(Busy', Busy)
<1> DEFINE f == stack[1].fn
<1>1. Head(stack) = stack[1] /\ 1 \in DOMAIN stack /\ stack[1] \in Frame
  BY DEF TypeOK
<1>2. f \in Func /\ memo[f] = "busy"
  BY <1>1, FrameParts DEF Waiting
<1>3. memo' = [memo EXCEPT ![f] = verdict]
  BY <1>1 DEF Leave
<1> HIDE DEF f
<1>4. Unknown' = Unknown
  BY <1>2, <1>3 DEF Unknown, TypeOK
<1>5. Busy' \subseteq Busy /\ f \in Busy /\ f \notin Busy'
  BY <1>2, <1>3 DEF Busy, TypeOK
<1> QED
  BY <1>4, <1>5 DEF Less

LEMMA StepOnward ==
  ASSUME TypeOK, Located, Waiting, Next
  PROVE  Onward
<1> USE DEF program
<1>1. ASSUME NEW p \in Package, BeginPass(p) PROVE Onward
  <2>1. p # None
    BY FactAssumption
  <2> QED
    BY <1>1, <2>1 DEF BeginPass, Onward
<1>2. ASSUME NEW f \in Func, Resolve(f) PROVE Onward
  <2>1. Less(Unknown', Unknown)
    BY <1>2, EnteringIsOnward DEF Resolve
  <2> QED
    BY <1>2, <2>1 DEF Resolve, Onward
<1>3. CASE Descend
  <2>1. Less(Unknown', Unknown)
    BY <1>3, EnteringIsOnward DEF Descend, Unresolved, Local
  <2> QED
    BY <1>3, <2>1 DEF Descend, Onward
<1>4. CASE Overwritten
  <2>1. /\ stack # <<>> /\ GoTo(Head(stack).ret, Head(stack).val + 1)
        /\ Head(stack).ret \in DOMAIN body[Head(stack).fn] /\ Head(stack).val < Len(Place)
        /\ UNCHANGED <<body, roots, visited, cur, memo, result>> /\ result = "running"
    BY <1>4 DEF Overwritten, Reading
  <2>2. Head(stack) = stack[1]
    BY <2>1 DEF TypeOK
  <2>3. /\ DOMAIN stack' = DOMAIN stack
        /\ stack'[1] = [fn |-> stack[1].fn, ret |-> stack[1].ret, val |-> stack[1].val + 1]
        /\ \A n \in DOMAIN stack : n # 1 => stack'[n] = stack[n]
    BY <2>1, <2>2, GoToStack
  <2>4. GoesOnInBody
    BY <2>1, <2>2, <2>3 DEF GoesOnInBody, Place
  <2> QED
    BY <2>1, <2>4 DEF Onward
<1>5. CASE ReturnsFresh
  <2>1. /\ stack # <<>> /\ GoTo(Head(stack).ret + 1, 1)
        /\ Head(stack).ret \in DOMAIN body[Head(stack).fn]
        /\ UNCHANGED <<body, roots, visited, cur, memo, result>> /\ result = "running"
    BY <1>5 DEF ReturnsFresh, Reading
  <2>2. Head(stack) = stack[1]
    BY <2>1 DEF TypeOK
  <2>3. /\ DOMAIN stack' = DOMAIN stack
        /\ stack'[1] = [fn |-> stack[1].fn, ret |-> stack[1].ret + 1, val |-> 1]
        /\ \A n \in DOMAIN stack : n # 1 => stack'[n] = stack[n]
    BY <2>1, <2>2, GoToStack
  <2>4. GoesOnInBody
    BY <2>1, <2>2, <2>3 DEF GoesOnInBody
  <2> QED
    BY <2>1, <2>4 DEF Onward
<1>6. CASE ReturnsOther
  <2>1. Unknown' = Unknown /\ Less(Busy', Busy)
    BY <1>6, LeavingIsOnward DEF ReturnsOther, Reading
  <2> QED
    BY <1>6, <2>1 DEF ReturnsOther, Reading, Onward
<1>7. CASE AllReturnsRead
  <2>1. Unknown' = Unknown /\ Less(Busy', Busy)
    BY <1>7, LeavingIsOnward DEF AllReturnsRead
  <2> QED
    BY <1>7, <2>1 DEF AllReturnsRead, Onward
<1>8. CASE EndPass
  <2>1. cur \in Graph /\ cur \notin visited
    BY <1>8 DEF EndPass, Located, Waiting
  <2> QED
    BY <1>8, <2>1 DEF EndPass, Onward, Less
<1>9. CASE AnalyzerFails \/ Finish
  BY <1>9 DEF AnalyzerFails, Finish, Onward
<1> QED
  BY <1>1, <1>2, <1>3, <1>4, <1>5, <1>6, <1>7, <1>8, <1>9 DEF Next

(* The passes do not go round in circles, in whatever circles the functions *)
(* call one another: none is entered while it waits or when it is known     *)
(* (resolvesAllocation), and no package is visited twice.                   *)
THEOREM NothingIsDoneTwice == Spec => [][Onward]_vars
<1>1. Init => Waiting
  BY DEF Init, Waiting
<1>2. TypeOK /\ Sound /\ Located /\ Waiting /\ [Next]_vars => (TypeOK /\ Sound /\ Located /\ Waiting)'
  BY NextSound, NextLocated, NextWaiting
<1>3. TypeOK /\ Located /\ Waiting /\ [Next]_vars => [Onward]_vars
  BY StepOnward
<1> QED
  BY <1>1, <1>2, <1>3, InitSound, InitLocated, PTL DEF Spec

-----------------------------------------------------------------------------
(* In a finite graph without cycles a package comes next whose imports are  *)
(* all done.                                                                *)
LEMMA APackageIsNext ==
  ASSUME NEW U \in SUBSET Package, U # {}
  PROVE  \E p \in U : Deps[p] \cap U = {}
<1> DEFINE Below(p) == Deps[p] \cap U
           B == {Below(p) : p \in U}
<1>1. IsWellFoundedOn(StrictSubsetOrdering(Package), FiniteSubsetsOf(Package))
  BY FS_StrictSubsetOrderingWellFounded
<1>2. B \subseteq FiniteSubsetsOf(Package) /\ B # {}
  <2>1. \A p \in U : Below(p) \in SUBSET Package /\ IsFiniteSet(Below(p))
    BY PackagesFinite, FS_Subset
  <2> QED
    BY <2>1 DEF FiniteSubsetsOf
<1>3. PICK x \in B : \A y \in B : ~(<<y, x>> \in StrictSubsetOrdering(Package))
  <2> HIDE DEF B
  <2> QED
    BY <1>1, <1>2, WFMin, Zenon
<1>4. PICK p \in U : x = Below(p)
  OBVIOUS
<1>5. ASSUME NEW q \in Deps[p] \cap U PROVE FALSE
  <2>1. q \notin Deps[q] /\ Deps[q] \subseteq Deps[p] /\ q \in Package /\ p \in Package
    BY <1>5, FactAssumption
  <2>2. q \in Below(p) /\ q \notin Below(q) /\ Below(q) \subseteq Below(p)
    BY <1>5, <2>1
  <2>3. <<Below(q), Below(p)>> \in StrictSubsetOrdering(Package)
    BY <2>2 DEF StrictSubsetOrdering
  <2> QED
    BY <1>3, <1>4, <1>5, <2>3
<1> QED
  BY <1>5

(* A run that has not ended is not stuck: there is a pass to begin, or all  *)
(* are over, and the innermost function is at one of its values, or after   *)
(* its last return.                                                         *)
NotStuck ==
  result = "running" =>
    /\ cur = None =>
         \/ Graph \subseteq visited
         \/ \E p \in Graph \ visited : Deps[p] \cap Graph \subseteq visited
    /\ stack # <<>> =>
         \/ Head(stack).ret > Len(body[Head(stack).fn])
         \/ Reading /\ Head(stack).val \in DOMAIN Place

(* Dependency-first order exists for any import graph without cycles: no    *)
(* packages all wait for the facts of one another, and no function is left  *)
(* at a place it does not have (runFactCheck, runPS6103).                   *)
THEOREM NoPassIsStuck == Spec => []NotStuck
<1>1. TypeOK /\ Located => NotStuck
  <2> SUFFICES ASSUME TypeOK, Located, result = "running" PROVE NotStuck
    BY DEF NotStuck
  <2>1. ASSUME cur = None, ~(Graph \subseteq visited)
        PROVE  \E p \in Graph \ visited : Deps[p] \cap Graph \subseteq visited
    <3>1. Graph \ visited \in SUBSET Package /\ Graph \ visited # {}
      BY <2>1, FactAssumption DEF Graph
    <3>2. PICK p \in Graph \ visited : Deps[p] \cap (Graph \ visited) = {}
      BY <3>1, APackageIsNext
    <3> QED
      BY <3>2
  <2>2. ASSUME stack # <<>>
        PROVE  \/ Head(stack).ret > Len(body[Head(stack).fn])
               \/ Reading /\ Head(stack).val \in DOMAIN Place
    <3>1. Head(stack) = stack[1] /\ 1 \in DOMAIN stack /\ stack[1] \in Frame
      BY <2>2 DEF TypeOK
    <3>2. Head(stack).fn \in Func /\ Head(stack).ret \in Nat \ {0}
      BY <3>1, FrameParts
    <3>3. Head(stack).ret > Len(body[Head(stack).fn]) \/ Head(stack).ret \in DOMAIN body[Head(stack).fn]
      BY <3>2 DEF TypeOK
    <3>4. ASSUME Head(stack).ret \in DOMAIN body[Head(stack).fn] PROVE Head(stack).val \in DOMAIN Place
      BY <3>1, <3>4 DEF Located, Place
    <3> QED
      BY <2>2, <3>3, <3>4 DEF Reading
  <2> QED
    BY <2>1, <2>2 DEF NotStuck
<1>2. TypeOK /\ Sound /\ Located /\ [Next]_vars => (TypeOK /\ Sound /\ Located)'
  BY NextSound, NextLocated
<1> QED
  BY <1>1, <1>2, InitSound, InitLocated, PTL DEF Spec
=============================================================================
