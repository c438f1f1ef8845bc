------------------------- MODULE UnifiedDiffProofs -------------------------
(***************************************************************************)
(* For every width of the context and all versions of a file: the hunks    *)
(* of a diff lie apart, and the alignment they are cut from is an edit     *)
(* script from the old version to the new one.                             *)
(***************************************************************************)
EXTENDS UnifiedDiff, FiniteSetTheorems, TLAPS

Op == [tag : {"=", "-", "+"}, ai : Nat, bi : Nat]
Group == [lo : Nat, hi : Nat]

(* The types of the variables.                                              *)
TypeOK ==
  /\ a \in Seq(Line) /\ b \in Seq(Line)
  /\ p \in Nat /\ s \in Nat /\ p + s <= Len(a) /\ p + s <= Len(b)
  /\ i \in Nat /\ j \in Nat
  /\ ops \in Seq(Op)
  /\ k \in Nat \ {0}
  /\ hunks \in Seq(Group)
  /\ pc \in {"start", "first", "last", "fill", "align", "render", "done"}

(* The common ends are common. Neither side is beyond its end, and both     *)
(* enter the common last lines together.                                    *)
EqualEnds ==
  /\ \A l \in 1 .. p : a[l] = b[l]
  /\ \A l \in 0 .. s - 1 : a[Len(a) - l] = b[Len(b) - l]
InStep ==
  /\ EqualEnds
  /\ pc \in {"start", "first"} => s = 0
  /\ pc \in {"start", "first", "last"} => i = 1 /\ j = 1 /\ ops = <<>>
  /\ pc = "fill" => i \in p .. Len(a) - s /\ j \in p .. Len(b) - s /\ ops = <<>>
  /\ pc # "fill" => i > 0 /\ j > 0
  /\ pc \in {"align", "render"} =>
       \/ i <= Len(a) - s + 1 /\ j <= Len(b) - s + 1
       \/ i > Len(a) - s /\ i <= Len(a) + 1 /\ Len(a) - i = Len(b) - j
  /\ pc = "render" => i > Len(a) /\ j > Len(b)

(* How many lines of each version are aligned: they are kept or deleted     *)
(* (kept or inserted), once and in order.                                   *)
OldCount == IF pc = "fill" THEN 0 ELSE i - 1
NewCount == IF pc = "fill" THEN 0 ELSE j - 1
OldDone ==
  /\ \A n \in DOMAIN ops : ops[n].tag # "+" => ops[n].ai \in 1 .. OldCount
  /\ \A m, n \in DOMAIN ops :
       ops[m].tag # "+" /\ ops[n].tag # "+" /\ m < n => ops[m].ai < ops[n].ai
  /\ \A x \in 1 .. OldCount : \E n \in DOMAIN ops : ops[n].tag # "+" /\ ops[n].ai = x
NewDone ==
  /\ \A n \in DOMAIN ops : ops[n].tag # "-" => ops[n].bi \in 1 .. NewCount
  /\ \A m, n \in DOMAIN ops :
       ops[m].tag # "-" /\ ops[n].tag # "-" /\ m < n => ops[m].bi < ops[n].bi
  /\ \A y \in 1 .. NewCount : \E n \in DOMAIN ops : ops[n].tag # "-" /\ ops[n].bi = y
KeptEqual ==
  \A n \in DOMAIN ops : ops[n].tag = "=" => a[ops[n].ai] = b[ops[n].bi]

(* The hunks are what the operations before k gave, and the operations      *)
(* after a hunk, to the width of the context and one more, are unchanged.   *)
Rendering ==
  /\ pc \notin {"render", "done"} => hunks = <<>>
  /\ \A n \in DOMAIN hunks :
       /\ hunks[n].hi < k
       /\ \A m \in DOMAIN ops : m > hunks[n].hi /\ m <= hunks[n].hi + Context + 1 => ~Changed(m)

LEMMA OpParts ==
  /\ \A op \in Op : op.tag \in {"=", "-", "+"} /\ op.ai \in Nat /\ op.bi \in Nat
  /\ \A h \in Group : h.lo \in Nat /\ h.hi \in Nat
BY DEF Op, Group

(* What the sequences of operations and hunks are made of.                  *)
LEMMA Parts ==
  ASSUME TypeOK
  PROVE  /\ Len(ops) \in Nat /\ DOMAIN ops = 1 .. Len(ops)
         /\ \A n \in DOMAIN ops :
              ops[n].tag \in {"=", "-", "+"} /\ ops[n].ai \in Nat /\ ops[n].bi \in Nat
         /\ Len(hunks) \in Nat /\ DOMAIN hunks = 1 .. Len(hunks)
         /\ \A n \in DOMAIN hunks : hunks[n].lo \in Nat /\ hunks[n].hi \in Nat
<1>1. /\ Len(ops) \in Nat /\ DOMAIN ops = 1 .. Len(ops)
      /\ \A n \in DOMAIN ops : ops[n] \in Op
  BY DEF TypeOK
<1>2. /\ Len(hunks) \in Nat /\ DOMAIN hunks = 1 .. Len(hunks)
      /\ \A n \in DOMAIN hunks : hunks[n] \in Group
  BY DEF TypeOK
<1> QED
  BY <1>1, <1>2, OpParts

LEMMA Places ==
  ASSUME TypeOK
  PROVE  /\ Len(a) \in Nat /\ Len(b) \in Nat
         /\ p \in Nat /\ s \in Nat /\ p + s <= Len(a) /\ p + s <= Len(b)
         /\ i \in Nat /\ j \in Nat /\ k \in Nat /\ k > 0
BY DEF TypeOK

LEMMA InitTyped == Init => TypeOK /\ InStep /\ Rendering /\ HunksApart
BY DiffAssumption DEF Init, TypeOK, InStep, EqualEnds, Rendering, HunksApart

LEMMA InitDone == Init => OldDone /\ NewDone /\ KeptEqual
BY DEF Init, OldDone, NewDone, OldCount, NewCount, KeptEqual

\* Above a place of a range, or above its start, is in the range after the start.
LEMMA Beyond ==
  ASSUME NEW lo \in Int, NEW hi \in Int, NEW c \in lo .. hi, NEW d \in lo .. hi, c < d
  PROVE  d \in lo + 1 .. hi
OBVIOUS

LEMMA NotAtStart ==
  ASSUME NEW lo \in Int, NEW hi \in Int, NEW d \in lo .. hi, d # lo
  PROVE  d \in lo + 1 .. hi
OBVIOUS

LEMMA NextTyped == TypeOK /\ InStep /\ [Next]_vars => TypeOK'
<1> SUFFICES ASSUME TypeOK, InStep, [Next]_vars PROVE TypeOK'
  OBVIOUS
<1> USE DEF TypeOK, input, ends, place, rendering
<1>1. CASE Same \/ Start
  BY <1>1 DEF Same, Start
<1>2. CASE MatchFirst \/ MatchLast
  <2>1. CASE MatchFirst
    BY <2>1 DEF MatchFirst, CommonFirst, InStep
  <2>2. CASE MatchLast
    <3>1. /\ UNCHANGED <<a, b, p, dp, i, j, ops, k, hunks, pc>>
          /\ s' = s + 1 /\ s < Len(a) - p /\ s < Len(b) - p
      BY <2>2 DEF MatchLast, CommonLast
    <3>2. s' \in Nat /\ p + s' <= Len(a) /\ p + s' <= Len(b)
      BY <3>1, Places
    <3> QED
      BY <3>1, <3>2, Zenon
  <2> QED
    BY <1>2, <2>1, <2>2
<1>11. CASE MakeTable \/ FillEntry \/ NextRow \/ TableFilled
  <2>1. /\ UNCHANGED <<a, b, p, s, ops, k, hunks>>
        /\ pc' \in {"fill", "align"}
        /\ i' \in Nat /\ j' \in Nat
    BY <1>11 DEF MakeTable, FillEntry, NextRow, TableFilled
  <2> QED
    BY <2>1
<1>3. CASE KeepLine
  <2>1. [tag |-> "=", ai |-> i, bi |-> j] \in Op
    BY DEF Op
  <2> QED
    BY <1>3, <2>1 DEF KeepLine
<1>4. CASE DeleteLine
  <2>1. [tag |-> "-", ai |-> i, bi |-> 0] \in Op
    BY DEF Op
  <2>2. /\ i' = i + 1 /\ ops' = Append(ops, [tag |-> "-", ai |-> i, bi |-> 0])
        /\ UNCHANGED <<a, b, p, s, j, k, hunks, pc>>
    BY <1>4 DEF DeleteLine
  <2> QED
    BY <2>1, <2>2
<1>5. CASE InsertLine
  <2>1. [tag |-> "+", ai |-> 0, bi |-> j] \in Op
    BY DEF Op
  <2>2. /\ j' = j + 1 /\ ops' = Append(ops, [tag |-> "+", ai |-> 0, bi |-> j])
        /\ UNCHANGED <<a, b, p, s, i, k, hunks, pc>>
    BY <1>5 DEF InsertLine
  <2> QED
    BY <2>1, <2>2
<1>6. CASE Aligned
  BY <1>6 DEF Aligned
<1>7. CASE SkipLine
  BY <1>7 DEF SkipLine
<1>8. CASE Hunk
  <2>1. PICK last \in k .. Len(ops) :
          /\ hunks' = Append(hunks, [lo |-> Larger(k - Context, 1), hi |-> Smaller(last + Context, Len(ops))])
          /\ k' = Smaller(last + Context, Len(ops)) + 1
    BY <1>8 DEF Hunk
  <2>2. Larger(k - Context, 1) \in Nat /\ Smaller(last + Context, Len(ops)) \in Nat
    BY DiffAssumption DEF Larger, Smaller
  <2>3. [lo |-> Larger(k - Context, 1), hi |-> Smaller(last + Context, Len(ops))] \in Group
    BY <2>2 DEF Group
  <2>4. UNCHANGED <<a, b, p, s, i, j, ops, pc>>
    BY <1>8 DEF Hunk
  <2> QED
    BY <2>1, <2>2, <2>3, <2>4
<1>9. CASE Rendered
  BY <1>9 DEF Rendered
<1>10. CASE UNCHANGED vars
  BY <1>10 DEF vars
<1> QED
  BY <1>1, <1>2, <1>3, <1>4, <1>5, <1>6, <1>7, <1>8, <1>9, <1>10, <1>11 DEF Next

LEMMA NextInStep == TypeOK /\ InStep /\ [Next]_vars => InStep'
<1> SUFFICES ASSUME TypeOK, InStep, [Next]_vars PROVE InStep'
  OBVIOUS
<1> USE Places DEF input, ends, place, rendering
<1> DEFINE Together ==
       \/ i <= Len(a) - s + 1 /\ j <= Len(b) - s + 1
       \/ i > Len(a) - s /\ i <= Len(a) + 1 /\ Len(a) - i = Len(b) - j
<1>0. /\ EqualEnds
      /\ pc \in {"start", "first"} => s = 0
      /\ pc \in {"start", "first", "last"} => i = 1 /\ j = 1 /\ ops = <<>>
      /\ pc = "fill" => i \in p .. Len(a) - s /\ j \in p .. Len(b) - s /\ ops = <<>>
      /\ pc # "fill" => i > 0 /\ j > 0
      /\ pc \in {"align", "render"} => Together
      /\ pc = "render" => i > Len(a) /\ j > Len(b)
  BY DEF InStep
<1>1. CASE MatchFirst
  <2>1. EqualEnds'
    <3>1. s = 0 /\ UNCHANGED <<a, b, s>> /\ (p' = p \/ (p' = p + 1 /\ a[p + 1] = b[p + 1]))
      BY <1>0, <1>1 DEF MatchFirst, CommonFirst
    <3>2. \A l \in 1 .. p : a[l] = b[l]
      BY <1>0 DEF EqualEnds
    <3>3. p \in Nat
      BY Places
    <3>4. \A l \in 1 .. p' : a[l] = b[l]
      BY <3>1, <3>2, <3>3
    <3>5. \A l \in 0 .. s' - 1 : a'[Len(a') - l] = b'[Len(b') - l]
      <4>1. s' = 0
        BY <3>1
      <4>2. \A l \in 0 .. s' - 1 : FALSE
        BY <4>1
      <4> QED
        BY <4>2
    <3>6. \A l \in 1 .. p' : a'[l] = b'[l]
      BY <3>1, <3>4
    <3> QED
      BY <3>5, <3>6, Zenon DEF EqualEnds
  <2>2. /\ i' = 1 /\ j' = 1 /\ ops' = <<>> /\ s' = 0
        /\ pc' \in {"first", "last"}
    BY <1>0, <1>1 DEF MatchFirst
  <2> QED
    BY <2>1, <2>2 DEF InStep
<1>7. CASE MatchLast
  <2>1. EqualEnds'
    <3>1. s' = s + 1 /\ UNCHANGED <<a, b, p>> /\ a[Len(a) - s] = b[Len(b) - s] /\ s \in Nat
      BY <1>7, Places DEF MatchLast, CommonLast
    <3>2. \A l \in 0 .. s - 1 : a[Len(a) - l] = b[Len(b) - l]
      BY <1>0 DEF EqualEnds
    <3>3. \A l \in 0 .. s' - 1 : l \in 0 .. s - 1 \/ l = s
      BY <3>1
    <3>4. \A l \in 0 .. s' - 1 : a[Len(a) - l] = b[Len(b) - l]
      BY <3>1, <3>2, <3>3, Zenon
    <3> QED
      BY <1>0, <3>1, <3>4, Zenon DEF EqualEnds
  <2> QED
    BY <1>0, <1>7, <2>1 DEF MatchLast, InStep
<1>8. CASE MakeTable
  <2>1. /\ i' = Len(a) - s /\ j' = Len(b) - s /\ pc' = "fill" /\ pc = "last"
        /\ UNCHANGED <<a, b, p, s, ops>>
    BY <1>8 DEF MakeTable
  <2>2. EqualEnds'
    BY <1>0, <2>1 DEF EqualEnds
  <2> QED
    BY <1>0, <2>1, <2>2 DEF InStep
<1>9. CASE FillEntry \/ NextRow
  <2>1. /\ pc = "fill" /\ UNCHANGED <<a, b, p, s, ops, pc>>
        /\ i' \in p .. Len(a) - s /\ j' \in p .. Len(b) - s
    BY <1>0, <1>9 DEF FillEntry, NextRow
  <2>2. EqualEnds'
    BY <1>0, <2>1 DEF EqualEnds
  <2> QED
    BY <1>0, <2>1, <2>2 DEF InStep
<1>10. CASE TableFilled
  <2>1. /\ pc = "fill" /\ pc' = "align" /\ UNCHANGED <<a, b, p, s, ops>>
        /\ i' = 1 /\ j' = 1
    BY <1>10 DEF TableFilled
  <2>2. EqualEnds'
    BY <1>0, <2>1 DEF EqualEnds
  <2>3. Together'
    BY <2>1
  <2> QED
    BY <1>0, <2>1, <2>2, <2>3 DEF InStep
<1>2. CASE KeepLine
  <2>1. /\ pc = "align" /\ i' = i + 1 /\ j' = j + 1
        /\ UNCHANGED <<a, b, p, s, pc>>
        /\ \/ MoreOld /\ MoreNew
           \/ ~MoreOld /\ ~MoreNew /\ i <= Len(a)
    BY <1>2 DEF KeepLine, Matching
  <2>2. Together'
    <3>1. CASE MoreOld /\ MoreNew
      <4>1. i + 1 <= Len(a) - s + 1 /\ j + 1 <= Len(b) - s + 1
        BY <3>1 DEF MoreOld, MoreNew
      <4> QED
        BY <2>1, <4>1
    <3>2. CASE ~MoreOld /\ ~MoreNew /\ i <= Len(a)
      <4>1. i > Len(a) - s /\ j > Len(b) - s
        BY <3>2 DEF MoreOld, MoreNew
      <4>2. Len(a) - i = Len(b) - j
        <5>1. Together
          BY <1>0, <2>1
        <5> QED
          BY <4>1, <5>1, Places
      <4> QED
        BY <2>1, <3>2, <4>1, <4>2
    <3> QED
      BY <2>1, <3>1, <3>2
  <2> QED
    BY <1>0, <2>1, <2>2 DEF InStep, EqualEnds
<1>3. CASE DeleteLine
  <2>1. pc = "align" /\ MoreOld /\ i' = i + 1 /\ UNCHANGED <<a, b, p, s, j, pc>>
    BY <1>3 DEF DeleteLine
  <2>2. Together'
    BY <1>0, <2>1 DEF MoreOld
  <2> QED
    BY <1>0, <2>1, <2>2 DEF InStep, EqualEnds
<1>4. CASE InsertLine
  <2>1. pc = "align" /\ MoreNew /\ j' = j + 1 /\ UNCHANGED <<a, b, p, s, i, pc>>
    BY <1>4 DEF InsertLine
  <2>2. Together'
    BY <1>0, <2>1 DEF MoreNew
  <2> QED
    BY <1>0, <2>1, <2>2 DEF InStep, EqualEnds
<1>5. CASE Aligned
  <2>1. /\ pc = "align" /\ ~MoreOld /\ ~MoreNew /\ i > Len(a) /\ pc' = "render"
        /\ UNCHANGED <<a, b, p, s, i, j, ops>>
    BY <1>5 DEF Aligned
  <2>2. j > Len(b)
    BY <1>0, <2>1 DEF MoreOld, MoreNew
  <2> QED
    BY <1>0, <2>1, <2>2 DEF InStep, EqualEnds
<1>6. CASE Same \/ Start \/ SkipLine \/ Hunk \/ Rendered \/ UNCHANGED vars
  <2>1. /\ UNCHANGED <<a, b, p, s, i, j, ops>>
        /\ pc' \in {pc, "done"} \/ (pc = "start" /\ pc' = "first")
        /\ pc' = "done" /\ pc # "done" => pc \in {"start", "render"}
    BY <1>6 DEF Same, Start, SkipLine, Hunk, Rendered, vars
  <2> QED
    BY <1>0, <2>1 DEF InStep, EqualEnds
<1> QED
  BY <1>1, <1>2, <1>3, <1>4, <1>5, <1>6, <1>7, <1>8, <1>9, <1>10 DEF Next

(* A step appends at most one operation, and counts the lines it consumes.  *)
LEMMA OneMore ==
  ASSUME TypeOK, InStep, [Next]_vars
  PROVE  /\ UNCHANGED <<a, b>>
         /\ \/ UNCHANGED <<OldCount, NewCount, ops>>
            \/ \E op \in Op :
                 /\ ops' = Append(ops, op)
                 /\ \/ /\ op.tag = "=" /\ op.ai = OldCount' /\ op.bi = NewCount' /\ a[op.ai] = b[op.bi]
                       /\ OldCount' = OldCount + 1 /\ NewCount' = NewCount + 1
                    \/ op.tag = "-" /\ op.ai = OldCount' /\ OldCount' = OldCount + 1 /\ NewCount' = NewCount
                    \/ op.tag = "+" /\ op.bi = NewCount' /\ OldCount' = OldCount /\ NewCount' = NewCount + 1
<1> USE DEF input, ends, place, rendering, OldCount, NewCount
<1>1. CASE KeepLine
  <2> DEFINE op == [tag |-> "=", ai |-> i, bi |-> j]
  <2>1. /\ pc = "align" /\ i' = i + 1 /\ j' = j + 1 /\ ops' = Append(ops, op)
        /\ UNCHANGED <<a, b, pc>>
        /\ \/ a[i] = b[j]
           \/ ~MoreOld /\ ~MoreNew /\ i <= Len(a)
    BY <1>1 DEF KeepLine, Matching
  <2>2. op \in Op /\ op.tag = "=" /\ op.ai = i /\ op.bi = j
    BY Places DEF Op
  <2>3. a[i] = b[j]
    <3>1. SUFFICES ASSUME ~MoreOld, ~MoreNew, i <= Len(a) PROVE a[i] = b[j]
      BY <2>1
    <3>2. Len(a) - i \in 0 .. s - 1 /\ Len(a) - i = Len(b) - j
      <4>1. \/ i <= Len(a) - s + 1 /\ j <= Len(b) - s + 1
            \/ i > Len(a) - s /\ i <= Len(a) + 1 /\ Len(a) - i = Len(b) - j
        BY <2>1 DEF InStep
      <4>2. i > Len(a) - s /\ j > Len(b) - s
        BY <3>1, Places DEF MoreOld, MoreNew
      <4>3. i \in Nat /\ j \in Nat /\ s \in Nat /\ Len(a) \in Nat /\ Len(b) \in Nat
        BY Places
      <4>4. Len(a) - i = Len(b) - j
        BY <4>1, <4>2, <4>3
      <4> QED
        BY <3>1, <4>2, <4>3, <4>4
    <3>3. a[Len(a) - (Len(a) - i)] = b[Len(b) - (Len(a) - i)]
      BY <3>2 DEF InStep, EqualEnds
    <3>4. Len(a) - (Len(a) - i) = i /\ Len(b) - (Len(a) - i) = j
      BY <3>2, Places
    <3> QED
      BY <3>3, <3>4
  <2>4. /\ op.ai = OldCount' /\ op.bi = NewCount' /\ a[op.ai] = b[op.bi]
        /\ OldCount' = OldCount + 1 /\ NewCount' = NewCount + 1
    <3>1. i \in Nat /\ j \in Nat /\ pc' = "align"
      BY <2>1, Places
    <3> HIDE DEF op
    <3> QED
      BY <2>1, <2>2, <2>3, <3>1
  <2> HIDE DEF op
  <2> QED
    BY <2>1, <2>2, <2>4
<1>2. CASE DeleteLine
  <2> DEFINE op == [tag |-> "-", ai |-> i, bi |-> 0]
  <2>1. pc = "align" /\ i' = i + 1 /\ ops' = Append(ops, op) /\ UNCHANGED <<a, b, j, pc>>
    BY <1>2 DEF DeleteLine
  <2>2. op \in Op /\ op.tag = "-" /\ op.ai = i
    BY Places DEF Op
  <2>3. op.ai = OldCount' /\ OldCount' = OldCount + 1 /\ NewCount' = NewCount
    <3>1. i \in Nat /\ j \in Nat /\ pc' = "align"
      BY <2>1, Places
    <3> HIDE DEF op
    <3> QED
      BY <2>1, <2>2, <3>1
  <2> HIDE DEF op
  <2> QED
    BY <2>1, <2>2, <2>3
<1>3. CASE InsertLine
  <2> DEFINE op == [tag |-> "+", ai |-> 0, bi |-> j]
  <2>1. pc = "align" /\ j' = j + 1 /\ ops' = Append(ops, op) /\ UNCHANGED <<a, b, i, pc>>
    BY <1>3 DEF InsertLine
  <2>2. op \in Op /\ op.tag = "+" /\ op.bi = j
    BY Places DEF Op
  <2>3. op.bi = NewCount' /\ NewCount' = NewCount + 1 /\ OldCount' = OldCount
    <3>1. i \in Nat /\ j \in Nat /\ pc' = "align"
      BY <2>1, Places
    <3> HIDE DEF op
    <3> QED
      BY <2>1, <2>2, <3>1
  <2> HIDE DEF op
  <2> QED
    BY <2>1, <2>2, <2>3
<1>4. CASE Same \/ Start \/ Aligned \/ SkipLine \/ Hunk \/ Rendered \/ UNCHANGED vars
  BY <1>4 DEF Same, Start, Aligned, SkipLine, Hunk, Rendered, vars
<1>5. CASE MatchFirst \/ MatchLast
  BY <1>5 DEF MatchFirst, MatchLast
<1>6. CASE MakeTable \/ FillEntry \/ NextRow \/ TableFilled
  <2>1. /\ UNCHANGED <<a, b, ops>> /\ OldCount = 0 /\ NewCount = 0
        /\ pc' = "fill" \/ (pc' = "align" /\ i' = 1 /\ j' = 1)
    BY <1>6 DEF MakeTable, FillEntry, NextRow, TableFilled, InStep
  <2> QED
    BY <2>1
<1> QED
  BY <1>1, <1>2, <1>3, <1>4, <1>5, <1>6 DEF Next

LEMMA NextDone ==
  ASSUME TypeOK, InStep, OldDone, NewDone, KeptEqual, [Next]_vars
  PROVE  OldDone' /\ NewDone' /\ KeptEqual'
<1>1. CASE UNCHANGED <<OldCount, NewCount, ops>>
  BY <1>1, OneMore DEF OldDone, NewDone, KeptEqual
<1>2. ASSUME NEW op \in Op,
             ops' = Append(ops, op),
             \/ /\ op.tag = "=" /\ op.ai = OldCount' /\ op.bi = NewCount' /\ a[op.ai] = b[op.bi]
                /\ OldCount' = OldCount + 1 /\ NewCount' = NewCount + 1
             \/ op.tag = "-" /\ op.ai = OldCount' /\ OldCount' = OldCount + 1 /\ NewCount' = NewCount
             \/ op.tag = "+" /\ op.bi = NewCount' /\ OldCount' = OldCount /\ NewCount' = NewCount + 1
      PROVE  OldDone' /\ NewDone' /\ KeptEqual'
  <2>1. /\ Len(ops) \in Nat /\ DOMAIN ops = 1 .. Len(ops) /\ DOMAIN ops' = 1 .. Len(ops) + 1
        /\ ops'[Len(ops) + 1] = op
        /\ \A n \in 1 .. Len(ops) : ops'[n] = ops[n]
    BY <1>2, Parts DEF TypeOK
  <2>9. /\ op.tag \in {"=", "-", "+"} /\ op.ai \in Nat /\ op.bi \in Nat
        /\ \A n \in 1 .. Len(ops) :
             ops[n].tag \in {"=", "-", "+"} /\ ops[n].ai \in Nat /\ ops[n].bi \in Nat
        /\ OldCount \in Nat /\ NewCount \in Nat
    <3>1. OldCount \in Nat /\ NewCount \in Nat
      BY Places DEF OldCount, NewCount, InStep
    <3> QED
      BY <2>1, <3>1, Parts, OpParts
  <2>2. OldDone'
    <3>1. \A n \in DOMAIN ops' : ops'[n].tag # "+" => ops'[n].ai \in 1 .. OldCount'
      BY <1>2, <2>1, <2>9 DEF OldDone
    <3>2. \A m, n \in DOMAIN ops' :
            ops'[m].tag # "+" /\ ops'[n].tag # "+" /\ m < n => ops'[m].ai < ops'[n].ai
      BY <1>2, <2>1, <2>9 DEF OldDone
    <3>3. ASSUME NEW x \in 1 .. OldCount'
          PROVE  \E n \in DOMAIN ops' : ops'[n].tag # "+" /\ ops'[n].ai = x
      <4>1. CASE x \in 1 .. OldCount
        <5>1. PICK n \in DOMAIN ops : ops[n].tag # "+" /\ ops[n].ai = x
          BY <4>1 DEF OldDone
        <5>2. n \in DOMAIN ops' /\ ops'[n] = ops[n]
          BY <2>1
        <5> QED
          BY <5>1, <5>2
      <4>2. CASE x \notin 1 .. OldCount
        <5>1. x = OldCount' /\ op.tag # "+" /\ op.ai = x
          BY <1>2, <2>9, <4>2
        <5>2. Len(ops) + 1 \in DOMAIN ops' /\ ops'[Len(ops) + 1] = op
          BY <2>1
        <5> QED
          BY <5>1, <5>2
      <4> QED
        BY <4>1, <4>2
    <3> QED
      BY <3>1, <3>2, <3>3 DEF OldDone
  <2>3. NewDone'
    <3>1. \A n \in DOMAIN ops' : ops'[n].tag # "-" => ops'[n].bi \in 1 .. NewCount'
      BY <1>2, <2>1, <2>9 DEF NewDone
    <3>2. \A m, n \in DOMAIN ops' :
            ops'[m].tag # "-" /\ ops'[n].tag # "-" /\ m < n => ops'[m].bi < ops'[n].bi
      BY <1>2, <2>1, <2>9 DEF NewDone
    <3>3. ASSUME NEW y \in 1 .. NewCount'
          PROVE  \E n \in DOMAIN ops' : ops'[n].tag # "-" /\ ops'[n].bi = y
      <4>1. CASE y \in 1 .. NewCount
        <5>1. PICK n \in DOMAIN ops : ops[n].tag # "-" /\ ops[n].bi = y
          BY <4>1 DEF NewDone
        <5>2. n \in DOMAIN ops' /\ ops'[n] = ops[n]
          BY <2>1
        <5> QED
          BY <5>1, <5>2
      <4>2. CASE y \notin 1 .. NewCount
        <5>1. y = NewCount' /\ op.tag # "-" /\ op.bi = y
          BY <1>2, <2>9, <4>2
        <5>2. Len(ops) + 1 \in DOMAIN ops' /\ ops'[Len(ops) + 1] = op
          BY <2>1
        <5> QED
          BY <5>1, <5>2
      <4> QED
        BY <4>1, <4>2
    <3> QED
      BY <3>1, <3>2, <3>3 DEF NewDone
  <2>4. KeptEqual'
    <3>1. UNCHANGED <<a, b>>
      BY OneMore
    <3>2. \A n \in 1 .. Len(ops) : ops'[n].tag = "=" => a[ops'[n].ai] = b[ops'[n].bi]
      BY <2>1 DEF KeptEqual
    <3>3. op.tag = "=" => a[op.ai] = b[op.bi]
      BY <1>2, <2>9
    <3> QED
      BY <2>1, <3>1, <3>2, <3>3 DEF KeptEqual
  <2> QED
    BY <2>2, <2>3, <2>4
<1> QED
  BY <1>1, <1>2, OneMore

LEMMA NextRendering ==
  TypeOK /\ Rendering /\ HunksApart /\ [Next]_vars => Rendering' /\ HunksApart'
<1> SUFFICES ASSUME TypeOK, Rendering, HunksApart, [Next]_vars PROVE Rendering' /\ HunksApart'
  OBVIOUS
<1> USE DEF input, ends, place, rendering
<1>0. \A n \in DOMAIN hunks :
        /\ hunks[n].hi < k
        /\ \A m \in DOMAIN ops : m > hunks[n].hi /\ m <= hunks[n].hi + Context + 1 => ~Changed(m)
  BY DEF Rendering
<1>1. CASE \/ Same \/ Start \/ MatchFirst \/ MatchLast \/ MakeTable \/ FillEntry \/ NextRow
           \/ TableFilled \/ KeepLine \/ DeleteLine \/ InsertLine
  <2>1. pc \notin {"render", "done"} /\ hunks' = hunks
    BY <1>1 DEF Same, Start, MatchFirst, MatchLast, MakeTable, FillEntry, NextRow, TableFilled,
                KeepLine, DeleteLine, InsertLine
  <2>2. hunks' = <<>>
    BY <2>1 DEF Rendering
  <2> QED
    BY <2>2 DEF Rendering, HunksApart
<1>2. CASE Aligned \/ Rendered \/ UNCHANGED vars
  <2>1. /\ UNCHANGED <<ops, k, hunks>>
        /\ pc' \in {"render", "done"} \/ pc' = pc
    BY <1>2 DEF Aligned, Rendered, vars
  <2> QED
    BY <2>1 DEF Rendering, HunksApart, Changed
<1>3. CASE SkipLine
  <2>1. pc = "render" /\ k' = k + 1 /\ UNCHANGED <<ops, hunks, pc>>
    BY <1>3 DEF SkipLine
  <2>2. \A n \in DOMAIN hunks : hunks[n].hi < k + 1
    BY <1>0, Parts, Places
  <2> QED
    BY <1>0, <2>1, <2>2 DEF Rendering, HunksApart, Changed
<1>4. CASE Hunk
  <2>1. PICK last \in k .. Len(ops) :
          /\ GroupEnds(last)
          /\ hunks' = Append(hunks, [lo |-> Larger(k - Context, 1), hi |-> Smaller(last + Context, Len(ops))])
          /\ k' = Smaller(last + Context, Len(ops)) + 1
    BY <1>4 DEF Hunk
  <2> DEFINE new == [lo |-> Larger(k - Context, 1), hi |-> Smaller(last + Context, Len(ops))]
  <2>2. /\ new \in Group
        /\ new.lo >= k - Context /\ new.hi <= last + Context /\ new.hi >= k
        /\ new.hi < last + Context => new.hi = Len(ops)
    <3>1. /\ k \in Nat /\ k > 0 /\ last \in Nat /\ last >= k /\ last <= Len(ops)
          /\ Context \in Nat /\ Len(ops) \in Nat
      BY <2>1, Places, Parts, DiffAssumption
    <3>2. new.lo = Larger(k - Context, 1) /\ new.hi = Smaller(last + Context, Len(ops))
      OBVIOUS
    <3>3. new.lo \in Nat /\ new.lo >= k - Context
      BY <3>1, <3>2 DEF Larger
    <3>4. /\ new.hi \in Nat /\ new.hi <= last + Context /\ new.hi >= k
          /\ new.hi < last + Context => new.hi = Len(ops)
      BY <3>1, <3>2 DEF Smaller
    <3>5. new \in Group
      BY <3>2, <3>3, <3>4 DEF Group
    <3> QED
      BY <3>3, <3>4, <3>5
  <2>3. /\ DOMAIN hunks' = 1 .. Len(hunks) + 1 /\ DOMAIN hunks = 1 .. Len(hunks)
        /\ hunks'[Len(hunks) + 1] = new
        /\ \A n \in 1 .. Len(hunks) : hunks'[n] = hunks[n]
        /\ Len(hunks) \in Nat
        /\ \A n \in DOMAIN hunks : hunks[n].lo \in Nat /\ hunks[n].hi \in Nat
    BY <2>1, <2>2, Parts DEF TypeOK
  <2>4. ops' = ops /\ pc' = "render" /\ k \in DOMAIN ops /\ Changed(k) /\ k' = new.hi + 1
    BY <1>4, <2>1 DEF Hunk
  <2> HIDE DEF new
  <2>5. \A n \in DOMAIN hunks : hunks[n].hi + Context + 1 < k
    <3>1. SUFFICES ASSUME NEW n \in DOMAIN hunks PROVE hunks[n].hi + Context + 1 < k
      OBVIOUS
    <3>2. hunks[n].hi < k /\ ~(k > hunks[n].hi /\ k <= hunks[n].hi + Context + 1)
      BY <1>0, <2>4, Zenon
    <3>3. k \in Nat /\ Context \in Nat /\ hunks[n].hi \in Nat
      BY <2>3, Places, DiffAssumption, Zenon
    <3> QED
      BY <3>2, <3>3
  <2>6. \A m \in DOMAIN ops : m > new.hi /\ m <= new.hi + Context + 1 => ~Changed(m)
    <3>1. SUFFICES ASSUME NEW m \in DOMAIN ops, m > new.hi, m <= new.hi + Context + 1
                   PROVE  ~Changed(m)
      OBVIOUS
    <3>2. new.hi = last + Context /\ new.hi \in Nat /\ last \in Nat
      <4>1. /\ last \in Nat /\ Context \in Nat /\ m \in Nat /\ m <= Len(ops)
            /\ new.hi \in Nat
        <5>1. last \in Nat /\ Context \in Nat
          BY <2>1, Places, DiffAssumption
        <5>2. m \in Nat /\ m <= Len(ops)
          BY Parts
        <5>3. new.hi \in Nat
          BY <2>2, OpParts, Zenon
        <5> QED
          BY <5>1, <5>2, <5>3
      <4> QED
        BY <2>2, <3>1, <4>1
    <3>3. m \in last + 1 .. last + 2 * Context + 1
      BY <3>1, <3>2, Parts, DiffAssumption
    <3> QED
      BY <2>1, <3>3 DEF GroupEnds
  <2>7. HunksApart'
    <3>1. new.lo \in Nat /\ new.lo >= k - Context /\ Context \in Nat /\ k \in Nat
      BY <2>2, OpParts, Places, DiffAssumption
    <3>2. \A n \in 1 .. Len(hunks) : hunks[n].hi + 1 < new.lo
      BY <2>3, <2>5, <3>1
    <3>3. \A m, n \in 1 .. Len(hunks) : m < n => hunks'[m].hi + 1 < hunks'[n].lo
      BY <2>3 DEF HunksApart
    <3>4. \A m \in 1 .. Len(hunks) : hunks'[m].hi + 1 < hunks'[Len(hunks) + 1].lo
      BY <2>3, <3>2
    <3> QED
      BY <2>3, <3>3, <3>4 DEF HunksApart
  <2>8. Rendering'
    <3>1. new.hi \in Nat /\ new.hi >= k /\ Context \in Nat /\ k \in Nat
      BY <2>2, OpParts, Places, DiffAssumption
    <3>2. \A n \in DOMAIN hunks' : hunks'[n].hi < k'
      BY <1>0, <2>3, <2>4, <3>1
    <3>3. \A n \in DOMAIN hunks' : \A m \in DOMAIN ops :
            m > hunks'[n].hi /\ m <= hunks'[n].hi + Context + 1 => ~Changed(m)
      BY <1>0, <2>3, <2>6
    <3> QED
      BY <2>4, <3>2, <3>3 DEF Rendering, Changed
  <2> QED
    BY <2>7, <2>8
<1> QED
  BY <1>1, <1>2, <1>3, <1>4 DEF Next

(* However wide the context and whatever the versions, at least one         *)
(* unchanged line lies between two hunks (renderHunks): patch never meets   *)
(* overlapping hunks.                                                       *)
THEOREM HunksNeverTouch == Spec => []HunksApart
<1>1. TypeOK /\ InStep /\ Rendering /\ HunksApart /\ [Next]_vars
        => (TypeOK /\ InStep /\ Rendering /\ HunksApart)'
  BY NextTyped, NextInStep, NextRendering
<1> QED
  BY <1>1, InitTyped, PTL DEF Spec

LEMMA DoneIsEditScript ==
  ASSUME TypeOK, InStep, OldDone, NewDone, KeptEqual
  PROVE  EditScript
<1> DEFINE OfOld == {n \in DOMAIN ops : ops[n].tag # "+"}
           OfNew == {n \in DOMAIN ops : ops[n].tag # "-"}
<1>1. \A n \in OfOld \cap OfNew : a[ops[n].ai] = b[ops[n].bi]
  <2>1. \A n \in DOMAIN ops : ops[n].tag \in {"=", "-", "+"}
    BY Parts
  <2> QED
    BY <2>1 DEF KeptEqual
<1>2. \A m, n \in OfOld : m < n => ops[m].ai < ops[n].ai
  BY DEF OldDone
<1>3. \A m, n \in OfNew : m < n => ops[m].bi < ops[n].bi
  BY DEF NewDone
<1>4. ASSUME pc = "render"
      PROVE  /\ {ops[n].ai : n \in OfOld} = 1 .. Len(a)
             /\ {ops[n].bi : n \in OfNew} = 1 .. Len(b)
  <2>1. OldCount = Len(a) /\ NewCount = Len(b)
    <3>1. /\ i > Len(a) /\ j > Len(b)
          /\ \/ i <= Len(a) - s + 1 /\ j <= Len(b) - s + 1
             \/ i <= Len(a) + 1 /\ Len(a) - i = Len(b) - j
      BY <1>4 DEF InStep
    <3>2. i = Len(a) + 1 /\ j = Len(b) + 1
      BY <3>1, Places
    <3>3. pc # "fill" /\ Len(a) \in Nat /\ Len(b) \in Nat
      BY <1>4, Places
    <3> QED
      BY <3>2, <3>3 DEF OldCount, NewCount
  <2>2. {ops[n].ai : n \in OfOld} = 1 .. Len(a)
    BY <2>1, Places DEF OldDone
  <2>3. {ops[n].bi : n \in OfNew} = 1 .. Len(b)
    BY <2>1, Places DEF NewDone
  <2> QED
    BY <2>2, <2>3
<1> QED
  BY <1>1, <1>2, <1>3, <1>4 DEF EditScript

(* Whatever the table of common subsequences says, the alignment keeps,     *)
(* deletes and inserts every line of the two versions once and in order     *)
(* (diffLines): the diff loses no line and invents none.                    *)
THEOREM AlignmentIsEditScript == Spec => []EditScript
<1> DEFINE Inv == TypeOK /\ InStep /\ OldDone /\ NewDone /\ KeptEqual
<1>1. Init => Inv
  BY InitTyped, InitDone
<1>2. Inv /\ [Next]_vars => Inv'
  BY NextTyped, NextInStep, NextDone
<1>3. Inv => EditScript
  BY DoneIsEditScript
<1> QED
  BY <1>1, <1>2, <1>3, PTL DEF Spec

-----------------------------------------------------------------------------
(* What the hunks are made of. The operations that consume a line of the    *)
(* old (new) version, and the line each of them consumes.                   *)
OldOps == {n \in DOMAIN ops : ops[n].tag # "+"}
NewOps == {n \in DOMAIN ops : ops[n].tag # "-"}
Counted ==
  /\ \A n \in OldOps : ops[n].ai = AOff(n)
  /\ \A n \in NewOps : ops[n].bi = BOff(n)
  /\ AOff(Len(ops)) = OldCount
  /\ BOff(Len(ops)) = NewCount

(* The last operation of the n-th hunk.                                     *)
HunkEnd(n) == IF n = 0 THEN 0 ELSE hunks[n].hi

(* The hunks follow each other, and nothing changes before, between and     *)
(* after those rendered so far.                                             *)
HunksCut ==
  /\ \A n \in DOMAIN hunks : 1 <= hunks[n].lo /\ hunks[n].lo <= hunks[n].hi /\ hunks[n].hi <= Len(ops)
  /\ \A n \in DOMAIN hunks : \A m \in DOMAIN ops :
       HunkEnd(n - 1) < m /\ m < hunks[n].lo => ~Changed(m)
  /\ \A m \in DOMAIN ops : HunkEnd(Len(hunks)) < m /\ m < k => ~Changed(m)
  /\ pc \in {"start", "first", "last", "fill", "align"} => hunks = <<>> /\ k = 1
  /\ pc = "done" =>
       \/ a = b /\ hunks = <<>>
       \/ k > Len(ops) /\ OldCount = Len(a) /\ NewCount = Len(b)

(* Counting the members of a set of numbers piece by piece.                 *)
LEMMA CountInPieces ==
  ASSUME NEW S, NEW x \in Nat, NEW m \in Nat, x <= m
  PROVE  /\ Cardinality(S \cap (1 .. m)) \in Nat
         /\ Cardinality(S \cap (1 .. x)) \in Nat
         /\ Cardinality(S \cap (x + 1 .. m)) \in Nat
         /\ Cardinality(S \cap (1 .. m)) = Cardinality(S \cap (1 .. x)) + Cardinality(S \cap (x + 1 .. m))
         /\ (x + 1 .. m) \subseteq S => Cardinality(S \cap (x + 1 .. m)) = m - x
<1> DEFINE L == S \cap (1 .. x)
           R == S \cap (x + 1 .. m)
<1>1. IsFiniteSet(1 .. x) /\ IsFiniteSet(x + 1 .. m) /\ Cardinality(x + 1 .. m) = m - x
  <2>1. x + 1 > m => x = m
    OBVIOUS
  <2>2. Cardinality(x + 1 .. m) = IF x + 1 > m THEN 0 ELSE m - (x + 1) + 1
    BY FS_Interval
  <2> QED
    BY <2>1, <2>2, FS_Interval
<1>2. IsFiniteSet(L) /\ IsFiniteSet(R)
  BY <1>1, FS_Intersection
<1>3. S \cap (1 .. m) = L \cup R /\ L \cap R = {}
  OBVIOUS
<1>4. Cardinality(L) \in Nat /\ Cardinality(R) \in Nat
  BY <1>2, FS_CardinalityType
<1>5. Cardinality(L \cup R) = Cardinality(L) + Cardinality(R)
  <2>1. Cardinality(L \cap R) = 0
    BY <1>3, FS_EmptySet
  <2> HIDE DEF L, R
  <2>2. Cardinality(L \cup R) = Cardinality(L) + Cardinality(R) - Cardinality(L \cap R)
    BY <1>2, FS_Union, Zenon
  <2> QED
    BY <1>4, <2>1, <2>2
<1>6. (x + 1 .. m) \subseteq S => R = x + 1 .. m
  OBVIOUS
<1> HIDE DEF L, R
<1>7. /\ Cardinality(L \cup R) \in Nat
      /\ (x + 1 .. m) \subseteq S => Cardinality(R) = m - x
  BY <1>1, <1>4, <1>5, <1>6
<1> QED
  BY <1>3, <1>4, <1>5, <1>7 DEF L, R

(* The positions of the operations, counted.                                *)
LEMMA Offsets ==
  ASSUME TypeOK, NEW n \in 0 .. Len(ops)
  PROVE  /\ AOff(n) = Cardinality(OldOps \cap (1 .. n))
         /\ BOff(n) = Cardinality(NewOps \cap (1 .. n))
<1>1. Len(ops) \in Nat /\ DOMAIN ops = 1 .. Len(ops)
  BY Parts
<1>2. {m \in 1 .. n : ops[m].tag # "+"} = OldOps \cap (1 .. n)
  BY <1>1 DEF OldOps
<1>3. {m \in 1 .. n : ops[m].tag # "-"} = NewOps \cap (1 .. n)
  BY <1>1 DEF NewOps
<1> QED
  BY <1>2, <1>3 DEF AOff, BOff

(* What lies between two places of the alignment.                           *)
LEMMA Stretch ==
  ASSUME TypeOK, NEW x \in 0 .. Len(ops), NEW m \in 0 .. Len(ops), x <= m
  PROVE  /\ AOff(m) \in Nat /\ AOff(x) \in Nat /\ AOff(x) <= AOff(m)
         /\ BOff(m) \in Nat /\ BOff(x) \in Nat /\ BOff(x) <= BOff(m)
         /\ Cardinality(OldOps \cap (x + 1 .. m)) = AOff(m) - AOff(x)
         /\ Cardinality(NewOps \cap (x + 1 .. m)) = BOff(m) - BOff(x)
         /\ (\A l \in x + 1 .. m : ~Changed(l)) => AOff(m) - AOff(x) = m - x /\ BOff(m) - BOff(x) = m - x
<1>1. x \in Nat /\ m \in Nat /\ Len(ops) \in Nat /\ DOMAIN ops = 1 .. Len(ops)
  BY Parts
<1>2. /\ AOff(x) = Cardinality(OldOps \cap (1 .. x)) /\ BOff(x) = Cardinality(NewOps \cap (1 .. x))
      /\ AOff(m) = Cardinality(OldOps \cap (1 .. m)) /\ BOff(m) = Cardinality(NewOps \cap (1 .. m))
  BY Offsets
<1>3. ASSUME \A l \in x + 1 .. m : ~Changed(l)
      PROVE  (x + 1 .. m) \subseteq OldOps /\ (x + 1 .. m) \subseteq NewOps
  BY <1>1, <1>3 DEF Changed, OldOps, NewOps
<1>4. /\ AOff(m) \in Nat /\ AOff(x) \in Nat /\ AOff(x) <= AOff(m)
      /\ Cardinality(OldOps \cap (x + 1 .. m)) = AOff(m) - AOff(x)
      /\ (x + 1 .. m) \subseteq OldOps => AOff(m) - AOff(x) = m - x
  <2>1. /\ Cardinality(OldOps \cap (1 .. m)) \in Nat
        /\ Cardinality(OldOps \cap (1 .. x)) \in Nat
        /\ Cardinality(OldOps \cap (x + 1 .. m)) \in Nat
        /\ Cardinality(OldOps \cap (1 .. m)) = Cardinality(OldOps \cap (1 .. x)) + Cardinality(OldOps \cap (x + 1 .. m))
        /\ (x + 1 .. m) \subseteq OldOps => Cardinality(OldOps \cap (x + 1 .. m)) = m - x
    BY <1>1, CountInPieces, ZenonT(60)
  <2> QED
    BY <1>1, <1>2, <2>1
<1>5. /\ BOff(m) \in Nat /\ BOff(x) \in Nat /\ BOff(x) <= BOff(m)
      /\ Cardinality(NewOps \cap (x + 1 .. m)) = BOff(m) - BOff(x)
      /\ (x + 1 .. m) \subseteq NewOps => BOff(m) - BOff(x) = m - x
  <2>1. /\ Cardinality(NewOps \cap (1 .. m)) \in Nat
        /\ Cardinality(NewOps \cap (1 .. x)) \in Nat
        /\ Cardinality(NewOps \cap (x + 1 .. m)) \in Nat
        /\ Cardinality(NewOps \cap (1 .. m)) = Cardinality(NewOps \cap (1 .. x)) + Cardinality(NewOps \cap (x + 1 .. m))
        /\ (x + 1 .. m) \subseteq NewOps => Cardinality(NewOps \cap (x + 1 .. m)) = m - x
    BY <1>1, CountInPieces, ZenonT(60)
  <2> QED
    BY <1>1, <1>2, <2>1
<1> QED
  BY <1>3, <1>4, <1>5

LEMMA InitCounted == Init => Counted
<1> SUFFICES ASSUME Init PROVE Counted
  OBVIOUS
<1>1. ops = <<>> /\ i = 1 /\ j = 1 /\ pc = "start"
  BY DEF Init
<1>2. /\ Len(ops) = 0 /\ DOMAIN ops = {}
      /\ {m \in 1 .. 0 : ops[m].tag # "+"} = {} /\ {m \in 1 .. 0 : ops[m].tag # "-"} = {}
  BY <1>1
<1>3. AOff(Len(ops)) = 0 /\ BOff(Len(ops)) = 0
  BY <1>2, FS_EmptySet DEF AOff, BOff
<1>4. OldCount = 0 /\ NewCount = 0
  BY <1>1 DEF OldCount, NewCount
<1> QED
  BY <1>2, <1>3, <1>4 DEF Counted, OldOps, NewOps

LEMMA NextCounted ==
  ASSUME TypeOK, InStep, Counted, [Next]_vars
  PROVE  Counted'
<1>1. CASE UNCHANGED <<OldCount, NewCount, ops>>
  BY <1>1 DEF Counted, OldOps, NewOps, AOff, BOff
<1>2. ASSUME NEW op \in Op,
             ops' = Append(ops, op),
             \/ /\ op.tag = "=" /\ op.ai = OldCount' /\ op.bi = NewCount' /\ a[op.ai] = b[op.bi]
                /\ OldCount' = OldCount + 1 /\ NewCount' = NewCount + 1
             \/ op.tag = "-" /\ op.ai = OldCount' /\ OldCount' = OldCount + 1 /\ NewCount' = NewCount
             \/ op.tag = "+" /\ op.bi = NewCount' /\ OldCount' = OldCount /\ NewCount' = NewCount + 1
      PROVE  Counted'
  <2>0. PICK l \in Nat : l = Len(ops)
    BY Parts
  <2>1. /\ Len(ops) = l /\ DOMAIN ops = 1 .. l /\ DOMAIN ops' = 1 .. l + 1
        /\ Len(ops') = l + 1 /\ ops'[l + 1] = op
        /\ \A n \in 1 .. l : ops'[n] = ops[n]
    BY <1>2, <2>0, Parts DEF TypeOK
  <2>2. op.tag \in {"=", "-", "+"}
    BY OpParts
  <2>3. /\ \A n \in 0 .. l : AOff(n)' = AOff(n)
        /\ AOff(l + 1)' = IF op.tag # "+" THEN AOff(l) + 1 ELSE AOff(l)
    <3>1. ASSUME NEW n \in 0 .. l PROVE AOff(n)' = AOff(n)
      <4>1. {m \in 1 .. n : ops'[m].tag # "+"} = {m \in 1 .. n : ops[m].tag # "+"}
        BY <2>1
      <4> QED
        BY <4>1 DEF AOff
    <3> DEFINE S == {m \in 1 .. l : ops[m].tag # "+"}
               T == {m \in 1 .. l + 1 : ops'[m].tag # "+"}
    <3>2. T = IF op.tag # "+" THEN S \cup {l + 1} ELSE S
      BY <2>1
    <3>3. IsFiniteSet(S) /\ l + 1 \notin S
      <4>1. IsFiniteSet(1 .. l) /\ S \subseteq 1 .. l
        BY <2>1, FS_Interval
      <4> QED
        BY <2>1, <4>1, FS_Subset
    <3>4. Cardinality(S \cup {l + 1}) = Cardinality(S) + 1
      <4> HIDE DEF S
      <4> QED
        BY <3>3, FS_AddElement
    <3>5. AOff(l) = Cardinality(S) /\ AOff(l + 1)' = Cardinality(T)
      BY DEF AOff
    <3> HIDE DEF S, T
    <3> QED
      BY <3>1, <3>2, <3>4, <3>5
  <2>4. /\ \A n \in 0 .. l : BOff(n)' = BOff(n)
        /\ BOff(l + 1)' = IF op.tag # "-" THEN BOff(l) + 1 ELSE BOff(l)
    <3>1. ASSUME NEW n \in 0 .. l PROVE BOff(n)' = BOff(n)
      <4>1. {m \in 1 .. n : ops'[m].tag # "-"} = {m \in 1 .. n : ops[m].tag # "-"}
        BY <2>1
      <4> QED
        BY <4>1 DEF BOff
    <3> DEFINE S == {m \in 1 .. l : ops[m].tag # "-"}
               T == {m \in 1 .. l + 1 : ops'[m].tag # "-"}
    <3>2. T = IF op.tag # "-" THEN S \cup {l + 1} ELSE S
      BY <2>1
    <3>3. IsFiniteSet(S) /\ l + 1 \notin S
      <4>1. IsFiniteSet(1 .. l) /\ S \subseteq 1 .. l
        BY <2>1, FS_Interval
      <4> QED
        BY <2>1, <4>1, FS_Subset
    <3>4. Cardinality(S \cup {l + 1}) = Cardinality(S) + 1
      <4> HIDE DEF S
      <4> QED
        BY <3>3, FS_AddElement
    <3>5. BOff(l) = Cardinality(S) /\ BOff(l + 1)' = Cardinality(T)
      BY DEF BOff
    <3> HIDE DEF S, T
    <3> QED
      BY <3>1, <3>2, <3>4, <3>5
  <2> HIDE DEF AOff, BOff
  <2>5. /\ \A n \in OldOps : ops[n].ai = AOff(n)
        /\ \A n \in NewOps : ops[n].bi = BOff(n)
        /\ AOff(l) = OldCount
        /\ BOff(l) = NewCount
    BY <2>0 DEF Counted
  <2>6. AOff(l + 1)' = OldCount' /\ BOff(l + 1)' = NewCount'
    BY <1>2, <2>2, <2>3, <2>4, <2>5
  <2>7. \A n \in OldOps' : ops'[n].ai = AOff(n)'
    <3>1. SUFFICES ASSUME NEW n \in 1 .. l + 1, ops'[n].tag # "+" PROVE ops'[n].ai = AOff(n)'
      BY <2>1 DEF OldOps
    <3>2. CASE n = l + 1
      BY <1>2, <2>1, <2>6, <3>1, <3>2
    <3>3. CASE n \in 1 .. l
      BY <2>1, <2>3, <2>5, <3>1, <3>3 DEF OldOps
    <3> QED
      BY <2>1, <3>2, <3>3
  <2>8. \A n \in NewOps' : ops'[n].bi = BOff(n)'
    <3>1. SUFFICES ASSUME NEW n \in 1 .. l + 1, ops'[n].tag # "-" PROVE ops'[n].bi = BOff(n)'
      BY <2>1 DEF NewOps
    <3>2. CASE n = l + 1
      BY <1>2, <2>1, <2>6, <3>1, <3>2
    <3>3. CASE n \in 1 .. l
      BY <2>1, <2>4, <2>5, <3>1, <3>3 DEF NewOps
    <3> QED
      BY <2>1, <3>2, <3>3
  <2> QED
    BY <2>1, <2>6, <2>7, <2>8, Zenon DEF Counted
<1> QED
  BY <1>1, <1>2, OneMore

LEMMA NextCut ==
  ASSUME TypeOK, InStep, Rendering, HunksApart, HunksCut, [Next]_vars
  PROVE  HunksCut'
<1> USE DEF input, ends, place, rendering
<1>0. /\ \A n \in DOMAIN hunks :
           1 <= hunks[n].lo /\ hunks[n].lo <= hunks[n].hi /\ hunks[n].hi <= Len(ops)
      /\ \A n \in DOMAIN hunks : \A m \in DOMAIN ops :
           HunkEnd(n - 1) < m /\ m < hunks[n].lo => ~Changed(m)
      /\ \A m \in DOMAIN ops : HunkEnd(Len(hunks)) < m /\ m < k => ~Changed(m)
      /\ pc \in {"start", "first", "last", "fill", "align"} => hunks = <<>> /\ k = 1
      /\ pc = "done" =>
           \/ a = b /\ hunks = <<>>
           \/ k > Len(ops) /\ OldCount = Len(a) /\ NewCount = Len(b)
  BY DEF HunksCut
<1>1. CASE \/ Same \/ Start \/ MatchFirst \/ MatchLast \/ MakeTable \/ FillEntry \/ NextRow
           \/ TableFilled \/ KeepLine \/ DeleteLine \/ InsertLine
  <2>1. /\ pc \in {"start", "first", "last", "fill", "align"} /\ UNCHANGED <<a, b, k, hunks>>
        /\ pc' = "done" => a = b
    BY <1>1 DEF Same, Start, MatchFirst, MatchLast, MakeTable, FillEntry, NextRow, TableFilled,
                KeepLine, DeleteLine, InsertLine
  <2>2. hunks' = <<>> /\ k' = 1 /\ a' = a /\ b' = b
    BY <1>0, <2>1
  <2>3. \A m \in DOMAIN ops' : ~(HunkEnd(Len(hunks))' < m /\ m < k')
    <3>1. /\ HunkEnd(Len(hunks))' = 0 /\ k' = 1
          /\ \A m \in DOMAIN ops' : m \in Nat
      <4>1. Len(hunks') = 0
        BY <2>2
      <4>2. \A m \in DOMAIN ops' : m \in Nat
        BY NextTyped DEF TypeOK
      <4> QED
        BY <2>2, <4>1, <4>2 DEF HunkEnd
    <3> QED
      BY <3>1
  <2> QED
    BY <2>1, <2>2, <2>3 DEF HunksCut
<1>2. CASE Aligned \/ UNCHANGED vars
  <2>1. /\ UNCHANGED <<a, b, i, j, ops, k, hunks>>
        /\ pc' = pc \/ pc' = "render"
    BY <1>2 DEF Aligned, vars
  <2> QED
    BY <1>0, <2>1 DEF HunksCut, HunkEnd, Changed, OldCount, NewCount
<1>3. CASE Rendered
  <2>1. /\ UNCHANGED <<a, b, i, j, ops, k, hunks>>
        /\ pc = "render" /\ pc' = "done" /\ k > Len(ops)
    BY <1>3 DEF Rendered
  <2>2. OldCount' = Len(a) /\ NewCount' = Len(b)
    <3>1. /\ i > Len(a) /\ j > Len(b)
          /\ \/ i <= Len(a) - s + 1 /\ j <= Len(b) - s + 1
             \/ i <= Len(a) + 1 /\ Len(a) - i = Len(b) - j
      BY <2>1 DEF InStep
    <3>2. i = Len(a) + 1 /\ j = Len(b) + 1
      BY <3>1, Places
    <3>3. i' = i /\ j' = j /\ pc' # "fill"
      BY <2>1
    <3> QED
      BY <3>2, <3>3, Places DEF OldCount, NewCount
  <2> QED
    BY <1>0, <2>1, <2>2 DEF HunksCut, HunkEnd, Changed
<1>4. CASE SkipLine
  <2>1. pc = "render" /\ ~Changed(k) /\ k' = k + 1 /\ UNCHANGED <<ops, hunks, pc>>
    BY <1>4 DEF SkipLine
  <2>2. \A m \in DOMAIN ops : HunkEnd(Len(hunks)) < m /\ m < k + 1 => ~Changed(m)
    <3>1. k \in Nat /\ \A m \in DOMAIN ops : m \in Nat
      BY Parts, Places
    <3>2. \A m \in DOMAIN ops : m < k + 1 => m < k \/ m = k
      BY <3>1
    <3> QED
      BY <1>0, <2>1, <3>2
  <2> QED
    BY <1>0, <2>1, <2>2 DEF HunksCut, HunkEnd, Changed
<1>5. CASE Hunk
  <2>1. PICK last \in k .. Len(ops) :
          /\ hunks' = Append(hunks, [lo |-> Larger(k - Context, 1), hi |-> Smaller(last + Context, Len(ops))])
          /\ k' = Smaller(last + Context, Len(ops)) + 1
    BY <1>5 DEF Hunk
  <2> DEFINE new == [lo |-> Larger(k - Context, 1), hi |-> Smaller(last + Context, Len(ops))]
  <2>2. /\ new \in Group /\ new.lo \in Nat /\ new.hi \in Nat
        /\ 1 <= new.lo /\ new.lo <= k /\ k <= new.hi /\ new.hi <= Len(ops)
    <3>1. /\ k \in Nat /\ k > 0 /\ last \in Nat /\ last >= k /\ last <= Len(ops)
          /\ Context \in Nat /\ Len(ops) \in Nat
      BY <2>1, Places, Parts, DiffAssumption
    <3>2. new.lo = Larger(k - Context, 1) /\ new.hi = Smaller(last + Context, Len(ops))
      OBVIOUS
    <3>3. new.lo \in Nat /\ 1 <= new.lo /\ new.lo <= k
      BY <3>1, <3>2 DEF Larger
    <3>4. new.hi \in Nat /\ k <= new.hi /\ new.hi <= Len(ops)
      BY <3>1, <3>2 DEF Smaller
    <3>5. new \in Group
      BY <3>2, <3>3, <3>4 DEF Group
    <3> QED
      BY <3>3, <3>4, <3>5
  <2>3. PICK l \in Nat :
          /\ DOMAIN hunks = 1 .. l /\ Len(hunks) = l
          /\ DOMAIN hunks' = 1 .. l + 1 /\ Len(hunks') = l + 1
          /\ hunks'[l + 1] = new
          /\ \A n \in 1 .. l : hunks'[n] = hunks[n]
    <3>1. hunks' = Append(hunks, new) /\ new \in Group /\ hunks \in Seq(Group)
      BY <2>1, <2>2 DEF TypeOK
    <3> HIDE DEF new
    <3>2. PICK l \in Nat : l = Len(hunks) /\ DOMAIN hunks = 1 .. l
      BY Parts
    <3> QED
      BY <3>1, <3>2
  <2>4. ops' = ops /\ pc' = "render" /\ k' = new.hi + 1
    BY <1>5, <2>1 DEF Hunk
  <2> HIDE DEF new
  <2>5. \A n \in 0 .. l : HunkEnd(n)' = HunkEnd(n)
    BY <2>3 DEF HunkEnd
  <2>6. HunkEnd(l + 1)' = new.hi
    BY <2>3 DEF HunkEnd
  <2>7. \A n \in DOMAIN hunks' :
          1 <= hunks'[n].lo /\ hunks'[n].lo <= hunks'[n].hi /\ hunks'[n].hi <= Len(ops)
    <3>1. \A n \in 1 .. l :
            1 <= hunks'[n].lo /\ hunks'[n].lo <= hunks'[n].hi /\ hunks'[n].hi <= Len(ops)
      BY <1>0, <2>3
    <3>2. k \in Nat /\ Len(ops) \in Nat
      BY Places, Parts
    <3>3. new.lo <= new.hi
      BY <2>2, <3>2
    <3> QED
      BY <2>2, <2>3, <3>1, <3>3
  <2>8. \A m \in DOMAIN ops : \A n \in 1 .. l + 1 :
          HunkEnd(n - 1)' < m /\ m < hunks'[n].lo => ~Changed(m)
    <3>1. SUFFICES ASSUME NEW m \in DOMAIN ops, NEW n \in 1 .. l + 1,
                          HunkEnd(n - 1)' < m, m < hunks'[n].lo
                   PROVE  ~Changed(m)
      OBVIOUS
    <3>2. HunkEnd(n - 1)' = HunkEnd(n - 1)
      BY <2>5
    <3>3. CASE n \in 1 .. l
      BY <1>0, <2>3, <3>1, <3>2, <3>3
    <3>4. CASE n = l + 1
      <4>1. HunkEnd(Len(hunks)) < m
        BY <2>3, <3>1, <3>2, <3>4
      <4>2. m < k
        BY <2>2, <2>3, <3>1, <3>4, Parts, Places
      <4> QED
        BY <1>0, <4>1, <4>2
    <3> QED
      BY <3>3, <3>4
  <2>9. \A m \in DOMAIN ops : ~(new.hi < m /\ m < k')
    BY <2>2, <2>4, Parts
  <2>10. \A m \in DOMAIN ops' : ~(HunkEnd(Len(hunks))' < m /\ m < k')
    BY <2>3, <2>4, <2>6, <2>9 DEF HunkEnd
  <2>11. \A n \in DOMAIN hunks' : \A m \in DOMAIN ops' :
           HunkEnd(n - 1)' < m /\ m < hunks'[n].lo => ~Changed(m)'
    BY <2>3, <2>4, <2>8 DEF Changed
  <2> QED
    BY <2>4, <2>7, <2>10, <2>11 DEF HunksCut
<1> QED
  BY <1>1, <1>2, <1>3, <1>4, <1>5 DEF Next

(* A side of a hunk has as many lines as its operations consume.            *)
LEMMA OldSideCounted ==
  ASSUME TypeOK, NEW lo \in 1 .. Len(ops), NEW hi \in lo .. Len(ops)
  PROVE  \A m \in lo .. hi :
           Cardinality(OldSide(Body([lo |-> lo, hi |-> hi]), m)) = AOff(m) - AOff(lo - 1)
<1> DEFINE body == Body([lo |-> lo, hi |-> hi])
<1>1. Len(ops) \in Nat /\ DOMAIN ops = 1 .. Len(ops)
  BY Parts
<1>2. DOMAIN body = lo .. hi /\ \A n \in lo .. hi : body[n].prefix = ops[n].tag
  BY DEF Body
<1>3. SUFFICES ASSUME NEW m \in lo .. hi PROVE Cardinality(OldSide(body, m)) = AOff(m) - AOff(lo - 1)
  OBVIOUS
<1>4. OldSide(body, m) = OldOps \cap (lo - 1 + 1 .. m)
  <2> HIDE DEF body
  <2> QED
    BY <1>1, <1>2 DEF OldSide, OldOps
<1>5. lo - 1 \in 0 .. Len(ops) /\ m \in 0 .. Len(ops) /\ lo - 1 <= m
  BY <1>1
<1>6. Cardinality(OldOps \cap (lo - 1 + 1 .. m)) = AOff(m) - AOff(lo - 1)
  BY <1>5, Stretch, Zenon
<1> QED
  BY <1>4, <1>6

LEMMA NewSideCounted ==
  ASSUME TypeOK, NEW lo \in 1 .. Len(ops), NEW hi \in lo .. Len(ops)
  PROVE  \A m \in lo .. hi :
           Cardinality(NewSide(Body([lo |-> lo, hi |-> hi]), m)) = BOff(m) - BOff(lo - 1)
<1> DEFINE body == Body([lo |-> lo, hi |-> hi])
<1>1. Len(ops) \in Nat /\ DOMAIN ops = 1 .. Len(ops)
  BY Parts
<1>2. DOMAIN body = lo .. hi /\ \A n \in lo .. hi : body[n].prefix = ops[n].tag
  BY DEF Body
<1>3. SUFFICES ASSUME NEW m \in lo .. hi PROVE Cardinality(NewSide(body, m)) = BOff(m) - BOff(lo - 1)
  OBVIOUS
<1>4. NewSide(body, m) = NewOps \cap (lo - 1 + 1 .. m)
  <2> HIDE DEF body
  <2> QED
    BY <1>1, <1>2 DEF NewSide, NewOps
<1>5. lo - 1 \in 0 .. Len(ops) /\ m \in 0 .. Len(ops) /\ lo - 1 <= m
  BY <1>1
<1>6. Cardinality(NewOps \cap (lo - 1 + 1 .. m)) = BOff(m) - BOff(lo - 1)
  BY <1>5, Stretch, Zenon
<1> QED
  BY <1>4, <1>6

(* The header of a hunk, and where each of its sides begins and ends.       *)
LEMMA HeaderPlaces ==
  ASSUME TypeOK, NEW h \in Group, 1 <= h.lo, h.lo <= h.hi, h.hi <= Len(ops)
  PROVE  /\ Header(h).aCount = AOff(h.hi) - AOff(h.lo - 1)
         /\ Header(h).bCount = BOff(h.hi) - BOff(h.lo - 1)
         /\ From(Header(h).aStart, Header(h).aCount) = AOff(h.lo - 1) + 1
         /\ From(Header(h).bStart, Header(h).bCount) = BOff(h.lo - 1) + 1
         /\ AOff(h.hi) \in Nat /\ AOff(h.lo - 1) \in Nat
         /\ BOff(h.hi) \in Nat /\ BOff(h.lo - 1) \in Nat
<1>1. h.lo - 1 \in 0 .. Len(ops) /\ h.hi \in 0 .. Len(ops) /\ h.lo - 1 <= h.hi
  BY Parts, OpParts
<1>2. /\ AOff(h.hi) \in Nat /\ AOff(h.lo - 1) \in Nat
      /\ BOff(h.hi) \in Nat /\ BOff(h.lo - 1) \in Nat
  BY <1>1, Stretch, Zenon
<1> HIDE DEF AOff, BOff
<1> QED
  BY <1>2 DEF Header, From

(* A stretch of kept lines, no changed line among them, is the same in both *)
(* versions.                                                                *)
LEMMA KeptStretch ==
  ASSUME TypeOK, KeptEqual, Counted,
         NEW x \in 0 .. Len(ops), NEW y \in x .. Len(ops),
         \A m \in x + 1 .. y : ~Changed(m)
  PROVE  /\ AOff(y) - AOff(x) = y - x /\ BOff(y) - BOff(x) = y - x
         /\ \A m \in 1 .. y - x : a[AOff(x) + m] = b[BOff(x) + m]
<1>1. Len(ops) \in Nat /\ DOMAIN ops = 1 .. Len(ops)
  BY Parts
<1>2. ASSUME NEW m \in 0 .. y - x
      PROVE  AOff(x + m) = AOff(x) + m /\ BOff(x + m) = BOff(x) + m
  <2> DEFINE z == x + m
  <2>1. z \in 0 .. Len(ops) /\ x <= z /\ \A l \in x + 1 .. z : ~Changed(l)
    BY <1>1
  <2> HIDE DEF z
  <2>2. /\ AOff(z) \in Nat /\ AOff(x) \in Nat /\ BOff(z) \in Nat /\ BOff(x) \in Nat
        /\ AOff(z) - AOff(x) = z - x /\ BOff(z) - BOff(x) = z - x
    BY <2>1, Stretch, Zenon
  <2> HIDE DEF AOff, BOff
  <2>3. z = x + m /\ x \in Nat /\ m \in Nat
    BY <1>1 DEF z
  <2> QED
    BY <2>2, <2>3
<1> HIDE DEF AOff, BOff
<1>3. ASSUME NEW m \in 1 .. y - x PROVE a[AOff(x) + m] = b[BOff(x) + m]
  <2>1. x + m \in DOMAIN ops /\ ~Changed(x + m)
    BY <1>1
  <2>2. x + m \in OldOps /\ x + m \in NewOps /\ ops[x + m].tag = "="
    BY <2>1 DEF OldOps, NewOps, Changed
  <2>3. ops[x + m].ai = AOff(x) + m /\ ops[x + m].bi = BOff(x) + m
    BY <1>2, <2>2 DEF Counted
  <2> QED
    BY <2>1, <2>2, <2>3 DEF KeptEqual
<1>4. /\ AOff(y) = AOff(x) + (y - x) /\ BOff(y) = BOff(x) + (y - x)
      /\ AOff(x) \in Nat /\ BOff(x) \in Nat
  <2>1. y - x \in 0 .. y - x /\ x + (y - x) = y
    BY <1>1
  <2>2. AOff(x) \in Nat /\ BOff(x) \in Nat
    <3>1. x <= x
      BY <1>1
    <3> QED
      BY <3>1, Stretch, Zenon
  <2> QED
    BY <1>2, <2>1, <2>2
<1> QED
  BY <1>1, <1>3, <1>4

LEMMA CutApplies ==
  ASSUME TypeOK, KeptEqual, Counted, HunksApart, HunksCut
  PROVE  DiffApplies
<1> DEFINE h == [n \in DOMAIN hunks |-> Header(hunks[n])]
           OldFrom(n) == IF n > Len(hunks) THEN Len(a) + 1 ELSE From(h[n].aStart, h[n].aCount)
           NewFrom(n) == IF n > Len(hunks) THEN Len(b) + 1 ELSE From(h[n].bStart, h[n].bCount)
           OldEnd(n) == IF n = 0 THEN 0 ELSE OldFrom(n) + h[n].aCount - 1
           NewEnd(n) == IF n = 0 THEN 0 ELSE NewFrom(n) + h[n].bCount - 1
           HunkFits(n) ==
             LET body == Body(hunks[n])
                 Old(m) == OldSide(body, m)
                 New(m) == NewSide(body, m)
             IN  /\ OldEnd(n) <= Len(a) /\ Cardinality(Old(hunks[n].hi)) = h[n].aCount
                 /\ NewEnd(n) <= Len(b) /\ Cardinality(New(hunks[n].hi)) = h[n].bCount
                 /\ \A m \in Old(hunks[n].hi) :
                      body[m].line = a[OldFrom(n) - 1 + Cardinality(Old(m))]
                 /\ \A m \in New(hunks[n].hi) :
                      body[m].line = b[NewFrom(n) - 1 + Cardinality(New(m))]
           SameAround(n) ==
             /\ OldFrom(n + 1) - OldEnd(n) = NewFrom(n + 1) - NewEnd(n)
             /\ \A m \in 1 .. OldFrom(n + 1) - OldEnd(n) - 1 : a[OldEnd(n) + m] = b[NewEnd(n) + m]
           Top(n) == IF n > Len(hunks) THEN Len(ops) ELSE hunks[n].lo - 1
<1>0. /\ Len(ops) \in Nat /\ DOMAIN ops = 1 .. Len(ops)
      /\ Len(hunks) \in Nat /\ DOMAIN hunks = 1 .. Len(hunks)
      /\ \A n \in DOMAIN hunks : hunks[n] \in Group /\ hunks[n].lo \in Nat /\ hunks[n].hi \in Nat
  BY Parts DEF TypeOK
<1>1. SUFFICES ASSUME pc = "done"
               PROVE  /\ \A n \in DOMAIN hunks : HunkFits(n)
                      /\ \A n \in 0 .. Len(hunks) : SameAround(n)
  BY DEF DiffApplies
<1>2. CASE a = b /\ hunks = <<>>
  <2>1. Len(hunks) = 0 /\ DOMAIN hunks = {}
    BY <1>2
  <2>2. OldFrom(1) = Len(a) + 1 /\ NewFrom(1) = Len(b) + 1 /\ OldEnd(0) = 0 /\ NewEnd(0) = 0
    BY <2>1
  <2>3. SameAround(0)
    <3> HIDE DEF OldFrom, NewFrom, OldEnd, NewEnd
    <3> QED
      BY <1>2, <2>2
  <2> HIDE DEF HunkFits, SameAround
  <2> QED
    BY <2>1, <2>3
<1>3. CASE k > Len(ops) /\ OldCount = Len(a) /\ NewCount = Len(b)
  <2>a. /\ AOff(Len(ops)) = Len(a) /\ BOff(Len(ops)) = Len(b) /\ Len(a) \in Nat /\ Len(b) \in Nat
    BY <1>3, Places DEF Counted
  <2>b. ASSUME NEW n \in DOMAIN hunks
        PROVE  /\ hunks[n].lo \in 1 .. Len(ops) /\ hunks[n].hi \in hunks[n].lo .. Len(ops)
               /\ h[n].aCount = AOff(hunks[n].hi) - AOff(hunks[n].lo - 1)
               /\ h[n].bCount = BOff(hunks[n].hi) - BOff(hunks[n].lo - 1)
               /\ OldFrom(n) = AOff(hunks[n].lo - 1) + 1
               /\ NewFrom(n) = BOff(hunks[n].lo - 1) + 1
               /\ OldEnd(n) = AOff(hunks[n].hi) /\ NewEnd(n) = BOff(hunks[n].hi)
               /\ AOff(hunks[n].hi) \in Nat /\ AOff(hunks[n].lo - 1) \in Nat
               /\ BOff(hunks[n].hi) \in Nat /\ BOff(hunks[n].lo - 1) \in Nat
    <3>1. hunks[n] \in Group /\ 1 <= hunks[n].lo /\ hunks[n].lo <= hunks[n].hi /\ hunks[n].hi <= Len(ops)
      BY <1>0 DEF HunksCut
    <3>2. h[n] = Header(hunks[n]) /\ n # 0 /\ ~(n > Len(hunks))
      BY <1>0
    <3>3. /\ h[n].aCount = AOff(hunks[n].hi) - AOff(hunks[n].lo - 1)
          /\ h[n].bCount = BOff(hunks[n].hi) - BOff(hunks[n].lo - 1)
          /\ From(h[n].aStart, h[n].aCount) = AOff(hunks[n].lo - 1) + 1
          /\ From(h[n].bStart, h[n].bCount) = BOff(hunks[n].lo - 1) + 1
          /\ AOff(hunks[n].hi) \in Nat /\ AOff(hunks[n].lo - 1) \in Nat
          /\ BOff(hunks[n].hi) \in Nat /\ BOff(hunks[n].lo - 1) \in Nat
      <4> HIDE DEF h
      <4> QED
        BY <3>1, <3>2, HeaderPlaces, Zenon
    <3> HIDE DEF h, AOff, BOff, From
    <3>4. OldFrom(n) = From(h[n].aStart, h[n].aCount) /\ NewFrom(n) = From(h[n].bStart, h[n].bCount)
      BY <3>2
    <3>5. OldEnd(n) = OldFrom(n) + h[n].aCount - 1 /\ NewEnd(n) = NewFrom(n) + h[n].bCount - 1
      BY <3>2
    <3> HIDE DEF OldFrom, NewFrom, OldEnd, NewEnd
    <3>6. OldEnd(n) = AOff(hunks[n].hi) /\ NewEnd(n) = BOff(hunks[n].hi)
      BY <3>3, <3>4, <3>5
    <3> QED
      BY <1>0, <3>1, <3>3, <3>4, <3>6
  <2>c. ASSUME NEW n \in DOMAIN hunks PROVE HunkFits(n)
    <3> DEFINE lo == hunks[n].lo
               hi == hunks[n].hi
               body == Body(hunks[n])
    <3>1. lo \in 1 .. Len(ops) /\ hi \in lo .. Len(ops)
      BY <2>b
    <3>2. /\ body = Body([lo |-> lo, hi |-> hi])
          /\ DOMAIN body = lo .. hi
          /\ \A m \in lo .. hi :
               /\ body[m].prefix = ops[m].tag
               /\ body[m].line = IF ops[m].tag = "+" THEN b[ops[m].bi] ELSE a[ops[m].ai]
      BY DEF Body
    <3>3. OldFrom(n) = AOff(lo - 1) + 1 /\ NewFrom(n) = BOff(lo - 1) + 1
      BY <2>b
    <3>4. /\ OldEnd(n) <= Len(a) /\ NewEnd(n) <= Len(b)
      <4>1. /\ hi \in 0 .. Len(ops) /\ Len(ops) \in 0 .. Len(ops) /\ hi <= Len(ops)
        BY <1>0, <3>1
      <4>2. AOff(hi) <= AOff(Len(ops)) /\ BOff(hi) <= BOff(Len(ops))
        BY <4>1, Stretch, Zenon
      <4>3. OldEnd(n) = AOff(hi) /\ NewEnd(n) = BOff(hi)
        BY <2>b
      <4> HIDE DEF OldEnd, NewEnd, AOff, BOff
      <4> QED
        BY <2>a, <4>2, <4>3
    <3>5. /\ Cardinality(OldSide(body, hi)) = h[n].aCount
          /\ Cardinality(NewSide(body, hi)) = h[n].bCount
      <4>1. hi \in lo .. hi
        BY <1>0, <3>1
      <4>2. /\ Cardinality(OldSide(Body([lo |-> lo, hi |-> hi]), hi)) = AOff(hi) - AOff(lo - 1)
            /\ Cardinality(NewSide(Body([lo |-> lo, hi |-> hi]), hi)) = BOff(hi) - BOff(lo - 1)
        BY <3>1, <4>1, OldSideCounted, NewSideCounted, Zenon
      <4>3. h[n].aCount = AOff(hi) - AOff(lo - 1) /\ h[n].bCount = BOff(hi) - BOff(lo - 1)
        BY <2>b
      <4> HIDE DEF body, h
      <4> QED
        BY <3>2, <4>2, <4>3
    <3> HIDE DEF body, OldFrom, NewFrom, lo, hi
    <3>6. \A m \in OldSide(body, hi) :
            body[m].line = a[OldFrom(n) - 1 + Cardinality(OldSide(body, m))]
      <4>1. SUFFICES ASSUME NEW m \in OldSide(body, hi)
                     PROVE  body[m].line = a[OldFrom(n) - 1 + Cardinality(OldSide(body, m))]
        OBVIOUS
      <4>2. m \in lo .. hi /\ m \in OldOps
        BY <1>0, <3>1, <3>2, <4>1 DEF OldSide, OldOps
      <4>3. OldSide(body, m) = OldSide(Body([lo |-> lo, hi |-> hi]), m)
        BY <3>2
      <4>4. Cardinality(OldSide(body, m)) = AOff(m) - AOff(lo - 1)
        BY <3>1, <4>2, <4>3, OldSideCounted, Zenon
      <4>5. AOff(m) \in Nat /\ AOff(lo - 1) \in Nat
        <5>1. lo - 1 \in 0 .. Len(ops) /\ m \in 0 .. Len(ops) /\ lo - 1 <= m
          BY <1>0, <3>1, <4>2
        <5> QED
          BY <5>1, Stretch, Zenon
      <4>6. OldFrom(n) - 1 + Cardinality(OldSide(body, m)) = AOff(m)
        <5> HIDE DEF AOff, OldFrom, body
        <5> QED
          BY <3>3, <4>4, <4>5
      <4>7. body[m].line = a[ops[m].ai]
        BY <1>0, <3>2, <4>2 DEF OldOps
      <4>8. ops[m].ai = AOff(m)
        BY <4>2, Zenon DEF Counted
      <4> QED
        BY <4>6, <4>7, <4>8
    <3>7. \A m \in NewSide(body, hi) :
            body[m].line = b[NewFrom(n) - 1 + Cardinality(NewSide(body, m))]
      <4>1. SUFFICES ASSUME NEW m \in NewSide(body, hi)
                     PROVE  body[m].line = b[NewFrom(n) - 1 + Cardinality(NewSide(body, m))]
        OBVIOUS
      <4>2. m \in lo .. hi /\ m \in NewOps
        BY <1>0, <3>1, <3>2, <4>1 DEF NewSide, NewOps
      <4>3. NewSide(body, m) = NewSide(Body([lo |-> lo, hi |-> hi]), m)
        BY <3>2
      <4>4. Cardinality(NewSide(body, m)) = BOff(m) - BOff(lo - 1)
        BY <3>1, <4>2, <4>3, NewSideCounted, Zenon
      <4>5. BOff(m) \in Nat /\ BOff(lo - 1) \in Nat
        <5>1. lo - 1 \in 0 .. Len(ops) /\ m \in 0 .. Len(ops) /\ lo - 1 <= m
          BY <1>0, <3>1, <4>2
        <5> QED
          BY <5>1, Stretch, Zenon
      <4>6. NewFrom(n) - 1 + Cardinality(NewSide(body, m)) = BOff(m)
        <5> HIDE DEF BOff, NewFrom, body
        <5> QED
          BY <3>3, <4>4, <4>5
      <4>7. body[m].line = b[ops[m].bi]
        <5>1. body[m].line = IF ops[m].tag = "+" THEN b[ops[m].bi] ELSE a[ops[m].ai]
          BY <3>2, <4>2
        <5>2. ops[m].tag # "+" => a[ops[m].ai] = b[ops[m].bi]
          <6>1. m \in DOMAIN ops /\ ops[m].tag # "-"
            BY <4>2 DEF NewOps
          <6>2. ops[m].tag \in {"=", "-", "+"}
            BY <6>1, Parts
          <6> QED
            BY <6>1, <6>2 DEF KeptEqual
        <5> QED
          BY <5>1, <5>2
      <4>8. ops[m].bi = BOff(m)
        BY <4>2, Zenon DEF Counted
      <4> QED
        BY <4>6, <4>7, <4>8
    <3> QED
      BY <3>4, <3>5, <3>6, <3>7 DEF body, lo, hi, OldFrom, NewFrom
  <2>d. ASSUME NEW n \in 0 .. Len(hunks) PROVE SameAround(n)
    <3>1. n + 1 \in 1 .. Len(hunks) + 1 /\ n \in Nat
      BY <1>0
    <3>2. /\ Top(n + 1) \in 0 .. Len(ops) /\ HunkEnd(n) \in 0 .. Len(ops) /\ HunkEnd(n) <= Top(n + 1)
          /\ OldFrom(n + 1) = AOff(Top(n + 1)) + 1 /\ NewFrom(n + 1) = BOff(Top(n + 1)) + 1
      <4>1. HunkEnd(n) \in 0 .. Len(ops)
        BY <1>0, <2>b DEF HunkEnd
      <4>2. CASE n + 1 \in DOMAIN hunks
        <5>1. ~(n + 1 > Len(hunks)) /\ Top(n + 1) = hunks[n + 1].lo - 1
          BY <1>0, <4>2
        <5>2. /\ hunks[n + 1].lo \in 1 .. Len(ops)
              /\ OldFrom(n + 1) = AOff(hunks[n + 1].lo - 1) + 1
              /\ NewFrom(n + 1) = BOff(hunks[n + 1].lo - 1) + 1
          <6> HIDE DEF OldFrom, NewFrom, AOff, BOff
          <6> QED
            BY <2>b, <4>2
        <5>3. HunkEnd(n) <= hunks[n + 1].lo - 1
          <6>1. CASE n = 0
            BY <5>2, <6>1, <1>0 DEF HunkEnd
          <6>2. CASE n # 0
            <7>1. n \in DOMAIN hunks /\ n < n + 1
              BY <1>0, <3>1, <6>2
            <7>2. hunks[n].hi + 1 < hunks[n + 1].lo
              BY <4>2, <7>1 DEF HunksApart
            <7> QED
              BY <1>0, <4>2, <6>2, <7>1, <7>2 DEF HunkEnd
          <6> QED
            BY <6>1, <6>2
        <5> HIDE DEF OldFrom, NewFrom, AOff, BOff
        <5> QED
          BY <1>0, <4>1, <5>1, <5>2, <5>3
      <4>3. CASE n + 1 \notin DOMAIN hunks
        <5>1. n + 1 > Len(hunks)
          BY <1>0, <3>1, <4>3
        <5>2. Top(n + 1) = Len(ops) /\ OldFrom(n + 1) = Len(a) + 1 /\ NewFrom(n + 1) = Len(b) + 1
          BY <5>1
        <5> HIDE DEF OldFrom, NewFrom, AOff, BOff, Top
        <5> QED
          BY <1>0, <2>a, <4>1, <5>2
      <4> QED
        BY <4>2, <4>3
    <3>3. OldEnd(n) = AOff(HunkEnd(n)) /\ NewEnd(n) = BOff(HunkEnd(n))
      <4>1. CASE n = 0
        <5>1. AOff(0) = 0 /\ BOff(0) = 0
          <6>1. {m \in 1 .. 0 : ops[m].tag # "+"} = {} /\ {m \in 1 .. 0 : ops[m].tag # "-"} = {}
            OBVIOUS
          <6> QED
            BY <6>1, FS_EmptySet DEF AOff, BOff
        <5> HIDE DEF AOff, BOff
        <5> QED
          BY <4>1, <5>1 DEF HunkEnd
      <4>2. CASE n # 0
        <5>1. n \in DOMAIN hunks /\ HunkEnd(n) = hunks[n].hi
          BY <1>0, <4>2 DEF HunkEnd
        <5> HIDE DEF OldEnd, NewEnd, AOff, BOff
        <5> QED
          BY <2>b, <5>1
      <4> QED
        BY <4>1, <4>2
    <3>4. \A m \in HunkEnd(n) + 1 .. Top(n + 1) : ~Changed(m)
      <4>1. SUFFICES ASSUME NEW m \in HunkEnd(n) + 1 .. Top(n + 1) PROVE ~Changed(m)
        OBVIOUS
      <4>2. m \in DOMAIN ops /\ HunkEnd(n) < m /\ m <= Top(n + 1)
        BY <1>0, <3>2
      <4>3. CASE n + 1 \in DOMAIN hunks
        <5>1. m < hunks[n + 1].lo /\ HunkEnd(n + 1 - 1) < m
          BY <1>0, <3>1, <4>2, <4>3
        <5> QED
          BY <4>2, <4>3, <5>1 DEF HunksCut
      <4>4. CASE n + 1 \notin DOMAIN hunks
        <5>1. n = Len(hunks) /\ m < k
          <6>1. Len(hunks) \in Nat /\ DOMAIN hunks = 1 .. Len(hunks)
            BY <1>0
          <6>2. n = Len(hunks)
            <7>1. \A l \in Nat : \A x \in 0 .. l : x + 1 \notin 1 .. l => x = l
              OBVIOUS
            <7>2. n + 1 \notin 1 .. Len(hunks)
              BY <4>4, <6>1
            <7> QED
              BY <6>1, <7>1, <7>2, Zenon
          <6>3. m \in Nat /\ m <= Len(ops) /\ k > Len(ops) /\ k \in Nat /\ Len(ops) \in Nat
            BY <1>0, <1>3, <4>2, Places
          <6> QED
            BY <6>2, <6>3
        <5> QED
          BY <4>2, <5>1 DEF HunksCut
      <4> QED
        BY <4>3, <4>4
    <3> DEFINE x == HunkEnd(n)
               y == Top(n + 1)
    <3>5. x \in 0 .. Len(ops) /\ y \in x .. Len(ops)
      BY <1>0, <3>2
    <3>6. /\ AOff(y) - AOff(x) = y - x /\ BOff(y) - BOff(x) = y - x
          /\ \A m \in 1 .. y - x : a[AOff(x) + m] = b[BOff(x) + m]
      <4> HIDE DEF x, y
      <4>1. \A m \in x + 1 .. y : ~Changed(m)
        BY <3>4 DEF x, y
      <4> QED
        BY <3>5, <4>1, KeptStretch, Zenon
    <3>7. AOff(y) \in Nat /\ AOff(x) \in Nat /\ BOff(y) \in Nat /\ BOff(x) \in Nat
      <4> HIDE DEF x, y
      <4>1. y \in 0 .. Len(ops) /\ x <= y
        BY <1>0, <3>5
      <4> QED
        BY <3>5, <4>1, Stretch, Zenon
    <3>8. /\ OldFrom(n + 1) = AOff(y) + 1 /\ NewFrom(n + 1) = BOff(y) + 1
          /\ OldEnd(n) = AOff(x) /\ NewEnd(n) = BOff(x)
      BY <3>2, <3>3
    <3>9. x \in Nat /\ y \in Nat
      BY <1>0, <3>5
    <3> HIDE DEF OldFrom, NewFrom, OldEnd, NewEnd, x, y, AOff, BOff
    <3>10. OldFrom(n + 1) - OldEnd(n) = y - x + 1 /\ NewFrom(n + 1) - NewEnd(n) = y - x + 1
      <4>1. AOff(y) - AOff(x) = y - x /\ BOff(y) - BOff(x) = y - x
        BY <3>6, Zenon
      <4> QED
        BY <3>7, <3>8, <3>9, <4>1, SMTT(60)
    <3> QED
      BY <3>6, <3>8, <3>9, <3>10
  <2> HIDE DEF HunkFits, SameAround
  <2> QED
    BY <2>c, <2>d
<1> QED
  BY <1>1, <1>2, <1>3 DEF HunksCut

(* Whatever the versions, the table and the width of the context, the diff  *)
(* applies: the numbers of every hunk lead to its old and its new lines, and *)
(* the versions agree outside the hunks (unifiedDiff, "output that patch    *)
(* and git apply consume").                                                 *)
THEOREM DiffAlwaysApplies == Spec => []DiffApplies
<1> DEFINE Inv == /\ TypeOK /\ InStep /\ OldDone /\ NewDone /\ KeptEqual
                  /\ Counted /\ Rendering /\ HunksApart /\ HunksCut
<1>1. Init => Inv
  <2>1. Init => Counted
    BY InitCounted
  <2>2. Init => HunksCut
    BY DEF Init, HunksCut
  <2> QED
    BY <2>1, <2>2, InitTyped, InitDone
<1>2. Inv /\ [Next]_vars => Inv'
  <2>1. TypeOK /\ InStep /\ [Next]_vars => TypeOK' /\ InStep'
    BY NextTyped, NextInStep
  <2>2. Inv /\ [Next]_vars => OldDone' /\ NewDone' /\ KeptEqual'
    BY NextDone
  <2>3. Inv /\ [Next]_vars => Counted'
    BY NextCounted
  <2>4. Inv /\ [Next]_vars => Rendering' /\ HunksApart'
    BY NextRendering
  <2>5. Inv /\ [Next]_vars => HunksCut'
    BY NextCut
  <2> QED
    BY <2>1, <2>2, <2>3, <2>4, <2>5
<1>3. Inv => DiffApplies
  BY CutApplies
<1> QED
  BY <1>1, <1>2, <1>3, PTL DEF Spec

-----------------------------------------------------------------------------
(* The alignment is a shortest one. A common subsequence of the lines from  *)
(* a[x] and b[y] on, but for the last t, is given by the places of its      *)
(* lines: g in a and h in b.                                                *)
Increasing(g, l) == \A m, n \in 1 .. l : m < n => g[m] < g[n]
Common(g, h, l) ==
  Increasing(g, l) /\ Increasing(h, l) /\ \A n \in 1 .. l : a[g[n]] = b[h[n]]
NoneLonger(x, y, t, max) ==
  \A l \in Nat :
    \A g \in [1 .. l -> x .. Len(a) - t], h \in [1 .. l -> y .. Len(b) - t] :
      Common(g, h, l) => l <= max

(* What the entries of the table are, once computed.                        *)
Known(x, y) == pc # "fill" \/ x > i \/ (x = i /\ y > j)
TableTyped == dp \in [Rows -> [Columns -> Nat]]
EmptyEnds ==
  \A x \in Rows, y \in Columns :
    x = Len(a) - s + 1 \/ y = Len(b) - s + 1 => dp[x][y] = 0
EntriesFollow ==
  \A x \in p + 1 .. Len(a) - s, y \in p + 1 .. Len(b) - s :
    Known(x, y) =>
      dp[x][y] = IF a[x] = b[y] THEN dp[x + 1][y + 1] + 1 ELSE Larger(dp[x + 1][y], dp[x][y + 1])
EntriesLongest ==
  \A x \in Rows, y \in Columns : Known(x, y) => NoneLonger(x, y, s, dp[x][y])
TableRight ==
  pc \in {"fill", "align", "render"} =>
    TableTyped /\ EmptyEnds /\ EntriesFollow /\ EntriesLongest

(* Matching the common ends first costs nothing.                            *)
EndsLossless ==
  \A max \in Nat : NoneLonger(p + 1, p + 1, s, max) => NoneLonger(1, 1, 0, max + p + s)

(* The walk keeps as many lines as the table promises: Kept is how many it  *)
(* has kept so far.                                                         *)
Kept == OldCount + NewCount - Len(ops)
Promise == p + dp[p + 1][p + 1]
Walked ==
  pc \in {"align", "render"} =>
    \/ i <= p /\ j = i /\ Kept = i - 1
    \/ i \in Rows /\ j \in Columns /\ Kept + dp[i][j] = Promise
    \/ /\ i \in Len(a) - s + 1 .. Len(a) + 1 /\ Len(a) - i = Len(b) - j
       /\ Kept = Promise + i - (Len(a) - s + 1)

(* A common subsequence without its first, or its last, pair of lines.      *)
LEMMA WithoutFirst ==
  ASSUME Len(a) \in Nat, Len(b) \in Nat,
         NEW x \in Nat, NEW y \in Nat, NEW t \in Nat, NEW max \in Nat,
         NoneLonger(x + 1, y + 1, t, max)
  PROVE  NoneLonger(x, y, t, max + 1)
<1> SUFFICES ASSUME NEW l \in Nat,
                    NEW g \in [1 .. l -> x .. Len(a) - t], NEW h \in [1 .. l -> y .. Len(b) - t],
                    Common(g, h, l)
             PROVE  l <= max + 1
  BY DEF NoneLonger
<1>0. x \in Int /\ y \in Int /\ Len(a) - t \in Int /\ Len(b) - t \in Int
  OBVIOUS
<1>1. CASE l = 0
  BY <1>1
<1>2. CASE l # 0
  <2> DEFINE g1 == [n \in 1 .. l - 1 |-> g[n + 1]]
             h1 == [n \in 1 .. l - 1 |-> h[n + 1]]
  <2>1. \A n \in 1 .. l - 1 : n + 1 \in 1 .. l /\ 1 \in 1 .. l /\ 1 < n + 1
    BY <1>2
  <2>2. /\ g1 \in [1 .. l - 1 -> x + 1 .. Len(a) - t]
        /\ h1 \in [1 .. l - 1 -> y + 1 .. Len(b) - t]
    <3>1. ASSUME NEW n \in 1 .. l - 1 PROVE g[n + 1] \in x + 1 .. Len(a) - t
      <4>1. g[1] < g[n + 1] /\ g[1] \in x .. Len(a) - t /\ g[n + 1] \in x .. Len(a) - t
        BY <2>1, Zenon DEF Common, Increasing
      <4> QED
        BY <4>1, <1>0, Beyond, Zenon
    <3>2. ASSUME NEW n \in 1 .. l - 1 PROVE h[n + 1] \in y + 1 .. Len(b) - t
      <4>1. h[1] < h[n + 1] /\ h[1] \in y .. Len(b) - t /\ h[n + 1] \in y .. Len(b) - t
        BY <2>1, Zenon DEF Common, Increasing
      <4> QED
        BY <4>1, <1>0, Beyond, Zenon
    <3> QED
      BY <3>1, <3>2
  <2>3. Common(g1, h1, l - 1)
    <3>1. \A n \in 1 .. l - 1 : g1[n] = g[n + 1] /\ h1[n] = h[n + 1]
      OBVIOUS
    <3>2. \A m, n \in 1 .. l - 1 : m < n => m + 1 < n + 1
      OBVIOUS
    <3> HIDE DEF g1, h1
    <3>3. Increasing(g1, l - 1) /\ Increasing(h1, l - 1)
      BY <2>1, <3>1, <3>2 DEF Common, Increasing
    <3>4. \A n \in 1 .. l - 1 : a[g1[n]] = b[h1[n]]
      BY <2>1, <3>1 DEF Common
    <3> QED
      BY <3>3, <3>4 DEF Common
  <2>4. l - 1 \in Nat
    BY <1>2
  <2> HIDE DEF g1, h1
  <2>5. l - 1 <= max
    BY <2>2, <2>3, <2>4 DEF NoneLonger
  <2> QED
    BY <2>5
<1> QED
  BY <1>1, <1>2

LEMMA WithoutLast ==
  ASSUME Len(a) \in Nat, Len(b) \in Nat,
         NEW x \in Nat, NEW y \in Nat, NEW t \in Nat, NEW max \in Nat,
         NoneLonger(x, y, t + 1, max)
  PROVE  NoneLonger(x, y, t, max + 1)
<1> SUFFICES ASSUME NEW l \in Nat,
                    NEW g \in [1 .. l -> x .. Len(a) - t], NEW h \in [1 .. l -> y .. Len(b) - t],
                    Common(g, h, l)
             PROVE  l <= max + 1
  BY DEF NoneLonger
<1>1. CASE l = 0
  BY <1>1
<1>2. CASE l # 0
  <2> DEFINE g1 == [n \in 1 .. l - 1 |-> g[n]]
             h1 == [n \in 1 .. l - 1 |-> h[n]]
  <2>1. \A n \in 1 .. l - 1 : n \in 1 .. l /\ l \in 1 .. l /\ n < l
    BY <1>2
  <2>2. /\ g1 \in [1 .. l - 1 -> x .. Len(a) - (t + 1)]
        /\ h1 \in [1 .. l - 1 -> y .. Len(b) - (t + 1)]
    <3>1. ASSUME NEW n \in 1 .. l - 1 PROVE g[n] \in x .. Len(a) - (t + 1)
      <4>1. g[n] < g[l] /\ g[n] \in x .. Len(a) - t /\ g[l] \in x .. Len(a) - t
        BY <2>1 DEF Common, Increasing
      <4> QED
        BY <4>1, SMTT(60)
    <3>2. ASSUME NEW n \in 1 .. l - 1 PROVE h[n] \in y .. Len(b) - (t + 1)
      <4>1. h[n] < h[l] /\ h[n] \in y .. Len(b) - t /\ h[l] \in y .. Len(b) - t
        BY <2>1 DEF Common, Increasing
      <4> QED
        BY <4>1, SMTT(60)
    <3> QED
      BY <3>1, <3>2
  <2>3. Common(g1, h1, l - 1)
    BY <2>1 DEF Common, Increasing
  <2>4. l - 1 \in Nat
    BY <1>2
  <2> HIDE DEF g1, h1
  <2>5. l - 1 <= max
    BY <2>2, <2>3, <2>4 DEF NoneLonger
  <2> QED
    BY <2>5
<1> QED
  BY <1>1, <1>2

(* Where two lines differ, a common subsequence lacks one of them.          *)
LEMMA WithoutOne ==
  ASSUME Len(a) \in Nat, Len(b) \in Nat,
         NEW x \in Nat, NEW y \in Nat, NEW t \in Nat, NEW m1 \in Nat, NEW m2 \in Nat,
         a[x] # b[y], NoneLonger(x + 1, y, t, m1), NoneLonger(x, y + 1, t, m2)
  PROVE  NoneLonger(x, y, t, Larger(m1, m2))
<1> SUFFICES ASSUME NEW l \in Nat,
                    NEW g \in [1 .. l -> x .. Len(a) - t], NEW h \in [1 .. l -> y .. Len(b) - t],
                    Common(g, h, l)
             PROVE  l <= Larger(m1, m2)
  BY DEF NoneLonger
<1>0. m1 <= Larger(m1, m2) /\ m2 <= Larger(m1, m2) /\ Larger(m1, m2) \in Nat
  BY DEF Larger
<1>3. x \in Int /\ y \in Int /\ Len(a) - t \in Int /\ Len(b) - t \in Int
  OBVIOUS
<1>1. CASE l = 0
  BY <1>0, <1>1
<1>2. CASE l # 0
  <2>1. 1 \in 1 .. l /\ g[1] \in x .. Len(a) - t /\ h[1] \in y .. Len(b) - t /\ a[g[1]] = b[h[1]]
    BY <1>2 DEF Common
  <2>2. g[1] # x \/ h[1] # y
    BY <2>1
  <2>3. CASE g[1] # x
    <3>1. ASSUME NEW n \in 1 .. l PROVE g[n] \in x + 1 .. Len(a) - t
      <4>1. n = 1 \/ g[1] < g[n]
        BY <1>2 DEF Common, Increasing
      <4>2. g[n] \in x .. Len(a) - t
        OBVIOUS
      <4> QED
        BY <1>3, <2>1, <2>3, <4>1, <4>2, Beyond, NotAtStart, Zenon
    <3>2. g \in [1 .. l -> x + 1 .. Len(a) - t]
      BY <3>1
    <3>3. l <= m1
      BY <3>2 DEF NoneLonger
    <3> QED
      BY <1>0, <3>3
  <2>4. CASE h[1] # y
    <3>1. ASSUME NEW n \in 1 .. l PROVE h[n] \in y + 1 .. Len(b) - t
      <4>1. n = 1 \/ h[1] < h[n]
        BY <1>2 DEF Common, Increasing
      <4>2. h[n] \in y .. Len(b) - t
        OBVIOUS
      <4> QED
        BY <1>3, <2>1, <2>4, <4>1, <4>2, Beyond, NotAtStart, Zenon
    <3>2. h \in [1 .. l -> y + 1 .. Len(b) - t]
      BY <3>1
    <3>3. l <= m2
      BY <3>2 DEF NoneLonger
    <3> QED
      BY <1>0, <3>3
  <2> QED
    BY <2>2, <2>3, <2>4
<1> QED
  BY <1>1, <1>2

LEMMA NoneBeyond ==
  ASSUME Len(a) \in Nat, Len(b) \in Nat, NEW x \in Nat, NEW y \in Nat, NEW t \in Nat,
         x > Len(a) - t \/ y > Len(b) - t
  PROVE  NoneLonger(x, y, t, 0)
<1> SUFFICES ASSUME NEW l \in Nat, l # 0,
                    NEW g \in [1 .. l -> x .. Len(a) - t], NEW h \in [1 .. l -> y .. Len(b) - t]
             PROVE  FALSE
  BY DEF NoneLonger
<1>1. 1 \in 1 .. l
  OBVIOUS
<1>2. g[1] \in x .. Len(a) - t /\ h[1] \in y .. Len(b) - t
  BY <1>1
<1> QED
  BY <1>2

(* As long as the versions stay the same, so do their common subsequences.  *)
LEMMA SameLines ==
  ASSUME a' = a, b' = b
  PROVE  \A x, y, t, max : NoneLonger(x, y, t, max)' <=> NoneLonger(x, y, t, max)
BY DEF NoneLonger, Common

LEMMA NextLossless ==
  ASSUME TypeOK, InStep, EndsLossless, [Next]_vars
  PROVE  EndsLossless'
<1> USE Places DEF input, ends, place, rendering
<1>1. CASE MatchFirst /\ CommonFirst
  <2>1. p' = p + 1 /\ UNCHANGED <<a, b, s>>
    BY <1>1 DEF MatchFirst
  <2>2. ASSUME NEW max \in Nat, NoneLonger(p + 1 + 1, p + 1 + 1, s, max)
        PROVE  NoneLonger(1, 1, 0, max + (p + 1) + s)
    <3>1. NoneLonger(p + 1, p + 1, s, max + 1)
      <4>1. p + 1 \in Nat /\ Len(a) \in Nat /\ Len(b) \in Nat /\ s \in Nat
        BY Places
      <4> QED
        BY <2>2, <4>1, WithoutFirst, Zenon
    <3>2. NoneLonger(1, 1, 0, max + 1 + p + s)
      BY <3>1 DEF EndsLossless
    <3>3. max + 1 + p + s = max + (p + 1) + s
      BY Places
    <3> QED
      BY <3>2, <3>3
  <2> QED
    BY <2>1, <2>2, SameLines, Zenon DEF EndsLossless
<1>2. CASE MatchLast
  <2>1. s' = s + 1 /\ UNCHANGED <<a, b, p>>
    BY <1>2 DEF MatchLast
  <2>2. ASSUME NEW max \in Nat, NoneLonger(p + 1, p + 1, s + 1, max)
        PROVE  NoneLonger(1, 1, 0, max + p + (s + 1))
    <3>1. NoneLonger(p + 1, p + 1, s, max + 1)
      <4>1. p + 1 \in Nat /\ Len(a) \in Nat /\ Len(b) \in Nat /\ s \in Nat
        BY Places
      <4> QED
        BY <2>2, <4>1, WithoutLast, Zenon
    <3>2. NoneLonger(1, 1, 0, max + 1 + p + s)
      BY <3>1 DEF EndsLossless
    <3>3. max + 1 + p + s = max + p + (s + 1)
      BY Places
    <3> QED
      BY <3>2, <3>3
  <2> QED
    BY <2>1, <2>2, SameLines, Zenon DEF EndsLossless
<1>3. CASE UNCHANGED <<a, b, p, s>>
  BY <1>3, SameLines, Zenon DEF EndsLossless
<1>4. \/ MatchFirst /\ CommonFirst
      \/ MatchLast
      \/ UNCHANGED <<a, b, p, s>>
  BY DEF Next, vars, Same, Start, MatchFirst, MakeTable, FillEntry, NextRow, TableFilled, KeepLine,
         DeleteLine, InsertLine, Aligned, SkipLine, Hunk, Rendered
<1> QED
  BY <1>1, <1>2, <1>3, <1>4

(* The types of the table, read and written.                                *)
LEMMA Entries ==
  ASSUME TypeOK, TableTyped
  PROVE  /\ \A x \in Rows, y \in Columns : dp[x][y] \in Nat
         /\ \A x \in p + 1 .. Len(a) - s : x \in Rows /\ x + 1 \in Rows
         /\ \A y \in p + 1 .. Len(b) - s : y \in Columns /\ y + 1 \in Columns
         /\ p + 1 \in Rows /\ p + 1 \in Columns
         /\ Len(a) - s + 1 \in Rows /\ Len(b) - s + 1 \in Columns
<1>1. \A x \in Rows, y \in Columns : dp[x][y] \in Nat
  BY DEF TableTyped
<1>2. Len(a) \in Nat /\ Len(b) \in Nat /\ p \in Nat /\ s \in Nat /\ p + s <= Len(a) /\ p + s <= Len(b)
  BY Places
<1>3. /\ \A x \in p + 1 .. Len(a) - s : x \in Rows /\ x + 1 \in Rows
      /\ p + 1 \in Rows /\ Len(a) - s + 1 \in Rows
  BY <1>2 DEF Rows
<1>4. /\ \A y \in p + 1 .. Len(b) - s : y \in Columns /\ y + 1 \in Columns
      /\ p + 1 \in Columns /\ Len(b) - s + 1 \in Columns
  BY <1>2 DEF Columns
<1> QED
  BY <1>1, <1>3, <1>4

LEMMA FillKeepsTable ==
  ASSUME TypeOK, InStep, TableRight, FillEntry
  PROVE  TableRight'
<1>1. /\ pc = "fill" /\ i \in p + 1 .. Len(a) - s /\ j \in p + 1 .. Len(b) - s
      /\ dp' = [dp EXCEPT ![i][j] = Entry]
      /\ i' = i /\ j' = j - 1
      /\ UNCHANGED <<a, b, p, s, pc>>
  <2>1. i \in p .. Len(a) - s /\ j \in p .. Len(b) - s /\ i > p /\ j > p
    BY DEF FillEntry, InStep
  <2> QED
    BY <2>1, Places DEF FillEntry, input, ends
<1>2. TableTyped /\ EmptyEnds /\ EntriesFollow /\ EntriesLongest
  BY <1>1 DEF TableRight
<1>3. /\ i \in Rows /\ i + 1 \in Rows /\ j \in Columns /\ j + 1 \in Columns
      /\ dp[i + 1][j + 1] \in Nat /\ dp[i + 1][j] \in Nat /\ dp[i][j + 1] \in Nat
  BY <1>1, <1>2, Entries
<1>4. Entry \in Nat
  BY <1>3 DEF Entry, Larger
<1>5. UNCHANGED <<Rows, Columns>>
  BY <1>1 DEF Rows, Columns
<1>6. TableTyped'
  BY <1>1, <1>2, <1>3, <1>4, <1>5 DEF TableTyped
<1>7. \A x \in Rows, y \in Columns :
        dp'[x][y] = IF x = i /\ y = j THEN Entry ELSE dp[x][y]
  BY <1>1, <1>2, <1>3 DEF TableTyped
<1> HIDE DEF Entry
<1>8. EmptyEnds'
  <2>1. \A x \in Rows, y \in Columns :
          x = Len(a) - s + 1 \/ y = Len(b) - s + 1 => ~(x = i /\ y = j)
    BY <1>1, Places
  <2>2. \A x \in Rows, y \in Columns :
          x = Len(a) - s + 1 \/ y = Len(b) - s + 1 => dp'[x][y] = 0
    BY <1>2, <1>7, <2>1 DEF EmptyEnds
  <2> QED
    BY <1>1, <1>5, <2>2 DEF EmptyEnds
<1>9. \A x \in Rows, y \in Columns :
        (Known(x, y)' => Known(x, y) \/ (x = i /\ y = j)) /\ (Known(x, y) => ~(x = i /\ y = j))
  BY <1>1, Places DEF Known, Rows, Columns
<1>10. EntriesFollow'
  <2>1. SUFFICES ASSUME NEW x \in p + 1 .. Len(a) - s, NEW y \in p + 1 .. Len(b) - s, Known(x, y)'
                 PROVE  dp'[x][y] = IF a[x] = b[y] THEN dp'[x + 1][y + 1] + 1
                                    ELSE Larger(dp'[x + 1][y], dp'[x][y + 1])
    BY <1>1 DEF EntriesFollow
  <2>2. x \in Rows /\ x + 1 \in Rows /\ y \in Columns /\ y + 1 \in Columns
    BY <1>2, Entries
  <2>3. x \in Nat /\ y \in Nat /\ (x > i \/ (x = i /\ y >= j))
    BY <1>1, <2>1, Places DEF Known
  <2>4. /\ dp'[x + 1][y + 1] = dp[x + 1][y + 1]
        /\ dp'[x + 1][y] = dp[x + 1][y]
        /\ dp'[x][y + 1] = dp[x][y + 1]
    <3>1. x + 1 # i /\ ~(x = i /\ y + 1 = j)
      BY <1>1, <2>3, Places
    <3> QED
      BY <1>7, <2>2, <3>1
  <2>5. CASE x = i /\ y = j
    BY <1>7, <2>2, <2>4, <2>5 DEF Entry
  <2>6. CASE ~(x = i /\ y = j)
    <3>1. Known(x, y) /\ dp'[x][y] = dp[x][y]
      BY <1>7, <1>9, <2>1, <2>2, <2>6
    <3> QED
      BY <1>2, <2>4, <3>1 DEF EntriesFollow
  <2> QED
    BY <2>5, <2>6
<1>11. EntriesLongest'
  <2>1. SUFFICES ASSUME NEW x \in Rows, NEW y \in Columns, Known(x, y)'
                 PROVE  NoneLonger(x, y, s, dp'[x][y])
    BY <1>1, <1>5 DEF EntriesLongest, NoneLonger, Common
  <2>2. CASE x = i /\ y = j
    <3>1. /\ NoneLonger(i + 1, j + 1, s, dp[i + 1][j + 1])
          /\ NoneLonger(i + 1, j, s, dp[i + 1][j])
          /\ NoneLonger(i, j + 1, s, dp[i][j + 1])
      <4>1. Known(i + 1, j + 1) /\ Known(i + 1, j) /\ Known(i, j + 1)
        BY <1>1, Places DEF Known
      <4> QED
        BY <1>2, <1>3, <4>1 DEF EntriesLongest
    <3>2. Len(a) \in Nat /\ Len(b) \in Nat /\ i \in Nat /\ j \in Nat /\ s \in Nat
      BY Places
    <3>3. CASE a[i] = b[j]
      <4>1. NoneLonger(i, j, s, dp[i + 1][j + 1] + 1)
        BY <1>3, <3>1, <3>2, WithoutFirst, Zenon
      <4> QED
        BY <1>7, <2>2, <3>3, <4>1 DEF Entry
    <3>4. CASE a[i] # b[j]
      <4>1. NoneLonger(i, j, s, Larger(dp[i + 1][j], dp[i][j + 1]))
        BY <1>3, <3>1, <3>2, <3>4, WithoutOne, Zenon
      <4> QED
        BY <1>7, <2>2, <3>4, <4>1 DEF Entry
    <3> QED
      BY <3>3, <3>4
  <2>3. CASE ~(x = i /\ y = j)
    <3>1. Known(x, y) /\ dp'[x][y] = dp[x][y]
      BY <1>7, <1>9, <2>1, <2>3
    <3> QED
      BY <1>2, <3>1 DEF EntriesLongest
  <2> QED
    BY <2>2, <2>3
<1> QED
  BY <1>6, <1>8, <1>10, <1>11 DEF TableRight

LEMMA NextTable ==
  ASSUME TypeOK, InStep, TableRight, [Next]_vars
  PROVE  TableRight'
<1> USE DEF input, ends, place, rendering
<1>1. CASE Same \/ Start \/ MatchFirst \/ MatchLast \/ Rendered
  <2>1. pc' \notin {"fill", "align", "render"}
    BY <1>1 DEF Same, Start, MatchFirst, MatchLast, Rendered
  <2> QED
    BY <2>1 DEF TableRight
<1>2. CASE MakeTable
  <2>1. /\ pc' = "fill" /\ i' = Len(a) - s /\ j' = Len(b) - s
        /\ dp' = [x \in Rows |-> [y \in Columns |-> 0]]
        /\ a' = a /\ b' = b /\ p' = p /\ s' = s
    BY <1>2 DEF MakeTable
  <2>2. UNCHANGED <<Rows, Columns>>
    BY <2>1 DEF Rows, Columns
  <2>3. \A x \in Rows, y \in Columns : dp'[x][y] = 0
    BY <2>1
  <2>4. TableTyped'
    BY <2>1, <2>2 DEF TableTyped
  <2>5. EmptyEnds'
    BY <2>1, <2>2, <2>3 DEF EmptyEnds
  <2>6. EntriesFollow'
    <3>1. SUFFICES ASSUME NEW x \in p + 1 .. Len(a) - s, NEW y \in p + 1 .. Len(b) - s, Known(x, y)'
                   PROVE  FALSE
      BY <2>1 DEF EntriesFollow
    <3> QED
      BY <2>1, <3>1, Places DEF Known
  <2>7. EntriesLongest'
    <3>1. SUFFICES ASSUME NEW x \in Rows, NEW y \in Columns, Known(x, y)'
                   PROVE  NoneLonger(x, y, s, dp'[x][y])
      BY <2>1, <2>2, SameLines, Zenon DEF EntriesLongest
    <3>2. /\ x \in Nat /\ y \in Nat /\ (x > Len(a) - s \/ y > Len(b) - s)
          /\ Len(a) \in Nat /\ Len(b) \in Nat /\ s \in Nat
      <4>1. x > Len(a) - s \/ (x = Len(a) - s /\ y > Len(b) - s)
        BY <2>1, <3>1 DEF Known
      <4>2. x \in Nat /\ y \in Nat
        BY <3>1, Places DEF Rows, Columns
      <4> QED
        BY <4>1, <4>2, Places
    <3>3. NoneLonger(x, y, s, 0)
      BY <3>2, NoneBeyond, Zenon
    <3> QED
      BY <2>3, <3>3
  <2> QED
    BY <2>4, <2>5, <2>6, <2>7 DEF TableRight
<1>3. CASE FillEntry
  BY <1>3, FillKeepsTable
<1>4. CASE NextRow \/ TableFilled
  <2>1. /\ pc = "fill" /\ UNCHANGED <<a, b, p, s, dp>>
        /\ TableTyped /\ EmptyEnds /\ EntriesFollow /\ EntriesLongest
    BY <1>4 DEF NextRow, TableFilled, TableRight
  <2>2. UNCHANGED <<Rows, Columns>>
    BY <2>1 DEF Rows, Columns
  <2>3. TableTyped' /\ EmptyEnds'
    BY <2>1, <2>2 DEF TableTyped, EmptyEnds
  <2>4. ASSUME NEW x \in Rows, NEW y \in Columns, Known(x, y)'
        PROVE  Known(x, y) \/ (x \in Rows /\ y = Len(b) - s + 1)
    <3>1. CASE NextRow
      <4>1. pc' = "fill" /\ i' = i - 1 /\ j' = Len(b) - s /\ j = p
        BY <3>1, <2>1 DEF NextRow
      <4>2. x > i - 1 \/ (x = i - 1 /\ y > Len(b) - s)
        BY <2>4, <4>1, Zenon DEF Known
      <4>3. x \in Nat /\ y \in Nat /\ y > p /\ y <= Len(b) - s + 1
        BY <2>4, Places DEF Rows, Columns
      <4>4. x > i \/ (x = i /\ y > j) \/ y = Len(b) - s + 1
        BY <4>1, <4>2, <4>3, Places
      <4> QED
        BY <2>4, <4>4, Zenon DEF Known
    <3>2. CASE TableFilled
      <4>1. i = p
        BY <3>2 DEF TableFilled
      <4> QED
        BY <2>1, <2>4, <4>1, Places DEF Known, Rows, Columns
    <3> QED
      BY <1>4, <3>1, <3>2
  <2>5. EntriesFollow'
    <3>1. SUFFICES ASSUME NEW x \in p + 1 .. Len(a) - s, NEW y \in p + 1 .. Len(b) - s, Known(x, y)'
                   PROVE  dp[x][y] = IF a[x] = b[y] THEN dp[x + 1][y + 1] + 1
                                     ELSE Larger(dp[x + 1][y], dp[x][y + 1])
      BY <2>1 DEF EntriesFollow
    <3>2. x \in Rows /\ y \in Columns /\ y # Len(b) - s + 1
      BY <2>1, Entries, Places
    <3>3. Known(x, y)
      BY <2>4, <3>1, <3>2
    <3> QED
      BY <2>1, <3>3 DEF EntriesFollow
  <2>6. EntriesLongest'
    <3>1. SUFFICES ASSUME NEW x \in Rows, NEW y \in Columns, Known(x, y)'
                   PROVE  NoneLonger(x, y, s, dp[x][y])
      BY <2>1, <2>2, SameLines, Zenon DEF EntriesLongest
    <3>2. CASE Known(x, y)
      BY <2>1, <3>2 DEF EntriesLongest
    <3>3. CASE y = Len(b) - s + 1
      <4>1. /\ x \in Nat /\ y \in Nat /\ y > Len(b) - s
            /\ Len(a) \in Nat /\ Len(b) \in Nat /\ s \in Nat
        BY <3>3, Places DEF Rows, Columns
      <4>2. NoneLonger(x, y, s, 0)
        BY <4>1, NoneBeyond, Zenon
      <4>3. dp[x][y] = 0
        BY <2>1, <3>3 DEF EmptyEnds
      <4> QED
        BY <4>2, <4>3
    <3> QED
      BY <2>4, <3>1, <3>2, <3>3
  <2> QED
    BY <2>3, <2>5, <2>6 DEF TableRight
<1>5. CASE KeepLine \/ DeleteLine \/ InsertLine \/ Aligned \/ SkipLine \/ Hunk \/ UNCHANGED vars
  <2>1. /\ UNCHANGED <<a, b, p, s, dp>>
        /\ \/ pc \in {"align", "render"} /\ pc' \in {"align", "render"}
           \/ UNCHANGED <<pc, i, j>>
    BY <1>5 DEF KeepLine, DeleteLine, InsertLine, Aligned, SkipLine, Hunk, vars
  <2>2. /\ UNCHANGED <<Rows, Columns>>
        /\ \A x, y : pc \in {"fill", "align", "render"} => (Known(x, y)' <=> Known(x, y))
    BY <2>1 DEF Rows, Columns, Known
  <2>3. pc' \in {"fill", "align", "render"} => pc \in {"fill", "align", "render"}
    BY <2>1
  <2>4. ASSUME pc \in {"fill", "align", "render"}
        PROVE  TableTyped' /\ EmptyEnds' /\ EntriesFollow' /\ EntriesLongest'
    <3>1. TableTyped /\ EmptyEnds /\ EntriesFollow /\ EntriesLongest
      BY <2>4 DEF TableRight
    <3>2. TableTyped' /\ EmptyEnds'
      BY <2>1, <2>2, <3>1 DEF TableTyped, EmptyEnds
    <3>3. EntriesFollow'
      BY <2>1, <2>2, <2>4, <3>1 DEF EntriesFollow
    <3>4. EntriesLongest'
      <4>1. SUFFICES ASSUME NEW x \in Rows, NEW y \in Columns, Known(x, y)'
                     PROVE  NoneLonger(x, y, s, dp[x][y])
        BY <2>1, <2>2, SameLines, Zenon DEF EntriesLongest
      <4> QED
        BY <2>2, <2>4, <3>1, <4>1 DEF EntriesLongest
    <3> QED
      BY <3>2, <3>3, <3>4
  <2> QED
    BY <2>3, <2>4 DEF TableRight
<1> QED
  BY <1>1, <1>2, <1>3, <1>4, <1>5 DEF Next

LEMMA NextWalked ==
  ASSUME TypeOK, InStep, TableRight, Walked, [Next]_vars
  PROVE  Walked'
<1> USE DEF input, ends, place, rendering
<1> DEFINE total == Promise
           AtFirst(x, y, n) == x <= p /\ y = x /\ n = x - 1
           Between(x, y, n) == x \in Rows /\ y \in Columns /\ n + dp[x][y] = total
           AtLast(x, y, n) ==
             /\ x \in Len(a) - s + 1 .. Len(a) + 1 /\ Len(a) - x = Len(b) - y
             /\ n = total + x - (Len(a) - s + 1)
           Walk(x, y, n) == AtFirst(x, y, n) \/ Between(x, y, n) \/ AtLast(x, y, n)
<1>0. /\ Len(a) \in Nat /\ Len(b) \in Nat
      /\ p \in Nat /\ s \in Nat /\ p + s <= Len(a) /\ p + s <= Len(b)
      /\ i \in Nat /\ j \in Nat /\ Len(ops) \in Nat
  BY Places, Parts
<1>1. ASSUME pc = "align", pc' = "align", UNCHANGED <<a, b, p, s, dp>>, Walk(i', j', Kept')
      PROVE  Walked'
  BY <1>1 DEF Walked, Promise, Rows, Columns
<1>2. ASSUME pc = "align"
      PROVE  /\ TableTyped /\ EmptyEnds /\ EntriesFollow /\ Walk(i, j, Kept)
             /\ Kept = i + j - 2 - Len(ops) /\ Kept \in Int /\ total \in Nat
             /\ i > 0 /\ j > 0
  <2>1. TableTyped /\ EmptyEnds /\ EntriesFollow
    BY <1>2 DEF TableRight
  <2>2. total \in Nat
    BY <1>0, <2>1, Entries DEF Promise
  <2>3. Walk(i, j, Kept)
    BY <1>2 DEF Walked
  <2>4. Kept = i + j - 2 - Len(ops) /\ Kept \in Int
    BY <1>0, <1>2 DEF Kept, OldCount, NewCount
  <2>5. i > 0 /\ j > 0
    BY <1>2 DEF InStep
  <2> QED
    BY <2>1, <2>2, <2>3, <2>4, <2>5
<1>3. CASE KeepLine
  <2>1. /\ pc = "align" /\ pc' = "align" /\ UNCHANGED <<a, b, p, s, dp>>
        /\ i' = i + 1 /\ j' = j + 1 /\ Len(ops') = Len(ops) + 1
        /\ Matching \/ (~MoreOld /\ ~MoreNew /\ i <= Len(a))
    BY <1>3, <1>0 DEF KeepLine, TypeOK
  <2>2. Kept' = Kept + 1
    BY <1>0, <2>1 DEF Kept, OldCount, NewCount
  <2>3. Walk(i + 1, j + 1, Kept + 1)
    <3>1. CASE AtFirst(i, j, Kept)
      <4>1. CASE i + 1 <= p
        BY <1>0, <1>2, <2>1, <3>1, <4>1
      <4>2. CASE i = p
        <5>1. i + 1 = p + 1 /\ j + 1 = p + 1 /\ Kept + 1 = p
          BY <1>0, <3>1, <4>2
        <5>2. p + dp[p + 1][p + 1] = total /\ p + 1 \in Rows /\ p + 1 \in Columns
          BY <1>2, <2>1, Entries DEF Promise
        <5>3. Between(i + 1, j + 1, Kept + 1)
          BY <5>1, <5>2
        <5> QED
          BY <5>3
      <4> QED
        BY <1>0, <3>1, <4>1, <4>2
    <3>2. CASE Between(i, j, Kept)
      <4>1. CASE Matching
        <5>1. i \in p + 1 .. Len(a) - s /\ j \in p + 1 .. Len(b) - s /\ a[i] = b[j]
          BY <1>0, <3>2, <4>1 DEF Matching, MoreOld, MoreNew, Rows, Columns
        <5>2. dp[i][j] = dp[i + 1][j + 1] + 1
          BY <1>2, <2>1, <5>1 DEF EntriesFollow, Known
        <5>3. i + 1 \in Rows /\ j + 1 \in Columns /\ dp[i + 1][j + 1] \in Nat
          BY <1>2, <2>1, <5>1, Entries
        <5>4. Between(i + 1, j + 1, Kept + 1)
          <6>1. Kept + dp[i][j] = total /\ Kept \in Int /\ total \in Nat
            BY <1>2, <2>1, <3>2
          <6>2. Kept + 1 + dp[i + 1][j + 1] = total
            BY <5>2, <5>3, <6>1
          <6> QED
            BY <5>3, <6>2
        <5> QED
          BY <5>4
      <4>2. CASE ~Matching
        <5>1. i = Len(a) - s + 1 /\ j = Len(b) - s + 1 /\ i <= Len(a)
          BY <1>0, <2>1, <3>2, <4>2 DEF MoreOld, MoreNew, Rows, Columns
        <5>2. dp[i][j] = 0
          BY <1>2, <2>1, <3>2, <5>1 DEF EmptyEnds
        <5>3. Kept = total
          BY <1>2, <2>1, <3>2, <5>2
        <5> HIDE DEF total
        <5> QED
          BY <1>0, <1>2, <2>1, <5>1, <5>3
      <4> QED
        BY <4>1, <4>2
    <3>3. CASE AtLast(i, j, Kept)
      <4>1. i <= Len(a)
        BY <1>0, <2>1, <3>3 DEF Matching, MoreOld
      <4> HIDE DEF total
      <4> QED
        BY <1>0, <1>2, <2>1, <3>3, <4>1
    <3> HIDE DEF AtFirst, Between, AtLast
    <3> QED
      BY <1>2, <2>1, <3>1, <3>2, <3>3
  <2> HIDE DEF Walk
  <2> QED
    BY <1>1, <2>1, <2>2, <2>3
<1>4. CASE DeleteLine
  <2>1. /\ pc = "align" /\ pc' = "align" /\ UNCHANGED <<a, b, p, s, dp>>
        /\ i' = i + 1 /\ j' = j /\ Len(ops') = Len(ops) + 1
        /\ MoreOld /\ ~Matching /\ (MoreNew => dp[i + 1][j] >= dp[i][j + 1])
    BY <1>4, <1>0 DEF DeleteLine, TypeOK
  <2>2. Kept' = Kept
    BY <1>0, <2>1 DEF Kept, OldCount, NewCount
  <2>3. Between(i, j, Kept)
    <3>1. ~AtFirst(i, j, Kept)
      <4>1. SUFFICES ASSUME i <= p, j = i PROVE FALSE
        OBVIOUS
      <4>2. i \in 1 .. p /\ j <= Len(b) - s
        BY <1>0, <1>2, <2>1, <4>1
      <4>3. a[i] = b[j]
        BY <4>1, <4>2 DEF InStep, EqualEnds
      <4> QED
        BY <2>1, <4>2, <4>3 DEF Matching, MoreNew
    <3>2. ~AtLast(i, j, Kept)
      BY <1>0, <2>1 DEF MoreOld
    <3> HIDE DEF AtFirst, Between, AtLast
    <3> QED
      BY <1>2, <2>1, <3>1, <3>2
  <2>4. Between(i + 1, j, Kept)
    <3>1. i \in p + 1 .. Len(a) - s /\ i \in Rows /\ i + 1 \in Rows /\ j \in Columns
      BY <1>0, <2>1, <2>3 DEF MoreOld, Rows
    <3>2. CASE MoreNew
      <4>1. j \in p + 1 .. Len(b) - s /\ a[i] # b[j]
        BY <1>0, <2>1, <3>1, <3>2 DEF Matching, MoreNew, Columns
      <4>2. /\ dp[i][j] = Larger(dp[i + 1][j], dp[i][j + 1])
            /\ dp[i + 1][j] \in Nat /\ dp[i][j + 1] \in Nat
        <5>1. dp[i][j] = Larger(dp[i + 1][j], dp[i][j + 1])
          BY <1>2, <2>1, <3>1, <4>1 DEF EntriesFollow, Known
        <5> QED
          BY <1>2, <2>1, <3>1, <4>1, <5>1, Entries
      <4>3. dp[i][j] = dp[i + 1][j]
        BY <2>1, <3>2, <4>2 DEF Larger
      <4> QED
        BY <2>3, <3>1, <4>3
    <3>3. CASE ~MoreNew
      <4>1. j = Len(b) - s + 1
        BY <1>0, <3>1, <3>3 DEF MoreNew, Columns
      <4>2. dp[i][j] = 0 /\ dp[i + 1][j] = 0
        BY <1>2, <2>1, <3>1, <4>1 DEF EmptyEnds
      <4> QED
        BY <2>3, <3>1, <4>2
    <3> QED
      BY <3>2, <3>3
  <2>5. Walk(i', j', Kept')
    <3> HIDE DEF AtFirst, Between, AtLast
    <3> QED
      BY <2>1, <2>2, <2>4
  <2> HIDE DEF Walk
  <2> QED
    BY <1>1, <2>1, <2>5
<1>5. CASE InsertLine
  <2>1. /\ pc = "align" /\ pc' = "align" /\ UNCHANGED <<a, b, p, s, dp>>
        /\ i' = i /\ j' = j + 1 /\ Len(ops') = Len(ops) + 1
        /\ MoreNew /\ ~Matching /\ (MoreOld => dp[i + 1][j] < dp[i][j + 1])
    BY <1>5, <1>0 DEF InsertLine, TypeOK
  <2>2. Kept' = Kept
    BY <1>0, <2>1 DEF Kept, OldCount, NewCount
  <2>3. Between(i, j, Kept)
    <3>1. ~AtFirst(i, j, Kept)
      <4>1. SUFFICES ASSUME i <= p, j = i PROVE FALSE
        OBVIOUS
      <4>2. i \in 1 .. p /\ i <= Len(a) - s
        <5>1. i > 0
          BY <1>2, <2>1
        <5> QED
          BY <1>0, <4>1, <5>1
      <4>3. a[i] = b[j]
        BY <4>1, <4>2 DEF InStep, EqualEnds
      <4> QED
        BY <2>1, <4>2, <4>3 DEF Matching, MoreOld
    <3>2. ~AtLast(i, j, Kept)
      BY <1>0, <2>1 DEF MoreNew
    <3> HIDE DEF AtFirst, Between, AtLast
    <3> QED
      BY <1>2, <2>1, <3>1, <3>2
  <2>4. Between(i, j + 1, Kept)
    <3>1. j \in p + 1 .. Len(b) - s /\ j \in Columns /\ j + 1 \in Columns /\ i \in Rows
      BY <1>0, <2>1, <2>3 DEF MoreNew, Columns
    <3>2. CASE MoreOld
      <4>1. i \in p + 1 .. Len(a) - s /\ a[i] # b[j]
        BY <1>0, <2>1, <3>1, <3>2 DEF Matching, MoreOld, Rows
      <4>2. /\ dp[i][j] = Larger(dp[i + 1][j], dp[i][j + 1])
            /\ dp[i + 1][j] \in Nat /\ dp[i][j + 1] \in Nat
        <5>1. dp[i][j] = Larger(dp[i + 1][j], dp[i][j + 1])
          BY <1>2, <2>1, <3>1, <4>1 DEF EntriesFollow, Known
        <5> QED
          BY <1>2, <2>1, <3>1, <4>1, <5>1, Entries
      <4>3. dp[i][j] = dp[i][j + 1]
        BY <2>1, <3>2, <4>2 DEF Larger
      <4> QED
        BY <2>3, <3>1, <4>3
    <3>3. CASE ~MoreOld
      <4>1. i = Len(a) - s + 1
        BY <1>0, <3>1, <3>3 DEF MoreOld, Rows
      <4>2. dp[i][j] = 0 /\ dp[i][j + 1] = 0
        BY <1>2, <2>1, <3>1, <4>1 DEF EmptyEnds
      <4> QED
        BY <2>3, <3>1, <4>2
    <3> QED
      BY <3>2, <3>3
  <2>5. Walk(i', j', Kept')
    <3> HIDE DEF AtFirst, Between, AtLast
    <3> QED
      BY <2>1, <2>2, <2>4
  <2> HIDE DEF Walk
  <2> QED
    BY <1>1, <2>1, <2>5
<1>6. CASE TableFilled
  <2>1. /\ pc = "fill" /\ pc' = "align" /\ i' = 1 /\ j' = 1 /\ ops' = ops /\ ops = <<>>
        /\ UNCHANGED <<a, b, p, s, dp>>
    BY <1>6 DEF TableFilled, InStep
  <2>2. Kept' = 0
    <3>1. Len(ops') = 0 /\ OldCount' = 0 /\ NewCount' = 0
      BY <2>1 DEF OldCount, NewCount
    <3> QED
      BY <3>1 DEF Kept
  <2>3. CASE p = 0
    <3>1. 1 \in Rows /\ 1 \in Columns /\ Promise = dp[1][1] /\ dp[1][1] \in Nat
      <4>1. p + 1 \in Rows /\ p + 1 \in Columns /\ dp[p + 1][p + 1] \in Nat /\ p + 1 = 1
        BY <2>1, <2>3, Entries DEF TableRight
      <4> QED
        BY <2>3, <4>1 DEF Promise
    <3>2. 1 \in Rows' /\ 1 \in Columns' /\ Kept' + dp'[1][1] = Promise'
      BY <2>1, <2>2, <3>1 DEF Rows, Columns, Promise
    <3> QED
      BY <2>1, <3>2 DEF Walked
  <2>4. CASE p # 0
    BY <1>0, <2>1, <2>2, <2>4 DEF Walked
  <2> QED
    BY <2>3, <2>4
<1>7. CASE \/ Same \/ Start \/ MatchFirst \/ MatchLast \/ MakeTable \/ FillEntry \/ NextRow \/ Rendered
  <2>1. pc' \notin {"align", "render"}
    BY <1>7 DEF Same, Start, MatchFirst, MatchLast, MakeTable, FillEntry, NextRow, Rendered
  <2> QED
    BY <2>1 DEF Walked
<1>8. CASE Aligned \/ SkipLine \/ Hunk \/ UNCHANGED vars
  <2>1. /\ UNCHANGED <<a, b, p, s, dp, i, j, ops>>
        /\ pc' \in {"align", "render"} => pc \in {"align", "render"}
    BY <1>8 DEF Aligned, SkipLine, Hunk, vars
  <2>2. pc \in {"align", "render"} /\ pc' \in {"align", "render"} => Kept' = Kept
    BY <2>1 DEF Kept, OldCount, NewCount
  <2> QED
    BY <2>1, <2>2 DEF Walked, Promise, Rows, Columns
<1> QED
  BY <1>3, <1>4, <1>5, <1>6, <1>7, <1>8 DEF Next

(* A subsequence is given by the places of its lines.                       *)
LEMMA PlacesOfSubsequence ==
  ASSUME NEW v, v \in Seq(Line), NEW f \in Subsequences(v)
  PROVE  /\ Len(f) \in Nat
         /\ \E g \in [1 .. Len(f) -> 1 .. Len(v)] :
              Increasing(g, Len(f)) /\ \A n \in 1 .. Len(f) : f[n] = v[g[n]]
<1>1. DOMAIN v = 1 .. Len(v) /\ Len(v) \in Nat
  OBVIOUS
<1>2. PICK S \in SUBSET DOMAIN v :
        f = [n \in 1 .. Cardinality(S) |-> v[CHOOSE x \in S : Cardinality({y \in S : y <= x}) = n]]
  BY DEF Subsequences
<1> DEFINE l == Cardinality(S)
           Upto(x) == {y \in S : y <= x}
           Rank(x) == Cardinality(Upto(x))
           Nth(n) == CHOOSE x \in S : Rank(x) = n
<1>3. S \subseteq 1 .. Len(v) /\ IsFiniteSet(S) /\ l \in Nat
  <2>1. S \subseteq 1 .. Len(v) /\ IsFiniteSet(1 .. Len(v))
    BY <1>1, FS_Interval
  <2>2. IsFiniteSet(S)
    BY <2>1, FS_Subset
  <2> QED
    BY <2>1, <2>2, FS_CardinalityType
<1>4. f = [n \in 1 .. l |-> v[Nth(n)]]
  BY <1>2
<1>5. ASSUME NEW x \in S PROVE Rank(x) \in 1 .. l
  <2>1. Upto(x) \subseteq S /\ x \in Upto(x)
    BY <1>3
  <2>2. IsFiniteSet(Upto(x)) /\ Rank(x) <= l
    BY <1>3, <2>1, FS_Subset
  <2>3. Rank(x) \in Nat /\ Rank(x) # 0
    <3> HIDE DEF Upto
    <3> QED
      BY <2>1, <2>2, FS_CardinalityType, FS_EmptySet
  <2> HIDE DEF Rank
  <2> QED
    BY <1>3, <2>2, <2>3
<1>6. ASSUME NEW x \in S, NEW y \in S, x < y PROVE Rank(x) < Rank(y)
  <2>1. Upto(x) \subseteq Upto(y) /\ y \in Upto(y) /\ y \notin Upto(x) /\ Upto(y) \subseteq S
    BY <1>3, <1>6
  <2>2. IsFiniteSet(Upto(y)) /\ Upto(x) # Upto(y)
    BY <1>3, <2>1, FS_Subset
  <2>3. Rank(x) <= Rank(y) /\ Rank(x) # Rank(y)
    <3> HIDE DEF Upto
    <3> QED
      BY <2>1, <2>2, FS_Subset
  <2>4. Rank(x) \in 1 .. l /\ Rank(y) \in 1 .. l
    BY <1>5
  <2> HIDE DEF Rank
  <2> QED
    BY <1>3, <2>3, <2>4
<1> DEFINE rank == [x \in S |-> Rank(x)]
<1>7. rank \in Injection(S, 1 .. l)
  <2>1. ASSUME NEW x \in S, NEW y \in S, Rank(x) = Rank(y) PROVE x = y
    <3>1. x \in Int /\ y \in Int /\ Rank(x) \in Int /\ Rank(y) \in Int
      BY <1>3, <1>5
    <3>2. ~(x < y) /\ ~(y < x)
      <4> HIDE DEF Rank
      <4> QED
        BY <1>6, <2>1, <3>1
    <3> QED
      BY <3>1, <3>2
  <2> HIDE DEF Rank
  <2> QED
    BY <1>5, <2>1 DEF Injection, IsInjective
<1>8. rank \in Surjection(S, 1 .. l)
  <2>1. IsFiniteSet(1 .. l) /\ Cardinality(1 .. l) = l
    BY <1>3, FS_Interval
  <2> HIDE DEF rank
  <2> QED
    BY <1>3, <1>7, <2>1, FS_Injection
<1>9. \A n \in 1 .. l : Nth(n) \in S /\ Rank(Nth(n)) = n
  <2>1. ASSUME NEW n \in 1 .. l PROVE \E x \in S : Rank(x) = n
    <3>1. PICK x \in S : rank[x] = n
      BY <1>8 DEF Surjection
    <3> QED
      BY <3>1
  <2> HIDE DEF Rank
  <2> QED
    BY <2>1
<1> DEFINE g == [n \in 1 .. l |-> Nth(n)]
<1> HIDE DEF Nth, Rank, l
<1>10. Len(f) = l /\ \A n \in 1 .. l : f[n] = v[Nth(n)]
  BY <1>3, <1>4
<1>11. g \in [1 .. l -> 1 .. Len(v)] /\ \A n \in 1 .. l : g[n] = Nth(n)
  BY <1>3, <1>9
<1>12. \A m, n \in 1 .. l : m < n => Nth(m) < Nth(n)
  <2>1. SUFFICES ASSUME NEW m \in 1 .. l, NEW n \in 1 .. l, m < n PROVE Nth(m) < Nth(n)
    OBVIOUS
  <2>2. /\ Nth(m) \in S /\ Nth(n) \in S /\ Rank(Nth(m)) = m /\ Rank(Nth(n)) = n
        /\ Nth(m) \in Int /\ Nth(n) \in Int /\ m \in Int /\ n \in Int
    BY <1>3, <1>9
  <2>3. Nth(m) # Nth(n)
    BY <2>1, <2>2
  <2>4. ~(Nth(n) < Nth(m))
    <3>1. ASSUME Nth(n) < Nth(m) PROVE FALSE
      <4>1. Rank(Nth(n)) < Rank(Nth(m))
        BY <1>6, <2>2, <3>1, Zenon
      <4> QED
        BY <2>1, <2>2, <4>1
    <3> QED
      BY <3>1
  <2> QED
    BY <2>2, <2>3, <2>4
<1> HIDE DEF g
<1>13. Increasing(g, l) /\ \A n \in 1 .. l : f[n] = v[g[n]]
  BY <1>10, <1>11, <1>12 DEF Increasing
<1> QED
  BY <1>3, <1>10, <1>11, <1>13

(* Every line of the two versions that is not kept is deleted or inserted.  *)
LEMMA ChangesCounted ==
  ASSUME TypeOK, Counted
  PROVE  /\ Cardinality({n \in DOMAIN ops : Changed(n)}) = Len(ops) - Kept
         /\ Kept \in Nat
<1> DEFINE C == {n \in DOMAIN ops : Changed(n)}
<1>1. Len(ops) \in Nat /\ DOMAIN ops = 1 .. Len(ops)
  BY Parts
<1>2. /\ OldOps \cup NewOps = 1 .. Len(ops) /\ C \cup (OldOps \cap NewOps) = 1 .. Len(ops)
      /\ C \cap (OldOps \cap NewOps) = {} /\ C \subseteq 1 .. Len(ops)
      /\ OldOps \cap (1 .. Len(ops)) = OldOps /\ NewOps \cap (1 .. Len(ops)) = NewOps
  <2>1. \A n \in DOMAIN ops : ops[n].tag \in {"=", "-", "+"}
    BY Parts
  <2> QED
    BY <1>1, <2>1 DEF OldOps, NewOps, Changed
<1>3. IsFiniteSet(1 .. Len(ops)) /\ Cardinality(1 .. Len(ops)) = Len(ops)
  <2>1. /\ IsFiniteSet(1 .. Len(ops))
        /\ Cardinality(1 .. Len(ops)) = IF 1 > Len(ops) THEN 0 ELSE Len(ops) - 1 + 1
    <3>1. 1 \in Int /\ Len(ops) \in Int
      BY <1>1
    <3> QED
      BY <3>1, FS_Interval, Zenon
  <2> QED
    BY <1>1, <2>1
<1>4. Cardinality(OldOps) = OldCount /\ Cardinality(NewOps) = NewCount
  <2>1. Len(ops) \in 0 .. Len(ops)
    BY <1>1
  <2>2. AOff(Len(ops)) = Cardinality(OldOps \cap (1 .. Len(ops))) /\ BOff(Len(ops)) = Cardinality(NewOps \cap (1 .. Len(ops)))
    BY <2>1, Offsets, Zenon
  <2> QED
    BY <1>2, <2>2 DEF Counted
<1> HIDE DEF C
<1> DEFINE K == OldOps \cap NewOps
<1>5. /\ IsFiniteSet(OldOps) /\ IsFiniteSet(NewOps) /\ IsFiniteSet(C) /\ IsFiniteSet(K)
  <2>1. /\ OldOps \subseteq 1 .. Len(ops) /\ NewOps \subseteq 1 .. Len(ops)
        /\ C \subseteq 1 .. Len(ops) /\ K \subseteq 1 .. Len(ops)
    BY <1>2
  <2> QED
    BY <1>3, <2>1, FS_Subset, Zenon
<1>6. /\ Cardinality(OldOps) \in Nat /\ Cardinality(NewOps) \in Nat
      /\ Cardinality(C) \in Nat /\ Cardinality(K) \in Nat
  BY <1>5, FS_CardinalityType, Zenon
<1>7. Len(ops) = OldCount + NewCount - Cardinality(K)
  <2>1. Cardinality(OldOps \cup NewOps) = Cardinality(OldOps) + Cardinality(NewOps) - Cardinality(OldOps \cap NewOps)
    BY <1>5, FS_Union, Zenon
  <2> QED
    BY <1>2, <1>3, <1>4, <2>1
<1>8. Len(ops) = Cardinality(C) + Cardinality(K)
  <2>1. Cardinality(C \cup K) = Cardinality(C) + Cardinality(K) - Cardinality(C \cap K)
    BY <1>5, FS_Union, Zenon
  <2>2. Cardinality(C \cap K) = 0
    BY <1>2, FS_EmptySet
  <2>3. Cardinality(C \cup K) = Len(ops)
    BY <1>2, <1>3
  <2>4. Cardinality(C) \in Nat /\ Cardinality(K) \in Nat
    BY <1>6
  <2> HIDE DEF K
  <2> QED
    BY <2>1, <2>2, <2>3, <2>4
<1>9. OldCount \in Nat /\ NewCount \in Nat
  BY <1>4, <1>6
<1> HIDE DEF K
<1>10. Kept = Cardinality(K) /\ Cardinality(C) = Len(ops) - Kept
  <2>1. Cardinality(C) \in Nat /\ Cardinality(K) \in Nat
    BY <1>6 DEF K
  <2>2. Len(ops) = OldCount + NewCount - Cardinality(K)
    BY <1>7 DEF K
  <2>3. Len(ops) = Cardinality(C) + Cardinality(K)
    BY <1>8 DEF K
  <2> DEFINE c == Cardinality(C)
             d == Cardinality(K)
  <2>4. c \in Nat /\ d \in Nat /\ Len(ops) = OldCount + NewCount - d /\ Len(ops) = c + d
    BY <2>1, <2>2, <2>3
  <2> HIDE DEF OldCount, NewCount, c, d
  <2>5. Kept = d /\ c = Len(ops) - Kept
    BY <1>9, <2>4 DEF Kept
  <2> QED
    BY <2>5 DEF c, d
<1> QED
  BY <1>6, <1>10 DEF C

LEMMA WalkIsShortest ==
  ASSUME TypeOK, InStep, Counted, TableRight, EndsLossless, Walked
  PROVE  LeastChange
<1>1. SUFFICES ASSUME pc = "render", NEW f \in Subsequences(a) \cap Subsequences(b)
               PROVE  Cardinality({n \in DOMAIN ops : Changed(n)}) <= Len(a) + Len(b) - 2 * Len(f)
  BY DEF LeastChange
<1>2. /\ Len(a) \in Nat /\ Len(b) \in Nat /\ p \in Nat /\ s \in Nat
      /\ p + s <= Len(a) /\ p + s <= Len(b) /\ a \in Seq(Line) /\ b \in Seq(Line)
  BY Places DEF TypeOK
<1>3. /\ OldCount = Len(a) /\ NewCount = Len(b) /\ i = Len(a) + 1 /\ j = Len(b) + 1
  <2>1. /\ i > Len(a) /\ j > Len(b)
        /\ \/ i <= Len(a) - s + 1 /\ j <= Len(b) - s + 1
           \/ i <= Len(a) + 1 /\ Len(a) - i = Len(b) - j
    BY <1>1 DEF InStep
  <2>2. i = Len(a) + 1 /\ j = Len(b) + 1
    BY <2>1, Places
  <2> QED
    BY <1>1, <1>2, <2>2 DEF OldCount, NewCount
<1>4. /\ dp[p + 1][p + 1] \in Nat
      /\ NoneLonger(p + 1, p + 1, s, dp[p + 1][p + 1])
  <2>1. TableTyped /\ EntriesLongest
    BY <1>1 DEF TableRight
  <2>2. p + 1 \in Rows /\ p + 1 \in Columns /\ dp[p + 1][p + 1] \in Nat
    BY <2>1, Entries
  <2> QED
    BY <1>1, <2>1, <2>2 DEF EntriesLongest, Known
<1>5. Kept = dp[p + 1][p + 1] + p + s
  <2>1. \/ i <= p /\ j = i /\ Kept = i - 1
        \/ i \in Rows /\ j \in Columns /\ Kept + dp[i][j] = Promise
        \/ /\ i \in Len(a) - s + 1 .. Len(a) + 1 /\ Len(a) - i = Len(b) - j
           /\ Kept = Promise + i - (Len(a) - s + 1)
    BY <1>1 DEF Walked
  <2>2. Kept \in Int
    BY <1>2, <1>3, Parts DEF Kept
  <2>3. CASE i \in Rows /\ j \in Columns /\ Kept + dp[i][j] = Promise
    <3>1. s = 0 /\ i = Len(a) - s + 1
      BY <1>2, <1>3, <2>3 DEF Rows
    <3>2. dp[i][j] = 0
      BY <1>1, <2>3, <3>1 DEF TableRight, EmptyEnds
    <3> QED
      BY <1>2, <1>4, <2>2, <2>3, <3>1, <3>2 DEF Promise
  <2> QED
    BY <1>2, <1>3, <1>4, <2>1, <2>2, <2>3 DEF Promise
<1>6. NoneLonger(1, 1, 0, Kept)
  BY <1>4, <1>5 DEF EndsLossless
<1>7. Len(f) <= Kept
  <2>1. PICK g \in [1 .. Len(f) -> 1 .. Len(a)] :
          Increasing(g, Len(f)) /\ \A n \in 1 .. Len(f) : f[n] = a[g[n]]
    BY <1>2, PlacesOfSubsequence
  <2>2. PICK h \in [1 .. Len(f) -> 1 .. Len(b)] :
          Increasing(h, Len(f)) /\ \A n \in 1 .. Len(f) : f[n] = b[h[n]]
    BY <1>2, PlacesOfSubsequence
  <2>3. Len(f) \in Nat
    BY <1>2, PlacesOfSubsequence
  <2>4. Common(g, h, Len(f))
    BY <2>1, <2>2 DEF Common
  <2>5. Len(a) - 0 = Len(a) /\ Len(b) - 0 = Len(b)
    BY <1>2
  <2> QED
    BY <1>6, <2>3, <2>4, <2>5 DEF NoneLonger
<1>8. Len(f) \in Nat /\ Len(ops) \in Nat
  BY <1>2, PlacesOfSubsequence, Parts
<1>9. Len(ops) = Len(a) + Len(b) - Kept /\ Kept \in Nat
  BY <1>2, <1>3, <1>8, ChangesCounted DEF Kept
<1>10. Cardinality({n \in DOMAIN ops : Changed(n)}) = Len(ops) - Kept
  BY ChangesCounted
<1> QED
  BY <1>2, <1>7, <1>8, <1>9, <1>10

(* Whatever the versions, the diff is a shortest one (diffLines, "aligned   *)
(* optimally"): the table holds the length of a longest common subsequence, *)
(* the walk keeps as many lines, and matching the common first and last     *)
(* lines before the search loses nothing.                                   *)
THEOREM DiffIsShortest == Spec => []LeastChange
<1> DEFINE Inv == /\ TypeOK /\ InStep /\ Counted
                  /\ EndsLossless /\ TableRight /\ Walked
<1>1. Init => Inv
  <2>1. Init => pc = "start" /\ p = 0 /\ s = 0
    BY DEF Init
  <2>2. Init => EndsLossless
    <3>1. ASSUME p = 0, s = 0, NEW max \in Nat, NoneLonger(p + 1, p + 1, s, max)
          PROVE  NoneLonger(1, 1, 0, max + p + s)
      <4>1. p + 1 = 1 /\ max + p + s = max
        BY <3>1
      <4> QED
        BY <3>1, <4>1
    <3> QED
      BY <2>1, <3>1 DEF EndsLossless
  <2>3. Init => TableRight /\ Walked
    BY <2>1 DEF TableRight, Walked
  <2> QED
    BY <2>2, <2>3, InitTyped, InitCounted
<1>2. Inv /\ [Next]_vars => Inv'
  <2>1. TypeOK /\ InStep /\ [Next]_vars => TypeOK' /\ InStep'
    BY NextTyped, NextInStep
  <2>2. Inv /\ [Next]_vars => Counted'
    BY NextCounted
  <2>3. Inv /\ [Next]_vars => EndsLossless'
    BY NextLossless
  <2>4. Inv /\ [Next]_vars => TableRight'
    BY NextTable
  <2>5. Inv /\ [Next]_vars => Walked'
    BY NextWalked
  <2> QED
    BY <2>1, <2>2, <2>3, <2>4, <2>5
<1>3. Inv => LeastChange
  BY WalkIsShortest
<1> QED
  BY <1>1, <1>2, <1>3, PTL DEF Spec
=============================================================================
