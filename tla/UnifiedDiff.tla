---------------------------- MODULE UnifiedDiff ----------------------------
(***************************************************************************)
(* The unified diff that -diff shows (internal/runner/diff.go): the lines  *)
(* of two versions of a file are aligned, and the alignment is cut into    *)
(* hunks with Context lines of context.                                    *)
(*                                                                         *)
(* A line is a value; lines with and without the final newline are         *)
(* different values. Positions count from 1, so that the position of an    *)
(* operation or a line here is the index of the code plus one.             *)
(***************************************************************************)
EXTENDS Integers, Sequences, FiniteSets

CONSTANTS
  Context,     (* diffContext                                              *)
  Line,        (* the lines                                                *)
  Versions     (* the pairs <<a, b>> of contents, sequences of lines       *)

ASSUME DiffAssumption ==
  /\ Context \in Nat
  /\ Versions \subseteq Seq(Line) \X Seq(Line)

VARIABLES
  a, b,        (* the two versions                                         *)
  p, s,        (* how many first and last lines they have in common        *)
  dp,          (* dp[i][j]: the length of a longest common subsequence of  *)
               (* the lines from a[i] and b[j] on, but for the last s      *)
  i, j,        (* the entry to compute, then the next lines to align       *)
  ops,         (* the alignment so far: a sequence of [tag, ai, bi]        *)
  k,           (* the next operation to render                             *)
  hunks,       (* the hunks rendered: the operations [lo, hi] of each      *)
  pc
vars == <<a, b, p, s, dp, i, j, ops, k, hunks, pc>>
input == <<a, b>>
ends == <<p, s>>
place == <<i, j>>
rendering == <<k, hunks>>

Larger(m, n) == IF m > n THEN m ELSE n
Smaller(m, n) == IF m < n THEN m ELSE n

-----------------------------------------------------------------------------
(* The alignment. Common first lines are matched, then common last lines    *)
(* among the others, then the lines in between.                             *)

Init ==
  /\ \E v \in Versions : a = v[1] /\ b = v[2]
  /\ p = 0 /\ s = 0 /\ dp = <<>> /\ i = 1 /\ j = 1
  /\ ops = <<>> /\ k = 1 /\ hunks = <<>> /\ pc = "start"

(* Equal contents have an empty diff.                                       *)
Same ==
  /\ pc = "start" /\ a = b
  /\ pc' = "done"
  /\ UNCHANGED <<input, ends, dp, place, ops, rendering>>

Start ==
  /\ pc = "start" /\ a # b
  /\ pc' = "first"
  /\ UNCHANGED <<input, ends, dp, place, ops, rendering>>

CommonFirst == p < Len(a) /\ p < Len(b) /\ a[p + 1] = b[p + 1]
CommonLast == s < Len(a) - p /\ s < Len(b) - p /\ a[Len(a) - s] = b[Len(b) - s]

MatchFirst ==
  /\ pc = "first"
  /\ IF CommonFirst THEN p' = p + 1 /\ pc' = pc ELSE p' = p /\ pc' = "last"
  /\ UNCHANGED <<input, s, dp, place, ops, rendering>>

MatchLast ==
  /\ pc = "last" /\ CommonLast
  /\ s' = s + 1
  /\ UNCHANGED <<input, p, dp, place, ops, rendering, pc>>

(* The lines between the common ends, and the end of each.                  *)
Rows == p + 1 .. Len(a) - s + 1
Columns == p + 1 .. Len(b) - s + 1

MakeTable ==
  /\ pc = "last" /\ ~CommonLast
  /\ dp' = [x \in Rows |-> [y \in Columns |-> 0]]
  /\ i' = Len(a) - s /\ j' = Len(b) - s
  /\ pc' = "fill"
  /\ UNCHANGED <<input, ends, ops, rendering>>

(* A slip: the length is carried on along one side only.                    *)
EntryOfDeletions == IF a[i] = b[j] THEN dp[i + 1][j + 1] + 1 ELSE dp[i + 1][j]

Entry == IF a[i] = b[j] THEN dp[i + 1][j + 1] + 1 ELSE Larger(dp[i + 1][j], dp[i][j + 1])

FillEntry ==
  /\ pc = "fill" /\ i > p /\ j > p
  /\ dp' = [dp EXCEPT ![i][j] = Entry]
  /\ j' = j - 1
  /\ UNCHANGED <<input, ends, i, ops, rendering, pc>>

NextRow ==
  /\ pc = "fill" /\ i > p /\ j = p
  /\ i' = i - 1 /\ j' = Len(b) - s
  /\ UNCHANGED <<input, ends, dp, ops, rendering, pc>>

TableFilled ==
  /\ pc = "fill" /\ i = p
  /\ i' = 1 /\ j' = 1 /\ pc' = "align"
  /\ UNCHANGED <<input, ends, dp, ops, rendering>>

(* There are lines left before the common last ones.                        *)
MoreOld == i <= Len(a) - s
MoreNew == j <= Len(b) - s
Matching == MoreOld /\ MoreNew /\ a[i] = b[j]

KeepLine ==
  /\ pc = "align"
  /\ \/ Matching
     \/ ~MoreOld /\ ~MoreNew /\ i <= Len(a)
  /\ ops' = Append(ops, [tag |-> "=", ai |-> i, bi |-> j])
  /\ i' = i + 1 /\ j' = j + 1
  /\ UNCHANGED <<input, ends, dp, rendering, pc>>

(* Where two alignments are equally good, the old line is deleted first.    *)
DeleteLine ==
  /\ pc = "align" /\ MoreOld /\ ~Matching
  /\ MoreNew => dp[i + 1][j] >= dp[i][j + 1]
  /\ ops' = Append(ops, [tag |-> "-", ai |-> i, bi |-> 0])
  /\ i' = i + 1
  /\ UNCHANGED <<input, ends, dp, j, rendering, pc>>

(* A slip: the inserted line takes an old one with it.                      *)
InsertLineForOld ==
  /\ pc = "align" /\ MoreNew /\ ~Matching
  /\ MoreOld => dp[i + 1][j] < dp[i][j + 1]
  /\ ops' = Append(ops, [tag |-> "+", ai |-> 0, bi |-> j])
  /\ i' = i + 1 /\ j' = j + 1
  /\ UNCHANGED <<input, ends, dp, rendering, pc>>

InsertLine ==
  /\ pc = "align" /\ MoreNew /\ ~Matching
  /\ MoreOld => dp[i + 1][j] < dp[i][j + 1]
  /\ ops' = Append(ops, [tag |-> "+", ai |-> 0, bi |-> j])
  /\ j' = j + 1
  /\ UNCHANGED <<input, ends, dp, i, rendering, pc>>

Aligned ==
  /\ pc = "align" /\ ~MoreOld /\ ~MoreNew /\ i > Len(a)
  /\ pc' = "render"
  /\ UNCHANGED <<input, ends, dp, place, ops, rendering>>

-----------------------------------------------------------------------------
(* The hunks.                                                               *)

Changed(n) == ops[n].tag # "="

(* A slip: groups as soon as Context operations lie between them.          *)
GroupEndsEarly(last) ==
  /\ Changed(last)
  /\ \A n \in DOMAIN ops : n \in last + 1 .. last + Context + 1 => ~Changed(n)
  /\ \A m \in k .. last - 1 : Changed(m) =>
       \E n \in m + 1 .. last : Changed(n) /\ n - m <= Context + 1

(* The group of changes that begins at k ends at last: no change follows    *)
(* within 2 * Context + 1 operations, and none that far apart lie within.   *)
GroupEnds(last) ==
  /\ Changed(last)
  /\ \A n \in DOMAIN ops : n \in last + 1 .. last + 2 * Context + 1 => ~Changed(n)
  /\ \A m \in k .. last - 1 : Changed(m) =>
       \E n \in m + 1 .. last : Changed(n) /\ n - m <= 2 * Context + 1

(* The lines of a (of b) that the first n operations consume.               *)
AOff(n) == Cardinality({m \in 1 .. n : ops[m].tag # "+"})
BOff(n) == Cardinality({m \in 1 .. n : ops[m].tag # "-"})

(* A slip: an empty side names the line after it.                           *)
HeaderOfNextLine(h) ==
  [aStart |-> AOff(h.lo - 1) + 1, aCount |-> AOff(h.hi) - AOff(h.lo - 1),
   bStart |-> BOff(h.lo - 1) + 1, bCount |-> BOff(h.hi) - BOff(h.lo - 1)]

(* The numbers of a hunk's @@ line: an empty side names the line before it. *)
Header(h) ==
  LET aCount == AOff(h.hi) - AOff(h.lo - 1)
      bCount == BOff(h.hi) - BOff(h.lo - 1)
  IN  [aStart |-> IF aCount = 0 THEN AOff(h.lo - 1) ELSE AOff(h.lo - 1) + 1,
       aCount |-> aCount,
       bStart |-> IF bCount = 0 THEN BOff(h.lo - 1) ELSE BOff(h.lo - 1) + 1,
       bCount |-> bCount]

(* Its lines, each with its prefix, by the operations they come from.       *)
Body(h) ==
  [n \in h.lo .. h.hi |->
     [prefix |-> ops[n].tag, line |-> IF ops[n].tag = "+" THEN b[ops[n].bi] ELSE a[ops[n].ai]]]

-----------------------------------------------------------------------------
SkipLine ==
  /\ pc = "render" /\ k \in DOMAIN ops /\ ~Changed(k)
  /\ k' = k + 1
  /\ UNCHANGED <<input, ends, dp, place, ops, hunks, pc>>

Hunk ==
  /\ pc = "render" /\ k \in DOMAIN ops /\ Changed(k)
  /\ \E last \in k .. Len(ops) :
       /\ GroupEnds(last)
       /\ LET hi == Smaller(last + Context, Len(ops))
          IN  /\ hunks' = Append(hunks, [lo |-> Larger(k - Context, 1), hi |-> hi])
              /\ k' = hi + 1
  /\ UNCHANGED <<input, ends, dp, place, ops, pc>>

Rendered ==
  /\ pc = "render" /\ k > Len(ops)
  /\ pc' = "done"
  /\ UNCHANGED <<input, ends, dp, place, ops, rendering>>

Next ==
  \/ Same \/ Start \/ MatchFirst \/ MatchLast \/ MakeTable \/ FillEntry \/ NextRow \/ TableFilled
  \/ KeepLine \/ DeleteLine \/ InsertLine \/ Aligned \/ SkipLine \/ Hunk \/ Rendered

Spec == Init /\ [][Next]_vars

-----------------------------------------------------------------------------
(* What the alignment is, whatever the table says: every line of the old    *)
(* version is kept or deleted and every line of the new one kept or         *)
(* inserted, once and in order, and kept lines are equal (diffLines).       *)
EditScript ==
  LET OfOld == {n \in DOMAIN ops : ops[n].tag # "+"}
      OfNew == {n \in DOMAIN ops : ops[n].tag # "-"}
  IN  /\ \A n \in OfOld \cap OfNew : a[ops[n].ai] = b[ops[n].bi]
      /\ \A m, n \in OfOld : m < n => ops[m].ai < ops[n].ai
      /\ \A m, n \in OfNew : m < n => ops[m].bi < ops[n].bi
      /\ pc = "render" =>
           /\ {ops[n].ai : n \in OfOld} = 1 .. Len(a)
           /\ {ops[n].bi : n \in OfNew} = 1 .. Len(b)

(* The lines of a hunk's old (new) side up to the one of operation m.       *)
OldSide(body, m) == {n \in DOMAIN body : n <= m /\ body[n].prefix # "+"}
NewSide(body, m) == {n \in DOMAIN body : n <= m /\ body[n].prefix # "-"}

(* Where a side of a hunk begins, whatever its length.                      *)
From(start, count) == IF count = 0 THEN start + 1 ELSE start

(* The diff that -diff prints, applied by patch or git apply to the first   *)
(* version, gives the second one (unifiedDiff, "output that patch and git   *)
(* apply consume"): each hunk's numbers lead to exactly its old and new     *)
(* lines, and all that lies before, between and after the hunks is equal.   *)
DiffApplies ==
  pc = "done" =>
    LET h == [n \in DOMAIN hunks |-> Header(hunks[n])]
        OldFrom(n) == IF n > Len(hunks) THEN Len(a) + 1 ELSE From(h[n].aStart, h[n].aCount)
        NewFrom(n) == IF n > Len(hunks) THEN Len(b) + 1 ELSE From(h[n].bStart, h[n].bCount)
        OldEnd(n) == IF n = 0 THEN 0 ELSE OldFrom(n) + h[n].aCount - 1
        NewEnd(n) == IF n = 0 THEN 0 ELSE NewFrom(n) + h[n].bCount - 1
    IN  /\ \A n \in DOMAIN hunks :
             LET body == Body(hunks[n])
                 Old(m) == OldSide(body, m)
                 New(m) == NewSide(body, m)
             IN  /\ OldEnd(n) <= Len(a) /\ Cardinality(Old(hunks[n].hi)) = h[n].aCount
                 /\ NewEnd(n) <= Len(b) /\ Cardinality(New(hunks[n].hi)) = h[n].bCount
                 /\ \A m \in Old(hunks[n].hi) :
                      body[m].line = a[OldFrom(n) - 1 + Cardinality(Old(m))]
                 /\ \A m \in New(hunks[n].hi) :
                      body[m].line = b[NewFrom(n) - 1 + Cardinality(New(m))]
        /\ \A n \in 0 .. Len(hunks) :
             /\ OldFrom(n + 1) - OldEnd(n) = NewFrom(n + 1) - NewEnd(n)
             /\ \A m \in 1 .. OldFrom(n + 1) - OldEnd(n) - 1 : a[OldEnd(n) + m] = b[NewEnd(n) + m]

(* No two hunks touch or overlap: at least one unchanged line is left out   *)
(* between them (renderHunks, which merges groups "while the run of equal   *)
(* lines between them is short enough that hunks would touch").             *)
HunksApart ==
  \A m, n \in DOMAIN hunks : m < n => hunks[m].hi + 1 < hunks[n].lo

Subsequences(f) ==
  {[n \in 1 .. Cardinality(S) |-> f[CHOOSE x \in S : Cardinality({y \in S : y <= x}) = n]] :
     S \in SUBSET DOMAIN f}

(* The diff deletes and inserts as few lines as any diff can: everything    *)
(* outside a longest common subsequence (diffLines, "aligned optimally"),   *)
(* although the common ends were matched before the search.                 *)
LeastChange ==
  pc = "render" =>
    \A f \in Subsequences(a) \cap Subsequences(b) :
      Cardinality({n \in DOMAIN ops : Changed(n)}) <= Len(a) + Len(b) - 2 * Len(f)
=============================================================================
