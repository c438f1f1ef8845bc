---------------------------- MODULE MCTestRunner ----------------------------
(***************************************************************************)
(* Two packages, five tests and one test, two workers: more jobs than      *)
(* workers, uneven divisions, a shard with no test of a package.           *)
(***************************************************************************)
EXTENDS TestRunner

CONSTANTS w1, w2, a, b, c, d, e

TwoWorkers == {w1, w2}
Tests == <<<<a, b, c, d, e>>, <<a>>>>

\* Both packages have a test "a", on different shards.
Hashes == [t \in (1..2) \X {a, b, c, d, e} |->
             IF t[2] = a THEN t[1] ELSE IF t[2] \in {b, d} THEN 1 ELSE 4]

\* [count, index, max, goos]. Of three shards one has all tests of package 1,
\* one that of package 2, one has none.
Line(n, i, m, os) == [count |-> n, index |-> i, max |-> m, goos |-> os]
Lines ==
  {Line(1, 0, 5, "windows")}
    \cup {Line(2, i, 1, "linux") : i \in 0..1}
    \cup {Line(3, i, 2, "linux") : i \in 0..2}
=============================================================================
