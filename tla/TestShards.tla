----------------------------- MODULE TestShards -----------------------------
(***************************************************************************)
(* How testparallel cuts the discovered tests into jobs                    *)
(* (internal/testparallel/main.go): a stable hash of package and test name *)
(* selects those of this external shard, round-robin groups of bounded     *)
(* size become the jobs.                                                   *)
(***************************************************************************)
EXTENDS Integers, Sequences, SequencesExt, FiniteSetsExt

CONSTANT Hash   (* Hash[i, name]: FNV-1a of the package's path and the name *)

\* The names of this shard, in their order.
SelectExternalShard(i, names, index, count) ==
  LET kept   == {k \in DOMAIN names : Hash[<<i, names[k]>>] % count = index}
      Nth(j) == CHOOSE k \in kept : Cardinality(kept \cap 1..k) = j
  IN  IF count = 1 THEN names ELSE [j \in 1..Cardinality(kept) |-> names[Nth(j)]]

\* Faulty variant: the remainder of an uneven division is dropped.
PartitionEvenly(names, workers) ==
  LET count == Min({workers, Len(names)})
  IN  [g \in 1..count |-> [k \in 1..(Len(names) \div count) |-> names[g + (k - 1) * count]]]

\* Faulty variant: more groups than names.
PartitionForEachWorker(names, workers) ==
  [g \in 1..workers |-> SelectSeq(names, LAMBDA n : \E k \in DOMAIN names :
                                              names[k] = n /\ (k - g) % workers = 0)]

\* Round-robin groups; group g holds every count-th name from the g-th on.
Partition(names, workers) ==
  LET count == Min({workers, Len(names)})
  IN  [g \in 1..count |-> [k \in 1..((Len(names) - g) \div count) + 1 |-> names[g + (k - 1) * count]]]

\* Faulty variant: rounds the number of jobs down.
JobsWantedRoundedDown(selected, workers, maxTestsPerJob) ==
  Max({workers, Len(selected) \div maxTestsPerJob})

JobsWanted(selected, workers, maxTestsPerJob) ==
  Max({workers, IF selected = <<>> THEN 0 ELSE 1 + (Len(selected) - 1) \div maxTestsPerJob})

\* The jobs of package i: [pkg, shard, names].
MakeTestJobs(i, names, workers, maxTestsPerJob, index, count) ==
  LET selected == SelectExternalShard(i, names, index, count)
      groups   == IF selected = <<>> THEN <<>>
                  ELSE Partition(selected, JobsWanted(selected, workers, maxTestsPerJob))
  IN  [g \in DOMAIN groups |-> [pkg |-> i, shard |-> g, names |-> groups[g]]]
=============================================================================
