------------------------------ MODULE Baseline ------------------------------
(***************************************************************************)
(* The accepted-findings baseline of perfscan (internal/runner/baseline.go) *)
(* as pure operators: how a finding is identified, what -write-baseline    *)
(* puts in the file, and which findings -baseline suppresses.              *)
(*                                                                         *)
(* A path is a sequence of its elements. A finding is a record with fields *)
(* file (its absolute path), at (line and column), id (the check's) and    *)
(* msg. A module is [dir, path], as the package loader reports it.         *)
(***************************************************************************)
EXTENDS Integers, Sequences, FiniteSets, SequencesExt

CONSTANTS
  Anchor,   (* the directory that holds the baseline file *)
  NoName    (* the empty module path *)

\* path relative to dir. One that is not under dir gets a ../ path: as good a
\* name as the absolute one, which stands for it, and no name of a path under dir.
RelPath(path, dir) ==
  IF IsPrefix(dir, path)
  THEN [under |-> TRUE, name |-> SubSeq(path, Len(dir) + 1, Len(path))]
  ELSE [under |-> FALSE, name |-> path]

\* The path of the one module at dir, NoName when several share it.
ModulePath(dir, modules) ==
  LET paths == {m.path : m \in {n \in modules : n.dir = dir}}
  IN  IF \E p \in paths : paths = {p} THEN CHOOSE p \in paths : TRUE ELSE NoName

Enclosing(file, modules) == {m.dir : m \in {n \in modules : IsPrefix(n.dir, file)}}

\* Faulty variant: a containing module takes precedence over a nested one.
OutermostDir(dirs) == CHOOSE d \in dirs : \A e \in dirs : Len(d) <= Len(e)

\* Nested workspace modules take precedence over their containing module.
NearestDir(dirs) == CHOOSE d \in dirs : \A e \in dirs : Len(e) <= Len(d)

\* A finding's identity in a baseline of the given version, in a scan that
\* loaded these modules.
FindingKey(f, version, modules) ==
  LET dirs == Enclosing(f.file, modules)
      near == NearestDir(dirs)
      owned == version >= 2 /\ dirs # {} /\ ModulePath(near, modules) # NoName
  IN  [module |-> IF owned THEN ModulePath(near, modules) ELSE NoName,
       file   |-> RelPath(f.file, IF owned THEN near ELSE Anchor),
       id     |-> f.id,
       msg    |-> f.msg]

\* The entries that accept the findings: a count per identity. The code writes
\* them as a list, sorted by identity, in which no identity comes twice.
AcceptedEntries(found, version, modules) ==
  LET Key(f) == FindingKey(f, version, modules)
  IN  [k \in {Key(f) : f \in found} |-> Cardinality({f \in found : Key(f) = k})]

\* How many findings with identity k the entries of a baseline file cover.
Budget(k, entries) == IF k \in DOMAIN entries THEN entries[k] ELSE 0

\* Findings are looked at by position, f no later than g.
NotAfter(f, g) == f.file = g.file /\ f.at <= g.at

\* Faulty variant: a covered identity covers any number of findings.
SurvivorsOfIdentity(found, version, entries, modules) ==
  {f \in found : Budget(FindingKey(f, version, modules), entries) = 0}

\* The findings left once each entry has suppressed the first count findings
\* of its identity: the loop of applyBaseline that consumes the budget.
Survivors(found, version, entries, modules) ==
  {f \in found :
     LET k == FindingKey(f, version, modules) IN
     Cardinality({g \in found : FindingKey(g, version, modules) = k /\ NotAfter(g, f)})
       > Budget(k, entries)}
=============================================================================
