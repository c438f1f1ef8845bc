---------------------------- MODULE TestDiscovery ----------------------------
(***************************************************************************)
(* testparallel's discovery of the tests of all packages                   *)
(* (internal/testparallel/discovery.go, discoverTests): a dispatcher hands *)
(* package indices over an unbuffered channel to a pool of workers, each   *)
(* lists one package at a time; the first failure, or an interrupt,        *)
(* cancels the rest, and nothing is published unless all went well.        *)
(***************************************************************************)
EXTENDS Integers, Sequences, FiniteSets

CONSTANTS
  Worker,   (* the workers: more of them than packages would only wait      *)
  N,        (* the number of packages                                       *)
  Listing   (* Listing[i]: the sorted test names of package i               *)
ASSUME PackagesCounted == N \in Nat
ASSUME WorkersAreThere == Worker # {} /\ IsFiniteSet(Worker)

Index == 1..N

\* parseTestNames sorts the names of a listing and drops the repeated ones.
ASSUME ListingsCompact ==
  \A i \in Index : LET names == Listing[i] IN
    /\ names \in Seq({names[k] : k \in DOMAIN names})
    /\ \A k, l \in DOMAIN names : names[k] = names[l] => k = l

VARIABLES
  next,         (* the index to hand out next                               *)
  at,           (* at[w]: where worker w is                                 *)
  item,         (* item[w]: the index it holds, or 0                        *)
  results, failures,
  canceled,     (* the discovery's own context: a failure or an interrupt   *)
  interrupted,  (* the caller's context                                     *)
  main          (* "dispatch", "wait", or the outcome, "ok" or "error"      *)
dvars == <<next, at, item, results, failures, canceled, interrupted, main>>

-----------------------------------------------------------------------------
DInit ==
  /\ next = 1
  /\ at = [w \in Worker |-> "idle"]
  /\ item = [w \in Worker |-> 0]
  /\ results = [i \in Index |-> <<>>]
  /\ failures = {}
  /\ canceled = FALSE
  /\ interrupted = FALSE
  /\ main = "dispatch"

\* A waiting worker receives the next index.
HandOut(w) ==
  /\ main = "dispatch" /\ next <= N /\ at[w] = "idle"
  /\ next' = next + 1
  /\ at' = [at EXCEPT ![w] = "received"]
  /\ item' = [item EXCEPT ![w] = next]
  /\ UNCHANGED <<results, failures, canceled, interrupted, main>>

\* All indices are handed out, or the context is done: the queue is closed.
CloseQueue ==
  /\ main = "dispatch"
  /\ next > N \/ canceled
  /\ main' = "wait"
  /\ UNCHANGED <<next, at, item, results, failures, canceled, interrupted>>

\* A worker that sees the context done stops, with its index unlisted.
CheckContext(w) ==
  /\ at[w] = "received"
  /\ at' = [at EXCEPT ![w] = IF canceled THEN "stopped" ELSE "listing"]
  /\ item' = [item EXCEPT ![w] = IF canceled THEN 0 ELSE @]
  /\ UNCHANGED <<next, results, failures, canceled, interrupted, main>>

ListSucceeds(w) ==
  /\ at[w] = "listing"
  /\ results' = [results EXCEPT ![item[w]] = Listing[item[w]]]
  /\ at' = [at EXCEPT ![w] = "idle"]
  /\ item' = [item EXCEPT ![w] = 0]
  /\ UNCHANGED <<next, failures, canceled, interrupted, main>>

\* Listing fails, or is cut short by the context.
ListFails(w) ==
  /\ at[w] = "listing"
  /\ failures' = failures \cup {item[w]}
  /\ canceled' = TRUE
  /\ at' = [at EXCEPT ![w] = "stopped"]
  /\ item' = [item EXCEPT ![w] = 0]
  /\ UNCHANGED <<next, results, interrupted, main>>

\* The closed queue ends a waiting worker.
QueueEnds(w) ==
  /\ main = "wait" /\ at[w] = "idle"
  /\ at' = [at EXCEPT ![w] = "stopped"]
  /\ UNCHANGED <<next, item, results, failures, canceled, interrupted, main>>

\* SIGINT: the caller's context is done, and with it the discovery's.
Interrupt ==
  /\ ~interrupted
  /\ interrupted' = TRUE
  /\ canceled' = TRUE
  /\ UNCHANGED <<next, at, item, results, failures, main>>

\* Faulty variant: the outcome is taken without waiting for the workers.
PublishEarly ==
  /\ main = "wait"
  /\ main' = IF failures = {} /\ ~canceled THEN "ok" ELSE "error"
  /\ UNCHANGED <<next, at, item, results, failures, canceled, interrupted>>

\* Every worker has stopped: the results, or every observed error.
Publish ==
  /\ main = "wait" /\ \A w \in Worker : at[w] = "stopped"
  /\ main' = IF failures = {} /\ ~canceled THEN "ok" ELSE "error"
  /\ UNCHANGED <<next, at, item, results, failures, canceled, interrupted>>

Work(w) == HandOut(w) \/ CheckContext(w) \/ ListSucceeds(w) \/ ListFails(w) \/ QueueEnds(w)
DNext == (\E w \in Worker : Work(w)) \/ CloseQueue \/ Interrupt \/ Publish
DSpec == DInit /\ [][DNext]_dvars

-----------------------------------------------------------------------------
(* Type invariant of the discovery.                                         *)
DTypeOK ==
  /\ next \in 1..N + 1
  /\ at \in [Worker -> {"idle", "received", "listing", "stopped"}]
  /\ item \in [Worker -> 0..N]
  /\ \A w \in Worker : at[w] \in {"received", "listing"} => item[w] \in Index
  /\ DOMAIN results = Index
  /\ failures \subseteq Index
  /\ canceled \in BOOLEAN /\ interrupted \in BOOLEAN
  /\ main \in {"dispatch", "wait", "ok", "error"}

(* "No results are published until every worker has stopped successfully"   *)
(* (discovery.go): a published inventory has the listing of every package   *)
(* at that package's index, whichever worker listed it and in which order,  *)
(* and no package cut short by a failure elsewhere passes for an empty one. *)
PublishedComplete ==
  main = "ok" => \A i \in Index : results[i] = Listing[i]
=============================================================================
