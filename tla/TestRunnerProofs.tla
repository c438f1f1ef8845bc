-------------------------- MODULE TestRunnerProofs --------------------------
(***************************************************************************)
(* testparallel, for any number of packages, tests, workers and shards:    *)
(* the discovery publishes nothing partial, the cut into jobs loses and    *)
(* repeats no name, and a green run is one whose jobs all passed.          *)
(***************************************************************************)
EXTENDS TestRunner, FiniteSetTheorems, TLAPS

\* A function on the first n numbers is a sequence.
LEMMA ListOf ==
  ASSUME NEW S, NEW n \in Nat, NEW f \in [1..n -> S]
  PROVE  f \in Seq(S)
OBVIOUS

-----------------------------------------------------------------------------
(* The discovery                                                            *)

Holds(w, i) == at[w] \in {"received", "listing"} /\ item[w] = i

\* As long as nothing is canceled, every index handed out is listed or held.
NothingDropped ==
  ~canceled => \A i \in Index : i < next =>
                 results[i] = Listing[i] \/ \E w \in Worker : Holds(w, i)

\* The queue is closed early only when the context is done.
ClosedWhenEmpty == main # "dispatch" /\ ~canceled => next = N + 1

DiscoveryInv == DTypeOK /\ NothingDropped /\ ClosedWhenEmpty /\ PublishedComplete

-----------------------------------------------------------------------------
LEMMA InitDiscoveryInv == DInit => DiscoveryInv
<1> SUFFICES ASSUME DInit PROVE DiscoveryInv
  OBVIOUS
<1> USE PackagesCounted
<1>1. DTypeOK
  <2>1. next \in 1..N + 1 /\ item \in [Worker -> 0..N]
    BY DEF DInit
  <2>2. at \in [Worker -> {"idle", "received", "listing", "stopped"}]
    BY DEF DInit
  <2>3. \A w \in Worker : at[w] \notin {"received", "listing"}
    BY DEF DInit
  <2>4. DOMAIN results = Index
    BY DEF DInit
  <2> QED
    BY <2>1, <2>2, <2>3, <2>4 DEF DInit, DTypeOK
<1>2. NothingDropped
  BY DEF DInit, NothingDropped, Index
<1>3. ClosedWhenEmpty /\ PublishedComplete
  BY DEF DInit, ClosedWhenEmpty, PublishedComplete
<1> QED
  BY <1>1, <1>2, <1>3 DEF DiscoveryInv

\* Every step keeps the types.
LEMMA NextTypeOK == DTypeOK /\ [DNext]_dvars => DTypeOK'
<1> SUFFICES ASSUME DTypeOK, [DNext]_dvars PROVE DTypeOK'
  OBVIOUS
<1> USE PackagesCounted DEF DTypeOK, Index
<1>1. ASSUME NEW w \in Worker, HandOut(w) PROVE DTypeOK'
  BY <1>1 DEF HandOut
<1>2. ASSUME NEW w \in Worker, CheckContext(w) PROVE DTypeOK'
  BY <1>2 DEF CheckContext
<1>3. ASSUME NEW w \in Worker, ListSucceeds(w) PROVE DTypeOK'
  BY <1>3 DEF ListSucceeds
<1>4. ASSUME NEW w \in Worker, ListFails(w) PROVE DTypeOK'
  <2>1. item[w] \in Index
    BY <1>4 DEF ListFails
  <2>2. at' \in [Worker -> {"idle", "received", "listing", "stopped"}]
    BY <1>4 DEF ListFails
  <2>3. item' \in [Worker -> 0..N]
    BY <1>4 DEF ListFails
  <2>4. \A v \in Worker : at'[v] \in {"received", "listing"} => item'[v] \in Index
    BY <1>4 DEF ListFails
  <2> QED
    BY <1>4, <2>1, <2>2, <2>3, <2>4 DEF ListFails
<1>5. ASSUME NEW w \in Worker, QueueEnds(w) PROVE DTypeOK'
  BY <1>5 DEF QueueEnds
<1>6. CASE CloseQueue
  BY <1>6 DEF CloseQueue
<1>7. CASE Interrupt
  BY <1>7 DEF Interrupt
<1>8. CASE Publish
  BY <1>8 DEF Publish
<1>9. CASE UNCHANGED dvars
  BY <1>9 DEF dvars
<1> QED
  BY <1>1, <1>2, <1>3, <1>4, <1>5, <1>6, <1>7, <1>8, <1>9 DEF DNext, Work

\* A step loses no index: a worker drops the one it holds only when it has
\* listed it, or when the context is done.
LEMMA NextNothingDropped ==
  DTypeOK /\ NothingDropped /\ [DNext]_dvars => NothingDropped'
<1> SUFFICES ASSUME DTypeOK, NothingDropped, [DNext]_dvars, ~canceled',
                    NEW i \in Index, i < next'
             PROVE  results'[i] = Listing[i] \/ \E w \in Worker : Holds(w, i)'
  BY DEF NothingDropped, Index, Holds
<1> USE PackagesCounted DEF Index
<1>1. ASSUME NEW w \in Worker, HandOut(w)
      PROVE  results'[i] = Listing[i] \/ \E v \in Worker : Holds(v, i)'
  <2>1. CASE i = next
    <3>1. Holds(w, i)'
      BY <1>1, <2>1 DEF HandOut, Holds, DTypeOK
    <3> QED
      BY <3>1
  <2>2. CASE i # next
    <3>1. i < next /\ ~canceled
      BY <1>1, <2>2 DEF HandOut, DTypeOK
    <3>2. CASE results[i] = Listing[i]
      BY <3>2, <1>1 DEF HandOut
    <3>3. ASSUME NEW v \in Worker, Holds(v, i) PROVE Holds(v, i)'
      BY <3>3, <1>1 DEF HandOut, Holds, DTypeOK
    <3> QED
      BY <3>1, <3>2, <3>3 DEF NothingDropped
  <2> QED
    BY <2>1, <2>2
<1>2. ASSUME NEW w \in Worker, CheckContext(w)
      PROVE  results'[i] = Listing[i] \/ \E v \in Worker : Holds(v, i)'
  <2>1. i < next /\ ~canceled /\ results' = results
    BY <1>2 DEF CheckContext
  <2>2. ASSUME NEW v \in Worker, Holds(v, i) PROVE Holds(v, i)'
    BY <2>1, <2>2, <1>2 DEF CheckContext, Holds, DTypeOK
  <2> QED
    BY <2>1, <2>2 DEF NothingDropped
<1>3. ASSUME NEW w \in Worker, ListSucceeds(w)
      PROVE  results'[i] = Listing[i] \/ \E v \in Worker : Holds(v, i)'
  <2>1. i < next /\ ~canceled
    BY <1>3 DEF ListSucceeds
  <2>2. CASE results[i] = Listing[i]
    BY <2>2, <1>3 DEF ListSucceeds, DTypeOK
  <2>3. CASE Holds(w, i)
    BY <2>3, <1>3 DEF ListSucceeds, Holds, DTypeOK
  <2>4. ASSUME NEW v \in Worker, v # w, Holds(v, i) PROVE Holds(v, i)'
    BY <2>4, <1>3 DEF ListSucceeds, Holds, DTypeOK
  <2> QED
    BY <2>1, <2>2, <2>3, <2>4 DEF NothingDropped
<1>4. ASSUME NEW w \in Worker, QueueEnds(w)
      PROVE  results'[i] = Listing[i] \/ \E v \in Worker : Holds(v, i)'
  <2>1. i < next /\ ~canceled /\ results' = results
    BY <1>4 DEF QueueEnds
  <2>2. ASSUME NEW v \in Worker, Holds(v, i) PROVE Holds(v, i)'
    BY <2>2, <1>4 DEF QueueEnds, Holds, DTypeOK
  <2> QED
    BY <2>1, <2>2 DEF NothingDropped
<1>5. CASE CloseQueue \/ Publish \/ UNCHANGED dvars
  <2>1. UNCHANGED <<next, at, item, results, canceled>>
    BY <1>5 DEF CloseQueue, Publish, dvars
  <2> QED
    BY <2>1 DEF NothingDropped, Holds
<1>6. CASE (\E w \in Worker : ListFails(w)) \/ Interrupt
  BY <1>6 DEF ListFails, Interrupt
<1> QED
  BY <1>1, <1>2, <1>3, <1>4, <1>5, <1>6 DEF DNext, Work

LEMMA NextClosedWhenEmpty ==
  DTypeOK /\ ClosedWhenEmpty /\ [DNext]_dvars => ClosedWhenEmpty'
<1> SUFFICES ASSUME DTypeOK, ClosedWhenEmpty, [DNext]_dvars PROVE ClosedWhenEmpty'
  OBVIOUS
<1> USE PackagesCounted DEF ClosedWhenEmpty
<1>1. CASE \E w \in Worker : Work(w)
  BY <1>1 DEF Work, HandOut, CheckContext, ListSucceeds, ListFails, QueueEnds
<1>2. CASE CloseQueue
  BY <1>2 DEF CloseQueue, DTypeOK
<1>3. CASE Interrupt
  BY <1>3 DEF Interrupt
<1>4. CASE Publish
  BY <1>4 DEF Publish
<1>5. CASE UNCHANGED dvars
  BY <1>5 DEF dvars
<1> QED
  BY <1>1, <1>2, <1>3, <1>4, <1>5 DEF DNext

\* When the last worker has stopped nobody holds an index, so every one of
\* them is listed; and a late listing changes nothing that is published.
LEMMA NextPublishedComplete == DiscoveryInv /\ [DNext]_dvars => PublishedComplete'
<1> SUFFICES ASSUME DiscoveryInv, [DNext]_dvars, main' = "ok", NEW i \in Index
             PROVE  results'[i] = Listing[i]
  BY DEF PublishedComplete
<1> USE PackagesCounted DEF DiscoveryInv
<1>1. CASE Publish
  <2>1. ~canceled /\ main = "wait" /\ results' = results
    BY <1>1 DEF Publish
  <2>2. next = N + 1
    BY <2>1 DEF ClosedWhenEmpty
  <2>3. \A w \in Worker : ~Holds(w, i)
    BY <1>1 DEF Publish, Holds
  <2> QED
    BY <2>1, <2>2, <2>3 DEF NothingDropped, Index
<1>2. ASSUME NEW w \in Worker, ListSucceeds(w) PROVE results'[i] = Listing[i]
  BY <1>2 DEF ListSucceeds, PublishedComplete, DTypeOK
<1>3. ASSUME NEW w \in Worker,
             HandOut(w) \/ CheckContext(w) \/ ListFails(w) \/ QueueEnds(w)
      PROVE  results'[i] = Listing[i]
  BY <1>3 DEF HandOut, CheckContext, ListFails, QueueEnds, PublishedComplete
<1>4. CASE CloseQueue \/ Interrupt \/ UNCHANGED dvars
  BY <1>4 DEF CloseQueue, Interrupt, dvars, PublishedComplete
<1> QED
  BY <1>1, <1>2, <1>3, <1>4 DEF DNext, Work

(* Discovery keeps its variables within their types, for every number of    *)
(* packages and workers.                                                    *)
THEOREM DiscoveryTyped == DSpec => []DTypeOK
<1>1. DInit => DTypeOK
  BY InitDiscoveryInv DEF DiscoveryInv
<1> QED
  BY <1>1, NextTypeOK, PTL DEF DSpec

(* An inventory that discoverTests publishes is complete: every package's   *)
(* listing is at its index, whatever failures, interrupts and completion    *)
(* orders came before.                                                      *)
THEOREM PublishesOnlyComplete == DSpec => []PublishedComplete
<1>1. DiscoveryInv /\ [DNext]_dvars => DiscoveryInv'
  BY NextTypeOK, NextNothingDropped, NextClosedWhenEmpty, NextPublishedComplete DEF DiscoveryInv
<1>2. DiscoveryInv => PublishedComplete
  BY DEF DiscoveryInv
<1> QED
  BY InitDiscoveryInv, <1>1, <1>2, PTL DEF DSpec

\* The run around the discovery takes only the discovery's steps.
LEMMA RunIsDiscovery == [Next]_vars => [DNext]_dvars
<1> SUFFICES ASSUME [Next]_vars PROVE [DNext]_dvars
  OBVIOUS
<1>1. CASE Discover \/ Sigint
  BY <1>1 DEF Discover, Sigint, DNext
<1>2. CASE \/ ListPackages \/ Discovered \/ DiscoveryFails \/ CutPackage
          \/ StartJobs \/ CloseJobs \/ Collect
  BY <1>2 DEF ListPackages, Discovered, DiscoveryFails, CutPackage, StartJobs, CloseJobs, Collect
<1>3. ASSUME NEW w \in Worker, JobWork(w) \/ TimePasses(w) PROVE UNCHANGED dvars
  BY <1>3 DEF JobWork, HandOutJob, WorkerEnds, TryAttempt, ProcessEnds, JobPasses, Retry,
              JobFails, SendError, TimePasses
<1>4. CASE UNCHANGED vars
  BY <1>4 DEF vars
<1> QED
  BY <1>1, <1>2, <1>3, <1>4 DEF Next, Steps, Main, Exited

(* The whole program implements the discovery it contains, interrupts in    *)
(* every phase included: also the inventory that it cuts into jobs is       *)
(* complete.                                                                *)
THEOREM RunnerPublishesOnlyComplete == Spec => []PublishedComplete
<1>1. Init => DInit
  BY DEF Init
<1>2. Spec => DSpec
  BY <1>1, RunIsDiscovery, PTL DEF Spec, DSpec
<1> QED
  BY <1>2, PublishesOnlyComplete, PTL

-----------------------------------------------------------------------------
(* The cut into jobs                                                        *)
\* Division by c, and what it means for multiples of c.
LEMMA DivFacts ==
  ASSUME NEW n \in Nat, NEW c \in Nat \ {0}
  PROVE  /\ n \div c \in Nat /\ n % c \in 0..c - 1
         /\ n = (n \div c) * c + (n % c)
OBVIOUS

LEMMA MulMonotone ==
  ASSUME NEW a \in Int, NEW b \in Int, NEW c \in Nat \ {0}, a < b
  PROVE  a * c + c <= b * c
OBVIOUS

\* CHOOSE picks what it should.
LEMMA MinOfTwo ==
  ASSUME NEW a \in Nat, NEW b \in Nat
  PROVE  Min({a, b}) = IF a <= b THEN a ELSE b
<1> DEFINE m == IF a <= b THEN a ELSE b
<1>1. m \in {a, b} /\ \A y \in {a, b} : m <= y
  OBVIOUS
<1>2. \A x \in {a, b} : (\A y \in {a, b} : x <= y) => x = m
  OBVIOUS
<1> HIDE DEF m
<1>3. Min({a, b}) = m
  BY <1>1, <1>2 DEF Min
<1>4. QED
  BY <1>3 DEF m

LEMMA MaxOfTwo ==
  ASSUME NEW a \in Nat, NEW b \in Nat
  PROVE  Max({a, b}) = IF a >= b THEN a ELSE b
<1> DEFINE m == IF a >= b THEN a ELSE b
<1>1. m \in {a, b} /\ \A y \in {a, b} : m >= y
  OBVIOUS
<1>2. \A x \in {a, b} : (\A y \in {a, b} : x >= y) => x = m
  OBVIOUS
<1> HIDE DEF m
<1>3. Max({a, b}) = m
  BY <1>1, <1>2 DEF Max
<1>4. QED
  BY <1>3 DEF m

(* Which name the k-th of the g-th of c round-robin groups is.              *)
Place(c, g, k) == g + (k - 1) * c

GroupCount(names, workers) == IF workers <= Len(names) THEN workers ELSE Len(names)

LEMMA GroupsTyped ==
  ASSUME NEW T, NEW names \in Seq(T), names # <<>>, NEW workers \in Nat \ {0}
  PROVE  LET c == GroupCount(names, workers) IN
         /\ c \in Nat \ {0} /\ c <= Len(names) /\ Len(names) \in Nat /\ DOMAIN names = 1..Len(names)
         /\ Partition(names, workers) =
              [g \in 1..c |-> [k \in 1..((Len(names) - g) \div c) + 1 |-> names[Place(c, g, k)]]]
<1> DEFINE c == GroupCount(names, workers)
<1>1. Len(names) \in Nat \ {0}
  OBVIOUS
<1>2. c \in Nat \ {0} /\ c <= Len(names) /\ Len(names) \in Nat /\ DOMAIN names = 1..Len(names)
  BY <1>1 DEF GroupCount
<1>3. Min({workers, Len(names)}) = c
  BY <1>1, MinOfTwo DEF GroupCount
<1>4. Partition(names, workers) =
        [g \in 1..c |-> [k \in 1..((Len(names) - g) \div c) + 1 |-> names[Place(c, g, k)]]]
  BY <1>3, Zenon DEF Partition, Place
<1>5. QED
  BY <1>2, <1>4

(* Partition neither loses nor repeats a name: the places <<g, k>> of its   *)
(* groups are the positions of the names, one for one. With distinct names, *)
(* as go test -list prints them, each is in one place of one job.           *)
THEOREM EveryNameOnce ==
  ASSUME NEW T, NEW names \in Seq(T), names # <<>>, NEW workers \in Nat \ {0}
  PROVE  \E c \in 1..Len(names) : LET groups == Partition(names, workers) IN
           /\ \A g \in DOMAIN groups : \A k \in DOMAIN groups[g] :
                Place(c, g, k) \in DOMAIN names /\ groups[g][k] = names[Place(c, g, k)]
           /\ \A m \in DOMAIN names : \E g \in DOMAIN groups : \E k \in DOMAIN groups[g] :
                Place(c, g, k) = m
           /\ \A g, h \in DOMAIN groups : \A k \in DOMAIN groups[g], l \in DOMAIN groups[h] :
                Place(c, g, k) = Place(c, h, l) => g = h /\ k = l
<1> DEFINE n == Len(names)
           c == GroupCount(names, workers)
           groups == Partition(names, workers)
           Size(g) == ((n - g) \div c) + 1
<1>1. /\ c \in Nat \ {0} /\ c <= n /\ n \in Nat /\ DOMAIN names = 1..n
      /\ groups = [g \in 1..c |-> [k \in 1..Size(g) |-> names[Place(c, g, k)]]]
  BY GroupsTyped
<1> HIDE DEF n, c, groups
<1>2. /\ DOMAIN groups = 1..c
      /\ \A g \in 1..c : DOMAIN groups[g] = 1..Size(g)
      /\ \A g \in 1..c : \A k \in 1..Size(g) : groups[g][k] = names[Place(c, g, k)]
  BY <1>1
<1>3. ASSUME NEW g \in 1..c, NEW k \in 1..Size(g) PROVE Place(c, g, k) \in 1..n
  <2> DEFINE d == (n - g) \div c
             r == (n - g) % c
  <2>1. n - g \in Nat /\ g \in Nat
    BY <1>1
  <2>2. d \in Nat /\ r \in 0..c - 1 /\ n - g = d * c + r
    BY <1>1, <2>1, DivFacts
  <2>3. k - 1 \in Nat /\ k - 1 <= d
    BY <2>2
  <2> HIDE DEF d, r
  <2> DEFINE before == (k - 1) * c
             all == d * c
  <2>4. before \in Nat /\ all \in Nat
    BY <1>1, <2>2, <2>3
  <2>5. before <= all
    <3>1. CASE k - 1 = d
      BY <2>4, <3>1
    <3>2. CASE k - 1 < d
      <4>1. before + c <= all
        BY <1>1, <2>2, <2>3, <3>2, MulMonotone
      <4> HIDE DEF before, all
      <4>2. QED
        BY <1>1, <2>4, <4>1
    <3> HIDE DEF before, all
    <3>3. QED
      BY <2>2, <2>3, <3>1, <3>2
  <2>6. n - g = all + r /\ Place(c, g, k) = g + before
    BY <2>2 DEF Place
  <2> HIDE DEF before, all
  <2>7. QED
    BY <1>1, <2>1, <2>2, <2>4, <2>5, <2>6
<1>4. ASSUME NEW m \in 1..n
      PROVE  \E g \in 1..c : \E k \in 1..Size(g) : Place(c, g, k) = m
  <2> DEFINE q == (m - 1) \div c
             r == (m - 1) % c
             g == r + 1
             k == q + 1
  <2>1. m - 1 \in Nat
    BY <1>1
  <2>2. q \in Nat /\ r \in 0..c - 1 /\ m - 1 = q * c + r
    BY <1>1, <2>1, DivFacts
  <2> HIDE DEF q, r
  <2>3. g \in 1..c /\ g \in Nat /\ n - g \in Nat
    BY <1>1, <2>2
  <2> DEFINE d == (n - g) \div c
             s == (n - g) % c
  <2>4. d \in Nat /\ s \in 0..c - 1 /\ n - g = d * c + s
    BY <1>1, <2>3, DivFacts
  <2> HIDE DEF d, s
  <2>5. q <= d
    <3>1. SUFFICES ASSUME d < q PROVE FALSE
      BY <2>2, <2>4
    <3>2. d * c + c <= q * c
      BY <1>1, <2>2, <2>4, <3>1, MulMonotone
    <3>3. d * c \in Nat /\ q * c \in Nat
      BY <1>1, <2>2, <2>4
    <3>4. n - g >= q * c
      BY <1>1, <2>2, <2>3, <3>3
    <3>5. QED
      BY <1>1, <2>3, <2>4, <3>2, <3>3, <3>4
  <2>6. k \in 1..Size(g)
    BY <2>2, <2>4, <2>5 DEF d
  <2>7. Place(c, g, k) = m
    <3>1. q * c \in Nat /\ k - 1 = q
      BY <1>1, <2>2
    <3>2. QED
      BY <2>2, <3>1 DEF Place
  <2>8. QED
    BY <2>3, <2>6, <2>7
<1>5. ASSUME NEW g \in 1..c, NEW h \in 1..c, NEW k \in 1..Size(g), NEW l \in 1..Size(h),
             Place(c, g, k) = Place(c, h, l)
      PROVE  g = h /\ k = l
  <2>1. k \in Nat /\ l \in Nat /\ g \in Nat /\ h \in Nat /\ k - 1 \in Int /\ l - 1 \in Int
    OBVIOUS
  <2> DEFINE x == (k - 1) * c
             y == (l - 1) * c
  <2>2. x \in Int /\ y \in Int /\ g + x = h + y
    BY <1>1, <1>5, <2>1 DEF Place
  <2>3. ~(k < l)
    <3>1. SUFFICES ASSUME k < l PROVE FALSE
      OBVIOUS
    <3>2. x + c <= y
      BY <1>1, <2>1, <3>1, MulMonotone
    <3> HIDE DEF x, y
    <3>3. QED
      BY <1>1, <2>1, <2>2, <3>2
  <2>4. ~(l < k)
    <3>1. SUFFICES ASSUME l < k PROVE FALSE
      OBVIOUS
    <3>2. y + c <= x
      BY <1>1, <2>1, <3>1, MulMonotone
    <3> HIDE DEF x, y
    <3>3. QED
      BY <1>1, <2>1, <2>2, <3>2
  <2>5. k = l
    BY <2>1, <2>3, <2>4
  <2>6. x = y
    BY <2>5
  <2> HIDE DEF x, y
  <2>7. QED
    BY <2>1, <2>2, <2>5, <2>6
<1> HIDE DEF Size
<1>6. \A g \in DOMAIN groups : \A k \in DOMAIN groups[g] :
        Place(c, g, k) \in DOMAIN names /\ groups[g][k] = names[Place(c, g, k)]
  BY <1>1, <1>2, <1>3
<1>7. \A m \in DOMAIN names : \E g \in DOMAIN groups : \E k \in DOMAIN groups[g] :
        Place(c, g, k) = m
  BY <1>1, <1>2, <1>4
<1>8. \A g, h \in DOMAIN groups : \A k \in DOMAIN groups[g], l \in DOMAIN groups[h] :
        Place(c, g, k) = Place(c, h, l) => g = h /\ k = l
  <2>1. SUFFICES ASSUME NEW g \in DOMAIN groups, NEW h \in DOMAIN groups,
                        NEW k \in DOMAIN groups[g], NEW l \in DOMAIN groups[h],
                        Place(c, g, k) = Place(c, h, l)
                 PROVE  g = h /\ k = l
    OBVIOUS
  <2>2. g \in 1..c /\ h \in 1..c
    BY <1>2
  <2>3. k \in 1..Size(g) /\ l \in 1..Size(h)
    BY <1>2, <2>2
  <2>4. QED
    BY <1>5, <2>1, <2>2, <2>3
<1>9. c \in 1..Len(names)
  BY <1>1 DEF n
<1>10. QED
  BY <1>6, <1>7, <1>8, <1>9 DEF groups

(* No job has more names than -max-tests-per-job allows, however few the    *)
(* workers: the number of groups is rounded up.                             *)
THEOREM GroupsFit ==
  ASSUME NEW T, NEW names \in Seq(T), names # <<>>, NEW workers \in Nat \ {0},
         NEW max \in Nat \ {0}
  PROVE  LET groups == Partition(names, JobsWanted(names, workers, max))
         IN  \A g \in DOMAIN groups : Len(groups[g]) <= max
<1> DEFINE n == Len(names)
           q == (n - 1) \div max
           r == (n - 1) % max
           wanted == JobsWanted(names, workers, max)
           c == GroupCount(names, wanted)
           groups == Partition(names, wanted)
<1>1. n \in Nat \ {0} /\ n - 1 \in Nat
  OBVIOUS
<1>2. q \in Nat /\ r \in 0..max - 1 /\ n - 1 = q * max + r
  BY <1>1, DivFacts
<1>3. wanted \in Nat \ {0} /\ wanted >= q + 1
  <2>1. q + 1 \in Nat
    BY <1>2
  <2>2. wanted = Max({workers, q + 1})
    <3>1. wanted = Max({workers, 1 + q})
      BY DEF JobsWanted
    <3>2. 1 + q = q + 1
      BY <1>2
    <3> QED
      BY <3>1, <3>2
  <2> HIDE DEF wanted, q
  <2> QED
    BY <2>1, <2>2, MaxOfTwo
<1> HIDE DEF wanted
<1>4. /\ c \in Nat \ {0} /\ c <= n
      /\ groups = [g \in 1..c |-> [k \in 1..((n - g) \div c) + 1 |-> names[Place(c, g, k)]]]
  BY <1>3, GroupsTyped
<1>5. c = n \/ c >= q + 1
  BY <1>3 DEF GroupCount
<1> HIDE DEF n, q, r, c, groups
<1>6. ASSUME NEW g \in 1..c PROVE ((n - g) \div c) + 1 <= max
  <2> DEFINE d == (n - g) \div c
             s == (n - g) % c
  <2>1. n - g \in Nat /\ g \in Nat /\ g >= 1
    BY <1>1, <1>4
  <2>2. d \in Nat /\ s \in 0..c - 1 /\ n - g = d * c + s
    BY <1>4, <2>1, DivFacts
  <2> HIDE DEF d, s
  <2>3. SUFFICES ASSUME max <= d PROVE FALSE
    BY <2>2 DEF d
  <2>4. max * c <= d * c /\ max * c \in Nat /\ d * c \in Nat
    <3>1. CASE max = d
      BY <1>4, <2>2, <3>1
    <3>2. CASE max < d
      <4>1. max * c + c <= d * c
        BY <1>4, <2>2, <3>2, MulMonotone
      <4>2. max * c \in Nat /\ d * c \in Nat
        BY <1>4, <2>2
      <4> QED
        BY <1>4, <4>1, <4>2
    <3> QED
      BY <2>2, <2>3, <3>1, <3>2
  <2>5. max * c <= n - 1
    <3> DEFINE x == max * c
               y == d * c
    <3>1. x <= y /\ x \in Nat /\ y \in Nat /\ n - g = y + s
      BY <2>2, <2>4
    <3> HIDE DEF x, y
    <3>2. x <= n - 1
      BY <1>1, <2>1, <2>2, <3>1
    <3> QED
      BY <3>2 DEF x
  <2>6. n <= max * c
    <3>1. CASE c = n
      <4>1. 1 * n <= max * n
        <5>1. CASE max = 1
          BY <1>1, <5>1
        <5>2. CASE 1 < max
          <6>1. 1 * n + n <= max * n
            BY <1>1, <5>2, MulMonotone
          <6> QED
            BY <1>1, <6>1
        <5> QED
          BY <5>1, <5>2
      <4> QED
        BY <1>1, <3>1, <4>1
    <3>2. CASE c >= q + 1
      <4>1. q * max + max <= c * max
        BY <1>2, <1>4, <3>2, MulMonotone
      <4> DEFINE x == q * max
                 y == c * max
      <4>2. x \in Nat /\ y \in Nat /\ x + max <= y /\ n - 1 = x + r
        BY <1>2, <1>4, <4>1
      <4>3. y = max * c
        BY <1>4
      <4> HIDE DEF x, y
      <4>4. n <= y
        BY <1>1, <1>2, <4>2
      <4> QED
        BY <4>3, <4>4
    <3> QED
      BY <1>5, <3>1, <3>2
  <2> DEFINE z == max * c
  <2>7. z <= n - 1 /\ n <= z /\ z \in Nat
    BY <2>4, <2>5, <2>6
  <2> HIDE DEF z
  <2> QED
    BY <1>1, <2>7
<1>7. ASSUME NEW g \in DOMAIN groups
      PROVE  Len(groups[g]) <= max
  <2> DEFINE d == ((n - g) \div c) + 1
  <2>1. g \in 1..c /\ groups[g] = [k \in 1..d |-> names[Place(c, g, k)]]
    BY <1>4, <1>7
  <2>2. d \in Nat /\ d <= max
    <3>1. n - g \in Nat
      BY <1>1, <1>4, <2>1
    <3>2. (n - g) \div c \in Nat
      BY <1>4, <3>1, DivFacts
    <3>3. d <= max
      BY <1>6, <2>1
    <3> QED
      BY <3>2, <3>3
  <2>3. Len(groups[g]) = d
    <3>1. groups[g] = [k \in 1..d |-> names[Place(c, g, k)]] /\ d \in Nat
      BY <2>1, <2>2
    <3> HIDE DEF d
    <3> QED
      BY <3>1
  <2> QED
    BY <2>2, <2>3
<1> QED
  BY <1>7 DEF groups, wanted

LEMMA JobsWantedTyped ==
  ASSUME NEW T, NEW names \in Seq(T), names # <<>>, NEW workers \in Nat \ {0},
         NEW max \in Nat \ {0}
  PROVE  JobsWanted(names, workers, max) \in Nat \ {0}
<1> DEFINE q == (Len(names) - 1) \div max
<1>1. Len(names) - 1 \in Nat
  OBVIOUS
<1>2. q \in Nat
  BY <1>1, DivFacts
<1>3. JobsWanted(names, workers, max) = Max({workers, 1 + q})
  BY DEF JobsWanted
<1> HIDE DEF q
<1>4. 1 + q \in Nat \ {0}
  BY <1>2
<1> QED
  BY <1>3, <1>4, MaxOfTwo

(* The groups of a partition, as sequences: as many as there are, none is   *)
(* empty, and they hold nothing but names of the list.                      *)
LEMMA GroupsAreSequences ==
  ASSUME NEW T, NEW names \in Seq(T), names # <<>>, NEW workers \in Nat \ {0}
  PROVE  LET groups == Partition(names, workers)
         IN  \E c \in Nat :
               /\ DOMAIN groups = 1..c
               /\ \A g \in 1..c : groups[g] \in Seq(T) /\ groups[g] # <<>>
<1> DEFINE n == Len(names)
           c == GroupCount(names, workers)
           groups == Partition(names, workers)
           Size(g) == ((n - g) \div c) + 1
<1>1. /\ c \in Nat \ {0} /\ c <= n /\ n \in Nat /\ DOMAIN names = 1..n
      /\ groups = [g \in 1..c |-> [k \in 1..Size(g) |-> names[Place(c, g, k)]]]
  BY GroupsTyped
<1> HIDE DEF n, c
<1>2. DOMAIN groups = 1..c
  BY <1>1
<1>3. ASSUME NEW g \in 1..c
      PROVE  groups[g] \in Seq(T) /\ groups[g] # <<>>
  <2>1. n - g \in Nat /\ Size(g) \in Nat \ {0}
    <3>1. n - g \in Nat
      BY <1>1
    <3>2. (n - g) \div c \in Nat
      BY <1>1, <3>1, DivFacts
    <3> QED
      BY <3>1, <3>2
  <2>2. groups[g] = [k \in 1..Size(g) |-> names[Place(c, g, k)]]
    BY <1>1
  <2>3. \A k \in 1..Size(g) : groups[g][k] = names[Place(c, g, k)]
    BY <2>2
  <2> HIDE DEF Size
  <2>4. ASSUME NEW k \in 1..Size(g) PROVE groups[g][k] \in T
    <3>1. DOMAIN groups[g] = 1..Size(g)
      BY <2>2
    <3>2. PICK d \in 1..Len(names) :
             /\ \A h \in DOMAIN groups : \A l \in DOMAIN groups[h] :
                  Place(d, h, l) \in DOMAIN names /\ groups[h][l] = names[Place(d, h, l)]
      BY EveryNameOnce
    <3>3. Place(d, g, k) \in DOMAIN names /\ groups[g][k] = names[Place(d, g, k)]
      BY <1>2, <3>1, <3>2
    <3> HIDE DEF groups
    <3> QED
      BY <3>3
  <2> HIDE DEF groups
  <2>5. DOMAIN groups[g] = 1..Size(g) /\ groups[g] = [k \in 1..Size(g) |-> groups[g][k]]
    BY <2>2
  <2> DEFINE s == Size(g)
  <2> HIDE DEF s
  <2>6. /\ s \in Nat \ {0} /\ groups[g] = [k \in 1..s |-> groups[g][k]]
        /\ \A k \in 1..s : groups[g][k] \in T
    BY <2>1, <2>4, <2>5 DEF s
  <2>7. groups[g] \in Seq(T)
    BY <2>6
  <2>8. groups[g] # <<>>
    BY <2>6
  <2> QED
    BY <2>7, <2>8
<1> QED
  BY <1>1, <1>2, <1>3

(* The names of an external shard are those of its hash, each once, whatever*)
(* the position: the j-th is the name at place[j] of the list.              *)
Kept(i, names, index, count) ==
  {k \in DOMAIN names : count = 1 \/ Hash[<<i, names[k]>>] % count = index}
Names(names) == {names[k] : k \in DOMAIN names}
Selects(sel, names, kept) ==
  /\ sel \in Seq(Names(names))
  /\ \E place \in [1..Len(sel) -> kept] :
       /\ \A j \in 1..Len(sel) : sel[j] = names[place[j]]
       /\ \A k \in kept : \E j \in 1..Len(sel) : place[j] = k
       /\ \A j, l \in 1..Len(sel) : place[j] = place[l] => j = l
LEMMA SelectedNames ==
  ASSUME NEW i, NEW names, names \in Seq(Names(names)), NEW index, NEW count
  PROVE  Selects(SelectExternalShard(i, names, index, count), names, Kept(i, names, index, count))
<1> DEFINE sel == SelectExternalShard(i, names, index, count)
           kept == Kept(i, names, index, count)
           T == Names(names)
<1>1. DOMAIN names = 1..Len(names) /\ Len(names) \in Nat
  OBVIOUS
<1>2. CASE count = 1
  <2>1. sel = names /\ kept = DOMAIN names
    BY <1>2 DEF SelectExternalShard, Kept
  <2> DEFINE place == [j \in 1..Len(sel) |-> j]
  <2>2. /\ place \in [1..Len(sel) -> kept]
        /\ \A j \in 1..Len(sel) : place[j] = j
    BY <1>1, <2>1
  <2> HIDE DEF place
  <2>3. /\ \A j \in 1..Len(sel) : sel[j] = names[place[j]]
        /\ \A k \in kept : \E j \in 1..Len(sel) : place[j] = k
        /\ \A j, l \in 1..Len(sel) : place[j] = place[l] => j = l
    BY <1>1, <2>1, <2>2
  <2> QED
    BY <2>1, <2>2, <2>3 DEF Selects
<1>3. CASE count # 1
  <2> DEFINE n == Cardinality(kept)
             Rank(k) == Cardinality(kept \cap 1..k)
             Nth(j) == CHOOSE k \in kept : Rank(k) = j
  <2>1. kept = {k \in DOMAIN names : Hash[<<i, names[k]>>] % count = index}
    BY <1>3 DEF Kept
  <2>2. sel = [j \in 1..n |-> names[Nth(j)]]
    BY <1>3, <2>1 DEF SelectExternalShard
  <2>3. kept \subseteq 1..Len(names) /\ IsFiniteSet(kept) /\ n \in Nat
    <3>1. kept \subseteq 1..Len(names)
      BY <1>1, <2>1
    <3>2. IsFiniteSet(1..Len(names))
      BY <1>1, FS_Interval
    <3>3. IsFiniteSet(kept)
      BY <3>1, <3>2, FS_Subset
    <3> QED
      BY <3>1, <3>3, FS_CardinalityType
  <2> HIDE DEF kept
  <2>4. ASSUME NEW k \in kept
        PROVE  Rank(k) \in 1..n
    <3>1. IsFiniteSet(kept \cap 1..k) /\ Rank(k) <= n
      BY <2>3, FS_Subset
    <3>2. Rank(k) \in Nat
      BY <3>1, FS_CardinalityType
    <3>3. Rank(k) # 0
      <4>1. k \in kept \cap 1..k
        BY <1>1, <2>3
      <4> QED
        BY <3>1, <4>1, FS_EmptySet
    <3> QED
      BY <2>3, <3>1, <3>2, <3>3
  <2>5. ASSUME NEW k \in kept, NEW l \in kept, k < l
        PROVE  Rank(k) # Rank(l)
    <3>1. kept \cap 1..k \subseteq kept \cap 1..l /\ l \in kept \cap 1..l /\ l \notin kept \cap 1..k
      BY <1>1, <2>3, <2>5
    <3>2. IsFiniteSet(kept \cap 1..l)
      BY <2>3, FS_Subset
    <3> QED
      BY <3>1, <3>2, FS_Subset
  <2> DEFINE rank == [k \in kept |-> Rank(k)]
  <2>6. rank \in Injection(kept, 1..n)
    <3>1. ASSUME NEW k \in kept, NEW l \in kept, Rank(k) = Rank(l) PROVE k = l
      <4>1. k \in Int /\ l \in Int
        BY <1>1, <2>3
      <4>2. ~(k < l) /\ ~(l < k)
        BY <2>5, <3>1
      <4> QED
        BY <4>1, <4>2
    <3> HIDE DEF Rank
    <3> QED
      BY <2>4, <3>1 DEF Injection, IsInjective
  <2>7. rank \in Surjection(kept, 1..n)
    <3>1. IsFiniteSet(1..n) /\ Cardinality(1..n) = n
      BY <2>3, FS_Interval
    <3> HIDE DEF rank
    <3> QED
      BY <2>6, <3>1, FS_Injection
  <2>8. ASSUME NEW j \in 1..n PROVE \E k \in kept : Rank(k) = j
    <3>1. PICK k \in kept : rank[k] = j
      BY <2>7 DEF Surjection
    <3> QED
      BY <3>1
  <2>9. \A j \in 1..n : Nth(j) \in kept /\ Rank(Nth(j)) = j
    BY <2>8
  <2>10. \A k \in kept : Nth(Rank(k)) = k
    <3> SUFFICES ASSUME NEW k \in kept PROVE Nth(Rank(k)) = k
      OBVIOUS
    <3>1. Rank(k) \in 1..n
      BY <2>4
    <3>2. Nth(Rank(k)) \in kept /\ Rank(Nth(Rank(k))) = Rank(k)
      BY <2>9, <3>1
    <3>3. rank[Nth(Rank(k))] = rank[k]
      BY <3>2
    <3> QED
      BY <2>6, <3>2, <3>3 DEF Injection, IsInjective
  <2> DEFINE place == [j \in 1..n |-> Nth(j)]
  <2> HIDE DEF Nth, Rank, n
  <2>11. /\ Len(sel) = n
         /\ \A j \in 1..n : sel[j] = names[Nth(j)]
    BY <2>2, <2>3
  <2>12. /\ place \in [1..n -> kept]
         /\ \A j \in 1..n : place[j] = Nth(j)
    BY <2>9
  <2>13. sel \in Seq(T)
    <3>1. \A j \in 1..n : names[Nth(j)] \in T
      <4> SUFFICES ASSUME NEW j \in 1..n PROVE names[Nth(j)] \in T
        OBVIOUS
      <4>1. Nth(j) \in DOMAIN names
        BY <1>1, <2>3, <2>9
      <4> QED
        BY <4>1 DEF Names
    <3> HIDE DEF T
    <3> QED
      BY <2>2, <2>3, <3>1
  <2> HIDE DEF place, sel, T
  <2>14. \A k \in kept : \E j \in 1..n : place[j] = k
    BY <2>4, <2>10, <2>12
  <2>15. \A j, l \in 1..n : place[j] = place[l] => j = l
    BY <2>9, <2>12
  <2>16. \A j \in 1..n : sel[j] = names[place[j]]
    BY <2>11, <2>12
  <2> HIDE DEF n
  <2> QED
    BY <2>11, <2>12, <2>13, <2>14, <2>15, <2>16 DEF Selects, sel, T, kept
<1> QED
  BY <1>2, <1>3

(* The jobs of a package: each runs names of the package that the hash      *)
(* selects, one at least and no more than allowed; and each such name has   *)
(* its one place in one of them.                                            *)
JobsMade(made, i, names, max, kept) ==
  /\ made \in Seq([pkg : {i}, shard : Nat, names : Seq(Names(names)) \ {<<>>}])
  /\ \A g \in DOMAIN made : Len(made[g].names) <= max
  /\ \A g \in DOMAIN made : \A k \in DOMAIN made[g].names :
       \E m \in kept : made[g].names[k] = names[m]
  /\ \A m \in kept : \E g \in DOMAIN made : \E k \in DOMAIN made[g].names :
       made[g].names[k] = names[m]
  /\ \A g, h \in DOMAIN made : \A k \in DOMAIN made[g].names, l \in DOMAIN made[h].names :
       made[g].names[k] = made[h].names[l] => g = h /\ k = l
LEMMA JobsOfNames ==
  ASSUME NEW i, NEW names, names \in Seq(Names(names)),
         \A k, l \in DOMAIN names : names[k] = names[l] => k = l,
         NEW workers \in Nat \ {0}, NEW max \in Nat \ {0}, NEW index, NEW count
  PROVE  JobsMade(MakeTestJobs(i, names, workers, max, index, count), i, names, max,
                  Kept(i, names, index, count))
<1> DEFINE sel == SelectExternalShard(i, names, index, count)
           kept == Kept(i, names, index, count)
           made == MakeTestJobs(i, names, workers, max, index, count)
           T == Names(names)
           JobOf == [pkg : {i}, shard : Nat, names : Seq(T) \ {<<>>}]
<1>0. Selects(sel, names, kept)
  BY SelectedNames
<1>1. PICK place \in [1..Len(sel) -> kept] :
        /\ \A j \in 1..Len(sel) : sel[j] = names[place[j]]
        /\ \A k \in kept : \E j \in 1..Len(sel) : place[j] = k
        /\ \A j, l \in 1..Len(sel) : place[j] = place[l] => j = l
  <2> HIDE DEF sel, kept
  <2> QED
    BY <1>0 DEF Selects
<1>2. sel \in Seq(T) /\ Len(sel) \in Nat /\ DOMAIN sel = 1..Len(sel) /\ kept \subseteq DOMAIN names
  <2>1. sel \in Seq(T)
    BY <1>0 DEF Selects
  <2>2. kept \subseteq DOMAIN names
    BY DEF Kept
  <2> HIDE DEF sel, T, kept
  <2> QED
    BY <2>1, <2>2
<1>3. \A j, l \in 1..Len(sel) : sel[j] = sel[l] => j = l
  <2> HIDE DEF sel, kept
  <2> QED
    BY <1>1, <1>2
<1>4. CASE sel = <<>>
  <2>1. made = [g \in DOMAIN <<>> |-> [pkg |-> i, shard |-> g, names |-> <<>>[g]]]
    BY <1>4 DEF MakeTestJobs
  <2>2. DOMAIN made = {} /\ made \in Seq(JobOf)
    <3> HIDE DEF JobOf
    <3>1. made = <<>>
      BY <2>1
    <3> HIDE DEF made
    <3> QED
      BY <3>1
  <2>3. kept = {}
    <3> HIDE DEF sel, kept
    <3> QED
      BY <1>1, <1>4
  <2> HIDE DEF made, kept
  <2>4. JobsMade(made, i, names, max, kept)
    BY <2>2, <2>3 DEF JobsMade
  <2> QED
    BY <2>4 DEF made, kept
<1>5. CASE sel # <<>>
  <2> DEFINE wanted == JobsWanted(sel, workers, max)
             groups == Partition(sel, wanted)
  <2> HIDE DEF sel, T, kept
  <2>1. wanted \in Nat \ {0}
    BY <1>2, <1>5, JobsWantedTyped
  <2>2. \A g \in DOMAIN groups : Len(groups[g]) <= max
    BY <1>2, <1>5, GroupsFit
  <2>3. made = [g \in DOMAIN groups |-> [pkg |-> i, shard |-> g, names |-> groups[g]]]
    BY <1>5 DEF MakeTestJobs, sel
  <2> HIDE DEF wanted
  <2>4. PICK c \in Nat :
          /\ DOMAIN groups = 1..c
          /\ \A g \in 1..c : groups[g] \in Seq(T) /\ groups[g] # <<>>
    BY <1>2, <1>5, <2>1, GroupsAreSequences
  <2>5. PICK d \in 1..Len(sel) :
          /\ \A g \in DOMAIN groups : \A k \in DOMAIN groups[g] :
               Place(d, g, k) \in DOMAIN sel /\ groups[g][k] = sel[Place(d, g, k)]
          /\ \A m \in DOMAIN sel : \E g \in DOMAIN groups : \E k \in DOMAIN groups[g] :
               Place(d, g, k) = m
          /\ \A g, h \in DOMAIN groups : \A k \in DOMAIN groups[g], l \in DOMAIN groups[h] :
               Place(d, g, k) = Place(d, h, l) => g = h /\ k = l
    BY <1>2, <1>5, <2>1, EveryNameOnce
  <2> HIDE DEF groups, made
  <2>6. /\ DOMAIN made = 1..c
        /\ \A g \in 1..c : made[g] = [pkg |-> i, shard |-> g, names |-> groups[g]]
    BY <2>3, <2>4
  <2>7. made \in Seq(JobOf)
    <3>1. \A g \in 1..c : made[g] \in JobOf
      BY <2>4, <2>6
    <3>2. made = [g \in 1..c |-> made[g]]
      BY <2>3, <2>4, <2>6
    <3> HIDE DEF JobOf
    <3>3. made \in [1..c -> JobOf]
      BY <3>1, <3>2, Zenon
    <3>4. c \in Nat
      BY <2>4
    <3> QED
      BY <3>3, <3>4, ListOf, Zenon
  <2>8. \A g \in DOMAIN made : made[g].names = groups[g] /\ g \in DOMAIN groups
    BY <2>4, <2>6
  <2>9. \A g \in DOMAIN made : Len(made[g].names) <= max
    BY <2>2, <2>8
  <2>10. ASSUME NEW g \in DOMAIN made, NEW k \in DOMAIN made[g].names
         PROVE  /\ Place(d, g, k) \in DOMAIN sel /\ made[g].names[k] = sel[Place(d, g, k)]
                /\ \E m \in kept : made[g].names[k] = names[m]
    <3>1. Place(d, g, k) \in DOMAIN sel /\ made[g].names[k] = sel[Place(d, g, k)]
      BY <2>5, <2>8
    <3> QED
      BY <1>1, <1>2, <3>1
  <2>11. ASSUME NEW m \in kept
         PROVE  \E g \in DOMAIN made : \E k \in DOMAIN made[g].names : made[g].names[k] = names[m]
    <3>1. PICK j \in 1..Len(sel) : place[j] = m
      BY <1>1
    <3>2. PICK g \in DOMAIN groups : \E k \in DOMAIN groups[g] : Place(d, g, k) = j
      BY <1>2, <2>5
    <3>3. PICK k \in DOMAIN groups[g] : Place(d, g, k) = j
      BY <3>2
    <3>4. groups[g][k] = sel[j] /\ sel[j] = names[m]
      BY <1>1, <2>5, <3>1, <3>3
    <3>5. g \in DOMAIN made
      BY <2>4, <2>6
    <3> QED
      BY <2>8, <3>4, <3>5
  <2>12. ASSUME NEW g \in DOMAIN made, NEW h \in DOMAIN made,
                NEW k \in DOMAIN made[g].names, NEW l \in DOMAIN made[h].names,
                made[g].names[k] = made[h].names[l]
         PROVE  g = h /\ k = l
    <3>1. sel[Place(d, g, k)] = sel[Place(d, h, l)]
      BY <2>10, <2>12
    <3>2. Place(d, g, k) = Place(d, h, l)
      BY <1>2, <1>3, <2>10, <3>1
    <3> QED
      BY <2>5, <2>8, <3>2
  <2>13. JobsMade(made, i, names, max, kept)
    BY <2>7, <2>9, <2>10, <2>11, <2>12 DEF JobsMade, T
  <2> QED
    BY <2>13 DEF made, kept
<1> QED
  BY <1>4, <1>5

-----------------------------------------------------------------------------
(* The cut of the inventory                                                 *)

Tests == UNION {Names(Listing[i]) : i \in Index}
AJob == [pkg : Index, shard : Nat, names : Seq(Tests) \ {<<>>}]

\* A test of package i that is in a job.
Placed(i, n) ==
  \E j \in 1..Len(jobs) : jobs[j].pkg = i /\ \E k \in DOMAIN jobs[j].names : jobs[j].names[k] = n

\* The packages cut so far are cut completely, and all are before a job starts.
CutInv ==
  /\ opts \in Options /\ cut \in 0..N
  /\ phase \in {"packages", "discover"} => cut = 0 /\ jobs = <<>>
  /\ phase = "cut" => main = "ok"
  /\ phase = "run" \/ (phase = "done" /\ exit = 0) => cut = N
  /\ jobs \in Seq(AJob)
  /\ \A j \in 1..Len(jobs) : Len(jobs[j].names) <= opts.max
  /\ \A i \in 1..cut : \A m \in Kept(i, Listing[i], opts.index, opts.count) : Placed(i, Listing[i][m])

LEMMA SeqOfSubset ==
  ASSUME NEW S, NEW T, S \subseteq T, NEW s \in Seq(S)
  PROVE  s \in Seq(T)
OBVIOUS

LEMMA WorkersCounted == Cardinality(Worker) \in Nat \ {0}
BY WorkersAreThere, FS_CardinalityType, FS_EmptySet

\* What a complete inventory is cut into.
LEMMA JobsOfInventory ==
  ASSUME opts \in Options, \A p \in Index : results[p] = Listing[p],
         NEW i \in Index, NEW s
  PROVE  JobsMade(JobsOfPackage(i, s), i, Listing[i], opts.max, Kept(i, Listing[i], s, opts.count))
<1>1. results[i] = Listing[i]
  OBVIOUS
<1>2. opts.max \in Nat \ {0}
  BY OptionsValid
<1>3. Listing[i] \in Seq(Names(Listing[i]))
  BY ListingsCompact DEF Names
<1>4. \A k, l \in DOMAIN Listing[i] : Listing[i][k] = Listing[i][l] => k = l
  BY ListingsCompact
<1>5. JobsMade(MakeTestJobs(i, Listing[i], Cardinality(Worker), opts.max, s, opts.count), i,
               Listing[i], opts.max, Kept(i, Listing[i], s, opts.count))
  BY <1>2, <1>3, <1>4, WorkersCounted, JobsOfNames
<1> QED
  BY <1>1, <1>5 DEF JobsOfPackage

LEMMA CutPackageKeeps ==
  ASSUME DiscoveryInv, CutInv, CutPackage
  PROVE  CutInv'
<1> DEFINE i == cut + 1
           made == JobsOfPackage(i, opts.index)
           kept == Kept(i, Listing[i], opts.index, opts.count)
<1>1. /\ phase = "cut" /\ phase' = "cut" /\ cut \in Nat /\ cut < N /\ i \in Index
      /\ cut' = i /\ jobs' = jobs \o made
      /\ UNCHANGED <<opts, exit, main>>
  BY PackagesCounted DEF CutInv, CutPackage, dvars, Index
<1>2. JobsMade(made, i, Listing[i], opts.max, kept)
  BY <1>1, JobsOfInventory DEF CutInv, DiscoveryInv, PublishedComplete
<1>3. made \in Seq(AJob)
  <2> HIDE DEF made, kept, i
  <2>1. Names(Listing[i]) \subseteq Tests
    BY <1>1 DEF Tests
  <2>2. Seq(Names(Listing[i])) \subseteq Seq(Tests)
    BY <2>1, SeqOfSubset
  <2>3. [pkg : {i}, shard : Nat, names : Seq(Names(Listing[i])) \ {<<>>}] \subseteq AJob
    BY <1>1, <2>2 DEF AJob
  <2> QED
    BY <1>2, <2>3, SeqOfSubset DEF JobsMade
<1> DEFINE l == Len(jobs)
           m == Len(made)
<1> HIDE DEF made, kept, i
<1>4. /\ jobs \in Seq(AJob) /\ l \in Nat /\ m \in Nat /\ DOMAIN made = 1..m
      /\ jobs' \in Seq(AJob) /\ Len(jobs') = l + m
      /\ \A j \in 1..l : jobs'[j] = jobs[j]
      /\ \A g \in 1..m : jobs'[l + g] = made[g]
  <2>1. jobs \in Seq(AJob)
    BY DEF CutInv
  <2> QED
    BY <1>1, <1>3, <2>1
<1> HIDE DEF l, m
<1>5. ASSUME NEW j \in 1..Len(jobs') PROVE Len(jobs'[j].names) <= opts.max
  <2>1. CASE j \in 1..l
    BY <1>4, <2>1 DEF CutInv, l
  <2>2. CASE j \notin 1..l
    <3>1. j - l \in 1..m /\ l + (j - l) = j
      BY <1>4, <2>2
    <3>2. jobs'[j] = made[j - l]
      BY <1>4, <3>1
    <3> QED
      BY <1>2, <1>4, <3>1, <3>2 DEF JobsMade
  <2> QED
    BY <2>1, <2>2
<1>6. ASSUME NEW p \in 1..cut', NEW x \in Kept(p, Listing[p], opts.index, opts.count)
      PROVE  Placed(p, Listing[p][x])'
  <2>1. CASE p \in 1..cut
    <3>1. PICK j \in 1..l : jobs[j].pkg = p /\ \E k \in DOMAIN jobs[j].names : jobs[j].names[k] = Listing[p][x]
      BY <1>6, <2>1 DEF CutInv, Placed, l
    <3>2. j \in 1..Len(jobs') /\ jobs'[j] = jobs[j]
      BY <1>4
    <3> QED
      BY <3>1, <3>2 DEF Placed
  <2>2. CASE p \notin 1..cut
    <3>1. p = i
      BY <1>1, <2>2 DEF i
    <3>2. x \in kept
      BY <1>6, <3>1 DEF kept
    <3>3. PICK g \in 1..m : \E k \in DOMAIN made[g].names : made[g].names[k] = Listing[i][x]
      <4>1. \A y \in kept : \E h \in DOMAIN made : \E k \in DOMAIN made[h].names :
              made[h].names[k] = Listing[i][y]
        BY <1>2 DEF JobsMade
      <4> QED
        BY <1>4, <3>2, <4>1, Zenon
    <3>4. made[g].pkg = i
      <4> DEFINE R == [pkg : {i}, shard : Nat, names : Seq(Names(Listing[i])) \ {<<>>}]
      <4>1. made \in Seq(R)
        BY <1>2 DEF JobsMade
      <4>2. \A r \in R : r.pkg = i
        OBVIOUS
      <4> HIDE DEF R
      <4>3. made[g] \in R
        BY <1>4, <4>1
      <4> QED
        BY <4>2, <4>3
    <3>5. l + g \in 1..Len(jobs') /\ jobs'[l + g] = made[g]
      BY <1>4
    <3> QED
      BY <3>1, <3>3, <3>4, <3>5 DEF Placed
  <2> QED
    BY <2>1, <2>2
<1>7. cut' \in 0..N
  BY <1>1, PackagesCounted DEF Index
<1> QED
  BY <1>1, <1>4, <1>5, <1>6, <1>7 DEF CutInv, Kept

\* The steps that cut nothing.
Uncut == UNCHANGED <<opts, cut, jobs>>
LEMMA UncutKeeps ==
  ASSUME CutInv, Uncut,
         phase' \in {"packages", "discover"} => phase \in {"packages", "discover"},
         phase' = "cut" => main' = "ok",
         phase' = "run" \/ (phase' = "done" /\ exit' = 0) =>
           cut = N \/ phase = "run" \/ (phase = "done" /\ exit = 0)
  PROVE  CutInv'
<1>1. \A i, n : Placed(i, n)' <=> Placed(i, n)
  BY DEF Uncut, Placed
<1> QED
  BY <1>1 DEF CutInv, Uncut, Kept

LEMMA NextCutInv ==
  ASSUME DiscoveryInv, CutInv, [Next]_vars
  PROVE  CutInv'
<1>1. main = "ok" => main' = "ok"
  <2>1. [DNext]_dvars
    BY RunIsDiscovery
  <2> QED
    BY <2>1 DEF DNext, Work, HandOut, CheckContext, ListSucceeds, ListFails, QueueEnds, CloseQueue,
                Interrupt, Publish, dvars
<1>2. CASE ListPackages \/ Discovered \/ DiscoveryFails
  BY <1>1, <1>2, UncutKeeps DEF ListPackages, Discovered, DiscoveryFails, Uncut, dvars, CutInv
<1>3. CASE StartJobs \/ CloseJobs \/ Collect
  BY <1>1, <1>3, UncutKeeps DEF StartJobs, CloseJobs, Collect, Uncut, dvars, CutInv
<1>4. CASE Discover \/ Sigint \/ UNCHANGED vars
  <2>1. Uncut /\ UNCHANGED <<phase, exit>>
    BY <1>4 DEF Discover, Sigint, rvars, vars, Uncut
  <2> QED
    BY <1>1, <2>1, UncutKeeps DEF CutInv
<1>5. ASSUME NEW w \in Worker, JobWork(w) \/ TimePasses(w)
      PROVE  CutInv'
  <2>1. Uncut /\ UNCHANGED <<phase, exit>>
    BY <1>5 DEF JobWork, HandOutJob, WorkerEnds, TryAttempt, ProcessEnds, JobPasses, Retry,
                JobFails, SendError, TimePasses, Uncut
  <2> QED
    BY <1>1, <2>1, UncutKeeps DEF CutInv
<1> QED
  BY <1>2, <1>3, <1>4, <1>5, CutPackageKeeps DEF Next, Steps, Main, Exited

LEMMA InitCutInv == Init => CutInv
<1> SUFFICES ASSUME Init PROVE CutInv
  OBVIOUS
<1>1. cut = 0 /\ jobs = <<>> /\ phase = "packages" /\ opts \in Options
  BY DEF Init
<1>2. jobs \in Seq(AJob) /\ Len(jobs) = 0
  BY <1>1
<1> QED
  BY <1>1, <1>2, PackagesCounted DEF CutInv

-----------------------------------------------------------------------------
(* The run of the jobs                                                      *)

Busy(w) == pc[w] \in {"try", "running", "judge", "fail"}

\* No process of job j ended otherwise than by passing, except by a crash of
\* the Go runtime on Windows.
Clean(j) ==
  /\ "fail" \notin verdicts[j].all
  /\ "crash" \in verdicts[j].all => opts.goos = "windows"
Passed(j) == verdicts[j].last = "pass" /\ Clean(j)

(* The jobs are a sequence.                                                 *)
JobsListed == Len(jobs) \in Nat /\ DOMAIN jobs = 1..Len(jobs)

Outcome == {"pass", "fail", "crash"}
RunTyped ==
  /\ given \in Nat
  /\ pc \in [Worker -> {"idle", "try", "running", "judge", "fail", "done"}]
  /\ job \in [Worker -> Nat]
  /\ outcome \in [Worker -> Outcome]
  /\ verdicts \in [DOMAIN jobs -> [last : Outcome \cup {"none"}, all : SUBSET Outcome]]

\* Before the jobs and after them nobody works.
Outside ==
  /\ phase \in {"packages", "discover", "cut"} =>
       /\ given = 0 /\ queue = "open" /\ errs = {} /\ exit = 0
       /\ \A w \in Worker : pc[w] = "idle"
  /\ phase = "done" => \A w \in Worker : ~Busy(w)

\* Each job given has one worker at most, and none once its error is sent.
Serving ==
  /\ given <= Len(jobs)
  /\ errs \subseteq 1..given
  /\ \A w \in Worker : Busy(w) => job[w] \in (1..given) \ errs
  /\ \A w, v \in Worker : w # v /\ Busy(w) /\ Busy(v) => job[w] # job[v]

\* A job given is in work, or passed, or its error is sent.
Accounted ==
  \A j \in 1..given : j \in errs \/ Passed(j) \/ \E w \in Worker : Busy(w) /\ job[w] = j

\* What a worker knows of its job is what the job's processes did.
History ==
  /\ \A j \in DOMAIN jobs : j > given => Clean(j)
  /\ \A w \in Worker : pc[w] \in {"try", "running"} => Clean(job[w])
  /\ \A w \in Worker : pc[w] = "judge" =>
       /\ verdicts[job[w]].last = outcome[w]
       /\ outcome[w] = "pass" \/ Retryable(w) => Clean(job[w])

\* A worker ends with the queue, and the queue ends early only by an interrupt.
Closing ==
  /\ queue = "closed" /\ ~interrupted => given = Len(jobs)
  /\ \A w \in Worker : pc[w] = "done" => queue = "closed"

Green == phase = "done" /\ exit = 0 => \A j \in DOMAIN jobs : Passed(j)

RunInv == RunTyped /\ Outside /\ Serving /\ Accounted /\ History /\ Closing /\ Green

\* Steps that leave the jobs and the workers alone.
Apart == UNCHANGED <<opts, jobs, given, queue, pc, job, outcome, errs, verdicts>>

LEMMA ApartKeeps ==
  ASSUME RunInv, Apart, interrupted => interrupted',
         phase' \in {"packages", "discover", "cut"} => phase \in {"packages", "discover", "cut"} /\ exit' = exit,
         \/ phase' # "done"
         \/ phase = "done" /\ exit' = exit
         \/ phase \in {"packages", "discover", "cut"} /\ exit' = 1
  PROVE  RunInv'
<1>1. RunTyped' /\ Serving' /\ Accounted' /\ History' /\ Closing'
  BY DEF Apart, RunInv, RunTyped, Serving, Accounted, History, Closing, Busy, Passed, Clean, Retryable
<1>2. Outside' /\ Green'
  BY DEF Apart, RunInv, Outside, Green, Passed, Clean, Busy
<1> QED
  BY <1>1, <1>2 DEF RunInv

LEMMA MainKeeps ==
  ASSUME RunInv, JobsListed, JobsListed',
         Main
  PROVE  RunInv'
<1>1. CASE ListPackages
  <2>1. Apart /\ interrupted' = interrupted
    BY <1>1 DEF ListPackages, Apart, dvars
  <2> QED
    BY <1>1, <2>1, ApartKeeps DEF ListPackages
<1>2. CASE Discover
  <2>1. Apart /\ phase' = phase /\ exit' = exit
    BY <1>2 DEF Discover, Apart, rvars
  <2>2. interrupted' = interrupted
    BY <1>2 DEF Discover, Work, HandOut, CheckContext, ListSucceeds, ListFails, QueueEnds, CloseQueue, Publish
  <2> QED
    BY <1>2, <2>1, <2>2, ApartKeeps
<1>3. CASE DiscoveryFails
  <2>1. Apart /\ interrupted' = interrupted
    BY <1>3 DEF DiscoveryFails, Apart, dvars
  <2> QED
    BY <1>3, <2>1, ApartKeeps DEF DiscoveryFails
<1>4. CASE CutPackage
  <2>1. /\ phase = "cut" /\ phase' = "cut"
        /\ UNCHANGED <<opts, exit, given, queue, pc, job, outcome, errs, interrupted>>
        /\ verdicts' = [j \in DOMAIN jobs' |-> [last |-> "none", all |-> {}]]
    BY <1>4 DEF CutPackage, dvars
  <2>2. given = 0 /\ queue = "open" /\ errs = {} /\ exit = 0 /\ \A w \in Worker : pc[w] = "idle"
    BY <2>1 DEF RunInv, Outside
  <2>3. RunTyped'
    BY <2>1 DEF RunInv, RunTyped, Outcome
  <2>4. Outside' /\ Green' /\ Accounted'
    BY <2>1, <2>2 DEF Outside, Green, Accounted
  <2>5. Serving' /\ Closing'
    BY <2>1, <2>2 DEF Serving, Closing, Busy, JobsListed
  <2>6. History'
    BY <2>1, <2>2 DEF History, Clean
  <2> QED
    BY <2>3, <2>4, <2>5, <2>6 DEF RunInv
<1>5. CASE CloseJobs
  <2>1. /\ UNCHANGED <<opts, phase, exit, jobs, given, pc, job, outcome, errs, verdicts, interrupted>>
        /\ phase = "run" /\ queue' = "closed" /\ (given = Len(jobs) \/ interrupted)
    BY <1>5 DEF CloseJobs, dvars
  <2>2. RunTyped' /\ Serving' /\ Accounted' /\ History'
    BY <2>1 DEF RunInv, RunTyped, Serving, Accounted, History, Busy, Passed, Clean, Retryable
  <2>3. Outside' /\ Closing' /\ Green'
    BY <2>1 DEF RunInv, Outside, Closing, Green
  <2> QED
    BY <2>2, <2>3 DEF RunInv
<1>6. CASE Discovered \/ StartJobs
  <2>1. Apart /\ interrupted' = interrupted
    BY <1>6 DEF Discovered, StartJobs, Apart, dvars
  <2> QED
    BY <1>6, <2>1, ApartKeeps DEF Discovered, StartJobs
<1>7. CASE Collect
  <2>1. /\ Apart /\ interrupted' = interrupted /\ phase = "run" /\ phase' = "done"
        /\ \A w \in Worker : pc[w] = "done"
        /\ exit' = 0 => errs = {} /\ ~interrupted
    BY <1>7 DEF Collect, Apart, dvars
  <2>2. RunTyped' /\ Serving' /\ Accounted' /\ History' /\ Closing' /\ Outside'
    BY <2>1 DEF Apart, RunInv, RunTyped, Serving, Accounted, History, Closing, Outside, Busy, Passed, Clean, Retryable
  <2>3. Green'
    <3>1. SUFFICES ASSUME exit' = 0, NEW j \in DOMAIN jobs PROVE Passed(j)
      BY <2>1 DEF Green, Apart, Passed, Clean
    <3>2. given = Len(jobs)
      BY <2>1, <3>1, WorkersAreThere DEF RunInv, Closing
    <3> QED
      BY <2>1, <3>1, <3>2 DEF RunInv, Accounted, JobsListed, Busy
  <2> QED
    BY <2>2, <2>3 DEF RunInv
<1> QED
  BY <1>1, <1>2, <1>3, <1>4, <1>5, <1>6, <1>7 DEF Main

\* A step of a worker that keeps its job.
LEMMA BusyKeeps ==
  ASSUME RunInv, JobsListed, NEW w \in Worker,
         TryAttempt(w) \/ ProcessEnds(w) \/ Retry(w) \/ JobFails(w)
  PROVE  RunInv'
<1>1. /\ UNCHANGED <<opts, phase, exit, jobs, given, queue, job, errs, interrupted>>
      /\ Busy(w)
      /\ \E p \in {"try", "running", "judge", "fail"} : pc' = [pc EXCEPT ![w] = p]
  BY DEF TryAttempt, ProcessEnds, Retry, JobFails, Busy, dvars
<1>2. job[w] \in 1..given /\ job[w] \in DOMAIN jobs /\ given \in Nat
  BY <1>1 DEF RunInv, Serving, RunTyped, JobsListed
<1>3. /\ \A v \in Worker : v # w => pc'[v] = pc[v]
      /\ \A v \in Worker : Busy(v)' <=> Busy(v)
      /\ pc' \in [Worker -> {"idle", "try", "running", "judge", "fail", "done"}]
  BY <1>1 DEF RunInv, RunTyped, Busy
<1>4. CASE ProcessEnds(w)
  <2>1. PICK o \in Outcome :
          /\ outcome' = [outcome EXCEPT ![w] = o]
          /\ verdicts' = [verdicts EXCEPT ![job[w]] = [last |-> o, all |-> @.all \cup {o}]]
    BY <1>4 DEF ProcessEnds, Outcome
  <2>2. pc[w] = "running" /\ pc' = [pc EXCEPT ![w] = "judge"]
    BY <1>4 DEF ProcessEnds
  <2>3. RunTyped'
    <3>1. verdicts[job[w]].all \cup {o} \in SUBSET Outcome
      BY <1>2 DEF RunInv, RunTyped
    <3> QED
      BY <1>1, <1>2, <1>3, <2>1, <3>1 DEF RunInv, RunTyped
  <2>4. /\ \A j \in DOMAIN jobs : j # job[w] => verdicts'[j] = verdicts[j]
        /\ verdicts'[job[w]] = [last |-> o, all |-> verdicts[job[w]].all \cup {o}]
    BY <1>2, <2>1 DEF RunInv, RunTyped
  <2>5. /\ \A v \in Worker : v # w => outcome'[v] = outcome[v]
        /\ outcome'[w] = o
    BY <2>1 DEF RunInv, RunTyped
  <2>6. \A v \in Worker : v # w /\ Busy(v) => job[v] # job[w] /\ job[v] \in DOMAIN jobs
    BY <1>1, <1>2 DEF RunInv, Serving, JobsListed
  <2>7. \A j \in DOMAIN jobs : j # job[w] => (Clean(j)' <=> Clean(j)) /\ (Passed(j)' <=> Passed(j))
    BY <1>1, <2>4 DEF Clean, Passed
  <2>8. o = "pass" \/ (o = "crash" /\ opts.goos = "windows") => Clean(job[w])'
    <3>1. Clean(job[w])
      BY <2>2 DEF RunInv, History
    <3> QED
      BY <1>1, <2>4, <3>1 DEF Clean
  <2>9. Accounted'
    <3>1. SUFFICES ASSUME NEW j \in 1..given, j \notin errs, ~Passed(j)'
                   PROVE  \E v \in Worker : Busy(v)' /\ job[v] = j
      BY <1>1 DEF Accounted
    <3>2. CASE j = job[w]
      BY <1>1, <1>3, <3>2
    <3>3. CASE j # job[w]
      <4>1. j \in DOMAIN jobs
        BY <1>2 DEF RunInv, Serving, JobsListed
      <4>2. ~Passed(j)
        BY <2>7, <3>1, <3>3, <4>1
      <4> QED
        BY <1>3, <3>1, <4>2 DEF RunInv, Accounted
    <3> QED
      BY <3>2, <3>3
  <2>10. History'
    <3>1. \A j \in DOMAIN jobs' : j > given' => Clean(j)'
      BY <1>1, <1>2, <2>7 DEF RunInv, History
    <3>2. ASSUME NEW v \in Worker, v # w
          PROVE  /\ pc'[v] \in {"try", "running"} => Clean(job[v])'
                 /\ pc'[v] = "judge" =>
                      /\ verdicts'[job[v]].last = outcome'[v]
                      /\ outcome'[v] = "pass" \/ Retryable(v)' => Clean(job[v])'
      BY <1>1, <1>3, <2>4, <2>5, <2>6, <2>7, <3>2 DEF RunInv, History, Busy, Retryable
    <3>3. /\ verdicts'[job'[w]].last = outcome'[w]
          /\ outcome'[w] = "pass" \/ Retryable(w)' => Clean(job[w])'
      BY <1>1, <2>4, <2>5, <2>8 DEF Retryable
    <3>4. pc'[w] = "judge"
      BY <2>2 DEF RunInv, RunTyped
    <3> QED
      BY <1>1, <3>1, <3>2, <3>3, <3>4 DEF History
  <2>11. Serving' /\ Closing'
    BY <1>1, <1>3 DEF RunInv, Serving, Closing, Busy
  <2>12. Outside' /\ Green'
    <3>1. phase \notin {"packages", "discover", "cut", "done"}
      BY <1>1 DEF RunInv, Outside, Busy
    <3> QED
      BY <1>1, <3>1 DEF Outside, Green
  <2> QED
    BY <2>3, <2>9, <2>10, <2>11, <2>12 DEF RunInv
<1>5. CASE TryAttempt(w) \/ Retry(w) \/ JobFails(w)
  <2>1. UNCHANGED <<outcome, verdicts>>
    BY <1>5 DEF TryAttempt, Retry, JobFails
  <2>2. RunTyped' /\ Serving' /\ Closing'
    BY <1>1, <1>3, <2>1 DEF RunInv, RunTyped, Serving, Closing, Busy
  <2>3. \A j \in DOMAIN jobs : (Clean(j)' <=> Clean(j)) /\ (Passed(j)' <=> Passed(j))
    BY <1>1, <2>1 DEF Clean, Passed
  <2>4. Accounted'
    BY <1>1, <1>3, <2>1, <2>3 DEF RunInv, Accounted, Passed, Clean
  <2>5. History'
    <3>1. \A j \in DOMAIN jobs' : j > given' => Clean(j)'
      BY <1>1, <2>3 DEF RunInv, History
    <3>2. ASSUME NEW v \in Worker, v # w
          PROVE  /\ pc'[v] \in {"try", "running"} => Clean(job[v])'
                 /\ pc'[v] = "judge" =>
                      /\ verdicts'[job'[v]].last = outcome'[v]
                      /\ outcome'[v] = "pass" \/ Retryable(v)' => Clean(job[v])'
      <4>1. Retryable(v)' <=> Retryable(v)
        BY <1>1, <2>1 DEF Retryable
      <4>2. Clean(job[v])' <=> Clean(job[v])
        BY <1>1, <2>1 DEF Clean
      <4> QED
        BY <1>1, <1>3, <2>1, <3>2, <4>1, <4>2 DEF RunInv, History
    <3>3. pc'[w] \in {"try", "running"} => Clean(job[w])
      <4>1. CASE TryAttempt(w)
        BY <4>1 DEF RunInv, History, TryAttempt
      <4>2. CASE Retry(w)
        BY <4>2 DEF RunInv, History, Retry, MayRetry
      <4>3. CASE JobFails(w)
        BY <4>3 DEF RunInv, RunTyped, JobFails
      <4> QED
        BY <1>5, <4>1, <4>2, <4>3
    <3>4. pc'[w] # "judge"
      BY <1>5 DEF RunInv, RunTyped, TryAttempt, Retry, JobFails
    <3>5. Clean(job[w])' <=> Clean(job[w])
      BY <1>1, <2>1 DEF Clean
    <3> QED
      BY <3>1, <3>2, <3>3, <3>4, <3>5 DEF History
  <2>6. Outside' /\ Green'
    <3>1. phase \notin {"packages", "discover", "cut", "done"}
      BY <1>1 DEF RunInv, Outside, Busy
    <3> QED
      BY <1>1, <3>1 DEF Outside, Green
  <2> QED
    BY <2>2, <2>4, <2>5, <2>6 DEF RunInv
<1> QED
  BY <1>4, <1>5

\* A step that takes a job, or is done with one.
LEMMA TurnKeeps ==
  ASSUME RunInv, JobsListed, NEW w \in Worker,
         HandOutJob(w) \/ WorkerEnds(w) \/ JobPasses(w) \/ SendError(w)
  PROVE  RunInv'
<1>1. CASE HandOutJob(w)
  <2>1. /\ UNCHANGED <<opts, phase, exit, jobs, queue, outcome, errs, verdicts, interrupted>>
        /\ phase = "run" /\ queue = "open" /\ given < Len(jobs) /\ pc[w] = "idle"
        /\ given' = given + 1
        /\ job' = [job EXCEPT ![w] = given + 1]
        /\ pc' = [pc EXCEPT ![w] = "try"]
    BY <1>1 DEF HandOutJob, dvars
  <2>2. /\ given + 1 \in DOMAIN jobs /\ given \in Nat /\ given' \in Nat
        /\ ~Busy(w) /\ Busy(w)' /\ job'[w] = given + 1
        /\ \A v \in Worker : v # w => (Busy(v)' <=> Busy(v)) /\ job'[v] = job[v] /\ pc'[v] = pc[v]
        /\ pc'[w] = "try"
    BY <2>1 DEF RunInv, RunTyped, Serving, JobsListed, Busy
  <2>3. RunTyped'
    BY <2>1, <2>2 DEF RunInv, RunTyped
  <2>4. \A j : (Clean(j)' <=> Clean(j)) /\ (Passed(j)' <=> Passed(j))
    BY <2>1 DEF Clean, Passed
  <2>5. Serving'
    <3>1. given' <= Len(jobs') /\ errs' \subseteq 1..given'
      BY <2>1, <2>2 DEF RunInv, Serving, JobsListed
    <3>2. \A v \in Worker : v # w /\ Busy(v)' => job'[v] \in (1..given) \ errs
      BY <2>2 DEF RunInv, Serving
    <3>3. job'[w] \in (1..given') \ errs' /\ job'[w] \notin 1..given
      BY <2>1, <2>2 DEF RunInv, Serving
    <3>4. \A v \in Worker : Busy(v)' => job'[v] \in (1..given') \ errs'
      BY <2>1, <2>2, <3>2, <3>3
    <3>5. \A v, u \in Worker : v # u /\ Busy(v)' /\ Busy(u)' => job'[v] # job'[u]
      BY <2>2, <3>2, <3>3 DEF RunInv, Serving
    <3> QED
      BY <3>1, <3>4, <3>5 DEF Serving
  <2>6. Accounted'
    <3>1. SUFFICES ASSUME NEW j \in 1..given + 1, j \notin errs, ~Passed(j)
                   PROVE  \E v \in Worker : Busy(v)' /\ job'[v] = j
      BY <2>1, <2>4 DEF Accounted
    <3>2. CASE j = given + 1
      BY <2>2, <3>2
    <3>3. CASE j # given + 1
      <4>1. PICK v \in Worker : Busy(v) /\ job[v] = j
        BY <2>2, <3>1, <3>3 DEF RunInv, Accounted
      <4> QED
        BY <2>2, <4>1
    <3> QED
      BY <3>2, <3>3
  <2>7. History'
    <3>1. \A j \in DOMAIN jobs' : j > given' => Clean(j)'
      BY <2>1, <2>2, <2>4 DEF RunInv, History, JobsListed
    <3>2. Clean(given + 1)
      BY <2>2 DEF RunInv, History
    <3>3. \A v \in Worker : pc'[v] \in {"try", "running"} => Clean(job[v])'
      BY <2>2, <2>4, <3>2 DEF RunInv, History
    <3>4. ASSUME NEW v \in Worker, pc'[v] = "judge"
          PROVE  /\ verdicts'[job'[v]].last = outcome'[v]
                 /\ outcome'[v] = "pass" \/ Retryable(v)' => Clean(job[v])'
      <4>1. v # w /\ pc[v] = "judge" /\ job'[v] = job[v] /\ (Retryable(v)' <=> Retryable(v))
        BY <2>1, <2>2, <3>4 DEF Retryable
      <4> QED
        BY <2>1, <2>4, <4>1 DEF RunInv, History
    <3> QED
      BY <3>1, <3>3, <3>4 DEF History
  <2>8. Closing' /\ Outside' /\ Green'
    BY <2>1, <2>2 DEF RunInv, Closing, Outside, Green
  <2> QED
    BY <2>3, <2>5, <2>6, <2>7, <2>8 DEF RunInv
<1>2. CASE WorkerEnds(w)
  <2>1. /\ UNCHANGED <<opts, phase, exit, jobs, given, queue, job, outcome, errs, verdicts, interrupted>>
        /\ phase = "run" /\ queue = "closed" /\ pc[w] = "idle" /\ pc' = [pc EXCEPT ![w] = "done"]
    BY <1>2 DEF WorkerEnds, dvars
  <2>2. /\ \A v \in Worker : Busy(v)' <=> Busy(v)
        /\ \A v \in Worker : pc'[v] # "done" => pc'[v] = pc[v]
        /\ RunTyped'
    BY <2>1 DEF RunInv, RunTyped, Busy
  <2>3. \A j : (Clean(j)' <=> Clean(j)) /\ (Passed(j)' <=> Passed(j))
    BY <2>1 DEF Clean, Passed
  <2>4. \A v \in Worker : Retryable(v)' <=> Retryable(v)
    BY <2>1 DEF Retryable
  <2>5. Serving' /\ Accounted'
    BY <2>1, <2>2, <2>3 DEF RunInv, Serving, Accounted
  <2>6. History'
    BY <2>1, <2>2, <2>3, <2>4 DEF RunInv, History
  <2>7. Closing' /\ Outside' /\ Green'
    BY <2>1, <2>2 DEF RunInv, Closing, Outside, Green
  <2> QED
    BY <2>2, <2>5, <2>6, <2>7 DEF RunInv
<1>3. CASE JobPasses(w) \/ SendError(w)
  <2>1. /\ UNCHANGED <<opts, phase, exit, jobs, given, queue, verdicts, interrupted>>
        /\ pc' = [pc EXCEPT ![w] = "idle"] /\ job' = [job EXCEPT ![w] = 0]
        /\ outcome' = [outcome EXCEPT ![w] = "pass"]
        /\ Busy(w)
        /\ \/ errs' = errs /\ pc[w] = "judge" /\ outcome[w] = "pass"
           \/ errs' = errs \cup {job[w]}
    BY <1>3 DEF JobPasses, SendError, Forget, Busy, dvars
  <2>2. /\ ~Busy(w)' /\ pc'[w] = "idle"
        /\ \A v \in Worker : v # w =>
             (Busy(v)' <=> Busy(v)) /\ job'[v] = job[v] /\ pc'[v] = pc[v] /\ outcome'[v] = outcome[v]
        /\ RunTyped'
    BY <2>1 DEF RunInv, RunTyped, Busy, Outcome
  <2>3. \A j : (Clean(j)' <=> Clean(j)) /\ (Passed(j)' <=> Passed(j))
    BY <2>1 DEF Clean, Passed
  <2>4. phase = "run" \/ phase \notin {"packages", "discover", "cut", "done"}
    BY <2>1 DEF RunInv, Outside, Busy
  <2>5. Serving'
    <3>1. given' <= Len(jobs') /\ errs' \subseteq 1..given'
      BY <2>1 DEF RunInv, Serving
    <3>2. \A v \in Worker : Busy(v)' => job'[v] \in (1..given') \ errs'
      BY <2>1, <2>2 DEF RunInv, Serving
    <3>3. \A v, u \in Worker : v # u /\ Busy(v)' /\ Busy(u)' => job'[v] # job'[u]
      BY <2>2 DEF RunInv, Serving
    <3> QED
      BY <3>1, <3>2, <3>3 DEF Serving
  <2>6. Accounted'
    <3>1. SUFFICES ASSUME NEW j \in 1..given, j \notin errs', ~Passed(j)
                   PROVE  \E v \in Worker : Busy(v)' /\ job'[v] = j
      BY <2>1, <2>3 DEF Accounted
    <3>2. PICK v \in Worker : Busy(v) /\ job[v] = j
      BY <2>1, <3>1 DEF RunInv, Accounted
    <3>3. v # w
      BY <2>1, <3>1, <3>2 DEF RunInv, History, Passed
    <3> QED
      BY <2>2, <3>2, <3>3
  <2>7. History'
    <3>1. \A j \in DOMAIN jobs' : j > given' => Clean(j)'
      BY <2>1, <2>3 DEF RunInv, History
    <3>2. \A v \in Worker : pc'[v] \in {"try", "running"} => Clean(job[v])'
      BY <2>2, <2>3 DEF RunInv, History
    <3>3. ASSUME NEW v \in Worker, pc'[v] = "judge"
          PROVE  /\ verdicts'[job'[v]].last = outcome'[v]
                 /\ outcome'[v] = "pass" \/ Retryable(v)' => Clean(job[v])'
      <4>1. /\ v # w /\ pc[v] = "judge" /\ job'[v] = job[v] /\ outcome'[v] = outcome[v]
            /\ Retryable(v)' <=> Retryable(v)
        BY <2>1, <2>2, <3>3 DEF Retryable
      <4> QED
        BY <2>1, <2>3, <4>1 DEF RunInv, History
    <3> QED
      BY <3>1, <3>2, <3>3 DEF History
  <2>8. Closing' /\ Outside' /\ Green'
    BY <2>1, <2>2, <2>4 DEF RunInv, Closing, Outside, Green
  <2> QED
    BY <2>2, <2>5, <2>6, <2>7, <2>8 DEF RunInv
<1> QED
  BY <1>1, <1>2, <1>3

LEMMA InitRunInv == Init => RunInv
<1> SUFFICES ASSUME Init PROVE RunInv
  OBVIOUS
<1>1. RunTyped /\ Outside
  BY DEF Init, RunTyped, Outside, Outcome, Busy
<1>2. Serving /\ Accounted /\ History /\ Closing /\ Green
  BY DEF Init, Serving, Accounted, History, Closing, Green, Busy
<1> QED
  BY <1>1, <1>2 DEF RunInv

LEMMA NextRunInv ==
  ASSUME RunInv, JobsListed, JobsListed', [Next]_vars
  PROVE  RunInv'
<1>1. CASE Sigint
  <2>1. Apart /\ phase' = phase /\ exit' = exit /\ interrupted'
    BY <1>1 DEF Sigint, Interrupt, Apart, rvars
  <2> QED
    BY <2>1, ApartKeeps
<1>2. ASSUME NEW w \in Worker, TimePasses(w) PROVE RunInv'
  <2>1. Apart /\ UNCHANGED <<phase, exit, interrupted>>
    BY <1>2 DEF TimePasses, Apart, dvars
  <2> QED
    BY <2>1, ApartKeeps
<1>3. CASE UNCHANGED vars
  <2>1. Apart /\ UNCHANGED <<phase, exit, interrupted>>
    BY <1>3 DEF vars, Apart, rvars, dvars
  <2> QED
    BY <2>1, ApartKeeps
<1>4. ASSUME NEW w \in Worker, JobWork(w) PROVE RunInv'
  BY <1>4, BusyKeeps, TurnKeeps DEF JobWork
<1> QED
  BY <1>1, <1>2, <1>3, <1>4, MainKeeps DEF Next, Steps, Exited

-----------------------------------------------------------------------------
(* The whole run                                                            *)

LEMMA CutIsListed == CutInv => JobsListed
BY DEF CutInv, JobsListed

\* What is left of the types.
Typed ==
  /\ phase \in {"packages", "discover", "cut", "run", "done"} /\ exit \in {0, 1}
  /\ queue \in {"open", "closed"}
  /\ attempt \in [Worker -> 1..Attempts]
  /\ clock \in [Worker -> {"budget", "grace", "over"}]

Inv == DiscoveryInv /\ CutInv /\ RunInv /\ Typed

LEMMA InitTyped == Init => Typed
BY DEF Init, Typed, Attempts

LEMMA NextTyped == ASSUME Typed, [Next]_vars PROVE Typed'
<1> USE DEF Typed
<1>1. CASE Main
  <2>1. UNCHANGED <<attempt, clock>>
    BY <1>1 DEF Main, ListPackages, Discover, Discovered, DiscoveryFails, CutPackage, StartJobs,
                CloseJobs, Collect, rvars
  <2> QED
    BY <1>1, <2>1 DEF Main, ListPackages, Discover, Discovered, DiscoveryFails, CutPackage, StartJobs,
                CloseJobs, Collect, rvars
<1>2. ASSUME NEW w \in Worker, JobWork(w) PROVE Typed'
  <2>1. UNCHANGED <<phase, exit, queue>>
    BY <1>2 DEF JobWork, HandOutJob, WorkerEnds, TryAttempt, ProcessEnds, JobPasses, Retry, JobFails,
                SendError
  <2>2. CASE HandOutJob(w) \/ WorkerEnds(w) \/ TryAttempt(w) \/ ProcessEnds(w) \/ JobFails(w)
    BY <2>1, <2>2 DEF HandOutJob, WorkerEnds, TryAttempt, ProcessEnds, JobFails
  <2>3. CASE JobPasses(w) \/ SendError(w)
    BY <2>1, <2>3 DEF JobPasses, SendError, Forget, Attempts
  <2>4. CASE Retry(w)
    BY <2>1, <2>4 DEF Retry, MayRetry, Attempts
  <2> QED
    BY <1>2, <2>2, <2>3, <2>4 DEF JobWork
<1>3. ASSUME NEW w \in Worker, TimePasses(w) PROVE Typed'
  BY <1>3 DEF TimePasses
<1>4. CASE Sigint \/ UNCHANGED vars
  BY <1>4 DEF Sigint, rvars, vars
<1> QED
  BY <1>1, <1>2, <1>3, <1>4 DEF Next, Steps, Exited

LEMMA RunnerInv == Spec => []Inv
<1>1. Init => Inv
  <2>1. Init => DiscoveryInv
    BY InitDiscoveryInv DEF Init
  <2> QED
    BY <2>1, InitCutInv, InitRunInv, InitTyped DEF Inv
<1>2. Inv /\ [Next]_vars => Inv'
  <2> SUFFICES ASSUME Inv, [Next]_vars PROVE Inv'
    OBVIOUS
  <2>1. DiscoveryInv'
    BY RunIsDiscovery, NextTypeOK, NextNothingDropped, NextClosedWhenEmpty, NextPublishedComplete
       DEF Inv, DiscoveryInv
  <2>2. CutInv'
    BY NextCutInv DEF Inv
  <2>3. JobsListed /\ JobsListed'
    BY <2>2, CutIsListed DEF Inv, CutInv, JobsListed
  <2>4. RunInv'
    BY <2>3, NextRunInv DEF Inv
  <2> QED
    BY <2>1, <2>2, <2>4, NextTyped DEF Inv
<1> QED
  BY <1>1, <1>2, PTL DEF Spec

(* Type correctness of the whole run.                                       *)
THEOREM RunnerTyped == Spec => []TypeOK
<1>1. Inv => TypeOK
  <2> SUFFICES ASSUME Inv PROVE TypeOK
    OBVIOUS
  <2>1. DTypeOK
    BY DEF Inv, DiscoveryInv
  <2>2. JobsListed
    BY CutIsListed DEF Inv
  <2>3. \A j \in DOMAIN jobs : jobs[j].pkg \in Index /\ jobs[j].names # <<>>
    <3>1. jobs \in Seq(AJob) /\ DOMAIN jobs = 1..Len(jobs)
      BY <2>2 DEF Inv, CutInv, JobsListed
    <3>2. \A a \in AJob : a.pkg \in Index /\ a.names # <<>>
      BY DEF AJob
    <3> QED
      BY <3>1, <3>2
  <2>4. given \in 0..Len(jobs) /\ errs \subseteq DOMAIN jobs
    BY <2>2 DEF Inv, RunInv, RunTyped, Serving, JobsListed
  <2>5. \A w \in Worker : pc[w] \in {"try", "running", "judge", "fail"} => job[w] \in DOMAIN jobs
    BY <2>2 DEF Inv, RunInv, RunTyped, Serving, JobsListed, Busy
  <2>6. /\ pc \in [Worker -> {"idle", "try", "running", "judge", "fail", "done"}]
        /\ outcome \in [Worker -> {"pass", "fail", "crash"}]
        /\ DOMAIN verdicts = DOMAIN jobs
    BY DEF Inv, RunInv, RunTyped, Outcome
  <2>7. opts \in Options /\ cut \in 0..N
    BY DEF Inv, CutInv
  <2> QED
    BY <2>1, <2>3, <2>4, <2>5, <2>6, <2>7 DEF TypeOK, Inv, Typed
<1> QED
  BY <1>1, RunnerInv, PTL

(* No test process is given more names than -max-tests-per-job, whatever    *)
(* the sizes of the packages and the number of workers.                     *)
THEOREM JobsAlwaysFit == Spec => []JobsFit
<1>1. Inv => JobsFit
  BY CutIsListed DEF Inv, CutInv, JobsFit, JobsListed
<1> QED
  BY <1>1, RunnerInv, PTL

(* Over all external shards, each discovered test is at one place of one    *)
(* job: none is lost between the shards, none is run twice.                 *)
THEOREM EachTestHasOnePlace == Spec => []EveryTestOnce
<1>1. Inv => EveryTestOnce
  <2> DEFINE count == opts.count
             Shard == 0..count - 1
  <2> SUFFICES ASSUME Inv, phase = "cut", NEW i \in Index
               PROVE  /\ \A n \in Range(Listing[i]) : \E s \in Shard : \E g \in DOMAIN JobsOfPackage(i, s) :
                           n \in Range(JobsOfPackage(i, s)[g].names)
                      /\ \A s, t \in Shard :
                           \A g \in DOMAIN JobsOfPackage(i, s), h \in DOMAIN JobsOfPackage(i, t) :
                             LET here == JobsOfPackage(i, s)[g].names
                                 there == JobsOfPackage(i, t)[h].names
                             IN  \A k \in DOMAIN here, l \in DOMAIN there :
                                   here[k] = there[l] => s = t /\ g = h /\ k = l
    BY DEF EveryTestOnce
  <2> DEFINE names == Listing[i]
  <2>1. /\ opts \in Options /\ count \in Nat \ {0}
        /\ \A p \in Index : results[p] = Listing[p]
    BY OptionsValid DEF Inv, CutInv, DiscoveryInv, PublishedComplete
  <2>2. ASSUME NEW s
        PROVE  LET made == JobsOfPackage(i, s)
                   kept == Kept(i, names, s, count)
               IN  /\ \A g \in DOMAIN made : \A k \in DOMAIN made[g].names :
                        \E m \in kept : made[g].names[k] = names[m]
                   /\ \A m \in kept : \E g \in DOMAIN made : \E k \in DOMAIN made[g].names :
                        made[g].names[k] = names[m]
                   /\ \A g, h \in DOMAIN made :
                        \A k \in DOMAIN made[g].names, l \in DOMAIN made[h].names :
                          made[g].names[k] = made[h].names[l] => g = h /\ k = l
    <3>1. JobsMade(JobsOfPackage(i, s), i, names, opts.max, Kept(i, names, s, count))
      BY <2>1, JobsOfInventory
    <3> QED
      BY <3>1 DEF JobsMade
  <2>3. ASSUME NEW n \in Range(names)
        PROVE  \E s \in Shard : \E g \in DOMAIN JobsOfPackage(i, s) : n \in Range(JobsOfPackage(i, s)[g].names)
    <3>1. PICK m \in DOMAIN names : n = names[m]
      BY DEF Range
    <3>2. PICK s \in Shard : m \in Kept(i, names, s, count)
      <4>1. CASE count = 1
        <5>1. m \in Kept(i, names, 0, count) /\ 0 \in Shard
          BY <4>1 DEF Kept
        <5> QED
          BY <5>1
      <4>2. CASE count # 1
        <5>1. Hash[<<i, names[m]>>] \in Nat
          BY HashIsNumber
        <5>2. Hash[<<i, names[m]>>] % count \in Shard
          BY <2>1, <5>1
        <5> QED
          BY <5>2 DEF Kept
      <4> QED
        BY <4>1, <4>2
    <3> DEFINE made == JobsOfPackage(i, s)
    <3>3. \E g \in DOMAIN made : \E k \in DOMAIN made[g].names : made[g].names[k] = names[m]
      BY <2>2, <3>2
    <3> HIDE DEF made
    <3>4. \E g \in DOMAIN made : n \in Range(made[g].names)
      BY <3>1, <3>3 DEF Range
    <3> QED
      BY <3>4 DEF made
  <2>4. ASSUME NEW s \in Shard, NEW t \in Shard,
               NEW g \in DOMAIN JobsOfPackage(i, s), NEW h \in DOMAIN JobsOfPackage(i, t),
               NEW k \in DOMAIN JobsOfPackage(i, s)[g].names,
               NEW l \in DOMAIN JobsOfPackage(i, t)[h].names,
               JobsOfPackage(i, s)[g].names[k] = JobsOfPackage(i, t)[h].names[l]
        PROVE  s = t /\ g = h /\ k = l
    <3> DEFINE n == JobsOfPackage(i, s)[g].names[k]
    <3>1. PICK x \in Kept(i, names, s, count) : n = names[x]
      BY <2>2
    <3>2. PICK y \in Kept(i, names, t, count) : n = names[y]
      BY <2>2, <2>4
    <3> HIDE DEF n
    <3>3. x = y
      BY <3>1, <3>2, ListingsCompact DEF Kept
    <3>4. s = t
      BY <2>1, <3>1, <3>2, <3>3 DEF Kept
    <3> QED
      BY <2>2, <2>4, <3>4
  <2> QED
    BY <2>3, <2>4
<1> QED
  BY <1>1, RunnerInv, PTL

(* Exit code 0 proves that every test of the external shard was run, in a   *)
(* job whose last process passed, and that retries hid no failure.          *)
THEOREM GreenRunRanAll == Spec => []GreenMeansAllRan
<1>1. Inv => GreenMeansAllRan
  <2> SUFFICES ASSUME Inv, phase = "done", exit = 0 PROVE
        /\ \A t \in Selected : \E j \in DOMAIN jobs :
             /\ jobs[j].pkg = t[1] /\ t[2] \in Range(jobs[j].names)
             /\ verdicts[j].last = "pass"
        /\ \A j \in DOMAIN jobs :
             /\ "fail" \notin verdicts[j].all
             /\ "crash" \in verdicts[j].all => opts.goos = "windows"
    BY DEF GreenMeansAllRan
  <2>1. DOMAIN jobs = 1..Len(jobs) /\ \A j \in DOMAIN jobs : Passed(j)
    BY CutIsListed DEF Inv, RunInv, Green, JobsListed
  <2>2. ASSUME NEW t \in Selected
        PROVE  \E j \in DOMAIN jobs : /\ jobs[j].pkg = t[1] /\ t[2] \in Range(jobs[j].names)
                                      /\ verdicts[j].last = "pass"
    <3>1. PICK i \in Index : t \in {i} \X Range(Listing[i])
      BY DEF Selected
    <3>2. t[1] = i /\ t[2] \in Range(Listing[i])
      BY <3>1
    <3>3. PICK m \in DOMAIN Listing[i] : t[2] = Listing[i][m]
      BY <3>2 DEF Range
    <3>4. m \in Kept(i, Listing[i], opts.index, opts.count)
      BY <3>2, <3>3 DEF Selected, Kept
    <3>5. Placed(i, Listing[i][m])
      <4>1. cut = N
        BY DEF Inv, CutInv
      <4> QED
        BY <3>4, <4>1 DEF Inv, CutInv, Index
    <3>6. PICK j \in 1..Len(jobs) : jobs[j].pkg = i /\ \E k \in DOMAIN jobs[j].names : jobs[j].names[k] = t[2]
      BY <3>3, <3>5 DEF Placed
    <3>7. t[2] \in Range(jobs[j].names)
      BY <3>6 DEF Range
    <3> QED
      BY <2>1, <3>2, <3>6, <3>7 DEF Passed
  <2> QED
    BY <2>1, <2>2 DEF Passed, Clean
<1> QED
  BY <1>1, RunnerInv, PTL

\* No worker finds the errors' channel full.
ErrorsHaveRoom == \A w \in Worker : pc[w] = "fail" => Cardinality(errs) < RoomForErrors
LEMMA InvHasRoom == Inv => ErrorsHaveRoom
<1> SUFFICES ASSUME RunInv, JobsListed, NEW w \in Worker, pc[w] = "fail"
             PROVE  Cardinality(errs) < RoomForErrors
  BY CutIsListed DEF Inv, ErrorsHaveRoom
<1>1. /\ job[w] \in (1..given) \ errs /\ errs \subseteq 1..given
      /\ given \in Nat /\ given <= Len(jobs) /\ Len(jobs) \in Nat
  BY DEF RunInv, RunTyped, Serving, Busy, JobsListed
<1>2. IsFiniteSet(1..given) /\ Cardinality(1..given) = given
  BY <1>1, FS_Interval
<1>3. /\ IsFiniteSet((1..given) \ {job[w]})
      /\ Cardinality((1..given) \ {job[w]}) = given - 1
  BY <1>1, <1>2, FS_RemoveElement
<1>4. Cardinality(errs) <= given - 1 /\ Cardinality(errs) \in Nat
  <2>1. errs \subseteq (1..given) \ {job[w]}
    BY <1>1
  <2>2. IsFiniteSet(errs) /\ Cardinality(errs) <= Cardinality((1..given) \ {job[w]})
    BY <1>3, <2>1, FS_Subset
  <2> QED
    BY <1>3, <2>2, FS_CardinalityType
<1> QED
  BY <1>1, <1>4 DEF RoomForErrors

(* The buffer of the errors' channel is large enough: a worker with an      *)
(* error to send never finds it full, so none waits for a reader that only  *)
(* comes when all workers are done.                                         *)
THEOREM NoWorkerBlocks == Spec => []ErrorsHaveRoom
BY InvHasRoom, RunnerInv, PTL

-----------------------------------------------------------------------------
(* A worker stops its listing only when the context is done or the queue is *)
(* closed.                                                                  *)
StopsInTime == \A w \in Worker : at[w] = "stopped" => canceled \/ main # "dispatch"

LEMMA NextStopsInTime ==
  ASSUME DTypeOK, StopsInTime, [DNext]_dvars
  PROVE  StopsInTime'
<1>1. ASSUME NEW w \in Worker, HandOut(w) \/ CheckContext(w) \/ ListSucceeds(w)
      PROVE  StopsInTime'
  <2>1. /\ UNCHANGED <<canceled, main>>
        /\ \A v \in Worker : at'[v] = at[v] \/ at'[v] # "stopped" \/ canceled
    BY <1>1 DEF HandOut, CheckContext, ListSucceeds, DTypeOK
  <2> QED
    BY <2>1 DEF StopsInTime
<1>2. ASSUME NEW w \in Worker, ListFails(w) PROVE StopsInTime'
  BY <1>2 DEF ListFails, StopsInTime
<1>3. ASSUME NEW w \in Worker, QueueEnds(w) PROVE StopsInTime'
  BY <1>3 DEF QueueEnds, StopsInTime
<1>4. CASE CloseQueue \/ Publish
  <2>1. main' # "dispatch"
    BY <1>4 DEF CloseQueue, Publish
  <2> QED
    BY <2>1 DEF StopsInTime
<1>5. CASE Interrupt \/ UNCHANGED dvars
  BY <1>5 DEF Interrupt, dvars, StopsInTime
<1> QED
  BY <1>1, <1>2, <1>3, <1>4, <1>5 DEF DNext, Work

\* A worker of the discovery, and one of the run, has a step to take.
CanList(w) ==
  \/ at[w] \in {"received", "listing"}
  \/ at[w] = "idle" /\ (main = "wait" \/ (main = "dispatch" /\ next <= N))
CanServe(w) ==
  \/ pc[w] \in {"try", "running", "judge"}
  \/ pc[w] = "fail" /\ Cardinality(errs) < RoomForErrors
  \/ pc[w] = "idle" /\ (queue = "closed" \/ given < Len(jobs))

(* Not everyone waits for everyone: in both pools there is always a worker  *)
(* that can go on, or the dispatcher or the one who collects can.           *)
SomeoneGoesOn ==
  /\ phase = "discover" =>
       \/ main \in {"ok", "error"}
       \/ main = "dispatch" /\ (next > N \/ canceled)
       \/ main = "wait" /\ \A w \in Worker : at[w] = "stopped"
       \/ \E w \in Worker : CanList(w)
  /\ phase = "run" =>
       \/ \A w \in Worker : pc[w] = "done"
       \/ queue = "open" /\ (given = Len(jobs) \/ interrupted)
       \/ \E w \in Worker : CanServe(w)

LEMMA SomeoneLists ==
  ASSUME DTypeOK, StopsInTime
  PROVE  \/ main \in {"ok", "error"}
         \/ main = "dispatch" /\ (next > N \/ canceled)
         \/ main = "wait" /\ \A w \in Worker : at[w] = "stopped"
         \/ \E w \in Worker : CanList(w)
<1>1. CASE main = "dispatch" /\ next <= N /\ ~canceled
  <2>1. PICK w \in Worker : TRUE
    BY WorkersAreThere
  <2>2. at[w] \in {"idle", "received", "listing"}
    BY <1>1 DEF StopsInTime, DTypeOK
  <2> QED
    BY <1>1, <2>2 DEF CanList
<1>2. ASSUME main = "wait", NEW w \in Worker, at[w] # "stopped" PROVE CanList(w)
  BY <1>2 DEF DTypeOK, CanList
<1>3. next > N \/ next <= N
  BY PackagesCounted DEF DTypeOK
<1> QED
  BY <1>1, <1>2, <1>3 DEF DTypeOK

(* No number of workers, packages and jobs, no failure, interrupt or loss   *)
(* of time leaves testparallel with everyone waiting: neither pool of       *)
(* workers stops before its dispatcher does (discoverTests, runJobs).       *)
THEOREM NobodyWaitsForEver == Spec => []SomeoneGoesOn
<1>1. Inv /\ StopsInTime => SomeoneGoesOn
  <2> SUFFICES ASSUME Inv, StopsInTime PROVE SomeoneGoesOn
    OBVIOUS
  <2>1. ASSUME queue # "open" \/ ~(given = Len(jobs) \/ interrupted), NEW w \in Worker, pc[w] # "done"
        PROVE  CanServe(w)
    <3>1. queue \in {"open", "closed"} /\ given \in Nat /\ given <= Len(jobs) /\ Len(jobs) \in Nat
      BY CutIsListed DEF Inv, Typed, RunInv, RunTyped, Serving, JobsListed
    <3>2. pc[w] \in {"idle", "try", "running", "judge", "fail"}
      BY <2>1 DEF Inv, RunInv, RunTyped
    <3>3. pc[w] = "fail" => Cardinality(errs) < RoomForErrors
      BY InvHasRoom DEF ErrorsHaveRoom
    <3>4. queue = "closed" \/ given < Len(jobs)
      BY <2>1, <3>1
    <3> QED
      BY <3>2, <3>3, <3>4 DEF CanServe
  <2>2. DTypeOK
    BY DEF Inv, DiscoveryInv
  <2> QED
    BY <2>1, <2>2, SomeoneLists DEF SomeoneGoesOn
<1>2. Init => StopsInTime
  BY DEF Init, DInit, StopsInTime
<1>3. Inv /\ StopsInTime /\ [Next]_vars => StopsInTime'
  BY RunIsDiscovery, NextStopsInTime DEF Inv, DiscoveryInv
<1> QED
  BY <1>1, <1>2, <1>3, RunnerInv, PTL DEF Spec
=============================================================================
