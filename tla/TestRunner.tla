----------------------------- MODULE TestRunner -----------------------------
(***************************************************************************)
(* testparallel from the package list to its exit code                     *)
(* (internal/testparallel/main.go): discovery, the cut into jobs, and      *)
(* runJobs: a dispatcher goroutine hands jobs to workers, each runs a job  *)
(* as one or more attempts of a "go test" process (runTestAttempts) within *)
(* one time budget, the errors are collected when every worker is done.    *)
(***************************************************************************)
EXTENDS TestDiscovery, TestShards

CONSTANTS
  Options   (* the command lines: [count, index, max, goos], see TypeOK      *)
ASSUME OptionsValid ==
  \A o \in Options : o.count \in Nat \ {0} /\ o.index \in 0..o.count - 1 /\ o.max \in Nat \ {0}
ASSUME HashIsNumber ==
  \A i \in Index : \A k \in DOMAIN Listing[i] : Hash[<<i, Listing[i][k]>>] \in Nat

Attempts == 3   \* windowsRuntimeCrashAttempts

VARIABLES
  opts,      (* one of Options; -shard-count, -shard-index, -max-tests-per-job *)
  phase,     (* "packages", "discover", "cut", "run", "done"                *)
  exit,      (* the exit code, meaningful when done                         *)
  cut,       (* how many packages are cut into jobs                         *)
  jobs, given,  (* the jobs, and how many were handed out                   *)
  queue,     (* "open" or "closed"                                          *)
  pc,        (* pc[w]: "idle", "try", "running", "judge", "fail", "done"    *)
  job,       (* job[w]: the index of its job, 0 when it has none            *)
  attempt,   (* attempt[w]: 1..Attempts                                     *)
  outcome,   (* outcome[w]: of its last process: "pass", "fail", "crash"    *)
  clock,     (* clock[w]: "budget" left, "grace" left, or "over"            *)
  errs,      (* the jobs whose errors are in the errors' channel            *)
  verdicts   (* verdicts[j]: [last, all], the outcomes of job j's processes  *)
rvars == <<opts, phase, exit, cut, jobs, given, queue, pc, job, attempt, outcome,
           clock, errs, verdicts>>
vars == <<dvars, rvars>>

Init ==
  /\ DInit
  /\ opts \in Options
  /\ phase = "packages" /\ exit = 0
  /\ cut = 0 /\ jobs = <<>> /\ given = 0 /\ queue = "open"
  /\ pc = [w \in Worker |-> "idle"] /\ job = [w \in Worker |-> 0]
  /\ attempt = [w \in Worker |-> 1] /\ outcome = [w \in Worker |-> "pass"]
  /\ clock = [w \in Worker |-> "budget"]
  /\ errs = {} /\ verdicts = <<>>

-----------------------------------------------------------------------------
(* main                                                                     *)

\* go list names the packages, or fails (an interrupt kills it).
ListPackages ==
  /\ phase = "packages"
  /\ \/ ~interrupted /\ phase' = "discover" /\ exit' = exit
     \/ phase' = "done" /\ exit' = 1
  /\ UNCHANGED <<opts, cut, jobs, given, queue, pc, job, attempt, outcome, clock, errs, verdicts, dvars>>

Discover ==
  /\ phase = "discover"
  /\ (\E w \in Worker : Work(w)) \/ CloseQueue \/ Publish
  /\ UNCHANGED rvars

\* SIGINT, in any phase.
Sigint == phase # "done" /\ Interrupt /\ UNCHANGED rvars

\* The jobs of package i on an external shard.
JobsOfPackage(i, index) == MakeTestJobs(i, results[i], Cardinality(Worker), opts.max, index, opts.count)

Discovered ==
  /\ phase = "discover" /\ main = "ok"
  /\ phase' = "cut"
  /\ UNCHANGED <<opts, exit, cut, jobs, given, queue, pc, job, attempt, outcome, clock, errs, verdicts, dvars>>

\* Package by package, the jobs are appended.
CutPackage ==
  /\ phase = "cut" /\ cut < N
  /\ cut' = cut + 1
  /\ jobs' = jobs \o JobsOfPackage(cut + 1, opts.index)
  /\ verdicts' = [j \in DOMAIN jobs' |-> [last |-> "none", all |-> {}]]
  /\ UNCHANGED <<opts, phase, exit, given, queue, pc, job, attempt, outcome, clock, errs, dvars>>

StartJobs ==
  /\ phase = "cut" /\ cut = N
  /\ phase' = "run"
  /\ UNCHANGED <<opts, exit, cut, jobs, given, queue, pc, job, attempt, outcome, clock, errs, verdicts, dvars>>

DiscoveryFails ==
  /\ phase = "discover" /\ main = "error"
  /\ phase' = "done" /\ exit' = 1
  /\ UNCHANGED <<opts, cut, jobs, given, queue, pc, job, attempt, outcome, clock, errs, verdicts, dvars>>

\* Every worker is done: the errors and the context decide.
Collect ==
  /\ phase = "run" /\ \A w \in Worker : pc[w] = "done"
  /\ phase' = "done"
  /\ exit' = IF errs = {} /\ ~interrupted THEN 0 ELSE 1
  /\ UNCHANGED <<opts, cut, jobs, given, queue, pc, job, attempt, outcome, clock, errs, verdicts, dvars>>

-----------------------------------------------------------------------------
(* runJobs                                                                  *)

HandOutJob(w) ==
  /\ phase = "run" /\ queue = "open" /\ given < Len(jobs) /\ pc[w] = "idle"
  /\ given' = given + 1
  /\ job' = [job EXCEPT ![w] = given + 1]
  /\ pc' = [pc EXCEPT ![w] = "try"]
  /\ UNCHANGED <<opts, phase, exit, cut, jobs, queue, attempt, outcome, clock, errs, verdicts, dvars>>

\* The dispatcher returns: all jobs are given, or the caller's context is done.
CloseJobs ==
  /\ phase = "run" /\ queue = "open"
  /\ given = Len(jobs) \/ interrupted
  /\ queue' = "closed"
  /\ UNCHANGED <<opts, phase, exit, cut, jobs, given, pc, job, attempt, outcome, clock, errs, verdicts, dvars>>

WorkerEnds(w) ==
  /\ phase = "run" /\ queue = "closed" /\ pc[w] = "idle"
  /\ pc' = [pc EXCEPT ![w] = "done"]
  /\ UNCHANGED <<opts, phase, exit, cut, jobs, given, queue, job, attempt, outcome, clock, errs, verdicts, dvars>>

-----------------------------------------------------------------------------
(* runTestAttempts, for the job of worker w                                 *)

\* The clock of an attempt: the budget is spent, then the grace after it.
TimePasses(w) ==
  /\ pc[w] \in {"try", "running", "judge"}
  /\ \/ clock[w] = "budget" /\ clock' = [clock EXCEPT ![w] = "grace"]
     \/ clock[w] = "grace" /\ clock' = [clock EXCEPT ![w] = "over"]
  /\ UNCHANGED <<opts, phase, exit, cut, jobs, given, queue, pc, job, attempt, outcome, errs, verdicts, dvars>>

ContextDone(w) == interrupted \/ clock[w] = "over"

\* No process starts without budget left.
TryAttempt(w) ==
  /\ pc[w] = "try"
  /\ pc' = [pc EXCEPT ![w] = IF clock[w] = "budget" THEN "running" ELSE "fail"]
  /\ UNCHANGED <<opts, phase, exit, cut, jobs, given, queue, job, attempt, outcome, clock, errs, verdicts, dvars>>

\* The process ends; one that starts or runs under a done context may be killed.
\* "crash": the Go runtime crashed on Windows and nothing conclusive was printed.
ProcessEnds(w) ==
  /\ pc[w] = "running"
  /\ \E o \in {"pass", "fail", "crash"} :
       /\ outcome' = [outcome EXCEPT ![w] = o]
       /\ verdicts' = [verdicts EXCEPT ![job[w]] = [last |-> o, all |-> @.all \cup {o}]]
  /\ pc' = [pc EXCEPT ![w] = "judge"]
  /\ UNCHANGED <<opts, phase, exit, cut, jobs, given, queue, job, attempt, clock, errs, dvars>>

\* Faulty variant: any failure on Windows is retried.
RetryableAnyFailure(w) == outcome[w] # "pass" /\ opts.goos = "windows"

Retryable(w) == outcome[w] = "crash" /\ opts.goos = "windows"

\* The job is over: the attempts' state goes with it.
Forget(w) ==
  /\ job' = [job EXCEPT ![w] = 0]
  /\ attempt' = [attempt EXCEPT ![w] = 1]
  /\ outcome' = [outcome EXCEPT ![w] = "pass"]
  /\ clock' = [clock EXCEPT ![w] = "budget"]

\* The process is judged: by the context, by its outcome, by the deadline.
JobPasses(w) ==
  /\ pc[w] = "judge" /\ ~ContextDone(w) /\ outcome[w] = "pass"
  /\ pc' = [pc EXCEPT ![w] = "idle"]
  /\ Forget(w)
  /\ UNCHANGED <<opts, phase, exit, cut, jobs, given, queue, errs, verdicts, dvars>>

MayRetry(w) == ~ContextDone(w) /\ Retryable(w) /\ attempt[w] < Attempts /\ clock[w] = "budget"

Retry(w) ==
  /\ pc[w] = "judge" /\ MayRetry(w)
  /\ pc' = [pc EXCEPT ![w] = "try"]
  /\ attempt' = [attempt EXCEPT ![w] = @ + 1]
  /\ UNCHANGED <<opts, phase, exit, cut, jobs, given, queue, job, outcome, clock, errs, verdicts, dvars>>

JobFails(w) ==
  /\ pc[w] = "judge" /\ ~MayRetry(w)
  /\ ContextDone(w) \/ outcome[w] # "pass"
  /\ pc' = [pc EXCEPT ![w] = "fail"]
  /\ UNCHANGED <<opts, phase, exit, cut, jobs, given, queue, job, attempt, outcome, clock, errs, verdicts, dvars>>

\* Faulty variant: a slot for each worker's error.
RoomPerWorker == Cardinality(Worker)

\* The capacity of the errors' channel, which nobody drains before the end.
RoomForErrors == Len(jobs)

SendError(w) ==
  /\ pc[w] = "fail" /\ Cardinality(errs) < RoomForErrors
  /\ errs' = errs \cup {job[w]}
  /\ pc' = [pc EXCEPT ![w] = "idle"]
  /\ Forget(w)
  /\ UNCHANGED <<opts, phase, exit, cut, jobs, given, queue, verdicts, dvars>>

-----------------------------------------------------------------------------
JobWork(w) ==
  \/ HandOutJob(w) \/ WorkerEnds(w) \/ TryAttempt(w) \/ ProcessEnds(w)
  \/ JobPasses(w) \/ Retry(w) \/ JobFails(w) \/ SendError(w)
Main ==
  \/ ListPackages \/ Discover \/ Discovered \/ DiscoveryFails
  \/ CutPackage \/ StartJobs \/ CloseJobs \/ Collect
Steps == Main \/ \E w \in Worker : JobWork(w)
\* The process has exited.
Exited == phase = "done" /\ UNCHANGED vars
Next == Steps \/ Sigint \/ (\E w \in Worker : TimePasses(w)) \/ Exited

\* Goroutines are scheduled, and a go test process ends: it is given a timeout
\* and killed when the context is done. Neither time nor an interrupt is fair.
Fairness ==
  /\ WF_vars(Main)
  /\ \A w \in Worker : WF_vars(JobWork(w))
Spec == Init /\ [][Next]_vars
FairSpec == Spec /\ Fairness

-----------------------------------------------------------------------------
(* Type invariant of the run.                                               *)
TypeOK ==
  /\ DTypeOK
  /\ opts \in Options
  /\ phase \in {"packages", "discover", "cut", "run", "done"} /\ cut \in 0..N /\ exit \in {0, 1}
  /\ \A j \in DOMAIN jobs : jobs[j].pkg \in Index /\ jobs[j].names # <<>>
  /\ given \in 0..Len(jobs) /\ queue \in {"open", "closed"}
  /\ pc \in [Worker -> {"idle", "try", "running", "judge", "fail", "done"}]
  /\ \A w \in Worker : pc[w] \in {"try", "running", "judge", "fail"} => job[w] \in DOMAIN jobs
  /\ attempt \in [Worker -> 1..Attempts]
  /\ outcome \in [Worker -> {"pass", "fail", "crash"}]
  /\ clock \in [Worker -> {"budget", "grace", "over"}]
  /\ DOMAIN verdicts = DOMAIN jobs /\ errs \subseteq DOMAIN jobs

(* A green run proves something: exit code 0 means that every test of this  *)
(* external shard was in a job whose last process passed, that no process   *)
(* of a job ever failed conclusively (a retry hides nothing but runtime     *)
(* crashes, and only on Windows), and that every package was discovered.    *)
Selected == {t \in UNION {{i} \X Range(Listing[i]) : i \in Index} :
               opts.count = 1 \/ Hash[<<t[1], t[2]>>] % opts.count = opts.index}
GreenMeansAllRan ==
  phase = "done" /\ exit = 0 =>
    /\ \A t \in Selected : \E j \in DOMAIN jobs :
         /\ jobs[j].pkg = t[1] /\ t[2] \in Range(jobs[j].names)
         /\ verdicts[j].last = "pass"
    /\ \A j \in DOMAIN jobs :
         /\ "fail" \notin verdicts[j].all
         /\ "crash" \in verdicts[j].all => opts.goos = "windows"

(* Whatever the number of external shards, workers and tests: taken over    *)
(* all shards, each discovered test is at one place of one job.             *)
EveryTestOnce ==
  phase = "cut" =>
    LET Shard == 0..opts.count - 1
    IN  \A i \in Index :
          /\ \A n \in Range(Listing[i]) : \E s \in Shard : \E g \in DOMAIN JobsOfPackage(i, s) :
               n \in Range(JobsOfPackage(i, s)[g].names)
          /\ \A s, t \in Shard : \A g \in DOMAIN JobsOfPackage(i, s), h \in DOMAIN JobsOfPackage(i, t) :
               LET here == JobsOfPackage(i, s)[g].names
                   there == JobsOfPackage(i, t)[h].names
               IN  \A k \in DOMAIN here, l \in DOMAIN there :
                     here[k] = there[l] => s = t /\ g = h /\ k = l

(* "-max-tests-per-job: maximum discovered test names in each test process".*)
JobsFit == \A j \in DOMAIN jobs : Len(jobs[j].names) <= opts.max

(* The program exits: no worker waits for ever on a full errors channel, no *)
(* dispatcher on workers that have stopped.                                 *)
Terminates == <>(phase = "done")
=============================================================================
