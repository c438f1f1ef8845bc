# A TLA+ model of perfscan

perfscan is a performance linter for Go with automatic fixes, a baseline
ratchet, and a set of tools around it: a parallel test runner and a supervised
trace recorder among them. This directory holds specifications of the parts
whose correctness is a matter of order, interleaving and failure, the TLC
instances that check them, and theorems that TLAPS proves for every instance.

    tlc -workers 2 -config MCFixApply.cfg MCFixApply     (any run below)
    tlapm FixApplyProofs.tla                             (any *Proofs module)

## The system

| part | code | state | operations | what is hard | modelled |
| --- | --- | --- | --- | --- | --- |
| Fix application | `internal/runner/runner.go` 1025-1595, `writeguard.go` | files on disk, fixes by file, accepted edits, counters | group, reject a file, order, accept or skip, splice, clean imports, write or show | overlapping and malformed fixes, offsets, several checks editing one import block, failing writes | FixApply |
| Unified diff | `internal/runner/diff.go` 44-223 | the alignment and the hunks so far | table, walk, grouping, headers | boundaries of hunks, empty sides, common ends | UnifiedDiff |
| Pipeline and baseline | `runner.go` 95-291, 890-1023, `baseline.go` | sources, baseline file, findings of a run | load, filter, write or apply the baseline, fix, report | two runs, a torn file, identity of a finding across modules and scopes, counts | Pipeline, Baseline |
| Selection and scan scope | `runner.go` 632-685, `scan_scope.go`, `checks/ps6141_policy.go` | what the loader observed, contracts and policies | select, probe, load, probe again, exempt | the toolchain, the driver or a file changes meanwhile | Scan |
| Fact store | `runner.go` 702-871, `checks/ps6103.go` | facts of functions, the memo of a pass | order the packages, resolve, export, import | recursion, order of packages and of functions | FactFlow |
| Trace capture | `traceevidence/capture.go`, `preflight.go`, `validate.go`, `supervision.go` | private artifacts, digests, `result.json` | classify, hash, compile, record, export, validate, publish | a failure, a cancellation or a change between any two of them | Capture |
| Trace supervisor | `traceevidence/supervisor/supervisor.c`, `supervision.go` 286-370 | two child processes, four streams, a deadline each | spawn suspended, resume when recorded, drain, clean up, print a record; parent: time out, kill, accept | process IDs, signals, timeouts, crashes, a racing parent | Supervisor |
| Test runner | `internal/testparallel` | inventory, jobs, workers, errors | list packages, discover, cut into jobs, run attempts, collect | worker pool, cancellation, retries, deadlines, completeness | TestDiscovery, TestShards, TestRunner |
| Allocation and crossover campaigns | `internal/allocationcampaign`, `internal/crossover` | a directory of its own | run in a fixed order, verify | exact arithmetic over decoded output | no: see below |
| Closure and coefficient evidence | `internal/closureenv`, `internal/coefficientcodegen` | none | parse, hash, validate | binary formats | no: data validation |
| Configuration, reports | `config`, `internal/runner` | none | parse, validate, format | none | no: data |
| Checks | `checks`, `lint` | none | match syntax trees | Go semantics | no, but for the facts of PS6103 and the policies of PS6141 |
| CLI, plugin, docs, benchmarks | `main.go`, `plugin`, `gendocs`, `benchmarks`, `benchmarkevidence` | none | flags, rendering, measuring | none | no |

How they interact. The CLI builds options and calls `Run` (Pipeline), which
first selects checks and loads packages (Scan), then runs the analyzers package
by package with the facts of earlier packages (FactFlow), and hands findings to
`applyFixes` or `diffFixes` (FixApply; the latter renders each file with
UnifiedDiff). Pipeline sees of all this which places are found, and which
fixable places disappeared. A capture (Capture) compiles and starts the helper
of Supervisor and judges its record; `Capture!Outcomes` are the records a parent
of Supervisor can return. Inside the supervisor, three processes talk through
signals, pipes and a notification; inside the test runner, goroutines through
unbuffered channels, a context and one buffered channel of errors.

What makes each part correct:

- a fix never corrupts a file, and the counters say what happened;
- a diff, read as `patch` reads it, makes the new file of the old one;
- the ratchet never hides a new finding and never reports an accepted one;
- a reviewed exemption is only applied to the target and the sources it was
  reviewed for, and is applied when nothing changed;
- no fact is exported that is not true, in whatever order functions are
  resolved;
- accepted trace evidence is of one trace of the own target, recorded by a helper
  built as the record says; what was read for an input is what the input was
  cleared as, as far as links are looked at again;
- the supervisor never signals a stranger, never lets the target run untraced,
  and its parent accepts only clean runs;
- a green test run means that every test ran and passed.

## Modules

Names follow the source. Faulty variants (`...Early`, `...Ignored` and so on,
each commented as such) are never part of a specification: each is a plausible
bug, and substituting it shows that a property would notice.

**TextEdits, ImportPass, FixInputs, FixApply, AtomicFix.** A file is a
sequence of tokens, each with the names it uses, declares or imports; this is
what the import passes look at, and offsets work as in bytes. `FixApply` has
one action per loop iteration of `patchedFiles` (`Group`, `RejectFile`,
`OpenFile`, `RejectMalformed`, `SkipOverlapping`, `AcceptFix`, `CloseUntouched`,
`ClosePatched`) and of its callers (`StartWriting`, `WriteFile`, `WriteFails`,
`ShowDiff`). The map iteration of Go is a free choice of the next file, the
sort of a file's fixes the choice of its one ordered queue.
`AtomicFix` is what `-fix` promises: each file changes at most once, to the
result of a maximal set of compatible, well-formed fixes, defined by what edits
mean and not by how they are chosen or spliced: laid out as they lie in the file
(`Arrangements`; insertions at one place in either order), their texts and what
is between them make the new file (`Merge`). `FixApply` refines it: the
refinement hides the greedy loop and takes a file as settled once its write was
tried. A write that fails may leave the file as it was or any front part of what
was to be written, nothing of it included, since the file is truncated first
(`Prefixes`, cut between tokens); `AtomicFix!RewriteFails` says the same of the
front parts of the possible outcomes, and no more. gofmt and everything about
wording is abstracted.

**UnifiedDiff.** A line is a value, and a line without its final newline is
another one. The table of `diffLines` is filled entry by entry, backwards as in
the code; `KeepLine`, `DeleteLine` and `InsertLine` are the steps of its walk,
`SkipLine` and `Hunk` those of `renderHunks`. The numbers of a header are computed as in the code
(`Header`), and the property reads them back (`DiffApplies`) without looking at
the alignment they came from.

**Baseline, Pipeline.** `Baseline` has the pure parts: identity of a finding,
entries (a count per identity), budget. Neither the sort of findings nor `dedup`
looks at messages, so of a check's findings at one place `Filter` keeps any one.
In `Pipeline` several runs execute `Run` step by step over
shared sources and one baseline file. Writing it is three steps (truncate, part,
complete) between which other runs read; a part is any of the entries, the count
of the last one cut short, so that no order of them matters; a torn file either no longer parses
(`ApplyFails`) or is applied as it is. `trusted` remembers what the applied
baseline accepts, as sites and independently of keys.

**Scan.** Selection (`Selected`, with the configured vocabulary in `Starved`),
then the observed load: the driver and the target are probed, the packages are
loaded file by file, both are probed again, and a scope is told only if all
agree. The code that loads chooses driver and target itself, at moments of its
own. Then PS6141 goes through contracts, policies and files and reads each file
once more. Meanwhile the toolchain and the driver may change, at most once each
(a change there and back between the probes is what the probes cannot see, and
the code makes no claim about it), and files may be edited.

**FactFlow.** Packages are visited in any order that has dependencies first;
each function is resolved with an explicit stack in place of the recursion, one
return and one value at a time; a function that is being resolved counts as not
allocating. Facts become visible to other packages when the pass ends. What a
function does is a sequence of returns, each the sequence of values given to the
variable that is returned.

**Capture.** One action per step of `captureSupervised`. Contents are versions
that are only replaced by later ones, so that "the same digest" is "the same
version"; a bundle is hashed and exported member by member while somebody may
still write to it. The compiler and the headers are hashed one by one, read by
the compilation in any order, and hashed again one by one, each updated as often
as the bound of the run allows. A path leads to a path (`leads`: all links
resolved, one of the `Resolutions`), and that may change between any two looks:
between the classification of two inputs, between the second resolution of an input
(`ResolveAgain`) and its open by name (`HashInput`), and before the recorder runs
the executable. `late` remembers for which inputs something moved once their
second resolution was made: `ReadsAsCleared` claims nothing of these, as the code
does not (`preflight.go` 295-297, `docs/development/xctrace-input-preflight.md`
88-92). One classification is one look at the file system, and an open is one
moment: where `digestRegular` notices that the
file was exchanged in between, the step is a `Problem`. The caller may cancel,
and the process may be killed; `result.json` is absent, partial or whole. That a
process ID is recycled before xctrace attaches is possible only when the helper
reports a failure, since it has then reaped the target early; Capture takes this
from Supervisor (`Outcomes`) and does not show it.

**Supervisor.** One action per system call of the helper that matters, the
children and the clock in between, and the parent. A process ID is own (the
helper's memory) and has a state in the kernel; the two disagree only if the
code errs. A deadline has passed or not; it may pass at any time once its clock
runs. The four streams are two, since stdout and stderr of a child have the same
writers. What is unusual - a system call that fails, a child killed by someone
else - happens once, or, if the constant `Repeated` says so, any number of times;
`spared` tells whether nothing of it has happened yet.

**TestDiscovery, TestShards, TestRunner.** `TestDiscovery` is `discoverTests`
with its dispatcher, workers and cancellation. `TestShards` has the pure
functions that select and partition. `TestRunner` extends both: it adds the
package list before, the cut of the inventory into jobs package by package, and
`runJobs` with `runTestAttempts` after. A job's clock is in the budget, in the grace after it, or over. A listing is one step there,
although it may be retried like a job.

## Runs

| run | instance | shows |
| --- | --- | --- |
| fix_apply | two files (one of any kind), up to three findings, in any order, from a pool of ten: insertions that share an import, replacements that overlap, a malformed fix, one over two files, one without a file, an advisory one | disjointness, counters, priority, imports, refinement of AtomicFix |
| fix_lost_write | up to two findings, all files fine | violation: a fix counted as applied whose write failed |
| fix_ties | a pool with an insertion level with a replacement | violation: the insertion is overwritten |
| unified_diff | all pairs of files of up to five lines over two texts, the last line with or without a newline; one line of context | the diff applies, hunks are apart, no shorter edit exists |
| pipeline | a writer and a reader, any of seven command lines each, two findings of one check at one place, a module with a nested one and a package outside, a test variant that sees a file twice, one edit, a legacy or no baseline | the ratchet, both ways |
| pipeline_shared_dir | the same with two modules in one directory | violation: a scan of one of them reports what was accepted |
| scan | three checks, six selectors, six configurations of up to two contracts, two files with three contents, two targets, two edits | the scope told is the one loaded for; exemptions are sound, and effective when nothing changes |
| fact_flow | a chain of three packages and one without syntax, four functions with all combinations of bodies, three requests | facts are true; findings are exact without recursion; the passes end |
| capture | two inputs, one declared through a link, four paths of which one is protected, twelve ways in which they lead to each other, three toolchain files, two bundle files, two tables, two changes of any of them | what is accepted is of one trace, the own target and the recorded helper; what is read is what was cleared; the verdict is on disk |
| supervisor | both children, all deadlines, one unusual event | safety of signals, acceptance, record, cleanup; termination |
| supervisor_late | the same | violation: resumed although readiness fails |
| test_runner | two packages with five tests and one, two workers, six command lines: one Windows shard, two shards, three shards of which one is empty | completeness, green means green, termination |

Why the bounds are enough. Overlap, priority and the import passes relate two
fixes, and a third decides between "maximal" and "first fits"; a second file
shows that map order is irrelevant. `fix_apply` keeps insertions away from the
starts of other fixes' replacements, for there the code does not do what it
promises: that is `fix_ties`. The instance evaluates that its pool is free of
such ties (`PoolHasNoTies`). With one line of context, five lines have two
changes that are far enough apart for two hunks, and ones that are not; both
outer hunks can touch an end of the file. A baseline needs two findings of one
identity, two files of one relative name and a torn write, which one writer and
one reader have. A policy needs one other policy that precedes it and fails; two
edits change a file before and after it is read. Four functions in three
packages have self and mutual recursion and a fact that crosses two packages.
Two changes in a capture replace a thing between any two looks at it and put a
link back, or change two things once each.
One unusual event reaches every error path of the supervisor; `Repeated = FALSE`
keeps the run short, and the theorems below hold for both values. (With `TRUE`,
all properties of the run hold as well, in 4.7 million states.)
Three jobs on two workers show a queue, more errors than workers, and uneven
divisions.

Deadlock checking is off where a program simply ends (its last state has no
step); Supervisor and TestRunner have explicit final steps instead.

The violations are disagreements between the code and what the repository says
of it; PROJECT.json quotes both sides. All other properties hold.

## Fairness

`Supervisor!FairSpec`: the helper and the parent are scheduled, the clock runs,
and the parent returns or times out. Nothing is assumed of the children: they
may hang, ignore TERM, and outlive KILL. `TestRunner!FairSpec`: goroutines are
scheduled and a started `go test` ends, because it is given a timeout and
killed when its context is done. (The kill reaches cmd/go; the test binary
below it has the same timeout and is taken to honour it, as `cmd.Run` waits for
the output pipe.) Time and interrupts are not fair. `FactFlow!Spec` has weak
fairness of its next step: one goroutine that nothing waits for. The other
specifications have safety properties only.

## Theorems

All are proved for every value of the constants, and need no fairness. So edits
of sources, retargeted links, updates and late writes are as many as a constant
says, whatever it is, and unusual events of the supervisor are as many as one
likes if `Repeated`. What the specifications themselves exclude, the theorems
exclude: the toolchain and the driver change at most once each in Scan, a
version never returns in Capture, and two writers of a baseline never overlap. An invariant the runs check is
hardly ever inductive; the middle column names what strengthens it.

| theorem | strengthening | why it is kept |
| --- | --- | --- |
| `FixApplyProofs!TypeCorrect`, `AcceptedNeverOverlap` | `TypeOK`, `QueueFits`, `AcceptedDisjoint` | `AcceptFix` tested `Conflicts` against all accepted edits and `SelfOverlaps` within the fix; the tests make sense for edits with integer bounds, which `TypeOK` gives, and for fixes of the current file, which `QueueFits` gives |
| `CountersAlwaysAccount` | `Ledger`: the counters and the verdicts of the files so far, the open one included, agree | every action that counts gives exactly one fix its verdict |
| `SkippedLostToEarlier` | `Priority`: what is still queued starts no earlier than what is judged | the queue is ordered, and only its head is judged |
| `ImportsAlwaysRestored`, `NothingClobbered` | `Grounds`: nothing is written before all files are patched, so a file is as it was read; the file being resolved may be touched; what is accepted are edits of its fixes | disjoint edits within the file, carried out from its end, never leave it (`SplicedAll`), and make a file of its own tokens and of theirs; whatever these are, each pass restores one thing and keeps what the ones before it restored (`Deduped`, `Added`, `Pruned`) |
| `FixesAreAtomic` | `Promise`: what is accepted are all edits of the applied fixes, each once (`Enrolled`); every fix judged so far is applied, malformed or in conflict with an applied one (`JudgedOnMerit`); a patched file that waits for its write is an outcome of AtomicFix (`CarriedOut`), and what is not settled has its old bytes (`Unwritten`); hypothesis `NoTies` | when a queue is empty every fix is judged, so the applied ones are a maximal set (`AppliedAreMaximal`); spliced from the back, each edit meets bytes that no other has moved, so after n of them the file is its old front and the merged rest (`SpliceIsMerge`); a write is the one step AtomicFix sees |
| `UnifiedDiffProofs!AlignmentIsEditScript` | `InStep`: the walk stands where its operations lead; `OldDone`, `NewDone`: all lines before it occur | each step of the walk adds one operation and moves on one or both sides |
| `HunksNeverTouch` | `Rendering`: rendered hunks end before the next operation, and no change follows within their context | a group ends only before a line out of reach of its context, and the next one starts behind it |
| `DiffAlwaysApplies` | `Counted`: an operation has as many old (new) lines before it as the line it names; `HunksCut`: nothing changes before, between and after the hunks so far | the numbers of a header count the operations before a hunk, and kept lines are equal |
| `DiffIsShortest` | `TableRight`: a known entry is the length of a longest common subsequence of what follows it; `EndsLossless`; `Walked`: what is kept and what the table still promises add up | any two lines are both matched, or one of them can be left out of a common subsequence; common ends can be exchanged into any of them |
| `PipelineProofs!TypeCorrect`, `ZeroIsQuiet` | `OnItsWay`, `NothingKeptEarly`, `AllKeptWithout` | exit codes are decided from what is kept, in the step that ends the run |
| `RatchetHidesNothingNew`, `GateAlwaysHolds` | `FileInv`: who writes a file accepts what it found (`WritesOwn`), and no entry of the file, torn or not, exceeds the findings of its identity in it (`HonestFile`) | the findings that a run suppresses for an entry are ranked 1 up to the entry's count; an identity names one file, check and message (`KeyNames`) |
| `AcceptedStaysQuiet` | as before, and `WholeFile`: a whole file has an entry for each accepted finding; hypothesis `SitesOwned` | a finding has one identity in all scopes that report it (`KeyStable`), so its rank among the found is at most its rank among the accepted |
| `ScanProofs!ScopeIsWhatWasLoaded` | `DriverSince`, `TargetSince`: what was observed before the load is what was used, unless it has changed, and then it stays changed | a change shows in the second probe |
| `ExemptedAsReviewed` | `HInv`: the files of a package that were compared so far were parsed as the policy says | both readings are compared with one hash, and edits do not touch what was parsed |
| `FittingPoliciesTakeEffect` | `EInv`: where nothing has moved, what was observed, loaded and told agree (`QuietLoad`), no fitting policy was passed over and none came too late (`NoneMissed`) | an enabled policy makes the load strict, and only one policy fits a claim |
| `FactFlowProofs!NoWrongFact` | `Sound`: what memo and stack claim holds in every closed set of functions | a function becomes fresh when each of its returns was; busy counts as not, which claims nothing |
| `FindingsAreExact` | `Located`: a function on the stack is of the current package and called by the one below; `NoneMissed`: without recursion, "not" is true | the greatest closed set is the set of functions that allocate; without recursion nothing that is read is busy |
| `NothingIsDoneTwice` | `Waiting`: the functions on the stack are busy and differ, and the package of the pass was not visited | only an unknown function is entered, and it is none of those that wait; what leaves the stack was busy and gets its verdict |
| `NoPassIsStuck` | `Located` | a set of packages in which each imports another has no minimal set of imports, which a finite set has (`APackageIsNext`) |
| `CaptureProofs!TablesOfOneTrace` | `TraceInv`: each export lies, member by member, between the first digest and the bundle now | versions only grow, so that two equal digests squeeze every export in between to the same version |
| `AcceptedIsOfTarget`, `AcceptedIsOnDisk` | `TargetInv`, `VerdictInv` | each refusal is final |
| `HelperAsRecorded` | `BuildInv`: file by file, what the compilation read lies between what was hashed before and what there is now (`InBetween`), and is fixed once the second hash of the file is equal to the first (`Rehashed`) | versions only grow |
| `ReadsWhatWasCleared` | `ClearedInv`: inputs are opened in order, after all were classified; an input that is open or about to be and is not `late` leads, by its canonical name, to where it was cleared (`InPlace`) | the second resolution finds the declared path where it was, and what a path leads to leads to itself; what moves afterwards makes the input late |
| `SupervisorProofs!TypeCorrect`, `SignalsOnlyOwnChildren`, `AcceptedWasClean`, `RecordIsTrue`, `NoChildIsLeft`, `TargetStartsTraced` | one `IInv`: `Owned`, `Spawning`, `Reaping`, `Streams`, `Traced`, `Undisturbed`, `WentWell`, `Forcing`, `Leaving`, `Printed`, `Accepting` | an ID the helper has belongs to a process the kernel has not given away; as long as nothing failed, the record and the children agree; the parent accepts a record only after its helper ended well |
| `TestRunnerProofs!DiscoveryTyped`, `PublishesOnlyComplete`, `RunnerPublishesOnlyComplete` | `NothingDropped`: unless canceled, every index handed out is listed or held; `ClosedWhenEmpty` | when the last worker stops, nobody holds anything; the whole runner takes only the discovery's steps on its variables |
| `EveryNameOnce`, `GroupsFit` | none: lemmas on quotients and remainders | position m is in group `(m - 1) % c + 1` at place `(m - 1) \div c + 1`, and nowhere else; the number of groups is rounded up |
| `RunnerTyped`, `JobsAlwaysFit`, `EachTestHasOnePlace` | `CutInv`: the packages cut so far are cut completely, into jobs that fit | the hash of a name selects it for one shard (`SelectedNames`), and its position puts it at one place of one job (`JobsOfNames`) |
| `GreenRunRanAll`, `NoWorkerBlocks` | `Serving`: a job given has at most one worker, and none once its error is sent; `Accounted`: it is in work, or passed, or its error is sent; `History`; `Closing` | when all workers are done and there was no error nor interrupt, every job was given and nobody has one, so it passed, and each selected test is in one; an error to send is of a job that has none in the channel yet, so there is room |
| `NobodyWaitsForEver` | `StopsInTime`: a listing worker stops only when the context is done or the queue is closed; `ErrorsHaveRoom`; `Closing` | a pool that still has work to hand out has a worker, and an idle worker takes it |

Loops over data (the cut into jobs, the table, the splice, the merge, the tokens
kept by a pass) are recursive functions. The provers cannot use the library's
induction theorems; where a loop's result is needed, `LeastNumber` (a set of
naturals has a least member, from the library's theorem on finite sets) takes
their place: the first round at which a statement fails does not exist.

Assumptions. The constants have the types their modules state
(`InputsAreFindings`, `KindsAreKinds`, `OrigIsParsed`, `FixableIsStdlib`,
`DiffAssumption`, `PipelineAssumption`, `ScanAssumption`, `FactAssumption`, `PackagesFinite`,
`CaptureAssumption`, `RepeatedAssumption`, `PackagesCounted`, `WorkersAreThere`, `ListingsCompact`,
`HashIsNumber`, `OptionsValid`); TLC evaluates them in the runs. Four say more
than a type: an import spec neither uses nor declares a name (`Token`); a site
is told from the others by what is reported of it and where (`SitesAreFindings`:
a site IS what can be reported); a module path names one directory
(`ModulesHaveDirs`: a build has one version of a module); a listing has every
name once (`ListingsCompact`: the code sorts and compacts it). `SitesOwned`, the hypothesis of
`AcceptedStaysQuiet`, says that a package's files lie in its own module and in
no deeper one, and that a directory has one module: so it is in a source tree
without `//line` directives that lead out of the module. `MCPipeline` has the
instance evaluate it, and `pipeline_shared_dir` is a tree without it. `NoTies`,
the hypothesis of `FixesAreAtomic`, says that no insertion of a well-formed fix
starts level with what another edit of such a fix replaces. The code does not
establish it: `Overlap` lets the two pass, and `fix_ties` shows what the splice then makes of
them. Insertions that tie with insertions, which the fixes of one import do, are
inside the theorem.

Proved rather than run: the types of FixApply, Supervisor, Pipeline and
UnifiedDiff.

Only model-checked: liveness (`BothReturn`, `Terminates`, `Ends`), which the
provers cannot treat. What of it is safety is proved: of the fact passes, that a
run is never stuck (`NoPassIsStuck`) and that every step gets it further in an
order that a finite program bounds (`NothingIsDoneTwice`); of the test runner,
that it is never stuck (`NobodyWaitsForEver`). That a step which is possible is
taken, and with it the conclusion, stays with TLC and the fairness above.

## Not modelled, and what is next

The checks are some 500 matching rules over Go syntax trees, about 254 000 of
the repository's 269 000 lines. Each is a pure function of a program's text with
no state between calls; a model of one would be a Go type checker. The modules
take what they report as input, and model the two mechanisms in which checks
have memory: facts (PS6103) and reviewed policies (PS6141). The lines mapped here
are therefore a small share of the repository, and a large one of its runner,
its trace evidence and its test runner.

The campaigns are strictly sequential: one process at a time in a predeclared
order into a directory of their own. What can be wrong in them is the decoding of
benchmark output and the arithmetic of exact rationals over it, or a digest that
the caller does not keep; neither is a matter of interleaving. Closure and
coefficient evidence parse and hash binary files once.

Within the modelled parts: gofmt; evidence metadata of a baseline; compile errors
of dependencies, of which the runner only looks at those of the named packages;
an executable replaced between its hash and its execution, which the code
documents as unknown; the validation of exported XML, which is one verdict; the
attempts inside a listing; the CPU share of test processes. A file edited between
its analysis and its fix is covered only as far as the code looks (a file that
became shorter). Two simultaneous writers of a baseline are excluded.

What would come next:

1. The composition of Capture with Supervisor as one specification, in place of
   `Outcomes`.
2. The verifier of an allocation campaign against edits of its inputs.
