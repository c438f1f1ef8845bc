-------------------------------- MODULE Scan --------------------------------
(***************************************************************************)
(* The beginning of a run: the checks are selected (selectChecks), the     *)
(* packages are loaded (loadForChecks), and PS6141 decides which findings  *)
(* a reviewed policy exempts (ps6141Exempt).                               *)
(*                                                                         *)
(* A policy holds for one target and for the exact files it was reviewed   *)
(* with. So the loader observes what it loads for: a probe of the target   *)
(* and of the package driver before the load and one after it; and the     *)
(* check reads the files again, long after they were loaded. Meanwhile     *)
(* other programs edit files, and change the toolchain and the driver.     *)
(***************************************************************************)
EXTENDS Integers, Sequences, FiniteSets

CONSTANTS
  Check,       (* the registered checks                                    *)
  PS6141,      (* the check with the policies                              *)
  Rank,        (* the level of each check                                  *)
  Fed,         (* the checks whose vocabulary is configured, or not needed *)
  Selectors,   (* values of -checks, sets of tokens [neg, exact, all, ids] *)
  Levels,      (* values of -level                                         *)
  Configs,     (* the configured contracts, sequences of                   *)
               (* [claim, valid, form, policies]                           *)
  File,        (* the files of the package, in their order                 *)
  Content,     (* [ast, trivia]: what is parsed, and the rest              *)
  Target,      (* versions and architectures of the toolchain              *)
  Unknown,     (* no target                                                *)
  MaxEdits     (* bound on the edits of files during a run                 *)

Files == {File[n] : n \in DOMAIN File}

ASSUME ScanAssumption ==
  /\ PS6141 \in Check /\ Rank \in [Check -> Nat] /\ Unknown \notin Target /\ MaxEdits \in Nat
  /\ File \in Seq(Files)
  /\ \A cs \in Configs :
       /\ cs \in Seq({cs[n] : n \in DOMAIN cs})
       /\ \A n \in DOMAIN cs : LET ps == cs[n].policies IN ps \in Seq({ps[m] : m \in DOMAIN ps})

VARIABLES
  target, driver,  (* the toolchain, and whether go list is the driver     *)
  disk,            (* the contents of the files                            *)
  moves, edits,    (* what changed during the run                          *)
  contracts,
  enabled,         (* the checks that run                                  *)
  strict,          (* whether the load is observed                         *)
  pc,
  before, driverBefore, after,   (* the observations of the loader         *)
  usedTarget, usedDriver, loaded,(* what the packages were loaded for and  *)
                                 (* from                                   *)
  scope,           (* the target that the checks are told                  *)
  ci, pi, fi,      (* the contract, its policy and the file being looked at*)
  exempted,        (* [claim, policy] of the findings not reported         *)
  reported,        (* the claims of the findings                           *)
  failed           (* a probe or the reading of a policy failed            *)
vars == <<target, driver, disk, moves, edits, contracts, enabled, strict, pc, before, driverBefore, after,
          usedTarget, usedDriver, loaded, scope, ci, pi, fi, exempted, reported, failed>>
world == <<target, driver, disk, moves, edits>>
options == <<contracts, enabled, strict>>
observed == <<before, driverBefore, after>>
used == <<usedTarget, usedDriver, loaded>>
place == <<ci, pi, fi>>
outcome == <<exempted, reported>>

Init ==
  /\ target \in Target /\ driver \in {"go list", "other"}
  /\ disk \in [Files -> Content] /\ moves = {} /\ edits = 0
  /\ contracts \in Configs /\ enabled = {} /\ strict = FALSE /\ pc = "select"
  /\ before = Unknown /\ driverBefore = "other" /\ after = Unknown
  /\ usedTarget = Unknown /\ usedDriver = "other" /\ loaded = <<>>
  /\ scope = Unknown /\ ci = 1 /\ pi = 1 /\ fi = 1
  /\ exempted = {} /\ reported = {} /\ failed = FALSE

-----------------------------------------------------------------------------
(* Other programs: an edit of a file, a new toolchain, a driver installed   *)
(* or removed. During one run neither of the last two is changed back.      *)
rest == <<options, pc, observed, used, scope, place, outcome, failed>>
EditFile ==
  /\ pc \notin {"done", "refused"} /\ edits < MaxEdits
  /\ \E f \in Files, c \in Content : c # disk[f] /\ disk' = [disk EXCEPT ![f] = c]
  /\ edits' = edits + 1
  /\ UNCHANGED <<target, driver, moves, rest>>
ChangeToolchain ==
  /\ pc \notin {"done", "refused"} /\ "target" \notin moves
  /\ \E t \in Target \ {target} : target' = t
  /\ moves' = moves \cup {"target"}
  /\ UNCHANGED <<driver, disk, edits, rest>>
ChangeDriver ==
  /\ pc \notin {"done", "refused"} /\ "driver" \notin moves
  /\ driver' = IF driver = "other" THEN "go list" ELSE "other"
  /\ moves' = moves \cup {"driver"}
  /\ UNCHANGED <<target, disk, edits, rest>>

-----------------------------------------------------------------------------
(* The contracts that are valid and the only ones for their claim.          *)
Unambiguous(n) == Cardinality({m \in DOMAIN contracts : contracts[m].claim = contracts[n].claim}) = 1
Usable(n) == contracts[n].valid /\ Unambiguous(n)

Included(tokens) == UNION {t.ids : t \in {u \in tokens : ~u.neg}}
Excluded(tokens) == UNION {t.ids : t \in {u \in tokens : u.neg}}
Explicit(tokens) == UNION {t.ids : t \in {u \in tokens : ~u.neg /\ u.exact}}
MatchesNothing(t) == t.ids = {} /\ ~t.all
Selected(tokens, level) ==
  {c \in Check : /\ Included(tokens) # {} => c \in Included(tokens)
                 /\ c \notin Excluded(tokens) /\ Rank[c] <= level}

(* A domain check without any vocabulary runs only if it is named.          *)
Starved(c) ==
  IF c = PS6141 THEN ~\E n \in DOMAIN contracts : Usable(n) ELSE c \notin Fed

(* A slip: the packages are loaded strictly only for the first contract.    *)
StrictForFirst(checks) ==
  PS6141 \in checks /\ contracts # <<>> /\ Usable(1) /\ contracts[1].policies # <<>>

Strict(checks) ==
  /\ PS6141 \in checks
  /\ \E n \in DOMAIN contracts : Usable(n) /\ contracts[n].policies # <<>>

Select ==
  /\ pc = "select"
  /\ \E tokens \in Selectors, level \in Levels :
       IF \E t \in tokens : MatchesNothing(t)
       THEN pc' = "refused" /\ UNCHANGED <<enabled, strict>>
       ELSE /\ enabled' = {c \in Selected(tokens, level) : Starved(c) => c \in Explicit(tokens)}
            /\ strict' = Strict(enabled')
            /\ pc' = IF strict' THEN "driver before" ELSE "choose driver"
  /\ UNCHANGED <<world, contracts, observed, used, scope, place, outcome, failed>>

-----------------------------------------------------------------------------
(* loadScopeContextWithDriver: what it observes around the load.            *)
ObserveDriver ==
  /\ pc = "driver before" /\ pc' = "target before"
  /\ driverBefore' = driver
  /\ UNCHANGED <<world, options, before, after, used, scope, place, outcome, failed>>

(* A probe finds the target, or fails.                                      *)
Probe(x) == \/ x = target /\ UNCHANGED failed
            \/ x = Unknown /\ failed' = TRUE

ObserveTarget ==
  /\ pc = "target before" /\ pc' = "choose driver"
  /\ Probe(before')
  /\ UNCHANGED <<world, options, driverBefore, after, used, scope, place, outcome>>

(* packages.Load chooses its driver and its target, and reads the files.    *)
ChooseDriver ==
  /\ pc = "choose driver" /\ pc' = "choose target"
  /\ usedDriver' = driver
  /\ UNCHANGED <<world, options, observed, usedTarget, loaded, scope, place, outcome, failed>>
ChooseTarget ==
  /\ pc = "choose target" /\ pc' = "load"
  /\ usedTarget' = target
  /\ UNCHANGED <<world, options, observed, usedDriver, loaded, scope, place, outcome, failed>>
LoadFile ==
  /\ pc = "load" /\ Len(loaded) < Len(File)
  /\ loaded' = Append(loaded, disk[File[Len(loaded) + 1]])
  /\ UNCHANGED <<world, options, pc, observed, usedTarget, usedDriver, scope, place, outcome, failed>>

(* The load fails, or a package that was asked for has an error.            *)
LoadFails ==
  /\ pc = "load" /\ Len(loaded) = Len(File)
  /\ pc' = "refused"
  /\ UNCHANGED <<world, options, observed, used, scope, place, outcome, failed>>

ObserveTargetAgain ==
  /\ pc = "load" /\ strict /\ Len(loaded) = Len(File) /\ pc' = "driver after"
  /\ Probe(after')
  /\ UNCHANGED <<world, options, before, driverBefore, used, scope, place, outcome>>

(* A slip: what was observed before the load is taken for granted.          *)
SteadyBefore == driverBefore = "go list"

(* The observations agree, and the package driver was go list throughout.   *)
Steady == driverBefore = "go list" /\ driver = "go list" /\ before = after

ObserveDriverAgain ==
  /\ pc = "driver after" /\ pc' = "check"
  /\ scope' = IF Steady THEN before ELSE Unknown
  /\ UNCHANGED <<world, options, observed, used, place, outcome, failed>>

(* An ordinary load makes no observation.                                   *)
Loaded ==
  /\ pc = "load" /\ ~strict /\ Len(loaded) = Len(File) /\ pc' = "check"
  /\ UNCHANGED <<world, options, observed, used, scope, place, outcome, failed>>

-----------------------------------------------------------------------------
(* PS6141, contract by contract.                                            *)
Checking == pc = "check" /\ PS6141 \in enabled /\ ci \in DOMAIN contracts
Policy == contracts[ci].policies[pi]
PolicyLeft == scope # Unknown /\ contracts[ci].form /\ pi \in DOMAIN contracts[ci].policies

NextContract == ci' = ci + 1 /\ pi' = 1 /\ fi' = 1
NextPolicy == pi' = pi + 1 /\ fi' = 1 /\ UNCHANGED ci

SkipContract ==
  /\ Checking /\ ~Usable(ci)
  /\ NextContract
  /\ UNCHANGED <<world, options, pc, observed, used, scope, outcome, failed>>

(* No policy is left that could exempt the finding.                         *)
ReportFinding ==
  /\ Checking /\ Usable(ci) /\ ~PolicyLeft
  /\ reported' = reported \cup {contracts[ci].claim}
  /\ NextContract
  /\ UNCHANGED <<world, options, pc, observed, used, scope, exempted, failed>>

(* The policy is unreadable or not the one that was pinned, does not fit    *)
(* the contract, its site or its shape, or is for another target.           *)
PolicyUnreadable ==
  /\ Checking /\ Usable(ci) /\ PolicyLeft /\ fi = 1
  /\ failed' = TRUE
  /\ NextPolicy
  /\ UNCHANGED <<world, options, pc, observed, used, scope, outcome>>
PolicyForOther ==
  /\ Checking /\ Usable(ci) /\ PolicyLeft /\ fi = 1
  /\ ~Policy.fits \/ Policy.target # scope
  /\ NextPolicy
  /\ UNCHANGED <<world, options, pc, observed, used, scope, outcome, failed>>

Comparing ==
  /\ Checking /\ Usable(ci) /\ PolicyLeft
  /\ Policy.fits /\ Policy.target = scope /\ fi <= Len(File)

(* A slip: a fresh hash alone attests what was loaded.                      *)
SourceHash == disk[File[fi]] = Policy.sources[File[fi]]

(* ps6141SourcePartition: the bytes are the reviewed ones, and parsing them *)
(* gives what was loaded.                                                   *)
SourceMatches ==
  /\ disk[File[fi]] = Policy.sources[File[fi]]
  /\ disk[File[fi]].ast = loaded[fi].ast

CompareSource ==
  /\ Comparing
  /\ IF ~SourceMatches THEN NextPolicy /\ UNCHANGED exempted
     ELSE IF fi < Len(File) THEN fi' = fi + 1 /\ UNCHANGED <<ci, pi, exempted>>
     ELSE NextContract /\ exempted' = exempted \cup {[claim |-> contracts[ci].claim, policy |-> Policy]}
  /\ UNCHANGED <<world, options, pc, observed, used, scope, reported, failed>>

Finish ==
  /\ pc = "check" /\ ~Checking
  /\ pc' = "done"
  /\ UNCHANGED <<world, options, observed, used, scope, place, outcome, failed>>

Next ==
  \/ EditFile \/ ChangeToolchain \/ ChangeDriver
  \/ Select \/ ObserveDriver \/ ObserveTarget \/ ChooseDriver \/ ChooseTarget \/ LoadFile \/ LoadFails
  \/ ObserveTargetAgain \/ ObserveDriverAgain \/ Loaded
  \/ SkipContract \/ ReportFinding \/ PolicyUnreadable \/ PolicyForOther \/ CompareSource \/ Finish

Spec == Init /\ [][Next]_vars

-----------------------------------------------------------------------------
(* The target that the checks are told is the one that the packages were    *)
(* loaded for, by go list (loadScopeContextWithDriver, "Failed or differing *)
(* observations leave scope unknown"), although neither is seen at the      *)
(* moment of the load.                                                      *)
ScopeHonest ==
  scope # Unknown => usedTarget = scope /\ usedDriver = "go list"

(* A finding is exempted only in what was reviewed: the files that were     *)
(* parsed are the policy's, and they were loaded for its target             *)
(* (ps6141SourcePartition, "A fresh source hash alone cannot attest that an *)
(* already-loaded AST still describes those bytes").                        *)
ExemptHonest ==
  \A e \in exempted :
    /\ e.policy.target = usedTarget /\ usedDriver = "go list"
    /\ \A n \in DOMAIN File : loaded[n].ast = e.policy.sources[File[n]].ast

(* Where nothing fails and nothing changes during the run, every policy of  *)
(* a usable contract takes effect: the selection, the loader and the check  *)
(* agree on which contracts count (loadForChecks, missingVocab,             *)
(* runPS6141WithContracts).                                                 *)
ExemptEffective ==
  pc = "done" /\ PS6141 \in enabled /\ moves = {} /\ edits = 0 /\ ~failed /\ driver = "go list" =>
    \A n \in DOMAIN contracts : \A m \in DOMAIN contracts[n].policies :
      LET p == contracts[n].policies[m]
      IN  Usable(n) /\ contracts[n].form /\ p.fits /\ p.target = target /\ p.sources = disk
            => contracts[n].claim \notin reported
=============================================================================
