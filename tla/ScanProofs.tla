----------------------------- MODULE ScanProofs -----------------------------
(***************************************************************************)
(* Whenever the toolchain and the driver change, each once at most, and    *)
(* whatever the configuration: the target that the checks are told is the  *)
(* one that the packages were loaded for.                                  *)
(***************************************************************************)
EXTENDS Scan, FiniteSetTheorems, TLAPS

Chosen == {"choose target", "load", "driver after", "check", "done"}
Observed == {"target before", "choose driver"} \cup Chosen
Probed == {"choose driver"} \cup Chosen
Ended == {"driver after", "check", "done"}

(* The driver and the target changed since they were observed only if they  *)
(* moved, and what the load used is the one observed or the one of now.     *)
DriverSince ==
  /\ pc \in Observed /\ driverBefore # driver => "driver" \in moves
  /\ pc \in Chosen /\ usedDriver # driverBefore => "driver" \in moves /\ driver = usedDriver
TargetSince ==
  /\ pc \in Probed /\ before # Unknown /\ before # target => "target" \in moves
  /\ pc \in Chosen \ {"choose target"} /\ before # Unknown /\ usedTarget # before =>
       "target" \in moves /\ target = usedTarget
  /\ pc \in Ended /\ before # Unknown /\ after = before => usedTarget = before
IInv ==
  /\ target \in Target
  /\ driver \in {"go list", "other"}
  /\ strict => DriverSince /\ TargetSince
  /\ pc = "driver after" => strict
  /\ pc \in {"driver before", "target before"} => strict
  /\ scope # Unknown => pc \in {"check", "done"}
  /\ ScopeHonest

LEMMA InitIInv == Init => IInv
BY DEF Init, IInv, ScopeHonest

LEMMA WorldMoves ==
  ASSUME IInv, EditFile \/ ChangeToolchain \/ ChangeDriver
  PROVE  IInv'
<1>1. CASE EditFile
  BY <1>1 DEF EditFile, rest, options, observed, used, IInv, DriverSince, TargetSince, ScopeHonest
<1>2. CASE ChangeToolchain
  BY <1>2 DEF ChangeToolchain, rest, options, observed, used, IInv, DriverSince, TargetSince, ScopeHonest
<1>3. CASE ChangeDriver
  BY <1>3 DEF ChangeDriver, rest, options, observed, used, IInv, DriverSince, TargetSince, ScopeHonest
<1> QED
  BY <1>1, <1>2, <1>3

LEMMA LoaderSteps ==
  ASSUME IInv,
         \/ ObserveDriver \/ ObserveTarget \/ ChooseDriver \/ ChooseTarget
         \/ ObserveTargetAgain \/ ObserveDriverAgain
  PROVE  IInv'
<1> USE DEF world, options, observed, used, Chosen, Observed, Probed, Ended
<1>1. CASE ObserveDriver
  BY <1>1 DEF ObserveDriver, IInv, DriverSince, TargetSince, ScopeHonest
<1>2. CASE ObserveTarget
  BY <1>2, ScanAssumption DEF ObserveTarget, Probe, IInv, DriverSince, TargetSince, ScopeHonest
<1>3. CASE ChooseDriver
  BY <1>3 DEF ChooseDriver, IInv, DriverSince, TargetSince, ScopeHonest
<1>4. CASE ChooseTarget
  BY <1>4 DEF ChooseTarget, IInv, DriverSince, TargetSince, ScopeHonest
<1>5. CASE ObserveTargetAgain
  BY <1>5, ScanAssumption DEF ObserveTargetAgain, Probe, IInv, DriverSince, TargetSince, ScopeHonest
<1>6. CASE ObserveDriverAgain
  BY <1>6 DEF ObserveDriverAgain, Steady, IInv, DriverSince, TargetSince, ScopeHonest
<1> QED
  BY <1>1, <1>2, <1>3, <1>4, <1>5, <1>6

(* The other steps observe nothing.                                         *)
LEMMA OtherSteps ==
  ASSUME IInv,
         \/ Select \/ LoadFile \/ LoadFails \/ Loaded \/ SkipContract \/ ReportFinding
         \/ PolicyUnreadable \/ PolicyForOther \/ CompareSource \/ Finish \/ UNCHANGED vars
  PROVE  IInv'
<1> USE DEF world, options, observed, used, Chosen, Observed, Probed, Ended
<1>1. CASE Select
  <2>1. /\ pc = "select" /\ UNCHANGED <<target, driver, scope>>
        /\ \/ pc' = "refused"
           \/ /\ strict' = Strict(enabled')
              /\ pc' = IF strict' THEN "driver before" ELSE "choose driver"
    BY <1>1 DEF Select
  <2>2. Strict(enabled') \in BOOLEAN
    BY DEF Strict
  <2> QED
    BY <2>1, <2>2 DEF IInv, DriverSince, TargetSince, ScopeHonest
<1>2. CASE LoadFile \/ LoadFails \/ Loaded
  <2>1. /\ UNCHANGED <<world, strict, observed, usedTarget, usedDriver, scope>>
        /\ \/ pc = "load" /\ pc' \in {"load", "refused"}
           \/ pc = "load" /\ pc' = "check" /\ ~strict
    BY <1>2 DEF LoadFile, LoadFails, Loaded
  <2> QED
    BY <2>1 DEF IInv, DriverSince, TargetSince, ScopeHonest
<1>3. CASE SkipContract \/ ReportFinding \/ PolicyUnreadable \/ PolicyForOther \/ CompareSource
           \/ Finish \/ UNCHANGED vars
  <2>1. /\ UNCHANGED <<world, strict, observed, usedTarget, usedDriver, scope>>
        /\ \/ pc' = pc
           \/ pc = "check" /\ pc' = "done"
    BY <1>3 DEF SkipContract, ReportFinding, PolicyUnreadable, PolicyForOther, CompareSource, Finish, vars
  <2> QED
    BY <2>1 DEF IInv, DriverSince, TargetSince, ScopeHonest
<1> QED
  BY <1>1, <1>2, <1>3

(* The target that the checks are told is the one that the packages were    *)
(* loaded for, by go list, for any targets, configurations and edits, if    *)
(* the toolchain and the driver change once each at most                    *)
(* (loadScopeContextWithDriver).                                            *)
THEOREM ScopeIsWhatWasLoaded == Spec => []ScopeHonest
<1>1. IInv /\ [Next]_vars => IInv'
  BY WorldMoves, LoaderSteps, OtherSteps DEF Next
<1>2. IInv => ScopeHonest
  BY DEF IInv
<1> QED
  BY <1>1, <1>2, InitIInv, PTL DEF Spec

-----------------------------------------------------------------------------
(* While the files of a package are compared with a policy, those already   *)
(* compared were parsed as the policy's; edits do not change that.          *)
Compared ==
  /\ fi \in Nat \ {0}
  /\ \A n \in 1..(fi - 1) : loaded[n].ast = Policy.sources[File[n]].ast
HInv ==
  /\ pc \notin {"check", "done"} => fi = 1 /\ exempted = {}
  /\ Compared
  /\ ExemptHonest

LEMMA InitHInv == Init => HInv
<1> SUFFICES ASSUME Init PROVE HInv
  OBVIOUS
<1>1. pc = "select" /\ fi = 1 /\ exempted = {}
  BY DEF Init
<1>2. Compared
  BY <1>1 DEF Compared
<1> QED
  BY <1>1, <1>2 DEF HInv, ExemptHonest

LEMMA BeforeTheCheck ==
  ASSUME HInv, ~Checking, [Next]_vars
  PROVE  HInv'
<1>1. UNCHANGED <<contracts, place, exempted>> /\ (pc \in {"check", "done"} => UNCHANGED used)
      /\ (pc \in {"check", "done"} => pc' \in {"check", "done"})
  BY Zenon DEF Next, EditFile, ChangeToolchain, ChangeDriver, Select, ObserveDriver, ObserveTarget, ChooseDriver,
        ChooseTarget, LoadFile, LoadFails, ObserveTargetAgain, ObserveDriverAgain, Loaded, SkipContract,
        ReportFinding, PolicyUnreadable, PolicyForOther, Comparing, CompareSource, Finish, vars, rest, options,
        used, world, observed, place, outcome
<1>2. CASE pc \in {"check", "done"}
  <2>1. /\ pc' \in {"check", "done"}
        /\ UNCHANGED <<contracts, ci, pi, fi, exempted, usedTarget, usedDriver, loaded>>
    BY <1>1, <1>2 DEF place, used
  <2>2. Compared'
    BY <2>1 DEF HInv, Compared, Policy
  <2>3. ExemptHonest'
    BY <2>1 DEF HInv, ExemptHonest, Policy
  <2> QED
    BY <2>1, <2>2, <2>3 DEF HInv
<1>3. CASE pc \notin {"check", "done"}
  <2>1. fi' = 1 /\ exempted' = {}
    BY <1>1, <1>3 DEF HInv, place
  <2>2. Compared'
    BY <2>1 DEF Compared
  <2> QED
    BY <2>1, <2>2 DEF HInv, ExemptHonest
<1> QED
  BY <1>2, <1>3

LEMMA PolicyByPolicy ==
  ASSUME HInv, IInv, Checking, [Next]_vars
  PROVE  HInv'
<1> USE DEF world, options, observed, used, place, outcome
<1>1. CASE EditFile \/ ChangeToolchain \/ ChangeDriver \/ UNCHANGED vars
  <2>1. UNCHANGED <<contracts, place, exempted, used, pc>>
    BY <1>1 DEF EditFile, ChangeToolchain, ChangeDriver, rest, vars
  <2> QED
    BY <2>1 DEF HInv, Compared, Policy, ExemptHonest
<1>2. CASE SkipContract \/ ReportFinding \/ PolicyUnreadable \/ PolicyForOther
  <2>1. UNCHANGED <<contracts, exempted, used, pc>> /\ fi' = 1
    BY <1>2, Zenon DEF SkipContract, ReportFinding, PolicyUnreadable, PolicyForOther, NextContract, NextPolicy
  <2>2. Compared'
    BY <2>1 DEF Compared
  <2> QED
    BY <2>1, <2>2 DEF HInv, ExemptHonest, Checking
<1>3. CASE CompareSource
  <2>1. /\ UNCHANGED <<contracts, used, pc>> /\ Policy.target = scope /\ scope # Unknown
        /\ pc = "check" /\ fi \in Nat \ {0}
    BY <1>3 DEF CompareSource, Comparing, PolicyLeft, Checking, HInv, Compared
  <2>2. CASE ~SourceMatches
    <3>1. fi' = 1 /\ exempted' = exempted
      BY <1>3, <2>2 DEF CompareSource, NextPolicy
    <3>2. Compared'
      BY <3>1 DEF Compared
    <3> QED
      BY <2>1, <3>1, <3>2 DEF HInv, ExemptHonest
  <2>3. CASE SourceMatches /\ fi < Len(File)
    <3>1. fi' = fi + 1 /\ UNCHANGED <<ci, pi, exempted>>
      BY <1>3, <2>3 DEF CompareSource
    <3>2. Policy' = Policy
      BY <2>1, <3>1 DEF Policy
    <3>3. loaded[fi].ast = Policy.sources[File[fi]].ast
      BY <2>3 DEF SourceMatches
    <3>4. Compared'
      BY <2>1, <3>1, <3>2, <3>3 DEF HInv, Compared
    <3> QED
      BY <2>1, <3>1, <3>4 DEF HInv, ExemptHonest
  <2>4. CASE SourceMatches /\ ~(fi < Len(File))
    <3>1. /\ fi' = 1 /\ fi <= Len(File)
          /\ exempted' = exempted \cup {[claim |-> contracts[ci].claim, policy |-> Policy]}
      BY <1>3, <2>4 DEF CompareSource, Comparing, NextContract
    <3>2. Compared'
      BY <3>1 DEF Compared
    <3>3. loaded[fi].ast = Policy.sources[File[fi]].ast
      BY <2>4 DEF SourceMatches
    <3>4. DOMAIN File = 1..fi
      <4>1. Len(File) \in Nat /\ DOMAIN File = 1..Len(File)
        BY ScanAssumption
      <4>2. fi \in Nat /\ fi <= Len(File) /\ ~(fi < Len(File))
        BY <2>1, <2>4, <3>1
      <4>3. \A k, l \in Nat : k <= l /\ ~(k < l) => l = k
        OBVIOUS
      <4>4. Len(File) = fi
        BY <4>1, <4>2, <4>3, Zenon
      <4> QED
        BY <4>1, <4>4
    <3>5. \A n \in DOMAIN File : loaded[n].ast = Policy.sources[File[n]].ast
      <4> SUFFICES ASSUME NEW n \in 1..fi PROVE loaded[n].ast = Policy.sources[File[n]].ast
        BY <3>4
      <4>1. n = fi \/ n \in 1..(fi - 1)
        BY <2>1
      <4> QED
        BY <4>1, <3>3 DEF HInv, Compared
    <3>6. Policy.target = usedTarget /\ usedDriver = "go list"
      BY <2>1 DEF IInv, ScopeHonest
    <3>7. ExemptHonest'
      <4> SUFFICES ASSUME NEW e \in exempted'
                   PROVE  /\ e.policy.target = usedTarget /\ usedDriver = "go list"
                          /\ \A n \in DOMAIN File : loaded[n].ast = e.policy.sources[File[n]].ast
        BY <2>1 DEF ExemptHonest
      <4>1. CASE e \in exempted
        BY <4>1 DEF HInv, ExemptHonest
      <4>2. CASE e = [claim |-> contracts[ci].claim, policy |-> Policy]
        <5>1. e.policy = Policy
          BY <4>2
        <5> QED
          BY <5>1, <3>5, <3>6
      <4> QED
        BY <3>1, <4>1, <4>2
    <3> QED
      BY <2>1, <3>2, <3>7 DEF HInv
  <2> QED
    BY <2>2, <2>3, <2>4
<1>4. CASE Select \/ ObserveDriver \/ ObserveTarget \/ ChooseDriver \/ ChooseTarget \/ LoadFile \/ LoadFails
           \/ ObserveTargetAgain \/ ObserveDriverAgain \/ Loaded \/ Finish
  <2>1. FALSE
    BY <1>4 DEF Select, ObserveDriver, ObserveTarget, ChooseDriver, ChooseTarget, LoadFile, LoadFails,
       ObserveTargetAgain, ObserveDriverAgain, Loaded, Finish, Checking
  <2> QED
    BY <2>1
<1> QED
  BY <1>1, <1>2, <1>3, <1>4 DEF Next

(* A finding is exempted only in what was reviewed, for any policies, any   *)
(* files and edits of them between the load and the comparison, and a       *)
(* change of the toolchain at any time (ps6141Exempt,                       *)
(* ps6141SourcePartition).                                                  *)
THEOREM ExemptedAsReviewed == Spec => []ExemptHonest
<1>1. IInv /\ [Next]_vars => IInv'
  BY WorldMoves, LoaderSteps, OtherSteps DEF Next
<1>2. IInv /\ HInv /\ [Next]_vars => HInv'
  BY BeforeTheCheck, PolicyByPolicy
<1>3. HInv => ExemptHonest
  BY DEF HInv
<1> QED
  BY <1>1, <1>2, <1>3, InitIInv, InitHInv, PTL DEF Spec

-----------------------------------------------------------------------------
(* A run in which nothing fails and nothing changes: the observations are   *)
(* the target and the driver, and what was loaded is on the disk.           *)
Quiet == moves = {} /\ edits = 0 /\ ~failed /\ driver = "go list"
InForce == {"check", "done"}
Fitting(n, m) ==
  LET p == contracts[n].policies[m]
  IN  contracts[n].form /\ p.fits /\ p.target = target /\ p.sources = disk

QuietLoad ==
  /\ \A n \in 1..Len(loaded) : loaded[n] = disk[File[n]]
  /\ strict /\ pc \in Observed => driverBefore = "go list"
  /\ strict /\ pc \in Probed => before = target
  /\ strict /\ pc \in Ended => after = target
  /\ strict /\ pc \in InForce => scope = target

(* A policy that fits is neither passed over nor too late.                  *)
PassedOver ==
  \A m \in 1..(pi - 1) : ci \in DOMAIN contracts /\ Usable(ci) => ~Fitting(ci, m)
NoneMissed ==
  \A n \in DOMAIN contracts : \A m \in DOMAIN contracts[n].policies :
    Usable(n) /\ Fitting(n, m) => contracts[n].claim \notin reported
TypeInv ==
  /\ edits \in Nat /\ contracts \in Configs /\ target \in Target /\ disk \in [Files -> Content]
  /\ loaded \in Seq(Content) /\ ci \in Nat \ {0} /\ pi \in Nat \ {0} /\ fi \in Nat \ {0}
EInv ==
  /\ TypeInv
  /\ pc \notin {"select", "refused"} => strict = Strict(enabled)
  /\ pc \in Ended => Len(loaded) = Len(File)
  /\ pc \notin InForce => reported = {} /\ pi = 1
  /\ Quiet => QuietLoad
  /\ Quiet /\ PS6141 \in enabled => PassedOver /\ NoneMissed

LEMMA InitEInv == Init => EInv
<1> SUFFICES ASSUME Init PROVE EInv
  OBVIOUS
<1>1. TypeInv /\ pc = "select" /\ reported = {} /\ pi = 1 /\ loaded = <<>>
  <2>1. /\ edits = 0 /\ contracts \in Configs /\ target \in Target /\ disk \in [Files -> Content]
        /\ loaded = <<>> /\ ci = 1 /\ pi = 1 /\ fi = 1 /\ pc = "select" /\ reported = {}
    BY DEF Init
  <2>2. loaded \in Seq(Content)
    BY <2>1
  <2> QED
    BY <2>1, <2>2 DEF TypeInv
<1>2. QuietLoad
  BY <1>1 DEF QuietLoad, Observed, Probed, Chosen, Ended, InForce
<1>3. PassedOver /\ NoneMissed
  BY <1>1 DEF PassedOver, NoneMissed
<1> QED
  BY <1>1, <1>2, <1>3 DEF EInv, Ended, InForce

LEMMA EffectiveWorld ==
  ASSUME EInv, EditFile \/ ChangeToolchain \/ ChangeDriver
  PROVE  EInv'
<1>1. UNCHANGED <<contracts, enabled, strict, pc, loaded, ci, pi, fi, reported>>
  BY DEF EditFile, ChangeToolchain, ChangeDriver, rest, options, used, place, outcome
<1>2. edits' \in Nat /\ target' \in Target /\ disk' \in [Files -> Content]
  <2>1. CASE EditFile
    BY <2>1 DEF EditFile, EInv, TypeInv
  <2>2. CASE ChangeToolchain \/ ChangeDriver
    BY <2>2 DEF ChangeToolchain, ChangeDriver, EInv, TypeInv
  <2> QED
    BY <2>1, <2>2
<1>3. ~Quiet'
  <2>1. CASE EditFile
    <3>1. edits' # 0
      <4>1. edits' = edits + 1 /\ edits \in Nat
        BY <2>1 DEF EditFile, EInv, TypeInv
      <4> QED
        BY <4>1
    <3> QED
      BY <3>1 DEF Quiet
  <2>2. CASE ChangeToolchain \/ ChangeDriver
    BY <2>2 DEF ChangeToolchain, ChangeDriver, Quiet
  <2> QED
    BY <2>1, <2>2
<1>4. TypeInv'
  BY <1>1, <1>2 DEF EInv, TypeInv
<1>5. pc' \notin {"select", "refused"} => strict' = Strict(enabled)'
  BY <1>1 DEF EInv, Strict, Usable, Unambiguous
<1> QED
  BY <1>1, <1>3, <1>4, <1>5 DEF EInv

(* Before PS6141 runs nothing is reported, and no policy is passed over.    *)
LEMMA NothingYet ==
  ASSUME reported = {}, pi = 1
  PROVE  PassedOver /\ NoneMissed
BY DEF PassedOver, NoneMissed

LEMMA EffectiveLoad ==
  ASSUME EInv, IInv,
         \/ Select \/ ObserveDriver \/ ObserveTarget \/ ChooseDriver \/ ChooseTarget \/ LoadFile \/ LoadFails
         \/ ObserveTargetAgain \/ ObserveDriverAgain \/ Loaded
  PROVE  EInv'
<1> USE DEF world, options, observed, used, place, outcome
<1>1. /\ UNCHANGED <<target, driver, disk, moves, edits, contracts, ci, pi, fi, reported>>
      /\ pc \notin InForce
  BY Zenon DEF Select, ObserveDriver, ObserveTarget, ChooseDriver, ChooseTarget, LoadFile, LoadFails,
     ObserveTargetAgain, ObserveDriverAgain, Loaded, Probe, InForce
<1>2. reported' = {} /\ pi' = 1
  BY <1>1 DEF EInv
<1>3. PassedOver' /\ NoneMissed'
  BY <1>2 DEF PassedOver, NoneMissed
<1>4. Quiet' => Quiet
  <2>1. failed' = TRUE \/ failed' = failed
    BY DEF Select, ObserveDriver, ObserveTarget, ChooseDriver, ChooseTarget, LoadFile, LoadFails,
       ObserveTargetAgain, ObserveDriverAgain, Loaded, Probe
  <2> QED
    BY <1>1, <2>1 DEF Quiet
<1>5. CASE LoadFile
  <2>1. /\ UNCHANGED <<enabled, strict, pc, before, driverBefore, after, scope>> /\ pc = "load"
        /\ Len(loaded) < Len(File) /\ loaded' = Append(loaded, disk[File[Len(loaded) + 1]])
    BY <1>5 DEF LoadFile
  <2>2. Len(loaded) \in Nat /\ Len(File) \in Nat /\ DOMAIN File = 1..Len(File)
    BY ScanAssumption DEF EInv, TypeInv
  <2>3. Len(loaded) + 1 \in DOMAIN File
    BY <2>1, <2>2
  <2>4. disk[File[Len(loaded) + 1]] \in Content
    BY <2>3 DEF EInv, TypeInv, Files
  <2>5. loaded' \in Seq(Content) /\ Len(loaded') = Len(loaded) + 1
        /\ \A n \in 1..Len(loaded') : loaded'[n] = IF n = Len(loaded) + 1 THEN disk[File[n]] ELSE loaded[n]
    BY <2>1, <2>4 DEF EInv, TypeInv
  <2>6. TypeInv'
    BY <1>1, <2>5 DEF EInv, TypeInv
  <2>7. strict' = Strict(enabled)'
    BY <1>1, <2>1 DEF EInv, Strict, Usable, Unambiguous
  <2>8. QuietLoad => QuietLoad'
    <3> SUFFICES ASSUME QuietLoad PROVE QuietLoad'
      OBVIOUS
    <3>1. \A n \in 1..Len(loaded') : loaded'[n] = disk[File[n]]
      <4> SUFFICES ASSUME NEW n \in 1..Len(loaded') PROVE loaded'[n] = disk[File[n]]
        OBVIOUS
      <4>1. CASE n = Len(loaded) + 1
        BY <4>1, <2>5
      <4>2. CASE n # Len(loaded) + 1
        <5>1. n \in 1..Len(loaded)
          BY <4>2, <2>5, <2>2
        <5> QED
          BY <5>1, <4>2, <2>5 DEF QuietLoad
      <4> QED
        BY <4>1, <4>2
    <3> QED
      BY <3>1, <2>1, <1>1 DEF QuietLoad, Ended, InForce
  <2> QED
    BY <1>2, <1>3, <1>4, <2>1, <2>6, <2>7, <2>8 DEF EInv, Ended, InForce
<1>6. CASE ~LoadFile
  <2>1. UNCHANGED loaded
    BY <1>6 DEF Select, ObserveDriver, ObserveTarget, ChooseDriver, ChooseTarget, LoadFails,
       ObserveTargetAgain, ObserveDriverAgain, Loaded
  <2>2. TypeInv'
    BY <1>1, <2>1 DEF EInv, TypeInv
  <2>3. pc' \notin {"select", "refused"} => strict' = Strict(enabled)'
    <3>1. Strict(enabled)' = Strict(enabled')
      BY <1>1 DEF Strict, Usable, Unambiguous
    <3>2. CASE Select
      BY <3>1, <3>2 DEF Select
    <3>3. CASE ~Select
      <4>1. UNCHANGED <<enabled, strict>> /\ pc \notin {"select", "refused"}
        BY <3>3, <1>6 DEF ObserveDriver, ObserveTarget, ChooseDriver, ChooseTarget, LoadFails,
           ObserveTargetAgain, ObserveDriverAgain, Loaded
      <4> QED
        BY <4>1, <3>1 DEF EInv
    <3> QED
      BY <3>2, <3>3
  <2>4. pc' \in Ended => Len(loaded') = Len(File)
    BY <1>6, <2>1 DEF Select, ObserveDriver, ObserveTarget, ChooseDriver, ChooseTarget, LoadFails,
       ObserveTargetAgain, ObserveDriverAgain, Loaded, EInv, Ended
  <2>5. Quiet' => QuietLoad'
    <3> SUFFICES ASSUME Quiet, Quiet', QuietLoad PROVE QuietLoad'
      BY <1>4 DEF EInv
    <3> USE DEF Observed, Probed, Chosen, Ended, InForce, Quiet
    <3>1. \A n \in 1..Len(loaded') : loaded'[n] = disk'[File[n]]
      BY <1>1, <2>1 DEF QuietLoad
    <3>2. strict' /\ pc' \in Observed => driverBefore' = "go list"
      BY <1>1, <1>6 DEF Select, ObserveDriver, ObserveTarget, ChooseDriver, ChooseTarget, LoadFails,
       ObserveTargetAgain, ObserveDriverAgain, Loaded, QuietLoad
    <3>3. strict' /\ pc' \in Probed => before' = target'
      BY <1>1, <1>6 DEF Select, ObserveDriver, ObserveTarget, ChooseDriver, ChooseTarget, LoadFails,
       ObserveTargetAgain, ObserveDriverAgain, Loaded, QuietLoad, Probe
    <3>4. strict' /\ pc' \in Ended => after' = target'
      BY <1>1, <1>6 DEF Select, ObserveDriver, ObserveTarget, ChooseDriver, ChooseTarget, LoadFails,
       ObserveTargetAgain, ObserveDriverAgain, Loaded, QuietLoad, Probe
    <3>5. strict' /\ pc' \in InForce => scope' = target'
      BY <1>1, <1>6 DEF Select, ObserveDriver, ObserveTarget, ChooseDriver, ChooseTarget, LoadFails,
       ObserveTargetAgain, ObserveDriverAgain, Loaded, QuietLoad, Steady
    <3> QED
      BY <3>1, <3>2, <3>3, <3>4, <3>5 DEF QuietLoad
  <2> QED
    BY <1>2, <1>3, <2>2, <2>3, <2>4, <2>5 DEF EInv
<1> QED
  BY <1>5, <1>6

(* A usable contract is the only one for its claim.                         *)
LEMMA OnlyOneForItsClaim ==
  ASSUME contracts \in Configs, NEW n \in DOMAIN contracts, NEW k \in DOMAIN contracts,
         Usable(n), contracts[k].claim = contracts[n].claim
  PROVE  k = n
<1> DEFINE same == {m \in DOMAIN contracts : contracts[m].claim = contracts[n].claim}
<1>1. IsFiniteSet(DOMAIN contracts)
  <2>1. contracts \in Seq({contracts[m] : m \in DOMAIN contracts})
    BY ScanAssumption
  <2>2. Len(contracts) \in Nat /\ DOMAIN contracts = 1..Len(contracts)
    BY <2>1
  <2> QED
    BY <2>2, FS_Interval
<1>2. IsFiniteSet(same)
  BY <1>1, FS_Subset
<1>3. Cardinality(same) = 1
  BY DEF Usable, Unambiguous
<1>4. PICK x : same = {x}
  BY <1>2, <1>3, FS_Singleton, Zenon
<1> QED
  BY <1>4

LEMMA EffectiveCheck ==
  ASSUME EInv,
         \/ SkipContract \/ ReportFinding \/ PolicyUnreadable \/ PolicyForOther \/ CompareSource
  PROVE  EInv'
<1> USE DEF world, options, observed, used, place, outcome
<1>1. /\ UNCHANGED <<target, driver, disk, moves, edits, contracts, enabled, strict, pc, before, driverBefore,
                     after, loaded, scope>>
      /\ failed' = TRUE \/ failed' = failed
      /\ pc = "check" /\ ci \in DOMAIN contracts /\ PS6141 \in enabled
  BY DEF SkipContract, ReportFinding, PolicyUnreadable, PolicyForOther, CompareSource, Comparing, Checking
<1>2. Quiet' => Quiet
  BY <1>1 DEF Quiet
<1>3. Quiet' => QuietLoad'
  BY <1>1, <1>2 DEF EInv, QuietLoad
<1>4. TypeInv'
  <2>1. \/ ci' = ci + 1 /\ pi' = 1 /\ fi' = 1
        \/ ci' = ci /\ pi' = pi + 1 /\ fi' = 1
        \/ ci' = ci /\ pi' = pi /\ fi' = fi + 1
    BY DEF SkipContract, ReportFinding, PolicyUnreadable, PolicyForOther, CompareSource, NextContract, NextPolicy
  <2>2. ci' \in Nat \ {0} /\ pi' \in Nat \ {0} /\ fi' \in Nat \ {0}
    BY <2>1 DEF EInv, TypeInv
  <2> QED
    BY <1>1, <2>2 DEF EInv, TypeInv
<1>5. strict' = Strict(enabled)' /\ strict = Strict(enabled)
  BY <1>1 DEF EInv, Strict, Usable, Unambiguous
<1>6. \A n, m : Fitting(n, m)' = Fitting(n, m)
  BY <1>1 DEF Fitting
<1>7. \A n : Usable(n)' = Usable(n)
  BY <1>1 DEF Usable, Unambiguous
<1>8. ASSUME Quiet, NEW n \in DOMAIN contracts, NEW m \in DOMAIN contracts[n].policies, Usable(n)
      PROVE  scope = target
  <2>1. strict
    <3>1. contracts[n].policies # <<>>
      BY <1>8
    <3> QED
      BY <1>1, <1>5, <1>8, <3>1 DEF Strict
  <2> QED
    BY <1>1, <1>8, <2>1 DEF EInv, QuietLoad, InForce
<1>9. ASSUME Quiet' PROVE PassedOver' /\ NoneMissed'
  <2>1. Quiet /\ PassedOver /\ NoneMissed
    BY <1>1, <1>2, <1>9 DEF EInv
  <2>2. \A n \in DOMAIN contracts : \A m \in DOMAIN contracts[n].policies :
          m \in Nat /\ m > 0 /\ (m \notin 1..(pi - 1) => pi <= m)
    <3> SUFFICES ASSUME NEW n \in DOMAIN contracts, NEW m \in DOMAIN contracts[n].policies
                 PROVE  m \in Nat /\ m > 0 /\ (m \notin 1..(pi - 1) => pi <= m)
      OBVIOUS
    <3>1. m \in 1..Len(contracts[n].policies) /\ Len(contracts[n].policies) \in Nat
      <4>1. contracts \in Configs
        BY DEF EInv, TypeInv
      <4>2. contracts[n].policies \in Seq({contracts[n].policies[k] : k \in DOMAIN contracts[n].policies})
        BY <4>1, ScanAssumption, Zenon
      <4> QED
        BY <4>2
    <3> QED
      BY <3>1 DEF EInv, TypeInv
  <2>3. CASE UNCHANGED <<ci, pi, reported>>
    <3>1. PassedOver'
      BY <1>1, <1>6, <1>7, <2>1, <2>3 DEF PassedOver
    <3>2. NoneMissed'
      BY <1>1, <1>6, <1>7, <2>1, <2>3 DEF NoneMissed
    <3> QED
      BY <3>1, <3>2
  <2>4. CASE NextContract /\ reported' = reported
    <3>1. PassedOver'
      BY <2>4 DEF PassedOver, NextContract
    <3>2. NoneMissed'
      BY <1>1, <1>6, <1>7, <2>1, <2>4 DEF NoneMissed
    <3> QED
      BY <3>1, <3>2
  <2>5. CASE NextPolicy /\ reported' = reported /\ (PolicyForOther \/ (CompareSource /\ ~SourceMatches))
    <3>1. /\ ci' = ci /\ pi' = pi + 1 /\ pi \in Nat \ {0} /\ Usable(ci)
          /\ pi \in DOMAIN contracts[ci].policies
      BY <2>5 DEF NextPolicy, PolicyForOther, CompareSource, Comparing, PolicyLeft, EInv, TypeInv
    <3>2. scope = target
      BY <1>1, <1>8, <2>1, <3>1
    <3>3. ~Fitting(ci, pi)
      <4>1. CASE PolicyForOther
        BY <3>2, <4>1 DEF PolicyForOther, Fitting, Policy
      <4>2. CASE CompareSource /\ ~SourceMatches
        <5>1. fi \in 1..Len(loaded)
          <6>1. fi \in Nat \ {0} /\ Len(loaded) = Len(File) /\ Len(File) \in Nat
            BY <1>1, ScanAssumption DEF EInv, TypeInv, Ended
          <6>2. fi <= Len(File)
            BY <4>2 DEF CompareSource, Comparing
          <6> QED
            BY <6>1, <6>2
        <5>2. loaded[fi] = disk[File[fi]]
          BY <2>1, <5>1 DEF EInv, QuietLoad
        <5>3. disk # contracts[ci].policies[pi].sources
          BY <4>2, <5>2 DEF SourceMatches, Policy
        <5> QED
          BY <5>3 DEF Fitting
      <4> QED
        BY <2>5, <4>1, <4>2
    <3>4. \A m \in 1..(pi' - 1) : m \in 1..(pi - 1) \/ m = pi
      BY <3>1
    <3>5. PassedOver'
      BY <1>1, <1>6, <1>7, <2>1, <3>1, <3>3, <3>4 DEF PassedOver
    <3>6. NoneMissed'
      BY <1>1, <1>6, <1>7, <2>1, <2>5 DEF NoneMissed
    <3> QED
      BY <3>5, <3>6
  <2>6. CASE ReportFinding
    <3>1. /\ reported' = reported \cup {contracts[ci].claim} /\ pi' = 1
          /\ Usable(ci) /\ ~PolicyLeft
      BY <2>6 DEF ReportFinding, NextContract
    <3>2. PassedOver'
      BY <3>1 DEF PassedOver
    <3>3. ASSUME NEW n \in DOMAIN contracts, NEW m \in DOMAIN contracts[n].policies, Usable(n), Fitting(n, m)
          PROVE  contracts[n].claim \notin reported'
      <4>1. contracts[n].claim \notin reported
        BY <2>1, <3>3 DEF NoneMissed
      <4>2. CASE contracts[n].claim = contracts[ci].claim
        <5>1. ci = n
          BY <1>1, <3>3, <4>2, OnlyOneForItsClaim DEF EInv, TypeInv
        <5>2. scope = target /\ scope # Unknown
          BY <1>8, <2>1, <3>3, ScanAssumption DEF EInv, TypeInv
        <5>3. pi \notin DOMAIN contracts[ci].policies
          BY <3>1, <3>3, <5>1, <5>2 DEF PolicyLeft, Fitting
        <5>4. m \in 1..(pi - 1)
          <6>1. Len(contracts[ci].policies) \in Nat /\ DOMAIN contracts[ci].policies = 1..Len(contracts[ci].policies)
            BY <1>1, ScanAssumption DEF EInv, TypeInv
          <6>2. m \in 1..Len(contracts[ci].policies) /\ pi \in Nat \ {0}
            BY <3>3, <5>1, <6>1 DEF EInv, TypeInv
          <6> QED
            BY <5>3, <6>1, <6>2
        <5> QED
          BY <1>1, <2>1, <3>3, <5>1, <5>4 DEF PassedOver
      <4> QED
        BY <3>1, <4>1, <4>2
    <3>4. NoneMissed'
      BY <1>1, <1>6, <1>7, <3>3 DEF NoneMissed
    <3> QED
      BY <3>2, <3>4
  <2>7. ~PolicyUnreadable
    BY <1>9 DEF PolicyUnreadable, Quiet
  <2>8. CASE SkipContract
    BY <2>4, <2>8 DEF SkipContract
  <2>9. CASE PolicyForOther
    BY <2>5, <2>9 DEF PolicyForOther
  <2>10. CASE CompareSource
    <3>1. reported' = reported
      BY <2>10 DEF CompareSource
    <3>2. CASE ~SourceMatches
      BY <2>5, <2>10, <3>1, <3>2 DEF CompareSource
    <3>3. CASE SourceMatches /\ fi < Len(File)
      BY <2>3, <2>10, <3>1, <3>3 DEF CompareSource
    <3>4. CASE SourceMatches /\ ~(fi < Len(File))
      BY <2>4, <2>10, <3>1, <3>4 DEF CompareSource
    <3> QED
      BY <3>2, <3>3, <3>4
  <2> QED
    BY <2>6, <2>7, <2>8, <2>9, <2>10
<1> QED
  BY <1>1, <1>3, <1>4, <1>5, <1>9 DEF EInv, Ended, InForce

LEMMA EffectiveEnd ==
  ASSUME EInv, Finish \/ UNCHANGED vars
  PROVE  EInv'
<1> USE DEF world, options, observed, used, place, outcome
<1>1. /\ UNCHANGED <<target, driver, disk, moves, edits, contracts, enabled, strict, before, driverBefore, after,
                     loaded, scope, ci, pi, fi, reported, failed>>
      /\ pc' = pc \/ (pc = "check" /\ pc' = "done")
  BY DEF Finish, vars
<1>2. TypeInv' /\ (Quiet' <=> Quiet) /\ Strict(enabled)' = Strict(enabled)
  BY <1>1 DEF EInv, TypeInv, Quiet, Strict, Usable, Unambiguous
<1>3. PassedOver => PassedOver'
  BY <1>1 DEF PassedOver, Usable, Unambiguous, Fitting
<1>4. NoneMissed => NoneMissed'
  BY <1>1 DEF NoneMissed, Usable, Unambiguous, Fitting
<1>5. QuietLoad => QuietLoad'
  BY <1>1 DEF QuietLoad, Observed, Probed, Chosen, Ended, InForce
<1> QED
  BY <1>1, <1>2, <1>3, <1>4, <1>5 DEF EInv, Ended, InForce

(* Where nothing fails and nothing changes, every policy that fits takes    *)
(* effect, for any configuration, selection and number of policies          *)
(* (loadForChecks, missingVocab, runPS6141WithContracts).                   *)
THEOREM FittingPoliciesTakeEffect == Spec => []ExemptEffective
<1>1. IInv /\ [Next]_vars => IInv'
  BY WorldMoves, LoaderSteps, OtherSteps DEF Next
<1>2. IInv /\ EInv /\ [Next]_vars => EInv'
  BY EffectiveWorld, EffectiveLoad, EffectiveCheck, EffectiveEnd DEF Next
<1>3. EInv => ExemptEffective
  <2> SUFFICES ASSUME EInv, pc = "done", PS6141 \in enabled, Quiet,
                      NEW n \in DOMAIN contracts, NEW m \in DOMAIN contracts[n].policies,
                      Usable(n), Fitting(n, m)
               PROVE  contracts[n].claim \notin reported
    BY DEF ExemptEffective, Quiet, Fitting
  <2> QED
    BY DEF EInv, NoneMissed
<1> QED
  BY <1>1, <1>2, <1>3, InitIInv, InitEInv, PTL DEF Spec
=============================================================================
