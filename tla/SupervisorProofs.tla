-------------------------- MODULE SupervisorProofs --------------------------
(***************************************************************************)
(* What TLAPS proves of the supervisor: types, that no stranger is ever    *)
(* signaled, that the target starts traced, that the record tells the      *)
(* truth, that what is accepted was clean, and that no child is left.      *)
(* One inductive invariant, IInv, carries the last five. Unusual events    *)
(* may be as many as one likes, if they are Repeated.                      *)
(***************************************************************************)
EXTENDS Supervisor, TLAPS

Live == {"stopped", "running", "zombie"}
Cleanup == {"clean", "term", "kill", "final", "print", "printed", "exit"}

\* An ID that the helper has is that of a child nobody has reaped; while
\* nothing unusual happens it has every such ID.
Owned ==
  \A c \in Child :
    /\ own[c] => os[c] \in Live
    /\ spared /\ os[c] \in Live => own[c]

\* A child is spawned once, with its streams open.
Spawning ==
  /\ pc = "setup" => \A c \in Child : os[c] = "none"
  /\ pc = "spawn" /\ step = "target" => os["target"] = "none"
  /\ pc = "spawn" => os["recorder"] = "none"
  /\ (pc = "setup" /\ step = "second") \/ pc = "spawn" => \A c \in Child : reading[c]

\* A child that counts as reaped is, with the status it ended with.
Reaping == \A c \in Child : reaped[c] => os[c] = "gone" /\ status[c] = code[c]

\* A stream that is not read any more has no writer.
Streams == \A c \in Child : ~reading[c] => ~HasWriter(c)

\* The target runs once it was resumed, and the recorder records by then.
Traced ==
  /\ os["target"] = "running" => ran
  /\ ran <=> resumed
  /\ resumed => ready
  /\ ready => posted

\* Failures and cancellations end the loop.
Undisturbed ==
  /\ pc \in {"setup", "spawn", "loop"} => ~canceled
  /\ pc = "loop" /\ step = "notify" => ~failed

\* A run that went well leaves nothing to clean up.
Unsignaled == \A c \in Child : sent[c] \subseteq {"CONT"}
WentWell ==
  /\ pc \in {"setup", "spawn", "loop", "after"} => Unsignaled
  /\ pc \in Cleanup /\ ~failed /\ ~canceled => BothEnded /\ Unsignaled

\* Who was signaled is on record as forced.
Forcing ==
  spared =>
    /\ \A c \in Child : sent[c] \subseteq {"CONT"} \/ forced[c]
    /\ pc \in {"term", "kill"} => forced[cleaning] \/ ~own[cleaning] \/ os[cleaning] = "zombie"

\* A child that was cleaned up is reaped or killed; one that ended just before
\* it could be killed is reaped by the last tick.
Killed(c) == ~own[c] \/ "KILL" \in sent[c]
Leaving ==
  spared =>
    /\ pc = "kill" => Killed(cleaning) \/ os[cleaning] = "zombie"
    /\ (pc \in {"clean", "term", "kill"} /\ cleaning = "recorder") \/ pc = "final" =>
         Killed("target") \/ os["target"] = "zombie"
    /\ pc = "final" => Killed("recorder") \/ os["recorder"] = "zombie"
    /\ pc = "final" /\ step # "reap1" => Killed("target")
    /\ pc = "final" /\ step \notin {"reap1", "reap2"} => Killed("recorder")
    /\ pc \in {"print", "printed", "exit"} => \A c \in Child : Killed(c)

\* The record is the helper's state, which stays as it was printed.
State == [ready |-> ready, resumed |-> resumed, reaped |-> reaped, status |-> status,
          forced |-> forced["target"] \/ forced["recorder"],
          canceled |-> canceled, failed |-> failed]
Printed == record # NoRecord => pc \in {"printed", "exit", "dead"} /\ record = State

\* The parent accepts only what the helper left when it ended.
Accepting ==
  /\ pc = "dead" => phase \notin {"wait", "closing"}
  /\ accepted => pc = "exit" /\ AcceptedIsClean

IInv ==
  /\ Owned /\ NoStrangerSignaled /\ Spawning /\ Reaping /\ Streams /\ Traced /\ Undisturbed
  /\ WentWell /\ Forcing /\ Leaving /\ Printed /\ Accepting

\* The types that the proofs below need.
Maps ==
  /\ os \in [Child -> {"none", "stopped", "running", "zombie", "gone"}]
  /\ code \in [Child -> Status] /\ status \in [Child -> Status]
  /\ sent \in [Child -> SUBSET {"CONT", "TERM", "KILL"}]
  /\ own \in [Child -> BOOLEAN] /\ reaped \in [Child -> BOOLEAN]
  /\ forced \in [Child -> BOOLEAN] /\ reading \in [Child -> BOOLEAN]
  /\ cleaning \in Child

\* What no step of the helper changes.
Frame == HelperLives /\ UNCHANGED <<code, held, posted, asked, parent>>

-----------------------------------------------------------------------------
LEMMA InitTyped == Init => TypeOK
<1> SUFFICES ASSUME Init PROVE TypeOK
  OBVIOUS
<1>1. {ran, held, posted, spared, asked, late, harmed} \subseteq BOOLEAN
  BY Zenon DEF Init
<1>2. {ready, resumed, canceled, failed, accepted} \subseteq BOOLEAN
  BY Zenon DEF Init
<1>3. {own, reaped, forced, reading} \subseteq [Child -> BOOLEAN]
  BY DEF Init
<1> QED
  BY <1>1, <1>2, <1>3 DEF Init, TypeOK, Child, Status, Deadline, NoRecord

LEMMA WorldTyped == TypeOK /\ World => TypeOK'
<1> SUFFICES ASSUME TypeOK, World PROVE TypeOK'
  OBVIOUS
<1> USE DEF TypeOK, where, kids, flags, parent, outside, kernel
<1>1. ASSUME NEW c \in Child, ChildExits(c) PROVE TypeOK'
  BY <1>1 DEF ChildExits, Ends, Status
<1>2. ASSUME NEW c \in Child, ChildDies(c) PROVE TypeOK'
  <2>1. os' = [os EXCEPT ![c] = "zombie"] /\ code' = [code EXCEPT ![c] = "bad"]
    BY <1>2 DEF ChildDies
  <2>2. spared' \in BOOLEAN
    BY <1>2 DEF ChildDies, Unusual
  <2>3. UNCHANGED <<sent, ran, held, posted, past, asked, pc, step, cleaning, own, reaped, status,
                    forced, ready, resumed, canceled, failed, reading, phase, accepted, late, harmed>>
    BY <1>2 DEF ChildDies
  <2>4. /\ os' \in [Child -> {"none", "stopped", "running", "zombie", "gone"}]
        /\ code' \in [Child -> Status]
    BY <2>1 DEF Status
  <2> QED
    BY <2>2, <2>3, <2>4
<1>3. CASE Detach
  BY <1>3 DEF Detach
<1>4. CASE Announce
  BY <1>4 DEF Announce
<1>5. CASE Interrupt
  BY <1>5 DEF Interrupt
<1>6. ASSUME NEW d \in Deadline, TimePasses(d) PROVE TypeOK'
  BY <1>6 DEF TimePasses
<1> QED
  BY <1>1, <1>2, <1>3, <1>4, <1>5, <1>6 DEF World

LEMMA ParentTyped == TypeOK /\ Parent => TypeOK'
<1> SUFFICES ASSUME TypeOK, Parent PROVE TypeOK'
  OBVIOUS
<1> USE DEF TypeOK, kernel, helper, kids, where, flags, outside
<1>1. CASE CloseControl
  BY <1>1 DEF CloseControl
<1>2. CASE KillHelper
  BY <1>2 DEF KillHelper
<1>3. CASE Return
  BY <1>3 DEF Return
<1>4. CASE ParentDies
  BY <1>4 DEF ParentDies
<1> QED
  BY <1>1, <1>2, <1>3, <1>4 DEF Parent

\* What reap and signal_owned do to a child.
Bodies ==
  /\ os \in [Child -> {"none", "stopped", "running", "zombie", "gone"}]
  /\ status \in [Child -> Status]
  /\ {own, reaped} \subseteq [Child -> BOOLEAN]
  /\ {failed, spared} \subseteq BOOLEAN

LEMMA ReapTyped ==
  ASSUME TypeOK, NEW c \in Child, Reap(c)
  PROVE  Bodies'
<1> USE DEF TypeOK, Bodies, Reap, Reaped, Lost, Same, bodies, Unusual
<1>1. os' \in [Child -> {"none", "stopped", "running", "zombie", "gone"}] /\ status' \in [Child -> Status]
  OBVIOUS
<1>2. own' \in [Child -> BOOLEAN] /\ reaped' \in [Child -> BOOLEAN]
  <2>1. own \in [Child -> BOOLEAN] /\ reaped \in [Child -> BOOLEAN]
    OBVIOUS
  <2>2. own' = own \/ own' = [own EXCEPT ![c] = FALSE]
    OBVIOUS
  <2>3. reaped' = reaped \/ reaped' = [reaped EXCEPT ![c] = TRUE]
    OBVIOUS
  <2> QED
    BY <2>1, <2>2, <2>3
<1>3. {failed', spared'} \subseteq BOOLEAN
  OBVIOUS
<1> QED
  BY <1>1, <1>2, <1>3

LEMMA NoSignalTyped ==
  ASSUME TypeOK, NEW c \in Child, NEW fatal \in BOOLEAN, NoSignal(c, fatal)
  PROVE  Bodies'
<1> USE DEF TypeOK, Bodies, NoSignal, Reaped, Lost, Same, bodies, Unusual
<1>1. os' \in [Child -> {"none", "stopped", "running", "zombie", "gone"}] /\ status' \in [Child -> Status]
  OBVIOUS
<1>2. own' \in [Child -> BOOLEAN] /\ reaped' \in [Child -> BOOLEAN]
  <2>1. own \in [Child -> BOOLEAN] /\ reaped \in [Child -> BOOLEAN]
    OBVIOUS
  <2>2. own' = own \/ own' = [own EXCEPT ![c] = FALSE]
    OBVIOUS
  <2>3. reaped' = reaped \/ reaped' = [reaped EXCEPT ![c] = TRUE]
    OBVIOUS
  <2> QED
    BY <2>1, <2>2, <2>3
<1>3. {failed', spared'} \subseteq BOOLEAN
  OBVIOUS
<1> QED
  BY <1>1, <1>2, <1>3

LEMMA SignalTyped ==
  ASSUME TypeOK, NEW c \in Child, NEW sig \in {"CONT", "TERM", "KILL"}, Signal(c, sig)
  PROVE  Bodies' /\ sent' \in [Child -> SUBSET {"CONT", "TERM", "KILL"}] /\ {ran', harmed'} \subseteq BOOLEAN
<1> USE DEF TypeOK, Bodies, Signal
<1>1. os' \in [Child -> {"none", "stopped", "running", "zombie", "gone"}] /\ status' \in [Child -> Status]
  OBVIOUS
<1>2. {own', reaped'} \subseteq [Child -> BOOLEAN] /\ {failed', spared'} \subseteq BOOLEAN
  OBVIOUS
<1>3. sent' \in [Child -> SUBSET {"CONT", "TERM", "KILL"}]
  OBVIOUS
<1>4. {ran', harmed'} \subseteq BOOLEAN
  OBVIOUS
<1> QED
  BY <1>1, <1>2, <1>3, <1>4

LEMMA HelperTyped == TypeOK /\ Helper => TypeOK'
<1> SUFFICES ASSUME TypeOK, Helper PROVE TypeOK'
  OBVIOUS
<1>0. UNCHANGED <<code, held, posted, asked, parent>>
  BY DEF Helper
<1> USE <1>0 DEF TypeOK, where, kids, flags, parent, children, bodies, signals, rest, Go, Break,
    CleanUp, Grace, Fail, Cancel, Unusual, Child
<1>1. CASE SetUp
  <2>1. CASE CleanUp /\ Fail
    BY <1>1, <2>1 DEF SetUp
  <2>2. CASE CleanUp /\ Cancel
    BY <1>1, <2>2 DEF SetUp
  <2>3. CASE Go("setup", "second") \/ Go("spawn", "target")
    <3>1. pc' \in {"setup", "spawn"} /\ step' \in {"second", "target"} /\ cleaning' = cleaning
      BY <2>3
    <3>2. reading' \in [Child -> BOOLEAN]
      BY <1>1, <2>3 DEF SetUp
    <3>3. UNCHANGED <<children, past, forced, flags, failed, late>>
      BY <1>1, <2>3 DEF SetUp
    <3> QED
      BY <3>1, <3>2, <3>3
  <2> QED
    BY <1>1, <2>1, <2>2, <2>3 DEF SetUp
<1>2. CASE SpawnFails
  BY <1>2 DEF SpawnFails
<1>3. CASE SpawnTarget
  BY <1>3 DEF SpawnTarget, Spawn
<1>4. CASE SpawnRecorder
  BY <1>4 DEF SpawnRecorder, Spawn
<1>5. CASE TickReap
  <2>1. Bodies'
    BY <1>5, ReapTyped DEF TickReap, First, Other
  <2> QED
    BY <1>5, <2>1 DEF TickReap, Ticking, Bodies
<1>6. CASE TickDrain
  BY <1>6 DEF TickDrain, Ticking, HasWriter
<1>7. CASE LoopClock
  BY <1>7 DEF LoopClock, At
<1>8. CASE LoopPoll
  BY <1>8 DEF LoopPoll, At
<1>9. CASE NoRecorder
  BY <1>9 DEF NoRecorder, At
<1>10. CASE NotReady
  BY <1>10 DEF NotReady, At
<1>11. CASE Resume
  BY <1>11 DEF Resume, At, Signal
<1>12. CASE ResumeFails
  <2>1. Bodies'
    BY <1>12, NoSignalTyped DEF ResumeFails
  <2> QED
    BY <1>12, <2>1 DEF ResumeFails, NoSignal, Bodies
<1>13. CASE LateCheck
  BY <1>13 DEF LateCheck, At
<1>14. CASE LoopEnd
  BY <1>14 DEF LoopEnd, At
<1>15. CASE AfterLoop
  BY <1>15 DEF AfterLoop, BothEnded
<1>16. CASE CleanGone
  <2>1. Bodies'
    BY <1>16, ReapTyped DEF CleanGone
  <2> QED
    BY <1>16, <2>1 DEF CleanGone, NextChild, Bodies
<1>17. CASE CleanTerm
  <2>0. forced' \in [Child -> BOOLEAN] /\ past' \subseteq Deadline
    <3>1. forced \in [Child -> BOOLEAN]
      OBVIOUS
    <3>2. forced' = forced \/ forced' = [forced EXCEPT ![cleaning] = TRUE]
      BY <1>17 DEF CleanTerm
    <3>3. past' = past \ {"grace"}
      BY <1>17 DEF CleanTerm
    <3> QED
      BY <3>1, <3>2, <3>3
  <2>3. /\ pc' = "term" /\ step' = "clock" /\ UNCHANGED cleaning
        /\ UNCHANGED <<ready, resumed, canceled, reading, record, late>>
    BY <1>17 DEF CleanTerm
  <2>1. CASE Signal(cleaning, "TERM")
    <3>1. /\ Bodies' /\ sent' \in [Child -> SUBSET {"CONT", "TERM", "KILL"}]
          /\ {ran', harmed'} \subseteq BOOLEAN
      BY <2>1, SignalTyped
    <3> QED
      BY <2>0, <2>3, <3>1 DEF Bodies
  <2>2. CASE NoSignal(cleaning, FALSE)
    <3>1. Bodies' /\ UNCHANGED <<sent, ran, harmed>>
      BY <2>2, NoSignalTyped DEF NoSignal
    <3> QED
      BY <2>0, <2>3, <3>1 DEF Bodies
  <2> QED
    BY <1>17, <2>1, <2>2 DEF CleanTerm
<1>18. CASE CleanWait
  BY <1>18 DEF CleanWait, Waiting
<1>19. CASE CleanKill
  <2>1. CASE Signal(cleaning, "KILL")
    <3>1. /\ Bodies' /\ sent' \in [Child -> SUBSET {"CONT", "TERM", "KILL"}]
          /\ {ran', harmed'} \subseteq BOOLEAN
      BY <2>1, SignalTyped
    <3> QED
      BY <1>19, <3>1 DEF CleanKill, Bodies
  <2>2. CASE NoSignal(cleaning, FALSE)
    <3>1. Bodies' /\ UNCHANGED <<sent, ran, harmed>>
      BY <2>2, NoSignalTyped DEF NoSignal
    <3> QED
      BY <1>19, <3>1 DEF CleanKill, Bodies
  <2> QED
    BY <1>19, <2>1, <2>2 DEF CleanKill
<1>20. CASE CleanDone
  BY <1>20 DEF CleanDone, Waited, NextChild
<1>21. CASE PrintRecord
  BY <1>21 DEF PrintRecord
<1>22. CASE End
  BY <1>22 DEF End
<1> HIDE DEF TypeOK
<1> QED
  BY <1>1, <1>2, <1>3, <1>4, <1>5, <1>6, <1>7, <1>8, <1>9, <1>10, <1>11, <1>12, <1>13, <1>14,
     <1>15, <1>16, <1>17, <1>18, <1>19, <1>20, <1>21, <1>22 DEF Helper

LEMMA NextTyped == TypeOK /\ [Next]_vars => TypeOK'
<1>1. TypeOK /\ UNCHANGED vars => TypeOK'
  BY DEF TypeOK, vars, kernel, outside, where, kids, flags, parent
<1> QED
  BY <1>1, WorldTyped, HelperTyped, ParentTyped DEF Next

\* What the proofs below need of the types.
LEMMA TypeOKMaps == TypeOK => Maps
  BY DEF TypeOK, Maps

-----------------------------------------------------------------------------
LEMMA ChildrenKept ==
  ASSUME Maps, IInv, NEW c \in Child, ChildExits(c) \/ ChildDies(c)
  PROVE  IInv'
<1> USE DEF IInv, ChildExits, kids, flags, where, parent, outside, Ends, ChildDies, Unusual,
  Maps, Child
<1>1. Owned'
  BY DEF Owned, Live, Spawning
<1>2. NoStrangerSignaled'
  BY DEF NoStrangerSignaled, Owned, Live
<1>3. Spawning'
  BY DEF Spawning
<1>4. Reaping'
  BY DEF Reaping, Owned, Live, Spawning
<1>5. Streams'
  BY DEF Streams, HasWriter, Owned, Live, Spawning
<1>6. Traced'
  BY DEF Traced, Owned, Live, Spawning
<1>7. Undisturbed'
  BY DEF Undisturbed
<1>8. WentWell'
  BY DEF WentWell, Owned, Live, Undisturbed, Cleanup, BothEnded, Unsignaled
<1>9. Forcing'
  <2>1. spared' => spared
    OBVIOUS
  <2>2. UNCHANGED <<sent, forced, own, pc, cleaning>>
    OBVIOUS
  <2>3. \A d \in Child : os'[d] = os[d] \/ os'[d] = "zombie"
    OBVIOUS
  <2> QED
    BY <2>1, <2>2, <2>3 DEF Forcing
<1>10. Leaving'
  <2>1. spared' => spared
    OBVIOUS
  <2>2. UNCHANGED <<sent, own, pc, step, cleaning>>
    OBVIOUS
  <2>3. \A d \in Child : os'[d] = os[d] \/ os'[d] = "zombie"
    OBVIOUS
  <2> QED
    BY <2>1, <2>2, <2>3 DEF Leaving, Killed
<1>11. Printed'
  BY DEF Printed, State
<1>12. Accepting'
  BY DEF Accepting, AcceptedIsClean
<1> QED
  BY <1>1, <1>2, <1>3, <1>4, <1>5, <1>6, <1>7, <1>8, <1>9, <1>10, <1>11, <1>12

LEMMA WorldKept ==
  ASSUME Maps, IInv, Detach \/ Announce \/ Interrupt \/ \E d \in Deadline : TimePasses(d)
  PROVE  IInv'
<1> USE DEF IInv, Detach, kids, flags, where, parent, outside, Announce, HelperLives,
  Interrupt, kernel, TimePasses, Maps, Child
<1>1. Owned'
  BY DEF Owned, Live, Spawning
<1>2. NoStrangerSignaled'
  BY DEF NoStrangerSignaled, Owned, Live
<1>3. Spawning'
  BY DEF Spawning
<1>4. Reaping'
  BY DEF Reaping, Owned, Live, Spawning
<1>5. Streams'
  BY DEF Streams, HasWriter, Owned, Live, Spawning
<1>6. Traced'
  BY DEF Traced, Owned, Live, Spawning
<1>7. Undisturbed'
  BY DEF Undisturbed
<1>8. WentWell'
  BY DEF WentWell, Owned, Live, Undisturbed, Cleanup, BothEnded, Unsignaled
<1>9. Forcing'
  BY DEF Forcing, Owned, Live
<1>10. Leaving'
  <2>1. UNCHANGED <<spared, sent, own, os, pc, step, cleaning>>
    OBVIOUS
  <2> QED
    BY <2>1 DEF Leaving, Killed
<1>11. Printed'
  BY DEF Printed, State
<1>12. Accepting'
  BY DEF Accepting, AcceptedIsClean
<1> QED
  BY <1>1, <1>2, <1>3, <1>4, <1>5, <1>6, <1>7, <1>8, <1>9, <1>10, <1>11, <1>12

LEMMA ParentKept ==
  ASSUME Maps, IInv, CloseControl \/ KillHelper \/ ParentDies
  PROVE  IInv'
<1> USE DEF IInv, CloseControl, kernel, helper, where, kids, flags, KillHelper, outside,
  ParentDies, Maps, Child
<1>1. Owned'
  BY DEF Owned, Live, Spawning
<1>2. NoStrangerSignaled'
  BY DEF NoStrangerSignaled, Owned, Live
<1>3. Spawning'
  BY DEF Spawning
<1>4. Reaping'
  BY DEF Reaping, Owned, Live, Spawning
<1>5. Streams'
  BY DEF Streams, HasWriter, Owned, Live, Spawning
<1>6. Traced'
  BY DEF Traced, Owned, Live, Spawning
<1>7. Undisturbed'
  BY DEF Undisturbed
<1>8. WentWell'
  BY DEF WentWell, Owned, Live, Undisturbed, Cleanup, BothEnded, Unsignaled
<1>9. Forcing'
  BY DEF Forcing, Owned, Live
<1>10. Leaving'
  BY DEF Leaving, Killed, Owned, Live
<1>11. Printed'
  BY DEF Printed, State
<1>12. Accepting'
  <2>1. CASE CloseControl \/ ParentDies
    BY <2>1 DEF Accepting, AcceptedIsClean
  <2>2. CASE KillHelper
    BY <2>2 DEF Accepting, HelperLives
  <2> QED
    BY <2>1, <2>2
<1> QED
  BY <1>1, <1>2, <1>3, <1>4, <1>5, <1>6, <1>7, <1>8, <1>9, <1>10, <1>11, <1>12

LEMMA SetUpKept ==
  ASSUME Maps, IInv, SetUp \/ SpawnFails, Frame
  PROVE  IInv'
<1> USE DEF IInv, SetUp, children, bodies, signals, CleanUp, Go, Fail, Cancel, rest, flags,
  SpawnFails, Frame, HelperLives, parent, Maps, Child
<1>1. Owned'
  BY DEF Owned, Live, Spawning
<1>2. NoStrangerSignaled'
  BY DEF NoStrangerSignaled, Owned, Live
<1>3. Spawning'
  BY DEF Spawning
<1>4. Reaping'
  BY DEF Reaping, Owned, Live, Spawning
<1>5. Streams'
  BY DEF Streams, HasWriter, Owned, Live, Spawning
<1>6. Traced'
  BY DEF Traced, Owned, Live, Spawning
<1>7. Undisturbed'
  BY DEF Undisturbed
<1>8. WentWell'
  BY DEF WentWell, Owned, Live, Undisturbed, Cleanup, BothEnded, Unsignaled
<1>9. Forcing'
  BY DEF Forcing, Owned, Live
<1>10. Leaving'
  BY DEF Leaving, Killed, Owned, Live
<1>11. Printed'
  BY DEF Printed, State
<1>12. Accepting'
  BY DEF Accepting, AcceptedIsClean
<1> QED
  BY <1>1, <1>2, <1>3, <1>4, <1>5, <1>6, <1>7, <1>8, <1>9, <1>10, <1>11, <1>12

LEMMA SpawnKept ==
  ASSUME Maps, IInv, SpawnTarget \/ SpawnRecorder, Frame
  PROVE  IInv'
<1> USE DEF IInv, SpawnTarget, Spawn, Go, CleanUp, Fail, rest, flags, Unusual, SpawnRecorder,
  Frame, HelperLives, parent, Maps, Child
<1>1. Owned'
  BY DEF Owned, Live, Spawning
<1>2. NoStrangerSignaled'
  BY DEF NoStrangerSignaled, Owned, Live
<1>3. Spawning'
  BY DEF Spawning
<1>4. Reaping'
  BY DEF Reaping, Owned, Live, Spawning
<1>5. Streams'
  BY DEF Streams, HasWriter, Owned, Live, Spawning
<1>6. Traced'
  BY DEF Traced, Owned, Live, Spawning
<1>7. Undisturbed'
  BY DEF Undisturbed
<1>8. WentWell'
  BY DEF WentWell, Owned, Live, Undisturbed, Cleanup, BothEnded, Unsignaled
<1>9. Forcing'
  BY DEF Forcing, Owned, Live
<1>10. Leaving'
  BY DEF Leaving, Killed, Owned, Live
<1>11. Printed'
  BY DEF Printed, State
<1>12. Accepting'
  BY DEF Accepting, AcceptedIsClean
<1> QED
  BY <1>1, <1>2, <1>3, <1>4, <1>5, <1>6, <1>7, <1>8, <1>9, <1>10, <1>11, <1>12

LEMMA ReapKept ==
  ASSUME Maps, IInv, TickReap, Frame
  PROVE  IInv'
<1> USE DEF IInv, TickReap, Ticking, First, Other, Go, Reap, Reaped, Lost, Same, bodies,
  Unusual, flags, Frame, HelperLives, parent, Maps, Child
<1>1. Owned'
  BY DEF Owned, Live, Spawning
<1>2. NoStrangerSignaled'
  BY DEF NoStrangerSignaled, Owned, Live
<1>3. Spawning'
  BY DEF Spawning
<1>4. Reaping'
  BY DEF Reaping, Owned, Live, Spawning
<1>5. Streams'
  BY DEF Streams, HasWriter, Owned, Live, Spawning
<1>6. Traced'
  BY DEF Traced, Owned, Live, Spawning
<1>7. Undisturbed'
  BY DEF Undisturbed
<1>8. WentWell'
  BY DEF WentWell, Owned, Live, Undisturbed, Cleanup, BothEnded, Unsignaled
<1>9. Forcing'
  <2>1. spared' => spared
    OBVIOUS
  <2>2. UNCHANGED <<sent, forced, pc, cleaning>>
    OBVIOUS
  <2>3. \A d \in Child : own'[d] => own[d] /\ os'[d] = os[d]
    OBVIOUS
  <2> QED
    BY <2>1, <2>2, <2>3 DEF Forcing
<1>10. Leaving'
  <2>1. spared' => spared
    OBVIOUS
  <2>2. UNCHANGED <<sent, pc, cleaning>>
    OBVIOUS
  <2>3. \A d \in Child : own'[d] => own[d] /\ os'[d] = os[d]
    OBVIOUS
  <2>4. ASSUME spared, pc = "final", step = "reap1"
        PROVE  step' = "reap2" /\ (spared' => Killed("target")')
    BY <2>4 DEF Leaving, Killed
  <2>5. ASSUME spared, pc = "final", step = "reap2"
        PROVE  step' = "drain" /\ (spared' => Killed("recorder")')
    BY <2>5 DEF Leaving, Killed
  <2>6. \A d \in Child : Killed(d) => Killed(d)'
    BY <2>2, <2>3 DEF Killed
  <2>7. \A d \in Child : Killed(d) \/ os[d] = "zombie" => Killed(d)' \/ os'[d] = "zombie"
    BY <2>2, <2>3, <2>6 DEF Killed
  <2>8. step \in {"reap1", "reap2"}
    OBVIOUS
  <2> QED
    BY <2>1, <2>2, <2>4, <2>5, <2>6, <2>7, <2>8 DEF Leaving
<1>11. Printed'
  BY DEF Printed, State
<1>12. Accepting'
  BY DEF Accepting, AcceptedIsClean
<1> QED
  BY <1>1, <1>2, <1>3, <1>4, <1>5, <1>6, <1>7, <1>8, <1>9, <1>10, <1>11, <1>12

LEMMA DrainKept ==
  ASSUME Maps, IInv, TickDrain, Frame
  PROVE  IInv'
<1> USE DEF IInv, TickDrain, Ticking, Go, children, bodies, signals, flags, HasWriter, Frame,
  HelperLives, parent, Maps, Child
<1>1. Owned'
  BY DEF Owned, Live, Spawning
<1>2. NoStrangerSignaled'
  BY DEF NoStrangerSignaled, Owned, Live
<1>3. Spawning'
  BY DEF Spawning
<1>4. Reaping'
  BY DEF Reaping, Owned, Live, Spawning
<1>5. Streams'
  BY DEF Streams, Owned, Live, Spawning
<1>6. Traced'
  BY DEF Traced, Owned, Live, Spawning
<1>7. Undisturbed'
  BY DEF Undisturbed
<1>8. WentWell'
  BY DEF WentWell, Owned, Live, Undisturbed, Cleanup, BothEnded, Unsignaled
<1>9. Forcing'
  BY DEF Forcing, Owned, Live
<1>10. Leaving'
  BY DEF Leaving, Killed, Owned, Live
<1>11. Printed'
  BY DEF Printed, State
<1>12. Accepting'
  BY DEF Accepting, AcceptedIsClean
<1> QED
  BY <1>1, <1>2, <1>3, <1>4, <1>5, <1>6, <1>7, <1>8, <1>9, <1>10, <1>11, <1>12

LEMMA LoopKept ==
  ASSUME Maps, IInv, LoopClock \/ LoopPoll \/ NoRecorder \/ NotReady \/ LateCheck \/ LoopEnd \/
         AfterLoop, Frame
  PROVE  IInv'
<1> USE DEF IInv, LoopClock, At, Break, Go, children, bodies, signals, rest, flags, LoopPoll,
  Cancel, Fail, Unusual, NoRecorder, NotReady, LateCheck, LoopEnd, BothEnded, AfterLoop,
  CleanUp, Frame, HelperLives, parent, Maps, Child
<1>1. Owned'
  BY DEF Owned, Live, Spawning
<1>2. NoStrangerSignaled'
  BY DEF NoStrangerSignaled, Owned, Live
<1>3. Spawning'
  BY DEF Spawning
<1>4. Reaping'
  BY DEF Reaping, Owned, Live, Spawning
<1>5. Streams'
  BY DEF Streams, HasWriter, Owned, Live, Spawning
<1>6. Traced'
  BY DEF Traced, Owned, Live, Spawning
<1>7. Undisturbed'
  BY DEF Undisturbed
<1>8. WentWell'
  BY DEF WentWell, Owned, Live, Undisturbed, Cleanup, Unsignaled
<1>9. Forcing'
  BY DEF Forcing, Owned, Live
<1>10. Leaving'
  BY DEF Leaving, Killed, Owned, Live
<1>11. Printed'
  BY DEF Printed, State
<1>12. Accepting'
  BY DEF Accepting, AcceptedIsClean
<1> QED
  BY <1>1, <1>2, <1>3, <1>4, <1>5, <1>6, <1>7, <1>8, <1>9, <1>10, <1>11, <1>12

LEMMA ResumeKept ==
  ASSUME Maps, IInv, Resume \/ ResumeFails, Frame
  PROVE  IInv'
<1> USE DEF IInv, Resume, At, Go, Signal, ResumeFails, Break, NoSignal, Reaped, Lost, Same,
  bodies, Unusual, Frame, HelperLives, parent, Maps, Child
<1>1. Owned'
  BY DEF Owned, Live, Spawning
<1>2. NoStrangerSignaled'
  BY DEF NoStrangerSignaled, Owned, Live
<1>3. Spawning'
  BY DEF Spawning
<1>4. Reaping'
  BY DEF Reaping, Owned, Live, Spawning
<1>5. Streams'
  BY DEF Streams, HasWriter, Owned, Live, Spawning
<1>6. Traced'
  BY DEF Traced, Owned, Live, Spawning
<1>7. Undisturbed'
  BY DEF Undisturbed
<1>8. WentWell'
  BY DEF WentWell, Owned, Live, Undisturbed, Cleanup, BothEnded, Unsignaled
<1>9. Forcing'
  <2>1. spared' => spared
    OBVIOUS
  <2>2. UNCHANGED forced /\ pc' \notin {"term", "kill"}
    OBVIOUS
  <2>3. \A c \in Child : sent'[c] \subseteq sent[c] \cup {"CONT"}
    OBVIOUS
  <2> QED
    BY <2>1, <2>2, <2>3 DEF Forcing
<1>10. Leaving'
  BY DEF Leaving, Killed, Owned, Live
<1>11. Printed'
  BY DEF Printed, State
<1>12. Accepting'
  BY DEF Accepting, AcceptedIsClean
<1> QED
  BY <1>1, <1>2, <1>3, <1>4, <1>5, <1>6, <1>7, <1>8, <1>9, <1>10, <1>11, <1>12

LEMMA CleanKept ==
  ASSUME Maps, IInv, CleanGone \/ CleanWait \/ CleanDone, Frame
  PROVE  IInv'
<1> USE DEF IInv, CleanGone, NextChild, Go, Reap, Reaped, Lost, Same, bodies, Unusual, flags,
  CleanWait, Waiting, children, signals, rest, CleanDone, Waited, Frame, HelperLives, parent,
  Maps, Child
<1>1. Owned'
  BY DEF Owned, Live, Spawning
<1>2. NoStrangerSignaled'
  BY DEF NoStrangerSignaled, Owned, Live
<1>3. Spawning'
  BY DEF Spawning
<1>4. Reaping'
  BY DEF Reaping, Owned, Live, Spawning
<1>5. Streams'
  BY DEF Streams, HasWriter, Owned, Live, Spawning
<1>6. Traced'
  BY DEF Traced, Owned, Live, Spawning
<1>7. Undisturbed'
  BY DEF Undisturbed
<1>8. WentWell'
  BY DEF WentWell, Owned, Live, Undisturbed, Cleanup, BothEnded, Unsignaled
<1>9. Forcing'
  BY DEF Forcing, Owned, Live
<1>10. Leaving'
  BY DEF Leaving, Killed, Owned, Live
<1>11. Printed'
  BY DEF Printed, State
<1>12. Accepting'
  BY DEF Accepting, AcceptedIsClean
<1> QED
  BY <1>1, <1>2, <1>3, <1>4, <1>5, <1>6, <1>7, <1>8, <1>9, <1>10, <1>11, <1>12

LEMMA TermKept ==
  ASSUME Maps, IInv, CleanTerm, Frame
  PROVE  IInv'
<1> USE DEF IInv, CleanTerm, Grace, Go, Signal, NoSignal, Reaped, Lost, Same, bodies, Unusual,
  flags, Frame, HelperLives, parent, Maps, Child
<1>1. Owned'
  BY DEF Owned, Live, Spawning
<1>2. NoStrangerSignaled'
  BY DEF NoStrangerSignaled, Owned, Live
<1>3. Spawning'
  BY DEF Spawning
<1>4. Reaping'
  BY DEF Reaping, Owned, Live, Spawning
<1>5. Streams'
  BY DEF Streams, HasWriter, Owned, Live, Spawning
<1>6. Traced'
  <2>1. UNCHANGED <<ready, resumed, posted>>
    OBVIOUS
  <2>2. CASE Signal(cleaning, "TERM")
    <3>1. os' = os
      BY <2>2
    <3>2. ran' <=> ran
      BY <2>2, <3>1 DEF Traced
    <3> QED
      BY <2>1, <3>1, <3>2 DEF Traced
  <2>3. CASE NoSignal(cleaning, FALSE)
    <3>1. os'["target"] = os["target"] \/ os'["target"] = "gone"
      BY <2>3
    <3>2. UNCHANGED ran
      BY <2>3
    <3> QED
      BY <2>1, <3>1, <3>2 DEF Traced
  <2> QED
    BY <2>2, <2>3
<1>7. Undisturbed'
  BY DEF Undisturbed
<1>8. WentWell'
  BY DEF WentWell, Owned, Live, Undisturbed, Cleanup, BothEnded, Unsignaled
<1>9. Forcing'
  BY DEF Forcing, Owned, Live
<1>10. Leaving'
  BY DEF Leaving, Killed, Owned, Live
<1>11. Printed'
  BY DEF Printed, State
<1>12. Accepting'
  BY DEF Accepting, AcceptedIsClean
<1> QED
  BY <1>1, <1>2, <1>3, <1>4, <1>5, <1>6, <1>7, <1>8, <1>9, <1>10, <1>11, <1>12

LEMMA KillKept ==
  ASSUME Maps, IInv, CleanKill, Frame
  PROVE  IInv'
<1> USE DEF IInv, CleanKill, Waited, Grace, Go, Signal, NoSignal, Reaped, Lost, Same, bodies,
  Unusual, flags, Frame, HelperLives, parent, Maps, Child
<1>1. Owned'
  BY DEF Owned, Live, Spawning
<1>2. NoStrangerSignaled'
  BY DEF NoStrangerSignaled, Owned, Live
<1>3. Spawning'
  BY DEF Spawning
<1>4. Reaping'
  BY DEF Reaping, Owned, Live, Spawning
<1>5. Streams'
  BY DEF Streams, HasWriter, Owned, Live, Spawning
<1>6. Traced'
  <2>1. UNCHANGED <<ready, resumed, posted>>
    OBVIOUS
  <2>2. CASE Signal(cleaning, "KILL")
    <3>1. os' = os
      BY <2>2
    <3>2. ran' <=> ran
      BY <2>2, <3>1 DEF Traced
    <3> QED
      BY <2>1, <3>1, <3>2 DEF Traced
  <2>3. CASE NoSignal(cleaning, FALSE)
    <3>1. os'["target"] = os["target"] \/ os'["target"] = "gone"
      BY <2>3
    <3>2. UNCHANGED ran
      BY <2>3
    <3> QED
      BY <2>1, <3>1, <3>2 DEF Traced
  <2> QED
    BY <2>2, <2>3
<1>7. Undisturbed'
  BY DEF Undisturbed
<1>8. WentWell'
  <2>1. pc = "term" /\ pc' = "kill"
    OBVIOUS
  <2>2. failed => failed'
    OBVIOUS
  <2>3. UNCHANGED <<canceled, reading>>
    OBVIOUS
  <2>4. ASSUME ~failed, ~canceled PROVE \A c \in Child : ~own[c] /\ ~own'[c] /\ sent'[c] = sent[c]
    BY <2>1, <2>4 DEF WentWell, BothEnded, Cleanup
  <2> QED
    BY <2>1, <2>2, <2>3, <2>4 DEF WentWell, BothEnded, Unsignaled, Cleanup
<1>9. Forcing'
  BY DEF Forcing, Owned, Live
<1>10. Leaving'
  <2>1. pc = "term" /\ pc' = "kill" /\ UNCHANGED cleaning
    OBVIOUS
  <2>2. spared' => spared
    OBVIOUS
  <2>3. spared' => Killed(cleaning)' \/ os'[cleaning] = "zombie"
    <3>1. CASE Signal(cleaning, "KILL")
      BY <2>1, <3>1 DEF Killed
    <3>2. CASE NoSignal(cleaning, FALSE)
      BY <2>1, <3>2 DEF Killed
    <3> QED
      BY <3>1, <3>2
  <2>4. \A d \in Child : d # cleaning => os'[d] = os[d] /\ own'[d] = own[d] /\ sent'[d] = sent[d]
    OBVIOUS
  <2>5. cleaning = "recorder" /\ spared' => Killed("target")' \/ os'["target"] = "zombie"
    BY <2>1, <2>2, <2>4 DEF Leaving, Killed
  <2> QED
    BY <2>1, <2>3, <2>5 DEF Leaving
<1>11. Printed'
  BY DEF Printed, State
<1>12. Accepting'
  BY DEF Accepting, AcceptedIsClean
<1> QED
  BY <1>1, <1>2, <1>3, <1>4, <1>5, <1>6, <1>7, <1>8, <1>9, <1>10, <1>11, <1>12

LEMMA PrintKept ==
  ASSUME Maps, IInv, PrintRecord \/ End, Frame
  PROVE  IInv'
<1> USE DEF IInv, PrintRecord, Go, bodies, signals, flags, Unusual, End, children, rest, Frame,
  HelperLives, parent, Maps, Child
<1>1. Owned'
  BY DEF Owned, Live, Spawning
<1>2. NoStrangerSignaled'
  BY DEF NoStrangerSignaled, Owned, Live
<1>3. Spawning'
  BY DEF Spawning
<1>4. Reaping'
  BY DEF Reaping, Owned, Live, Spawning
<1>5. Streams'
  BY DEF Streams, HasWriter, Owned, Live, Spawning
<1>6. Traced'
  BY DEF Traced, Owned, Live, Spawning
<1>7. Undisturbed'
  BY DEF Undisturbed
<1>8. WentWell'
  BY DEF WentWell, Owned, Live, Undisturbed, Cleanup, BothEnded, Unsignaled
<1>9. Forcing'
  BY DEF Forcing, Owned, Live
<1>10. Leaving'
  BY DEF Leaving, Killed, Owned, Live
<1>11. Printed'
  BY DEF Printed, State
<1>12. Accepting'
  BY DEF Accepting, AcceptedIsClean
<1> QED
  BY <1>1, <1>2, <1>3, <1>4, <1>5, <1>6, <1>7, <1>8, <1>9, <1>10, <1>11, <1>12

\* The parent accepts: the record says that the run went well, which leaves
\* nothing to clean up and no stream with a writer.
LEMMA ReturnKept ==
  ASSUME Maps, IInv, Return
  PROVE  IInv'
<1> USE DEF IInv
<1>1. UNCHANGED <<kernel, outside, helper>> /\ phase' = "returned"
  BY DEF Return
<1>2. UNCHANGED <<os, code, sent, ran, held, posted, spared, pc, step, cleaning, own, reaped,
                  status, forced, ready, resumed, canceled, failed, reading, record, harmed>>
  BY <1>1 DEF kernel, helper, where, kids, flags
<1>3. ASSUME accepted' PROVE pc' = "exit" /\ AcceptedIsClean'
  <2>1. phase = "wait" /\ ~HelperLives /\ ExitsZero /\ Valid(record)
    BY <1>3 DEF Return
  <2>2. pc = "exit"
    BY <2>1 DEF Accepting, HelperLives
  <2>3. record = State
    BY <2>1 DEF ExitsZero, Printed
  <2>4. /\ record.resumed /\ \A c \in Child : record.reaped[c]
        /\ record.status["target"] = "zero" /\ record.status["recorder"] \in {"zero", "stopped54"}
    BY <2>1 DEF Valid
  <2>5. /\ resumed /\ \A c \in Child : reaped[c]
        /\ status["target"] = "zero" /\ status["recorder"] \in {"zero", "stopped54"}
    BY <2>3, <2>4 DEF State
  <2>6. ran /\ posted
    BY <2>5 DEF Traced
  <2>7. /\ \A c \in Child : os[c] = "gone"
        /\ code["target"] = "zero" /\ code["recorder"] \in {"zero", "stopped54"}
    BY <2>5 DEF Reaping, Child
  <2>8. BothEnded /\ Unsignaled
    BY <2>1, <2>2 DEF ExitsZero, WentWell, Cleanup
  <2>9. ~held
    BY <2>8 DEF BothEnded, Streams, HasWriter, Child
  <2> QED
    BY <1>2, <2>2, <2>6, <2>7, <2>8, <2>9 DEF AcceptedIsClean, Unsignaled
<1>4. Accepting'
  BY <1>1, <1>2, <1>3 DEF Accepting
<1>5. Owned' /\ NoStrangerSignaled' /\ Spawning' /\ Reaping' /\ Streams'
  BY <1>2 DEF Owned, NoStrangerSignaled, Spawning, Reaping, Streams, HasWriter
<1>6. Traced' /\ Undisturbed' /\ WentWell'
  BY <1>2 DEF Traced, Undisturbed, WentWell, BothEnded, Unsignaled
<1>7. Forcing' /\ Leaving' /\ Printed'
  BY <1>2 DEF Forcing, Leaving, Killed, Printed, State
<1> QED
  BY <1>4, <1>5, <1>6, <1>7

LEMMA StutterKept == IInv /\ UNCHANGED vars => IInv'
<1> SUFFICES ASSUME IInv, UNCHANGED vars PROVE IInv'
  OBVIOUS
<1> USE DEF IInv, vars, kernel, outside, where, kids, flags, parent
<1>1. Owned' /\ NoStrangerSignaled' /\ Spawning' /\ Reaping' /\ Streams'
  BY DEF Owned, NoStrangerSignaled, Spawning, Reaping, Streams, HasWriter
<1>2. Traced' /\ Undisturbed' /\ WentWell'
  BY DEF Traced, Undisturbed, WentWell, BothEnded, Unsignaled
<1>3. Forcing' /\ Leaving' /\ Printed' /\ Accepting'
  BY DEF Forcing, Leaving, Killed, Printed, State, Accepting, AcceptedIsClean
<1> QED
  BY <1>1, <1>2, <1>3

LEMMA NextKept == TypeOK /\ IInv /\ [Next]_vars => IInv'
<1> SUFFICES ASSUME TypeOK, IInv, [Next]_vars PROVE IInv'
  OBVIOUS
<1>1. Maps
  BY TypeOKMaps
<1>2. CASE World
  BY <1>1, <1>2, ChildrenKept, WorldKept DEF World
<1>3. CASE Helper
  <2>1. Frame
    BY <1>3 DEF Helper, Frame
  <2> QED
    BY <1>1, <1>3, <2>1, SetUpKept, SpawnKept, ReapKept, DrainKept, LoopKept, ResumeKept,
       CleanKept, TermKept, KillKept, PrintKept DEF Helper
<1>4. CASE Parent
  BY <1>1, <1>4, ParentKept, ReturnKept DEF Parent
<1> QED
  BY <1>2, <1>3, <1>4, StutterKept DEF Next

LEMMA InitIInv == Init => IInv
<1> SUFFICES ASSUME Init PROVE IInv
  OBVIOUS
<1> USE DEF Init, IInv, Child
<1>1. Owned /\ NoStrangerSignaled /\ Spawning /\ Reaping /\ Streams
  BY DEF Owned, NoStrangerSignaled, Spawning, Reaping, Streams, HasWriter, Live
<1>2. Traced /\ Undisturbed /\ WentWell
  BY DEF Traced, Undisturbed, WentWell, Unsignaled, Cleanup
<1>3. Forcing /\ Leaving /\ Printed /\ Accepting
  BY DEF Forcing, Leaving, Printed, Accepting
<1> QED
  BY <1>1, <1>2, <1>3

LEMMA Invariance == Spec => [](TypeOK /\ IInv)
<1>1. TypeOK /\ IInv /\ [Next]_vars => (TypeOK /\ IInv)'
  BY NextTyped, NextKept
<1> QED
  BY InitTyped, InitIInv, <1>1, PTL DEF Spec

-----------------------------------------------------------------------------
(* Every step of the helper, the parent and the world keeps the shape of    *)
(* the helper's memory and of what the kernel knows of its children.        *)
THEOREM TypeCorrect == Spec => []TypeOK
  BY Invariance, PTL

(* No signal of the supervisor ever reaches a process ID that is not that   *)
(* of an unreaped child, whatever ends first and whatever call fails:       *)
(* reaping or losing a child clears its ID before anything else happens.    *)
THEOREM SignalsOnlyOwnChildren == Spec => []NoStrangerSignaled
<1>1. IInv => NoStrangerSignaled
  BY DEF IInv
<1> QED
  BY <1>1, Invariance, PTL

(* What the parent accepts was recorded from its start and ended by itself, *)
(* however many calls failed and however late the parent was.               *)
THEOREM AcceptedWasClean == Spec => []AcceptedIsClean
<1>1. IInv => AcceptedIsClean
  BY DEF IInv, Accepting, AcceptedIsClean
<1> QED
  BY <1>1, Invariance, PTL

(* A printed record tells who was reaped, how each child ended, whether the *)
(* target ran and whether anybody was forced.                               *)
THEOREM RecordIsTrue == Spec => []RecordTruthful
<1>1. IInv => RecordTruthful
  <2> SUFFICES ASSUME IInv, record # NoRecord
               PROVE  /\ \A c \in Child : record.reaped[c] => os[c] = "gone" /\ record.status[c] = code[c]
                      /\ ran => record.resumed
                      /\ ~record.forced /\ spared => \A c \in Child : sent[c] \subseteq {"CONT"}
    BY DEF RecordTruthful
  <2>1. record = State
    BY DEF IInv, Printed
  <2>2. /\ record.reaped = reaped /\ record.status = status /\ record.resumed = resumed
        /\ record.forced = (forced["target"] \/ forced["recorder"])
    BY <2>1 DEF State
  <2>3. \A c \in Child : record.reaped[c] => os[c] = "gone" /\ record.status[c] = code[c]
    BY <2>2 DEF IInv, Reaping
  <2>4. ran => record.resumed
    BY <2>2 DEF IInv, Traced
  <2>5. ASSUME ~record.forced, spared PROVE \A c \in Child : sent[c] \subseteq {"CONT"}
    BY <2>2, <2>5 DEF IInv, Forcing, Child
  <2> QED
    BY <2>3, <2>4, <2>5
<1> QED
  BY <1>1, Invariance, PTL

(* A helper that ends by itself has reaped or killed every child, unless a  *)
(* system call failed.                                                      *)
THEOREM NoChildIsLeft == Spec => []NoChildLeft
<1>1. TypeOK /\ IInv => NoChildLeft
  BY DEF TypeOK, IInv, NoChildLeft, Leaving, Killed, Owned, Live
<1> QED
  BY <1>1, Invariance, PTL

(* The target begins to run in one place only: in the loop, recorded, and   *)
(* before anything went wrong.                                              *)
THEOREM TargetStartsTraced == Spec => MainStartsTraced
<1>1. TypeOK /\ IInv /\ [Next]_vars
        => [~ran /\ ran' => pc = "loop" /\ posted /\ own["recorder"] /\ ~failed /\ ~canceled]_vars
  <2> SUFFICES ASSUME TypeOK, IInv, Next, ~ran, ran'
               PROVE  pc = "loop" /\ posted /\ own["recorder"] /\ ~failed /\ ~canceled
    BY DEF vars, kernel
  <2>1. Maps
    BY TypeOKMaps
  <2>2. os["target"] # "running"
    BY DEF IInv, Traced
  <2>3. Resume
    <3>1. ~World /\ ~Parent /\ ~(UNCHANGED vars)
      BY DEF World, ChildExits, ChildDies, Detach, Announce, Interrupt, TimePasses, Parent,
             CloseControl, KillHelper, Return, ParentDies, kernel, helper, vars
    <3>2. ASSUME NEW c \in Child, NEW sig \in {"TERM", "KILL"}, Signal(c, sig) PROVE FALSE
      BY <2>1, <2>2, <3>2 DEF Signal, Maps
    <3>3. Helper
      BY <3>1 DEF Next
    <3>4. ~CleanTerm /\ ~CleanKill
      BY <2>1, <3>2 DEF CleanTerm, CleanKill, NoSignal, Maps
    <3> QED
      BY <3>3, <3>4 DEF Helper, SetUp, SpawnFails, SpawnTarget, SpawnRecorder, Spawn, TickReap,
         TickDrain, LoopClock, LoopPoll, NoRecorder, NotReady, ResumeFails, NoSignal, LateCheck,
         LoopEnd, AfterLoop, CleanGone, CleanWait, CleanDone, PrintRecord, End, children, signals
  <2> QED
    BY <2>3 DEF Resume, At, IInv, Undisturbed
<1> QED
  BY <1>1, Invariance, PTL DEF Spec, MainStartsTraced
=============================================================================
