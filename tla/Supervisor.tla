----------------------------- MODULE Supervisor -----------------------------
(***************************************************************************)
(* Supervised attach (traceevidence/supervisor/supervisor.c and the caller *)
(* executeSupervisor in traceevidence/supervision.go): a small C helper    *)
(* spawns the target suspended and the recorder that attaches to it, lets  *)
(* the target run once the recorder says that it records, drains what they *)
(* print, and cleans both up; the Go parent times the helper out, kills it *)
(* if need be, and accepts the recording or not.                           *)
(*                                                                         *)
(* One step per system call that matters. The children, the clock, signals *)
(* from outside and the parent act between any two steps. A deadline of    *)
(* the code has passed or not; once started, its clock may run out at any  *)
(* time. The two streams of a child have the same writers: they are one.   *)
(***************************************************************************)
EXTENDS Integers, FiniteSets

CONSTANT Repeated   (* unusual things may happen more than once *)
ASSUME RepeatedAssumption == Repeated \in BOOLEAN

Child == {"target", "recorder"}
Other(c) == IF c = "target" THEN "recorder" ELSE "target"

\* How a child may end: exit 0, exit 54 (which xctrace also uses when its
\* target is gone), or anything else.
Status == {"zero", "stopped54", "bad"}
Ends(c) == IF c = "target" THEN {"zero", "bad"} ELSE {"stopped54", "bad"}

VARIABLES
  (* the children, as the kernel has them *)
  os,        (* "none", "stopped", "running", "zombie" or "gone" (reaped)   *)
  code,      (* how the child ended                                         *)
  sent,      (* the signals it was sent                                     *)
  ran,       (* it executed main()                                          *)
  held,      (* a descendant keeps the writing end of its streams open      *)
  posted,    (* the recorder announced that it records                      *)
  spared,    (* nothing unusual has happened yet                             *)
  (* the clock, and what comes from outside *)
  past,      (* the helper's deadlines that have passed                     *)
  asked,     (* to stop: by a signal, or by the control pipe                  *)
  (* the helper *)
  pc, step, cleaning,
  own,       (* c.pid # 0                                                   *)
  reaped, status, forced, ready, resumed, canceled, failed,
  reading,   (* readfd >= 0                                                 *)
  record,    (* the record it printed, or NoRecord                          *)
  (* the parent *)
  phase, accepted,
  (* histories *)
  late,      (* the loop ended because the recorder was not ready in time   *)
  harmed     (* a signal went to a process ID that was no longer a child's  *)
kernel == <<os, code, sent, ran, held, posted, spared>>
outside == <<past, asked>>
where == <<pc, step, cleaning>>
flags == <<ready, resumed, canceled>>
kids == <<own, reaped, status, forced>>
parent == <<phase, accepted>>
vars == <<kernel, outside, where, kids, flags, failed, reading, record, parent, late, harmed>>

NoRecord == [ready |-> FALSE]
Deadline == {"readiness", "total", "grace"}
HelperLives == pc \notin {"exit", "dead"}

-----------------------------------------------------------------------------
(* The world around the helper. *)

\* A child's end: it exits by itself, by a signal, or is killed by someone else.
ChildExits(c) ==
  /\ os[c] = "running"
  /\ os' = [os EXCEPT ![c] = "zombie"]
  /\ \E s \in Ends(c) : code' = [code EXCEPT ![c] = s]
  /\ UNCHANGED <<sent, ran, held, posted, spared, outside, where, kids, flags, failed, reading,
                 record, parent, late, harmed>>

\* Something unusual happens: a system call fails that normally does not, or the
\* system kills a child. Once, or as often as it likes.
Unusual == (spared \/ Repeated) /\ spared' = FALSE

\* SIGKILL ends even a child that is stopped. It may take long.
ChildDies(c) ==
  /\ os[c] \in {"stopped", "running"}
  /\ ("KILL" \in sent[c] /\ UNCHANGED spared) \/ Unusual
  /\ os' = [os EXCEPT ![c] = "zombie"]
  /\ code' = [code EXCEPT ![c] = "bad"]
  /\ UNCHANGED <<sent, ran, held, posted, outside, where, kids, flags, failed, reading,
                 record, parent, late, harmed>>

\* The running target leaves a descendant behind that inherits its streams.
Detach ==
  /\ os["target"] = "running" /\ ~held
  /\ held' = TRUE
  /\ UNCHANGED <<os, code, sent, ran, posted, spared, outside, where, kids, flags, failed, reading,
                 record, parent, late, harmed>>

Announce ==
  /\ HelperLives /\ os["recorder"] = "running" /\ ~posted
  /\ posted' = TRUE
  /\ UNCHANGED <<os, code, sent, ran, held, spared, outside, where, kids, flags, failed, reading,
                 record, parent, late, harmed>>

\* A deadline passes. The readiness timeout is not longer than the command's.
\* Deadlines and signals that nothing looks at any more are left out.
TimePasses(d) ==
  /\ d \notin past
  /\ d = "total" => "readiness" \in past
  /\ pc \in IF d = "grace" THEN {"term", "kill"} ELSE {"setup", "spawn", "loop"}
  /\ past' = past \cup {d}
  /\ UNCHANGED <<kernel, asked, where, kids, flags, failed, reading,
                 record, parent, late, harmed>>

\* SIGINT or SIGTERM to the helper; the parent has its own ways (below).
Interrupt ==
  /\ pc \in {"setup", "spawn", "loop"} /\ ~asked
  /\ asked' = TRUE
  /\ UNCHANGED <<kernel, past, where, kids, flags, failed, reading,
                 record, parent, late, harmed>>

-----------------------------------------------------------------------------
(* reap and signal_owned. *)

bodies == <<os, own, reaped, status>>
Same == UNCHANGED <<bodies, spared>>

\* Faulty variant: a reaped child's process ID is kept.
ReapedKeepingID(c) ==
  /\ own[c] /\ os[c] \in {"zombie", "gone"}
  /\ os' = [os EXCEPT ![c] = "gone"]
  /\ reaped' = [reaped EXCEPT ![c] = TRUE]
  /\ status' = [status EXCEPT ![c] = code[c]]
  /\ UNCHANGED <<own, spared>>

Reaped(c) ==
  /\ own[c] /\ os[c] = "zombie"
  /\ os' = [os EXCEPT ![c] = "gone"]
  /\ own' = [own EXCEPT ![c] = FALSE]
  /\ reaped' = [reaped EXCEPT ![c] = TRUE]
  /\ status' = [status EXCEPT ![c] = code[c]]
  /\ UNCHANGED spared

\* waitpid fails: never signal the child again.
Lost(c) ==
  /\ Unusual /\ own[c]
  /\ own' = [own EXCEPT ![c] = FALSE]
  /\ UNCHANGED <<os, reaped, status>>

Reap(c) ==
  \/ Reaped(c) /\ UNCHANGED failed
  \/ ~(own[c] /\ os[c] = "zombie") /\ Same /\ UNCHANGED failed
  \/ Lost(c) /\ failed' = TRUE

\* signal_owned returns 1: the child was not to reap, and kill reached its ID.
Signal(c, sig) ==
  /\ own[c] /\ os[c] # "zombie"
  /\ harmed' = (harmed \/ os[c] = "gone")
  /\ sent' = [sent EXCEPT ![c] = @ \cup {sig}]
  /\ os' = [os EXCEPT ![c] = IF sig = "CONT" /\ @ = "stopped" THEN "running" ELSE @]
  /\ ran' = (ran \/ os'["target"] = "running")
  /\ UNCHANGED <<own, reaped, status, failed, spared>>

\* signal_owned returns 0: there is no child any more, or kill fails, which may
\* also be because the child has just ended. fatal: the caller fails as well.
NoSignal(c, fatal) ==
  /\ \/ (Reaped(c) \/ (~own[c] /\ Same)) /\ failed' = (failed \/ fatal)
     \/ Lost(c) /\ failed' = TRUE
     \/ own[c] /\ os[c] = "zombie" /\ Same /\ failed' = TRUE
     \/ own[c] /\ Unusual /\ UNCHANGED bodies /\ failed' = TRUE
  /\ UNCHANGED <<harmed, sent, ran>>

-----------------------------------------------------------------------------
(* main, step by step: setting up. *)

signals == <<sent, ran, harmed>>
children == <<bodies, signals, spared>>
rest == <<past, forced, flags, failed, reading, record, late>>

Go(p, s) == pc' = p /\ step' = s /\ UNCHANGED cleaning
Break == Go("after", "check")
CleanUp == pc' = "clean" /\ step' = "start" /\ cleaning' = "target"
Fail == failed' = TRUE /\ UNCHANGED <<past, forced, flags, reading, record, late>>
Cancel ==
  /\ asked
  /\ canceled' = TRUE
  /\ UNCHANGED <<past, forced, ready, resumed, failed, reading, record, late>>

\* Cancellation is looked for twice, before and after the notification is
\* registered and the output files and pipes are made.
SetUp ==
  /\ pc = "setup"
  /\ UNCHANGED children
  /\ \/ CleanUp /\ (Fail \/ Cancel)
     \/ /\ ~asked
        /\ step = "first" /\ Go("setup", "second")
        /\ reading' = [c \in Child |-> TRUE]
        /\ UNCHANGED <<past, forced, flags, failed, record, late>>
     \/ /\ ~asked
        /\ step = "second" /\ Go("spawn", "target")
        /\ UNCHANGED rest

\* posix_spawn of the target, suspended, and of the recorder that attaches.
SpawnFails ==
  /\ pc = "spawn"
  /\ CleanUp /\ Fail
  /\ UNCHANGED children

Spawn(c, state) ==
  /\ pc = "spawn" /\ step = c
  /\ os' = [os EXCEPT ![c] = state]
  /\ own' = [own EXCEPT ![c] = TRUE]
  /\ UNCHANGED <<sent, ran, harmed, reaped, status>>

SpawnTarget ==
  /\ Spawn("target", "stopped")
  /\ \/ Go("spawn", "recorder") /\ UNCHANGED <<spared, rest>>
     \/ Unusual /\ CleanUp /\ Fail

SpawnRecorder ==
  /\ Spawn("recorder", "running")
  /\ \/ Go("loop", "clock") /\ UNCHANGED <<spared, rest>>
     \/ Unusual /\ CleanUp /\ Fail

-----------------------------------------------------------------------------
(* tick: both children reaped, then both drained. *)

First == IF pc \in {"term", "kill"} THEN cleaning ELSE "target"
Ticking == pc \in {"loop", "term", "kill", "final"}

TickReap ==
  /\ Ticking
  /\ \/ step = "reap1" /\ Reap(First) /\ Go(pc, "reap2")
     \/ step = "reap2" /\ Reap(Other(First)) /\ Go(pc, "drain")
  /\ UNCHANGED <<sent, ran, harmed, past, forced, flags, reading, record, late>>

HasWriter(c) == os[c] \in {"stopped", "running"} \/ (c = "target" /\ held)

\* Each stream is read until nothing is there, or until it ends; a stream that
\* exceeds its limit fails the run and is not read to its end.
TickDrain ==
  /\ Ticking /\ step = "drain"
  /\ \E noisy \in SUBSET {c \in Child : reading[c]} :
       /\ reading' = [c \in Child |-> reading[c] /\ (HasWriter(c) \/ c \in noisy)]
       /\ failed' = (failed \/ noisy # {})
  /\ CASE pc = "loop"  -> Go("loop", "poll")
       [] pc = "final" -> Go("print", "record")
       [] OTHER        -> Go(pc, "clock")
  /\ UNCHANGED <<children, past, forced, flags, record, late>>

-----------------------------------------------------------------------------
(* The loop. *)

At(s) == pc = "loop" /\ step = s

LoopClock ==
  /\ At("clock")
  /\ IF "total" \in past THEN Break ELSE Go("loop", "reap1")
  /\ UNCHANGED <<children, rest>>

LoopPoll ==
  /\ At("poll")
  /\ UNCHANGED <<bodies, signals>>
  /\ \/ failed /\ Break /\ UNCHANGED <<spared, rest>>
     \/ ~failed /\ Break /\ Cancel /\ UNCHANGED spared
     \/ ~failed /\ Break /\ Fail /\ Unusual
     \/ /\ ~failed /\ ~asked
        /\ Go("loop", IF ready THEN "both" ELSE "notify")
        /\ UNCHANGED <<spared, rest>>

\* The recorder is gone, or notify_check fails.
NoRecorder ==
  /\ At("notify")
  /\ (~own["recorder"] /\ UNCHANGED spared) \/ Unusual
  /\ Break /\ Fail
  /\ UNCHANGED <<bodies, signals>>

NotReady ==
  /\ At("notify") /\ own["recorder"] /\ ~posted
  /\ Go("loop", "late")
  /\ UNCHANGED <<children, rest>>

Resume ==
  /\ At("notify") /\ own["recorder"] /\ posted
  /\ ready' = TRUE /\ resumed' = TRUE
  /\ Signal("target", "CONT")
  /\ Go("loop", "late")
  /\ UNCHANGED <<past, forced, canceled, reading, record, late>>

ResumeFails ==
  /\ At("notify") /\ own["recorder"] /\ posted
  /\ ready' = TRUE
  /\ NoSignal("target", TRUE)
  /\ Break
  /\ UNCHANGED <<past, forced, resumed, canceled, reading, record, late>>

\* The readiness timeout is looked at after the notification, and after the
\* target was resumed because of it.
LateCheck ==
  /\ At("late")
  /\ IF "readiness" \in past
     THEN Break /\ failed' = TRUE /\ late' = TRUE
     ELSE Go("loop", "both") /\ UNCHANGED <<failed, late>>
  /\ UNCHANGED <<children, past, forced, flags, reading, record>>

BothEnded == \A c \in Child : ~own[c] /\ ~reading[c]
LoopEnd ==
  /\ At("both")
  /\ IF BothEnded THEN Break ELSE Go("loop", "clock")
  /\ UNCHANGED <<children, rest>>

\* Faulty variant: a stream that is still open goes unnoticed.
AfterLoopChildrenOnly ==
  /\ pc = "after"
  /\ CleanUp
  /\ failed' = (failed \/ \E c \in Child : own[c])
  /\ past' = {}
  /\ UNCHANGED <<children, forced, flags, reading, record, late>>

AfterLoop ==
  /\ pc = "after"
  /\ CleanUp
  /\ failed' = (failed \/ ~BothEnded)
  /\ past' = {}
  /\ UNCHANGED <<children, forced, flags, reading, record, late>>

-----------------------------------------------------------------------------
(* cleanup of the target, then of the recorder: TERM, a grace period, KILL, *)
(* and another one; then a last tick.                                       *)

\* Faulty variant: only the target is cleaned up.
NextIsFinal == Go("final", "reap1")

NextChild ==
  IF cleaning = "target" THEN pc' = "clean" /\ step' = "start" /\ cleaning' = "recorder"
  ELSE Go("final", "reap1")

Grace(p) == Go(p, "clock") /\ past' = past \ {"grace"}

CleanGone ==
  /\ pc = "clean"
  /\ Reap(cleaning) /\ ~own'[cleaning]
  /\ NextChild
  /\ UNCHANGED <<sent, ran, harmed, past, forced, flags, reading, record, late>>

\* Faulty variant: the suspended target is continued so that it can take TERM.
CleanContinue ==
  /\ pc = "clean" /\ own[cleaning]
  /\ Signal(cleaning, "CONT") /\ forced' = [forced EXCEPT ![cleaning] = TRUE]
  /\ Grace("term")
  /\ UNCHANGED <<flags, reading, record, late>>

\* Faulty variant: TERM is not recorded as forced.
CleanUnforced ==
  /\ pc = "clean" /\ own[cleaning]
  /\ \/ Signal(cleaning, "TERM")
     \/ NoSignal(cleaning, FALSE)
  /\ Grace("term")
  /\ UNCHANGED <<forced, flags, reading, record, late>>

CleanTerm ==
  /\ pc = "clean" /\ own[cleaning]
  /\ \/ Signal(cleaning, "TERM") /\ forced' = [forced EXCEPT ![cleaning] = TRUE]
     \/ NoSignal(cleaning, FALSE) /\ UNCHANGED forced
  /\ Grace("term")
  /\ UNCHANGED <<flags, reading, record, late>>

\* Faulty variant: cleanup waits for the child and not for the clock.
WaitingUntimed(p) == pc = p /\ step = "clock" /\ own[cleaning]

Waiting(p) == pc = p /\ step = "clock" /\ own[cleaning] /\ "grace" \notin past
Waited(p) == pc = p /\ step = "clock" /\ ~(own[cleaning] /\ "grace" \notin past)

CleanWait ==
  /\ Waiting("term") \/ Waiting("kill")
  /\ Go(pc, "reap1")
  /\ UNCHANGED <<children, rest>>

CleanKill ==
  /\ Waited("term")
  /\ Signal(cleaning, "KILL") \/ NoSignal(cleaning, FALSE)
  /\ Grace("kill")
  /\ UNCHANGED <<forced, flags, reading, record, late>>

CleanDone ==
  /\ Waited("kill")
  /\ failed' = (failed \/ own[cleaning])
  /\ NextChild
  /\ UNCHANGED <<children, past, forced, flags, reading, record, late>>

-----------------------------------------------------------------------------
(* The record is printed; the helper ends. *)

PrintRecord ==
  /\ pc = "print"
  /\ Go("printed", "end")
  /\ \/ record' = [ready |-> ready, resumed |-> resumed, reaped |-> reaped, status |-> status,
                   forced |-> forced["target"] \/ forced["recorder"],
                   canceled |-> canceled, failed |-> failed]
        /\ UNCHANGED spared
     \/ Unusual /\ UNCHANGED record
  /\ UNCHANGED <<bodies, signals, past, forced, flags, failed, reading, late>>

End ==
  /\ pc = "printed"
  /\ Go("exit", "end")
  /\ UNCHANGED <<children, rest>>

ExitsZero == record # NoRecord /\ ~failed /\ ~canceled /\ \A c \in Child : ~own[c]

Helper ==
  /\ HelperLives
  /\ UNCHANGED <<code, held, posted, asked, parent>>
  /\ \/ SetUp \/ SpawnFails \/ SpawnTarget \/ SpawnRecorder
     \/ TickReap \/ TickDrain
     \/ LoopClock \/ LoopPoll \/ NoRecorder \/ NotReady \/ Resume \/ ResumeFails
     \/ LateCheck \/ LoopEnd \/ AfterLoop
     \/ CleanGone \/ CleanTerm \/ CleanWait \/ CleanKill \/ CleanDone
     \/ PrintRecord \/ End

-----------------------------------------------------------------------------
(* executeSupervisor, the parent. *)

helper == <<where, kids, flags, failed, reading, record, late, harmed>>

\* The command timeout runs out, the caller cancels, or the helper prints more
\* than it may. If the helper has ended too, select takes either.
CloseControl ==
  /\ phase = "wait"
  /\ asked' = TRUE
  /\ phase' = "closing"
  /\ UNCHANGED <<kernel, past, helper, accepted>>

\* Twice the cleanup time and 3 s have gone by: the helper itself is killed.
KillHelper ==
  /\ phase = "closing" /\ HelperLives
  /\ pc' = "dead"
  /\ phase' = "killed"
  /\ UNCHANGED <<kernel, outside, step, cleaning, kids, flags, failed, reading, record, late,
                 harmed, accepted>>

\* Supervision.valid.
Valid(r) ==
  /\ r # NoRecord
  /\ r.ready /\ r.resumed /\ \A c \in Child : r.reaped[c]
  /\ r.status["target"] = "zero" /\ r.status["recorder"] \in {"zero", "stopped54"}
  /\ ~r.forced /\ ~r.canceled /\ ~r.failed

\* The helper has ended. Its record counts only if it ended well, and before
\* the parent gave up on it.
Return ==
  /\ ~HelperLives /\ phase \in {"wait", "closing", "killed"}
  /\ accepted' = (phase = "wait" /\ ExitsZero /\ Valid(record))
  /\ phase' = "returned"
  /\ UNCHANGED <<kernel, outside, helper>>

\* The parent dies: the kernel closes its end of the control pipe.
ParentDies ==
  /\ phase \in {"wait", "closing"}
  /\ phase' = "crashed"
  /\ asked' = TRUE
  /\ UNCHANGED <<kernel, past, helper, accepted>>

Parent == CloseControl \/ KillHelper \/ Return \/ ParentDies

Init ==
  /\ os = [c \in Child |-> "none"] /\ code = [c \in Child |-> "zero"]
  /\ sent = [c \in Child |-> {}] /\ ran = FALSE /\ held = FALSE /\ posted = FALSE
  /\ spared = TRUE
  /\ past = {} /\ asked = FALSE
  /\ pc = "setup" /\ step = "first" /\ cleaning = "target"
  /\ own = [c \in Child |-> FALSE] /\ reaped = own /\ forced = own
  /\ status = code
  /\ ready = FALSE /\ resumed = FALSE /\ canceled = FALSE /\ failed = FALSE
  /\ reading = own /\ record = NoRecord
  /\ phase = "wait" /\ accepted = FALSE
  /\ late = FALSE /\ harmed = FALSE

World ==
  \/ \E c \in Child : ChildExits(c) \/ ChildDies(c)
  \/ Detach \/ Announce \/ Interrupt
  \/ \E d \in Deadline : TimePasses(d)

Done == ~HelperLives /\ phase \in {"returned", "crashed"}
Next == (~Done /\ World) \/ Helper \/ Parent \/ (Done /\ UNCHANGED vars)
Spec == Init /\ [][Next]_vars

\* The clock runs, the helper and the parent are scheduled.
FairSpec ==
  /\ Spec
  /\ WF_vars(Helper)
  /\ \A d \in Deadline : WF_vars(TimePasses(d))
  /\ WF_vars(Return) /\ WF_vars(CloseControl)

-----------------------------------------------------------------------------
(* Type invariant: the helper's memory and the kernel's view of its         *)
(* children keep their shape.                                               *)
TypeOK ==
  /\ os \in [Child -> {"none", "stopped", "running", "zombie", "gone"}]
  /\ code \in [Child -> Status] /\ status \in [Child -> Status]
  /\ sent \in [Child -> SUBSET {"CONT", "TERM", "KILL"}]
  /\ {ran, held, posted, spared, asked, late, harmed} \subseteq BOOLEAN
  /\ {ready, resumed, canceled, failed, accepted} \subseteq BOOLEAN
  /\ past \subseteq Deadline
  /\ pc \in {"setup", "spawn", "loop", "after", "clean", "term", "kill", "final", "print",
             "printed", "exit", "dead"}
  /\ step \in {"first", "second", "target", "recorder", "clock", "reap1", "reap2", "drain",
               "poll", "notify", "late", "both", "check", "start", "record", "end"}
  /\ cleaning \in Child
  /\ {own, reaped, forced, reading} \subseteq [Child -> BOOLEAN]
  /\ phase \in {"wait", "closing", "killed", "returned", "crashed"}

(* No signal ever goes to a process that is not an unreaped child, whose ID *)
(* the system may have given away ("reaped IDs are cleared before any       *)
(* further operation", supervisor.c), wherever a child ends.                *)
NoStrangerSignaled == ~harmed

(* The target executes main() only from the loop, with the recorder owned   *)
(* and recording, and before any failure or cancellation was noticed:       *)
(* cleanup never resumes it, not even to make it take a signal.             *)
MainStartsTraced ==
  [][~ran /\ ran' => pc = "loop" /\ posted /\ own["recorder"] /\ ~failed /\ ~canceled]_vars

(* What the parent accepts happened: recorded before it ran, both children  *)
(* ended well by themselves and were reaped, no signal but the one to       *)
(* continue, and no descendant still holding a stream, despite timeouts.    *)
AcceptedIsClean ==
  accepted =>
    /\ ran /\ posted /\ ~held
    /\ \A c \in Child : os[c] = "gone" /\ sent[c] \subseteq {"CONT"}
    /\ code["target"] = "zero" /\ code["recorder"] \in {"zero", "stopped54"}

(* The printed record tells the truth about the children, however the run   *)
(* ended: who was reaped and how it ended, whether the target ran, whether  *)
(* someone was forced (unless kill failed for TERM and then succeeded for   *)
(* KILL: the code records only TERM).                                       *)
RecordTruthful ==
  record # NoRecord =>
    /\ \A c \in Child : record.reaped[c] => os[c] = "gone" /\ record.status[c] = code[c]
    /\ ran => record.resumed
    /\ ~record.forced /\ spared => \A c \in Child : sent[c] \subseteq {"CONT"}

(* A helper that ends by itself leaves no child behind that it has not      *)
(* reaped or sent SIGKILL, unless a system call failed.                     *)
NoChildLeft ==
  pc = "exit" /\ spared => \A c \in Child : os[c] \in {"none", "gone"} \/ "KILL" \in sent[c]

(* The helper and the parent come to an end, whatever the children do: a    *)
(* child that ignores TERM, hangs, or never announces anything included.    *)
BothReturn == <>Done

(* "Readiness failure never resumes the suspended target"                   *)
(* (docs/development/xctrace-supervised-attach.md:51). The loop looks at    *)
(* the readiness timeout only after it has continued the target.            *)
ReadinessFailureNeverResumes == late => ~ran
=============================================================================
