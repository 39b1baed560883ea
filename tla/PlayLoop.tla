------------------------------ MODULE PlayLoop ------------------------------
(***************************************************************************)
(* The playback core of one connection: three goroutines over the shared   *)
(* queue, at the grain of their lock sections and atomic operations.       *)
(*                                                                         *)
(*   loop  bot.loop (internal/bot/loop.go): picks the current item,        *)
(*         resolves it if it is a Resolver, launches the pipeline.         *)
(*   pcm   the pipeline goroutine (internal/audio/pipeline.go): plays,     *)
(*         then runs the end-of-track callback onTrackEnd.                 *)
(*   ctl   gumble's event goroutine, which runs the playback controls      *)
(*         (internal/bot/controls.go) one at a time.                       *)
(*                                                                         *)
(* Enqueue may come from any goroutine at any time.                        *)
(*                                                                         *)
(* Three counters of the code (queue.version, playEpoch, launchVersion)    *)
(* are only ever compared with one copy taken earlier.  At most one such   *)
(* copy is alive: the loop takes new ones only while the pipeline is not   *)
(* running, hence after the callback that used the old ones.  So each is   *)
(* kept as the truth of "counter = copy": a bump makes it FALSE, taking    *)
(* the copy makes it TRUE.  Queue.tla proves what queue.version = copy     *)
(* means.                                                                  *)
(***************************************************************************)
EXTENDS QueueOps

CONSTANTS
  MaxItems,     \* bound: items are 1 .. MaxItems, enqueued in this order
  Bad,          \* items that never produce audio (missing file, dead URL)
  Resolvers,    \* items that implement audio.Resolver (yt-dlp URLs)
  Controls,     \* the controls the user may issue
  MaxControls,  \* bound: how many controls are issued
  StartModes    \* playback modes the configuration may select

Items == 1..MaxItems

ASSUME PlayLoopAssumption ==
  /\ MaxItems \in Nat /\ MaxControls \in Nat
  /\ Bad \subseteq Items /\ Resolvers \subseteq Items
  /\ Controls \subseteq {"play", "stop", "skip", "clear", "mode"}
  /\ StartModes \subseteq Modes
  /\ NoItem \notin Items

VARIABLES
  q,            \* b.queue
  enqueued,     \* how many items were enqueued so far
  failed,       \* b.fails.failed
  wake,         \* b.wakeCh holds a token
  running,      \* pipeline.running
  interrupted,  \* pipeline.interruptCh is closed
  cancellable,  \* b.resolveCancel # nil
  cancelled,    \* the context of the resolve in flight was cancelled by a control
  pc,           \* what each goroutine does next
  snap,         \* loop/callback: the queue as last snapshotted, items and cur
  sameQueue,    \* queue.version is still snap.Version
  sameEpoch,    \* playEpoch is still the loop's copy
  sameLaunch,   \* launchVersion is still the copy given to the callback
  res,          \* result of the last resolve, or of the track: see Results
  op,           \* the control in progress (or the last one)
  controls,     \* how many controls were issued
  reselected    \* history: how a control chose a position since the last launch

vars == <<q, enqueued, failed, wake, running, interrupted, cancellable,
          cancelled, pc, snap, sameQueue, sameEpoch, sameLaunch, res, op,
          controls, reselected>>

queueVars    == <<q, sameQueue>>
pipelineVars == <<running, interrupted>>
resolveVars  == <<cancellable, cancelled>>
loopVars     == <<snap, sameEpoch, sameLaunch, res>>
controlVars  == <<op, controls>>

LoopSteps == {"select", "look", "epoch", "snapshot", "calm", "version", "arm",
              "resolve", "checkEpoch", "checkCurrent", "disarm", "swap",
              "channel", "start"}
FailSteps == {"fail", "judge", "giveUp", "forgive", "moveOn", "wake"}
PcmSteps  == {"none", "play", "callback", "reset", "advance", "exit"}
CtlSteps  == {"idle", "epoch", "reset", "cancel", "bump", "probe", "interrupt",
              "advance", "rewind", "empty", "wake"}
Results   == {"ok", "err", "cancelled", "stale"}

\* "stopped": by Stop, during a track, and nothing was enqueued since.
Selections == {"none", "chosen", "stopped"}

Playing == IF snap.cur < Len(snap.items) THEN snap.items[snap.cur + 1] ELSE NoItem

Init ==
  /\ \E m \in StartModes : q = [EmptyQueue EXCEPT !.mode = m]
  /\ enqueued = 0
  /\ failed = {}
  /\ wake = FALSE
  /\ running = FALSE /\ interrupted = FALSE
  /\ cancellable = FALSE /\ cancelled = FALSE
  /\ pc = [loop |-> "select", pcm |-> "none", ctl |-> "idle"]
  /\ snap = [items |-> <<>>, cur |-> 0]
  /\ sameQueue = FALSE /\ sameEpoch = FALSE /\ sameLaunch = FALSE
  /\ res = "ok"
  /\ op = "mode" /\ controls = 0
  /\ reselected = "none"

Goto(t, from, to) == pc[t] = from /\ pc' = [pc EXCEPT ![t] = to]

\* A queue mutator: the queue changes and so does its version.
Mutate(outcomes) == q' \in outcomes /\ sameQueue' = FALSE

-----------------------------------------------------------------------------
(* The play loop.                                                          *)

\* Mutant of Tick: no timer, only the wake channel.
TickOnlyWhenWoken ==
  /\ wake
  /\ Goto("loop", "select", "look")
  /\ UNCHANGED <<queueVars, enqueued, failed, wake, pipelineVars, resolveVars,
                 loopVars, controlVars, reselected>>

\* The 100 ms timer and the wake channel both get the loop out of select.
Tick ==
  /\ Goto("loop", "select", "look")
  /\ UNCHANGED <<queueVars, enqueued, failed, wake, pipelineVars, resolveVars,
                 loopVars, controlVars, reselected>>

Woken ==
  /\ wake
  /\ wake' = FALSE
  /\ Goto("loop", "select", "look")
  /\ UNCHANGED <<queueVars, enqueued, failed, pipelineVars, resolveVars,
                 loopVars, controlVars, reselected>>

Look ==
  /\ Goto("loop", "look", IF running THEN "select" ELSE "epoch")
  /\ UNCHANGED <<queueVars, enqueued, failed, wake, pipelineVars, resolveVars,
                 loopVars, controlVars, reselected>>

ReadEpoch ==
  /\ Goto("loop", "epoch", "snapshot")
  /\ sameEpoch' = TRUE
  /\ UNCHANGED <<queueVars, enqueued, failed, wake, pipelineVars, resolveVars,
                 snap, sameLaunch, res, controlVars, reselected>>

TakeSnapshot ==
  /\ Goto("loop", "snapshot", IF Idle(q) THEN "calm" ELSE "version")
  /\ snap' = [items |-> q.items, cur |-> q.cur]
  /\ sameQueue' = TRUE
  /\ UNCHANGED <<q, enqueued, failed, wake, pipelineVars, resolveVars,
                 sameEpoch, sameLaunch, res, controlVars, reselected>>

\* Nothing to play ends the failure streak.
Calm ==
  /\ Goto("loop", "calm", "select")
  /\ failed' = {}
  /\ UNCHANGED <<queueVars, enqueued, wake, pipelineVars, resolveVars,
                 loopVars, controlVars, reselected>>

ReadLaunchVersion ==
  /\ Goto("loop", "version", IF Playing \in Resolvers THEN "arm" ELSE "swap")
  /\ sameLaunch' = TRUE
  /\ UNCHANGED <<queueVars, enqueued, failed, wake, pipelineVars, resolveVars,
                 snap, sameEpoch, res, controlVars, reselected>>

(* resolveItem: publish the cancel function, run the resolver, compare the *)
(* epoch and then the current item, withdraw the cancel function.          *)
Arm ==
  /\ Goto("loop", "arm", "resolve")
  /\ cancellable' = TRUE /\ cancelled' = FALSE
  /\ UNCHANGED <<queueVars, enqueued, failed, wake, pipelineVars, loopVars,
                 controlVars, reselected>>

\* A cancelled resolve may still have succeeded just before.
Resolve ==
  /\ Goto("loop", "resolve", "checkEpoch")
  /\ res' \in {"ok"} \cup (IF cancelled THEN {"cancelled"} ELSE {})
                     \cup (IF Playing \in Bad THEN {"err"} ELSE {})
  /\ UNCHANGED <<queueVars, enqueued, failed, wake, pipelineVars, resolveVars,
                 snap, sameEpoch, sameLaunch, controlVars, reselected>>

CheckEpoch ==
  /\ Goto("loop", "checkEpoch", IF sameEpoch THEN "checkCurrent" ELSE "disarm")
  /\ res' = IF sameEpoch THEN res ELSE "stale"
  /\ UNCHANGED <<queueVars, enqueued, failed, wake, pipelineVars, resolveVars,
                 snap, sameEpoch, sameLaunch, controlVars, reselected>>

CheckCurrent ==
  /\ Goto("loop", "checkCurrent", "disarm")
  /\ res' = IF Current(q) = Playing THEN res ELSE "stale"
  /\ UNCHANGED <<queueVars, enqueued, failed, wake, pipelineVars, resolveVars,
                 snap, sameEpoch, sameLaunch, controlVars, reselected>>

Disarm ==
  /\ Goto("loop", "disarm", CASE res = "ok"    -> "swap"
                              [] res = "stale" -> "wake"
                              [] OTHER         -> "fail")
  /\ cancellable' = FALSE
  /\ UNCHANGED <<queueVars, enqueued, failed, wake, pipelineVars, cancelled,
                 loopVars, controlVars, reselected>>

(* Pipeline.Launch.  Its ErrAlreadyRunning branch is unreachable with one  *)
(* loop per pipeline: see OneStream.                                       *)
Swap ==
  /\ ~running
  /\ Goto("loop", "swap", "channel")
  /\ running' = TRUE
  /\ reselected' = "none"
  /\ UNCHANGED <<queueVars, enqueued, failed, wake, interrupted, resolveVars,
                 loopVars, controlVars>>

NewChannel ==
  /\ Goto("loop", "channel", "start")
  /\ interrupted' = FALSE
  /\ UNCHANGED <<queueVars, enqueued, failed, wake, running, resolveVars,
                 loopVars, controlVars, reselected>>

StartOk ==
  /\ pc.loop = "start"
  /\ pc' = [pc EXCEPT !.loop = "select", !.pcm = "play"]
  /\ UNCHANGED <<queueVars, enqueued, failed, wake, pipelineVars, resolveVars,
                 loopVars, controlVars, reselected>>

\* Mutant of StartFails: running is not cleared on the error path.
StartFailsStaysRunning ==
  /\ Playing \in Bad
  /\ Goto("loop", "start", "fail")
  /\ UNCHANGED <<queueVars, enqueued, failed, wake, pipelineVars, resolveVars,
                 loopVars, controlVars, reselected>>

StartFails ==
  /\ Playing \in Bad
  /\ Goto("loop", "start", "fail")
  /\ running' = FALSE
  /\ UNCHANGED <<queueVars, enqueued, failed, wake, interrupted, resolveVars,
                 loopVars, controlVars, reselected>>

-----------------------------------------------------------------------------
(* trackFailed, run by the loop (resolve or launch error) or by pcm.       *)

RecordFailure(t) ==
  /\ Goto(t, "fail", "judge")
  /\ failed' = failed \cup {Playing}
  /\ UNCHANGED <<queueVars, enqueued, wake, pipelineVars, resolveVars,
                 loopVars, controlVars, reselected>>

\* Mutant of Judge: one failed item in the list is enough.
JudgeAny(t) ==
  /\ Goto(t, "judge", IF ToSet(snap.items) \cap failed # {} THEN "giveUp" ELSE "moveOn")
  /\ UNCHANGED <<queueVars, enqueued, failed, wake, pipelineVars, resolveVars,
                 loopVars, controlVars, reselected>>

\* allFailed(snap.Items)
Judge(t) ==
  /\ Goto(t, "judge", IF snap.items # <<>> /\ ToSet(snap.items) \subseteq failed
                      THEN "giveUp" ELSE "moveOn")
  /\ UNCHANGED <<queueVars, enqueued, failed, wake, pipelineVars, resolveVars,
                 loopVars, controlVars, reselected>>

\* Mutants of GiveUp: without the version check, and with Stop's Reset.
GiveUpRegardless(t) ==
  /\ ~Idle(q)
  /\ Goto(t, "giveUp", "forgive")
  /\ Mutate({Finished(q)})
  /\ UNCHANGED <<enqueued, failed, wake, pipelineVars, resolveVars, loopVars,
                 controlVars, reselected>>

GiveUpByReset(t) ==
  /\ sameQueue /\ ~Idle(q)
  /\ Goto(t, "giveUp", "forgive")
  /\ Mutate({Rewound(q)})
  /\ UNCHANGED <<enqueued, failed, wake, pipelineVars, resolveVars, loopVars,
                 controlVars, reselected>>

\* FinishIfUnchanged(snap.Version)
GiveUp(t) ==
  /\ sameQueue /\ ~Idle(q)
  /\ Goto(t, "giveUp", "forgive")
  /\ Mutate({Finished(q)})
  /\ UNCHANGED <<enqueued, failed, wake, pipelineVars, resolveVars, loopVars,
                 controlVars, reselected>>

KeepGoing(t) ==
  /\ ~sameQueue \/ Idle(q)
  /\ Goto(t, "giveUp", "wake")
  /\ UNCHANGED <<queueVars, enqueued, failed, wake, pipelineVars, resolveVars,
                 loopVars, controlVars, reselected>>

Forgive(t) ==
  /\ Goto(t, "forgive", "wake")
  /\ failed' = {}
  /\ UNCHANGED <<queueVars, enqueued, wake, pipelineVars, resolveVars,
                 loopVars, controlVars, reselected>>

\* Mutant of MoveOn: Next without the version check.
MoveOnRegardless(t) ==
  /\ Goto(t, "moveOn", "wake")
  /\ Mutate(Advanced(q))
  /\ UNCHANGED <<enqueued, failed, wake, pipelineVars, resolveVars, loopVars,
                 controlVars, reselected>>

\* NextIfUnchanged(snap.Version)
MoveOn(t) ==
  /\ Goto(t, "moveOn", "wake")
  /\ IF sameQueue THEN Mutate(Advanced(q)) ELSE UNCHANGED queueVars
  /\ UNCHANGED <<enqueued, failed, wake, pipelineVars, resolveVars, loopVars,
                 controlVars, reselected>>

WakeLoop(t, next) ==
  /\ Goto(t, "wake", next)
  /\ wake' = TRUE
  /\ UNCHANGED <<queueVars, enqueued, failed, pipelineVars, resolveVars,
                 loopVars, controlVars, reselected>>

TrackFailed(t) ==
  \/ RecordFailure(t) \/ Judge(t) \/ GiveUp(t) \/ KeepGoing(t)
  \/ Forgive(t) \/ MoveOn(t)

Loop ==
  \/ Tick \/ Woken \/ Look \/ ReadEpoch \/ TakeSnapshot \/ Calm
  \/ ReadLaunchVersion \/ Arm \/ Resolve \/ CheckEpoch \/ CheckCurrent
  \/ Disarm \/ Swap \/ NewChannel \/ StartOk \/ StartFails
  \/ TrackFailed("loop") \/ WakeLoop("loop", "select")

-----------------------------------------------------------------------------
(* The pipeline goroutine and onTrackEnd.                                  *)

\* The fade-out takes finitely many frames and ends in onEnd(nil).
PlayInterrupted ==
  /\ interrupted
  /\ Goto("pcm", "play", "callback")
  /\ res' = "ok"
  /\ UNCHANGED <<queueVars, enqueued, failed, wake, pipelineVars, resolveVars,
                 snap, sameEpoch, sameLaunch, controlVars, reselected>>

\* A bad item yields ErrNoAudio, any other plays to its end or read error.
PlayEnds ==
  /\ Goto("pcm", "play", "callback")
  /\ res' = IF Playing \in Bad THEN "err" ELSE "ok"
  /\ UNCHANGED <<queueVars, enqueued, failed, wake, pipelineVars, resolveVars,
                 snap, sameEpoch, sameLaunch, controlVars, reselected>>

Callback ==
  /\ Goto("pcm", "callback", IF ~sameLaunch THEN "wake"
                             ELSE IF res = "err" THEN "fail" ELSE "reset")
  /\ UNCHANGED <<queueVars, enqueued, failed, wake, pipelineVars, resolveVars,
                 loopVars, controlVars, reselected>>

EndStreak ==
  /\ Goto("pcm", "reset", "advance")
  /\ failed' = {}
  /\ UNCHANGED <<queueVars, enqueued, wake, pipelineVars, resolveVars,
                 loopVars, controlVars, reselected>>

\* queue.Next(), whatever happened to the queue while the track played.
EndAdvance ==
  /\ Goto("pcm", "advance", "wake")
  /\ Mutate(Advanced(q))
  /\ UNCHANGED <<enqueued, failed, wake, pipelineVars, resolveVars, loopVars,
                 controlVars, reselected>>

\* The deferred function of Pipeline.loop, after the callback has returned.
PcmExit ==
  /\ Goto("pcm", "exit", "none")
  /\ running' = FALSE
  /\ UNCHANGED <<queueVars, enqueued, failed, wake, interrupted, resolveVars,
                 loopVars, controlVars, reselected>>

Pcm ==
  \/ PlayInterrupted \/ PlayEnds \/ Callback \/ EndStreak \/ EndAdvance
  \/ TrackFailed("pcm") \/ WakeLoop("pcm", "exit") \/ PcmExit

-----------------------------------------------------------------------------
\* Mutant of Enqueue: Append does not bump the version.
EnqueueUnnoticed ==
  /\ enqueued < MaxItems
  /\ enqueued' = enqueued + 1
  /\ q' \in Appended(q, enqueued + 1)
  /\ wake' = TRUE
  /\ UNCHANGED <<sameQueue, failed, pipelineVars, resolveVars, loopVars, pc,
                 controlVars, reselected>>

(* Enqueue: Append, then a wake-up.  One step: a wake-up that arrives late *)
(* is one more turn of the loop, which Tick allows anyway.                 *)
Enqueue ==
  /\ enqueued < MaxItems
  /\ enqueued' = enqueued + 1
  /\ Mutate(Appended(q, enqueued + 1))
  /\ wake' = TRUE
  /\ reselected' = IF reselected = "stopped" THEN "chosen" ELSE reselected
  /\ UNCHANGED <<failed, pipelineVars, resolveVars, loopVars, pc, controlVars>>

-----------------------------------------------------------------------------
(* The controls.                                                           *)

Issue(o) ==
  /\ o \in Controls
  /\ controls < MaxControls
  /\ controls' = controls + 1
  /\ op' = o

\* Play(index): JumpTo first; an index that is out of range ends the call.
IssuePlay ==
  /\ Issue("play")
  /\ \E i \in 0..Len(q.items) :
       /\ Goto("ctl", "idle", IF i < Len(q.items) THEN "epoch" ELSE "idle")
       /\ Mutate({Jumped(q, i)})
       /\ reselected' = IF i < Len(q.items) THEN "chosen" ELSE reselected
  /\ UNCHANGED <<enqueued, failed, wake, pipelineVars, resolveVars, loopVars>>

\* Stop, Skip and Clear begin with invalidatePlayback.
IssueOther(o) ==
  /\ Issue(o)
  /\ Goto("ctl", "idle", "epoch")
  /\ UNCHANGED <<queueVars, enqueued, failed, wake, pipelineVars, resolveVars,
                 loopVars, reselected>>

\* SetPlaybackMode
IssueMode ==
  /\ Issue("mode")
  /\ Goto("ctl", "idle", "wake")
  /\ \E m \in Modes : Mutate(WithMode(q, m))
  /\ UNCHANGED <<enqueued, failed, wake, pipelineVars, resolveVars, loopVars,
                 reselected>>

\* invalidatePlayback, in its three steps.
BumpEpoch ==
  /\ Goto("ctl", "epoch", "reset")
  /\ sameEpoch' = FALSE
  /\ UNCHANGED <<queueVars, enqueued, failed, wake, pipelineVars, resolveVars,
                 snap, sameLaunch, res, controlVars, reselected>>

ResetFails ==
  /\ Goto("ctl", "reset", "cancel")
  /\ failed' = {}
  /\ UNCHANGED <<queueVars, enqueued, wake, pipelineVars, resolveVars,
                 loopVars, controlVars, reselected>>

Cancel ==
  /\ Goto("ctl", "cancel", CASE op = "play" -> "bump"
                             [] op = "skip" -> "probe"
                             [] OTHER       -> "interrupt")
  /\ cancelled' = (cancelled \/ cancellable)
  /\ UNCHANGED <<queueVars, enqueued, failed, wake, pipelineVars, cancellable,
                 loopVars, controlVars, reselected>>

BumpLaunchVersion ==
  /\ Goto("ctl", "bump", "interrupt")
  /\ sameLaunch' = FALSE
  /\ UNCHANGED <<queueVars, enqueued, failed, wake, pipelineVars, resolveVars,
                 snap, sameEpoch, res, controlVars, reselected>>

Interrupt ==
  /\ Goto("ctl", "interrupt", CASE op = "play"  -> "wake"
                                [] op = "stop"  -> "rewind"
                                [] op = "clear" -> "empty"
                                [] OTHER        -> "idle")
  /\ interrupted' = TRUE
  /\ UNCHANGED <<queueVars, enqueued, failed, wake, running, resolveVars,
                 loopVars, controlVars, reselected>>

\* Skip looks whether something plays, and acts on the answer afterwards.
Probe ==
  /\ Goto("ctl", "probe", IF running THEN "interrupt" ELSE "advance")
  /\ UNCHANGED <<queueVars, enqueued, failed, wake, pipelineVars, resolveVars,
                 loopVars, controlVars, reselected>>

SkipAdvance ==
  /\ Goto("ctl", "advance", "wake")
  /\ Mutate(Advanced(q))
  /\ UNCHANGED <<enqueued, failed, wake, pipelineVars, resolveVars, loopVars,
                 controlVars, reselected>>

StopRewinds ==
  /\ Goto("ctl", "rewind", "idle")
  /\ Mutate({Rewound(q)})
  /\ reselected' = IF running THEN "stopped" ELSE "chosen"
  /\ UNCHANGED <<enqueued, failed, wake, pipelineVars, resolveVars, loopVars,
                 controlVars>>

ClearEmpties ==
  /\ Goto("ctl", "empty", "idle")
  /\ Mutate({Emptied(q)})
  /\ reselected' = "chosen"
  /\ UNCHANGED <<enqueued, failed, wake, pipelineVars, resolveVars, loopVars,
                 controlVars>>

\* A control that was issued runs to its end.
ControlStep ==
  \/ BumpEpoch \/ ResetFails \/ Cancel \/ BumpLaunchVersion \/ Interrupt
  \/ Probe \/ SkipAdvance \/ StopRewinds \/ ClearEmpties
  \/ WakeLoop("ctl", "idle")

Control ==
  \/ IssuePlay \/ IssueMode
  \/ \E o \in {"stop", "skip", "clear"} : IssueOther(o)
  \/ ControlStep

-----------------------------------------------------------------------------
Next == Loop \/ Pcm \/ Enqueue \/ Control

Spec == Init /\ [][Next]_vars

(* The loop and a control in progress are runnable goroutines, so they get *)
(* to run.  Fairness of Pcm also says that every track ends, which holds   *)
(* of files and of streams that break, and of an interrupted one.  Nothing *)
(* obliges anyone to enqueue or to issue a control.                        *)
Fairness == WF_vars(Loop) /\ WF_vars(Pcm) /\ WF_vars(ControlStep)

FairSpec == Spec /\ Fairness

-----------------------------------------------------------------------------
(* The types, and the queue's index within its list.                       *)
TypeOK ==
  /\ q \in QueueOver(Items)
  /\ enqueued \in 0..MaxItems
  /\ failed \subseteq Items
  /\ {wake, running, interrupted, cancellable, cancelled, sameQueue,
      sameEpoch, sameLaunch} \subseteq BOOLEAN
  /\ reselected \in Selections
  /\ pc \in [loop : LoopSteps \cup FailSteps, pcm : PcmSteps \cup FailSteps,
             ctl : CtlSteps]
  /\ snap \in [items : Seq(Items), cur : Nat]
  /\ res \in Results
  /\ op \in {"play", "stop", "skip", "clear", "mode"}
  /\ controls \in 0..MaxControls

(* running is TRUE exactly while a launch is under way or a track plays    *)
(* and has not run its deferred cleanup, whatever the controls do.  So the *)
(* loop never meets ErrAlreadyRunning (pipeline.go:78) and never streams   *)
(* two tracks into one connection.                                         *)
OneStream ==
  /\ running <=> (pc.pcm # "none" \/ pc.loop \in {"channel", "start"})
  /\ pc.pcm # "none" => pc.loop \in {"select", "look"}

(* While queue.version is the one in the snapshot, the snapshot is the     *)
(* queue: nobody can select, append or clear unnoticed.                    *)
SnapshotFresh ==
  sameQueue => q.items = snap.items /\ q.cur = snap.cur

(* A failure moves the queue only off the very track that failed, and only *)
(* if neither a control nor an Enqueue got in since it was picked          *)
(* (loop.go:104-107), from whichever goroutine it is reported.             *)
FailureMovesOnlyFailedTrack ==
  [][\A t \in {"loop", "pcm"} :
       (GiveUp(t) \/ (MoveOn(t) /\ q' # q))
         => Current(q) = Playing /\ q.items = snap.items]_vars

(* The bot gives up only when nothing in the queue is playable, also while *)
(* items are being added and controls race with the failures.  (Stated for *)
(* instances where only bad items are resolvers: CancelIsNotFailure shows  *)
(* how a good resolver can be made to fail.)                               *)
GiveUpOnlyUnplayable ==
  [][\A t \in {"loop", "pcm"} : GiveUp(t) => ToSet(q.items) \subseteq Bad]_vars

(* Giving up needs every queued item in the current failure streak: a      *)
(* track that played ends it, and so does a control ("a user control ends  *)
(* any failure streak", controls.go:117).  It holds while only modes are   *)
(* changed; a control between the judgement and the move breaks it.        *)
GiveUpWithinStreak ==
  [][\A t \in {"loop", "pcm"} : GiveUp(t) => ToSet(q.items) \subseteq failed]_vars

(* Without user controls no enqueued item is ever passed over: each one is *)
(* resolved or launched at some point, in every mode, whatever fails and   *)
(* whenever it arrives (between tracks, during the callback, when idle).   *)
Attempted(x) == Playing = x /\ pc.loop \in {"resolve", "start"}

EveryItemAttempted ==
  \A x \in Items : <>(enqueued >= x) => <>Attempted(x)

(* While something is current the loop keeps attempting tracks: no lost    *)
(* wake-up, stale flag or race with a control leaves the bot silent.       *)
NeverStalls ==
  []<>(Idle(q) \/ pc.loop \in {"resolve", "start"})

(* A queue of unplayable tracks comes to rest instead of being retried     *)
(* forever, in repeat and random mode too.                                 *)
ComesToRest == <>[]Idle(q)

-----------------------------------------------------------------------------
(* What the code says of itself and does not keep (see the README).        *)

(* controls.go:22 and 71: the end of the interrupted track does not move   *)
(* the queue off the position a control has just chosen.  It may well go   *)
(* through the motions where that leaves the index as it is.               *)
SelectionSurvivesTrackEnd ==
  [][EndAdvance /\ q'.cur # q.cur => reselected = "none"]_vars

(* README.md:211: `!stop` is to "Stop playback": when it was the last      *)
(* control, it found a track playing, and nothing was enqueued after it,   *)
(* no track is picked and launched from the queue it left behind.          *)
StopKeepsSilent ==
  [][Swap /\ sameEpoch /\ sameQueue => ~(op = "stop" /\ reselected = "stopped")]_vars

(* controls.go:114: "the loop never launches or skips based on an outdated *)
(* selection": no control got in between picking the item and Launch.      *)
LaunchesCurrentSelection == [][Swap => sameEpoch]_vars

(* controls.go:112: a resolve that a control cancels is also marked stale, *)
(* so its error is discarded and not counted as a failed track.            *)
CancelIsNotFailure == pc.loop = "fail" => res # "cancelled"
=============================================================================
