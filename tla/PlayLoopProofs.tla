--------------------------- MODULE PlayLoopProofs ---------------------------
(***************************************************************************)
(* What holds of the playback core for any number of items and controls,   *)
(* whichever items are bad or resolvers.                                   *)
(***************************************************************************)
EXTENDS PlayLoop, QueueOpsProofs

USE DEF Goto, queueVars, pipelineVars, resolveVars, loopVars, controlVars

(***************************************************************************)
(* The pair the proofs rest on: where the goroutines are, and which of     *)
(* them owns the running flag.                                             *)
(***************************************************************************)
PcType ==
  pc \in [loop : LoopSteps \cup FailSteps, pcm : PcmSteps \cup FailSteps,
          ctl : CtlSteps]

PcInv == PcType /\ OneStream

LEMMA PcInvInit == Init => PcInv
BY DEF Init, PcInv, PcType, OneStream, LoopSteps, PcmSteps, CtlSteps

LEMMA PcInvLoop == PcInv /\ Loop => PcInv'
<1> SUFFICES ASSUME PcInv, Loop PROVE PcInv'
  OBVIOUS
<1> USE DEF PcInv, PcType, OneStream, LoopSteps, PcmSteps, FailSteps
<1>1. CASE Tick BY <1>1 DEF Tick
<1>2. CASE Woken BY <1>2 DEF Woken
<1>3. CASE Look BY <1>3 DEF Look
<1>4. CASE ReadEpoch BY <1>4 DEF ReadEpoch
<1>5. CASE TakeSnapshot BY <1>5 DEF TakeSnapshot
<1>6. CASE Calm BY <1>6 DEF Calm
<1>7. CASE ReadLaunchVersion BY <1>7 DEF ReadLaunchVersion
<1>8. CASE Arm BY <1>8 DEF Arm
<1>9. CASE Resolve BY <1>9 DEF Resolve
<1>10. CASE CheckEpoch BY <1>10 DEF CheckEpoch
<1>11. CASE CheckCurrent BY <1>11 DEF CheckCurrent
<1>12. CASE Disarm BY <1>12 DEF Disarm
<1>13. CASE Swap BY <1>13 DEF Swap
<1>14. CASE NewChannel BY <1>14 DEF NewChannel
<1>15. CASE StartOk BY <1>15 DEF StartOk
<1>16. CASE StartFails BY <1>16 DEF StartFails
<1>17. CASE TrackFailed("loop")
  BY <1>17 DEF TrackFailed, RecordFailure, Judge, GiveUp, KeepGoing, Forgive, MoveOn
<1>18. CASE WakeLoop("loop", "select") BY <1>18 DEF WakeLoop
<1>19. QED
  BY <1>1, <1>2, <1>3, <1>4, <1>5, <1>6, <1>7, <1>8, <1>9, <1>10, <1>11,
     <1>12, <1>13, <1>14, <1>15, <1>16, <1>17, <1>18 DEF Loop

LEMMA PcInvPcm == PcInv /\ Pcm => PcInv'
<1> SUFFICES ASSUME PcInv, Pcm PROVE PcInv'
  OBVIOUS
<1> USE DEF PcInv, PcType, OneStream, LoopSteps, PcmSteps, FailSteps
<1>1. CASE PlayInterrupted BY <1>1 DEF PlayInterrupted
<1>2. CASE PlayEnds BY <1>2 DEF PlayEnds
<1>3. CASE Callback BY <1>3 DEF Callback
<1>4. CASE EndStreak BY <1>4 DEF EndStreak
<1>5. CASE EndAdvance BY <1>5 DEF EndAdvance
<1>6. CASE TrackFailed("pcm")
  BY <1>6 DEF TrackFailed, RecordFailure, Judge, GiveUp, KeepGoing, Forgive, MoveOn
<1>7. CASE WakeLoop("pcm", "exit") BY <1>7 DEF WakeLoop
<1>8. CASE PcmExit BY <1>8 DEF PcmExit
<1>9. QED
  BY <1>1, <1>2, <1>3, <1>4, <1>5, <1>6, <1>7, <1>8 DEF Pcm

\* Controls move neither the loop nor the pipeline goroutine.
LEMMA ControlKeepsOthers ==
  ASSUME PcType, Control
  PROVE  PcType' /\ running' = running /\ pc'.loop = pc.loop /\ pc'.pcm = pc.pcm
<1> USE DEF PcType, CtlSteps
<1>1. CASE IssuePlay BY <1>1 DEF IssuePlay
<1>2. CASE IssueMode BY <1>2 DEF IssueMode
<1>3. CASE \E o \in {"stop", "skip", "clear"} : IssueOther(o)
  BY <1>3 DEF IssueOther
<1>4. CASE BumpEpoch BY <1>4 DEF BumpEpoch
<1>5. CASE ResetFails BY <1>5 DEF ResetFails
<1>6. CASE Cancel BY <1>6 DEF Cancel
<1>7. CASE BumpLaunchVersion BY <1>7 DEF BumpLaunchVersion
<1>8. CASE Interrupt BY <1>8 DEF Interrupt
<1>9. CASE Probe BY <1>9 DEF Probe
<1>10. CASE SkipAdvance BY <1>10 DEF SkipAdvance
<1>11. CASE StopRewinds BY <1>11 DEF StopRewinds
<1>12. CASE ClearEmpties BY <1>12 DEF ClearEmpties
<1>13. CASE WakeLoop("ctl", "idle") BY <1>13 DEF WakeLoop
<1>14. QED
  BY <1>1, <1>2, <1>3, <1>4, <1>5, <1>6, <1>7, <1>8, <1>9, <1>10, <1>11,
     <1>12, <1>13 DEF Control, ControlStep

LEMMA PcInvStep == PcInv /\ [Next]_vars => PcInv'
<1> SUFFICES ASSUME PcInv, [Next]_vars PROVE PcInv'
  OBVIOUS
<1>1. CASE Loop BY <1>1, PcInvLoop
<1>2. CASE Pcm BY <1>2, PcInvPcm
<1>3. CASE Enqueue
  BY <1>3 DEF Enqueue, PcInv, PcType, OneStream
<1>4. CASE Control
  BY <1>4, ControlKeepsOthers DEF PcInv, OneStream
<1>5. CASE UNCHANGED vars
  BY <1>5 DEF vars, PcInv, PcType, OneStream
<1> QED
  BY <1>1, <1>2, <1>3, <1>4, <1>5 DEF Next

(* At most one stream: the running flag is set exactly while a launch or a *)
(* stream is alive, so ErrAlreadyRunning cannot occur (pipeline.go:78).    *)
THEOREM OneStreamAlways == Spec => []OneStream
<1>1. PcInv => OneStream
  BY DEF PcInv
<1>2. QED
  BY <1>1, PcInvStep, PcInvInit, PTL DEF Spec

-----------------------------------------------------------------------------
(***************************************************************************)
(* The queue keeps its type: every step leaves it alone or takes it to an  *)
(* outcome of a queue operator.                                            *)
(***************************************************************************)
QueueType ==
  /\ q \in QueueOver(Items)
  /\ enqueued \in 0..MaxItems
  /\ snap \in [items : Seq(Items), cur : Nat]

\* What a step may do to the queue and to what the loop knows of it.
QueueStep ==
  \/ UNCHANGED <<q, snap, sameQueue>>
  \/ q' \in QueueOver(Items) /\ sameQueue' = FALSE /\ UNCHANGED snap
  \/ q' = q /\ snap' = [items |-> q.items, cur |-> q.cur] /\ sameQueue' = TRUE

LEMMA QueueTypeInit == Init => QueueType
<1> SUFFICES ASSUME Init PROVE QueueType
  OBVIOUS
<1>1. <<>> \in Seq(Items) /\ 0 \in 0..Len(<<>>)
  BY EmptySeq
<1>2. PICK m \in StartModes : q = [EmptyQueue EXCEPT !.mode = m]
  BY DEF Init
<1>3. q = [items |-> <<>>, cur |-> 0, mode |-> m] /\ m \in Modes
  BY <1>2, PlayLoopAssumption DEF EmptyQueue
<1>4. q \in QueueOver(Items)
  BY <1>1, <1>3, QueueBuild
<1>5. QED
  BY <1>1, <1>4, PlayLoopAssumption DEF Init, QueueType

LEMMA TrackFailedQueueStep ==
  ASSUME QueueType, NEW t \in {"loop", "pcm"}, TrackFailed(t)
  PROVE  QueueStep /\ enqueued' = enqueued
<1> USE DEF QueueStep, QueueType, Mutate
<1>1. CASE RecordFailure(t) BY <1>1 DEF RecordFailure
<1>2. CASE Judge(t) BY <1>2 DEF Judge
<1>3. CASE GiveUp(t) BY <1>3, MovedType DEF GiveUp
<1>4. CASE KeepGoing(t) BY <1>4 DEF KeepGoing
<1>5. CASE Forgive(t) BY <1>5 DEF Forgive
<1>6. CASE MoveOn(t) BY <1>6, AdvancedType DEF MoveOn
<1>7. QED
  BY <1>1, <1>2, <1>3, <1>4, <1>5, <1>6 DEF TrackFailed

LEMMA LoopQueueStep == QueueType /\ Loop => QueueStep /\ enqueued' = enqueued
<1> SUFFICES ASSUME QueueType, Loop PROVE QueueStep /\ enqueued' = enqueued
  OBVIOUS
<1> USE DEF QueueStep
<1>1. CASE Tick \/ Woken \/ Look \/ ReadEpoch
  BY <1>1 DEF Tick, Woken, Look, ReadEpoch
<1>2. CASE TakeSnapshot \/ Calm \/ ReadLaunchVersion
  BY <1>2 DEF TakeSnapshot, Calm, ReadLaunchVersion
<1>3. CASE Arm \/ Resolve \/ CheckEpoch \/ CheckCurrent \/ Disarm
  BY <1>3 DEF Arm, Resolve, CheckEpoch, CheckCurrent, Disarm
<1>4. CASE Swap \/ NewChannel \/ StartOk \/ StartFails
  BY <1>4 DEF Swap, NewChannel, StartOk, StartFails
<1>5. CASE TrackFailed("loop") BY <1>5, TrackFailedQueueStep
<1>6. CASE WakeLoop("loop", "select") BY <1>6 DEF WakeLoop
<1>7. QED
  BY <1>1, <1>2, <1>3, <1>4, <1>5, <1>6 DEF Loop

LEMMA PcmQueueStep == QueueType /\ Pcm => QueueStep /\ enqueued' = enqueued
<1> SUFFICES ASSUME QueueType, Pcm PROVE QueueStep /\ enqueued' = enqueued
  OBVIOUS
<1> USE DEF QueueStep
<1>1. CASE PlayInterrupted \/ PlayEnds \/ Callback \/ EndStreak \/ PcmExit
  BY <1>1 DEF PlayInterrupted, PlayEnds, Callback, EndStreak, PcmExit
<1>2. CASE EndAdvance
  BY <1>2, AdvancedType DEF EndAdvance, Mutate, QueueType
<1>3. CASE TrackFailed("pcm") BY <1>3, TrackFailedQueueStep
<1>4. CASE WakeLoop("pcm", "exit") BY <1>4 DEF WakeLoop
<1>5. QED
  BY <1>1, <1>2, <1>3, <1>4 DEF Pcm

LEMMA ControlQueueStep == QueueType /\ Control => QueueStep /\ enqueued' = enqueued
<1> SUFFICES ASSUME QueueType, Control PROVE QueueStep /\ enqueued' = enqueued
  OBVIOUS
<1> USE DEF QueueStep, QueueType, Mutate
<1>1. CASE IssuePlay
  <2>1. PICK i \in 0..Len(q.items) : Mutate({Jumped(q, i)})
    BY <1>1 DEF IssuePlay
  <2>2. i \in Int
    BY QueueParts
  <2>3. q' \in QueueOver(Items)
    BY <2>1, <2>2, MovedType
  <2>4. QED
    BY <1>1, <2>1, <2>3 DEF IssuePlay
<1>2. CASE IssueMode
  BY <1>2, WithModeType DEF IssueMode
<1>3. CASE \E o \in {"stop", "skip", "clear"} : IssueOther(o)
  BY <1>3 DEF IssueOther
<1>4. CASE BumpEpoch \/ ResetFails \/ Cancel \/ BumpLaunchVersion
  BY <1>4 DEF BumpEpoch, ResetFails, Cancel, BumpLaunchVersion
<1>5. CASE Interrupt \/ Probe \/ WakeLoop("ctl", "idle")
  BY <1>5 DEF Interrupt, Probe, WakeLoop
<1>6. CASE SkipAdvance
  BY <1>6, AdvancedType DEF SkipAdvance
<1>7. CASE StopRewinds
  BY <1>7, MovedType DEF StopRewinds
<1>8. CASE ClearEmpties
  BY <1>8, MovedType DEF ClearEmpties
<1>9. QED
  BY <1>1, <1>2, <1>3, <1>4, <1>5, <1>6, <1>7, <1>8 DEF Control, ControlStep

LEMMA EnqueueQueueStep ==
  QueueType /\ Enqueue => QueueStep /\ enqueued' \in 0..MaxItems
<1> SUFFICES ASSUME QueueType, Enqueue
             PROVE  QueueStep /\ enqueued' \in 0..MaxItems
  OBVIOUS
<1>1. enqueued + 1 \in Items /\ enqueued' \in 0..MaxItems
  BY PlayLoopAssumption DEF Enqueue, QueueType, Items
<1>2. q' \in QueueOver(Items)
  BY <1>1, AppendedType DEF Enqueue, QueueType, Mutate
<1>3. QED
  BY <1>1, <1>2 DEF Enqueue, QueueStep, Mutate

LEMMA NextQueueStep ==
  QueueType /\ [Next]_vars => QueueStep /\ enqueued' \in 0..MaxItems
<1> SUFFICES ASSUME QueueType, [Next]_vars
             PROVE  QueueStep /\ enqueued' \in 0..MaxItems
  OBVIOUS
<1>1. CASE UNCHANGED vars
  BY <1>1 DEF vars, QueueStep, QueueType
<1>2. CASE Next
  BY <1>2, LoopQueueStep, PcmQueueStep, ControlQueueStep, EnqueueQueueStep
     DEF Next, QueueType
<1>3. QED
  BY <1>1, <1>2

(* Invariant strong enough for the next two theorems: the types and        *)
(* "equal versions mean an equal queue".                                   *)
LEMMA QueueInvariant == Spec => [](QueueType /\ SnapshotFresh)
<1>1. Init => QueueType /\ SnapshotFresh
  BY QueueTypeInit DEF Init, SnapshotFresh
<1>2. QueueType /\ SnapshotFresh /\ [Next]_vars => (QueueType /\ SnapshotFresh)'
  <2> SUFFICES ASSUME QueueType, SnapshotFresh, [Next]_vars
               PROVE  QueueType' /\ SnapshotFresh'
    OBVIOUS
  <2>1. QueueStep /\ enqueued' \in 0..MaxItems
    BY NextQueueStep
  <2>2. q.items \in Seq(Items) /\ q.cur \in Nat
    BY QueueParts DEF QueueType
  <2>3. QED
    BY <2>1, <2>2 DEF QueueStep, QueueType, SnapshotFresh
<1>3. QED
  BY <1>1, <1>2, PTL DEF Spec

(* While the version is the snapshot's, the snapshot is the queue.         *)
THEOREM SnapshotFreshAlways == Spec => []SnapshotFresh
BY QueueInvariant, PTL

(* A failed track is only ever passed over if it is still the current item *)
(* of an unchanged queue: trackFailed (loop.go:109-126) never skips a      *)
(* selection or an item that came in since.                                *)
THEOREM FailureMovesSafely == Spec => FailureMovesOnlyFailedTrack
<1>1. QueueType /\ SnapshotFresh /\ [Next]_vars
        => [\A t \in {"loop", "pcm"} :
              (GiveUp(t) \/ (MoveOn(t) /\ q' # q))
                => Current(q) = Playing /\ q.items = snap.items]_vars
  <2> SUFFICES ASSUME QueueType, SnapshotFresh, NEW t \in {"loop", "pcm"},
                      GiveUp(t) \/ (MoveOn(t) /\ q' # q)
               PROVE  Current(q) = Playing /\ q.items = snap.items
    OBVIOUS
  <2>1. sameQueue
    BY DEF GiveUp, MoveOn
  <2>2. q.items = snap.items /\ q.cur = snap.cur
    BY <2>1 DEF SnapshotFresh
  <2>3. Len(q.items) \in Nat /\ q.cur \in Nat
    BY QueueParts DEF QueueType
  <2>4. QED
    BY <2>2, <2>3 DEF Current, Playing, Idle
<1>2. QED
  BY <1>1, QueueInvariant, PTL DEF Spec, FailureMovesOnlyFailedTrack

-----------------------------------------------------------------------------
(***************************************************************************)
(* What a failure records and what giving up rests on.                     *)
(***************************************************************************)
Picked == {"version", "arm", "resolve", "checkEpoch", "checkCurrent", "disarm",
           "swap", "channel", "start", "fail", "judge", "giveUp", "moveOn"}

\* Who works on a track has a snapshot with a current item.
HasItem ==
  pc.loop \in Picked \/ pc.pcm # "none" => snap.cur < Len(snap.items)

StreakInv == PcInv /\ QueueType /\ HasItem /\ failed \subseteq Items

LEMMA PlayingType ==
  ASSUME QueueType, snap.cur < Len(snap.items)
  PROVE  Playing \in Items
<1>1. snap.items \in Seq(Items) /\ snap.cur \in Nat
  BY DEF QueueType
<1>2. Playing = snap.items[snap.cur + 1]
  BY DEF Playing
<1> HIDE DEF Playing
<1> QED
  BY <1>1, <1>2

LEMMA TrackFailedKeepsStreak ==
  ASSUME StreakInv, NEW t \in {"loop", "pcm"}, TrackFailed(t)
  PROVE  HasItem' /\ failed' \subseteq Items
<1> USE DEF StreakInv, PcInv, PcType, OneStream, HasItem, Picked, LoopSteps,
            PcmSteps, FailSteps
<1>1. CASE RecordFailure(t)
  <2>1. Playing \in Items
    BY <1>1, PlayingType DEF RecordFailure
  <2> QED
    BY <1>1, <2>1 DEF RecordFailure
<1>2. CASE Judge(t) \/ GiveUp(t) \/ KeepGoing(t) \/ Forgive(t) \/ MoveOn(t)
  BY <1>2 DEF Judge, GiveUp, KeepGoing, Forgive, MoveOn
<1> QED
  BY <1>1, <1>2 DEF TrackFailed

LEMMA LoopKeepsStreak ==
  ASSUME StreakInv, Loop PROVE HasItem' /\ failed' \subseteq Items
<1> USE DEF StreakInv, PcInv, PcType, OneStream, HasItem, Picked, LoopSteps,
            PcmSteps, FailSteps
<1>1. CASE Tick \/ Woken \/ Look \/ ReadEpoch \/ Calm \/ ReadLaunchVersion
  BY <1>1 DEF Tick, Woken, Look, ReadEpoch, Calm, ReadLaunchVersion
<1>2. CASE TakeSnapshot
  <2>1. pc.pcm = "none"
    BY <1>2 DEF TakeSnapshot
  <2>2. ~Idle(q) => q.cur < Len(q.items)
    BY QueueParts DEF QueueType, Idle
  <2> QED
    BY <1>2, <2>1, <2>2 DEF TakeSnapshot
<1>3. CASE Arm \/ Resolve \/ CheckEpoch \/ CheckCurrent
  BY <1>3 DEF Arm, Resolve, CheckEpoch, CheckCurrent
<1>4. CASE Disarm
  BY <1>4 DEF Disarm
<1>5. CASE Swap \/ NewChannel \/ StartOk \/ StartFails
  BY <1>5 DEF Swap, NewChannel, StartOk, StartFails
<1>6. CASE TrackFailed("loop")
  BY <1>6, TrackFailedKeepsStreak
<1>7. CASE WakeLoop("loop", "select")
  BY <1>7 DEF WakeLoop
<1> QED
  BY <1>1, <1>2, <1>3, <1>4, <1>5, <1>6, <1>7 DEF Loop

LEMMA PcmKeepsStreak ==
  ASSUME StreakInv, Pcm PROVE HasItem' /\ failed' \subseteq Items
<1> USE DEF StreakInv, PcInv, PcType, OneStream, HasItem, Picked, LoopSteps,
            PcmSteps, FailSteps
<1>1. CASE PlayInterrupted \/ PlayEnds \/ Callback \/ EndStreak \/ EndAdvance \/ PcmExit
  BY <1>1 DEF PlayInterrupted, PlayEnds, Callback, EndStreak, EndAdvance, PcmExit
<1>2. CASE TrackFailed("pcm")
  BY <1>2, TrackFailedKeepsStreak
<1>3. CASE WakeLoop("pcm", "exit")
  BY <1>3 DEF WakeLoop
<1> QED
  BY <1>1, <1>2, <1>3 DEF Pcm

\* Controls and enqueuers have no snapshot and record no failure.
LEMMA OthersKeepJudgement ==
  ASSUME PcType, Control \/ Enqueue \/ UNCHANGED vars
  PROVE  /\ snap' = snap /\ res' = res /\ failed' \in {failed, {}}
         /\ pc'.loop = pc.loop /\ pc'.pcm = pc.pcm
<1>1. CASE Control
  <2>1. pc'.loop = pc.loop /\ pc'.pcm = pc.pcm
    BY <1>1, ControlKeepsOthers
  <2>2. snap' = snap /\ res' = res /\ failed' \in {failed, {}}
    BY <1>1
    DEF Control, IssuePlay, IssueMode, IssueOther, ControlStep, BumpEpoch, ResetFails,
        Cancel, BumpLaunchVersion, Interrupt, Probe, SkipAdvance, StopRewinds,
        ClearEmpties, WakeLoop
  <2> QED
    BY <2>1, <2>2
<1>2. CASE Enqueue \/ UNCHANGED vars
  BY <1>2 DEF Enqueue, vars
<1> QED
  BY <1>1, <1>2

LEMMA StreakInvariant == Spec => []StreakInv
<1>1. Init => StreakInv
  <2> SUFFICES ASSUME Init PROVE StreakInv
    OBVIOUS
  <2>1. HasItem /\ failed \subseteq Items
    BY DEF Init, HasItem, Picked
  <2> QED
    BY <2>1, PcInvInit, QueueTypeInit DEF StreakInv
<1>2. StreakInv /\ [Next]_vars => StreakInv'
  <2> SUFFICES ASSUME StreakInv, [Next]_vars PROVE StreakInv'
    OBVIOUS
  <2>1. PcInv'
    BY PcInvStep DEF StreakInv
  <2>2. QueueType'
    <3>1. q.items \in Seq(Items) /\ q.cur \in Nat
      BY QueueParts DEF StreakInv, QueueType
    <3>2. QueueStep /\ enqueued' \in 0..MaxItems
      BY NextQueueStep DEF StreakInv
    <3> QED
      BY <3>1, <3>2 DEF StreakInv, QueueStep, QueueType
  <2>3. HasItem' /\ failed' \subseteq Items
    <3>1. CASE Control \/ Enqueue \/ UNCHANGED vars
      BY <3>1, OthersKeepJudgement DEF StreakInv, PcInv, HasItem
    <3> QED
      BY <3>1, LoopKeepsStreak, PcmKeepsStreak DEF Next
  <2> QED
    BY <2>1, <2>2, <2>3 DEF StreakInv
<1> QED
  BY <1>1, <1>2, PTL DEF Spec

(* The flags.                                                              *)
Flags ==
  /\ wake \in BOOLEAN /\ running \in BOOLEAN /\ interrupted \in BOOLEAN
  /\ cancellable \in BOOLEAN /\ cancelled \in BOOLEAN
  /\ sameQueue \in BOOLEAN /\ sameEpoch \in BOOLEAN /\ sameLaunch \in BOOLEAN

LEMMA FlagsStep == Flags /\ [Next]_vars => Flags'
<1> SUFFICES ASSUME Flags, [Next]_vars PROVE Flags'
  OBVIOUS
<1> USE DEF Flags, Mutate
<1>1. CASE Loop
  <2>1. CASE Tick \/ Woken \/ Look \/ ReadEpoch \/ TakeSnapshot \/ Calm
    BY <2>1, Zenon DEF Tick, Woken, Look, ReadEpoch, TakeSnapshot, Calm
  <2>2. CASE ReadLaunchVersion \/ Arm \/ Resolve \/ CheckEpoch \/ CheckCurrent
    BY <2>2, Zenon DEF ReadLaunchVersion, Arm, Resolve, CheckEpoch, CheckCurrent
  <2>3. CASE Disarm \/ Swap \/ NewChannel \/ StartOk \/ StartFails
    BY <2>3, Zenon DEF Disarm, Swap, NewChannel, StartOk, StartFails
  <2>4. CASE TrackFailed("loop") \/ WakeLoop("loop", "select")
    BY <2>4, ZenonT(60) DEF TrackFailed, RecordFailure, Judge, GiveUp, KeepGoing, Forgive,
                       MoveOn, WakeLoop
  <2> QED
    BY <1>1, <2>1, <2>2, <2>3, <2>4 DEF Loop
<1>2. CASE Pcm
  <2>1. CASE PlayInterrupted \/ PlayEnds \/ Callback \/ EndStreak
    BY <2>1, Zenon DEF PlayInterrupted, PlayEnds, Callback, EndStreak
  <2>2. CASE EndAdvance \/ PcmExit
    BY <2>2, Zenon DEF EndAdvance, PcmExit
  <2>3. CASE TrackFailed("pcm") \/ WakeLoop("pcm", "exit")
    BY <2>3, ZenonT(60) DEF TrackFailed, RecordFailure, Judge, GiveUp, KeepGoing, Forgive,
                       MoveOn, WakeLoop
  <2> QED
    BY <1>2, <2>1, <2>2, <2>3 DEF Pcm
<1>3. CASE Control
  <2>1. CASE IssuePlay \/ IssueMode \/ \E o \in {"stop", "skip", "clear"} : IssueOther(o)
    BY <2>1, Zenon DEF IssuePlay, IssueMode, IssueOther
  <2>2. CASE BumpEpoch \/ ResetFails \/ Cancel \/ BumpLaunchVersion
    BY <2>2, Zenon DEF BumpEpoch, ResetFails, Cancel, BumpLaunchVersion
  <2>3. CASE Interrupt \/ Probe \/ SkipAdvance
    BY <2>3, Zenon DEF Interrupt, Probe, SkipAdvance
  <2>4. CASE StopRewinds \/ ClearEmpties \/ WakeLoop("ctl", "idle")
    BY <2>4, Zenon DEF StopRewinds, ClearEmpties, WakeLoop
  <2> QED
    BY <1>3, <2>1, <2>2, <2>3, <2>4 DEF Control, ControlStep
<1>4. CASE Enqueue \/ UNCHANGED vars
  BY <1>4, Zenon DEF Enqueue, vars
<1> QED
  BY <1>1, <1>2, <1>3, <1>4 DEF Next

(* What a control and a resolve leave behind.                              *)
OpType ==
  /\ op \in {"play", "stop", "skip", "clear", "mode"} /\ controls \in 0..MaxControls
  /\ res \in Results /\ reselected \in Selections

LEMMA OpTypeStep == OpType /\ [Next]_vars => OpType'
<1> SUFFICES ASSUME OpType, [Next]_vars PROVE OpType'
  OBVIOUS
<1> USE PlayLoopAssumption DEF OpType, Results, Selections
<1>1. CASE Loop
  <2>1. CASE TrackFailed("loop")
    BY <2>1 DEF TrackFailed, RecordFailure, Judge, GiveUp, KeepGoing, Forgive, MoveOn
  <2>2. CASE ~TrackFailed("loop")
    BY <1>1, <2>2
    DEF Loop, Tick, Woken, Look, ReadEpoch, TakeSnapshot, Calm, ReadLaunchVersion, Arm,
        Resolve, CheckEpoch, CheckCurrent, Disarm, Swap, NewChannel, StartOk,
        StartFails, WakeLoop
  <2> QED
    BY <2>1, <2>2
<1>2. CASE Pcm
  BY <1>2
  DEF Pcm, PlayInterrupted, PlayEnds, Callback, EndStreak, EndAdvance, PcmExit,
      WakeLoop, TrackFailed, RecordFailure, Judge, GiveUp, KeepGoing, Forgive, MoveOn
<1>3. CASE Control
  <2>1. ASSUME NEW o, Issue(o), o \in {"play", "mode", "stop", "skip", "clear"}
        PROVE  op' \in {"play", "stop", "skip", "clear", "mode"}
               /\ controls' \in 0..MaxControls
    BY <2>1 DEF Issue
  <2>2. CASE IssuePlay \/ IssueMode
    BY <2>1, <2>2 DEF IssuePlay, IssueMode
  <2>3. CASE \E o \in {"stop", "skip", "clear"} : IssueOther(o)
    BY <2>1, <2>3 DEF IssueOther
  <2>4. CASE ControlStep
    BY <2>4 DEF ControlStep, BumpEpoch, ResetFails, Cancel, BumpLaunchVersion,
                Interrupt, Probe, SkipAdvance, StopRewinds, ClearEmpties, WakeLoop
  <2> QED
    BY <1>3, <2>2, <2>3, <2>4 DEF Control
<1>4. CASE Enqueue \/ UNCHANGED vars
  BY <1>4 DEF Enqueue, vars
<1> QED
  BY <1>1, <1>2, <1>3, <1>4 DEF Next

(* Types are kept; in particular only items of the queue are ever recorded *)
(* as failed: trackFailed is never called without a track.                 *)
THEOREM Typed == Spec => []TypeOK
<1>1. Init => Flags /\ OpType
  <2> SUFFICES ASSUME Init PROVE Flags /\ OpType
    OBVIOUS
  <2>1. Flags
    BY Zenon DEF Init, Flags
  <2>2. OpType
    BY PlayLoopAssumption DEF Init, OpType, Results, Selections
  <2> QED
    BY <2>1, <2>2
<1>2. Flags /\ OpType /\ [Next]_vars => (Flags /\ OpType)'
  BY FlagsStep, OpTypeStep
<1>3. ASSUME StreakInv, Flags, OpType PROVE TypeOK
  <2>1. {wake, running, interrupted, cancellable, cancelled, sameQueue,
         sameEpoch, sameLaunch} \subseteq BOOLEAN
    BY <1>3, Zenon DEF Flags
  <2> QED
    BY <1>3, <2>1 DEF StreakInv, PcInv, PcType, QueueType, OpType, TypeOK
<1> QED
  BY <1>1, <1>2, <1>3, StreakInvariant, PTL DEF Spec

-----------------------------------------------------------------------------
(***************************************************************************)
(* Giving up.  Where only bad items are resolvers, every failure on record *)
(* is that of a bad item, whatever the controls do.                        *)
(***************************************************************************)
Resolving == {"arm", "resolve", "checkEpoch", "checkCurrent", "disarm"}

OnlyBadFail ==
  /\ failed \subseteq Bad
  /\ pc.loop \in Resolving => Playing \in Resolvers
  /\ pc.loop = "fail" \/ pc.pcm = "fail" => Playing \in Bad
  /\ pc.pcm = "callback" /\ res = "err" => Playing \in Bad
  /\ \A t \in {"loop", "pcm"} : pc[t] = "giveUp" => ToSet(snap.items) \subseteq Bad

LEMMA TrackFailedKeepsBad ==
  ASSUME PcInv, OnlyBadFail, NEW t \in {"loop", "pcm"}, TrackFailed(t)
  PROVE  OnlyBadFail'
<1> USE DEF PcInv, PcType, OneStream, LoopSteps, PcmSteps, FailSteps, OnlyBadFail,
            Resolving
<1>0. snap' = snap /\ res' = res /\ Playing' = Playing
  BY DEF TrackFailed, RecordFailure, Judge, GiveUp, KeepGoing, Forgive, MoveOn, Playing
<1>1. CASE RecordFailure(t)
  BY <1>0, <1>1 DEF RecordFailure
<1>2. CASE Judge(t)
  BY <1>0, <1>2 DEF Judge
<1>3. CASE GiveUp(t) \/ KeepGoing(t) \/ Forgive(t) \/ MoveOn(t)
  BY <1>0, <1>3 DEF GiveUp, KeepGoing, Forgive, MoveOn
<1> QED
  BY <1>1, <1>2, <1>3 DEF TrackFailed

LEMMA LoopKeepsBad ==
  ASSUME Resolvers \subseteq Bad, PcInv, OnlyBadFail, Loop
  PROVE  OnlyBadFail'
<1> USE DEF PcInv, PcType, OneStream, LoopSteps, PcmSteps, FailSteps, OnlyBadFail,
            Resolving
<1>1. CASE TakeSnapshot
  BY <1>1 DEF TakeSnapshot
<1>2. CASE Tick \/ Woken \/ Look \/ ReadEpoch \/ Calm \/ ReadLaunchVersion
  <2>1. Playing' = Playing /\ snap' = snap /\ res' = res
    BY <1>2 DEF Tick, Woken, Look, ReadEpoch, Calm, ReadLaunchVersion, Playing
  <2> QED
    BY <1>2, <2>1 DEF Tick, Woken, Look, ReadEpoch, Calm, ReadLaunchVersion
<1>3. CASE Arm \/ Resolve \/ CheckEpoch \/ CheckCurrent \/ Disarm
  <2>1. Playing' = Playing /\ snap' = snap /\ pc.pcm = "none"
    BY <1>3 DEF Arm, Resolve, CheckEpoch, CheckCurrent, Disarm, Playing
  <2> QED
    BY <1>3, <2>1 DEF Arm, Resolve, CheckEpoch, CheckCurrent, Disarm
<1>4. CASE Swap \/ NewChannel \/ StartOk \/ StartFails
  <2>1. Playing' = Playing /\ snap' = snap /\ res' = res
    BY <1>4 DEF Swap, NewChannel, StartOk, StartFails, Playing
  <2> QED
    BY <1>4, <2>1 DEF Swap, NewChannel, StartOk, StartFails
<1>5. CASE TrackFailed("loop")
  BY <1>5, TrackFailedKeepsBad
<1>6. CASE WakeLoop("loop", "select")
  <2>1. Playing' = Playing
    BY <1>6 DEF WakeLoop, Playing
  <2> QED
    BY <1>6, <2>1 DEF WakeLoop
<1> QED
  BY <1>1, <1>2, <1>3, <1>4, <1>5, <1>6 DEF Loop

LEMMA PcmKeepsBad ==
  ASSUME PcInv, OnlyBadFail, Pcm PROVE OnlyBadFail'
<1> USE DEF PcInv, PcType, OneStream, LoopSteps, PcmSteps, FailSteps, OnlyBadFail,
            Resolving
<1>1. CASE TrackFailed("pcm")
  BY <1>1, TrackFailedKeepsBad
<1>2. CASE ~TrackFailed("pcm")
  <2>1. Playing' = Playing /\ snap' = snap
    BY <1>2
    DEF Pcm, PlayInterrupted, PlayEnds, Callback, EndStreak, EndAdvance, WakeLoop,
        PcmExit, Playing
  <2> QED
    BY <1>2, <2>1
    DEF Pcm, PlayInterrupted, PlayEnds, Callback, EndStreak, EndAdvance, WakeLoop, PcmExit
<1> QED
  BY <1>1, <1>2

(* If the only resolvers are items that cannot play anyway, the bot gives  *)
(* up only when every queued item is unplayable, however items are added   *)
(* and controls race with the failures (failguard.go:9-10).  A good        *)
(* resolver that a control cancels is what breaks this without the         *)
(* assumption (CancelIsNotFailure).                                        *)
THEOREM GivesUpOnlyUnplayable ==
  ASSUME Resolvers \subseteq Bad
  PROVE  Spec => GiveUpOnlyUnplayable
<1>1. Init => OnlyBadFail
  BY DEF Init, OnlyBadFail, Resolving
<1>2. OnlyBadFail /\ PcInv /\ [Next]_vars => OnlyBadFail'
  <2> SUFFICES ASSUME OnlyBadFail, PcInv, [Next]_vars PROVE OnlyBadFail'
    OBVIOUS
  <2>1. CASE Control \/ Enqueue \/ UNCHANGED vars
    <3>1. /\ snap' = snap /\ res' = res /\ failed' \in {failed, {}}
          /\ pc'.loop = pc.loop /\ pc'.pcm = pc.pcm
      BY <2>1, OthersKeepJudgement DEF PcInv
    <3>2. Playing' = Playing
      BY <3>1 DEF Playing
    <3> QED
      BY <3>1, <3>2 DEF OnlyBadFail
  <2> QED
    BY <2>1, LoopKeepsBad, PcmKeepsBad DEF Next
<1>3. OnlyBadFail /\ SnapshotFresh /\ [Next]_vars
        => [\A t \in {"loop", "pcm"} : GiveUp(t) => ToSet(q.items) \subseteq Bad]_vars
  BY DEF OnlyBadFail, SnapshotFresh, GiveUp, Goto
<1>4. Spec => [](PcInv /\ SnapshotFresh)
  BY StreakInvariant, QueueInvariant, PTL DEF StreakInv
<1> QED
  BY <1>1, <1>2, <1>3, <1>4, PTL DEF Spec, GiveUpOnlyUnplayable

-----------------------------------------------------------------------------
(***************************************************************************)
(* Giving up and the failure streak, where the only control is a change of *)
(* the mode: then nobody but the goroutine that judges ends the streak.    *)
(***************************************************************************)
Judged ==
  /\ pc.ctl \in {"idle", "wake"}
  /\ \A t \in {"loop", "pcm"} : pc[t] = "giveUp" => ToSet(snap.items) \subseteq failed

LEMMA TrackFailedKeepsJudged ==
  ASSUME PcInv, Judged, NEW t \in {"loop", "pcm"}, TrackFailed(t)
  PROVE  Judged'
<1> USE DEF PcInv, PcType, OneStream, LoopSteps, PcmSteps, FailSteps, Judged
<1>1. snap' = snap
  BY DEF TrackFailed, RecordFailure, Judge, GiveUp, KeepGoing, Forgive, MoveOn
<1>2. CASE RecordFailure(t) \/ Judge(t)
  BY <1>1, <1>2 DEF RecordFailure, Judge
<1>3. CASE GiveUp(t) \/ KeepGoing(t) \/ Forgive(t) \/ MoveOn(t)
  BY <1>1, <1>3 DEF GiveUp, KeepGoing, Forgive, MoveOn
<1> QED
  BY <1>2, <1>3 DEF TrackFailed

\* While the loop is not waiting nothing plays, so whoever gives up is alone.
LEMMA LoopKeepsJudged ==
  ASSUME PcInv, Judged, Loop PROVE Judged'
<1> USE DEF PcInv, PcType, OneStream, LoopSteps, PcmSteps, FailSteps, Judged
<1>1. CASE TakeSnapshot \/ Calm
  BY <1>1 DEF TakeSnapshot, Calm
<1>2. CASE Tick \/ Woken \/ Look \/ ReadEpoch \/ ReadLaunchVersion
  BY <1>2 DEF Tick, Woken, Look, ReadEpoch, ReadLaunchVersion
<1>3. CASE Arm \/ Resolve \/ CheckEpoch \/ CheckCurrent \/ Disarm
  BY <1>3 DEF Arm, Resolve, CheckEpoch, CheckCurrent, Disarm
<1>4. CASE Swap \/ NewChannel \/ StartOk \/ StartFails
  BY <1>4 DEF Swap, NewChannel, StartOk, StartFails
<1>5. CASE TrackFailed("loop")
  BY <1>5, TrackFailedKeepsJudged
<1>6. CASE WakeLoop("loop", "select")
  BY <1>6 DEF WakeLoop
<1> QED
  BY <1>1, <1>2, <1>3, <1>4, <1>5, <1>6 DEF Loop

LEMMA PcmKeepsJudged ==
  ASSUME PcInv, Judged, Pcm PROVE Judged'
<1> USE DEF PcInv, PcType, OneStream, LoopSteps, PcmSteps, FailSteps, Judged
<1>1. CASE TrackFailed("pcm")
  BY <1>1, TrackFailedKeepsJudged
<1>2. CASE PlayInterrupted \/ PlayEnds \/ Callback \/ EndStreak
  BY <1>2 DEF PlayInterrupted, PlayEnds, Callback, EndStreak
<1>3. CASE EndAdvance \/ WakeLoop("pcm", "exit") \/ PcmExit
  BY <1>3 DEF EndAdvance, WakeLoop, PcmExit
<1> QED
  BY <1>1, <1>2, <1>3 DEF Pcm

(* SetPlaybackMode leaves the streak alone and has one step to go.         *)
LEMMA ModeKeepsJudged ==
  ASSUME Controls \subseteq {"mode"}, PcInv, Judged, Control
  PROVE  Judged'
<1>1. /\ snap' = snap /\ pc'.loop = pc.loop /\ pc'.pcm = pc.pcm
  BY OthersKeepJudgement DEF PcInv
<1>2. ~IssuePlay /\ \A o \in {"stop", "skip", "clear"} : ~IssueOther(o)
  BY DEF IssuePlay, IssueOther, Issue
<1>3. CASE IssueMode
  BY <1>1, <1>3 DEF IssueMode, Goto, Judged, PcInv, PcType
<1>4. CASE ControlStep
  <2>1. WakeLoop("ctl", "idle")
    BY <1>4 DEF Judged, ControlStep, BumpEpoch, ResetFails, Cancel,
                BumpLaunchVersion, Interrupt, Probe, SkipAdvance, StopRewinds,
                ClearEmpties, Goto
  <2> QED
    BY <1>1, <2>1 DEF WakeLoop, Goto, Judged, PcInv, PcType
<1> QED
  BY <1>2, <1>3, <1>4 DEF Control

(* Giving up needs every queued item in the current streak, for any items, *)
(* modes and resolvers, as long as users change modes only: between the    *)
(* judgement and the move nothing else ends the streak (loop.go:109-124).  *)
THEOREM GivesUpWithinStreak ==
  ASSUME Controls \subseteq {"mode"}
  PROVE  Spec => GiveUpWithinStreak
<1>1. Init => Judged
  BY DEF Init, Judged
<1>2. Judged /\ PcInv /\ [Next]_vars => Judged'
  <2> SUFFICES ASSUME Judged, PcInv, [Next]_vars PROVE Judged'
    OBVIOUS
  <2>1. CASE Enqueue \/ UNCHANGED vars
    BY <2>1 DEF Enqueue, vars, Judged
  <2> QED
    BY <2>1, LoopKeepsJudged, PcmKeepsJudged, ModeKeepsJudged DEF Next
<1>3. Judged /\ SnapshotFresh /\ [Next]_vars
        => [\A t \in {"loop", "pcm"} : GiveUp(t) => ToSet(q.items) \subseteq failed]_vars
  BY DEF Judged, SnapshotFresh, GiveUp, Goto
<1>4. Spec => [](PcInv /\ SnapshotFresh)
  BY StreakInvariant, QueueInvariant, PTL DEF StreakInv
<1> QED
  BY <1>1, <1>2, <1>3, <1>4, PTL DEF Spec, GiveUpWithinStreak
=============================================================================
