---------------------------- MODULE AudioProofs ----------------------------
(***************************************************************************)
(* What holds of the package internal/audio.  Of the pipeline, for any     *)
(* number of launching and interrupting goroutines and of launches; of the *)
(* volume, for any scale, ceiling and configured volume.                   *)
(***************************************************************************)
EXTENDS Pipeline, Volume, TLAPS

USE DEF Streams

PcmSteps == {"none", "failed", "open", "select", "read", "faded", "close",
             "wait", "release", "gone"}

Active == {"open", "select", "read", "faded", "close", "wait", "release"}

Types ==
  /\ running \in BOOLEAN
  /\ interruptCh \in 0..MaxLaunches
  /\ launches \in 0..MaxLaunches
  /\ pc \in [Launchers \cup Interrupters -> {"idle", "channel", "start", "test", "close"}]
  /\ held \in [Launchers \cup Interrupters -> 0..MaxLaunches]
  /\ pcm \in [Streams -> PcmSteps]
  /\ ffmpeg \in [Streams -> {"none", "alive", "dead"}]
  /\ audio \subseteq Streams

(* A goroutine inside Launch holds the pipeline for the newest stream,     *)
(* whose PCM goroutine does not exist yet.                                 *)
LaunchHolds ==
  \A g \in Launchers : pc[g] \in {"channel", "start"} =>
    /\ running
    /\ launches > 0 /\ held[g] = launches /\ pcm[launches] = "none"
    /\ \A h \in Launchers : pc[h] \in {"channel", "start"} => h = g

(* A stream that has begun and not ended holds the pipeline, is the newest *)
(* one, and nobody is launching.                                           *)
StreamHolds ==
  \A s \in Streams :
    /\ s > launches => pcm[s] = "none"
    /\ pcm[s] \in Active =>
         running /\ s = launches
         /\ \A g \in Launchers : pc[g] \notin {"channel", "start"}

(* ffmpeg and the audio channel belong to an active stream, the channel    *)
(* until it is closed, ffmpeg until it was waited for.                     *)
Resources ==
  \A s \in Streams :
    /\ ffmpeg[s] = "alive" => pcm[s] \in Active \ {"faded", "release"}
    /\ s \in audio => pcm[s] \in {"select", "read", "faded", "close"}

Inv == Types /\ LaunchHolds /\ StreamHolds /\ Resources

(* Nothing has been launched yet.                                          *)
LEMMA InvInit == Init => Inv
<1> SUFFICES ASSUME Init PROVE Inv
  OBVIOUS
<1>1. running \in BOOLEAN
  BY Zenon DEF Init
<1>2. Types
  BY <1>1, PipelineAssumption DEF Init, Types, PcmSteps
<1>3. LaunchHolds /\ StreamHolds /\ Resources
  BY DEF Init, LaunchHolds, StreamHolds, Resources, Active
<1> QED
  BY <1>2, <1>3 DEF Inv

(* A step of a goroutine inside Launch.                                    *)
LEMMA LaunchKeepsInv ==
  ASSUME Inv, NEW g \in Launchers, Launch(g) PROVE Inv'
<1> USE PipelineAssumption DEF Inv, Types, PcmSteps, Goto, streamVars
<1>1. CASE Refused(g)
  BY <1>1 DEF Refused, vars, streamVars, LaunchHolds, StreamHolds, Resources, Active
<1>2. CASE Swap(g)
  <2>1. launches + 1 \in Streams /\ launches' = launches + 1 /\ running' = TRUE
    BY <1>2 DEF Swap
  <2>2. Types'
    BY <1>2, <2>1 DEF Swap
  <2>3. LaunchHolds'
    BY <1>2, <2>1 DEF Swap, LaunchHolds, StreamHolds
  <2>4. StreamHolds' /\ Resources'
    BY <1>2, <2>1 DEF Swap, StreamHolds, Resources, Active
  <2> QED
    BY <2>2, <2>3, <2>4
<1>3. CASE NewChannel(g)
  BY <1>3 DEF NewChannel, LaunchHolds, StreamHolds, Resources, Active
<1>4. CASE StartFails(g)
  <2>1. held[g] = launches /\ launches \in Streams /\ pcm[launches] = "none"
    BY <1>4 DEF StartFails, LaunchHolds
  <2>2. pcm' = [pcm EXCEPT ![launches] = "failed"]
    BY <2>1, <1>4 DEF StartFails
  <2>3. Types'
    BY <1>4, <2>1, <2>2 DEF StartFails
  <2>4. LaunchHolds'
    BY <1>4, <2>1, <2>2 DEF StartFails, LaunchHolds
  <2>5. StreamHolds' /\ Resources'
    BY <1>4, <2>1, <2>2 DEF StartFails, LaunchHolds, StreamHolds, Resources, Active
  <2> QED
    BY <2>3, <2>4, <2>5
<1>5. CASE StartOk(g)
  <2>1. held[g] = launches /\ launches \in Streams /\ pcm[launches] = "none" /\ running
    BY <1>5 DEF StartOk, LaunchHolds
  <2>2. /\ pcm' = [pcm EXCEPT ![launches] = "open"]
        /\ ffmpeg' = [ffmpeg EXCEPT ![launches] = "alive"]
    BY <2>1, <1>5 DEF StartOk
  <2>3. Types'
    BY <1>5, <2>1, <2>2 DEF StartOk
  <2>4. LaunchHolds'
    BY <1>5, <2>1, <2>2 DEF StartOk, LaunchHolds
  <2>5. StreamHolds' /\ Resources'
    BY <1>5, <2>1, <2>2 DEF StartOk, LaunchHolds, StreamHolds, Resources, Active
  <2> QED
    BY <2>3, <2>4, <2>5
<1> QED
  BY <1>1, <1>2, <1>3, <1>4, <1>5 DEF Launch

(* Interrupt only closes channels.                                         *)
LEMMA InterruptKeepsInv ==
  ASSUME Inv, NEW g \in Interrupters, Interrupt(g) PROVE Inv'
<1>1. g \notin Launchers
  BY PipelineAssumption
<1>2. /\ pc' = [pc EXCEPT ![g] = pc'[g]] /\ pc'[g] \in {"idle", "test", "close"}
      /\ held' = [held EXCEPT ![g] = held'[g]] /\ held'[g] \in 0..MaxLaunches
      /\ UNCHANGED <<running, interruptCh, launches, pcm, ffmpeg, audio>>
  <2> USE DEF Inv, Types, Goto, streamVars
  <2>1. CASE ReadChannel(g)
    BY <2>1 DEF ReadChannel
  <2>2. CASE TestChannel(g)
    BY <2>2 DEF TestChannel
  <2>3. CASE CloseChannel(g)
    BY <2>3 DEF CloseChannel
  <2> QED
    BY <2>1, <2>2, <2>3 DEF Interrupt
<1>3. Types'
  BY <1>2 DEF Inv, Types
<1>4. \A h \in Launchers : pc'[h] = pc[h] /\ held'[h] = held[h]
  BY <1>1, <1>2 DEF Inv, Types
<1>5. LaunchHolds' /\ StreamHolds' /\ Resources'
  BY <1>2, <1>4 DEF Inv, LaunchHolds, StreamHolds, Resources
<1> QED
  BY <1>3, <1>5 DEF Inv

(* A step of the PCM goroutine of stream s, which holds the pipeline until *)
(* its last step: by then the channel is closed and ffmpeg is dead.        *)
LEMMA PcmKeepsInv ==
  ASSUME Inv, NEW s \in Streams, Pcm(s) PROVE Inv'
<1> USE PipelineAssumption DEF Inv, Types, PcmSteps, StreamGoto, Active, Report
<1>a. pcm[s] \in Active
  BY DEF Pcm, Open, Ticker, ReadFrame, ReadFails, FadeOut, EndInterrupted,
         CloseAudio, Wait, Release
<1>b. running /\ s = launches /\ \A g \in Launchers : pc[g] \notin {"channel", "start"}
  BY <1>a DEF StreamHolds
<1>1. CASE Open(s)
  BY <1>1, <1>b DEF Open, LaunchHolds, StreamHolds, Resources
<1>2. CASE Ticker(s)
  BY <1>2, <1>b DEF Ticker, LaunchHolds, StreamHolds, Resources
<1>3. CASE ReadFrame(s)
  BY <1>3, <1>b DEF ReadFrame, LaunchHolds, StreamHolds, Resources
<1>4. CASE ReadFails(s)
  BY <1>4, <1>b DEF ReadFails, LaunchHolds, StreamHolds, Resources
<1>5. CASE FadeOut(s)
  BY <1>5, <1>b DEF FadeOut, LaunchHolds, StreamHolds, Resources
<1>6. CASE EndInterrupted(s)
  BY <1>6, <1>b DEF EndInterrupted, LaunchHolds, StreamHolds, Resources
<1>7. CASE CloseAudio(s)
  BY <1>7, <1>b DEF CloseAudio, LaunchHolds, StreamHolds, Resources
<1>8. CASE Wait(s)
  BY <1>8, <1>b DEF Wait, LaunchHolds, StreamHolds, Resources
<1>9. CASE Release(s)
  BY <1>9, <1>b DEF Release, LaunchHolds, StreamHolds, Resources
<1> QED
  BY <1>1, <1>2, <1>3, <1>4, <1>5, <1>6, <1>7, <1>8, <1>9 DEF Pcm

(* The invariant holds in every state.                                     *)
LEMMA Invariant == Spec => []Inv
<1>1. Inv /\ UNCHANGED vars => Inv'
  BY DEF Inv, Types, LaunchHolds, StreamHolds, Resources, vars, streamVars
<1>2. Inv /\ [Next]_vars => Inv'
  BY <1>1, LaunchKeepsInv, InterruptKeepsInv, PcmKeepsInv DEF Next
<1> QED
  BY <1>2, InvInit, PTL DEF Spec

(* Whoever finds running cleared finds no ffmpeg process and no open audio *)
(* channel of an earlier stream, and two streams never have one together.  *)
THEOREM NothingIsLeftBehind == Spec => []NothingLeftBehind
<1>1. Inv => NothingLeftBehind
  BY DEF Inv, Types, StreamHolds, Resources, Active, NothingLeftBehind
<1> QED
  BY <1>1, Invariant, PTL

-----------------------------------------------------------------------------
(* The refinement.                                                         *)

Results == {"clean", "noAudio", "readError"}

(* A stream has reported exactly from the time on it starts to clean up.   *)
Reported ==
  /\ onEnd \in [Streams -> Results \cup {"none"}]
  /\ \A s \in Streams :
       (onEnd[s] # "none") <=> (pcm[s] \in {"close", "wait", "release", "gone"})

AbstractPhase == [s \in Streams |-> Abstract(s)]

(* Every stream is still unborn.                                           *)
LEMMA StreamInit == Init => StreamSpec!Init /\ Reported
  BY DEF Init, StreamSpec!Init, Abstract, Reported, Results

(* A launch that ends, well or not, is Begin; the steps before are none.   *)
LEMMA LaunchSimulates ==
  ASSUME Inv, Inv', Reported, NEW g \in Launchers, Launch(g)
  PROVE  Reported' /\ [StreamSpec!Next]_(StreamSpec!vars)
<1> USE DEF Goto, streamVars, Inv, Types, PcmSteps
<1>1. CASE Refused(g) \/ Swap(g) \/ NewChannel(g)
  <2>1. UNCHANGED <<pcm, onEnd>>
    BY <1>1 DEF Refused, Swap, NewChannel, vars
  <2> QED
    BY <2>1 DEF Reported, Abstract, StreamSpec!vars
<1>2. CASE StartFails(g) \/ StartOk(g)
  <2>1. pc[g] = "start"
    BY <1>2 DEF StartFails, StartOk
  <2>2. PICK s \in Streams : s = held[g] /\ pcm[s] = "none"
    BY <2>1 DEF LaunchHolds
  <2>3. \A t \in Streams : pcm[t] \notin Active
    BY <2>1 DEF StreamHolds
  <2>4. /\ \/ pcm' = [pcm EXCEPT ![s] = "failed"]
           \/ pcm' = [pcm EXCEPT ![s] = "open"]
        /\ onEnd' = onEnd
    BY <1>2, <2>2 DEF StartFails, StartOk
  <2>5. onEnd[s] = "none"
    BY <2>2 DEF Reported
  <2>6. Reported'
    BY <2>2, <2>4 DEF Reported
  <2>7. StreamSpec!Free
    BY <2>3 DEF Abstract, Active, StreamSpec!Free
  <2>8. /\ Abstract(s) = "unborn"
        /\ Abstract(s)' \in {"live", "failed"}
        /\ \A t \in Streams : t # s => Abstract(t)' = Abstract(t)
    BY <2>2, <2>4, <2>5 DEF Abstract
  <2>9. AbstractPhase' = [AbstractPhase EXCEPT ![s] = Abstract(s)']
    BY <2>8 DEF AbstractPhase
  <2>10. StreamSpec!Begin(s)
    BY <2>4, <2>7, <2>8, <2>9 DEF StreamSpec!Begin, AbstractPhase
  <2> QED
    BY <2>6, <2>10 DEF StreamSpec!Next
<1> QED
  BY <1>1, <1>2 DEF Launch

(* onEnd is End, the very last deferred call is Release.                   *)
LEMMA PcmSimulates ==
  ASSUME Inv, Inv', Reported, NEW s \in Streams, Pcm(s)
  PROVE  Reported' /\ [StreamSpec!Next]_(StreamSpec!vars)
<1> USE DEF StreamGoto, Report, Inv, Types, PcmSteps
<1>1. CASE Open(s) \/ Ticker(s) \/ ReadFrame(s) \/ FadeOut(s) \/ CloseAudio(s) \/ Wait(s)
  <2>1. /\ onEnd' = onEnd
        /\ pcm' = [pcm EXCEPT ![s] = pcm'[s]]
        /\ \/ {pcm[s], pcm'[s]} \subseteq {"open", "select", "read", "faded"}
           \/ {pcm[s], pcm'[s]} \subseteq {"close", "wait", "release"}
    BY <1>1 DEF Open, Ticker, ReadFrame, FadeOut, CloseAudio, Wait
  <2>2. Reported'
    BY <2>1 DEF Reported
  <2>3. \A t \in Streams : Abstract(t)' = Abstract(t)
    BY <2>1 DEF Abstract
  <2> QED
    BY <2>1, <2>2, <2>3 DEF StreamSpec!vars
<1>2. CASE ReadFails(s) \/ EndInterrupted(s)
  <2>1. PICK r \in Results :
          /\ onEnd' = [onEnd EXCEPT ![s] = r]
          /\ pcm' = [pcm EXCEPT ![s] = "close"]
          /\ pcm[s] \in {"read", "faded"}
    BY <1>2 DEF ReadFails, EndInterrupted, Results
  <2>2. Reported'
    BY <2>1 DEF Reported, Results
  <2>3. /\ Abstract(s) = "live" /\ Abstract(s)' = "ended"
        /\ \A t \in Streams : t # s => Abstract(t)' = Abstract(t)
    BY <2>1 DEF Abstract, Reported, Results
  <2>4. AbstractPhase' = [AbstractPhase EXCEPT ![s] = "ended"]
    BY <2>3 DEF AbstractPhase
  <2>5. StreamSpec!End(s)
    BY <2>1, <2>3, <2>4 DEF StreamSpec!End, StreamSpec!Results, Results, AbstractPhase
  <2> QED
    BY <2>2, <2>5 DEF StreamSpec!Next
<1>3. CASE Release(s)
  <2>1. /\ onEnd' = onEnd
        /\ pcm' = [pcm EXCEPT ![s] = "gone"] /\ pcm[s] = "release"
    BY <1>3 DEF Release
  <2>2. Reported'
    BY <2>1 DEF Reported
  <2>3. /\ Abstract(s) = "ended" /\ Abstract(s)' = "gone"
        /\ \A t \in Streams : t # s => Abstract(t)' = Abstract(t)
    BY <2>1 DEF Abstract, Reported
  <2>4. AbstractPhase' = [AbstractPhase EXCEPT ![s] = "gone"]
    BY <2>3 DEF AbstractPhase
  <2>5. StreamSpec!Release(s)
    BY <2>1, <2>3, <2>4 DEF StreamSpec!Release, AbstractPhase
  <2> QED
    BY <2>2, <2>5 DEF StreamSpec!Next
<1> QED
  BY <1>1, <1>2, <1>3 DEF Pcm

(* Interrupt is none of the abstract steps.                                *)
LEMMA OthersSimulate ==
  ASSUME Reported, UNCHANGED <<pcm, onEnd>>
  PROVE  Reported' /\ [StreamSpec!Next]_(StreamSpec!vars)
  BY DEF Reported, Abstract, StreamSpec!vars

(* Every step of Pipeline is a step of Stream or leaves it alone.          *)
LEMMA StepSimulates ==
  ASSUME Inv, Inv', Reported, [Next]_vars
  PROVE  Reported' /\ [StreamSpec!Next]_(StreamSpec!vars)
<1>1. CASE \E g \in Launchers : Launch(g)
  BY <1>1, LaunchSimulates
<1>2. CASE \E g \in Interrupters : Interrupt(g)
  <2>1. UNCHANGED <<pcm, onEnd>>
    BY <1>2 DEF Interrupt, ReadChannel, TestChannel, CloseChannel, streamVars
  <2> QED
    BY <2>1, OthersSimulate
<1>3. CASE \E s \in Streams : Pcm(s)
  BY <1>3, PcmSimulates
<1>4. CASE UNCHANGED vars
  BY <1>4, OthersSimulate DEF vars, streamVars
<1> QED
  BY <1>1, <1>2, <1>3, <1>4 DEF Next

(* Pipeline implements Stream: one stream at a time, one end report for    *)
(* every stream that began, made before the next one may begin.            *)
THEOREM PipelineImplementsStream == Spec => ImplementsStream
<1>1. ASSUME Inv, Inv', Reported, [Next]_vars
      PROVE  Reported' /\ [StreamSpec!Next]_(StreamSpec!vars)
  BY <1>1, StepSimulates
<1> QED
  BY <1>1, StreamInit, Invariant, PTL DEF Spec, ImplementsStream, StreamSpec!Spec

-----------------------------------------------------------------------------
(***************************************************************************)
(* The types of what the interrupts are about: a channel is that of a      *)
(* launch that has been made, and nobody closes the nil channel.           *)
(***************************************************************************)
ChannelTypes ==
  /\ interruptCh \in 0..launches
  /\ closed \subseteq 1..launches
  /\ held \in [Actors -> 0..launches]
  /\ \A g \in Interrupters : pc[g] \in {"test", "close"} => held[g] # 0
  /\ interrupts \in 0..MaxInterrupts

LEMMA ChannelStep == Inv /\ ChannelTypes /\ [Next]_vars => ChannelTypes'
<1> SUFFICES ASSUME Inv, ChannelTypes, [Next]_vars PROVE ChannelTypes'
  OBVIOUS
<1> USE PipelineAssumption DEF ChannelTypes, Inv, Types, Actors, Goto
<1>1. ASSUME NEW g \in Launchers, Launch(g) PROVE ChannelTypes'
  <2>0. g \notin Interrupters
    BY PipelineAssumption
  <2>1. CASE Refused(g)
    BY <2>1 DEF Refused, vars
  <2>2. CASE Swap(g)
    <3>1. launches' = launches + 1 /\ launches \in Nat
          /\ held' = [held EXCEPT ![g] = launches + 1]
          /\ UNCHANGED <<interruptCh, closed, interrupts>>
      BY <2>2 DEF Swap
    <3>2. held' \in [Actors -> 0..launches']
      BY <3>1
    <3>3. \A h \in Interrupters : pc'[h] = pc[h] /\ held'[h] = held[h]
      BY <2>0, <2>2, <3>1 DEF Swap
    <3> QED
      BY <3>1, <3>2, <3>3
  <2>3. CASE NewChannel(g)
    BY <2>0, <2>3 DEF NewChannel
  <2>4. CASE StartFails(g) \/ StartOk(g)
    BY <2>0, <2>4 DEF StartFails, StartOk
  <2> QED
    BY <1>1, <2>1, <2>2, <2>3, <2>4 DEF Launch
<1>2. ASSUME NEW g \in Interrupters, Interrupt(g) PROVE ChannelTypes'
  <2>1. CASE ReadChannel(g)
    BY <2>1 DEF ReadChannel
  <2>2. CASE TestChannel(g)
    BY <2>2 DEF TestChannel
  <2>3. CASE CloseChannel(g)
    <3>1. /\ pc[g] = "close" /\ pc' = [pc EXCEPT ![g] = "idle"]
          /\ closed' = closed \cup {held[g]}
          /\ UNCHANGED <<interruptCh, launches, held, interrupts>>
      BY <2>3, Zenon DEF CloseChannel
    <3>2. held[g] \in 1..launches
      BY <3>1
    <3> QED
      BY <3>1, <3>2
  <2> QED
    BY <1>2, <2>1, <2>2, <2>3 DEF Interrupt
<1>3. ASSUME NEW s \in Streams, Pcm(s) PROVE ChannelTypes'
  BY <1>3 DEF Pcm, Open, Ticker, ReadFrame, ReadFails, FadeOut, EndInterrupted,
              CloseAudio, Wait, Release
<1>4. CASE UNCHANGED vars
  BY <1>4 DEF vars
<1> QED
  BY <1>1, <1>2, <1>3, <1>4 DEF Next

Flags == panicked \in BOOLEAN /\ heard \in [Streams -> BOOLEAN]

LEMMA FlagsStep == Flags /\ [Next]_vars => Flags'
<1> SUFFICES ASSUME Flags, [Next]_vars PROVE Flags'
  OBVIOUS
<1>1. panicked' \in BOOLEAN
  BY Zenon
  DEF Flags, Next, vars, Launch, Refused, Swap, NewChannel, StartFails, StartOk,
      Interrupt, ReadChannel, TestChannel, CloseChannel, Pcm, Open, Ticker, ReadFrame,
      ReadFails, FadeOut, EndInterrupted, CloseAudio, Wait, Release
<1>2. heard' \in [Streams -> BOOLEAN]
  <2>1. heard' = heard \/ \E s \in Streams : heard' = [heard EXCEPT ![s] = TRUE]
    BY DEF Next, vars, streamVars, Launch, Refused, Swap, NewChannel, StartFails, StartOk,
      Interrupt, ReadChannel, TestChannel, CloseChannel, Pcm, Open, Ticker, ReadFrame,
      ReadFails, FadeOut, EndInterrupted, CloseAudio, Wait, Release
  <2> QED
    BY <2>1 DEF Flags
<1> QED
  BY <1>1, <1>2 DEF Flags

(* Types are kept: in particular an Interrupt never closes the nil channel *)
(* (pipeline.go:116) and never one of a launch that is still to come.      *)
THEOREM Typed == Spec => []TypeOK
<1>1. Init => ChannelTypes
  BY PipelineAssumption DEF Init, ChannelTypes, Actors
<1>2. Init => Flags
  BY ZenonT(60) DEF Init, Flags
<1>3. ASSUME Inv, ChannelTypes, Flags, Reported PROVE TypeOK
  <2>1. {running, panicked} \subseteq BOOLEAN
    BY <1>3, Zenon DEF Inv, Types, Flags
  <2>2. pc \in [Actors -> {"idle", "channel", "start", "test", "close"}]
    BY <1>3 DEF Inv, Types, Actors
  <2> QED
    BY <1>3, <2>1, <2>2
    DEF Inv, Types, PcmSteps, ChannelTypes, Flags, Reported, Results, TypeOK
<1>4. Spec => []Reported
  <2>1. ASSUME Inv, Inv', Reported, [Next]_vars PROVE Reported'
    BY <2>1, StepSimulates
  <2> QED
    BY <2>1, StreamInit, Invariant, PTL DEF Spec
<1> QED
  BY <1>1, <1>2, <1>3, <1>4, ChannelStep, FlagsStep, Invariant, PTL DEF Spec

(* Who is about to close a channel is the only one who may close it.       *)
ClosesOpen ==
  /\ ~panicked
  /\ \A g \in Interrupters : pc[g] = "close" => held[g] \notin closed

(* The panic of a second close needs two goroutines that interrupt at the  *)
(* same time: while all calls of Interrupt come from one goroutine         *)
(* (pipeline.go:112-124; the controls run on gumble's event goroutine, and *)
(* Shutdown on another) the bot never dies of it, however often it is      *)
(* called, and whatever is launched or ends meanwhile.                     *)
THEOREM OneInterrupterIsSafe ==
  ASSUME \A g, h \in Interrupters : g = h
  PROVE  Spec => []NoPanic
<1>1. Init => ClosesOpen
  BY DEF Init, ClosesOpen
<1>2. ClosesOpen /\ Inv /\ [Next]_vars => ClosesOpen'
  <2> SUFFICES ASSUME ClosesOpen, Inv, [Next]_vars PROVE ClosesOpen'
    OBVIOUS
  <2> USE PipelineAssumption DEF ClosesOpen, Inv, Types, Goto
  <2>1. ASSUME NEW g \in Launchers, Launch(g) PROVE ClosesOpen'
    <3>1. /\ UNCHANGED <<closed, panicked>>
          /\ \A h \in Interrupters : pc'[h] = pc[h] /\ held'[h] = held[h]
      <4>1. g \notin Interrupters
        BY PipelineAssumption
      <4>2. CASE Refused(g)
        BY <4>2 DEF Refused, vars
      <4>3. CASE Swap(g) \/ NewChannel(g)
        BY <4>1, <4>3 DEF Swap, NewChannel
      <4>4. CASE StartFails(g) \/ StartOk(g)
        BY <4>1, <4>4 DEF StartFails, StartOk
      <4> QED
        BY <2>1, <4>2, <4>3, <4>4 DEF Launch
    <3> QED
      BY <3>1
  <2>2. ASSUME NEW g \in Interrupters, Interrupt(g) PROVE ClosesOpen'
    <3>1. \A h \in Interrupters : h = g
      OBVIOUS
    <3>2. CASE ReadChannel(g)
      BY <3>1, <3>2 DEF ReadChannel
    <3>3. CASE TestChannel(g)
      BY <3>1, <3>3 DEF TestChannel
    <3>4. CASE CloseChannel(g)
      BY <3>1, <3>4 DEF CloseChannel
    <3> QED
      BY <2>2, <3>2, <3>3, <3>4 DEF Interrupt
  <2>3. ASSUME NEW s \in Streams, Pcm(s) PROVE ClosesOpen'
    BY <2>3 DEF Pcm, Open, Ticker, ReadFrame, ReadFails, FadeOut, EndInterrupted,
                CloseAudio, Wait, Release
  <2>4. CASE UNCHANGED vars
    BY <2>4 DEF vars
  <2> QED
    BY <2>1, <2>2, <2>3, <2>4 DEF Next
<1>3. ClosesOpen => NoPanic
  BY DEF ClosesOpen, NoPanic
<1> QED
  BY <1>1, <1>2, <1>3, Invariant, PTL DEF Spec

-----------------------------------------------------------------------------
(***************************************************************************)
(* The volume: the ceiling, and the volume the user chose.                 *)
(***************************************************************************)
(* What the configuration promises but the code does not check: README.    *)
ConfiguredWithinCeiling == InitialVolumes \subseteq 0..MaxVolume

(* Whatever volume is stored anywhere may be installed later, by Unmute or *)
(* by a new connection, so every one of them has to respect the ceiling.   *)
StoredVolumes ==
  /\ {connected, isMuted} \subseteq BOOLEAN
  /\ {target, real, cfgVolume, prevVol} \subseteq 0..MaxVolume

(* SetTargetVolume cuts off at the ceiling and leaves the rest alone.      *)
LEMMA ClampedRange ==
  ASSUME NEW vol \in Volumes
  PROVE  /\ Clamped(vol) \in 0..MaxVolume
         /\ vol \in 0..MaxVolume => Clamped(vol) = vol
  BY VolumeAssumption DEF Clamped, Volumes

(* Every volume the bot stores is one from silence to 1.0, and the flags   *)
(* are flags, whatever ceiling and volume the configuration has.           *)
THEOREM VolumeTyped == VolumeSpec => []VolumeTypeOK
<1>1. VolumeInit => VolumeTypeOK
  <2> SUFFICES ASSUME VolumeInit PROVE VolumeTypeOK
    OBVIOUS
  <2>1. {connected, isMuted} \subseteq BOOLEAN
    BY Zenon DEF VolumeInit
  <2>2. 0 \in Volumes /\ cfgVolume \in Volumes
    BY VolumeAssumption DEF VolumeInit, Volumes
  <2>3. {target, real, cfgVolume, prevVol} \subseteq Volumes
    BY <2>2 DEF VolumeInit
  <2> QED
    BY <2>1, <2>3, Zenon DEF VolumeTypeOK
<1>2. VolumeTypeOK /\ [VolumeNext]_volumeVars => VolumeTypeOK'
  <2> SUFFICES ASSUME VolumeTypeOK, [VolumeNext]_volumeVars PROVE VolumeTypeOK'
    OBVIOUS
  <2> USE DEF VolumeTypeOK
  <2>a. 0 \in Volumes /\ 0..MaxVolume \subseteq Volumes
    BY VolumeAssumption DEF Volumes
  <2>1. CASE Connect
    BY <2>1 DEF Connect
  <2>2. CASE Mute
    BY <2>2, <2>a DEF Mute
  <2>3. CASE Unmute
    <3>1. Clamped(prevVol) \in Volumes
      BY <2>a, ClampedRange
    <3> QED
      BY <3>1, <2>3 DEF Unmute
  <2>4. CASE Cycle
    BY <2>4 DEF Cycle
  <2>5. ASSUME NEW vol \in Volumes, SetVolume(vol) PROVE VolumeTypeOK'
    <3>1. Clamped(vol) \in Volumes
      BY <2>a, ClampedRange
    <3> QED
      BY <3>1, <2>5 DEF SetVolume
  <2>6. CASE UNCHANGED volumeVars
    BY <2>6 DEF volumeVars
  <2> QED
    BY <2>1, <2>2, <2>3, <2>4, <2>5, <2>6 DEF VolumeNext
<1> QED
  BY <1>1, <1>2, PTL DEF VolumeSpec

(* In every step of every goroutine all stored volumes stay within it.     *)
LEMMA StoredVolumesInv ==
  ASSUME ConfiguredWithinCeiling
  PROVE  VolumeSpec => []StoredVolumes
<1>1. VolumeInit => StoredVolumes
  <2> SUFFICES ASSUME VolumeInit PROVE StoredVolumes
    OBVIOUS
  <2>1. {connected, isMuted} \subseteq BOOLEAN
    BY Zenon DEF VolumeInit
  <2>2. 0 \in 0..MaxVolume /\ cfgVolume \in 0..MaxVolume
    BY VolumeAssumption, ConfiguredWithinCeiling DEF VolumeInit, ConfiguredWithinCeiling
  <2>3. {target, real, cfgVolume, prevVol} \subseteq 0..MaxVolume
    BY <2>2 DEF VolumeInit
  <2> QED
    BY <2>1, <2>3, Zenon DEF StoredVolumes
<1>2. StoredVolumes /\ [VolumeNext]_volumeVars => StoredVolumes'
  <2> SUFFICES ASSUME StoredVolumes, [VolumeNext]_volumeVars PROVE StoredVolumes'
    OBVIOUS
  <2> USE DEF StoredVolumes
  <2>a. 0..MaxVolume \subseteq Volumes
    BY VolumeAssumption DEF Volumes
  <2>1. CASE Connect
    BY <2>1 DEF Connect
  <2>2. CASE Mute
    BY <2>2, VolumeAssumption DEF Mute
  <2>3. CASE Unmute
    <3>1. Clamped(prevVol) \in 0..MaxVolume
      BY <2>a, ClampedRange
    <3> QED
      BY <3>1, <2>3 DEF Unmute
  <2>4. CASE Cycle
    <3>1. real' \in 0..MaxVolume
      BY <2>4, VolumeAssumption DEF Cycle, Volumes
    <3> QED
      BY <3>1, <2>4 DEF Cycle
  <2>5. ASSUME NEW vol \in Volumes, SetVolume(vol) PROVE StoredVolumes'
    <3>1. Clamped(vol) \in 0..MaxVolume
      BY ClampedRange
    <3> QED
      BY <3>1, <2>5 DEF SetVolume
  <2>6. CASE UNCHANGED volumeVars
    BY <2>6 DEF volumeVars
  <2> QED
    BY <2>1, <2>2, <2>3, <2>4, <2>5, <2>6 DEF VolumeNext
<1> QED
  BY <1>1, <1>2, PTL DEF VolumeSpec

(* With a configured volume within the ceiling the bot is never louder     *)
(* than MaxVolume, on any connection, muted or restored.                   *)
THEOREM CeilingHolds ==
  ASSUME ConfiguredWithinCeiling
  PROVE  VolumeSpec => []Ceiling
<1>1. StoredVolumes => Ceiling
  BY VolumeAssumption DEF StoredVolumes, Ceiling
<1> QED
  BY <1>1, StoredVolumesInv, PTL

(* The volume a user chose survives mute, unmute and every reconnection.   *)
(* Unmute clamps what Mute stored, so the ceiling is part of the argument. *)
THEOREM ChosenVolumeSurvives ==
  ASSUME ConfiguredWithinCeiling
  PROVE  VolumeSpec => []ChosenVolumeKept
<1>1. VolumeInit => ChosenVolumeKept
  BY DEF VolumeInit, ChosenVolumeKept
<1>2. StoredVolumes /\ ChosenVolumeKept /\ [VolumeNext]_volumeVars => ChosenVolumeKept'
  <2> SUFFICES ASSUME StoredVolumes, ChosenVolumeKept, [VolumeNext]_volumeVars
               PROVE  ChosenVolumeKept'
    OBVIOUS
  <2> USE DEF ChosenVolumeKept
  <2>1. CASE Connect
    BY <2>1 DEF Connect
  <2>2. CASE Mute
    BY <2>2 DEF Mute
  <2>3. CASE Unmute
    <3>1. Clamped(prevVol) = prevVol
      BY ClampedRange, VolumeAssumption DEF StoredVolumes, Volumes
    <3> QED
      BY <3>1, <2>3 DEF Unmute
  <2>4. CASE Cycle
    BY <2>4 DEF Cycle
  <2>5. ASSUME NEW vol \in Volumes, SetVolume(vol) PROVE ChosenVolumeKept'
    BY <2>5 DEF SetVolume
  <2>6. CASE UNCHANGED volumeVars
    BY <2>6 DEF volumeVars
  <2> QED
    BY <2>1, <2>2, <2>3, <2>4, <2>5, <2>6 DEF VolumeNext
<1> QED
  BY <1>1, <1>2, StoredVolumesInv, PTL DEF VolumeSpec
=============================================================================
