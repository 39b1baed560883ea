------------------------------ MODULE Pipeline ------------------------------
(***************************************************************************)
(* audio.Pipeline (internal/audio/pipeline.go): goroutines that launch,    *)
(* goroutines that interrupt, and one PCM goroutine per stream with its    *)
(* ffmpeg process.  Every atomic operation, lock section and channel       *)
(* operation is a step of its own.                                         *)
(*                                                                         *)
(* A stream is named by the number of its launch; the same number names    *)
(* its interrupt channel.  Number 0 is the nil channel before any launch.  *)
(***************************************************************************)
EXTENDS Integers

CONSTANTS
  Launchers,     \* goroutines that call Launch (the play loop)
  Interrupters,  \* goroutines that call Interrupt (controls, Shutdown)
  MaxLaunches,   \* bound on the number of launches
  MaxInterrupts  \* bound on the number of Interrupt calls

ASSUME PipelineAssumption ==
  /\ MaxLaunches \in Nat /\ MaxInterrupts \in Nat
  /\ Launchers \cap Interrupters = {}

Streams == 1..MaxLaunches

VARIABLES
  running,       \* p.running
  interruptCh,   \* p.interruptCh
  closed,        \* interrupt channels that are closed
  launches,      \* how many launches got past the running check
  pc,            \* step of every launching and interrupting goroutine
  held,          \* held[g]: the stream or channel goroutine g works on
  pcm,           \* pcm[s]: step of the PCM goroutine of stream s
  heard,         \* heard[s]: the first frame of s was read (frameIdx > 0)
  ffmpeg,        \* ffmpeg[s]: "none", "alive" or "dead"
  audio,         \* outgoing gumble audio channels that are open
  onEnd,         \* onEnd[s]: what the callback was told, "none" before
  interrupts,    \* Interrupt calls made
  panicked       \* a goroutine closed a closed channel

vars == <<running, interruptCh, closed, launches, pc, held, pcm, heard,
          ffmpeg, audio, onEnd, interrupts, panicked>>

streamVars == <<pcm, heard, ffmpeg, audio, onEnd>>

Init ==
  /\ running = FALSE
  /\ interruptCh = 0
  /\ closed = {}
  /\ launches = 0
  /\ pc = [g \in Launchers \cup Interrupters |-> "idle"]
  /\ held = [g \in Launchers \cup Interrupters |-> 0]
  /\ pcm = [s \in Streams |-> "none"]
  /\ heard = [s \in Streams |-> FALSE]
  /\ ffmpeg = [s \in Streams |-> "none"]
  /\ audio = {}
  /\ onEnd = [s \in Streams |-> "none"]
  /\ interrupts = 0
  /\ panicked = FALSE

\* A panic in one goroutine ends all of them.
Goto(g, from, to) == ~panicked /\ pc[g] = from /\ pc' = [pc EXCEPT ![g] = to]

-----------------------------------------------------------------------------
(* Launch.                                                                 *)

\* running.Swap(true) found it set: ErrAlreadyRunning.  Nothing changes.
Refused(g) ==
  /\ ~panicked /\ pc[g] = "idle" /\ running
  /\ UNCHANGED vars

Swap(g) ==
  /\ ~running
  /\ launches < MaxLaunches
  /\ Goto(g, "idle", "channel")
  /\ running' = TRUE
  /\ launches' = launches + 1
  /\ held' = [held EXCEPT ![g] = launches + 1]
  /\ UNCHANGED <<interruptCh, closed, streamVars, interrupts, panicked>>

NewChannel(g) ==
  /\ Goto(g, "channel", "start")
  /\ interruptCh' = held[g]
  /\ UNCHANGED <<running, closed, launches, held, streamVars, interrupts, panicked>>

\* StdoutPipe or Start fails.
StartFails(g) ==
  /\ Goto(g, "start", "idle")
  /\ running' = FALSE
  /\ pcm' = [pcm EXCEPT ![held[g]] = "failed"]
  /\ UNCHANGED <<interruptCh, closed, launches, held, heard, ffmpeg, audio,
                 onEnd, interrupts, panicked>>

StartOk(g) ==
  /\ Goto(g, "start", "idle")
  /\ pcm' = [pcm EXCEPT ![held[g]] = "open"]
  /\ ffmpeg' = [ffmpeg EXCEPT ![held[g]] = "alive"]
  /\ UNCHANGED <<running, interruptCh, closed, launches, held, heard, audio,
                 onEnd, interrupts, panicked>>

Launch(g) == Refused(g) \/ Swap(g) \/ NewChannel(g) \/ StartFails(g) \/ StartOk(g)

-----------------------------------------------------------------------------
(* Interrupt: read the channel under p.mu, then test it, then close it.    *)

ReadChannel(g) ==
  /\ interrupts < MaxInterrupts
  /\ interrupts' = interrupts + 1
  /\ Goto(g, "idle", IF interruptCh = 0 THEN "idle" ELSE "test")
  /\ held' = [held EXCEPT ![g] = interruptCh]
  /\ UNCHANGED <<running, interruptCh, closed, launches, streamVars, panicked>>

TestChannel(g) ==
  /\ Goto(g, "test", IF held[g] \in closed THEN "idle" ELSE "close")
  /\ UNCHANGED <<running, interruptCh, closed, launches, held, streamVars,
                 interrupts, panicked>>

\* Closing a closed channel panics, and a panic in any goroutine ends the bot.
CloseChannel(g) ==
  /\ Goto(g, "close", "idle")
  /\ closed' = closed \cup {held[g]}
  /\ panicked' = (panicked \/ held[g] \in closed)
  /\ UNCHANGED <<running, interruptCh, launches, held, streamVars, interrupts>>

Interrupt(g) == ReadChannel(g) \/ TestChannel(g) \/ CloseChannel(g)

-----------------------------------------------------------------------------
(* The PCM goroutine (Pipeline.loop).                                      *)

StreamGoto(s, from, to) ==
  ~panicked /\ pcm[s] = from /\ pcm' = [pcm EXCEPT ![s] = to]

Report(s, result) == onEnd' = [onEnd EXCEPT ![s] = result]

Open(s) ==
  /\ StreamGoto(s, "open", "select")
  /\ audio' = audio \cup {s}
  /\ UNCHANGED <<running, interruptCh, closed, launches, pc, held, heard,
                 ffmpeg, onEnd, interrupts, panicked>>

\* The select takes either ready case: here the ticker.
Ticker(s) ==
  /\ StreamGoto(s, "select", "read")
  /\ UNCHANGED <<running, interruptCh, closed, launches, pc, held, heard,
                 ffmpeg, audio, onEnd, interrupts, panicked>>

\* io.ReadFull returns a frame, which goes out to Mumble.  A track may go on
\* for ever (a radio station).
ReadFrame(s) ==
  /\ ffmpeg[s] = "alive"
  /\ StreamGoto(s, "read", "select")
  /\ heard' = [heard EXCEPT ![s] = TRUE]
  /\ UNCHANGED <<running, interruptCh, closed, launches, pc, held, ffmpeg,
                 audio, onEnd, interrupts, panicked>>

\* No frame: nothing at all was read, the input ended, or the read failed.
ReadFails(s) ==
  /\ StreamGoto(s, "read", "close")
  /\ \E r \in IF heard[s] THEN {"clean", "readError"} ELSE {"noAudio"} :
       Report(s, r)
  /\ UNCHANGED <<running, interruptCh, closed, launches, pc, held, heard,
                 ffmpeg, audio, interrupts, panicked>>

\* Mutant of FadeOut: the interrupt is only looked at before the first frame.
FadeOutAtStart(s) ==
  /\ s \in closed /\ ~heard[s]
  /\ StreamGoto(s, "select", "faded")
  /\ ffmpeg' = [ffmpeg EXCEPT ![s] = "dead"]
  /\ UNCHANGED <<running, interruptCh, closed, launches, pc, held, heard,
                 audio, onEnd, interrupts, panicked>>

\* Interrupted: fade out, kill ffmpeg, close stdout.
FadeOut(s) ==
  /\ s \in closed
  /\ StreamGoto(s, "select", "faded")
  /\ ffmpeg' = [ffmpeg EXCEPT ![s] = "dead"]
  /\ UNCHANGED <<running, interruptCh, closed, launches, pc, held, heard,
                 audio, onEnd, interrupts, panicked>>

\* Mutant of EndInterrupted: an interrupted stream does not call onEnd.
EndInterruptedSilently(s) ==
  /\ StreamGoto(s, "faded", "close")
  /\ UNCHANGED <<running, interruptCh, closed, launches, pc, held, heard,
                 ffmpeg, audio, onEnd, interrupts, panicked>>

EndInterrupted(s) ==
  /\ StreamGoto(s, "faded", "close")
  /\ Report(s, "clean")
  /\ UNCHANGED <<running, interruptCh, closed, launches, pc, held, heard,
                 ffmpeg, audio, interrupts, panicked>>

\* Mutant of CloseAudio: ffmpeg is not waited for.
CloseAudioUnwaited(s) ==
  /\ StreamGoto(s, "close", "release")
  /\ audio' = audio \ {s}
  /\ UNCHANGED <<running, interruptCh, closed, launches, pc, held, heard,
                 ffmpeg, onEnd, interrupts, panicked>>

\* The deferred calls, in order: close(audioCh); stdout.Close and cmd.Wait
\* (ffmpeg loses its output and exits); running.Store(false).
CloseAudio(s) ==
  /\ StreamGoto(s, "close", "wait")
  /\ audio' = audio \ {s}
  /\ UNCHANGED <<running, interruptCh, closed, launches, pc, held, heard,
                 ffmpeg, onEnd, interrupts, panicked>>

Wait(s) ==
  /\ StreamGoto(s, "wait", "release")
  /\ ffmpeg' = [ffmpeg EXCEPT ![s] = "dead"]
  /\ UNCHANGED <<running, interruptCh, closed, launches, pc, held, heard,
                 audio, onEnd, interrupts, panicked>>

Release(s) ==
  /\ StreamGoto(s, "release", "gone")
  /\ running' = FALSE
  /\ UNCHANGED <<interruptCh, closed, launches, pc, held, heard, ffmpeg,
                 audio, onEnd, interrupts, panicked>>

Pcm(s) ==
  \/ Open(s) \/ Ticker(s) \/ ReadFrame(s) \/ ReadFails(s) \/ FadeOut(s)
  \/ EndInterrupted(s) \/ CloseAudio(s) \/ Wait(s) \/ Release(s)

Next ==
  \/ \E g \in Launchers : Launch(g)
  \/ \E g \in Interrupters : Interrupt(g)
  \/ \E s \in Streams : Pcm(s)

Spec == Init /\ [][Next]_vars

(* A goroutine that was started runs on: a launch to its end, an Interrupt *)
(* to its close, the PCM goroutine through its steps (ffmpeg delivers the  *)
(* next frame or ends, it does not stall for ever).  When both cases of    *)
(* the select are ready Go picks one at random, so a closed interrupt      *)
(* channel is seen after finitely many frames: strong fairness of FadeOut. *)
(* Nobody has to launch or to interrupt anything.                          *)
Fairness ==
  /\ \A g \in Launchers : WF_vars(NewChannel(g)) /\ WF_vars(StartFails(g) \/ StartOk(g))
  /\ \A g \in Interrupters : WF_vars(TestChannel(g)) /\ WF_vars(CloseChannel(g))
  /\ \A s \in Streams : WF_vars(Pcm(s)) /\ SF_vars(FadeOut(s))

FairSpec == Spec /\ Fairness

-----------------------------------------------------------------------------
Actors == Launchers \cup Interrupters

TypeOK ==
  /\ {running, panicked} \subseteq BOOLEAN
  /\ interruptCh \in 0..launches
  /\ closed \subseteq 1..launches
  /\ launches \in 0..MaxLaunches
  /\ pc \in [Actors -> {"idle", "channel", "start", "test", "close"}]
  /\ held \in [Actors -> 0..launches]
  /\ pcm \in [Streams -> {"none", "failed", "open", "select", "read", "faded",
                          "close", "wait", "release", "gone"}]
  /\ heard \in [Streams -> BOOLEAN]
  /\ ffmpeg \in [Streams -> {"none", "alive", "dead"}]
  /\ audio \subseteq Streams
  /\ onEnd \in [Streams -> {"none", "clean", "noAudio", "readError"}]
  /\ interrupts \in 0..MaxInterrupts

(* Whoever finds running cleared may launch: nothing of an earlier stream  *)
(* is left by then, no ffmpeg process, no open gumble audio channel.  So   *)
(* two tracks are never mixed and no process outlives its track.           *)
NothingLeftBehind ==
  /\ ~running => audio = {} /\ \A s \in Streams : ffmpeg[s] # "alive"
  /\ \A s, t \in audio : s = t
  /\ \A s, t \in Streams : ffmpeg[s] = "alive" /\ ffmpeg[t] = "alive" => s = t

(* Pipeline implements Stream: one stream at a time, one end report for    *)
(* every launch that succeeded, none for a launch that failed or was       *)
(* refused, and no new stream before the old one has reported.             *)
Abstract(s) ==
  CASE pcm[s] = "none"   -> "unborn"
    [] pcm[s] = "failed" -> "failed"
    [] pcm[s] = "gone"   -> "gone"
    [] OTHER             -> IF onEnd[s] = "none" THEN "live" ELSE "ended"

StreamSpec == INSTANCE Stream WITH
                phase <- [s \in Streams |-> Abstract(s)], report <- onEnd

ImplementsStream == StreamSpec!Spec

(* A stream whose interrupt channel is closed ends and frees the pipeline, *)
(* also one that would otherwise play for ever, unless the bot ends first, *)
(* by the panic of CloseChannel.                                           *)
InterruptedStreamEnds ==
  \A s \in Streams :
    (s \in closed /\ pcm[s] \notin {"none", "failed"}) ~> (pcm[s] = "gone" \/ panicked)

-----------------------------------------------------------------------------
(* pipeline.go:110: Interrupt is "safe to call from any goroutine".  It    *)
(* tests and closes the channel in two steps, without a lock.              *)
NoPanic == ~panicked

(* pipeline.go:110-111: Interrupt stops the stream and is a "No-op if the  *)
(* pipeline is not running", so while it runs the channel read is that of  *)
(* the launch that set running.                                            *)
InterruptReachesStream ==
  [][\A g \in Interrupters : ReadChannel(g) /\ running => interruptCh = launches]_vars
=============================================================================
