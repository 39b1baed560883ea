----------------------------- MODULE Reconnect -----------------------------
(***************************************************************************)
(* Playback across reconnections: the play loops and the pipelines of all  *)
(* connections beside one another, over one queue, one wake-up channel and *)
(* one failure streak (internal/bot/loop.go, failguard.go, connect.go).    *)
(* The Connect handler replaces the pipeline without interrupting the old  *)
(* one, whose track plays on and then moves the queue; a cancelled loop    *)
(* may take a wake-up instead of its end.                                  *)
(*                                                                         *)
(* The connection is Link, a pipeline is Stream: Launch either finds it    *)
(* running or starts a stream, in one step.  User controls other than      *)
(* Enqueue belong to PlayLoop and are left out, so that neither playEpoch  *)
(* nor launchVersion changes here.                                         *)
(***************************************************************************)
EXTENDS QueueOps

CONSTANTS
  MaxItems,        \* bound on the number of items enqueued
  Bad,             \* items that never play
  Resolvers,       \* items that implement audio.Resolver
  StartModes,      \* what [bot] playback_mode may be
  MaxConnections   \* bound on the number of connections

Items == 1..MaxItems

ASSUME ReconnectAssumption ==
  /\ {MaxItems, MaxConnections} \subseteq Nat
  /\ Bad \subseteq Items /\ Resolvers \subseteq Items
  /\ StartModes \subseteq Modes /\ NoItem \notin Items

VARIABLES
  audio, link, loop,  \* see Link
  q,                  \* the queue
  enqueued,           \* number of items enqueued so far
  failed,             \* the failure streak
  wake,               \* wakeCh holds a token
  at,                 \* at[a]: place of a loop or of a PCM goroutine
  pipe,               \* pipe[c]: local variable pipeline of loop c, 0 outside a turn
  snap,               \* snap[a]: the snapshot that a will judge by
  fresh               \* fresh[a]: queue.version is still the one in snap[a]

linkVars == <<audio, link, loop>>
vars == <<linkVars, q, enqueued, failed, wake, at, pipe, snap, fresh>>

L == INSTANCE Link

Connections == L!Connections
Agents == {"loop", "pcm"} \X Connections
Loop(c) == <<"loop", c>>
Pcm(p)  == <<"pcm", p>>

NoSnapshot == [items |-> <<>>, cur |-> 0]

\* The item an agent works on.
Item(a) == IF snap[a].cur < Len(snap[a].items) THEN snap[a].items[snap[a].cur + 1]
                                               ELSE NoItem

Running(p) == at[Pcm(p)] # "none"

\* New starts in the configured mode (startupMode, bot.go).
Init ==
  /\ L!Init
  /\ q \in {[EmptyQueue EXCEPT !.mode = m] : m \in StartModes}
  /\ enqueued = 0 /\ failed = {} /\ wake = FALSE
  /\ at = [a \in Agents |-> "none"]
  /\ pipe = [c \in Connections |-> 0]
  /\ snap = [a \in Agents |-> NoSnapshot]
  /\ fresh = [a \in Agents |-> FALSE]

Goto(a, from, to) == at[a] = from /\ at' = [at EXCEPT ![a] = to]

\* A method that bumps the version leaves one of these queues behind.
Mutate(queues) == q' \in queues /\ fresh' = [a \in Agents |-> FALSE]

\* The goroutine forgets its snapshot.
Drop(a) ==
  /\ snap' = [snap EXCEPT ![a] = NoSnapshot]
  /\ fresh' = [fresh EXCEPT ![a] = FALSE]

Leave(c) == pipe' = [pipe EXCEPT ![c] = 0]

-----------------------------------------------------------------------------
(* A turn of the loop of connection c.                                     *)

Tick(c) ==
  /\ Goto(Loop(c), "select", "look") /\ loop[c] = "running"
  /\ UNCHANGED <<linkVars, q, enqueued, failed, wake, pipe, snap, fresh>>

\* Go takes any ready case: the wake-up, or the end of a cancelled loop.
Woken(c) ==
  /\ Goto(Loop(c), "select", "look") /\ wake
  /\ wake' = FALSE
  /\ UNCHANGED <<linkVars, q, enqueued, failed, pipe, snap, fresh>>

SeeDone(c) ==
  /\ Goto(Loop(c), "select", "none")
  /\ L!End(c)
  /\ UNCHANGED <<q, enqueued, failed, wake, pipe, snap, fresh>>

\* Mutant of Look: the Connect handler sets b.audio only once.
LookAtFirst(c) ==
  /\ Goto(Loop(c), "look", IF Running(1) THEN "select" ELSE "pick")
  /\ pipe' = IF Running(1) THEN pipe ELSE [pipe EXCEPT ![c] = 1]
  /\ UNCHANGED <<linkVars, q, enqueued, failed, wake, snap, fresh>>

\* b.audio is the newest pipeline, whichever connection the loop belongs to.
Look(c) ==
  /\ Goto(Loop(c), "look", IF Running(audio) THEN "select" ELSE "pick")
  /\ pipe' = IF Running(audio) THEN pipe ELSE [pipe EXCEPT ![c] = audio]
  /\ UNCHANGED <<linkVars, q, enqueued, failed, wake, snap, fresh>>

Pick(c) ==
  /\ Goto(Loop(c), "pick", IF Idle(q) THEN "calm"
                           ELSE IF Current(q) \in Resolvers THEN "resolve"
                           ELSE "launch")
  /\ IF Idle(q) THEN UNCHANGED <<snap, fresh>>
     ELSE /\ snap' = [snap EXCEPT ![Loop(c)] = [items |-> q.items, cur |-> q.cur]]
          /\ fresh' = [fresh EXCEPT ![Loop(c)] = TRUE]
  /\ UNCHANGED <<linkVars, q, enqueued, failed, wake, pipe>>

Calm(c) ==
  /\ Goto(Loop(c), "calm", "select")
  /\ failed' = {}
  /\ Leave(c)
  /\ UNCHANGED <<linkVars, q, enqueued, wake, snap, fresh>>

\* resolveItem while the item is still current.  The context of the resolver
\* derives from that of the loop: losing the connection makes it fail.
Resolve(c) ==
  /\ Current(q) = Item(Loop(c))
  /\ \/ Item(Loop(c)) \notin Bad /\ Goto(Loop(c), "resolve", "launch")
     \/ /\ Item(Loop(c)) \in Bad \/ loop[c] = "cancelled"
        /\ Goto(Loop(c), "resolve", "fail")
  /\ UNCHANGED <<linkVars, q, enqueued, failed, wake, pipe, snap, fresh>>

Stale(c) ==
  /\ Current(q) # Item(Loop(c))
  /\ Goto(Loop(c), "resolve", "select")
  /\ wake' = TRUE
  /\ Drop(Loop(c)) /\ Leave(c)
  /\ UNCHANGED <<linkVars, q, enqueued, failed>>

\* The stream takes the snapshot along, for its callback.
Launch(c) ==
  LET p == pipe[c]
  IN  /\ at[Loop(c)] = "launch" /\ ~Running(p)
      /\ at' = [at EXCEPT ![Loop(c)] = "select", ![Pcm(p)] = "play"]
      /\ snap' = [snap EXCEPT ![Pcm(p)] = snap[Loop(c)], ![Loop(c)] = NoSnapshot]
      /\ fresh' = [fresh EXCEPT ![Pcm(p)] = fresh[Loop(c)], ![Loop(c)] = FALSE]
      /\ Leave(c)
      /\ UNCHANGED <<linkVars, q, enqueued, failed, wake>>

\* ErrAlreadyRunning: another loop was faster.
LaunchRefused(c) ==
  /\ Goto(Loop(c), "launch", "fail")
  /\ Running(pipe[c])
  /\ UNCHANGED <<linkVars, q, enqueued, failed, wake, pipe, snap, fresh>>

-----------------------------------------------------------------------------
(* trackFailed, run by a loop or by a PCM goroutine, and onTrackEnd.       *)

\* The call returns: to the select of the loop, or to the deferred cleanup.
Returns(a, from) ==
  /\ Goto(a, from, IF a[1] = "loop" THEN "select" ELSE "exit")
  /\ wake' = TRUE
  /\ pipe' = IF a[1] = "loop" THEN [pipe EXCEPT ![a[2]] = 0] ELSE pipe
  /\ snap' = [snap EXCEPT ![a] = NoSnapshot]

RecordFailure(a) ==
  /\ Goto(a, "fail", "judge")
  /\ failed' = failed \cup {Item(a)}
  /\ UNCHANGED <<linkVars, q, enqueued, wake, pipe, snap, fresh>>

Judge(a) ==
  /\ Goto(a, "judge", IF ToSet(snap[a].items) \subseteq failed THEN "giveUp" ELSE "moveOn")
  /\ UNCHANGED <<linkVars, q, enqueued, failed, wake, pipe, snap, fresh>>

\* FinishIfUnchanged(snap.Version)
GiveUp(a) ==
  /\ fresh[a]
  /\ Goto(a, "giveUp", "forgive")
  /\ Mutate({Finished(q)})
  /\ UNCHANGED <<linkVars, enqueued, failed, wake, pipe, snap>>

KeepGoing(a) ==
  /\ ~fresh[a]
  /\ Returns(a, "giveUp")
  /\ UNCHANGED <<linkVars, q, enqueued, failed, fresh>>

Forgive(a) ==
  /\ Returns(a, "forgive")
  /\ failed' = {}
  /\ fresh' = [fresh EXCEPT ![a] = FALSE]
  /\ UNCHANGED <<linkVars, q, enqueued>>

\* Mutant of MoveOn: Next without the version check.
MoveOnRegardless(a) ==
  /\ Returns(a, "moveOn")
  /\ Mutate(Advanced(q))
  /\ UNCHANGED <<linkVars, enqueued, failed>>

\* NextIfUnchanged(snap.Version)
MoveOn(a) ==
  /\ Returns(a, "moveOn")
  /\ IF fresh[a] THEN Mutate(Advanced(q)) ELSE UNCHANGED <<q, fresh>>
  /\ UNCHANGED <<linkVars, enqueued, failed>>

TrackFailed(a) ==
  RecordFailure(a) \/ Judge(a) \/ GiveUp(a) \/ KeepGoing(a) \/ Forgive(a) \/ MoveOn(a)

\* A stream ends by itself, also that of a connection that is long gone.
PlayEnds(p) ==
  /\ Goto(Pcm(p), "play", IF Item(Pcm(p)) \in Bad THEN "fail" ELSE "reset")
  /\ UNCHANGED <<linkVars, q, enqueued, failed, wake, pipe, snap, fresh>>

EndStreak(p) ==
  /\ Goto(Pcm(p), "reset", "advance")
  /\ failed' = {}
  /\ UNCHANGED <<linkVars, q, enqueued, wake, pipe, snap, fresh>>

\* queue.Next(), whatever the queue has become.
EndAdvance(p) ==
  /\ Returns(Pcm(p), "advance")
  /\ Mutate(Advanced(q))
  /\ UNCHANGED <<linkVars, enqueued, failed>>

\* Mutant of PcmExit: running is left set.
PcmExitStaysRunning(p) ==
  /\ Goto(Pcm(p), "exit", "exit")
  /\ UNCHANGED <<linkVars, q, enqueued, failed, wake, pipe, snap, fresh>>

PcmExit(p) ==
  /\ Goto(Pcm(p), "exit", "none")
  /\ UNCHANGED <<linkVars, q, enqueued, failed, wake, pipe, snap, fresh>>

-----------------------------------------------------------------------------
LoopStep(c) ==
  \/ Tick(c) \/ Woken(c) \/ Look(c) \/ Pick(c) \/ Calm(c) \/ Resolve(c) \/ Stale(c)
  \/ Launch(c) \/ LaunchRefused(c) \/ TrackFailed(Loop(c))

PcmStep(p) ==
  PlayEnds(p) \/ EndStreak(p) \/ EndAdvance(p) \/ TrackFailed(Pcm(p)) \/ PcmExit(p)

\* Commands arrive over the connection; a job of an earlier one may enqueue
\* while there is none.
Enqueue ==
  /\ audio > 0 /\ enqueued < MaxItems
  /\ enqueued' = enqueued + 1
  /\ Mutate(Appended(q, enqueued + 1))
  /\ wake' = TRUE
  /\ UNCHANGED <<linkVars, failed, at, pipe, snap>>

Connect ==
  /\ L!Install
  /\ UNCHANGED <<q, enqueued, failed, wake, at, pipe, snap, fresh>>

StartLoop ==
  /\ L!Start
  /\ at' = [at EXCEPT ![Loop(audio)] = "select"]
  /\ UNCHANGED <<q, enqueued, failed, wake, pipe, snap, fresh>>

Disconnect ==
  /\ L!Stop
  /\ UNCHANGED <<q, enqueued, failed, wake, at, pipe, snap, fresh>>

Next ==
  \/ \E c \in Connections : LoopStep(c) \/ SeeDone(c) \/ PcmStep(c)
  \/ Connect \/ StartLoop \/ Disconnect \/ Enqueue

Spec == Init /\ [][Next]_vars

(* The loops run on, and every stream comes to an end.  A cancelled loop   *)
(* that is back at its select again and again takes the case of its        *)
(* context at last (Go picks a ready case at random): strong fairness.     *)
(* Nothing has to connect, be lost or be enqueued.                         *)
Fairness ==
  \A c \in Connections :
    WF_vars(LoopStep(c)) /\ SF_vars(SeeDone(c)) /\ WF_vars(PcmStep(c))

FairSpec == Spec /\ Fairness

-----------------------------------------------------------------------------
Places == {"none", "select", "look", "pick", "calm", "resolve", "launch", "fail",
           "judge", "giveUp", "forgive", "moveOn", "play", "reset", "advance", "exit"}

TypeOK ==
  /\ audio \in 0..MaxConnections /\ link \in {"down", "installed", "up"}
  /\ loop \in [Connections -> {"none", "running", "cancelled", "ended"}]
  /\ q \in QueueOver(Items)
  /\ enqueued \in 0..MaxItems /\ failed \subseteq Items /\ wake \in BOOLEAN
  /\ at \in [Agents -> Places]
  /\ pipe \in [Connections -> 0..MaxConnections]
  /\ snap \in [Agents -> [items : Seq(Items), cur : Nat]]
  /\ fresh \in [Agents -> BOOLEAN]

(* However many loops and streams of old and new connections there are: a  *)
(* failure moves the queue only off the track that failed, and only if     *)
(* nobody else has moved it since that track was picked (loop.go:104-107). *)
FailureMovesOnlyFailedTrack ==
  [][\A a \in Agents :
       (GiveUp(a) \/ (MoveOn(a) /\ q' # q))
         => Current(q) = Item(a) /\ q.items = snap[a].items]_vars

(* What a lost connection leaves behind comes to an end: its loop, however *)
(* often that takes a wake-up first, and its stream, also one that a       *)
(* cancelled loop has launched since.                                      *)
LostConnectionFades ==
  \A c \in Connections :
    (loop[c] = "cancelled") ~> (loop[c] = "ended" /\ ~Running(c))

(* Playback resumes: while a connection lasts and something is current the *)
(* tracks are attempted on its own pipeline, whatever the loops and the    *)
(* streams of earlier connections still do.                                *)
Attempting ==
  \E c \in Connections :
    c = audio /\ ((at[Loop(c)] = "resolve" /\ pipe[c] = c) \/ at[Pcm(c)] = "play")

PlaybackResumes == <>[](link = "up") => []<>(Idle(q) \/ Attempting)

-----------------------------------------------------------------------------
(* failguard.go:9-10: "The play loop gives up only when every entry        *)
(* currently in the queue is in that set, i.e. a full pass produced        *)
(* nothing playable."                                                      *)
GiveUpOnlyUnplayable ==
  [][\A a \in Agents : GiveUp(a) => ToSet(q.items) \subseteq Bad]_vars

(* A track that has ended moves the queue off itself, not off a track that *)
(* another connection is playing.                                          *)
TrackEndMovesOwnItem ==
  [][\A p \in Connections : EndAdvance(p) => Current(q) = Item(Pcm(p))]_vars
=============================================================================
