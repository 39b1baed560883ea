--------------------------- MODULE ReconnectProofs ---------------------------
(***************************************************************************)
(* Proofs about Reconnect, for any number of connections and items and     *)
(* whichever items are bad or resolvers: however the loops and the streams *)
(* of old and new connections interleave, a failure moves the queue only   *)
(* off the track that failed, and what a lost connection has left behind   *)
(* is gone for good once it has ended.                                     *)
(***************************************************************************)
EXTENDS Reconnect, QueueOpsProofs

(***************************************************************************)
(* What an agent believes to be fresh is the queue: the inductive heart of *)
(* the module, with the types it needs.                                    *)
(***************************************************************************)
Snapshots == [items : Seq(Items), cur : Nat]

QueueType ==
  /\ q \in QueueOver(Items)
  /\ enqueued \in 0..MaxItems
  /\ snap \in [Agents -> Snapshots]
  /\ fresh \in [Agents -> BOOLEAN]

FreshIsQueue ==
  \A a \in Agents : fresh[a] => snap[a].items = q.items /\ snap[a].cur = q.cur

QueueInv == QueueType /\ FreshIsQueue

LEMMA NoSnapshotType == NoSnapshot \in Snapshots
BY EmptySeq DEF NoSnapshot, Snapshots

LEMMA QueueInvInit == Init => QueueInv
<1> SUFFICES ASSUME Init PROVE QueueInv
  OBVIOUS
<1>1. <<>> \in Seq(Items) /\ 0 \in 0..Len(<<>>)
  BY EmptySeq
<1>2. PICK m \in StartModes : q = [EmptyQueue EXCEPT !.mode = m]
  BY DEF Init
<1>3. q = [items |-> <<>>, cur |-> 0, mode |-> m] /\ m \in Modes
  BY <1>2, ReconnectAssumption DEF EmptyQueue
<1>4. q \in QueueOver(Items)
  BY <1>1, <1>3, QueueBuild
<1>5. snap \in [Agents -> Snapshots]
  BY NoSnapshotType DEF Init
<1>6. fresh \in [Agents -> BOOLEAN] /\ \A a \in Agents : ~fresh[a]
  BY Zenon DEF Init
<1> QED
  BY <1>4, <1>5, <1>6, ReconnectAssumption DEF Init, QueueInv, QueueType, FreshIsQueue

(* A step that moves the queue leaves nobody with a fresh snapshot.        *)
LEMMA MutationKeepsInv ==
  ASSUME QueueInv, q' \in QueueOver(Items), fresh' = [a \in Agents |-> FALSE],
         enqueued' \in 0..MaxItems, snap' \in [Agents -> Snapshots]
  PROVE  QueueInv'
<1>1. fresh' \in [Agents -> BOOLEAN] /\ \A a \in Agents : ~fresh'[a]
  BY Zenon
<1> QED
  BY <1>1 DEF QueueInv, QueueType, FreshIsQueue

(* A goroutine that forgets its snapshot.                                  *)
LEMMA DropKeepsInv ==
  ASSUME QueueInv, NEW b \in Agents, UNCHANGED <<q, enqueued>>,
         snap' = [snap EXCEPT ![b] = NoSnapshot],
         fresh' = [fresh EXCEPT ![b] = FALSE]
  PROVE  QueueInv'
<1>1. snap' \in [Agents -> Snapshots]
  BY NoSnapshotType DEF QueueInv, QueueType
<1>2. fresh' \in [Agents -> BOOLEAN]
  BY DEF QueueInv, QueueType
<1>3. FreshIsQueue'
  <2> SUFFICES ASSUME NEW a \in Agents, fresh'[a]
               PROVE  snap'[a].items = q.items /\ snap'[a].cur = q.cur
    BY DEF FreshIsQueue
  <2>1. a # b
    BY DEF QueueInv, QueueType
  <2> QED
    BY <2>1 DEF QueueInv, QueueType, FreshIsQueue
<1> QED
  BY <1>1, <1>2, <1>3 DEF QueueInv, QueueType

LEMMA PickKeepsInv ==
  ASSUME QueueInv, NEW c \in Connections, Pick(c)
  PROVE  QueueInv'
<1> DEFINE a == Loop(c)
           s == [items |-> q.items, cur |-> q.cur]
<1>1. CASE Idle(q)
  BY <1>1 DEF Pick, QueueInv, QueueType, FreshIsQueue
<1>2. CASE ~Idle(q)
  <2>1. /\ snap' = [snap EXCEPT ![a] = s] /\ fresh' = [fresh EXCEPT ![a] = TRUE]
        /\ UNCHANGED <<q, enqueued>>
    BY <1>2 DEF Pick
  <2>2. s \in Snapshots /\ s.items = q.items /\ s.cur = q.cur
    BY QueueParts DEF QueueInv, QueueType, Snapshots
  <2>3. a \in Agents
    BY DEF Agents, Loop
  <2> HIDE DEF a, s
  <2>4. snap' \in [Agents -> Snapshots] /\ fresh' \in [Agents -> BOOLEAN]
    BY <2>1, <2>2 DEF QueueInv, QueueType
  <2>5. FreshIsQueue'
    BY <2>1, <2>2, <2>3 DEF QueueInv, QueueType, FreshIsQueue
  <2> QED
    BY <2>1, <2>4, <2>5 DEF QueueInv, QueueType
<1> QED
  BY <1>1, <1>2

(* The stream inherits the snapshot of its loop, and how fresh it is.      *)
LEMMA LaunchKeepsInv ==
  ASSUME QueueInv, NEW c \in Connections, Launch(c)
  PROVE  QueueInv'
<1> DEFINE a == Loop(c)
           b == Pcm(pipe[c])
<1>1. /\ snap' = [snap EXCEPT ![b] = snap[a], ![a] = NoSnapshot]
      /\ fresh' = [fresh EXCEPT ![b] = fresh[a], ![a] = FALSE]
      /\ UNCHANGED <<q, enqueued>>
  BY DEF Launch
<1>2. a \in Agents
  BY DEF Agents, Loop
<1> HIDE DEF a, b
<1>3. snap' \in [Agents -> Snapshots] /\ fresh' \in [Agents -> BOOLEAN]
  BY <1>1, <1>2, NoSnapshotType DEF QueueInv, QueueType
<1>4. FreshIsQueue'
  <2> SUFFICES ASSUME NEW x \in Agents, fresh'[x]
               PROVE  snap'[x].items = q.items /\ snap'[x].cur = q.cur
    BY <1>1 DEF FreshIsQueue
  <2>1. x # a
    BY <1>1, <1>2 DEF QueueInv, QueueType
  <2>2. fresh'[x] = (IF x = b THEN fresh[a] ELSE fresh[x])
        /\ snap'[x] = (IF x = b THEN snap[a] ELSE snap[x])
    BY <1>1, <2>1 DEF QueueInv, QueueType
  <2> QED
    BY <1>2, <2>2 DEF QueueInv, FreshIsQueue
<1> QED
  BY <1>1, <1>3, <1>4 DEF QueueInv, QueueType

LEMMA TrackFailedKeepsInv ==
  ASSUME QueueInv, NEW a \in Agents, TrackFailed(a)
  PROVE  QueueInv'
<1>a. snap' \in [Agents -> Snapshots]
  BY NoSnapshotType
  DEF TrackFailed, RecordFailure, Judge, GiveUp, KeepGoing, Forgive, MoveOn, Returns,
      QueueInv, QueueType
<1>1. CASE RecordFailure(a) \/ Judge(a)
  BY <1>1 DEF RecordFailure, Judge, QueueInv, QueueType, FreshIsQueue
<1>2. CASE GiveUp(a)
  <2>1. q' \in QueueOver(Items)
    BY <1>2, MovedType DEF GiveUp, Mutate, QueueInv, QueueType
  <2> QED
    BY <1>2, <1>a, <2>1, MutationKeepsInv DEF GiveUp, Mutate, QueueInv, QueueType
<1>3. CASE KeepGoing(a) \/ (MoveOn(a) /\ ~fresh[a])
  BY <1>3, <1>a DEF KeepGoing, MoveOn, Returns, QueueInv, QueueType, FreshIsQueue
<1>4. CASE Forgive(a)
  BY <1>4, DropKeepsInv DEF Forgive, Returns
<1>5. CASE MoveOn(a) /\ fresh[a]
  <2>1. q' \in QueueOver(Items)
    BY <1>5, AdvancedType DEF MoveOn, Mutate, QueueInv, QueueType
  <2> QED
    BY <1>5, <1>a, <2>1, MutationKeepsInv DEF MoveOn, Mutate, QueueInv, QueueType
<1> QED
  BY <1>1, <1>2, <1>3, <1>4, <1>5 DEF TrackFailed

LEMMA LoopKeepsInv ==
  ASSUME QueueInv, NEW c \in Connections, LoopStep(c) \/ SeeDone(c)
  PROVE  QueueInv'
<1>a. Loop(c) \in Agents
  BY DEF Agents, Loop
<1>1. CASE Tick(c) \/ Woken(c) \/ SeeDone(c) \/ Look(c) \/ Calm(c)
  BY <1>1 DEF Tick, Woken, SeeDone, Look, Calm, QueueInv, QueueType, FreshIsQueue
<1>2. CASE Resolve(c) \/ LaunchRefused(c)
  BY <1>2 DEF Resolve, LaunchRefused, QueueInv, QueueType, FreshIsQueue
<1>3. CASE Pick(c)
  BY <1>3, PickKeepsInv
<1>4. CASE Stale(c)
  BY <1>a, <1>4, DropKeepsInv DEF Stale, Drop
<1>5. CASE Launch(c)
  BY <1>5, LaunchKeepsInv
<1>6. CASE TrackFailed(Loop(c))
  BY <1>a, <1>6, TrackFailedKeepsInv
<1> QED
  BY <1>1, <1>2, <1>3, <1>4, <1>5, <1>6 DEF LoopStep

LEMMA PcmKeepsInv ==
  ASSUME QueueInv, NEW p \in Connections, PcmStep(p)
  PROVE  QueueInv'
<1>a. Pcm(p) \in Agents
  BY DEF Agents, Pcm
<1>1. CASE PlayEnds(p) \/ EndStreak(p) \/ PcmExit(p)
  BY <1>1 DEF PlayEnds, EndStreak, PcmExit, QueueInv, QueueType, FreshIsQueue
<1>2. CASE EndAdvance(p)
  <2>1. q' \in QueueOver(Items)
    BY <1>2, AdvancedType DEF EndAdvance, Mutate, QueueInv, QueueType
  <2>2. snap' \in [Agents -> Snapshots]
    BY <1>2, NoSnapshotType DEF EndAdvance, Returns, QueueInv, QueueType
  <2> QED
    BY <1>2, <2>1, <2>2, MutationKeepsInv DEF EndAdvance, Mutate, QueueInv, QueueType
<1>3. CASE TrackFailed(Pcm(p))
  BY <1>a, <1>3, TrackFailedKeepsInv
<1> QED
  BY <1>1, <1>2, <1>3 DEF PcmStep

LEMMA OthersKeepInv ==
  ASSUME QueueInv, Connect \/ StartLoop \/ Disconnect \/ Enqueue \/ UNCHANGED vars
  PROVE  QueueInv'
<1>1. CASE Connect \/ StartLoop \/ Disconnect \/ UNCHANGED vars
  BY <1>1 DEF Connect, StartLoop, Disconnect, vars, QueueInv, QueueType, FreshIsQueue
<1>2. CASE Enqueue
  <2>1. enqueued + 1 \in Items /\ enqueued' \in 0..MaxItems
    BY <1>2, ReconnectAssumption DEF Enqueue, QueueInv, QueueType, Items
  <2>2. q' \in QueueOver(Items)
    BY <1>2, <2>1, AppendedType DEF Enqueue, QueueInv, QueueType, Mutate
  <2> QED
    BY <1>2, <2>1, <2>2, MutationKeepsInv DEF Enqueue, Mutate, QueueInv, QueueType
<1> QED
  BY <1>1, <1>2

LEMMA QueueInvariant == Spec => []QueueInv
<1>1. QueueInv /\ [Next]_vars => QueueInv'
  BY LoopKeepsInv, PcmKeepsInv, OthersKeepInv DEF Next
<1> QED
  BY <1>1, QueueInvInit, PTL DEF Spec

(* A failed track is passed over, or the queue given up, only while that   *)
(* track is current and the queue is the one it was picked from, whichever *)
(* connection it failed on (loop.go:104-107).                              *)
THEOREM FailureMovesSafely == Spec => FailureMovesOnlyFailedTrack
<1>1. QueueInv /\ [Next]_vars
        => [\A a \in Agents :
              (GiveUp(a) \/ (MoveOn(a) /\ q' # q))
                => Current(q) = Item(a) /\ q.items = snap[a].items]_vars
  <2> SUFFICES ASSUME QueueInv, NEW a \in Agents,
                      GiveUp(a) \/ (MoveOn(a) /\ q' # q)
               PROVE  Current(q) = Item(a) /\ q.items = snap[a].items
    OBVIOUS
  <2>1. fresh[a]
    BY DEF GiveUp, MoveOn
  <2>2. q.items = snap[a].items /\ q.cur = snap[a].cur
    BY <2>1 DEF QueueInv, FreshIsQueue
  <2>3. Len(q.items) \in Nat /\ q.cur \in Nat
    BY QueueParts DEF QueueInv, QueueType
  <2> QED
    BY <2>2, <2>3 DEF Current, Item, Idle
<1> QED
  BY <1>1, QueueInvariant, PTL DEF Spec, FailureMovesOnlyFailedTrack

-----------------------------------------------------------------------------
(***************************************************************************)
(* The types of the other variables.  That the failure streak holds items  *)
(* needs more than types: who is about to record a failure has a snapshot  *)
(* with a current item.                                                    *)
(***************************************************************************)
WithItem == {"resolve", "launch", "play", "reset", "advance", "fail", "judge", "giveUp",
             "moveOn"}

HasItem ==
  \A a \in Agents : at[a] \in WithItem => snap[a].cur < Len(snap[a].items)

PlaceType ==
  /\ at \in [Agents -> Places]
  /\ pipe \in [Connections -> 0..MaxConnections]

LinkType ==
  /\ audio \in 0..MaxConnections /\ link \in {"down", "installed", "up"}
  /\ loop \in [Connections -> {"none", "running", "cancelled", "ended"}]

WakeType == wake \in BOOLEAN

PlaceInv == QueueInv /\ LinkType /\ PlaceType /\ HasItem /\ failed \subseteq Items

LEMMA ConnectionsDef == Connections = 1..MaxConnections /\ MaxConnections \in Nat
BY ReconnectAssumption DEF Connections, L!Connections

LEMMA LinkStep == LinkType /\ [Next]_vars => LinkType'
<1> SUFFICES ASSUME LinkType, [Next]_vars PROVE LinkType'
  OBVIOUS
<1> USE ConnectionsDef DEF LinkType, linkVars
<1>1. CASE Connect
  BY <1>1 DEF Connect, L!Install
<1>2. CASE StartLoop
  BY <1>2 DEF StartLoop, L!Start
<1>3. CASE Disconnect
  BY <1>3 DEF Disconnect, L!Stop
<1>4. CASE \E c \in Connections : SeeDone(c)
  BY <1>4 DEF SeeDone, L!End
<1>5. CASE \E c \in Connections : LoopStep(c)
  BY <1>5 DEF LoopStep, Tick, Woken, Look, Pick, Calm, Resolve, Stale, Launch,
     LaunchRefused, TrackFailed, RecordFailure, Judge, GiveUp, KeepGoing, Forgive, MoveOn
<1>6. CASE \E c \in Connections : PcmStep(c)
  BY <1>6 DEF PcmStep, PlayEnds, EndStreak, EndAdvance, PcmExit, TrackFailed,
     RecordFailure, Judge, GiveUp, KeepGoing, Forgive, MoveOn
<1>7. CASE Enqueue \/ UNCHANGED vars
  BY <1>7 DEF Enqueue, vars
<1> QED
  BY <1>1, <1>2, <1>3, <1>4, <1>5, <1>6, <1>7 DEF Next

LEMMA WakeStep == WakeType /\ [Next]_vars => WakeType'
<1> SUFFICES ASSUME WakeType, [Next]_vars PROVE WakeType'
  OBVIOUS
<1> USE DEF WakeType
<1>1. CASE \E c \in Connections : LoopStep(c)
  BY <1>1, Zenon
  DEF LoopStep, Tick, Woken, Look, Pick, Calm, Resolve, Stale, Launch, LaunchRefused,
      TrackFailed, RecordFailure, Judge, GiveUp, KeepGoing, Forgive, MoveOn, Returns
<1>2. CASE \E c \in Connections : SeeDone(c) \/ PcmStep(c)
  BY <1>2, Zenon
  DEF SeeDone, PcmStep, PlayEnds, EndStreak, EndAdvance, PcmExit, TrackFailed,
      RecordFailure, Judge, GiveUp, KeepGoing, Forgive, MoveOn, Returns
<1>3. CASE Connect \/ StartLoop \/ Disconnect \/ Enqueue \/ UNCHANGED vars
  BY <1>3, Zenon DEF Connect, StartLoop, Disconnect, Enqueue, vars
<1> QED
  BY <1>1, <1>2, <1>3 DEF Next

(* An agent with a current item knows which.                               *)
LEMMA ItemType ==
  ASSUME PlaceInv, NEW a \in Agents, at[a] \in WithItem
  PROVE  Item(a) \in Items
<1>1. /\ snap[a].items \in Seq(Items) /\ snap[a].cur \in Nat
      /\ snap[a].cur < Len(snap[a].items)
  BY DEF PlaceInv, QueueInv, QueueType, Snapshots, HasItem
<1>2. Item(a) = snap[a].items[snap[a].cur + 1]
  BY <1>1 DEF Item
<1> HIDE DEF Item
<1> QED
  BY <1>1, <1>2

(* trackFailed moves only the agent that runs it.                          *)
LEMMA TrackFailedKeepsPlaces ==
  ASSUME PlaceInv, NEW a \in Agents, TrackFailed(a)
  PROVE  PlaceType' /\ HasItem' /\ failed' \subseteq Items
<1> USE DEF PlaceInv, PlaceType, HasItem, WithItem, Places, Goto, Returns
<1>1. CASE RecordFailure(a)
  BY <1>1, ItemType DEF RecordFailure
<1>2. CASE Judge(a) \/ GiveUp(a)
  BY <1>2 DEF Judge, GiveUp
<1>3. CASE KeepGoing(a) \/ Forgive(a) \/ MoveOn(a)
  <2>1. /\ at' = [at EXCEPT ![a] = at'[a]] /\ at'[a] \in {"select", "exit"}
        /\ \A x \in Agents : x # a => snap'[x] = snap[x]
        /\ pipe' = pipe \/ pipe' = [pipe EXCEPT ![a[2]] = 0]
        /\ failed' \in {failed, {}}
    BY <1>3 DEF KeepGoing, Forgive, MoveOn, QueueInv, QueueType
  <2>2. pipe' \in [Connections -> 0..MaxConnections]
    BY <2>1, ConnectionsDef
  <2>3. at' \in [Agents -> Places]
    BY <2>1
  <2>4. HasItem'
    BY <2>1
  <2> QED
    BY <2>1, <2>2, <2>3, <2>4
<1> QED
  BY <1>1, <1>2, <1>3 DEF TrackFailed

LEMMA LoopKeepsPlaces ==
  ASSUME PlaceInv, NEW c \in Connections, LoopStep(c) \/ SeeDone(c)
  PROVE  PlaceType' /\ HasItem' /\ failed' \subseteq Items
<1>a. Loop(c) \in Agents
  BY DEF Agents, Loop
<1> USE DEF PlaceInv, PlaceType, HasItem, WithItem, Places, Goto
<1>1. CASE Tick(c) \/ Woken(c) \/ SeeDone(c)
  BY <1>1, <1>a DEF Tick, Woken, SeeDone
<1>2. CASE Look(c)
  BY <1>2, <1>a DEF Look, LinkType
<1>3. CASE Pick(c)
  <2>1. CASE Idle(q)
    BY <1>3, <2>1, <1>a DEF Pick
  <2>2. CASE ~Idle(q)
    <3>1. /\ at' = [at EXCEPT ![Loop(c)] = at'[Loop(c)]]
          /\ at'[Loop(c)] \in {"resolve", "launch"}
          /\ snap' = [snap EXCEPT ![Loop(c)] = [items |-> q.items, cur |-> q.cur]]
          /\ UNCHANGED <<pipe, failed>>
      BY <1>3, <2>2, <1>a DEF Pick
    <3>2. q.cur < Len(q.items)
      BY <2>2, QueueParts DEF Idle, QueueInv, QueueType
    <3> QED
      BY <3>1, <3>2, <1>a DEF QueueInv, QueueType
  <2> QED
    BY <2>1, <2>2
<1>4. CASE Calm(c)
  BY <1>4, <1>a, ConnectionsDef DEF Calm, Leave
<1>5. CASE Resolve(c) \/ LaunchRefused(c)
  BY <1>5, <1>a DEF Resolve, LaunchRefused
<1>6. CASE Stale(c)
  BY <1>6, <1>a, ConnectionsDef DEF Stale, Drop, Leave, QueueInv, QueueType
<1>7. CASE Launch(c)
  <2> DEFINE a == Loop(c)
             b == Pcm(pipe[c])
  <2>1. /\ at' = [at EXCEPT ![a] = "select", ![b] = "play"]
        /\ snap' = [snap EXCEPT ![b] = snap[a], ![a] = NoSnapshot]
        /\ pipe' = [pipe EXCEPT ![c] = 0] /\ failed' = failed
        /\ at[a] = "launch"
    BY <1>7 DEF Launch, Leave
  <2>2. a # b
    BY DEF Loop, Pcm
  <2> HIDE DEF a, b
  <2>3. PlaceType'
    <3>1. at' \in [Agents -> Places]
      BY <2>1
    <3>2. pipe' \in [Connections -> 0..MaxConnections]
      BY <2>1, ConnectionsDef
    <3> QED
      BY <3>1, <3>2
  <2>4. HasItem'
    <3> SUFFICES ASSUME NEW x \in Agents, at'[x] \in WithItem
                 PROVE  snap'[x].cur < Len(snap'[x].items)
      OBVIOUS
    <3>1. x # a
      BY <2>1, <2>2
    <3>2. at'[x] = (IF x = b THEN "play" ELSE at[x])
          /\ snap'[x] = (IF x = b THEN snap[a] ELSE snap[x])
      BY <2>1, <3>1 DEF QueueInv, QueueType
    <3> QED
      BY <2>1, <3>2, <1>a DEF a
  <2> QED
    BY <2>1, <2>3, <2>4
<1>8. CASE TrackFailed(Loop(c))
  BY <1>8, <1>a, TrackFailedKeepsPlaces
<1> QED
  BY <1>1, <1>2, <1>3, <1>4, <1>5, <1>6, <1>7, <1>8 DEF LoopStep

LEMMA PcmKeepsPlaces ==
  ASSUME PlaceInv, NEW p \in Connections, PcmStep(p)
  PROVE  PlaceType' /\ HasItem' /\ failed' \subseteq Items
<1>a. Pcm(p) \in Agents /\ Pcm(p)[1] = "pcm"
  BY DEF Agents, Pcm
<1> USE DEF PlaceInv, PlaceType, HasItem, WithItem, Places, Goto
<1>1. CASE PlayEnds(p) \/ EndStreak(p) \/ PcmExit(p)
  BY <1>1, <1>a DEF PlayEnds, EndStreak, PcmExit
<1>2. CASE EndAdvance(p)
  BY <1>2, <1>a DEF EndAdvance, Returns, QueueInv, QueueType
<1>3. CASE TrackFailed(Pcm(p))
  BY <1>3, <1>a, TrackFailedKeepsPlaces
<1> QED
  BY <1>1, <1>2, <1>3 DEF PcmStep

LEMMA OthersKeepPlaces ==
  ASSUME PlaceInv, Connect \/ StartLoop \/ Disconnect \/ Enqueue \/ UNCHANGED vars
  PROVE  PlaceType' /\ HasItem' /\ failed' \subseteq Items
<1> USE DEF PlaceInv, PlaceType, HasItem, WithItem, Places
<1>1. CASE Connect \/ Disconnect \/ Enqueue \/ UNCHANGED vars
  BY <1>1 DEF Connect, Disconnect, Enqueue, vars
<1>2. CASE StartLoop
  BY <1>2 DEF StartLoop
<1> QED
  BY <1>1, <1>2

(* All of it is inductive together.                                        *)
LEMMA PlaceInvariant == Spec => [](PlaceInv /\ WakeType)
<1>1. Init => PlaceInv /\ WakeType
  <2> SUFFICES ASSUME Init PROVE PlaceInv /\ WakeType
    OBVIOUS
  <2>1. WakeType
    BY Zenon DEF Init, WakeType
  <2>2. LinkType /\ PlaceType /\ HasItem /\ failed \subseteq Items
    BY ConnectionsDef
    DEF Init, L!Init, Connections, LinkType, PlaceType, HasItem, Places, WithItem
  <2> QED
    BY <2>1, <2>2, QueueInvInit DEF PlaceInv
<1>2. PlaceInv /\ WakeType /\ [Next]_vars => (PlaceInv /\ WakeType)'
  <2> SUFFICES ASSUME PlaceInv, WakeType, [Next]_vars PROVE PlaceInv' /\ WakeType'
    OBVIOUS
  <2>1. QueueInv'
    BY LoopKeepsInv, PcmKeepsInv, OthersKeepInv DEF Next, PlaceInv
  <2>2. PlaceType' /\ HasItem' /\ failed' \subseteq Items
    BY LoopKeepsPlaces, PcmKeepsPlaces, OthersKeepPlaces DEF Next
  <2> QED
    BY <2>1, <2>2, LinkStep, WakeStep DEF PlaceInv
<1> QED
  BY <1>1, <1>2, PTL DEF Spec

(* Types are kept, and what a failure records is an item: no goroutine     *)
(* judges a track it has no snapshot of (loop.go:101-126).                 *)
THEOREM Typed == Spec => []TypeOK
<1>1. PlaceInv /\ WakeType => TypeOK
  BY DEF PlaceInv, WakeType, QueueInv, QueueType, Snapshots, LinkType, PlaceType, TypeOK
<1> QED
  BY <1>1, PlaceInvariant, PTL

-----------------------------------------------------------------------------
(***************************************************************************)
(* Which loops there are and which pipelines they hold.  Only the newest   *)
(* connection has a loop that is not cancelled; a loop in the middle of a  *)
(* turn holds the pipeline of its own connection or of a later one, and    *)
(* nothing plays on a pipeline that was not installed.                     *)
(***************************************************************************)
Turn == {"pick", "calm", "resolve", "launch", "fail", "judge", "giveUp", "forgive",
         "moveOn"}

LoopsFollowLink ==
  /\ \A c \in Connections : c > audio => loop[c] = "none"
  /\ \A c \in Connections : loop[c] = "running" => link = "up" /\ c = audio
  /\ link # "down" => audio \in Connections
  /\ link = "installed" => loop[audio] = "none"
  /\ link = "up" => loop[audio] = "running"
  /\ \A c \in Connections : at[Loop(c)] = "none" <=> loop[c] \in {"none", "ended"}

PipesHeld ==
  /\ \A c \in Connections : at[Loop(c)] \in Turn => pipe[c] \in c..audio
  /\ \A p \in Connections : Running(p) => p <= audio

LEMMA AgentPlaces ==
  /\ \A c \in Connections : Loop(c) \in Agents /\ Pcm(c) \in Agents
  /\ \A c, d \in Connections : Loop(c) # Pcm(d)
  /\ \A c, d \in Connections : c # d => Loop(c) # Loop(d) /\ Pcm(c) # Pcm(d)
BY DEF Agents, Loop, Pcm

(* A step of a loop that launches nothing moves that loop alone.           *)
LEMMA LoopMoves ==
  ASSUME TypeOK, NEW c \in Connections, LoopStep(c), ~Launch(c)
  PROVE  /\ UNCHANGED linkVars
         /\ \A a \in Agents : a # Loop(c) => at'[a] = at[a]
         /\ \A d \in Connections : d # c => pipe'[d] = pipe[d]
         /\ at[Loop(c)] # "none" /\ at'[Loop(c)] # "none"
         /\ at'[Loop(c)] \in Turn => \/ at[Loop(c)] \in Turn /\ pipe'[c] = pipe[c]
                                     \/ pipe'[c] = audio
<1>a. Loop(c) \in Agents /\ Loop(c)[1] = "loop" /\ Loop(c)[2] = c
  BY DEF Agents, Loop
<1> USE <1>a DEF TypeOK, Goto, Turn
<1>1. CASE Tick(c) \/ Woken(c)
  BY <1>1 DEF Tick, Woken
<1>2. CASE Look(c)
  BY <1>2 DEF Look
<1>3. CASE Pick(c) \/ Calm(c)
  BY <1>3 DEF Pick, Calm, Leave
<1>4. CASE Resolve(c) \/ Stale(c) \/ LaunchRefused(c)
  BY <1>4 DEF Resolve, Stale, LaunchRefused, Leave
<1>5. CASE RecordFailure(Loop(c)) \/ Judge(Loop(c)) \/ GiveUp(Loop(c))
  BY <1>5 DEF RecordFailure, Judge, GiveUp
<1>6. CASE KeepGoing(Loop(c)) \/ Forgive(Loop(c)) \/ MoveOn(Loop(c))
  BY <1>6 DEF KeepGoing, Forgive, MoveOn, Returns
<1> QED
  BY <1>1, <1>2, <1>3, <1>4, <1>5, <1>6 DEF LoopStep, TrackFailed

(* A step of a stream moves that stream alone, and begins none.            *)
LEMMA StreamMoves ==
  ASSUME TypeOK, NEW p \in Connections, PcmStep(p)
  PROVE  /\ UNCHANGED <<linkVars, pipe>>
         /\ \A a \in Agents : a # Pcm(p) => at'[a] = at[a]
         /\ at[Pcm(p)] # "none"
<1>a. Pcm(p) \in Agents /\ Pcm(p)[1] = "pcm"
  BY DEF Agents, Pcm
<1> USE <1>a DEF TypeOK, Goto, Returns
<1>1. CASE PlayEnds(p) \/ EndStreak(p) \/ EndAdvance(p) \/ PcmExit(p)
  BY <1>1 DEF PlayEnds, EndStreak, EndAdvance, PcmExit
<1>2. CASE RecordFailure(Pcm(p)) \/ Judge(Pcm(p)) \/ GiveUp(Pcm(p))
  BY <1>2 DEF RecordFailure, Judge, GiveUp
<1>3. CASE KeepGoing(Pcm(p)) \/ Forgive(Pcm(p)) \/ MoveOn(Pcm(p))
  BY <1>3 DEF KeepGoing, Forgive, MoveOn
<1> QED
  BY <1>1, <1>2, <1>3 DEF PcmStep, TrackFailed

(* Only Launch begins a stream, on the pipeline the loop holds.            *)
LEMMA LaunchMoves ==
  ASSUME TypeOK, PipesHeld, NEW c \in Connections, Launch(c)
  PROVE  /\ UNCHANGED linkVars
         /\ pipe[c] \in c..audio /\ pipe[c] \in Connections
         /\ \A a \in Agents : a # Loop(c) /\ a # Pcm(pipe[c]) => at'[a] = at[a]
         /\ \A d \in Connections : d # c => pipe'[d] = pipe[d]
         /\ at[Loop(c)] = "launch" /\ at'[Loop(c)] = "select"
<1>1. pipe[c] \in c..audio /\ pipe[c] \in Connections
  BY ConnectionsDef DEF Launch, PipesHeld, Turn, TypeOK
<1>2. Loop(c) \in Agents /\ Pcm(pipe[c]) \in Agents /\ Loop(c) # Pcm(pipe[c])
  BY <1>1, AgentPlaces
<1> QED
  BY <1>1, <1>2 DEF Launch, Leave, TypeOK

LEMMA LoopsStep ==
  ASSUME TypeOK, LoopsFollowLink, PipesHeld, [Next]_vars
  PROVE  LoopsFollowLink' /\ PipesHeld'
<1> USE AgentPlaces, ConnectionsDef DEF LoopsFollowLink, PipesHeld, Running
<1>1. ASSUME NEW c \in Connections, LoopStep(c), ~Launch(c)
      PROVE  LoopsFollowLink' /\ PipesHeld'
  <2>1. /\ UNCHANGED linkVars
        /\ \A a \in Agents : a # Loop(c) => at'[a] = at[a]
        /\ \A d \in Connections : d # c => pipe'[d] = pipe[d]
        /\ at[Loop(c)] # "none" /\ at'[Loop(c)] # "none"
        /\ at'[Loop(c)] \in Turn => \/ at[Loop(c)] \in Turn /\ pipe'[c] = pipe[c]
                                    \/ pipe'[c] = audio
    BY <1>1, LoopMoves
  <2>2. audio \in Nat /\ c <= audio
    BY <2>1 DEF TypeOK
  <2>3. LoopsFollowLink'
    BY <2>1 DEF linkVars
  <2>4. PipesHeld'
    BY <2>1, <2>2 DEF linkVars
  <2> QED
    BY <2>3, <2>4
<1>2. ASSUME NEW c \in Connections, Launch(c)
      PROVE  LoopsFollowLink' /\ PipesHeld'
  <2>1. /\ UNCHANGED linkVars
        /\ pipe[c] \in c..audio /\ pipe[c] \in Connections
        /\ \A a \in Agents : a # Loop(c) /\ a # Pcm(pipe[c]) => at'[a] = at[a]
        /\ \A d \in Connections : d # c => pipe'[d] = pipe[d]
        /\ at[Loop(c)] = "launch" /\ at'[Loop(c)] = "select"
    BY <1>2, LaunchMoves
  <2>2. LoopsFollowLink'
    BY <2>1 DEF linkVars
  <2>3. PipesHeld'
    <3>1. ASSUME NEW d \in Connections, at'[Loop(d)] \in Turn
          PROVE  pipe'[d] \in d..audio'
      BY <2>1, <3>1 DEF linkVars, Turn
    <3>2. ASSUME NEW p \in Connections, at'[Pcm(p)] # "none" PROVE p <= audio'
      <4>1. CASE p = pipe[c]
        BY <2>1, <4>1 DEF linkVars, TypeOK
      <4>2. CASE p # pipe[c]
        BY <2>1, <3>2, <4>2 DEF linkVars
      <4> QED
        BY <4>1, <4>2
    <3> QED
      BY <3>1, <3>2
  <2> QED
    BY <2>2, <2>3
<1>3. ASSUME NEW c \in Connections, SeeDone(c)
      PROVE  LoopsFollowLink' /\ PipesHeld'
  BY <1>3, SMTT(60) DEF SeeDone, Goto, L!End, TypeOK, Turn
<1>4. ASSUME NEW p \in Connections, PcmStep(p)
      PROVE  LoopsFollowLink' /\ PipesHeld'
  <2>1. /\ UNCHANGED <<linkVars, pipe>>
        /\ \A a \in Agents : a # Pcm(p) => at'[a] = at[a]
        /\ at[Pcm(p)] # "none"
    BY <1>4, StreamMoves
  <2> QED
    BY <2>1, ZenonT(60) DEF linkVars, TypeOK
<1>5. CASE Connect
  BY <1>5, SMTT(60) DEF Connect, L!Install, TypeOK
<1>6. CASE StartLoop
  <2>1. /\ link = "installed" /\ link' = "up" /\ audio' = audio /\ pipe' = pipe
        /\ loop' = [loop EXCEPT ![audio] = "running"]
        /\ at' = [at EXCEPT ![Loop(audio)] = "select"]
        /\ audio \in Connections
    BY <1>6 DEF StartLoop, L!Start
  <2>2. /\ \A c \in Connections : c # audio => /\ loop'[c] = loop[c]
                                             /\ at'[Loop(c)] = at[Loop(c)]
        /\ \A p \in Connections : at'[Pcm(p)] = at[Pcm(p)]
        /\ loop'[audio] = "running" /\ at'[Loop(audio)] = "select"
    BY <2>1 DEF TypeOK
  <2>3. LoopsFollowLink'
    BY <2>1, <2>2
  <2>4. PipesHeld'
    BY <2>1, <2>2 DEF Turn
  <2> QED
    BY <2>3, <2>4
<1>7. CASE Disconnect
  BY <1>7 DEF Disconnect, L!Stop, TypeOK
<1>8. CASE Enqueue \/ UNCHANGED vars
  BY <1>8 DEF Enqueue, vars, linkVars
<1> QED
  BY <1>1, <1>2, <1>3, <1>4, <1>5, <1>6, <1>7, <1>8 DEF Next

LEMMA LoopsInvariant == Spec => [](LoopsFollowLink /\ PipesHeld)
<1>1. Init => LoopsFollowLink /\ PipesHeld
  BY AgentPlaces, ConnectionsDef
  DEF Init, L!Init, Connections, LoopsFollowLink, PipesHeld, Turn, Running
<1>2. TypeOK /\ LoopsFollowLink /\ PipesHeld /\ [Next]_vars
        => (LoopsFollowLink /\ PipesHeld)'
  BY LoopsStep
<1> QED
  BY <1>1, <1>2, Typed, PTL DEF Spec

\* Connection c has no loop any more, nor one before it, and nothing plays on.
Faded(c) == ~Running(c) /\ \A d \in 1..c : loop[d] = "ended"

(* What a lost connection leaves behind does not come back: once its loop, *)
(* those of the connections before it and its stream have ended, no loop   *)
(* of a later connection launches anything on its pipeline again           *)
(* (loop.go:25-68, connect.go:101-124), so that LostConnectionFades is     *)
(* for good.                                                               *)
THEOREM FadedForGood == Spec => [][\A c \in Connections : Faded(c) => Faded(c)']_vars
<1>1. TypeOK /\ LoopsFollowLink /\ PipesHeld /\ [Next]_vars
        => [\A c \in Connections : Faded(c) => Faded(c)']_vars
  <2> SUFFICES ASSUME TypeOK, LoopsFollowLink, PipesHeld, [Next]_vars,
                      NEW c \in Connections, Faded(c)
               PROVE  Faded(c)'
    OBVIOUS
  <2> USE AgentPlaces, ConnectionsDef DEF Faded, Running
  <2>1. \A d \in 1..c : d \in Connections /\ at[Loop(d)] = "none"
    BY DEF LoopsFollowLink
  <2>2. ASSUME NEW d \in Connections, LoopStep(d), ~Launch(d) PROVE Faded(c)'
    BY <2>2, LoopMoves DEF linkVars
  <2>3. ASSUME NEW d \in Connections, Launch(d) PROVE Faded(c)'
    <3>1. /\ UNCHANGED linkVars /\ at[Loop(d)] = "launch" /\ pipe[d] \in d..audio
          /\ \A a \in Agents : a # Loop(d) /\ a # Pcm(pipe[d]) => at'[a] = at[a]
      BY <2>3, LaunchMoves
    <3>2. d > c
      BY <2>1, <3>1
    <3>3. pipe[d] # c
      BY <3>1, <3>2 DEF TypeOK
    <3>4. Pcm(pipe[d]) # Pcm(c)
      BY <3>3 DEF Pcm
    <3> QED
      BY <3>1, <3>4 DEF linkVars
  <2>4. ASSUME NEW d \in Connections, SeeDone(d) PROVE Faded(c)'
    BY <2>1, <2>4 DEF SeeDone, Goto, L!End, TypeOK
  <2>5. ASSUME NEW p \in Connections, PcmStep(p) PROVE Faded(c)'
    BY <2>5, StreamMoves DEF linkVars
  <2>6. CASE Connect
    BY <2>6 DEF Connect, L!Install
  <2>7. CASE StartLoop
    BY <2>7 DEF StartLoop, L!Start, LoopsFollowLink, TypeOK
  <2>8. CASE Disconnect
    BY <2>8 DEF Disconnect, L!Stop, LoopsFollowLink, TypeOK
  <2>9. CASE Enqueue \/ UNCHANGED vars
    BY <2>9 DEF Enqueue, vars, linkVars
  <2> QED
    BY <2>2, <2>3, <2>4, <2>5, <2>6, <2>7, <2>8, <2>9 DEF Next
<1> QED
  BY <1>1, LoopsInvariant, Typed, PTL DEF Spec

-----------------------------------------------------------------------------
(***************************************************************************)
(* Before the first reconnection there is one loop and one pipeline: the   *)
(* loop waits while the stream runs, so that whoever works on a track      *)
(* works on the current one, which an Enqueue does not move.               *)
(***************************************************************************)
Working == {"resolve", "launch", "play", "reset", "advance"}

OnlyStream ==
  \A p \in Connections : Running(p) =>
    \A c \in Connections : at[Loop(c)] \in {"none", "select", "look"}

OnCurrent == \A a \in Agents : at[a] \in Working => Current(q) = Item(a)

OnceInv == PlaceInv /\ LoopsFollowLink /\ PipesHeld

LEMMA OneAgentEach ==
  ASSUME MaxConnections <= 1, NEW c \in Connections, NEW d \in Connections
  PROVE  c = d
BY ConnectionsDef

\* An agent whose snapshot is not touched works on the same item.
LEMMA ItemKept ==
  ASSUME NEW a, snap'[a] = snap[a]
  PROVE  Item(a)' = Item(a)
BY DEF Item

LEMMA OnceLoopStep ==
  ASSUME MaxConnections <= 1, OnceInv, OnlyStream, OnCurrent,
         NEW c \in Connections, LoopStep(c) \/ SeeDone(c)
  PROVE  OnlyStream' /\ OnCurrent'
<1>a. /\ Loop(c) \in Agents /\ Pcm(c) \in Agents /\ Loop(c) # Pcm(c)
      /\ Loop(c)[1] = "loop" /\ Pcm(c)[1] = "pcm"
      /\ \A a \in Agents : a = Loop(c) \/ a = Pcm(c)
      /\ \A d \in Connections : d = c
  BY OneAgentEach DEF Agents, Loop, Pcm
<1>b. at \in [Agents -> Places] /\ snap \in [Agents -> Snapshots]
  BY DEF OnceInv, PlaceInv, PlaceType, QueueInv, QueueType
<1>c. /\ OnlyStream <=> (at[Pcm(c)] # "none" => at[Loop(c)] \in {"none", "select", "look"})
      /\ OnlyStream' <=> (at'[Pcm(c)] # "none" => at'[Loop(c)] \in {"none", "select", "look"})
      /\ OnCurrent <=> /\ at[Loop(c)] \in Working => Current(q) = Item(Loop(c))
                       /\ at[Pcm(c)] \in Working => Current(q) = Item(Pcm(c))
      /\ OnCurrent' <=> /\ at'[Loop(c)] \in Working => Current(q') = Item(Loop(c))'
                        /\ at'[Pcm(c)] \in Working => Current(q') = Item(Pcm(c))'
  BY <1>a DEF OnlyStream, OnCurrent, Running
<1> USE <1>a, <1>b, <1>c DEF Goto, Working
<1>1. CASE Tick(c) \/ Woken(c) \/ SeeDone(c) \/ Calm(c)
  BY <1>1, ItemKept DEF Tick, Woken, SeeDone, Calm
<1>2. CASE Look(c)
  <2>1. audio = c
    BY <1>2, ConnectionsDef DEF Look, OnceInv, LoopsFollowLink, PlaceInv, LinkType
  <2> QED
    BY <1>2, <2>1, ItemKept DEF Look, Running
<1>3. CASE Pick(c)
  <2>1. at[Pcm(c)] = "none" /\ at'[Pcm(c)] = "none"
    BY <1>3 DEF Pick
  <2>2. CASE Idle(q)
    BY <1>3, <2>1, <2>2 DEF Pick
  <2>3. CASE ~Idle(q)
    <3>1. /\ q' = q /\ snap'[Loop(c)].items = q.items /\ snap'[Loop(c)].cur = q.cur
      BY <1>3, <2>3 DEF Pick
    <3>2. q.cur \in Nat /\ Len(q.items) \in Nat
      BY QueueParts DEF OnceInv, PlaceInv, QueueInv, QueueType
    <3>3. Item(Loop(c))' = Current(q)
      BY <3>1, <3>2, <2>3 DEF Item, Current, Idle
    <3> QED
      BY <2>1, <3>1, <3>3
  <2> QED
    BY <2>2, <2>3
<1>4. CASE Resolve(c) \/ LaunchRefused(c)
  BY <1>4, ItemKept DEF Resolve, LaunchRefused
<1>5. CASE Stale(c)
  BY <1>5, ItemKept DEF Stale, Drop
<1>6. CASE Launch(c)
  <2>1. pipe[c] = c
    BY <1>6, ConnectionsDef DEF Launch, OnceInv, PipesHeld, Turn, PlaceInv, LinkType
  <2>2. /\ at'[Loop(c)] = "select" /\ at'[Pcm(c)] = "play" /\ q' = q
        /\ snap'[Pcm(c)] = snap[Loop(c)] /\ at[Loop(c)] = "launch"
    BY <1>6, <2>1 DEF Launch
  <2>3. Item(Pcm(c))' = Item(Loop(c))
    BY <2>2 DEF Item
  <2> QED
    BY <2>2, <2>3
<1>7. CASE TrackFailed(Loop(c))
  <2>1. at[Pcm(c)] = "none" /\ at'[Pcm(c)] = "none" /\ at'[Loop(c)] \notin Working
    BY <1>7 DEF TrackFailed, RecordFailure, Judge, GiveUp, KeepGoing, Forgive, MoveOn,
                Returns
  <2> QED
    BY <2>1
<1> QED
  BY <1>1, <1>2, <1>3, <1>4, <1>5, <1>6, <1>7 DEF LoopStep

LEMMA OncePcmStep ==
  ASSUME MaxConnections <= 1, OnceInv, OnlyStream, OnCurrent,
         NEW c \in Connections, PcmStep(c)
  PROVE  OnlyStream' /\ OnCurrent'
<1>a. /\ Loop(c) \in Agents /\ Pcm(c) \in Agents /\ Loop(c) # Pcm(c)
      /\ \A a \in Agents : a = Loop(c) \/ a = Pcm(c)
      /\ \A d \in Connections : d = c
  BY OneAgentEach DEF Agents, Loop, Pcm
<1>b. at \in [Agents -> Places] /\ Pcm(c)[1] = "pcm"
  BY DEF OnceInv, PlaceInv, PlaceType, Pcm
<1>1. at[Pcm(c)] # "none" /\ at'[Loop(c)] = at[Loop(c)]
  BY <1>a, <1>b
  DEF PcmStep, PlayEnds, EndStreak, EndAdvance, PcmExit, TrackFailed, RecordFailure,
      Judge, GiveUp, KeepGoing, Forgive, MoveOn, Returns, Goto
<1>2. at[Loop(c)] \in {"none", "select", "look"}
  BY <1>1 DEF OnlyStream, Running
<1>3. OnlyStream'
  BY <1>a, <1>1, <1>2 DEF OnlyStream
<1>4. at'[Pcm(c)] \in Working => /\ at[Pcm(c)] \in Working /\ q' = q
                                  /\ snap'[Pcm(c)] = snap[Pcm(c)]
  BY <1>a, <1>b
  DEF PcmStep, PlayEnds, EndStreak, EndAdvance, PcmExit, TrackFailed, RecordFailure,
      Judge, GiveUp, KeepGoing, Forgive, MoveOn, Returns, Goto, Working
<1>5. OnCurrent'
  BY <1>a, <1>1, <1>2, <1>4, ItemKept DEF OnCurrent, Working
<1> QED
  BY <1>3, <1>5

LEMMA OnceOtherStep ==
  ASSUME OnceInv, OnlyStream, OnCurrent,
         Connect \/ StartLoop \/ Disconnect \/ Enqueue \/ UNCHANGED vars
  PROVE  OnlyStream' /\ OnCurrent'
<1>1. CASE Connect \/ Disconnect \/ UNCHANGED vars
  BY <1>1, ItemKept DEF Connect, Disconnect, vars, OnlyStream, OnCurrent, Running
<1>2. CASE StartLoop
  <2>1. /\ at' = [at EXCEPT ![Loop(audio)] = "select"] /\ q' = q /\ snap' = snap
        /\ at \in [Agents -> Places]
    BY <1>2 DEF StartLoop, OnceInv, PlaceInv, PlaceType
  <2>2. \A p, c \in Connections : Pcm(p) # Loop(c) /\ Pcm(p) \in Agents /\ Loop(c) \in Agents
    BY AgentPlaces
  <2>3. audio \in Connections
    BY <1>2 DEF StartLoop, L!Start, OnceInv, LoopsFollowLink
  <2>4. OnlyStream'
    BY <2>1, <2>2, <2>3 DEF OnlyStream, Running
  <2>5. OnCurrent'
    BY <2>1, ItemKept DEF OnCurrent, Working
  <2> QED
    BY <2>4, <2>5
<1>3. CASE Enqueue
  <2>1. /\ at' = at /\ snap' = snap /\ q' \in Appended(q, enqueued + 1)
        /\ enqueued + 1 \in Items /\ q \in QueueOver(Items)
    BY <1>3, ReconnectAssumption
    DEF Enqueue, Mutate, OnceInv, PlaceInv, QueueInv, QueueType, Items
  <2>2. ASSUME NEW a \in Agents, at[a] \in Working PROVE Current(q') = Item(a)'
    <3>1. Item(a)' = Item(a) /\ Current(q) = Item(a)
      BY <2>1, <2>2, ItemKept DEF OnCurrent
    <3>2. ~Idle(q)
      BY <2>2, <3>1, ItemType, ReconnectAssumption DEF Working, WithItem, OnceInv, Current
    <3> QED
      BY <2>1, <3>1, <3>2, AppendedKeepsCurrent
  <2> QED
    BY <2>1, <2>2 DEF OnlyStream, OnCurrent, Running
<1> QED
  BY <1>1, <1>2, <1>3

(* While there has been one connection, the end of a track moves the queue *)
(* off that very track, for any items and modes and however items are      *)
(* added meanwhile (loop.go:79-98): it takes a reconnection, or a control, *)
(* to make it move off another.                                            *)
THEOREM TrackEndMovesOwnItemOnce ==
  ASSUME MaxConnections <= 1
  PROVE  Spec => TrackEndMovesOwnItem
<1>1. Init => OnlyStream /\ OnCurrent
  BY AgentPlaces DEF Init, OnlyStream, OnCurrent, Working, Running
<1>2. OnceInv /\ OnlyStream /\ OnCurrent /\ [Next]_vars => (OnlyStream /\ OnCurrent)'
  <2> SUFFICES ASSUME OnceInv, OnlyStream, OnCurrent, [Next]_vars
               PROVE  OnlyStream' /\ OnCurrent'
    OBVIOUS
  <2> QED
    BY OnceLoopStep, OncePcmStep, OnceOtherStep DEF Next
<1>3. OnCurrent /\ [Next]_vars
        => [\A p \in Connections : EndAdvance(p) => Current(q) = Item(Pcm(p))]_vars
  BY AgentPlaces DEF OnCurrent, Working, EndAdvance, Returns, Goto
<1>4. Spec => []OnceInv
  BY PlaceInvariant, LoopsInvariant, PTL DEF OnceInv
<1> QED
  BY <1>1, <1>2, <1>3, <1>4, PTL DEF Spec, TrackEndMovesOwnItem
=============================================================================
