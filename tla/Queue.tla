------------------------------- MODULE Queue -------------------------------
(***************************************************************************)
(* queue.Queue (internal/queue/queue.go) as a state machine: one action    *)
(* per exported method that changes the queue, and Snapshot.  Each method  *)
(* holds q.mu for its whole body, so each is one atomic step.  Clients     *)
(* stands for the goroutines that keep a Snapshot and later hand its       *)
(* Version to NextIfUnchanged or FinishIfUnchanged (the play loop and the  *)
(* end-of-track callback, see PlayLoop.tla).                               *)
(***************************************************************************)
EXTENDS QueueOps

CONSTANTS
  Items,       \* media items; a caller builds a new one for every Append/Insert
  Clients,     \* holders of snapshots
  MaxVersion   \* bound on the version counter, so that TLC terminates

ASSUME NoItemAssumption == NoItem \notin Items
ASSUME MaxVersionAssumption == MaxVersion \in Nat

VARIABLES
  q,           \* items, currentIndex, mode
  version,     \* the version counter (uint64; it cannot wrap in practice)
  snap         \* snap[c]: the queue and version client c saw in its last Snapshot

vars == <<q, version, snap>>

(***************************************************************************)
(* Snapshot copies items, index and version.  The mode in snap[c].q is a   *)
(* history component: the code does not copy it, the properties use it.    *)
(***************************************************************************)
Snapshots == [q : QueueOver(Items), version : Nat]

Init ==
  /\ q = EmptyQueue
  /\ version = 0
  /\ snap = [c \in Clients |-> [q |-> EmptyQueue, version |-> 0]]

\* Every mutator bumps the version, also when it rejects its argument.
Bump ==
  /\ version < MaxVersion
  /\ version' = version + 1
  /\ UNCHANGED snap

Fresh(x) == x \notin ToSet(q.items)

Indices == -1..(Len(q.items) + 1)      \* valid ones and both out-of-range sides

\* Mutant of SetMode: the version is not bumped.
SetModeSilently(m) == q' \in WithMode(q, m) /\ UNCHANGED <<version, snap>>

SetMode(m)    == Bump /\ q' \in WithMode(q, m)
Randomize     == Bump /\ q' \in ShuffledAfterCurrent(q)
AppendItem(x) == Fresh(x) /\ Bump /\ q' \in Appended(q, x)
InsertItem(i, x) == Fresh(x) /\ Bump /\ q' = Inserted(q, i, x)
RemoveItem(i) == Bump /\ q' = Removed(q, i)
NextItem     == Bump /\ q' \in Advanced(q)
JumpTo(i)    == Bump /\ q' = Jumped(q, i)
Reset        == Bump /\ q' = Rewound(q)
ClearAll     == Bump /\ q' = Emptied(q)

Snapshot(c) ==
  /\ snap' = [snap EXCEPT ![c] = [q |-> q, version |-> version]]
  /\ UNCHANGED <<q, version>>

NextIfUnchanged(c) ==
  /\ version = snap[c].version
  /\ Bump
  /\ q' \in Advanced(q)

\* Mutant of FinishIfUnchanged: compares the index and not the version.
FinishIfSameIndex(c) ==
  /\ q.cur = snap[c].q.cur
  /\ ~Idle(q)
  /\ Bump
  /\ q' = Finished(q)

FinishIfUnchanged(c) ==
  /\ version = snap[c].version
  /\ ~Idle(q)
  /\ Bump
  /\ q' = Finished(q)

\* The mutators that act on what an earlier Snapshot showed.
Conditional(c) == NextIfUnchanged(c) \/ FinishIfUnchanged(c)

Next ==
  \/ \E m \in Modes : SetMode(m)
  \/ Randomize
  \/ \E x \in Items : AppendItem(x)
  \/ \E x \in Items : \E i \in Indices : InsertItem(i, x)
  \/ \E i \in Indices : RemoveItem(i)
  \/ NextItem
  \/ \E i \in Indices : JumpTo(i)
  \/ Reset
  \/ ClearAll
  \/ \E c \in Clients : Snapshot(c)
  \/ \E c \in Clients : Conditional(c)

Spec == Init /\ [][Next]_vars

-----------------------------------------------------------------------------
(* The index stays within 0 .. Len(items) through every method, and items  *)
(* only ever holds queued items: Current() and nextLocked index the slice  *)
(* without a further check (queue.go:146, 185).                            *)
TypeOK ==
  /\ q \in QueueOver(Items)
  /\ version \in Nat
  /\ snap \in [Clients -> Snapshots]

(* "Two reads returning the same value mean nothing changed in between":   *)
(* while the version is the one a snapshot carries, the queue is the very  *)
(* queue of that snapshot.  Every method must bump the counter for it.     *)
VersionIdentifiesQueue ==
  \A c \in Clients :
    /\ snap[c].version <= version
    /\ snap[c].version = version => snap[c].q = q

(* NextIfUnchanged and FinishIfUnchanged never move a queue that differs   *)
(* from the one their caller judged: not after another selection, not      *)
(* after an item was appended, and not after a round trip that came back   *)
(* to the same current item.                                               *)
ConditionalMovesSeenQueue ==
  [][\A c \in Clients : Conditional(c) => q = snap[c].q]_vars

(* Methods that are not about selection leave the current item alone and   *)
(* never touch what was already played: Append, SetMode and Randomize may  *)
(* only reorder or extend the part behind the current item.                *)
PlayedPartKept ==
  [][(\/ \E x \in Items : AppendItem(x)
      \/ \E m \in Modes : SetMode(m)
      \/ Randomize)
     => /\ q'.cur = q.cur
        /\ \A i \in 1..Len(q.items) : i <= q.cur + 1 => q'.items[i] = q.items[i]]_vars

(* No item is lost or doubled: an item leaves the list only through Remove *)
(* or Clear, and the list never holds an item twice although random mode   *)
(* permutes it.                                                            *)
NoDuplicates ==
  \A i, j \in 1..Len(q.items) : q.items[i] = q.items[j] => i = j

-----------------------------------------------------------------------------
(* The queue implements the ordered-away playlist: what is before the      *)
(* index has been heard, what is behind it is ahead.                       *)
P == INSTANCE Playlist WITH
       heard <- {q.items[i] : i \in {j \in 1..Len(q.items) : j <= q.cur}},
       now   <- Current(q),
       ahead <- {q.items[i] : i \in {j \in 1..Len(q.items) : j > q.cur + 1}}

\* Insert in front of an item of a past-end queue is set apart: PastEndStays.
PastEndInsert ==
  /\ Idle(q)
  /\ \E x \in Items : \E i \in 0..(Len(q.items) - 1) : InsertItem(i, x)

(* Every method does to the playlist what its namesake says and nothing    *)
(* else.  So each lap plays every item once, an item that is enqueued is   *)
(* still to come, the end of a track never skips an item nor repeats the   *)
(* one that just played, and no method about order or mode selects.        *)
ImplementsPlaylist ==
  /\ P!Init
  /\ [][/\ NextItem \/ (\E c \in Clients : NextIfUnchanged(c)) => [P!Forward]_(P!vars)
        /\ \A c \in Clients : FinishIfUnchanged(c) => P!Finish
        /\ \A x \in Items : AppendItem(x) => P!Enqueue(x)
        /\ \A x \in Items : \A i \in Indices : InsertItem(i, x) =>
             \/ PastEndInsert
             \/ [P!Enqueue(x) \/ P!EnqueueBehind(x)]_(P!vars)
        /\ \A i \in Indices : RemoveItem(i) => [\E x \in Items : P!Drop(x)]_(P!vars)
        /\ Reset \/ (\E i \in Indices : JumpTo(i)) => [P!Select]_(P!vars)
        /\ ClearAll => P!Clear
        /\ Randomize \/ (\E m \in Modes : SetMode(m)) => UNCHANGED P!vars]_vars

(* queue.go:117 says of Insert "past-end stays past-end": an item put in   *)
(* front of others does not wake an idle queue.                            *)
PastEndStays == [][PastEndInsert => Idle(q)']_vars
=============================================================================
