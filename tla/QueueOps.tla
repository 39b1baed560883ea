------------------------------ MODULE QueueOps ------------------------------
(***************************************************************************)
(* The effect of each method of queue.Queue (internal/queue/queue.go) on   *)
(* the items, the current index and the playback mode.  A queue is a       *)
(* record [items, cur, mode]: items is the play order, cur the 0-based     *)
(* currentIndex of the code (cur = Len(items) is the past-end sentinel).   *)
(* Methods that draw random numbers return the SET of queues they may      *)
(* leave behind.  The version counter and the lock belong to the modules   *)
(* that use these operators, which call each of them in one atomic step.   *)
(***************************************************************************)
EXTENDS Integers, SequencesExt

CONSTANT NoItem          \* the nil MediaItem returned by Current()

Modes == {"one-shot", "repeat", "random"}

\* NewQueue(): empty, index 0, one-shot.
EmptyQueue == [items |-> <<>>, cur |-> 0, mode |-> "one-shot"]

\* Every queue over a set of items; cur never leaves 0 .. Len(items).
QueueOver(Items) ==
  {q \in [items : Seq(Items), cur : Nat, mode : Modes] : q.cur <= Len(q.items)}

Idle(q) == q.cur >= Len(q.items)

Current(q) == IF Idle(q) THEN NoItem ELSE q.items[q.cur + 1]

\* The items reordered by p: position i receives the item of position p[i].
Reordered(s, p) == [i \in 1..Len(s) |-> s[p[i]]]

\* Mutant of Orders: an index may be drawn twice.
OrdersWithRepeats(s) == [1..Len(s) -> 1..Len(s)]

Orders(s) == Bijection(1..Len(s), 1..Len(s))

\* shuffleAfterCurrentLocked: everything up to the current item stays put.
ShuffledAfterCurrent(q) ==
  {[q EXCEPT !.items = Reordered(q.items, p)] :
     p \in {o \in Orders(q.items) :
              \A i \in 1..Len(q.items) : i <= q.cur + 1 => o[i] = i}}

\* Mutant of Reshuffled: the lap may open with the item that just played.
ReshuffledFreely(q, last) ==
  {[q EXCEPT !.items = Reordered(q.items, p)] : p \in Orders(q.items)}

\* reshuffleLocked(last): any order that does not open with the item at the
\* 0-based index last, unless there is nothing else to open with.
Reshuffled(q, last) ==
  {[q EXCEPT !.items = Reordered(q.items, p)] :
     p \in {o \in Orders(q.items) :
              (Len(q.items) > 1 /\ last >= 0) => o[1] # last + 1}}

\* SetMode: only entering random mode shuffles.
WithMode(q, m) ==
  LET q2 == [q EXCEPT !.mode = m]
  IN  IF m = "random" /\ q.mode # "random" THEN ShuffledAfterCurrent(q2) ELSE {q2}

\* Mutant of Appended: a random position among all items.
AppendedAnywhere(q, x) ==
  {[q EXCEPT !.items = InsertAt(q.items, pos + 1, x)] :
     pos \in IF q.mode = "random" THEN 0..Len(q.items) ELSE {Len(q.items)}}

\* Append: in random mode, while something is current, the item lands anywhere
\* behind the current one; otherwise at the end.
Appended(q, x) ==
  LET positions == IF q.mode = "random" /\ ~Idle(q)
                   THEN (q.cur + 1)..Len(q.items)
                   ELSE {Len(q.items)}
  IN  {[q EXCEPT !.items = InsertAt(q.items, pos + 1, x)] : pos \in positions}

\* Insert at a 0-based index.  The index is shifted when it is at or behind
\* the insertion point and below the index of the last item of the NEW list.
Inserted(q, index, x) ==
  IF index \in 0..Len(q.items)
  THEN [items |-> InsertAt(q.items, index + 1, x),
        cur   |-> IF index <= q.cur /\ q.cur < Len(q.items) THEN q.cur + 1 ELSE q.cur,
        mode  |-> q.mode]
  ELSE q

\* Remove the item at a 0-based index; an invalid index changes nothing.
Removed(q, index) ==
  IF index \in 0..(Len(q.items) - 1)
  THEN [items |-> RemoveAt(q.items, index + 1),
        cur   |-> IF index < q.cur THEN q.cur - 1 ELSE q.cur,
        mode  |-> q.mode]
  ELSE q

\* nextLocked: one step forward, or what the mode says at the end.
Advanced(q) ==
  LET n == Len(q.items)
  IN  CASE n = 0            -> {q}
        [] n > 0 /\ q.cur < n - 1 -> {[q EXCEPT !.cur = @ + 1]}
        [] n > 0 /\ q.cur >= n - 1 /\ q.mode = "repeat" -> {[q EXCEPT !.cur = 0]}
        [] n > 0 /\ q.cur >= n - 1 /\ q.mode = "random" ->
             {[r EXCEPT !.cur = 0] :
                r \in Reshuffled(q, IF q.cur < n THEN q.cur ELSE -1)}
        [] n > 0 /\ q.cur >= n - 1 /\ q.mode = "one-shot" -> {[q EXCEPT !.cur = n]}

\* JumpTo: an index outside the list is an error and moves nothing.
Jumped(q, index) ==
  IF index \in 0..(Len(q.items) - 1) THEN [q EXCEPT !.cur = index] ELSE q

\* Mutant of Emptied: the index is not reset.
EmptiedKeepsIndex(q) == [q EXCEPT !.items = <<>>]

Rewound(q)  == [q EXCEPT !.cur = 0]                        \* Reset
Emptied(q)  == [items |-> <<>>, cur |-> 0, mode |-> q.mode] \* Clear
Finished(q) == [q EXCEPT !.cur = Len(q.items)]             \* FinishIfUnchanged
=============================================================================
