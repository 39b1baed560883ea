---------------------------- MODULE QueueProofs ----------------------------
(***************************************************************************)
(* What holds of queue.Queue for every set of items, every set of snapshot *)
(* holders and every length of run.                                        *)
(***************************************************************************)
EXTENDS Queue, QueueOpsProofs

\* Every mutator sets q' to the outcome of an operator, so it keeps the type.
LEMMA MutatorType ==
  ASSUME TypeOK, Next, ~(\E c \in Clients : Snapshot(c))
  PROVE  q' \in QueueOver(Items) /\ version' = version + 1 /\ UNCHANGED snap
<1> USE DEF TypeOK, Bump
<1>1. Indices \subseteq Int
  BY QueueParts DEF Indices
<1>2. CASE \E m \in Modes : SetMode(m)
  BY <1>2, WithModeType DEF SetMode
<1>3. CASE Randomize
  BY <1>3, ShuffleType DEF Randomize
<1>4. CASE \E x \in Items : AppendItem(x)
  BY <1>4, AppendedType DEF AppendItem
<1>5. CASE \E x \in Items : \E i \in Indices : InsertItem(i, x)
  BY <1>1, <1>5, InsertedType DEF InsertItem
<1>6. CASE \E i \in Indices : RemoveItem(i)
  BY <1>1, <1>6, RemovedType DEF RemoveItem
<1>7. CASE NextItem
  BY <1>7, AdvancedType DEF NextItem
<1>8. CASE \E i \in Indices : JumpTo(i)
  BY <1>1, <1>8, MovedType DEF JumpTo
<1>9. CASE Reset
  BY <1>9, MovedType DEF Reset
<1>10. CASE ClearAll
  BY <1>10, MovedType DEF ClearAll
<1>11. CASE \E c \in Clients : Conditional(c)
  BY <1>11, AdvancedType, MovedType DEF Conditional, NextIfUnchanged, FinishIfUnchanged
<1>12. QED
  BY <1>2, <1>3, <1>4, <1>5, <1>6, <1>7, <1>8, <1>9, <1>10, <1>11 DEF Next

(* The index stays within the list and snapshots are queues, whatever      *)
(* sequence of methods is called (queue.go: Current, nextLocked).          *)
THEOREM TypeCorrect == Spec => []TypeOK
<1>1. Init => TypeOK
  <2>1. EmptyQueue \in QueueOver(Items)
    <3>1. <<>> \in Seq(Items) /\ 0 \in 0..Len(<<>>) /\ "one-shot" \in Modes
      BY EmptySeq DEF Modes
    <3>2. QED
      BY <3>1, QueueBuild DEF EmptyQueue
  <2>2. QED
    BY <2>1 DEF Init, TypeOK, Snapshots
<1>2. TypeOK /\ [Next]_vars => TypeOK'
  <2> SUFFICES ASSUME TypeOK, [Next]_vars PROVE TypeOK'
    OBVIOUS
  <2>1. CASE \E c \in Clients : Snapshot(c)
    BY <2>1 DEF TypeOK, Snapshot, Snapshots
  <2>2. CASE Next /\ ~(\E c \in Clients : Snapshot(c))
    BY <2>2, MutatorType DEF TypeOK
  <2>3. CASE UNCHANGED vars
    BY <2>3 DEF TypeOK, vars
  <2>4. QED
    BY <2>1, <2>2, <2>3
<1>3. QED
  BY <1>1, <1>2, PTL DEF Spec

(* Equal versions mean an unchanged queue.  It is inductive together with  *)
(* the types: a mutator makes the version larger than every snapshot's.    *)
THEOREM VersionSafety == Spec => []VersionIdentifiesQueue
<1>1. Init => VersionIdentifiesQueue
  BY DEF Init, VersionIdentifiesQueue
<1>2. TypeOK /\ VersionIdentifiesQueue /\ [Next]_vars => VersionIdentifiesQueue'
  <2> SUFFICES ASSUME TypeOK, VersionIdentifiesQueue, [Next]_vars,
                      NEW c \in Clients
               PROVE  /\ snap'[c].version <= version'
                      /\ snap'[c].version = version' => snap'[c].q = q'
    BY DEF VersionIdentifiesQueue
  <2>0. version \in Nat /\ snap[c].version \in Nat /\ snap[c].version <= version
    BY DEF TypeOK, Snapshots, VersionIdentifiesQueue
  <2>1. CASE \E k \in Clients : Snapshot(k)
    <3>1. PICK k \in Clients : Snapshot(k)
      BY <2>1
    <3>2. CASE k = c
      BY <3>1, <3>2, <2>0 DEF Snapshot, TypeOK
    <3>3. CASE k # c
      BY <3>1, <3>3, <2>0 DEF Snapshot, TypeOK, VersionIdentifiesQueue
    <3>4. QED
      BY <3>2, <3>3
  <2>2. CASE Next /\ ~(\E k \in Clients : Snapshot(k))
    BY <2>0, <2>2, MutatorType
  <2>3. CASE UNCHANGED vars
    BY <2>3 DEF vars, VersionIdentifiesQueue
  <2>4. QED
    BY <2>1, <2>2, <2>3
<1>3. QED
  BY <1>1, <1>2, TypeCorrect, PTL DEF Spec

(* A conditional move only ever moves the queue its caller saw.            *)
THEOREM ConditionalSafety == Spec => ConditionalMovesSeenQueue
<1>1. VersionIdentifiesQueue /\ [Next]_vars
        => [\A c \in Clients : Conditional(c) => q = snap[c].q]_vars
  BY DEF VersionIdentifiesQueue, Conditional, NextIfUnchanged, FinishIfUnchanged
<1>2. QED
  BY <1>1, VersionSafety, PTL DEF Spec, ConditionalMovesSeenQueue

-----------------------------------------------------------------------------
(***************************************************************************)
(* No item is ever twice in the list.                                      *)
(***************************************************************************)
Distinct(s) == \A i, j \in 1..Len(s) : s[i] = s[j] => i = j

\* A permuted list has its items in other places.
LEMMA ReorderedDistinct ==
  ASSUME NEW s \in Seq(Items), Distinct(s), NEW p \in Orders(s)
  PROVE  Distinct(Reordered(s, p))
<1>1. Len(Reordered(s, p)) = Len(s)
  BY ReorderedType
<1>2. /\ p \in [1..Len(s) -> 1..Len(s)]
      /\ \A i, j \in 1..Len(s) : p[i] = p[j] => i = j
  BY DEF Orders, Bijection, Injection, IsInjective
<1>3. \A i \in 1..Len(s) : Reordered(s, p)[i] = s[p[i]]
  BY DEF Reordered
<1> QED
  BY <1>1, <1>2, <1>3 DEF Distinct

\* Where RemoveAt puts the items of the list.
LEMMA RemoveAtPlaces ==
  ASSUME NEW s \in Seq(Items), NEW i \in 1..Len(s), NEW k \in 1..(Len(s) - 1)
  PROVE  RemoveAt(s, i)[k] = IF k < i THEN s[k] ELSE s[k + 1]
<1> DEFINE front == SubSeq(s, 1, i - 1)
           back  == SubSeq(s, i + 1, Len(s))
<1>1. /\ front \in Seq(Items) /\ Len(front) = i - 1
      /\ \A j \in 1..(i - 1) : front[j] = s[j]
  BY SubSeqProperties
<1>2. /\ back \in Seq(Items) /\ Len(back) = Len(s) - i
      /\ \A j \in 1..(Len(s) - i) : back[j] = s[i + j]
  BY SubSeqProperties
<1> HIDE DEF front, back
<1>3. (front \o back)[k] = IF k < i THEN front[k] ELSE back[k - i + 1]
  BY <1>1, <1>2, ConcatProperties
<1>4. (front \o back)[k] = IF k < i THEN s[k] ELSE s[k + 1]
  BY <1>1, <1>2, <1>3
<1> QED
  BY <1>4 DEF RemoveAt, front, back

\* A new item is none of the others, and those stay apart.
LEMMA InsertAtDistinct ==
  ASSUME NEW s \in Seq(Items), Distinct(s), NEW x \in Items, x \notin ToSet(s),
         NEW i \in 1..(Len(s) + 1)
  PROVE  Distinct(InsertAt(s, i, x))
<1> DEFINE t == InsertAt(s, i, x)
<1>1. Len(t) = Len(s) + 1
  BY InsertAtType
<1>2. \A k \in 1..(Len(s) + 1) :
        t[k] = IF k < i THEN s[k] ELSE IF k = i THEN x ELSE s[k - 1]
  BY InsertAtPlaces
<1>3. \A k \in 1..Len(s) : s[k] # x
  BY DEF ToSet
<1> HIDE DEF t
<1>4. ASSUME NEW a \in 1..(Len(s) + 1), NEW b \in 1..(Len(s) + 1), a < b, t[a] = t[b]
      PROVE  FALSE
  <2>1. /\ t[a] = IF a < i THEN s[a] ELSE IF a = i THEN x ELSE s[a - 1]
        /\ t[b] = IF b < i THEN s[b] ELSE IF b = i THEN x ELSE s[b - 1]
    BY <1>2
  <2>2. \A j, k \in 1..Len(s) : s[j] = s[k] => j = k
    BY DEF Distinct
  <2>0. Len(s) \in Nat /\ a \in Int /\ b \in Int /\ i \in Int
    OBVIOUS
  <2>3. CASE a = i
    <3>1. b - 1 \in 1..Len(s) /\ ~(b < i) /\ b # i
      BY <1>4, <2>0, <2>3
    <3>2. t[a] = x /\ t[b] = s[b - 1]
      BY <2>1, <2>0, <2>3, <3>1
    <3> QED
      BY <1>3, <1>4, <3>1, <3>2
  <2>4. CASE b = i
    <3>1. a \in 1..Len(s) /\ a < i /\ ~(b < i)
      BY <1>4, <2>0, <2>4
    <3>2. t[b] = x /\ t[a] = s[a]
      BY <2>1, <2>4, <3>1
    <3> QED
      BY <1>3, <1>4, <3>1, <3>2
  <2>5. CASE a # i /\ b # i
    <3> DEFINE c == IF a < i THEN a ELSE a - 1
               d == IF b < i THEN b ELSE b - 1
    <3>1. c \in 1..Len(s) /\ d \in 1..Len(s) /\ c < d
      BY <1>4, <2>0, <2>5
    <3>2. t[a] = s[c] /\ t[b] = s[d]
      BY <2>1, <2>5
    <3> HIDE DEF c, d
    <3>3. s[c] = s[d]
      BY <1>4, <3>2
    <3>4. c = d
      BY <2>2, <3>1, <3>3
    <3>5. c # d
      BY <3>1
    <3> QED
      BY <3>4, <3>5
  <2> QED
    BY <2>3, <2>4, <2>5
<1>5. Distinct(t)
  <2> SUFFICES ASSUME NEW a \in 1..Len(t), NEW b \in 1..Len(t), t[a] = t[b]
               PROVE  a = b
    BY DEF Distinct
  <2> QED
    BY <1>1, <1>4
<1> QED
  BY <1>5 DEF t

\* Removing an item brings no two places together.
LEMMA RemoveAtDistinct ==
  ASSUME NEW s \in Seq(Items), Distinct(s), NEW i \in 1..Len(s)
  PROVE  Distinct(RemoveAt(s, i))
<1> DEFINE t == RemoveAt(s, i)
<1>1. Len(t) = Len(s) - 1
  BY RemoveAtType
<1>2. \A k \in 1..(Len(s) - 1) : t[k] = IF k < i THEN s[k] ELSE s[k + 1]
  BY RemoveAtPlaces
<1> HIDE DEF t
<1>3. ASSUME NEW a \in 1..(Len(s) - 1), NEW b \in 1..(Len(s) - 1), a < b, t[a] = t[b]
      PROVE  FALSE
  <2>1. /\ t[a] = IF a < i THEN s[a] ELSE s[a + 1]
        /\ t[b] = IF b < i THEN s[b] ELSE s[b + 1]
    BY <1>2
  <2>2. \A j, k \in 1..Len(s) : s[j] = s[k] => j = k
    BY DEF Distinct
  <2> DEFINE c == IF a < i THEN a ELSE a + 1
             d == IF b < i THEN b ELSE b + 1
  <2>3. c \in 1..Len(s) /\ d \in 1..Len(s) /\ c < d
    BY <1>3
  <2>4. t[a] = s[c] /\ t[b] = s[d]
    BY <2>1
  <2> HIDE DEF c, d
  <2>5. s[c] = s[d]
    BY <1>3, <2>4
  <2>6. c = d
    BY <2>2, <2>3, <2>5
  <2>7. c # d
    BY <2>3
  <2> QED
    BY <2>6, <2>7
<1>4. Distinct(t)
  <2> SUFFICES ASSUME NEW a \in 1..Len(t), NEW b \in 1..Len(t), t[a] = t[b]
               PROVE  a = b
    BY DEF Distinct
  <2> QED
    BY <1>1, <1>3
<1> QED
  BY <1>4 DEF t

\* Shuffling permutes what is behind the current item, reshuffling all items.
LEMMA ShuffledDistinct ==
  ASSUME NEW r \in QueueOver(Items), Distinct(r.items), NEW p \in Orders(r.items)
  PROVE  Distinct([r EXCEPT !.items = Reordered(r.items, p)].items)
<1>1. [r EXCEPT !.items = Reordered(r.items, p)].items = Reordered(r.items, p)
  BY QueueParts
<1>2. Distinct(Reordered(r.items, p))
  BY QueueParts, ReorderedDistinct
<1> QED
  BY <1>1, <1>2

\* Changing the mode shuffles at most.
LEMMA WithModeDistinct ==
  ASSUME NEW r \in QueueOver(Items), Distinct(r.items), NEW m \in Modes,
         NEW t \in WithMode(r, m)
  PROVE  Distinct(t.items)
<1> DEFINE r2 == [r EXCEPT !.mode = m]
<1>1. r2 \in QueueOver(Items)
  <2>1. r2 = [items |-> r.items, cur |-> r.cur, mode |-> m]
    BY QueueParts
  <2> QED
    BY <2>1, QueueParts, QueueBuild
<1>2. r2.items = r.items
  BY QueueParts
<1>3. t = r2 \/ t \in ShuffledAfterCurrent(r2)
  BY DEF WithMode
<1> HIDE DEF r2
<1>4. CASE t \in ShuffledAfterCurrent(r2)
  BY <1>1, <1>2, <1>4, ShuffledDistinct DEF ShuffledAfterCurrent
<1> QED
  BY <1>2, <1>3, <1>4

\* Advancing moves the index, and reshuffles at most.
LEMMA AdvancedDistinct ==
  ASSUME NEW r \in QueueOver(Items), Distinct(r.items), NEW t \in Advanced(r)
  PROVE  Distinct(t.items)
<1> DEFINE n == Len(r.items)
           last == IF r.cur < n THEN r.cur ELSE -1
<1>0. n \in Nat /\ r.cur \in 0..n /\ r.mode \in {"one-shot", "repeat", "random"}
  BY QueueParts DEF Modes
<1>1. \/ t = r
      \/ \E k \in {0, n, r.cur + 1} : t = [r EXCEPT !.cur = k]
      \/ \E u \in Reshuffled(r, last) : t = [u EXCEPT !.cur = 0]
  BY <1>0 DEF Advanced
<1>2. CASE \E u \in Reshuffled(r, last) : t = [u EXCEPT !.cur = 0]
  <2>1. PICK u \in Reshuffled(r, last) : t = [u EXCEPT !.cur = 0]
    BY <1>2
  <2>2. PICK p \in Orders(r.items) : u = [r EXCEPT !.items = Reordered(r.items, p)]
    BY DEF Reshuffled
  <2>3. Distinct(u.items)
    BY <2>2, ShuffledDistinct
  <2>4. t.items = u.items
    BY <2>1, <2>2, QueueParts
  <2> QED
    BY <2>3, <2>4
<1>3. CASE \E k \in {0, n, r.cur + 1} : t = [r EXCEPT !.cur = k]
  <2>1. t.items = r.items
    BY <1>3, QueueParts
  <2> QED
    BY <2>1
<1> QED
  BY <1>1, <1>2, <1>3

\* Append inserts an item that is not in the list.
LEMMA AppendedDistinct ==
  ASSUME NEW r \in QueueOver(Items), Distinct(r.items), NEW x \in Items,
         x \notin ToSet(r.items), NEW t \in Appended(r, x)
  PROVE  Distinct(t.items)
<1>1. PICK pos \in r.cur..Len(r.items) :
        t = [r EXCEPT !.items = InsertAt(r.items, pos + 1, x)]
  BY QueueParts DEF Appended, Idle
<1>2. pos + 1 \in 1..(Len(r.items) + 1)
  BY QueueParts
<1>3. t.items = InsertAt(r.items, pos + 1, x)
  BY <1>1, QueueParts
<1> QED
  BY <1>2, <1>3, QueueParts, InsertAtDistinct

(* The list never holds an item twice, whatever is appended, inserted,     *)
(* removed and shuffled (queue.go:97-130): a permutation is injective, and *)
(* a caller builds a new item for every Append.                            *)
THEOREM NoneTwice == Spec => []NoDuplicates
<1>1. Init => NoDuplicates
  BY DEF Init, EmptyQueue, NoDuplicates
<1>2. TypeOK /\ NoDuplicates /\ [Next]_vars => NoDuplicates'
  <2> SUFFICES ASSUME TypeOK, Distinct(q.items), [Next]_vars
               PROVE  Distinct(q'.items)
    BY DEF NoDuplicates, Distinct
  <2>0. q \in QueueOver(Items) /\ Indices \subseteq Int
    BY QueueParts DEF TypeOK, Indices
  <2>1. ASSUME NEW m \in Modes, SetMode(m) PROVE Distinct(q'.items)
    BY <2>0, <2>1, WithModeDistinct DEF SetMode
  <2>2. CASE Randomize
    BY <2>0, <2>2, ShuffledDistinct DEF Randomize, ShuffledAfterCurrent
  <2>3. ASSUME NEW x \in Items, AppendItem(x) PROVE Distinct(q'.items)
    BY <2>0, <2>3, AppendedDistinct DEF AppendItem, Fresh
  <2>4. ASSUME NEW x \in Items, NEW i \in Indices, InsertItem(i, x)
        PROVE  Distinct(q'.items)
    <3>1. i \in Int /\ x \notin ToSet(q.items) /\ q' = Inserted(q, i, x)
      BY <2>0, <2>4 DEF InsertItem, Fresh
    <3>2. CASE i \in 0..Len(q.items)
      <4>1. q'.items = InsertAt(q.items, i + 1, x)
        BY <3>1, <3>2 DEF Inserted
      <4>2. i + 1 \in 1..(Len(q.items) + 1)
        BY <2>0, <3>2, QueueParts
      <4> QED
        BY <2>0, <3>1, <4>1, <4>2, QueueParts, InsertAtDistinct
    <3> QED
      BY <3>1, <3>2 DEF Inserted
  <2>5. ASSUME NEW i \in Indices, RemoveItem(i) PROVE Distinct(q'.items)
    <3>1. i \in Int /\ q' = Removed(q, i)
      BY <2>0, <2>5 DEF RemoveItem
    <3>2. CASE i \in 0..(Len(q.items) - 1)
      <4>1. q'.items = RemoveAt(q.items, i + 1)
        BY <3>1, <3>2 DEF Removed
      <4>2. i + 1 \in 1..Len(q.items)
        BY <2>0, <3>2, QueueParts
      <4> QED
        BY <2>0, <4>1, <4>2, QueueParts, RemoveAtDistinct
    <3> QED
      BY <3>1, <3>2 DEF Removed
  <2>6. CASE NextItem \/ \E c \in Clients : NextIfUnchanged(c)
    BY <2>0, <2>6, AdvancedDistinct DEF NextItem, NextIfUnchanged
  <2>7. ASSUME \/ \E i \in Indices : JumpTo(i)
               \/ Reset
               \/ \E c \in Clients : FinishIfUnchanged(c) \/ Snapshot(c)
               \/ UNCHANGED vars
        PROVE  Distinct(q'.items)
    <3>1. q'.items = q.items
      BY <2>0, <2>7, QueueParts
      DEF JumpTo, Jumped, Reset, Rewound, FinishIfUnchanged, Finished, Snapshot, vars
    <3> QED
      BY <3>1
  <2>8. CASE ClearAll
    BY <2>8 DEF ClearAll, Emptied, Distinct
  <2> QED
    BY <2>1, <2>2, <2>3, <2>4, <2>5, <2>6, <2>7, <2>8 DEF Next, Conditional
<1> QED
  BY <1>1, <1>2, TypeCorrect, PTL DEF Spec

-----------------------------------------------------------------------------
(***************************************************************************)
(* What has been played stays in its place.                                *)
(***************************************************************************)
\* Shuffling moves only what is behind the current item.
LEMMA ShuffledAlike ==
  ASSUME NEW r \in QueueOver(Items), NEW t \in ShuffledAfterCurrent(r)
  PROVE  PlayedAlike(r, t)
<1>1. PICK p \in Orders(r.items) :
        /\ \A i \in 1..Len(r.items) : i <= r.cur + 1 => p[i] = i
        /\ t = [r EXCEPT !.items = Reordered(r.items, p)]
  BY DEF ShuffledAfterCurrent
<1>2. t.cur = r.cur /\ t.items = Reordered(r.items, p)
  BY <1>1, QueueParts
<1>3. \A i \in 1..Len(r.items) : Reordered(r.items, p)[i] = r.items[p[i]]
  BY DEF Reordered
<1> QED
  BY <1>1, <1>2, <1>3 DEF PlayedAlike

\* So does a change to random mode; any other moves nothing.
LEMMA WithModeAlike ==
  ASSUME NEW r \in QueueOver(Items), NEW m \in Modes, NEW t \in WithMode(r, m)
  PROVE  PlayedAlike(r, t)
<1> DEFINE r2 == [r EXCEPT !.mode = m]
<1>1. r2 \in QueueOver(Items)
  <2>1. r2 = [items |-> r.items, cur |-> r.cur, mode |-> m]
    BY QueueParts
  <2> QED
    BY <2>1, QueueParts, QueueBuild
<1>2. r2.items = r.items /\ r2.cur = r.cur
  BY QueueParts
<1>3. t = r2 \/ t \in ShuffledAfterCurrent(r2)
  BY DEF WithMode
<1> HIDE DEF r2
<1>4. CASE t = r2
  BY <1>2, <1>4 DEF PlayedAlike
<1>5. CASE t \in ShuffledAfterCurrent(r2)
  <2>1. PlayedAlike(r2, t)
    BY <1>1, <1>5, ShuffledAlike
  <2> QED
    BY <1>2, <2>1 DEF PlayedAlike
<1> QED
  BY <1>3, <1>4, <1>5

(* Appending, changing the mode and shuffling leave the index and every    *)
(* item up to the current one alone (queue.go: Append, SetMode,            *)
(* shuffleAfterCurrentLocked), in whatever order they are called.          *)
THEOREM PlayedPartSafety == Spec => PlayedPartKept
<1>1. TypeOK /\ [Next]_vars
        => [(\/ \E x \in Items : AppendItem(x)
             \/ \E m \in Modes : SetMode(m)
             \/ Randomize)
            => /\ q'.cur = q.cur
               /\ \A i \in 1..Len(q.items) : i <= q.cur + 1 => q'.items[i] = q.items[i]]_vars
  <2> SUFFICES ASSUME TypeOK,
                      \/ \E x \in Items : AppendItem(x)
                      \/ \E m \in Modes : SetMode(m)
                      \/ Randomize
               PROVE  PlayedAlike(q, q')
    BY DEF PlayedAlike
  <2>0. q \in QueueOver(Items)
    BY DEF TypeOK
  <2>1. CASE \E x \in Items : AppendItem(x)
    BY <2>0, <2>1, AppendedAlike DEF AppendItem
  <2>2. CASE \E m \in Modes : SetMode(m)
    BY <2>0, <2>2, WithModeAlike DEF SetMode
  <2>3. CASE Randomize
    BY <2>0, <2>3, ShuffledAlike DEF Randomize
  <2> QED
    BY <2>1, <2>2, <2>3
<1> QED
  BY <1>1, TypeCorrect, PTL DEF Spec, PlayedPartKept

-----------------------------------------------------------------------------
(***************************************************************************)
(* The queue implements Playlist.  Of a list without repetitions it is     *)
(* enough to know the items, those behind the index and the current one:   *)
(* Parts says that what is ahead is the rest.                              *)
(***************************************************************************)
Heard(r) == {r.items[i] : i \in {j \in 1..Len(r.items) : j <= r.cur}}
Ahead(r) == {r.items[i] : i \in {j \in 1..Len(r.items) : j > r.cur + 1}}

\* The items of a list are what stands at its indices.
LEMMA Members ==
  ASSUME NEW s \in Seq(Items)
  PROVE  ToSet(s) = {s[i] : i \in 1..Len(s)} /\ ToSet(s) \subseteq Items
BY DEF ToSet

\* The three places of Playlist are a partition of the items of the list.
LEMMA Parts ==
  ASSUME NEW r \in QueueOver(Items), Distinct(r.items)
  PROVE  /\ Heard(r) \subseteq ToSet(r.items)
         /\ Current(r) \notin Heard(r)
         /\ Current(r) \in ToSet(r.items) \/ Current(r) = NoItem
         /\ Current(r) = NoItem <=> r.cur = Len(r.items)
         /\ Ahead(r) = ToSet(r.items) \ (Heard(r) \cup {Current(r)})
         /\ ToSet(r.items) \subseteq Items
         /\ Heard(r) \cup Ahead(r) \cup ({Current(r)} \ {NoItem}) = ToSet(r.items)
<1> DEFINE s == r.items
<1>1. s \in Seq(Items) /\ Len(s) \in Nat /\ r.cur \in 0..Len(s)
  BY QueueParts
<1>2. \A i, j \in 1..Len(s) : s[i] = s[j] => i = j
  BY DEF Distinct
<1>3. ToSet(s) = {s[i] : i \in 1..Len(s)} /\ ToSet(s) \subseteq Items
  BY <1>1, Members
<1>4. /\ Heard(r) = {s[i] : i \in {j \in 1..Len(s) : j <= r.cur}}
      /\ Ahead(r) = {s[i] : i \in {j \in 1..Len(s) : j > r.cur + 1}}
      /\ Current(r) = IF r.cur >= Len(s) THEN NoItem ELSE s[r.cur + 1]
  BY DEF Heard, Ahead, Current, Idle
<1>5. NoItem \notin Items
  BY NoItemAssumption
<1> HIDE DEF s
<1>6. Heard(r) \subseteq ToSet(s)
  BY <1>3, <1>4
<1>7. CASE r.cur = Len(s)
  <2>1. Current(r) = NoItem
    BY <1>1, <1>4, <1>7
  <2>2. Heard(r) = ToSet(s) /\ Ahead(r) = {}
    BY <1>1, <1>3, <1>4, <1>7
  <2> QED
    BY <1>3, <1>5, <1>7, <2>1, <2>2 DEF s
<1>8. CASE r.cur # Len(s)
  <2>1. r.cur + 1 \in 1..Len(s) /\ Current(r) = s[r.cur + 1]
    BY <1>1, <1>4, <1>8
  <2>2. Current(r) \in ToSet(s) /\ Current(r) # NoItem
    BY <1>3, <1>5, <2>1
  <2>3. Current(r) \notin Heard(r)
    <3> SUFFICES ASSUME NEW j \in 1..Len(s), j <= r.cur, s[j] = s[r.cur + 1]
                 PROVE  FALSE
      BY <1>4, <2>1
    <3>1. j = r.cur + 1
      BY <1>2, <2>1
    <3> QED
      BY <1>1, <3>1
  <2>4. ASSUME NEW x PROVE x \in Ahead(r) <=> x \in ToSet(s) \ (Heard(r) \cup {Current(r)})
    <3>1. ASSUME NEW k \in 1..Len(s), k > r.cur + 1
          PROVE  s[k] \notin Heard(r) /\ s[k] # Current(r)
      <4>1. s[k] # s[r.cur + 1]
        BY <1>1, <1>2, <2>1, <3>1
      <4>2. ASSUME NEW j \in 1..Len(s), j <= r.cur PROVE s[k] # s[j]
        BY <1>1, <1>2, <3>1, <4>2
      <4> QED
        BY <1>4, <2>1, <4>1, <4>2
    <3>2. ASSUME NEW k \in 1..Len(s), s[k] \notin Heard(r), s[k] # Current(r)
          PROVE  k > r.cur + 1
      <4>1. ~(k <= r.cur) /\ k # r.cur + 1
        BY <1>4, <2>1, <3>2
      <4> QED
        BY <1>1, <4>1
    <3>3. x \in Ahead(r) <=> \E k \in 1..Len(s) : k > r.cur + 1 /\ x = s[k]
      BY <1>4
    <3>4. x \in ToSet(s) <=> \E k \in 1..Len(s) : x = s[k]
      BY <1>3
    <3> QED
      BY <3>1, <3>2, <3>3, <3>4
  <2> QED
    BY <1>3, <1>6, <1>8, <2>2, <2>3, <2>4 DEF s
<1> QED
  BY <1>7, <1>8

\* What the builders of lists do to the set of items.
LEMMA ReorderedMembers ==
  ASSUME NEW s \in Seq(Items), NEW p \in Orders(s)
  PROVE  ToSet(Reordered(s, p)) = ToSet(s)
<1>1. /\ p \in [1..Len(s) -> 1..Len(s)]
      /\ \A j \in 1..Len(s) : \E i \in 1..Len(s) : p[i] = j
  BY DEF Orders, Bijection, Injection, Surjection
<1>2. Reordered(s, p) \in Seq(Items) /\ Len(Reordered(s, p)) = Len(s)
  BY ReorderedType
<1>3. \A i \in 1..Len(s) : Reordered(s, p)[i] = s[p[i]]
  BY DEF Reordered
<1> DEFINE t == Reordered(s, p)
<1>4. ToSet(t) = {t[i] : i \in 1..Len(s)} /\ ToSet(s) = {s[i] : i \in 1..Len(s)}
  BY <1>2, Members
<1>5. \A i \in 1..Len(s) : t[i] = s[p[i]]
  BY <1>3
<1> HIDE DEF t
<1>6. ASSUME NEW i \in 1..Len(s) PROVE t[i] \in ToSet(s)
  BY <1>1, <1>4, <1>5
<1>7. ASSUME NEW j \in 1..Len(s) PROVE s[j] \in ToSet(t)
  <2>1. PICK i \in 1..Len(s) : p[i] = j
    BY <1>1
  <2>2. t[i] = s[j]
    BY <1>5, <2>1
  <2> QED
    BY <1>4, <2>2
<1>8. ToSet(t) = ToSet(s)
  BY <1>4, <1>6, <1>7
<1> QED
  BY <1>8 DEF t

\* Inserting adds the new item, removing takes away the one at the index.
LEMMA InsertAtMembers ==
  ASSUME NEW s \in Seq(Items), NEW x \in Items, NEW i \in 1..(Len(s) + 1)
  PROVE  ToSet(InsertAt(s, i, x)) = ToSet(s) \cup {x}
<1> DEFINE t == InsertAt(s, i, x)
<1>1. t \in Seq(Items) /\ Len(t) = Len(s) + 1
  BY InsertAtType
<1>2. \A k \in 1..(Len(s) + 1) :
        t[k] = IF k < i THEN s[k] ELSE IF k = i THEN x ELSE s[k - 1]
  BY InsertAtPlaces
<1>3. ToSet(t) = {t[k] : k \in 1..(Len(s) + 1)} /\ ToSet(s) = {s[k] : k \in 1..Len(s)}
  BY <1>1, Members
<1> HIDE DEF t
<1>4. ASSUME NEW k \in 1..(Len(s) + 1) PROVE t[k] \in ToSet(s) \cup {x}
  <2>1. k < i => k \in 1..Len(s)
    OBVIOUS
  <2>2. k > i => k - 1 \in 1..Len(s)
    OBVIOUS
  <2>3. k < i \/ k = i \/ k > i
    OBVIOUS
  <2>4. k < i => t[k] = s[k]
    BY <1>2
  <2>5. k = i => t[k] = x
    BY <1>2
  <2>6. k > i => t[k] = s[k - 1]
    BY <1>2
  <2> QED
    BY <1>3, <2>1, <2>2, <2>3, <2>4, <2>5, <2>6
<1>5. ASSUME NEW k \in 1..Len(s) PROVE s[k] \in ToSet(t)
  <2>1. CASE k < i
    <3>1. k \in 1..(Len(s) + 1) /\ t[k] = s[k]
      BY <1>2, <2>1
    <3> QED
      BY <1>3, <3>1
  <2>2. CASE ~(k < i)
    <3>1. k + 1 \in 1..(Len(s) + 1) /\ ~(k + 1 < i) /\ k + 1 # i /\ (k + 1) - 1 = k
      BY <2>2
    <3>2. t[k + 1] = s[k]
      BY <1>2, <3>1
    <3> QED
      BY <1>3, <3>1, <3>2
  <2> QED
    BY <2>1, <2>2
<1>6. x \in ToSet(t)
  <2>1. t[i] = x
    BY <1>2
  <2> QED
    BY <1>3, <2>1
<1>7. ToSet(t) = ToSet(s) \cup {x}
  BY <1>3, <1>4, <1>5, <1>6
<1> QED
  BY <1>7 DEF t

LEMMA RemoveAtMembers ==
  ASSUME NEW s \in Seq(Items), Distinct(s), NEW i \in 1..Len(s)
  PROVE  ToSet(RemoveAt(s, i)) = ToSet(s) \ {s[i]}
<1> DEFINE t == RemoveAt(s, i)
<1>1. t \in Seq(Items) /\ Len(t) = Len(s) - 1
  BY RemoveAtType
<1>2. \A k \in 1..(Len(s) - 1) : t[k] = IF k < i THEN s[k] ELSE s[k + 1]
  BY RemoveAtPlaces
<1>3. ToSet(t) = {t[k] : k \in 1..(Len(s) - 1)} /\ ToSet(s) = {s[k] : k \in 1..Len(s)}
  BY <1>1, Members
<1> HIDE DEF t
<1>4. ASSUME NEW k \in 1..(Len(s) - 1) PROVE t[k] \in ToSet(s) \ {s[i]}
  <2> DEFINE c == IF k < i THEN k ELSE k + 1
  <2>1. c \in 1..Len(s) /\ c # i
    OBVIOUS
  <2>2. t[k] = s[c]
    BY <1>2
  <2> HIDE DEF c
  <2> QED
    BY <1>3, <2>1, <2>2 DEF Distinct
<1>5. ASSUME NEW k \in 1..Len(s), k # i PROVE s[k] \in ToSet(t)
  <2>1. CASE k < i
    <3>1. k \in 1..(Len(s) - 1) /\ t[k] = s[k]
      BY <1>2, <2>1
    <3> QED
      BY <1>3, <3>1
  <2>2. CASE ~(k < i)
    <3>1. k - 1 \in 1..(Len(s) - 1) /\ ~(k - 1 < i) /\ (k - 1) + 1 = k
      BY <1>5, <2>2
    <3>2. t[k - 1] = s[k]
      BY <1>2, <3>1
    <3> QED
      BY <1>3, <3>1, <3>2
  <2> QED
    BY <2>1, <2>2
<1>6. ToSet(t) = ToSet(s) \ {s[i]}
  <2>1. ToSet(t) \subseteq ToSet(s) \ {s[i]}
    BY <1>3, <1>4
  <2>2. ASSUME NEW y \in ToSet(s), y # s[i] PROVE y \in ToSet(t)
    BY <1>3, <1>5, <2>2
  <2> QED
    BY <2>1, <2>2
<1> QED
  BY <1>6 DEF t

\* The three places by index.
LEMMA Places ==
  ASSUME NEW r \in QueueOver(Items)
  PROVE  /\ r.items \in Seq(Items) /\ Len(r.items) \in Nat /\ r.cur \in 0..Len(r.items)
         /\ Heard(r) = {r.items[k] : k \in {j \in 1..Len(r.items) : j <= r.cur}}
         /\ r.cur < Len(r.items) =>
              r.cur + 1 \in 1..Len(r.items) /\ Current(r) = r.items[r.cur + 1]
         /\ r.cur = Len(r.items) => Current(r) = NoItem
         /\ Idle(r) <=> r.cur = Len(r.items)
BY QueueParts DEF Heard, Current, Idle

\* The index moves by one, to the end, to the start or to a chosen item.
LEMMA AdvanceStep ==
  ASSUME NEW r \in QueueOver(Items), NEW t \in QueueOver(Items), Distinct(r.items),
         r.cur < Len(r.items) - 1, t.items = r.items, t.cur = r.cur + 1
  PROVE  /\ Current(r) # NoItem
         /\ Current(t) \in Ahead(r)
         /\ Ahead(t) = Ahead(r) \ {Current(t)}
         /\ Heard(t) = Heard(r) \cup {Current(r)}
<1>1. /\ r.items \in Seq(Items) /\ Len(r.items) \in Nat /\ r.cur \in 0..Len(r.items)
      /\ Current(r) = r.items[r.cur + 1]
  BY Places
<1>2. Heard(t) = Heard(r) \cup {Current(r)}
  <2>1. Heard(r) = {r.items[k] : k \in {j \in 1..Len(r.items) : j <= r.cur}}
    BY Places
  <2>2. Heard(t) = {r.items[k] : k \in {j \in 1..Len(r.items) : j <= r.cur + 1}}
    BY Places
  <2>3. {j \in 1..Len(r.items) : j <= r.cur + 1}
          = {j \in 1..Len(r.items) : j <= r.cur} \cup {r.cur + 1}
    BY <1>1
  <2> QED
    BY <1>1, <2>1, <2>2, <2>3
<1>3. Current(r) # NoItem /\ Current(t) # NoItem
  BY <1>1, Parts
<1> QED
  BY <1>2, <1>3, Parts

LEMMA FinishStep ==
  ASSUME NEW r \in QueueOver(Items), NEW t \in QueueOver(Items), Distinct(r.items),
         r.cur < Len(r.items), t.items = r.items, t.cur = Len(r.items)
  PROVE  /\ Current(r) # NoItem /\ Current(t) = NoItem
         /\ Ahead(t) = {} /\ Heard(t) = ToSet(r.items)
<1>1. Current(t) = NoItem
  BY Places
<1>2. Heard(t) = ToSet(r.items)
  <2>1. Heard(t) = {r.items[k] : k \in {j \in 1..Len(r.items) : j <= Len(r.items)}}
    BY Places
  <2>2. {j \in 1..Len(r.items) : j <= Len(r.items)} = 1..Len(r.items)
    BY Places
  <2> QED
    BY <2>1, <2>2, Places, Members
<1>3. Current(r) # NoItem
  BY Places, Parts
<1> QED
  BY <1>1, <1>2, <1>3, Parts

LEMMA SelectStep ==
  ASSUME NEW r \in QueueOver(Items), NEW t \in QueueOver(Items), Distinct(r.items),
         t.items = r.items, t.cur < Len(t.items)
  PROVE  /\ Current(t) \in ToSet(r.items)
         /\ Heard(t) \in SUBSET (ToSet(r.items) \ {Current(t)})
         /\ Ahead(t) = (ToSet(r.items) \ {Current(t)}) \ Heard(t)
<1>1. Current(t) # NoItem
  BY Places, Parts
<1> QED
  BY <1>1, Parts

\* A new lap: the list, perhaps in another order, from its start.
LEMMA WrapStep ==
  ASSUME NEW r \in QueueOver(Items), NEW t \in QueueOver(Items),
         Distinct(r.items), Distinct(t.items), ToSet(t.items) = ToSet(r.items),
         r.cur >= Len(r.items) - 1, t.cur = 0, Len(t.items) > 0
  PROVE  /\ Ahead(r) = {} /\ Heard(t) = {}
         /\ Current(t) \in ToSet(r.items)
         /\ Ahead(t) = ToSet(r.items) \ {Current(t)}
<1>1. Ahead(r) = {}
  <2>1. {j \in 1..Len(r.items) : j > r.cur + 1} = {}
    BY Places
  <2> QED
    BY <2>1 DEF Ahead
<1>2. Heard(t) = {}
  <2>1. {j \in 1..Len(t.items) : j <= t.cur} = {}
    BY Places
  <2> QED
    BY <2>1, Places
<1>3. Current(t) # NoItem
  BY Places, Parts
<1> QED
  BY <1>1, <1>2, <1>3, Parts

\* An item comes in behind the current one, becomes it, or is put before it.
LEMMA PlaceStep ==
  ASSUME NEW r \in QueueOver(Items), NEW t \in QueueOver(Items), Distinct(r.items),
         NEW x \in Items, x \notin ToSet(r.items), NEW i \in 1..(Len(r.items) + 1),
         t.items = InsertAt(r.items, i, x)
  PROVE  /\ r.cur < Len(r.items) /\ t.cur = r.cur /\ i > r.cur + 1 =>
              /\ Current(r) # NoItem /\ Current(t) = Current(r)
              /\ Heard(t) = Heard(r) /\ Ahead(t) = Ahead(r) \cup {x}
         /\ r.cur = Len(r.items) /\ t.cur = r.cur /\ i = r.cur + 1 =>
              /\ Current(r) = NoItem /\ Current(t) = x
              /\ Heard(t) = Heard(r) /\ Ahead(t) = Ahead(r)
         /\ r.cur < Len(r.items) /\ t.cur = r.cur + 1 /\ i <= r.cur + 1 =>
              /\ Current(r) # NoItem /\ Current(t) = Current(r)
              /\ Heard(t) = Heard(r) \cup {x} /\ Ahead(t) = Ahead(r)
<1> DEFINE s == r.items
           u == t.items
<1>1. /\ s \in Seq(Items) /\ Len(s) \in Nat /\ r.cur \in 0..Len(s) /\ i \in 1..(Len(s) + 1)
      /\ Heard(r) = {s[k] : k \in {j \in 1..Len(s) : j <= r.cur}}
      /\ r.cur < Len(s) => Current(r) = s[r.cur + 1]
      /\ r.cur = Len(s) => Current(r) = NoItem
      /\ r.cur < Len(s) => Current(r) # NoItem
  BY Places, Parts
<1>2. Len(u) = Len(s) + 1 /\ ToSet(u) = ToSet(s) \cup {x} /\ Distinct(u)
  BY <1>1, InsertAtType, InsertAtMembers, InsertAtDistinct
<1>3. \A k \in 1..(Len(s) + 1) :
        u[k] = IF k < i THEN s[k] ELSE IF k = i THEN x ELSE s[k - 1]
  BY <1>1, InsertAtPlaces
<1>4. /\ Heard(t) = {u[k] : k \in {j \in 1..Len(u) : j <= t.cur}}
      /\ t.cur < Len(u) => Current(t) = u[t.cur + 1]
  BY Places
<1>5. /\ Current(r) \notin Heard(r) /\ x \notin Heard(r)
      /\ Current(r) \in ToSet(s) \/ Current(r) = NoItem
      /\ Ahead(r) = ToSet(s) \ (Heard(r) \cup {Current(r)})
      /\ Ahead(t) = ToSet(u) \ (Heard(t) \cup {Current(t)})
      /\ x # NoItem /\ x \notin ToSet(s)
  BY <1>2, Parts, NoItemAssumption
<1> HIDE DEF s, u
<1>6. CASE t.cur = r.cur /\ i > r.cur
  <2>1. {j \in 1..Len(u) : j <= t.cur} = {j \in 1..Len(s) : j <= r.cur}
    BY <1>1, <1>2, <1>6
  <2>2. \A k \in {j \in 1..Len(s) : j <= r.cur} : u[k] = s[k]
    BY <1>1, <1>3, <1>6
  <2>3. Heard(t) = Heard(r)
    BY <1>1, <1>4, <2>1, <2>2
  <2>4. CASE r.cur < Len(s) /\ i > r.cur + 1
    <3>1. u[r.cur + 1] = s[r.cur + 1]
      BY <1>1, <1>3, <2>4
    <3>2. Current(t) = Current(r)
      BY <1>1, <1>2, <1>4, <1>6, <2>4, <3>1
    <3>3. x # Current(r)
      BY <1>5
    <3>4. Ahead(t) = Ahead(r) \cup {x}
      BY <1>2, <1>5, <2>3, <3>2, <3>3
    <3> QED
      BY <1>1, <1>6, <2>3, <2>4, <3>2, <3>4 DEF s
  <2>5. CASE r.cur = Len(s) /\ i = r.cur + 1
    <3>1. u[r.cur + 1] = x
      BY <1>1, <1>3, <2>5
    <3>2. Current(t) = x /\ Current(r) = NoItem
      BY <1>1, <1>2, <1>4, <1>6, <2>5, <3>1
    <3>3. NoItem \notin ToSet(s)
      BY <1>1, Members, NoItemAssumption
    <3>4. Ahead(t) = Ahead(r)
      BY <1>2, <1>5, <2>3, <3>2, <3>3
    <3> QED
      BY <1>1, <1>6, <2>3, <2>5, <3>2, <3>4 DEF s
  <2> QED
    BY <1>1, <1>6, <2>4, <2>5 DEF s
<1>7. CASE r.cur < Len(s) /\ t.cur = r.cur + 1 /\ i <= r.cur + 1
  <2>1. u[r.cur + 2] = s[r.cur + 1]
    <3>1. /\ r.cur + 2 \in 1..(Len(s) + 1) /\ ~(r.cur + 2 < i) /\ r.cur + 2 # i
          /\ (r.cur + 2) - 1 = r.cur + 1
      BY <1>1, <1>7
    <3> QED
      BY <1>3, <3>1
  <2>2. Current(t) = Current(r) /\ Current(r) # NoItem
    <3>1. t.cur + 1 = r.cur + 2 /\ t.cur < Len(u)
      BY <1>1, <1>2, <1>7
    <3> QED
      BY <1>1, <1>4, <1>7, <2>1, <3>1
  <2>3. Heard(t) \subseteq Heard(r) \cup {x}
    <3> SUFFICES ASSUME NEW k \in 1..(Len(s) + 1), k <= r.cur + 1
                 PROVE  u[k] \in Heard(r) \cup {x}
      BY <1>2, <1>4, <1>7
    <3>1. CASE k < i
      <4>1. u[k] = s[k] /\ k \in 1..Len(s) /\ k <= r.cur
        BY <1>1, <1>3, <1>7, <3>1
      <4> QED
        BY <1>1, <4>1
    <3>2. CASE k = i
      BY <1>3, <3>2
    <3>3. CASE k > i
      <4>1. k - 1 \in 1..Len(s) /\ k - 1 <= r.cur /\ ~(k < i) /\ k # i
        BY <1>1, <3>3
      <4>2. u[k] = s[k - 1]
        BY <1>3, <4>1
      <4> QED
        BY <1>1, <4>1, <4>2
    <3> QED
      BY <1>1, <3>1, <3>2, <3>3
  <2>4. Heard(r) \subseteq Heard(t)
    <3> SUFFICES ASSUME NEW k \in 1..Len(s), k <= r.cur
                 PROVE  s[k] \in Heard(t)
      BY <1>1
    <3>1. CASE k < i
      <4>1. u[k] = s[k] /\ k \in 1..Len(u) /\ k <= t.cur
        BY <1>1, <1>2, <1>3, <1>7, <3>1
      <4> QED
        BY <1>4, <4>1
    <3>2. CASE ~(k < i)
      <4>1. /\ k + 1 \in 1..(Len(s) + 1) /\ ~(k + 1 < i) /\ k + 1 # i /\ (k + 1) - 1 = k
            /\ k + 1 \in 1..Len(u) /\ k + 1 <= t.cur
        BY <1>1, <1>2, <1>7, <3>2
      <4>2. u[k + 1] = s[k]
        BY <1>3, <4>1
      <4> QED
        BY <1>4, <4>1, <4>2
    <3> QED
      BY <3>1, <3>2
  <2>5. x \in Heard(t)
    <3>1. u[i] = x /\ i \in 1..Len(u) /\ i <= t.cur
      BY <1>1, <1>2, <1>3, <1>7
    <3> QED
      BY <1>4, <3>1
  <2>6. Heard(t) = Heard(r) \cup {x}
    BY <2>3, <2>4, <2>5
  <2>7. Ahead(t) = Ahead(r)
    BY <1>2, <1>5, <2>2, <2>6
  <2> QED
    BY <1>1, <1>7, <2>2, <2>6, <2>7 DEF s
<1> QED
  BY <1>1, <1>6, <1>7 DEF s

\* An item leaves from before the current one, is it, or comes behind it.
LEMMA DropStep ==
  ASSUME NEW r \in QueueOver(Items), NEW t \in QueueOver(Items), Distinct(r.items),
         NEW i \in 1..Len(r.items), t.items = RemoveAt(r.items, i),
         t.cur = IF i <= r.cur THEN r.cur - 1 ELSE r.cur
  PROVE  LET x == r.items[i]
         IN  \/ /\ x \in Heard(r) /\ Heard(t) = Heard(r) \ {x}
                /\ Current(t) = Current(r) /\ Ahead(t) = Ahead(r)
             \/ /\ x \in Ahead(r) /\ Ahead(t) = Ahead(r) \ {x}
                /\ Current(t) = Current(r) /\ Heard(t) = Heard(r)
             \/ /\ x = Current(r) /\ x # NoItem /\ Heard(t) = Heard(r)
                /\ \/ Current(t) \in Ahead(r) /\ Ahead(t) = Ahead(r) \ {Current(t)}
                   \/ Ahead(r) = {} /\ Current(t) = NoItem /\ Ahead(t) = {}
<1> DEFINE s == r.items
           u == t.items
           x == s[i]
<1>1. /\ s \in Seq(Items) /\ Len(s) \in Nat /\ r.cur \in 0..Len(s) /\ i \in 1..Len(s)
      /\ Heard(r) = {s[k] : k \in {j \in 1..Len(s) : j <= r.cur}}
      /\ r.cur < Len(s) => Current(r) = s[r.cur + 1]
      /\ r.cur = Len(s) => Current(r) = NoItem
  BY Places
<1>2. Len(u) = Len(s) - 1 /\ ToSet(u) = ToSet(s) \ {x} /\ Distinct(u)
  BY <1>1, RemoveAtType, RemoveAtMembers, RemoveAtDistinct
<1>3. \A k \in 1..(Len(s) - 1) : u[k] = IF k < i THEN s[k] ELSE s[k + 1]
  BY <1>1, RemoveAtPlaces
<1>4. /\ Heard(t) = {u[k] : k \in {j \in 1..Len(u) : j <= t.cur}}
      /\ t.cur < Len(u) => Current(t) = u[t.cur + 1]
      /\ t.cur = Len(u) => Current(t) = NoItem
      /\ t.cur \in 0..Len(u)
  BY Places
<1>5. /\ Current(r) \notin Heard(r)
      /\ Current(r) \in ToSet(s) \/ Current(r) = NoItem
      /\ Ahead(r) = ToSet(s) \ (Heard(r) \cup {Current(r)})
      /\ Ahead(t) = ToSet(u) \ (Heard(t) \cup {Current(t)})
      /\ Current(t) \notin Heard(t)
      /\ Current(t) \in ToSet(u) \/ Current(t) = NoItem
      /\ x # NoItem /\ x \in ToSet(s)
  BY <1>1, <1>2, Parts, Members, NoItemAssumption
<1>6. \A j, k \in 1..Len(s) : s[j] = s[k] => j = k
  BY DEF Distinct
<1>7. t.cur = IF i <= r.cur THEN r.cur - 1 ELSE r.cur
  OBVIOUS
<1> HIDE DEF s, u, x
<1>8. CASE i <= r.cur
  <2>0. x \in Heard(r)
    BY <1>1, <1>8 DEF x
  <2>1. Heard(t) \subseteq Heard(r) \ {x}
    <3> SUFFICES ASSUME NEW k \in 1..(Len(s) - 1), k <= r.cur - 1
                 PROVE  u[k] \in Heard(r) /\ u[k] # x
      BY <1>2, <1>4, <1>7, <1>8
    <3> DEFINE c == IF k < i THEN k ELSE k + 1
    <3>1. c \in 1..Len(s) /\ c <= r.cur /\ c # i
      BY <1>1
    <3>2. u[k] = s[c]
      BY <1>3
    <3> HIDE DEF c
    <3>3. s[c] # s[i]
      BY <1>1, <1>6, <3>1
    <3>4. s[c] \in Heard(r)
      BY <1>1, <3>1
    <3> QED
      BY <3>2, <3>3, <3>4 DEF x
  <2>2. Heard(r) \ {x} \subseteq Heard(t)
    <3> SUFFICES ASSUME NEW k \in 1..Len(s), k <= r.cur, k # i
                 PROVE  s[k] \in Heard(t)
      BY <1>1 DEF x
    <3>1. CASE k < i
      <4>1. k \in 1..(Len(s) - 1) /\ k \in 1..Len(u) /\ k <= t.cur
        BY <1>1, <1>2, <1>7, <1>8, <3>1
      <4>2. u[k] = s[k]
        BY <1>3, <3>1, <4>1
      <4> QED
        BY <1>4, <4>1, <4>2
    <3>2. CASE ~(k < i)
      <4>1. /\ k - 1 \in 1..(Len(s) - 1) /\ ~(k - 1 < i) /\ (k - 1) + 1 = k
            /\ k - 1 \in 1..Len(u) /\ k - 1 <= t.cur
        BY <1>1, <1>2, <1>7, <1>8, <3>2
      <4>2. u[k - 1] = s[k]
        BY <1>3, <4>1
      <4> QED
        BY <1>4, <4>1, <4>2
    <3> QED
      BY <3>1, <3>2
  <2>3. Heard(t) = Heard(r) \ {x}
    BY <2>1, <2>2
  <2>4. Current(t) = Current(r)
    <3>1. CASE r.cur = Len(s)
      BY <1>1, <1>2, <1>4, <1>7, <1>8, <3>1
    <3>2. CASE r.cur < Len(s)
      <4>1. t.cur + 1 = r.cur /\ t.cur < Len(u) /\ r.cur \in 1..(Len(s) - 1) /\ ~(r.cur < i)
        BY <1>1, <1>2, <1>7, <1>8, <3>2
      <4>2. u[r.cur] = s[r.cur + 1]
        BY <1>3, <4>1
      <4> QED
        BY <1>1, <1>4, <3>2, <4>1, <4>2
    <3> QED
      BY <1>1, <3>1, <3>2
  <2>5. Ahead(t) = Ahead(r)
    BY <1>2, <1>5, <2>0, <2>3, <2>4
  <2> QED
    BY <2>0, <2>3, <2>4, <2>5 DEF s, x
<1>9. CASE i > r.cur
  <2>1. Heard(t) = Heard(r)
    <3>1. {j \in 1..Len(u) : j <= t.cur} = {j \in 1..Len(s) : j <= r.cur}
      BY <1>1, <1>2, <1>7, <1>9
    <3>2. \A k \in {j \in 1..Len(s) : j <= r.cur} : u[k] = s[k]
      BY <1>1, <1>3, <1>9
    <3> QED
      BY <1>1, <1>4, <3>1, <3>2
  <2>2. x \notin Heard(r)
    <3> SUFFICES ASSUME NEW k \in 1..Len(s), k <= r.cur, s[k] = s[i] PROVE FALSE
      BY <1>1 DEF x
    <3>1. k = i
      BY <1>1, <1>6
    <3> QED
      BY <1>1, <1>9, <3>1
  <2>3. CASE i = r.cur + 1
    <3>1. x = Current(r)
      BY <1>1, <2>3 DEF x
    <3>2. CASE t.cur = Len(u)
      <4>1. Current(t) = NoItem
        BY <1>4, <3>2
      <4>2. ToSet(u) = Heard(t)
        <5>1. {j \in 1..Len(u) : j <= t.cur} = 1..Len(u)
          BY <1>1, <1>2, <3>2
        <5>2. u \in Seq(Items)
          BY Places DEF u
        <5> QED
          BY <1>4, <5>1, <5>2, Members
      <4>3. Ahead(t) = {} /\ Ahead(r) = {}
        BY <1>2, <1>5, <2>1, <3>1, <4>1, <4>2
      <4> QED
        BY <1>5, <2>1, <3>1, <4>1, <4>3 DEF s, x
    <3>3. CASE t.cur < Len(u)
      <4>1. Current(t) \in ToSet(u)
        <5>1. t.cur + 1 \in 1..Len(u) /\ Current(t) = u[t.cur + 1]
          BY <1>1, <1>2, <1>4, <3>3
        <5>2. u \in Seq(Items)
          BY Places DEF u
        <5> QED
          BY <5>1, <5>2, Members
      <4>2. Current(t) \in Ahead(r) /\ Ahead(t) = Ahead(r) \ {Current(t)}
        BY <1>2, <1>5, <2>1, <3>1, <4>1
      <4> QED
        BY <1>5, <2>1, <3>1, <4>2 DEF s, x
    <3>4. t.cur = Len(u) \/ t.cur < Len(u)
      BY <1>1, <1>2, <1>4
    <3> QED
      BY <3>2, <3>3, <3>4
  <2>4. CASE i > r.cur + 1
    <3>1. r.cur + 1 \in 1..(Len(s) - 1) /\ r.cur + 1 < i /\ t.cur = r.cur /\ t.cur < Len(u)
      BY <1>1, <1>2, <1>7, <2>4
    <3>2. u[r.cur + 1] = s[r.cur + 1]
      BY <1>3, <3>1
    <3>3. Current(t) = Current(r) /\ Current(r) = s[r.cur + 1]
      BY <1>1, <1>2, <1>4, <3>1, <3>2
    <3>4. x # Current(r)
      BY <1>1, <1>6, <2>4, <3>1, <3>3 DEF x
    <3>5. x \in Ahead(r) /\ Ahead(t) = Ahead(r) \ {x}
      BY <1>2, <1>5, <2>1, <2>2, <3>3, <3>4
    <3> QED
      BY <2>1, <3>3, <3>5 DEF s, x
  <2>5. i = r.cur + 1 \/ i > r.cur + 1
    BY <1>1, <1>9
  <2> QED
    BY <2>3, <2>4, <2>5
<1>10. i <= r.cur \/ i > r.cur
  BY <1>1
<1> QED
  BY <1>8, <1>9, <1>10

\* Shuffling keeps the current item, those before it, and the set of the rest.
LEMMA AlikeStep ==
  ASSUME NEW r \in QueueOver(Items), NEW t \in QueueOver(Items),
         Distinct(r.items), Distinct(t.items), PlayedAlike(r, t),
         Len(t.items) = Len(r.items), ToSet(t.items) = ToSet(r.items)
  PROVE  Heard(t) = Heard(r) /\ Current(t) = Current(r) /\ Ahead(t) = Ahead(r)
<1>1. /\ r.cur \in 0..Len(r.items) /\ Len(r.items) \in Nat /\ t.cur = r.cur
      /\ \A i \in 1..Len(r.items) : i <= r.cur + 1 => t.items[i] = r.items[i]
  BY Places DEF PlayedAlike
<1>2. Heard(t) = Heard(r)
  <2>1. Heard(r) = {r.items[k] : k \in {j \in 1..Len(r.items) : j <= r.cur}}
    BY Places
  <2>2. Heard(t) = {t.items[k] : k \in {j \in 1..Len(r.items) : j <= r.cur}}
    BY <1>1, Places
  <2>3. \A k \in {j \in 1..Len(r.items) : j <= r.cur} : t.items[k] = r.items[k]
    BY <1>1
  <2> QED
    BY <2>1, <2>2, <2>3
<1>3. Current(t) = Current(r)
  <2>1. CASE r.cur < Len(r.items)
    <3>1. r.cur + 1 \in 1..Len(r.items) /\ t.items[r.cur + 1] = r.items[r.cur + 1]
      BY <1>1, <2>1
    <3>2. Current(r) = r.items[r.cur + 1] /\ Current(t) = t.items[r.cur + 1]
      BY <1>1, <2>1, Places
    <3> QED
      BY <3>1, <3>2
  <2>2. CASE r.cur = Len(r.items)
    BY <1>1, <2>2, Places
  <2> QED
    BY <1>1, <2>1, <2>2
<1> QED
  BY <1>2, <1>3, Parts

\* The members of a shuffled queue; WithMode shuffles at most.
LEMMA ShuffledMembers ==
  ASSUME NEW r \in QueueOver(Items), NEW t \in ShuffledAfterCurrent(r)
  PROVE  Len(t.items) = Len(r.items) /\ ToSet(t.items) = ToSet(r.items)
<1>1. PICK p \in Orders(r.items) : t = [r EXCEPT !.items = Reordered(r.items, p)]
  BY DEF ShuffledAfterCurrent
<1>2. t.items = Reordered(r.items, p)
  BY <1>1, QueueParts
<1> QED
  BY <1>2, QueueParts, ReorderedType, ReorderedMembers

LEMMA WithModeMembers ==
  ASSUME NEW r \in QueueOver(Items), NEW m \in Modes, NEW t \in WithMode(r, m)
  PROVE  Len(t.items) = Len(r.items) /\ ToSet(t.items) = ToSet(r.items)
<1> DEFINE r2 == [r EXCEPT !.mode = m]
<1>1. r2 \in QueueOver(Items)
  <2>1. r2 = [items |-> r.items, cur |-> r.cur, mode |-> m]
    BY QueueParts
  <2> QED
    BY <2>1, QueueParts, QueueBuild
<1>2. r2.items = r.items
  BY QueueParts
<1>3. t = r2 \/ t \in ShuffledAfterCurrent(r2)
  BY DEF WithMode
<1> HIDE DEF r2
<1> QED
  BY <1>1, <1>2, <1>3, ShuffledMembers

-----------------------------------------------------------------------------
(* The methods as steps of Playlist.                                       *)

\* The end of a track, from a queue that changes.
LEMMA ForwardStep ==
  ASSUME NEW r \in QueueOver(Items), NEW t \in QueueOver(Items), Distinct(r.items),
         t \in Advanced(r)
  PROVE  \/ t = r
         \/ /\ Current(r) # NoItem /\ Current(t) \in Ahead(r)
            /\ Ahead(t) = Ahead(r) \ {Current(t)}
            /\ Heard(t) = Heard(r) \cup {Current(r)}
         \/ /\ Ahead(r) = {} /\ Heard(t) = {} /\ Current(t) \in ToSet(r.items)
            /\ Current(t) = Current(r) => ToSet(r.items) = {Current(t)}
            /\ Ahead(t) = ToSet(r.items) \ {Current(t)}
         \/ /\ Ahead(r) = {} /\ Current(r) # NoItem /\ Current(t) = NoItem
            /\ Heard(t) = ToSet(r.items) /\ Ahead(t) = {}
<1> DEFINE n == Len(r.items)
           last == IF r.cur < n THEN r.cur ELSE -1
<1>0. /\ n \in Nat /\ r.cur \in 0..n /\ r.mode \in {"one-shot", "repeat", "random"}
      /\ r \in [items : Seq(Items), cur : Nat, mode : Modes]
  BY QueueParts DEF Modes
<1>1. CASE n > 0 /\ r.cur < n - 1
  <2>1. t = [r EXCEPT !.cur = r.cur + 1]
    BY <1>0, <1>1 DEF Advanced
  <2>2. t.items = r.items /\ t.cur = r.cur + 1
    BY <1>0, <2>1
  <2> QED
    BY <1>1, <2>2, AdvanceStep
<1>2. CASE n > 0 /\ r.cur >= n - 1 /\ r.mode = "repeat"
  <2>1. t = [r EXCEPT !.cur = 0]
    BY <1>0, <1>2 DEF Advanced
  <2>2. t.items = r.items /\ t.cur = 0
    BY <1>0, <2>1
  <2>3. /\ Ahead(r) = {} /\ Heard(t) = {} /\ Current(t) \in ToSet(r.items)
        /\ Ahead(t) = ToSet(r.items) \ {Current(t)}
    BY <1>2, <2>2, WrapStep
  <2>4. ASSUME Current(t) = Current(r) PROVE ToSet(r.items) = {Current(t)}
    <3>1. Current(t) = r.items[1]
      BY <1>2, <2>2, Places
    <3>2. r.cur < n
      <4>1. Current(r) # NoItem
        BY <2>3, <2>4, Parts, NoItemAssumption
      <4> QED
        BY <1>0, <4>1, Places
    <3>3. Current(r) = r.items[r.cur + 1] /\ r.cur + 1 \in 1..n /\ 1 \in 1..n
      BY <1>0, <3>2, Places
    <3>4. r.cur + 1 = 1
      BY <2>4, <3>1, <3>3 DEF Distinct
    <3>5. 1..n = {1}
      BY <1>0, <1>2, <3>2, <3>4
    <3> QED
      BY <3>1, <3>5, Places, Members
  <2> QED
    BY <2>3, <2>4
<1>3. CASE n > 0 /\ r.cur >= n - 1 /\ r.mode = "random"
  <2>1. PICK u \in Reshuffled(r, last) : t = [u EXCEPT !.cur = 0]
    BY <1>0, <1>3 DEF Advanced
  <2>2. PICK p \in Orders(r.items) :
          /\ (n > 1 /\ last >= 0) => p[1] # last + 1
          /\ u = [r EXCEPT !.items = Reordered(r.items, p)]
    BY <2>1 DEF Reshuffled
  <2>3. t.items = Reordered(r.items, p) /\ t.cur = 0
    BY <1>0, <2>1, <2>2
  <2>4. /\ Len(t.items) = n /\ ToSet(t.items) = ToSet(r.items)
        /\ Distinct(t.items)
    BY <1>0, <2>3, ReorderedType, ReorderedMembers, ReorderedDistinct
  <2>5. /\ Ahead(r) = {} /\ Heard(t) = {} /\ Current(t) \in ToSet(r.items)
        /\ Ahead(t) = ToSet(r.items) \ {Current(t)}
    BY <1>3, <2>3, <2>4, WrapStep
  <2>6. ASSUME Current(t) = Current(r) PROVE ToSet(r.items) = {Current(t)}
    <3>1. p \in [1..n -> 1..n]
      BY DEF Orders, Bijection, Injection
    <3>2. 1 \in 1..n /\ Current(t) = t.items[1]
      BY <1>0, <1>3, <2>3, <2>4, Places
    <3>3. Current(t) = r.items[p[1]]
      BY <2>3, <3>2 DEF Reordered
    <3>4. r.cur < n
      <4>1. Current(r) # NoItem
        BY <2>5, <2>6, Parts, NoItemAssumption
      <4> QED
        BY <1>0, <4>1, Places
    <3>5. Current(r) = r.items[r.cur + 1] /\ r.cur + 1 \in 1..n
      BY <1>0, <3>4, Places
    <3>6. p[1] = r.cur + 1
      BY <2>6, <3>1, <3>2, <3>3, <3>5 DEF Distinct
    <3>7. n = 1
      <4>1. last = r.cur /\ last >= 0
        BY <1>0, <3>4
      <4>2. ~(n > 1)
        BY <2>2, <3>6, <4>1
      <4>3. n \in Nat /\ n > 0
        BY <1>0, <1>3
      <4> HIDE DEF n
      <4> QED
        BY <4>2, <4>3
    <3>8. 1..Len(t.items) = {1}
      BY <2>4, <3>7
    <3> QED
      BY <2>4, <3>2, <3>8, Places, Members
  <2> QED
    BY <2>5, <2>6
<1>4. CASE n > 0 /\ r.cur >= n - 1 /\ r.mode = "one-shot"
  <2>1. t = [r EXCEPT !.cur = n]
    BY <1>0, <1>4 DEF Advanced
  <2>2. t.items = r.items /\ t.cur = n
    BY <1>0, <2>1
  <2>3. CASE r.cur = n
    BY <1>0, <2>1, <2>3
  <2>4. CASE r.cur < n
    <3>1. {j \in 1..n : j > r.cur + 1} = {}
      BY <1>0, <1>4
    <3>2. Ahead(r) = {}
      BY <3>1 DEF Ahead
    <3> QED
      BY <2>2, <2>4, <3>2, FinishStep
  <2> QED
    BY <1>0, <2>3, <2>4
<1>5. CASE n = 0
  BY <1>5 DEF Advanced
<1> QED
  BY <1>0, <1>1, <1>2, <1>3, <1>4, <1>5

(* Every method does to the playlist what its namesake says and nothing    *)
(* else (queue.go): a lap plays every item once, an item that is enqueued  *)
(* is still to come, the end of a track skips and repeats nothing.         *)
THEOREM QueueImplementsPlaylist == Spec => ImplementsPlaylist
<1>1. Init => P!Init
  <2> SUFFICES ASSUME Init PROVE P!Init
    OBVIOUS
  <2>1. q.items = <<>> /\ q.cur = 0
    BY DEF Init, EmptyQueue
  <2>2. Len(q.items) = 0 /\ 1..Len(q.items) = {}
    BY <2>1
  <2> QED
    BY <2>1, <2>2 DEF P!Init, Current, Idle
<1>2. TypeOK /\ NoDuplicates /\ TypeOK' /\ NoDuplicates' /\ [Next]_vars
        => [/\ NextItem \/ (\E c \in Clients : NextIfUnchanged(c)) => [P!Forward]_(P!vars)
            /\ \A c \in Clients : FinishIfUnchanged(c) => P!Finish
            /\ \A x \in Items : AppendItem(x) => P!Enqueue(x)
            /\ \A x \in Items : \A i \in Indices : InsertItem(i, x) =>
                 \/ PastEndInsert
                 \/ [P!Enqueue(x) \/ P!EnqueueBehind(x)]_(P!vars)
            /\ \A i \in Indices : RemoveItem(i) => [\E x \in Items : P!Drop(x)]_(P!vars)
            /\ Reset \/ (\E i \in Indices : JumpTo(i)) => [P!Select]_(P!vars)
            /\ ClearAll => P!Clear
            /\ Randomize \/ (\E m \in Modes : SetMode(m)) => UNCHANGED P!vars]_vars
  <2> SUFFICES ASSUME q \in QueueOver(Items), q' \in QueueOver(Items),
                      Distinct(q.items), Distinct(q'.items)
               PROVE  /\ NextItem \/ (\E c \in Clients : NextIfUnchanged(c)) => [P!Forward]_(P!vars)
                      /\ \A c \in Clients : FinishIfUnchanged(c) => P!Finish
                      /\ \A x \in Items : AppendItem(x) => P!Enqueue(x)
                      /\ \A x \in Items : \A i \in Indices : InsertItem(i, x) =>
                           \/ PastEndInsert
                           \/ [P!Enqueue(x) \/ P!EnqueueBehind(x)]_(P!vars)
                      /\ \A i \in Indices : RemoveItem(i) => [\E x \in Items : P!Drop(x)]_(P!vars)
                      /\ Reset \/ (\E i \in Indices : JumpTo(i)) => [P!Select]_(P!vars)
                      /\ ClearAll => P!Clear
                      /\ Randomize \/ (\E m \in Modes : SetMode(m)) => UNCHANGED P!vars
    BY DEF TypeOK, NoDuplicates, Distinct
  <2>a. /\ Heard(q) = {q.items[i] : i \in {j \in 1..Len(q.items) : j <= q.cur}}
        /\ Heard(q') = {q'.items[i] : i \in {j \in 1..Len(q'.items) : j <= q'.cur}}
        /\ Ahead(q) = {q.items[i] : i \in {j \in 1..Len(q.items) : j > q.cur + 1}}
        /\ Ahead(q') = {q'.items[i] : i \in {j \in 1..Len(q'.items) : j > q'.cur + 1}}
    BY DEF Heard, Ahead
  <2>b. /\ P!Queued = ToSet(q.items)
        /\ q.items \in Seq(Items) /\ Len(q.items) \in Nat /\ q.cur \in 0..Len(q.items)
    BY Parts, Places DEF P!Queued, Heard, Ahead
  <2>c. Heard(q') = Heard(q) /\ Current(q') = Current(q) /\ Ahead(q') = Ahead(q)
          => UNCHANGED P!vars
    BY DEF P!vars, Heard, Ahead
  <2>d. Indices \subseteq Int
    BY <2>b DEF Indices
  <2>1. ASSUME q' \in Advanced(q) PROVE [P!Forward]_(P!vars)
    <3>1. CASE q' = q
      BY <2>c, <3>1
    <3>2. CASE /\ Current(q) # NoItem /\ Current(q') \in Ahead(q)
               /\ Ahead(q') = Ahead(q) \ {Current(q')}
               /\ Heard(q') = Heard(q) \cup {Current(q)}
      <4>1. P!Advance
        BY <3>2 DEF P!Advance, Heard, Ahead
      <4> QED
        BY <4>1 DEF P!Forward
    <3>3. CASE /\ Ahead(q) = {} /\ Heard(q') = {} /\ Current(q') \in ToSet(q.items)
               /\ Current(q') = Current(q) => ToSet(q.items) = {Current(q')}
               /\ Ahead(q') = ToSet(q.items) \ {Current(q')}
      <4>1. P!Wrap
        BY <2>b, <3>3 DEF P!Wrap, Heard, Ahead
      <4> QED
        BY <4>1 DEF P!Forward
    <3>4. CASE /\ Ahead(q) = {} /\ Current(q) # NoItem /\ Current(q') = NoItem
               /\ Heard(q') = ToSet(q.items) /\ Ahead(q') = {}
      <4>1. P!Finish
        BY <2>b, <3>4 DEF P!Finish, Heard, Ahead
      <4>2. Ahead(q) = {}
        BY <3>4
      <4> QED
        BY <2>a, <4>1, <4>2 DEF P!Forward
    <3> QED
      BY <2>1, <3>1, <3>2, <3>3, <3>4, ForwardStep
  <2>2. ASSUME NEW c \in Clients, FinishIfUnchanged(c) PROVE P!Finish
    <3>1. q'.items = q.items /\ q'.cur = Len(q.items) /\ q.cur < Len(q.items)
      BY <2>2, <2>b, QueueParts DEF FinishIfUnchanged, Finished, Idle
    <3>2. /\ Current(q) # NoItem /\ Current(q') = NoItem
          /\ Ahead(q') = {} /\ Heard(q') = ToSet(q.items)
      BY <3>1, FinishStep
    <3> QED
      BY <2>b, <3>2 DEF P!Finish, Heard, Ahead
  <2>3. ASSUME NEW x \in Items, AppendItem(x) PROVE P!Enqueue(x)
    <3>1. x \notin ToSet(q.items) /\ q' \in Appended(q, x)
      BY <2>3 DEF AppendItem, Fresh
    <3>2. PICK pos \in 0..Len(q.items) :
            /\ pos = Len(q.items) \/ pos > q.cur
            /\ q' = [q EXCEPT !.items = InsertAt(q.items, pos + 1, x)]
      BY <2>b, <3>1 DEF Appended, Idle
    <3>3. /\ q'.items = InsertAt(q.items, pos + 1, x) /\ q'.cur = q.cur
          /\ pos + 1 \in 1..(Len(q.items) + 1)
      BY <2>b, <3>2, QueueParts
    <3>4. CASE q.cur = Len(q.items)
      <4>1. pos + 1 = q.cur + 1
        BY <2>b, <3>2, <3>4
      <4>2. /\ Current(q) = NoItem /\ Current(q') = x
            /\ Heard(q') = Heard(q) /\ Ahead(q') = Ahead(q)
        BY <3>1, <3>3, <3>4, <4>1, PlaceStep
      <4> QED
        BY <2>b, <3>1, <4>2 DEF P!Enqueue, Heard, Ahead
    <3>5. CASE q.cur < Len(q.items)
      <4>1. pos + 1 > q.cur + 1
        BY <2>b, <3>2, <3>5
      <4>2. /\ Current(q) # NoItem /\ Current(q') = Current(q)
            /\ Heard(q') = Heard(q) /\ Ahead(q') = Ahead(q) \cup {x}
        BY <3>1, <3>3, <3>5, <4>1, PlaceStep
      <4> QED
        BY <2>b, <3>1, <4>2 DEF P!Enqueue, Heard, Ahead
    <3> QED
      BY <2>b, <3>4, <3>5
  <2>4. ASSUME NEW x \in Items, NEW i \in Indices, InsertItem(i, x)
        PROVE  PastEndInsert \/ [P!Enqueue(x) \/ P!EnqueueBehind(x)]_(P!vars)
    <3>1. x \notin ToSet(q.items) /\ q' = Inserted(q, i, x) /\ i \in Int
      BY <2>4, <2>d DEF InsertItem, Fresh
    <3>2. CASE i \notin 0..Len(q.items)
      <4>1. q' = q
        BY <3>1, <3>2 DEF Inserted
      <4> QED
        BY <2>c, <4>1
    <3>3. CASE i \in 0..Len(q.items)
      <4>1. /\ q'.items = InsertAt(q.items, i + 1, x)
            /\ q'.cur = IF i <= q.cur /\ q.cur < Len(q.items) THEN q.cur + 1 ELSE q.cur
        BY <3>1, <3>3 DEF Inserted
      <4>2. i + 1 \in 1..(Len(q.items) + 1)
        BY <2>b, <3>3
      <4>3. CASE q.cur = Len(q.items) /\ i < Len(q.items)
        <5>1. i \in 0..(Len(q.items) - 1) /\ Idle(q)
          BY <2>b, <3>3, <4>3 DEF Idle
        <5> QED
          BY <2>4, <5>1 DEF PastEndInsert
      <4>4. CASE q.cur = Len(q.items) /\ i = Len(q.items)
        <5>1. q'.cur = q.cur /\ i + 1 = q.cur + 1
          BY <2>b, <4>1, <4>4
        <5>2. /\ Current(q) = NoItem /\ Current(q') = x
              /\ Heard(q') = Heard(q) /\ Ahead(q') = Ahead(q)
          BY <3>1, <4>1, <4>2, <4>4, <5>1, PlaceStep
        <5>3. P!Enqueue(x)
          BY <2>b, <3>1, <5>2 DEF P!Enqueue, Heard, Ahead
        <5> QED
          BY <5>3
      <4>5. CASE q.cur < Len(q.items) /\ i > q.cur
        <5>1. q'.cur = q.cur /\ i + 1 > q.cur + 1
          BY <2>b, <3>1, <4>1, <4>5
        <5>2. /\ Current(q) # NoItem /\ Current(q') = Current(q)
              /\ Heard(q') = Heard(q) /\ Ahead(q') = Ahead(q) \cup {x}
          BY <3>1, <4>1, <4>2, <4>5, <5>1, PlaceStep
        <5>3. P!Enqueue(x)
          BY <2>b, <3>1, <5>2 DEF P!Enqueue, Heard, Ahead
        <5> QED
          BY <5>3
      <4>6. CASE q.cur < Len(q.items) /\ i <= q.cur
        <5>1. q'.cur = q.cur + 1 /\ i + 1 <= q.cur + 1
          BY <2>b, <3>1, <4>1, <4>6
        <5>2. /\ Current(q) # NoItem /\ Current(q') = Current(q)
              /\ Heard(q') = Heard(q) \cup {x} /\ Ahead(q') = Ahead(q)
          BY <3>1, <4>1, <4>2, <4>6, <5>1, PlaceStep
        <5>3. P!EnqueueBehind(x)
          BY <2>b, <3>1, <5>2 DEF P!EnqueueBehind, Heard, Ahead
        <5> QED
          BY <5>3
      <4>7. \/ q.cur = Len(q.items) /\ i < Len(q.items)
            \/ q.cur = Len(q.items) /\ i = Len(q.items)
            \/ q.cur < Len(q.items) /\ i > q.cur
            \/ q.cur < Len(q.items) /\ i <= q.cur
        BY <2>b, <3>1, <3>3
      <4> QED
        BY <4>3, <4>4, <4>5, <4>6, <4>7
    <3> QED
      BY <3>2, <3>3
  <2>5. ASSUME NEW i \in Indices, RemoveItem(i)
        PROVE  [\E x \in Items : P!Drop(x)]_(P!vars)
    <3>1. q' = Removed(q, i) /\ i \in Int
      BY <2>5, <2>d DEF RemoveItem
    <3>2. CASE i \notin 0..(Len(q.items) - 1)
      <4>1. q' = q
        BY <3>1, <3>2 DEF Removed
      <4> QED
        BY <2>c, <4>1
    <3>3. CASE i \in 0..(Len(q.items) - 1)
      <4>1. /\ q'.items = RemoveAt(q.items, i + 1)
            /\ q'.cur = IF i < q.cur THEN q.cur - 1 ELSE q.cur
        BY <3>1, <3>3 DEF Removed
      <4> DEFINE k == i + 1
      <4>2. k \in 1..Len(q.items) /\ (i < q.cur <=> k <= q.cur)
        BY <2>b, <3>1, <3>3
      <4>3. /\ q'.items = RemoveAt(q.items, k)
            /\ q'.cur = IF k <= q.cur THEN q.cur - 1 ELSE q.cur
        BY <4>1, <4>2
      <4> HIDE DEF k
      <4>4. q.items[k] \in Items
        BY <2>b, <4>2
      <4>5. PICK x \in Items :
              \/ /\ x \in Heard(q) /\ Heard(q') = Heard(q) \ {x}
                 /\ Current(q') = Current(q) /\ Ahead(q') = Ahead(q)
              \/ /\ x \in Ahead(q) /\ Ahead(q') = Ahead(q) \ {x}
                 /\ Current(q') = Current(q) /\ Heard(q') = Heard(q)
              \/ /\ x = Current(q) /\ x # NoItem /\ Heard(q') = Heard(q)
                 /\ \/ Current(q') \in Ahead(q) /\ Ahead(q') = Ahead(q) \ {Current(q')}
                    \/ Ahead(q) = {} /\ Current(q') = NoItem /\ Ahead(q') = {}
        BY <4>2, <4>3, <4>4, DropStep
      <4>6. P!Drop(x)
        BY <4>5 DEF P!Drop, Heard, Ahead
      <4> QED
        BY <4>6
    <3> QED
      BY <3>2, <3>3
  <2>6. ASSUME Reset \/ \E i \in Indices : JumpTo(i) PROVE [P!Select]_(P!vars)
    <3>1. q' = q \/ (q'.items = q.items /\ q'.cur < Len(q'.items))
      <4>1. CASE Reset
        <5>1. q' = [q EXCEPT !.cur = 0]
          BY <4>1 DEF Reset, Rewound
        <5> QED
          BY <2>b, <5>1, QueueParts
      <4>2. CASE \E i \in Indices : JumpTo(i)
        <5>1. PICK i \in Indices : q' = Jumped(q, i)
          BY <4>2 DEF JumpTo
        <5> QED
          BY <2>b, <2>d, <5>1, QueueParts DEF Jumped
      <4> QED
        BY <2>6, <4>1, <4>2
    <3>2. CASE q' = q
      BY <2>c, <3>2
    <3>3. CASE q'.items = q.items /\ q'.cur < Len(q'.items)
      <4>1. /\ Current(q') \in ToSet(q.items)
            /\ Heard(q') \in SUBSET (ToSet(q.items) \ {Current(q')})
            /\ Ahead(q') = (ToSet(q.items) \ {Current(q')}) \ Heard(q')
        BY <3>3, SelectStep
      <4>2. P!Select
        BY <2>b, <4>1 DEF P!Select, Heard, Ahead
      <4> QED
        BY <4>2
    <3> QED
      BY <3>1, <3>2, <3>3
  <2>7. ASSUME ClearAll PROVE P!Clear
    <3>1. q'.items = <<>> /\ q'.cur = 0
      BY <2>7 DEF ClearAll, Emptied
    <3>2. Len(q'.items) = 0 /\ 1..Len(q'.items) = {}
      BY <3>1
    <3> QED
      BY <3>1, <3>2 DEF P!Clear, Current, Idle
  <2>8. ASSUME Randomize \/ \E m \in Modes : SetMode(m) PROVE UNCHANGED P!vars
    <3>1. /\ PlayedAlike(q, q')
          /\ Len(q'.items) = Len(q.items) /\ ToSet(q'.items) = ToSet(q.items)
      <4>1. CASE Randomize
        BY <4>1, ShuffledAlike, ShuffledMembers DEF Randomize
      <4>2. CASE \E m \in Modes : SetMode(m)
        BY <4>2, WithModeAlike, WithModeMembers DEF SetMode
      <4> QED
        BY <2>8, <4>1, <4>2
    <3> QED
      BY <2>c, <3>1, AlikeStep
  <2> QED
    BY <2>1, <2>2, <2>3, <2>4, <2>5, <2>6, <2>7, <2>8 DEF NextItem, NextIfUnchanged
<1> QED
  BY <1>1, <1>2, TypeCorrect, NoneTwice, PTL DEF Spec, ImplementsPlaylist
=============================================================================
