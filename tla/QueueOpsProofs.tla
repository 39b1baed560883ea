--------------------------- MODULE QueueOpsProofs ---------------------------
(***************************************************************************)
(* Lemmas about the queue operators, for queues over any set S of items:   *)
(* every method returns a queue over S with its index within its list.     *)
(***************************************************************************)
EXTENDS QueueOps, SequenceTheorems, TLAPS

\* What is known of a queue, and how one is built.
LEMMA QueueParts ==
  ASSUME NEW S, NEW r \in QueueOver(S)
  PROVE  /\ r \in [items : Seq(S), cur : Nat, mode : Modes]
         /\ r.items \in Seq(S)
         /\ Len(r.items) \in Nat
         /\ r.cur \in 0..Len(r.items)
         /\ r.mode \in Modes
BY DEF QueueOver

LEMMA QueueBuild ==
  ASSUME NEW S, NEW s \in Seq(S), NEW n \in 0..Len(s), NEW m \in Modes
  PROVE  [items |-> s, cur |-> n, mode |-> m] \in QueueOver(S)
<1> DEFINE r == [items |-> s, cur |-> n, mode |-> m]
<1>1. r \in [items : Seq(S), cur : Nat, mode : Modes]
  OBVIOUS
<1>2. r.cur <= Len(r.items)
  OBVIOUS
<1>3. QED
  BY <1>1, <1>2 DEF QueueOver

\* A permuted list is a list over the same items, of the same length.
LEMMA ReorderedType ==
  ASSUME NEW S, NEW s \in Seq(S), NEW p \in Orders(s)
  PROVE  /\ Reordered(s, p) \in Seq(S)
         /\ Len(Reordered(s, p)) = Len(s)
<1>1. p \in [1..Len(s) -> 1..Len(s)]
  BY DEF Orders, Bijection, Injection
<1>2. Reordered(s, p) \in [1..Len(s) -> S]
  BY <1>1 DEF Reordered
<1>3. QED
  BY <1>2

\* InsertAt and RemoveAt build lists of the expected length.
LEMMA InsertAtType ==
  ASSUME NEW S, NEW s \in Seq(S), NEW x \in S, NEW i \in 1..(Len(s) + 1)
  PROVE  /\ InsertAt(s, i, x) \in Seq(S)
         /\ Len(InsertAt(s, i, x)) = Len(s) + 1
<1> DEFINE front == SubSeq(s, 1, i - 1)
           back  == SubSeq(s, i, Len(s))
<1>1. front \in Seq(S) /\ Len(front) = i - 1
  BY SubSeqProperties
<1>2. back \in Seq(S) /\ Len(back) = Len(s) - i + 1
  BY SubSeqProperties
<1>3. <<x>> \in Seq(S) /\ Len(<<x>>) = 1
  OBVIOUS
<1> HIDE DEF front, back
<1> DEFINE upTo == front \o <<x>>
<1>4. upTo \in Seq(S) /\ Len(upTo) = i
  BY <1>1, <1>3, ConcatProperties
<1> HIDE DEF upTo
<1>5. upTo \o back \in Seq(S) /\ Len(upTo \o back) = Len(s) + 1
  BY <1>2, <1>4, ConcatProperties
<1>6. QED
  BY <1>5 DEF InsertAt, front, back, upTo

LEMMA RemoveAtType ==
  ASSUME NEW S, NEW s \in Seq(S), NEW i \in 1..Len(s)
  PROVE  /\ RemoveAt(s, i) \in Seq(S)
         /\ Len(RemoveAt(s, i)) = Len(s) - 1
<1> DEFINE front == SubSeq(s, 1, i - 1)
           back  == SubSeq(s, i + 1, Len(s))
<1>1. front \in Seq(S) /\ Len(front) = i - 1
  BY SubSeqProperties
<1>2. back \in Seq(S) /\ Len(back) = Len(s) - i
  BY SubSeqProperties
<1> HIDE DEF front, back
<1>3. front \o back \in Seq(S) /\ Len(front \o back) = Len(s) - 1
  BY <1>1, <1>2, ConcatProperties
<1>4. QED
  BY <1>3 DEF RemoveAt, front, back

\* Every method leaves a queue behind whose index is within its list.
LEMMA ShuffleType ==
  ASSUME NEW S, NEW r \in QueueOver(S)
  PROVE  ShuffledAfterCurrent(r) \subseteq QueueOver(S)
<1> SUFFICES ASSUME NEW p \in Orders(r.items)
             PROVE  [r EXCEPT !.items = Reordered(r.items, p)] \in QueueOver(S)
  BY DEF ShuffledAfterCurrent
<1>1. [r EXCEPT !.items = Reordered(r.items, p)]
        = [items |-> Reordered(r.items, p), cur |-> r.cur, mode |-> r.mode]
  BY QueueParts
<1>2. QED
  BY <1>1, QueueParts, ReorderedType, QueueBuild

LEMMA AdvancedType ==
  ASSUME NEW S, NEW r \in QueueOver(S)
  PROVE  Advanced(r) \subseteq QueueOver(S)
<1> DEFINE n == Len(r.items)
<1>0. /\ r \in [items : Seq(S), cur : Nat, mode : Modes]
      /\ n \in Nat /\ r.cur \in 0..n /\ r.items \in Seq(S)
  BY QueueParts
<1>1. CASE n = 0
  BY <1>1 DEF Advanced
<1>2. CASE n > 0 /\ r.cur < n - 1
  <2>1. Advanced(r) = {[r EXCEPT !.cur = r.cur + 1]}
    BY <1>0, <1>2 DEF Advanced
  <2>2. [r EXCEPT !.cur = r.cur + 1]
          = [items |-> r.items, cur |-> r.cur + 1, mode |-> r.mode]
    BY <1>0
  <2>3. r.cur + 1 \in 0..n
    BY <1>0, <1>2
  <2>4. QED
    BY <2>1, <2>2, <2>3, <1>0, QueueParts, QueueBuild
<1>3. CASE n > 0 /\ r.cur >= n - 1 /\ r.mode = "repeat"
  <2>1. Advanced(r) = {[r EXCEPT !.cur = 0]}
    BY <1>0, <1>3 DEF Advanced
  <2>2. [r EXCEPT !.cur = 0] = [items |-> r.items, cur |-> 0, mode |-> r.mode]
    BY <1>0
  <2>3. QED
    BY <2>1, <2>2, <1>0, QueueParts, QueueBuild
<1>4. CASE n > 0 /\ r.cur >= n - 1 /\ r.mode = "random"
  <2> DEFINE last == IF r.cur < n THEN r.cur ELSE -1
  <2>1. Advanced(r) = {[t EXCEPT !.cur = 0] : t \in Reshuffled(r, last)}
    BY <1>0, <1>4 DEF Advanced
  <2>2. SUFFICES ASSUME NEW t \in Reshuffled(r, last)
                 PROVE  [t EXCEPT !.cur = 0] \in QueueOver(S)
    BY <2>1
  <2>3. PICK p \in Orders(r.items) : t = [r EXCEPT !.items = Reordered(r.items, p)]
    BY DEF Reshuffled
  <2>4. t = [items |-> Reordered(r.items, p), cur |-> r.cur, mode |-> r.mode]
    BY <1>0, <2>3
  <2>5. [t EXCEPT !.cur = 0]
          = [items |-> Reordered(r.items, p), cur |-> 0, mode |-> r.mode]
    BY <2>4
  <2>6. QED
    BY <2>5, <1>0, QueueParts, ReorderedType, QueueBuild
<1>5. CASE n > 0 /\ r.cur >= n - 1 /\ r.mode = "one-shot"
  <2>1. Advanced(r) = {[r EXCEPT !.cur = n]}
    BY <1>0, <1>5 DEF Advanced
  <2>2. [r EXCEPT !.cur = n] = [items |-> r.items, cur |-> n, mode |-> r.mode]
    BY <1>0
  <2>3. QED
    BY <2>1, <2>2, <1>0, QueueParts, QueueBuild
<1>6. QED
  BY <1>0, <1>1, <1>2, <1>3, <1>4, <1>5, QueueParts DEF Modes

LEMMA WithModeType ==
  ASSUME NEW S, NEW r \in QueueOver(S), NEW m \in Modes
  PROVE  WithMode(r, m) \subseteq QueueOver(S)
<1>1. [r EXCEPT !.mode = m] = [items |-> r.items, cur |-> r.cur, mode |-> m]
  BY QueueParts
<1>2. [r EXCEPT !.mode = m] \in QueueOver(S)
  BY <1>1, QueueParts, QueueBuild
<1>3. QED
  BY <1>2, ShuffleType DEF WithMode

LEMMA AppendedType ==
  ASSUME NEW S, NEW r \in QueueOver(S), NEW x \in S
  PROVE  Appended(r, x) \subseteq QueueOver(S)
<1>1. SUFFICES ASSUME NEW pos \in r.cur..Len(r.items)
               PROVE  [r EXCEPT !.items = InsertAt(r.items, pos + 1, x)]
                        \in QueueOver(S)
  BY QueueParts DEF Appended, Idle
<1> DEFINE s == InsertAt(r.items, pos + 1, x)
<1>2. s \in Seq(S) /\ Len(s) = Len(r.items) + 1
  BY QueueParts, InsertAtType
<1> HIDE DEF s
<1>3. [r EXCEPT !.items = s] = [items |-> s, cur |-> r.cur, mode |-> r.mode]
  BY QueueParts
<1>4. QED
  BY <1>2, <1>3, QueueParts, QueueBuild DEF s

LEMMA InsertedType ==
  ASSUME NEW S, NEW r \in QueueOver(S), NEW x \in S, NEW i \in Int
  PROVE  Inserted(r, i, x) \in QueueOver(S)
<1>1. CASE i \in 0..Len(r.items)
  <2> DEFINE s == InsertAt(r.items, i + 1, x)
             n == IF i <= r.cur /\ r.cur < Len(r.items) THEN r.cur + 1 ELSE r.cur
  <2>1. s \in Seq(S) /\ Len(s) = Len(r.items) + 1
    BY <1>1, QueueParts, InsertAtType
  <2>2. n \in 0..(Len(r.items) + 1)
    BY QueueParts
  <2>3. Inserted(r, i, x) = [items |-> s, cur |-> n, mode |-> r.mode]
    BY <1>1 DEF Inserted
  <2> HIDE DEF s, n
  <2>4. QED
    BY <2>1, <2>2, <2>3, QueueParts, QueueBuild
<1>2. CASE ~(i \in 0..Len(r.items))
  BY <1>2 DEF Inserted
<1>3. QED
  BY <1>1, <1>2

LEMMA RemovedType ==
  ASSUME NEW S, NEW r \in QueueOver(S), NEW i \in Int
  PROVE  Removed(r, i) \in QueueOver(S)
<1>1. CASE i \in 0..(Len(r.items) - 1)
  <2> DEFINE s == RemoveAt(r.items, i + 1)
             n == IF i < r.cur THEN r.cur - 1 ELSE r.cur
  <2>1. s \in Seq(S) /\ Len(s) = Len(r.items) - 1
    BY <1>1, QueueParts, RemoveAtType
  <2>2. n \in 0..(Len(r.items) - 1)
    BY <1>1, QueueParts
  <2>3. Removed(r, i) = [items |-> s, cur |-> n, mode |-> r.mode]
    BY <1>1 DEF Removed
  <2> HIDE DEF s, n
  <2>4. QED
    BY <2>1, <2>2, <2>3, QueueParts, QueueBuild
<1>2. CASE ~(i \in 0..(Len(r.items) - 1))
  BY <1>2 DEF Removed
<1>3. QED
  BY <1>1, <1>2

LEMMA MovedType ==
  ASSUME NEW S, NEW r \in QueueOver(S)
  PROVE  /\ \A i \in Int : Jumped(r, i) \in QueueOver(S)
         /\ Rewound(r) \in QueueOver(S)
         /\ Finished(r) \in QueueOver(S)
         /\ Emptied(r) \in QueueOver(S)
<1>1. ASSUME NEW n \in 0..Len(r.items)
      PROVE  [r EXCEPT !.cur = n] \in QueueOver(S)
  <2>1. [r EXCEPT !.cur = n] = [items |-> r.items, cur |-> n, mode |-> r.mode]
    BY QueueParts
  <2>2. QED
    BY <2>1, QueueParts, QueueBuild
<1>2. \A i \in Int : Jumped(r, i) \in QueueOver(S)
  BY <1>1, QueueParts DEF Jumped
<1>3. Rewound(r) \in QueueOver(S) /\ Finished(r) \in QueueOver(S)
  <2>1. 0 \in 0..Len(r.items) /\ Len(r.items) \in 0..Len(r.items)
    BY QueueParts
  <2>2. QED
    BY <1>1, <2>1 DEF Rewound, Finished
<1>4. Emptied(r) \in QueueOver(S)
  <2>1. <<>> \in Seq(S) /\ 0 \in 0..Len(<<>>)
    BY EmptySeq
  <2>2. QED
    BY <2>1, QueueParts, QueueBuild DEF Emptied
<1>5. QED
  BY <1>2, <1>3, <1>4

-----------------------------------------------------------------------------
(***************************************************************************)
(* Where the items go.                                                     *)
(***************************************************************************)

\* Where InsertAt puts the items of the list.
LEMMA InsertAtPlaces ==
  ASSUME NEW S, NEW s \in Seq(S), NEW x \in S, NEW i \in 1..(Len(s) + 1),
         NEW k \in 1..(Len(s) + 1)
  PROVE  InsertAt(s, i, x)[k] = IF k < i THEN s[k] ELSE IF k = i THEN x ELSE s[k - 1]
<1> DEFINE front == SubSeq(s, 1, i - 1)
           back  == SubSeq(s, i, Len(s))
<1>1. /\ front \in Seq(S) /\ Len(front) = i - 1
      /\ \A j \in 1..(i - 1) : front[j] = s[j]
  BY SubSeqProperties
<1>2. /\ back \in Seq(S) /\ Len(back) = Len(s) - i + 1
      /\ \A j \in 1..(Len(s) - i + 1) : back[j] = s[i + j - 1]
  BY SubSeqProperties
<1>3. <<x>> \in Seq(S) /\ Len(<<x>>) = 1 /\ <<x>>[1] = x
  OBVIOUS
<1> HIDE DEF front, back
<1> DEFINE upTo == front \o <<x>>
<1>4. /\ upTo \in Seq(S) /\ Len(upTo) = i
      /\ \A j \in 1..i : upTo[j] = IF j < i THEN front[j] ELSE x
  BY <1>1, <1>3, ConcatProperties
<1> HIDE DEF upTo
<1>5. (upTo \o back)[k] = IF k <= i THEN upTo[k] ELSE back[k - i]
  BY <1>2, <1>4, ConcatProperties
<1>6. (upTo \o back)[k] = IF k < i THEN s[k] ELSE IF k = i THEN x ELSE s[k - 1]
  <2>0. k \in Int /\ i \in Int /\ Len(s) \in Nat
    OBVIOUS
  <2>1. CASE k < i
    BY <2>0, <2>1, <1>1, <1>4, <1>5
  <2>2. CASE k = i
    BY <2>0, <2>2, <1>4, <1>5
  <2>3. CASE k > i
    <3>1. k - i \in 1..(Len(s) - i + 1) /\ i + (k - i) - 1 = k - 1
      BY <2>0, <2>3
    <3>2. back[k - i] = s[k - 1]
      BY <1>2, <3>1
    <3> QED
      BY <2>0, <2>3, <3>2, <1>5
  <2>4. k < i \/ k = i \/ k > i
    BY <2>0
  <2> QED
    BY <2>1, <2>2, <2>3, <2>4, Zenon
<1> QED
  BY <1>6 DEF InsertAt, front, back, upTo

\* What has been played, and the item that plays, are in their places.
PlayedAlike(r, t) ==
  /\ t.cur = r.cur
  /\ \A i \in 1..Len(r.items) : i <= r.cur + 1 => t.items[i] = r.items[i]

\* Append draws a position behind the current item.
LEMMA AppendedAlike ==
  ASSUME NEW S, NEW r \in QueueOver(S), NEW x \in S, NEW t \in Appended(r, x)
  PROVE  PlayedAlike(r, t)
<1>0. r.items \in Seq(S) /\ r.cur \in 0..Len(r.items)
  BY QueueParts
<1>1. PICK pos \in 0..Len(r.items) :
        /\ pos = Len(r.items) \/ pos > r.cur
        /\ t = [r EXCEPT !.items = InsertAt(r.items, pos + 1, x)]
  BY <1>0 DEF Appended, Idle
<1>2. t.cur = r.cur /\ t.items = InsertAt(r.items, pos + 1, x)
  BY <1>1, QueueParts
<1>3. ASSUME NEW i \in 1..Len(r.items), i <= r.cur + 1
      PROVE  t.items[i] = r.items[i]
  <2>1. i \in 1..(Len(r.items) + 1) /\ pos + 1 \in 1..(Len(r.items) + 1) /\ i < pos + 1
    BY <1>0, <1>1, <1>3
  <2>2. ASSUME NEW s \in Seq(S), NEW k \in 1..(Len(s) + 1), i \in 1..(Len(s) + 1), i < k
        PROVE  InsertAt(s, k, x)[i] = s[i]
    BY <2>2, InsertAtPlaces
  <2> QED
    BY <1>0, <1>2, <2>1, <2>2
<1> QED
  BY <1>2, <1>3 DEF PlayedAlike

\* So the item that plays stays the current one.
LEMMA AppendedKeepsCurrent ==
  ASSUME NEW S, NEW r \in QueueOver(S), ~Idle(r), NEW x \in S, NEW t \in Appended(r, x)
  PROVE  Current(t) = Current(r)
<1>1. PlayedAlike(r, t)
  BY AppendedAlike
<1>2. t \in QueueOver(S)
  BY AppendedType
<1>3. r.cur + 1 \in 1..Len(r.items) /\ t.cur = r.cur /\ t.items[r.cur + 1] = r.items[r.cur + 1]
  BY <1>1, QueueParts DEF Idle, PlayedAlike
<1>4. Len(t.items) = Len(r.items) + 1
  <2>1. PICK pos \in r.cur..Len(r.items) : t = [r EXCEPT !.items = InsertAt(r.items, pos + 1, x)]
    BY QueueParts DEF Appended, Idle
  <2>2. t.items = InsertAt(r.items, pos + 1, x)
    BY <2>1, QueueParts
  <2> QED
    BY <2>2, QueueParts, InsertAtType
<1> QED
  BY <1>3, <1>4, QueueParts DEF Current, Idle
=============================================================================
