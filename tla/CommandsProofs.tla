--------------------------- MODULE CommandsProofs ---------------------------
(***************************************************************************)
(* Proofs about Commands: only admins end the bot, the cache of search     *)
(* results stays within its bound with its order and its map in step, no   *)
(* slot for yt-dlp is lost, a request is answered once and truly, and a    *)
(* station played by its index is one of the table shown last.             *)
(***************************************************************************)
EXTENDS Commands, FiniteSetTheorems, TLAPS

-----------------------------------------------------------------------------
(* A playlist may have one entry at least, whatever max_track_playlist is. *)
LEMMA LimitType == Limit \in Nat \ {0}
  BY CommandsAssumption DEF Limit

(* Both paths of Dispatch end at an entry that was registered for !kill,   *)
(* and so behind the test for admins.                                      *)
LEMMA KillNeedsAdmin ==
  ASSUME NEW user, NEW w, Dispatch(user, w, "kill")
  PROVE  user \in Admins
BY RegistryAssumption DEF Dispatch, Exact, Abbreviated, Runs

(* No job and no handler but handleKill ends the process.                  *)
LEMMA KillStep ==
  ASSUME OnlyAdminsKill, [Next]_vars
  PROVE  OnlyAdminsKill'
<1>1. CASE UNCHANGED vars
  BY <1>1 DEF OnlyAdminsKill, vars
<1>2. CASE \E j \in Jobs : Proceeds(j) \/ TimesOut(j)
  BY <1>2 DEF OnlyAdminsKill, Proceeds, TimesOut
<1>3. ASSUME NEW user \in Users, NEW w \in Words, NEW ch \in Channels,
             Message(user, w, ch)
      PROVE  OnlyAdminsKill'
  <2>1. CASE UNCHANGED killedBy
    BY <2>1 DEF OnlyAdminsKill
  <2>2. CASE Dispatch(user, w, "kill") /\ Kill(user)
    BY <2>2, KillNeedsAdmin DEF OnlyAdminsKill, Kill
  <2>. QED
    BY <1>3, <2>1, <2>2 DEF Message, Submit, Direct, RBQuery, RBPlay
<1>. QED
  BY <1>1, <1>2, <1>3 DEF Next

(* Only an admin ends the bot, with !kill typed in full or abbreviated,    *)
(* for any aliases, words and admins (dispatcher.go:109-137).              *)
THEOREM OnlyAdminsEndTheBot == Spec => []OnlyAdminsKill
<1>1. Init => OnlyAdminsKill
  BY DEF Init, OnlyAdminsKill
<1>. QED
  BY <1>1, KillStep, PTL DEF Spec

-----------------------------------------------------------------------------
(* The order of the cache is a sequence of channels.                       *)
CacheInv == order \in Seq(Channels) /\ CacheInStep

(* What an Append does to a sequence without repetitions.                  *)
LEMMA AppendedChannel ==
  ASSUME NEW S, NEW s \in Seq(S), NEW e \in S, IsInjective(s), e \notin ToSet(s)
  PROVE  /\ Append(s, e) \in Seq(S)
         /\ IsInjective(Append(s, e))
         /\ ToSet(Append(s, e)) = ToSet(s) \cup {e}
         /\ Len(Append(s, e)) = Len(s) + 1
<1>1. /\ Append(s, e) \in Seq(S)
      /\ Len(Append(s, e)) = Len(s) + 1
      /\ DOMAIN Append(s, e) = DOMAIN s \cup {Len(s) + 1}
      /\ \A i \in DOMAIN s : Append(s, e)[i] = s[i]
      /\ Append(s, e)[Len(s) + 1] = e
  OBVIOUS
<1>2. ToSet(Append(s, e)) = ToSet(s) \cup {e}
  BY <1>1 DEF ToSet
<1>3. IsInjective(Append(s, e))
  BY <1>1 DEF IsInjective, ToSet
<1>. QED
  BY <1>1, <1>2, <1>3

(* What eviction does: the oldest channel is gone from the order.          *)
LEMMA EvictedChannel ==
  ASSUME NEW S, NEW s \in Seq(S), s # <<>>, IsInjective(s)
  PROVE  /\ Tail(s) \in Seq(S)
         /\ IsInjective(Tail(s))
         /\ ToSet(Tail(s)) = ToSet(s) \ {Head(s)}
         /\ Len(Tail(s)) = Len(s) - 1
<1>1. /\ Tail(s) \in Seq(S)
      /\ Len(Tail(s)) = Len(s) - 1
      /\ Len(s) \in Nat \ {0} /\ DOMAIN s = 1..Len(s)
      /\ DOMAIN Tail(s) = 1..(Len(s) - 1)
      /\ \A i \in 1..(Len(s) - 1) : Tail(s)[i] = s[i + 1]
      /\ Head(s) = s[1]
  OBVIOUS
<1>2. IsInjective(Tail(s))
  BY <1>1 DEF IsInjective
<1>3. ASSUME NEW x \in ToSet(s), x # Head(s)
      PROVE  x \in ToSet(Tail(s))
  <2>1. PICK i \in 1..Len(s) : s[i] = x
    BY <1>1, <1>3 DEF ToSet
  <2>2. i - 1 \in 1..(Len(s) - 1) /\ Tail(s)[i - 1] = x
    BY <1>1, <1>3, <2>1
  <2>. QED
    BY <1>1, <2>2 DEF ToSet
<1>4. ASSUME NEW x \in ToSet(Tail(s))
      PROVE  x \in ToSet(s) \ {Head(s)}
  <2>1. PICK i \in 1..(Len(s) - 1) : Tail(s)[i] = x
    BY <1>1, <1>4 DEF ToSet
  <2>2. i + 1 \in DOMAIN s /\ s[i + 1] = x /\ i + 1 # 1
    BY <1>1, <2>1
  <2>. QED
    BY <1>1, <2>2 DEF ToSet, IsInjective
<1>. QED
  BY <1>1, <1>2, <1>3, <1>4

(* A new channel in the place of the oldest one.                           *)
LEMMA ReplacedChannel ==
  ASSUME NEW S, NEW s \in Seq(S), s # <<>>, IsInjective(s),
         NEW e \in S, e \notin ToSet(s)
  PROVE  /\ Append(Tail(s), e) \in Seq(S)
         /\ IsInjective(Append(Tail(s), e))
         /\ ToSet(Append(Tail(s), e)) = (ToSet(s) \ {Head(s)}) \cup {e}
         /\ Len(Append(Tail(s), e)) = Len(s)
<1>. DEFINE t == Tail(s)
<1>1. /\ t \in Seq(S) /\ IsInjective(t)
      /\ ToSet(t) = ToSet(s) \ {Head(s)}
      /\ Len(t) = Len(s) - 1
  BY EvictedChannel
<1>2. e \notin ToSet(t)
  BY <1>1
<1>. HIDE DEF t
<1>3. /\ Append(t, e) \in Seq(S) /\ IsInjective(Append(t, e))
      /\ ToSet(Append(t, e)) = ToSet(t) \cup {e}
      /\ Len(Append(t, e)) = Len(t) + 1
  BY <1>1, <1>2, AppendedChannel
<1>4. Len(s) \in Nat
  OBVIOUS
<1>5. Len(Append(t, e)) = Len(s)
  BY <1>1, <1>3, <1>4
<1>6. ToSet(Append(t, e)) = (ToSet(s) \ {Head(s)}) \cup {e}
  BY <1>1, <1>3
<1>. QED
  BY <1>3, <1>5, <1>6 DEF t

(* rbCache.set, in its three cases: the channel is there already, there is *)
(* room for it, or the oldest one makes room.                              *)
LEMMA CacheSetStep ==
  ASSUME CacheInv, NEW ch \in Channels, NEW table, CacheSet(ch, table)
  PROVE  CacheInv'
<1>. DEFINE isNew == ch \notin DOMAIN stations
            evict == isNew /\ Len(order) >= MaxCacheChannels
            left  == DOMAIN stations \ (IF evict THEN {Head(order)} ELSE {})
<1>1. /\ order' = IF isNew THEN Append(IF evict THEN Tail(order) ELSE order, ch)
                           ELSE order
      /\ DOMAIN stations' = left \cup {ch}
  BY DEF CacheSet
<1>2. /\ order \in Seq(Channels) /\ IsInjective(order)
      /\ ToSet(order) = DOMAIN stations
      /\ Len(order) \in Nat /\ Len(order) <= MaxCacheChannels
      /\ MaxCacheChannels \in Nat \ {0}
  BY CommandsAssumption DEF CacheInv, CacheInStep
<1>3. CASE ~isNew
  BY <1>1, <1>2, <1>3 DEF CacheInv, CacheInStep
<1>4. CASE isNew /\ ~evict
  <2>1. order' = Append(order, ch) /\ DOMAIN stations' = DOMAIN stations \cup {ch}
    BY <1>1, <1>4
  <2>2. Len(order) + 1 <= MaxCacheChannels
    BY <1>2, <1>4
  <2>3. /\ order' \in Seq(Channels) /\ IsInjective(order')
        /\ ToSet(order') = DOMAIN stations'
        /\ Len(order') = Len(order) + 1
    BY <1>2, <1>4, <2>1, AppendedChannel
  <2>. QED
    BY <2>2, <2>3 DEF CacheInv, CacheInStep
<1>5. CASE evict
  <2>1. /\ order' = Append(Tail(order), ch)
        /\ DOMAIN stations' = (DOMAIN stations \ {Head(order)}) \cup {ch}
    BY <1>1, <1>5
  <2>2. order # <<>> /\ ch \notin ToSet(order)
    BY <1>2, <1>5
  <2>3. /\ order' \in Seq(Channels) /\ IsInjective(order')
        /\ ToSet(order') = DOMAIN stations'
        /\ Len(order') = Len(order)
    BY <1>2, <2>1, <2>2, ReplacedChannel
  <2>. QED
    BY <1>2, <2>3 DEF CacheInv, CacheInStep
<1>. QED
  BY <1>3, <1>4, <1>5

(* Only !rbquery touches the cache.                                        *)
LEMMA CacheStep ==
  ASSUME CacheInv, [Next]_vars
  PROVE  CacheInv'
<1>1. CASE UNCHANGED cacheVars
  BY <1>1 DEF CacheInv, CacheInStep, cacheVars
<1>2. ASSUME NEW ch \in Channels, RBQuery(ch)
      PROVE  CacheInv'
  BY <1>2, CacheSetStep DEF RBQuery
<1>. QED
  BY <1>1, <1>2 DEF Next, vars, cacheVars, Proceeds, TimesOut, Message, Submit,
     Direct, RBPlay, Kill

(* For any channels and any bound the map and the order of rbCache hold    *)
(* the same channels, each once, and never more than the bound             *)
(* (handlers.go:131-143): no channel can stay behind without its turn to   *)
(* be evicted.                                                             *)
THEOREM CacheStaysInStep == Spec => []CacheInStep
<1>1. Init => CacheInv
  BY CommandsAssumption DEF Init, CacheInv, CacheInStep, ToSet, IsInjective
<1>2. CacheInv => CacheInStep
  BY DEF CacheInv
<1>. QED
  BY <1>1, <1>2, CacheStep, PTL DEF Spec

-----------------------------------------------------------------------------
(* The slots.  Who holds one, and who waits, in sets of jobs.              *)
Held    == {j \in Jobs : job[j].at \in Holding}
Waiting == {j \in Jobs : At(j, "parked")}

JobType == [Jobs -> [kind : {"none", "url", "playlist"}, at : Places,
                     total : Nat, done : Nat]]

SlotTypes ==
  /\ job \in JobType
  /\ parked \in Seq(Jobs) /\ IsInjective(parked)

SlotCount ==
  /\ taken = Cardinality(Held)
  /\ parked # <<>> => taken = MaxConcurrent
  /\ Waiting = ToSet(parked)

SlotInv == SlotTypes /\ SlotCount

(* One job goes to another place.                                          *)
MovedTo(f, j, place) == [f EXCEPT ![j].at = place]

LEMMA Moved ==
  ASSUME NEW f \in JobType, NEW j \in Jobs, NEW place \in Places
  PROVE  /\ MovedTo(f, j, place) \in JobType
         /\ MovedTo(f, j, place)[j].at = place
         /\ \A i \in Jobs \ {j} : MovedTo(f, j, place)[i] = f[i]
<1>. DEFINE g == [f EXCEPT ![j].at = place]
<1>1. f[j] \in [kind : {"none", "url", "playlist"}, at : Places, total : Nat, done : Nat]
  BY DEF JobType
<1>2. g[j] = [f[j] EXCEPT !.at = place] /\ \A i \in Jobs \ {j} : g[i] = f[i]
  BY DEF JobType
<1>3. /\ [f[j] EXCEPT !.at = place] \in
           [kind : {"none", "url", "playlist"}, at : Places, total : Nat, done : Nat]
      /\ [f[j] EXCEPT !.at = place].at = place
  BY <1>1
<1>4. g = [i \in Jobs |-> g[i]]
  BY DEF JobType
<1>5. \A i \in Jobs : g[i] \in
        [kind : {"none", "url", "playlist"}, at : Places, total : Nat, done : Nat]
  BY <1>2, <1>3 DEF JobType
<1>. QED
  BY <1>2, <1>3, <1>4, <1>5 DEF JobType, MovedTo

(* One job has another number of tracks, or has enqueued another number.   *)
Counted(f, j, n) == [f EXCEPT ![j].total = n]
Progress(f, j, n) == [f EXCEPT ![j].done = n]

LEMMA CountsKeepPlaces ==
  ASSUME NEW f \in JobType, NEW j \in Jobs, NEW n \in Nat,
         NEW g, g = Counted(f, j, n) \/ g = Progress(f, j, n)
  PROVE  g \in JobType /\ \A i \in Jobs : g[i].at = f[i].at
<1>. DEFINE R == [kind : {"none", "url", "playlist"}, at : Places, total : Nat, done : Nat]
<1>1. f[j] \in R
  BY DEF JobType
<1>2. /\ g[j] = [f[j] EXCEPT !.total = n] \/ g[j] = [f[j] EXCEPT !.done = n]
      /\ \A i \in Jobs \ {j} : g[i] = f[i]
      /\ g = [i \in Jobs |-> g[i]]
  BY DEF JobType, Counted, Progress
<1>3. g[j] \in R /\ g[j].at = f[j].at
  BY <1>1, <1>2
<1>4. \A i \in Jobs : g[i] \in R
  BY <1>2, <1>3 DEF JobType
<1>. QED
  BY <1>2, <1>3, <1>4 DEF JobType

LEMMA GoesTo ==
  ASSUME job \in JobType, NEW j \in Jobs, NEW place \in Places, Goes(j, place)
  PROVE  /\ job' \in JobType /\ job'[j].at = place
         /\ \A i \in Jobs \ {j} : job'[i] = job[i]
<1>1. job' = MovedTo(job, j, place)
  BY DEF Goes, MovedTo
<1>. QED
  BY <1>1, Moved

(* What is left of a sequence without repetitions when one is taken out.   *)
LEMMA RemovedJob ==
  ASSUME NEW S, NEW s \in Seq(S), IsInjective(s), NEW i \in DOMAIN s
  PROVE  /\ RemoveAt(s, i) \in Seq(S)
         /\ IsInjective(RemoveAt(s, i))
         /\ ToSet(RemoveAt(s, i)) = ToSet(s) \ {s[i]}
<1>. DEFINE r == RemoveAt(s, i)
<1>1. /\ i \in 1..Len(s) /\ Len(s) \in Nat /\ DOMAIN s = 1..Len(s)
  OBVIOUS
<1>. DEFINE a == SubSeq(s, 1, i - 1)
            b == SubSeq(s, i + 1, Len(s))
<1>2. /\ a \in Seq(S) /\ Len(a) = i - 1
      /\ \A k \in 1..(i - 1) : a[k] = s[k]
  BY <1>1
<1>3. /\ b \in Seq(S) /\ Len(b) = Len(s) - i
      /\ \A k \in 1..(Len(s) - i) : b[k] = s[k + i]
  BY <1>1
<1>4. r = a \o b
  BY DEF RemoveAt
<1>. HIDE DEF a, b, r
<1>5. /\ r \in Seq(S) /\ Len(r) = Len(s) - 1 /\ DOMAIN r = 1..(Len(s) - 1)
      /\ \A k \in 1..(Len(s) - 1) : r[k] = IF k < i THEN s[k] ELSE s[k + 1]
  <2>1. r \in Seq(S) /\ Len(r) = Len(s) - 1 /\ DOMAIN r = 1..(Len(s) - 1)
    <3>1. a \in Seq(S) /\ b \in Seq(S)
      BY <1>2, <1>3
    <3>3. a \o b \in Seq(S) /\ Len(a \o b) = Len(a) + Len(b)
      BY <3>1
    <3>2. Len(a) + Len(b) = Len(s) - 1
      BY <1>1, <1>2, <1>3
    <3>. QED
      BY <1>4, <3>2, <3>3
  <2>2. ASSUME NEW k \in 1..(Len(s) - 1), k < i
        PROVE  r[k] = s[k]
    BY <1>1, <1>2, <1>3, <1>4, <2>2
  <2>3. ASSUME NEW k \in 1..(Len(s) - 1), ~(k < i)
        PROVE  r[k] = s[k + 1]
    <3>1. r[k] = b[k - (i - 1)] /\ k - (i - 1) \in 1..(Len(s) - i)
      BY <1>1, <1>2, <1>3, <1>4, <2>3, SMTT(60)
    <3>2. b[k - (i - 1)] = s[(k - (i - 1)) + i]
      BY <1>3, <3>1
    <3>3. (k - (i - 1)) + i = k + 1
      BY <1>1
    <3>. QED
      BY <3>1, <3>2, <3>3
  <2>. QED
    BY <2>1, <2>2, <2>3
<1>6. ASSUME NEW k \in DOMAIN r, NEW l \in DOMAIN r, r[k] = r[l]
      PROVE  k = l
  <2>. DEFINE at(m) == IF m < i THEN m ELSE m + 1
  <2>1. /\ at(k) \in DOMAIN s /\ at(l) \in DOMAIN s
        /\ r[k] = s[at(k)] /\ r[l] = s[at(l)]
    BY <1>1, <1>5
  <2>2. at(k) = at(l)
    BY <1>6, <2>1 DEF IsInjective
  <2>. QED
    BY <1>1, <1>5, <2>2
<1>7. ASSUME NEW x \in ToSet(r)
      PROVE  x \in ToSet(s) \ {s[i]}
  <2>1. PICK k \in 1..(Len(s) - 1) : r[k] = x
    BY <1>5, <1>7 DEF ToSet
  <2>2. PICK m \in 1..Len(s) : x = s[m] /\ m # i
    BY <1>1, <1>5, <2>1
  <2>. QED
    BY <1>1, <2>2 DEF ToSet, IsInjective
<1>8. ASSUME NEW x \in ToSet(s), x # s[i]
      PROVE  x \in ToSet(r)
  <2>1. PICK m \in 1..Len(s) : s[m] = x
    BY <1>1, <1>8 DEF ToSet
  <2>2. CASE m < i
    <3>1. m \in DOMAIN r /\ r[m] = x
      BY <1>1, <1>5, <2>1, <2>2
    <3>. QED
      BY <3>1 DEF ToSet
  <2>3. CASE m > i
    <3>1. m - 1 \in DOMAIN r /\ r[m - 1] = x
      BY <1>1, <1>5, <2>1, <2>3
    <3>. QED
      BY <3>1 DEF ToSet
  <2>. QED
    BY <1>1, <1>8, <2>1, <2>2, <2>3
<1>. QED
  BY <1>5, <1>6, <1>7, <1>8 DEF r, IsInjective

-----------------------------------------------------------------------------
(* The steps of a job, by what they do to Held and Waiting.                *)
LEMMA HeldFinite ==
  /\ IsFiniteSet(Held) /\ Held \subseteq Jobs
  /\ Cardinality(Held) \in Nat
<1>1. IsFiniteSet(Jobs)
  BY CommandsAssumption, FS_Interval DEF Jobs
<1>. QED
  BY <1>1, FS_Subset, FS_CardinalityType DEF Held

(* A job that neither holds a slot nor waits goes to where it does neither *)
(* either, or from one call to the next.                                   *)
LEMMA Stays ==
  ASSUME SlotInv, NEW j \in Jobs, NEW place \in Places \ {"parked"}, job[j].at # "parked",
         job[j].at \in Holding <=> place \in Holding,
         job' \in JobType, job'[j].at = place, \A i \in Jobs \ {j} : job'[i] = job[i],
         UNCHANGED <<taken, parked>>
  PROVE  SlotInv'
<1>1. Held' = Held
  BY DEF Held
<1>2. Waiting' = Waiting
  BY DEF Waiting, At
<1>. QED
  BY <1>1, <1>2 DEF SlotInv, SlotTypes, SlotCount

LEMMA TakesSlot ==
  ASSUME SlotInv, NEW j \in Jobs, TakeSlot(j)
  PROVE  SlotInv'
<1>. USE DEF SlotInv, SlotTypes, SlotCount
<1>1. FirstCall(j) \in Places \cap Holding /\ FirstCall(j) # "parked"
  BY DEF FirstCall, Places, Holding, Calling
<1>2. /\ job' \in JobType /\ job'[j].at = FirstCall(j)
      /\ \A i \in Jobs \ {j} : job'[i] = job[i]
  BY <1>1, GoesTo DEF TakeSlot
<1>3. Held' = Held \cup {j} /\ j \notin Held
  BY <1>1, <1>2 DEF Held, TakeSlot, At, Holding, Calling
<1>4. Waiting' = Waiting
  BY <1>1, <1>2 DEF Waiting, TakeSlot, At
<1>5. Cardinality(Held') = Cardinality(Held) + 1
  BY <1>3, HeldFinite, FS_AddElement
<1>6. parked = <<>> /\ parked' = parked /\ taken' = taken + 1
  BY CommandsAssumption, HeldFinite DEF TakeSlot
<1>. QED
  BY <1>2, <1>4, <1>5, <1>6

LEMMA Parks ==
  ASSUME SlotInv, NEW j \in Jobs, Park(j)
  PROVE  SlotInv'
<1>. USE DEF SlotInv, SlotTypes, SlotCount
<1>1. /\ job' \in JobType /\ job'[j].at = "parked"
      /\ \A i \in Jobs \ {j} : job'[i] = job[i]
  BY GoesTo DEF Park, Places
<1>2. Held' = Held
  BY <1>1 DEF Held, Park, At, Holding, Calling
<1>3. Waiting' = Waiting \cup {j} /\ j \notin Waiting
  BY <1>1 DEF Waiting, Park, At
<1>4. parked' = Append(parked, j) /\ taken' = taken /\ taken = MaxConcurrent
  BY DEF Park
<1>5. parked' \in Seq(Jobs) /\ IsInjective(parked') /\ ToSet(parked') = ToSet(parked) \cup {j}
  BY <1>3, <1>4, AppendedChannel
<1>. QED
  BY <1>1, <1>2, <1>3, <1>4, <1>5

LEMMA TimesOutWaiting ==
  ASSUME SlotInv, NEW j \in Jobs, Deadline(j)
  PROVE  SlotInv'
<1>. USE DEF SlotInv, SlotTypes, SlotCount
<1>1. CASE UNCHANGED <<job, parked>>
  BY <1>1 DEF Deadline, Held, Waiting, At
<1>2. CASE /\ At(j, "parked") /\ Goes(j, "busy")
           /\ \E i \in DOMAIN parked : parked[i] = j /\ parked' = RemoveAt(parked, i)
  <2>1. PICK i \in DOMAIN parked : parked[i] = j /\ parked' = RemoveAt(parked, i)
    BY <1>2
  <2>2. /\ parked' \in Seq(Jobs) /\ IsInjective(parked')
        /\ ToSet(parked') = ToSet(parked) \ {j}
    BY <2>1, RemovedJob
  <2>3. /\ job' \in JobType /\ job'[j].at = "busy"
        /\ \A k \in Jobs \ {j} : job'[k] = job[k]
    BY <1>2, GoesTo DEF Places
  <2>4. Held' = Held
    BY <1>2, <2>3 DEF Held, At, Holding, Calling
  <2>5. Waiting' = Waiting \ {j}
    BY <2>3 DEF Waiting, At
  <2>6. parked # <<>>
    BY <2>1
  <2>. QED
    BY <2>2, <2>3, <2>4, <2>5, <2>6 DEF Deadline
<1>. QED
  BY <1>1, <1>2 DEF Deadline

LEMMA Releases ==
  ASSUME SlotInv, NEW j \in Jobs, Release(j)
  PROVE  SlotInv'
<1>. USE DEF SlotInv, SlotTypes, SlotCount
<1>1. j \in Held /\ job[j].at = "leave"
  BY DEF Release, Held, At, Holding, Calling
<1>2. CASE parked = <<>>
  <2>1. taken' = taken - 1 /\ parked' = parked /\ Goes(j, "done")
    BY <1>2 DEF Release
  <2>2. /\ job' \in JobType /\ job'[j].at = "done"
        /\ \A k \in Jobs \ {j} : job'[k] = job[k]
    BY <2>1, GoesTo DEF Places
  <2>3. Held' = Held \ {j}
    BY <2>2 DEF Held, Holding, Calling
  <2>4. Waiting' = Waiting
    BY <1>1, <2>2 DEF Waiting, At
  <2>5. Cardinality(Held') = Cardinality(Held) - 1
    BY <1>1, <2>3, HeldFinite, FS_RemoveElement
  <2>. QED
    BY <1>2, <2>1, <2>2, <2>4, <2>5
<1>3. CASE parked # <<>>
  <2>. DEFINE k == Head(parked)
              f == MovedTo(job, j, "done")
  <2>1. k \in Jobs /\ k \in Waiting
    BY <1>3 DEF ToSet
  <2>2. k # j /\ k \notin Held
    BY <1>1, <2>1 DEF Waiting, At, Held, Holding, Calling
  <2>3. /\ parked' = Tail(parked) /\ taken' = taken
        /\ job' = MovedTo(f, k, FirstCall(k))
    BY <1>3 DEF Release, MovedTo
  <2>4. FirstCall(k) \in Places \cap Holding /\ FirstCall(k) # "parked"
    BY DEF FirstCall, Places, Holding, Calling
  <2>5. /\ f \in JobType /\ f[j].at = "done" /\ \A i \in Jobs \ {j} : f[i] = job[i]
    BY Moved DEF Places
  <2>. HIDE DEF f, k
  <2>6. /\ job' \in JobType /\ job'[k].at = FirstCall(k)
        /\ \A i \in Jobs \ {k} : job'[i] = f[i]
    BY <2>1, <2>3, <2>4, <2>5, Moved
  <2>7. job'[j].at = "done" /\ \A i \in Jobs \ {j, k} : job'[i] = job[i]
    BY <2>2, <2>5, <2>6
  <2>8. Held' = (Held \ {j}) \cup {k}
    BY <2>1, <2>4, <2>6, <2>7 DEF Held, Holding, Calling
  <2>9. Waiting' = Waiting \ {k}
    BY <1>1, <2>4, <2>6, <2>7 DEF Waiting, At
  <2>10. Cardinality(Held') = Cardinality(Held)
    <3>1. IsFiniteSet(Held \ {j}) /\ Cardinality(Held \ {j}) = Cardinality(Held) - 1
      BY <1>1, HeldFinite, FS_RemoveElement
    <3>2. Cardinality((Held \ {j}) \cup {k}) = Cardinality(Held \ {j}) + 1
      BY <2>2, <3>1, FS_AddElement
    <3>. QED
      BY <2>8, <3>1, <3>2, HeldFinite
  <2>11. /\ parked' \in Seq(Jobs) /\ IsInjective(parked')
         /\ ToSet(parked') = ToSet(parked) \ {k}
    BY <1>3, <2>3, EvictedChannel DEF k
  <2>. QED
    BY <1>3, <2>3, <2>6, <2>9, <2>10, <2>11
<1>. QED
  BY <1>2, <1>3

(* The calls of yt-dlp, the enqueueing and the replies: who holds a slot   *)
(* before the step holds it after.                                         *)
LEMMA Works ==
  ASSUME SlotInv, NEW j \in Jobs,
         TooLate(j) \/ Busy(j) \/ Probe(j) \/ Info(j) \/ List(j) \/ CallFails(j)
           \/ EnqueueTrack(j) \/ ReplyQueued(j)
  PROVE  SlotInv'
<1>. USE DEF SlotInv, SlotTypes, Holding, Calling, Places
<1>1. CASE TooLate(j) \/ Busy(j) \/ Probe(j) \/ CallFails(j) \/ ReplyQueued(j)
  <2>1. PICK place \in Places \ {"parked"} :
          /\ Goes(j, place) /\ job[j].at # "parked"
          /\ job[j].at \in Holding <=> place \in Holding
          /\ UNCHANGED <<taken, parked>>
    BY <1>1 DEF TooLate, Busy, Probe, CallFails, ReplyQueued, At
  <2>. QED
    BY <2>1, GoesTo, Stays
<1>2. CASE Info(j) \/ List(j)
  <2>. DEFINE f == MovedTo(job, j, "enqueue")
  <2>1. PICK n \in Nat : job' = Counted(f, j, n)
    <3>1. CASE Info(j)
      BY <3>1 DEF Info, MovedTo, Counted
    <3>2. CASE List(j)
      <4>1. PICK n \in 1..Limit :
              job' = [job EXCEPT ![j].at = "enqueue", ![j].total = n]
        BY <3>2 DEF List
      <4>2. n \in Nat
        BY CommandsAssumption, LimitType
      <4>3. job' = Counted(f, j, n)
        BY <4>1 DEF MovedTo, Counted
      <4>. QED
        BY <4>2, <4>3
    <3>. QED
      BY <1>2, <3>1, <3>2
  <2>2. f \in JobType /\ f[j].at = "enqueue" /\ \A i \in Jobs \ {j} : f[i] = job[i]
    BY Moved
  <2>. HIDE DEF f
  <2>3. job' \in JobType /\ \A i \in Jobs : job'[i].at = f[i].at
    BY <2>1, <2>2, CountsKeepPlaces
  <2>4. job[j].at \in Calling /\ UNCHANGED <<taken, parked>>
    BY <1>2 DEF Info, List, At
  <2>5. Held' = Held /\ Waiting' = Waiting
    BY <2>2, <2>3, <2>4 DEF Held, Waiting, At
  <2>. QED
    BY <2>3, <2>4, <2>5 DEF SlotCount
<1>3. CASE EnqueueTrack(j)
  <2>1. job[j].done \in Nat
    BY DEF JobType
  <2>2. job' = Progress(job, j, job[j].done + 1) /\ UNCHANGED <<taken, parked>>
    BY <1>3 DEF EnqueueTrack, Progress
  <2>3. job' \in JobType /\ \A i \in Jobs : job'[i].at = job[i].at
    BY <2>1, <2>2, CountsKeepPlaces
  <2>4. Held' = Held /\ Waiting' = Waiting
    BY <2>3 DEF Held, Waiting, At
  <2>. QED
    BY <2>2, <2>3, <2>4 DEF SlotCount
<1>. QED
  BY <1>1, <1>2, <1>3

(* A new job only comes to its select.                                     *)
LEMMA Submits ==
  ASSUME SlotInv, NEW kind \in {"url", "playlist"}, Submit(kind),
         jobs \in Nat, jobs + 1 \in Jobs => job[jobs + 1] = NoJob
  PROVE  SlotInv'
<1>. USE DEF SlotInv, SlotTypes, Holding, Calling, Places
<1>. DEFINE new == jobs + 1
            r == [kind |-> kind, at |-> "select", total |-> 0, done |-> 0]
<1>1. new \in Jobs /\ job[new].at = "none"
  BY CommandsAssumption DEF Submit, Jobs, NoJob
<1>2. /\ r \in [kind : {"none", "url", "playlist"}, at : Places, total : Nat, done : Nat]
      /\ r.at = "select"
  OBVIOUS
<1>3. /\ job' = [job EXCEPT ![new] = r]
      /\ UNCHANGED <<taken, parked>>
  BY DEF Submit
<1>. HIDE DEF r, new
<1>4. /\ job' \in JobType /\ job'[new] = r
      /\ \A i \in Jobs \ {new} : job'[i] = job[i]
  BY <1>1, <1>2, <1>3 DEF JobType
<1>5. Held' = Held
  BY <1>1, <1>2, <1>4 DEF Held
<1>6. Waiting' = Waiting
  BY <1>1, <1>2, <1>4 DEF Waiting, At
<1>. QED
  BY <1>3, <1>4, <1>5, <1>6 DEF SlotCount

(* What a job that does not exist yet looks like.                          *)
Unborn == jobs \in Nat /\ \A j \in Jobs : j > jobs => job[j] = NoJob

LEMMA SlotStep ==
  ASSUME SlotInv, Unborn, [Next]_vars
  PROVE  SlotInv'
<1>1. CASE UNCHANGED <<job, taken, parked>>
  BY <1>1 DEF SlotInv, SlotTypes, SlotCount, Held, Waiting, At
<1>2. ASSUME NEW j \in Jobs, JobStep(j)
      PROVE  SlotInv'
  BY <1>2, TakesSlot, Parks, Releases, Works DEF JobStep
<1>3. ASSUME NEW kind \in {"url", "playlist"}, Submit(kind)
      PROVE  SlotInv'
  BY <1>3, Submits DEF Unborn, Jobs
<1>. QED
  BY <1>1, <1>2, <1>3, TimesOutWaiting DEF Next, vars, poolVars, Proceeds, TimesOut,
     Message, Direct, RBQuery, RBPlay, Kill

(* Only Submit touches a job that does not exist yet, the next one.        *)
LEMMA UnbornStep ==
  ASSUME SlotInv, Unborn, [Next]_vars
  PROVE  Unborn'
<1>1. CASE UNCHANGED <<jobs, job>>
  BY <1>1 DEF Unborn
<1>2. ASSUME NEW kind, Submit(kind)
      PROVE  Unborn'
  BY <1>2 DEF Submit, Unborn, Jobs, SlotInv, SlotTypes, JobType
<1>3. ASSUME NEW j \in Jobs, JobStep(j) \/ Deadline(j), UNCHANGED jobs
      PROVE  Unborn'
  <2>1. job[j].at # "none"
    BY <1>3 DEF JobStep, TakeSlot, Park, TooLate, Busy, Release, Probe, Info, List,
       CallFails, EnqueueTrack, ReplyQueued, Deadline, At, Calling
  <2>2. ~(j > jobs)
    BY <2>1 DEF Unborn, NoJob
  <2>3. ASSUME NEW i \in Jobs, i > jobs
        PROVE  job'[i] = job[i]
    <3>1. i # j
      BY <2>2, <2>3
    <3>2. job[i].at = "none"
      BY <2>3 DEF Unborn, NoJob
    <3>3. CASE UNCHANGED job
      BY <3>3
    <3>4. CASE Release(j) /\ parked # <<>>
      <4>1. Head(parked) \in Waiting
        BY <3>4 DEF SlotInv, SlotTypes, SlotCount, ToSet
      <4>2. i # Head(parked)
        BY <3>2, <4>1 DEF Waiting, At
      <4>. QED
        BY <3>1, <3>4, <4>2 DEF Release, SlotInv, SlotTypes, JobType
    <3>5. CASE ~(Release(j) /\ parked # <<>>)
      BY <1>3, <3>1, <3>5 DEF JobStep, TakeSlot, Park, TooLate, Busy, Release, Probe,
         Info, List, CallFails, EnqueueTrack, ReplyQueued, Deadline, Goes,
         SlotInv, SlotTypes, JobType
    <3>. QED
      BY <3>4, <3>5
  <2>. QED
    BY <1>3, <2>3 DEF Unborn
<1>. QED
  BY <1>1, <1>2, <1>3 DEF Next, vars, poolVars, Proceeds, TimesOut, Message,
     Direct, RBQuery, RBPlay, Kill

(* For any bounds, users and commands every slot of ytSem is held by a job *)
(* that runs, none is lost on an error path, and a job waits only while    *)
(* all slots are taken (urlcmd.go:38-45).                                  *)
THEOREM SlotsAreHeld == Spec => []SlotsHeld
<1>. DEFINE Inv == SlotInv /\ Unborn
<1>1. Init => Inv
  <2>. SUFFICES ASSUME Init PROVE Inv
    OBVIOUS
  <2>1. SlotTypes
    BY DEF Init, SlotTypes, JobType, NoJob, Places, IsInjective
  <2>2. Held = {} /\ Waiting = {} /\ ToSet(parked) = {}
    BY DEF Init, Held, Waiting, At, NoJob, Holding, Calling, ToSet
  <2>3. Cardinality({}) = 0
    BY FS_EmptySet
  <2>4. Unborn
    BY DEF Init, Unborn
  <2>. QED
    BY <2>1, <2>2, <2>3, <2>4 DEF Init, SlotInv, SlotCount
<1>2. Inv => SlotsHeld
  BY DEF SlotInv, SlotCount, SlotsHeld, Held, Waiting
<1>3. Inv /\ [Next]_vars => Inv'
  BY SlotStep, UnbornStep
<1>. QED
  BY <1>1, <1>2, <1>3, PTL DEF Spec

-----------------------------------------------------------------------------
(* The calls of Enqueue: tracks of a job, items of a handler, stations of  *)
(* a table, or of none.                                                    *)
Call ==
  ({"track"} \X Jobs \X Nat) \cup ({"item"} \X Nat) \cup ({"station"} \X Channels \X Nat)

(* What a call adds to the tracks of a job.                                *)
LEMMA AppendedCall ==
  ASSUME enqueued \in Seq(Call), NEW e \in Call, enqueued' = Append(enqueued, e),
         NEW j \in Jobs
  PROVE  /\ enqueued' \in Seq(Call)
         /\ TracksOf(j)' = TracksOf(j) \cup
              (IF e[1] = "track" /\ e[2] = j THEN {Len(enqueued) + 1} ELSE {})
         /\ \A i \in TracksOf(j) : i \in 1..Len(enqueued) /\ enqueued'[i] = enqueued[i]
         /\ enqueued'[Len(enqueued) + 1] = e
<1>1. /\ enqueued' \in Seq(Call) /\ Len(enqueued) \in Nat
      /\ DOMAIN enqueued = 1..Len(enqueued)
      /\ DOMAIN enqueued' = DOMAIN enqueued \cup {Len(enqueued) + 1}
      /\ \A i \in DOMAIN enqueued : enqueued'[i] = enqueued[i]
      /\ enqueued'[Len(enqueued) + 1] = e
  OBVIOUS
<1>. QED
  BY <1>1 DEF TracksOf

(* A move leaves the counts of a job alone, and the counts each other.     *)
LEMMA CountsStay ==
  ASSUME NEW f \in JobType, NEW j \in Jobs, NEW v
  PROVE  /\ MovedTo(f, j, v)[j].total = f[j].total
         /\ MovedTo(f, j, v)[j].done = f[j].done
         /\ Counted(f, j, v)[j].total = v /\ Counted(f, j, v)[j].done = f[j].done
         /\ Progress(f, j, v)[j].done = v /\ Progress(f, j, v)[j].total = f[j].total
         /\ \A i \in Jobs \ {j} : Counted(f, j, v)[i] = f[i] /\ Progress(f, j, v)[i] = f[i]
<1>1. f[j] \in [kind : {"none", "url", "playlist"}, at : Places, total : Nat, done : Nat]
  BY DEF JobType
<1>2. /\ MovedTo(f, j, v)[j] = [f[j] EXCEPT !.at = v]
      /\ Counted(f, j, v)[j] = [f[j] EXCEPT !.total = v]
      /\ Progress(f, j, v)[j] = [f[j] EXCEPT !.done = v]
      /\ \A i \in Jobs \ {j} : Counted(f, j, v)[i] = f[i] /\ Progress(f, j, v)[i] = f[i]
  BY DEF JobType, MovedTo, Counted, Progress
<1>. QED
  BY <1>1, <1>2

LEMMA GoesCounts ==
  ASSUME job \in JobType, NEW j \in Jobs, NEW place, Goes(j, place)
  PROVE  job'[j].total = job[j].total /\ job'[j].done = job[j].done
<1>1. job' = MovedTo(job, j, place)
  BY DEF Goes, MovedTo
<1>. QED
  BY <1>1, CountsStay

-----------------------------------------------------------------------------
(* How far a job is, what it has enqueued and what it has said.            *)
Before == {"none", "select", "parked", "busy"} \cup Calling

Truthful(j) ==
  /\ job[j].at \in Before => job[j].done = 0
  /\ job[j].at \in Before \cup {"enqueue"} => answers[j] = <<>>
  /\ job[j].at \in {"leave", "done"} =>
       \/ answers[j] = <<"queued">> /\ job[j].done = job[j].total
       \/ answers[j] \in {<<"busy">>, <<"error">>} /\ job[j].done = 0
  /\ job[j].done <= job[j].total /\ job[j].total <= Limit

InOrder(j) ==
  /\ {enqueued[i][3] : i \in TracksOf(j)} = 1..job[j].done
  /\ \A i, k \in TracksOf(j) : i < k => enqueued[i][3] < enqueued[k][3]

ReplyTypes ==
  /\ answers \in [Jobs -> Seq({"busy", "error", "queued"})]
  /\ enqueued \in Seq(Call)

ReplyInv == ReplyTypes /\ \A j \in Jobs : Truthful(j) /\ InOrder(j)

(* Where nothing is enqueued, and only j moves, what the others have done  *)
(* is as it was.                                                           *)
LEMMA OthersStay ==
  ASSUME ReplyInv, NEW j \in Jobs, ReplyTypes', UNCHANGED enqueued,
         \A i \in Jobs \ {j} : job'[i] = job[i] /\ answers'[i] = answers[i],
         job'[j].done = job[j].done, Truthful(j)'
  PROVE  ReplyInv'
<1>1. \A i \in Jobs : TracksOf(i)' = TracksOf(i)
  BY DEF TracksOf
<1>2. \A i \in Jobs : job'[i].done = job[i].done
  OBVIOUS
<1>3. \A i \in Jobs : InOrder(i)'
  BY <1>1, <1>2 DEF InOrder, ReplyInv
<1>4. \A i \in Jobs : Truthful(i)'
  BY DEF Truthful, ReplyInv
<1>. QED
  BY <1>3, <1>4 DEF ReplyInv

(* A reply is the first one.                                               *)
LEMMA Answered ==
  ASSUME ReplyTypes, NEW j \in Jobs, NEW text \in {"busy", "error", "queued"},
         answers[j] = <<>>, answers' = [answers EXCEPT ![j] = Append(@, text)],
         UNCHANGED enqueued
  PROVE  /\ ReplyTypes' /\ answers'[j] = <<text>>
         /\ \A i \in Jobs \ {j} : answers'[i] = answers[i]
<1>1. Append(<<>>, text) = <<text>> /\ <<text>> \in Seq({"busy", "error", "queued"})
  OBVIOUS
<1>. QED
  BY <1>1 DEF ReplyTypes

(* The ways of a job before it enqueues, and its replies.                  *)
LEMMA MovesTruthfully ==
  ASSUME SlotInv, ReplyInv, NEW j \in Jobs,
         TakeSlot(j) \/ Park(j) \/ TooLate(j) \/ Probe(j) \/ Deadline(j)
           \/ Busy(j) \/ CallFails(j) \/ ReplyQueued(j)
  PROVE  ReplyInv'
<1>a. /\ job \in JobType /\ ReplyTypes /\ Truthful(j)
      /\ job[j].done \in Nat /\ job[j].total \in Nat
  BY DEF SlotInv, SlotTypes, ReplyInv, JobType
<1>1. CASE UNCHANGED <<job, answers, enqueued>>
  BY <1>1 DEF ReplyInv, ReplyTypes, Truthful, InOrder, TracksOf
<1>2. ASSUME NEW place \in Before, job[j].at \in Before, Goes(j, place),
             UNCHANGED <<answers, enqueued>>
      PROVE  ReplyInv'
  <2>1. place \in Places
    BY DEF Before, Places, Holding
  <2>2. /\ job'[j].at = place /\ \A i \in Jobs \ {j} : job'[i] = job[i]
        /\ job'[j].total = job[j].total /\ job'[j].done = job[j].done
    BY <1>a, <1>2, <2>1, GoesTo, GoesCounts
  <2>3. Truthful(j)'
    BY <1>a, <1>2, <2>2 DEF Truthful, Before, Calling
  <2>. QED
    BY <1>a, <1>2, <2>2, <2>3, OthersStay DEF ReplyTypes
<1>3. ASSUME NEW place \in {"leave", "done"}, NEW text \in {"busy", "error", "queued"},
             job[j].at \in Before \cup {"enqueue"}, Goes(j, place),
             IF text = "queued" THEN job[j].done = job[j].total ELSE job[j].at \in Before,
             answers' = [answers EXCEPT ![j] = Append(@, text)], UNCHANGED enqueued
      PROVE  ReplyInv'
  <2>1. place \in Places
    BY DEF Places, Holding
  <2>2. /\ job'[j].at = place /\ \A i \in Jobs \ {j} : job'[i] = job[i]
        /\ job'[j].total = job[j].total /\ job'[j].done = job[j].done
    BY <1>a, <1>3, <2>1, GoesTo, GoesCounts
  <2>3. /\ ReplyTypes' /\ answers'[j] = <<text>>
        /\ \A i \in Jobs \ {j} : answers'[i] = answers[i]
    BY <1>a, <1>3, Answered DEF Truthful
  <2>4. Truthful(j)'
    BY <1>a, <1>3, <2>2, <2>3 DEF Truthful, Before, Calling
  <2>. QED
    BY <1>3, <2>2, <2>3, <2>4, OthersStay
<1>4. CASE TakeSlot(j) \/ Park(j) \/ TooLate(j) \/ Probe(j)
  <2>1. PICK place \in Before : job[j].at \in Before /\ Goes(j, place)
    BY <1>4 DEF TakeSlot, Park, TooLate, Probe, At, FirstCall, Before, Calling
  <2>. QED
    BY <1>2, <1>4, <2>1 DEF TakeSlot, Park, TooLate, Probe
<1>5. CASE Deadline(j)
  <2>1. CASE At(j, "parked") /\ Goes(j, "busy")
    BY <1>2, <1>5, <2>1 DEF Deadline, At, Before
  <2>. QED
    BY <1>1, <1>5, <2>1 DEF Deadline
<1>6. CASE Busy(j)
  BY <1>3, <1>6 DEF Busy, At, Before
<1>7. CASE CallFails(j)
  BY <1>3, <1>7 DEF CallFails, Before
<1>8. CASE ReplyQueued(j)
  BY <1>3, <1>8 DEF ReplyQueued, At
<1>. QED
  BY <1>4, <1>5, <1>6, <1>7, <1>8

(* Whoever is handed the slot starts with its first call.                  *)
LEMMA ReleasesTruthfully ==
  ASSUME SlotInv, ReplyInv, NEW j \in Jobs, Release(j)
  PROVE  ReplyInv'
<1>a. /\ job \in JobType /\ ReplyTypes /\ UNCHANGED <<answers, enqueued>>
      /\ job[j].at = "leave"
  BY DEF SlotInv, SlotTypes, ReplyInv, Release, At
<1>1. CASE parked = <<>>
  <2>1. Goes(j, "done") /\ "done" \in Places
    BY <1>1 DEF Release, Places
  <2>2. /\ job'[j].at = "done" /\ \A i \in Jobs \ {j} : job'[i] = job[i]
        /\ job'[j].total = job[j].total /\ job'[j].done = job[j].done
    BY <1>a, <2>1, GoesTo, GoesCounts
  <2>3. Truthful(j)'
    BY <1>a, <2>2 DEF Truthful, ReplyInv, Before, Calling
  <2>. QED
    BY <1>a, <2>2, <2>3, OthersStay DEF ReplyTypes
<1>2. CASE parked # <<>>
  <2>. DEFINE f == MovedTo(job, j, "done")
  <2>0. PICK k \in Jobs : k = Head(parked)
    BY <1>2 DEF SlotInv, SlotTypes
  <2>1. k \in Jobs /\ job[k].at = "parked"
    <3>1. parked[1] \in ToSet(parked) /\ k = parked[1]
      BY <1>2, <2>0 DEF SlotInv, SlotTypes, ToSet
    <3>. QED
      BY <3>1 DEF SlotInv, SlotTypes, SlotCount, Waiting, At
  <2>2. k # j
    BY <1>a, <2>1
  <2>3. job' = MovedTo(f, k, FirstCall(k))
    BY <1>2, <2>0 DEF Release, MovedTo
  <2>4. FirstCall(k) \in Calling /\ FirstCall(k) \in Places
    BY DEF FirstCall, Places, Holding, Calling
  <2>5. /\ f \in JobType /\ f[j].at = "done" /\ \A i \in Jobs \ {j} : f[i] = job[i]
        /\ f[j].total = job[j].total /\ f[j].done = job[j].done
    BY <1>a, Moved, CountsStay DEF Places
  <2>. HIDE DEF f
  <2>6. /\ job'[k].at = FirstCall(k)
        /\ \A i \in Jobs \ {k} : job'[i] = f[i]
        /\ job'[k].total = f[k].total /\ job'[k].done = f[k].done
    BY <2>1, <2>3, <2>4, <2>5, Moved, CountsStay
  <2>7. Truthful(j)'
    BY <1>a, <2>2, <2>5, <2>6 DEF Truthful, ReplyInv, Before, Calling
  <2>8. Truthful(k)'
    <3>1. /\ answers[k] = <<>> /\ job[k].done = 0
          /\ job[k].total \in Nat /\ job[k].total <= Limit
      BY <1>a, <2>1 DEF ReplyInv, Truthful, Before, JobType
    <3>2. /\ answers'[k] = <<>> /\ job'[k].done = 0 /\ job'[k].at \in Before
          /\ job'[k].total \in 0..Limit
      BY <1>a, <2>1, <2>2, <2>4, <2>5, <2>6, <3>1, CommandsAssumption, LimitType DEF Before
    <3>. QED
      BY <3>2, CommandsAssumption, LimitType DEF Truthful, Before, Calling
  <2>9. ASSUME NEW i \in Jobs PROVE Truthful(i)'
    <3>1. CASE i \in {j, k}
      BY <2>7, <2>8, <3>1
    <3>2. CASE i \notin {j, k}
      <4>1. job'[i] = job[i] /\ answers'[i] = answers[i] /\ Truthful(i)
        BY <1>a, <2>5, <2>6, <3>2 DEF ReplyInv
      <4>. QED
        BY <4>1 DEF Truthful
    <3>. QED
      BY <3>1, <3>2
  <2>10. \A i \in Jobs : job'[i].done = job[i].done
    BY <2>1, <2>5, <2>6
  <2>11. \A i \in Jobs : InOrder(i)'
    BY <1>a, <2>10 DEF InOrder, TracksOf, ReplyInv
  <2>. QED
    BY <1>a, <2>9, <2>11 DEF ReplyInv, ReplyTypes
<1>. QED
  BY <1>1, <1>2

(* What is to be enqueued is known, and no longer than the limit.          *)
LEMMA ListsTruthfully ==
  ASSUME SlotInv, ReplyInv, NEW j \in Jobs, Info(j) \/ List(j)
  PROVE  ReplyInv'
<1>. DEFINE f == MovedTo(job, j, "enqueue")
<1>a. /\ job \in JobType /\ ReplyTypes /\ UNCHANGED <<answers, enqueued>>
      /\ job[j].at \in Before
  BY DEF SlotInv, SlotTypes, ReplyInv, Info, List, At, Before, Calling
<1>1. PICK n \in 1..Limit : job' = Counted(f, j, n)
  <2>1. CASE Info(j)
    <3>1. job' = Counted(f, j, 1)
      BY <2>1 DEF Info, MovedTo, Counted
    <3>2. 1 \in 1..Limit
      BY CommandsAssumption, LimitType
    <3>. QED
      BY <3>1, <3>2
  <2>2. CASE List(j)
    <3>1. PICK n \in 1..Limit :
            job' = [job EXCEPT ![j].at = "enqueue", ![j].total = n]
      BY <2>2 DEF List
    <3>2. job' = Counted(f, j, n)
      BY <3>1 DEF MovedTo, Counted
    <3>. QED
      BY <3>2
  <2>. QED
    BY <2>1, <2>2
<1>2. /\ f \in JobType /\ f[j].at = "enqueue" /\ \A i \in Jobs \ {j} : f[i] = job[i]
      /\ f[j].done = job[j].done
  BY <1>a, Moved, CountsStay DEF Places, Holding
<1>. HIDE DEF f
<1>3. n \in Nat
  BY CommandsAssumption, LimitType
<1>4. /\ job'[j].at = "enqueue" /\ job'[j].total = n /\ job'[j].done = job[j].done
      /\ \A i \in Jobs \ {j} : job'[i] = job[i]
  BY <1>1, <1>2, <1>3, CountsStay, CountsKeepPlaces
<1>5. Truthful(j)'
  BY <1>a, <1>4, CommandsAssumption, LimitType DEF Truthful, ReplyInv, Before, Calling
<1>. QED
  BY <1>a, <1>4, <1>5, OthersStay DEF ReplyTypes

(* The next track of the list comes after those that are there.            *)
LEMMA EnqueuesInOrder ==
  ASSUME SlotInv, ReplyInv, NEW j \in Jobs, EnqueueTrack(j)
  PROVE  ReplyInv'
<1>. DEFINE n == job[j].done + 1
            e == <<"track", j, n>>
            last == Len(enqueued) + 1
<1>a. /\ job \in JobType /\ ReplyTypes /\ UNCHANGED answers
      /\ job[j].done \in Nat /\ job[j].total \in Nat /\ job[j].at = "enqueue"
      /\ Len(enqueued) \in Nat
  BY DEF SlotInv, SlotTypes, JobType, ReplyInv, ReplyTypes, EnqueueTrack, At
<1>1. e \in Call /\ e[1] = "track" /\ e[2] = j /\ e[3] = n
  BY <1>a DEF Call
<1>2. enqueued' = Append(enqueued, e) /\ job[j].done < job[j].total
      /\ job' = Progress(job, j, n)
  BY DEF EnqueueTrack, Progress
<1>. HIDE DEF e
<1>3. /\ job'[j].at = job[j].at /\ job'[j].done = n /\ job'[j].total = job[j].total
      /\ \A i \in Jobs \ {j} : job'[i] = job[i]
  BY <1>a, <1>2, CountsStay, CountsKeepPlaces
<1>4. /\ enqueued' \in Seq(Call) /\ enqueued'[last] = e
      /\ TracksOf(j)' = TracksOf(j) \cup {last}
      /\ \A i \in Jobs \ {j} : TracksOf(i)' = TracksOf(i)
      /\ \A i \in Jobs : \A m \in TracksOf(i) :
            m \in 1..Len(enqueued) /\ enqueued'[m] = enqueued[m]
  <2>1. enqueued \in Seq(Call)
    BY <1>a DEF ReplyTypes
  <2>2. ASSUME NEW i \in Jobs
        PROVE  /\ enqueued' \in Seq(Call) /\ enqueued'[last] = e
               /\ TracksOf(i)' = TracksOf(i) \cup (IF i = j THEN {last} ELSE {})
               /\ \A m \in TracksOf(i) : m \in 1..Len(enqueued) /\ enqueued'[m] = enqueued[m]
    BY <1>1, <1>2, <2>1, AppendedCall
  <2>. QED
    BY <2>2
<1>5. InOrder(j)'
  <2>1. /\ {enqueued[i][3] : i \in TracksOf(j)} = 1..job[j].done
        /\ \A i, k \in TracksOf(j) : i < k => enqueued[i][3] < enqueued[k][3]
    BY DEF ReplyInv, InOrder
  <2>2. {enqueued'[i][3] : i \in TracksOf(j)'} = (1..job[j].done) \cup {n}
    BY <1>1, <1>4, <2>1
  <2>3. (1..job[j].done) \cup {n} = 1..job'[j].done
    BY <1>a, <1>3
  <2>4. ASSUME NEW i \in TracksOf(j)', NEW k \in TracksOf(j)', i < k
        PROVE  enqueued'[i][3] < enqueued'[k][3]
    <3>1. i \in TracksOf(j) /\ enqueued'[i] = enqueued[i]
      BY <1>a, <1>4, <2>4
    <3>2. CASE k \in TracksOf(j)
      BY <1>4, <2>1, <2>4, <3>1, <3>2
    <3>3. CASE k = last
      <4>1. enqueued[i][3] \in 1..job[j].done
        BY <2>1, <3>1
      <4>. QED
        BY <1>a, <1>1, <1>4, <3>1, <3>3, <4>1, SMTT(60)
    <3>. QED
      BY <1>4, <3>2, <3>3
  <2>. QED
    BY <2>2, <2>3, <2>4 DEF InOrder
<1>6. ASSUME NEW i \in Jobs \ {j} PROVE InOrder(i)'
  <2>1. InOrder(i) /\ job'[i].done = job[i].done
    BY <1>3 DEF ReplyInv
  <2>2. TracksOf(i)' = TracksOf(i) /\ \A m \in TracksOf(i) : enqueued'[m] = enqueued[m]
    BY <1>4
  <2>3. {enqueued'[m][3] : m \in TracksOf(i)} = {enqueued[m][3] : m \in TracksOf(i)}
    BY <2>2
  <2>. QED
    BY <2>1, <2>2, <2>3 DEF InOrder
<1>7. \A i \in Jobs : Truthful(i)'
  BY <1>a, <1>2, <1>3 DEF Truthful, ReplyInv, Before, Calling
<1>. QED
  BY <1>a, <1>4, <1>5, <1>6, <1>7 DEF ReplyInv, ReplyTypes

(* A new job has done nothing and said nothing.                            *)
LEMMA SubmitsSilently ==
  ASSUME SlotInv, ReplyInv, Unborn, NEW kind \in {"url", "playlist"}, Submit(kind)
  PROVE  ReplyInv'
<1>. DEFINE r == [kind |-> kind, at |-> "select", total |-> 0, done |-> 0]
<1>1. PICK new \in Jobs : new = jobs + 1 /\ job[new] = NoJob
  BY CommandsAssumption DEF Submit, Jobs, Unborn
<1>2. /\ job' = [job EXCEPT ![new] = r] /\ UNCHANGED <<answers, enqueued>>
      /\ r.at = "select" /\ r.total = 0 /\ r.done = 0
      /\ job[new].at = "none" /\ job[new].done = 0 /\ job[new].total = 0
  BY <1>1 DEF Submit, NoJob
<1>. HIDE DEF r
<1>3. job'[new] = r /\ \A i \in Jobs \ {new} : job'[i] = job[i]
  BY <1>1, <1>2 DEF SlotInv, SlotTypes, JobType
<1>4. answers'[new] = <<>>
  BY <1>1, <1>2 DEF Truthful, ReplyInv, Before
<1>5. job'[new].at = "select" /\ job'[new].total = 0 /\ job'[new].done = 0
  BY <1>2, <1>3
<1>6. Truthful(new)'
  BY <1>4, <1>5, CommandsAssumption, LimitType DEF Truthful, Before, Calling
<1>7. ReplyTypes'
  BY <1>2 DEF ReplyInv, ReplyTypes
<1>8. /\ UNCHANGED enqueued /\ job'[new].done = job[new].done
      /\ \A i \in Jobs \ {new} : job'[i] = job[i] /\ answers'[i] = answers[i]
  BY <1>2, <1>3, <1>5
<1>. QED
  BY <1>1, <1>6, <1>7, <1>8, OthersStay

(* What a handler enqueues is no track of a job.                           *)
LEMMA HandlersEnqueue ==
  ASSUME ReplyInv, NEW e \in Call, e[1] # "track",
         enqueued' = Append(enqueued, e), UNCHANGED <<job, answers>>
  PROVE  ReplyInv'
<1>1. /\ enqueued' \in Seq(Call)
      /\ \A j \in Jobs : TracksOf(j)' = TracksOf(j)
      /\ \A j \in Jobs : \A i \in TracksOf(j) : enqueued'[i] = enqueued[i]
  <2>1. enqueued \in Seq(Call)
    BY DEF ReplyInv, ReplyTypes
  <2>2. ASSUME NEW j \in Jobs
        PROVE  /\ enqueued' \in Seq(Call) /\ TracksOf(j)' = TracksOf(j)
               /\ \A i \in TracksOf(j) : enqueued'[i] = enqueued[i]
    <3>1. /\ enqueued' \in Seq(Call)
          /\ TracksOf(j)' = TracksOf(j) \cup
               (IF e[1] = "track" /\ e[2] = j THEN {Len(enqueued) + 1} ELSE {})
          /\ \A i \in TracksOf(j) : i \in 1..Len(enqueued) /\ enqueued'[i] = enqueued[i]
      BY <2>1, AppendedCall
    <3>. QED
      BY <3>1
  <2>3. enqueued' \in Seq(Call)
    BY <2>1
  <2>. QED
    BY <2>2, <2>3
<1>2. ASSUME NEW j \in Jobs PROVE InOrder(j)'
  <2>1. InOrder(j) /\ job'[j].done = job[j].done
    BY DEF ReplyInv
  <2>2. TracksOf(j)' = TracksOf(j) /\ \A m \in TracksOf(j) : enqueued'[m] = enqueued[m]
    BY <1>1
  <2>3. {enqueued'[m][3] : m \in TracksOf(j)} = {enqueued[m][3] : m \in TracksOf(j)}
    BY <2>2, ZenonT(60)
  <2>. QED
    BY <2>1, <2>2, <2>3 DEF InOrder
<1>3. \A j \in Jobs : Truthful(j)'
  BY DEF Truthful, ReplyInv
<1>. QED
  BY <1>1, <1>2, <1>3 DEF ReplyInv, ReplyTypes

-----------------------------------------------------------------------------
(* The counters, and the tables that the channels were shown.              *)
Fits(e, n) ==
  \/ e[1] = "track" /\ e[2] \in Jobs /\ e[3] \in 1..Limit
  \/ e[1] = "item" /\ e[2] \in 1..n
  \/ e[1] = "station" /\ e[2] \in Channels /\ e[3] \in 0..n

CountTypes ==
  /\ commands \in 0..MaxCommands /\ jobs \in 0..MaxJobs
  /\ taken \in 0..MaxConcurrent /\ late \subseteq Jobs
  /\ killedBy \in Users \cup {Nobody}
  /\ \A i \in DOMAIN enqueued : Fits(enqueued[i], commands)

CacheShown ==
  /\ shown \in [Channels -> 0..commands] /\ DOMAIN stations \subseteq Channels
  /\ \A ch \in DOMAIN stations : stations[ch] = shown[ch]

CommandsInv ==
  /\ SlotInv /\ Unborn /\ ReplyInv /\ CacheInv
  /\ CountTypes /\ CacheShown

(* Every step enqueues one thing at most, and a station of a table is one  *)
(* of the table that its channel was shown last.                           *)
LEMMA EnqueuedStep ==
  ASSUME CommandsInv, [Next]_vars
  PROVE  \/ UNCHANGED enqueued
         \/ \E e \in Call :
              /\ enqueued' = Append(enqueued, e) /\ Fits(e, commands')
              /\ e[1] = "station" => e[3] \in {0, shown[e[2]]}
              /\ e[1] # "track" => UNCHANGED <<job, answers>>
<1>a. commands \in Nat /\ MaxJobs \in Nat
  BY CommandsAssumption, LimitType DEF CommandsInv, CountTypes
<1>1. ASSUME NEW j \in Jobs, EnqueueTrack(j), UNCHANGED commands
      PROVE  \E e \in Call : /\ enqueued' = Append(enqueued, e) /\ Fits(e, commands')
                             /\ e[1] = "track"
  <2>. DEFINE e == <<"track", j, job[j].done + 1>>
  <2>1. /\ job[j].done \in Nat /\ job[j].total \in Nat
        /\ job[j].done < job[j].total /\ job[j].total <= Limit
    BY <1>1 DEF CommandsInv, SlotInv, SlotTypes, JobType, ReplyInv, Truthful, EnqueueTrack
  <2>2. job[j].done + 1 \in 1..Limit /\ job[j].done + 1 \in Nat
    BY <2>1, CommandsAssumption, LimitType
  <2>3. e \in Call /\ e[1] = "track" /\ e[2] = j /\ e[3] = job[j].done + 1
    BY <2>2 DEF Call
  <2>4. enqueued' = Append(enqueued, e)
    BY <1>1 DEF EnqueueTrack
  <2>. HIDE DEF e
  <2>5. Fits(e, commands')
    BY <2>2, <2>3 DEF Fits
  <2>. QED
    BY <2>3, <2>4, <2>5
<1>2. ASSUME Direct, commands' = commands + 1
      PROVE  \E e \in Call : /\ enqueued' = Append(enqueued, e) /\ Fits(e, commands')
                             /\ e[1] = "item"
  <2>. DEFINE e == <<"item", commands + 1>>
  <2>1. e \in Call /\ e[1] = "item" /\ e[2] = commands + 1
    BY <1>a DEF Call
  <2>2. enqueued' = Append(enqueued, e)
    BY <1>2 DEF Direct
  <2>. HIDE DEF e
  <2>3. Fits(e, commands')
    BY <1>a, <1>2, <2>1 DEF Fits
  <2>. QED
    BY <2>1, <2>2, <2>3
<1>3. ASSUME NEW ch \in Channels, RBPlay(ch), commands' = commands + 1
      PROVE  \E e \in Call : /\ enqueued' = Append(enqueued, e) /\ Fits(e, commands')
                             /\ e[1] = "station" /\ e[3] \in {0, shown[e[2]]}
  <2>1. PICK t \in {0, shown[ch]} : enqueued' = Append(enqueued, <<"station", ch, t>>)
    BY <1>3 DEF RBPlay, CommandsInv, CacheShown
  <2>2. t \in 0..commands /\ t \in Nat
    BY <1>a DEF CommandsInv, CacheShown
  <2>. DEFINE e == <<"station", ch, t>>
  <2>3. e \in Call /\ e[1] = "station" /\ e[2] = ch /\ e[3] = t
    BY <2>2 DEF Call
  <2>4. enqueued' = Append(enqueued, e)
    BY <2>1
  <2>. HIDE DEF e
  <2>5. Fits(e, commands')
    BY <1>a, <1>3, <2>2, <2>3 DEF Fits
  <2>. QED
    BY <2>3, <2>4, <2>5
<1>4. CASE UNCHANGED vars
  BY <1>4 DEF vars
<1>5. ASSUME NEW j \in Jobs, Proceeds(j) \/ TimesOut(j)
      PROVE  UNCHANGED enqueued \/ (EnqueueTrack(j) /\ UNCHANGED commands)
  BY <1>5 DEF Proceeds, TimesOut, JobStep, TakeSlot, Park, TooLate, Busy, Release, Probe,
     Info, List, CallFails, ReplyQueued, Deadline
<1>6. ASSUME NEW user \in Users, NEW w \in Words, NEW ch \in Channels,
             Message(user, w, ch)
      PROVE  /\ commands' = commands + 1
             /\ \/ UNCHANGED enqueued
                \/ Direct /\ UNCHANGED <<job, answers>>
                \/ RBPlay(ch) /\ UNCHANGED <<job, answers>>
  BY <1>6 DEF Message, Submit, Direct, RBQuery, RBPlay, Kill, poolVars
<1>. QED
  BY <1>1, <1>2, <1>3, <1>4, <1>5, <1>6 DEF Next

LEMMA ReplyStep ==
  ASSUME CommandsInv, [Next]_vars
  PROVE  ReplyInv'
<1>a. SlotInv /\ Unborn /\ ReplyInv
  BY DEF CommandsInv
<1>1. CASE UNCHANGED <<job, answers, enqueued>>
  BY <1>a, <1>1 DEF ReplyInv, ReplyTypes, Truthful, InOrder, TracksOf
<1>2. ASSUME NEW j \in Jobs, JobStep(j) \/ Deadline(j)
      PROVE  ReplyInv'
  BY <1>a, <1>2, MovesTruthfully, ReleasesTruthfully, ListsTruthfully, EnqueuesInOrder
  DEF JobStep
<1>3. ASSUME NEW kind \in {"url", "playlist"}, Submit(kind)
      PROVE  ReplyInv'
  BY <1>a, <1>3, SubmitsSilently
<1>4. CASE (Direct \/ \E ch \in Channels : RBPlay(ch)) /\ UNCHANGED <<job, answers>>
  <2>1. PICK e \in Call : enqueued' = Append(enqueued, e) /\ e[1] # "track"
    <3>1. CASE Direct
      <4>1. <<"item", commands + 1>> \in Call /\ <<"item", commands + 1>>[1] # "track"
        BY DEF Call, CommandsInv, CountTypes
      <4>. QED
        BY <3>1, <4>1 DEF Direct
    <3>2. ASSUME NEW ch \in Channels, RBPlay(ch)
          PROVE  \E e \in Call : enqueued' = Append(enqueued, e) /\ e[1] # "track"
      <4>1. PICK t \in {0, shown[ch]} : enqueued' = Append(enqueued, <<"station", ch, t>>)
        BY <3>2 DEF RBPlay, CommandsInv, CacheShown
      <4>2. t \in Nat
        BY DEF CommandsInv, CacheShown, CountTypes
      <4>3. <<"station", ch, t>> \in Call /\ <<"station", ch, t>>[1] # "track"
        BY <4>2 DEF Call
      <4>. QED
        BY <4>1, <4>3
    <3>. QED
      BY <1>4, <3>1, <3>2
  <2>. QED
    BY <1>a, <1>4, <2>1, HandlersEnqueue
<1>. QED
  BY <1>1, <1>2, <1>3, <1>4 DEF Next, vars, poolVars, Proceeds, TimesOut,
     Message, Direct, RBQuery, RBPlay, Kill

(* !rbquery stores what it shows, and no other command touches either.     *)
LEMMA ShownStep ==
  ASSUME CommandsInv, [Next]_vars
  PROVE  CacheShown'
<1>a. CacheShown /\ commands \in Nat
  BY DEF CommandsInv, CountTypes
<1>1. CASE UNCHANGED <<shown, stations>> /\ commands' \in {commands, commands + 1}
  <2>1. 0..commands \subseteq 0..commands'
    BY <1>a, <1>1
  <2>. QED
    BY <1>a, <1>1, <2>1 DEF CacheShown
<1>2. ASSUME NEW ch \in Channels, RBQuery(ch), commands' = commands + 1
      PROVE  CacheShown'
  <2>1. shown' = [shown EXCEPT ![ch] = commands + 1]
    BY <1>2 DEF RBQuery
  <2>2. PICK left \in SUBSET DOMAIN stations :
          stations' = [c \in left \cup {ch} |-> IF c = ch THEN commands + 1 ELSE stations[c]]
    BY <1>2 DEF RBQuery, CacheSet
  <2>3. shown' \in [Channels -> 0..commands']
    BY <1>a, <1>2, <2>1 DEF CacheShown
  <2>. QED
    BY <1>a, <1>2, <2>1, <2>2, <2>3 DEF CacheShown
<1>. QED
  BY <1>1, <1>2 DEF Next, vars, cacheVars, Proceeds, TimesOut, Message, Submit, Direct,
     RBPlay, Kill

LEMMA CountStep ==
  ASSUME CommandsInv, [Next]_vars
  PROVE  CountTypes'
<1>a. /\ CountTypes /\ commands \in Nat /\ jobs \in Nat /\ taken \in Nat
      /\ MaxConcurrent \in Nat /\ MaxJobs \in Nat /\ MaxCommands \in Nat
  BY CommandsAssumption, LimitType DEF CommandsInv, CountTypes
<1>1. commands' \in {commands, commands + 1} /\ commands' \in 0..MaxCommands
  BY <1>a DEF CountTypes, Next, vars, Proceeds, TimesOut, Message
<1>2. jobs' \in 0..MaxJobs
  BY <1>a DEF CountTypes, Next, vars, Proceeds, TimesOut, Message, Submit, Direct, RBQuery,
     RBPlay, Kill
<1>3. killedBy' \in Users \cup {Nobody}
  BY <1>a DEF CountTypes, Next, vars, Proceeds, TimesOut, Message, Submit, Direct, RBQuery,
     RBPlay, Kill
<1>4. late' \subseteq Jobs
  BY <1>a, ZenonT(60)
  DEF CountTypes, Next, vars, poolVars, Proceeds, TimesOut, JobStep, TakeSlot, Park,
     TooLate, Busy, Release, Probe, Info, List, CallFails, EnqueueTrack, ReplyQueued,
     Deadline, Message, Submit, Direct, RBQuery, RBPlay, Kill
<1>5. taken' \in 0..MaxConcurrent
  <2>1. CASE taken' = taken
    BY <1>a, <2>1 DEF CountTypes
  <2>2. ASSUME NEW j \in Jobs, TakeSlot(j)
        PROVE  taken' \in 0..MaxConcurrent
    BY <1>a, <2>2 DEF TakeSlot
  <2>3. ASSUME NEW j \in Jobs, Release(j), taken' = taken - 1
        PROVE  taken' \in 0..MaxConcurrent
    <3>1. taken' \in Nat
      <4>1. Held \subseteq Jobs /\ j \in Held /\ IsFiniteSet(Held)
        BY <2>3, HeldFinite DEF Release, At, Held, Holding
      <4>2. Cardinality(Held \ {j}) = Cardinality(Held) - 1 /\ IsFiniteSet(Held \ {j})
        BY <4>1, FS_RemoveElement
      <4>3. Cardinality(Held \ {j}) \in Nat
        BY <4>2, FS_CardinalityType
      <4>. QED
        BY <2>3, <4>2, <4>3 DEF CommandsInv, SlotInv, SlotCount
    <3>. QED
      BY <1>a, <2>3, <3>1 DEF CountTypes
  <2>. QED
    BY <2>1, <2>2, <2>3, ZenonT(60)
    DEF Next, vars, poolVars, Proceeds, TimesOut, JobStep, Park,
       TooLate, Busy, Release, Probe, Info, List, CallFails, EnqueueTrack, ReplyQueued,
       Deadline, Message, Submit, Direct, RBQuery, RBPlay, Kill
<1>6. \A i \in DOMAIN enqueued' : Fits(enqueued'[i], commands')
  <2>1. \A i \in DOMAIN enqueued : Fits(enqueued[i], commands')
    BY <1>a, <1>1 DEF CountTypes, Fits
  <2>2. CASE UNCHANGED enqueued
    BY <2>1, <2>2
  <2>3. ASSUME NEW e \in Call, enqueued' = Append(enqueued, e), Fits(e, commands')
        PROVE  \A i \in DOMAIN enqueued' : Fits(enqueued'[i], commands')
    <3>1. enqueued \in Seq(Call)
      BY DEF CommandsInv, ReplyInv, ReplyTypes
    <3>2. \A i \in DOMAIN enqueued' :
            \/ i \in DOMAIN enqueued /\ enqueued'[i] = enqueued[i]
            \/ enqueued'[i] = e
      BY <2>3, <3>1
    <3>. QED
      BY <2>1, <2>3, <3>2
  <2>. QED
    BY <2>2, <2>3, EnqueuedStep
<1>. QED
  BY <1>1, <1>2, <1>3, <1>4, <1>5, <1>6 DEF CountTypes

LEMMA CommandsInvHolds == Spec => []CommandsInv
<1>1. Init => CommandsInv
  <2>. SUFFICES ASSUME Init PROVE CommandsInv
    OBVIOUS
  <2>1. SlotInv
    <3>1. SlotTypes
      BY DEF Init, SlotTypes, JobType, NoJob, Places, IsInjective
    <3>2. Held = {} /\ Waiting = {} /\ ToSet(parked) = {}
      BY DEF Init, Held, Waiting, At, NoJob, Holding, Calling, ToSet
    <3>. QED
      BY <3>1, <3>2, FS_EmptySet DEF Init, SlotInv, SlotCount
  <2>2. Unborn
    BY DEF Init, Unborn
  <2>3. ReplyInv
    <3>1. ReplyTypes
      BY DEF Init, ReplyTypes
    <3>2. ASSUME NEW j \in Jobs PROVE Truthful(j) /\ InOrder(j)
      <4>1. /\ job[j].at = "none" /\ job[j].done = 0 /\ job[j].total = 0
            /\ answers[j] = <<>> /\ TracksOf(j) = {}
        BY DEF Init, NoJob, TracksOf
      <4>2. Truthful(j)
        BY <4>1, CommandsAssumption, LimitType DEF Truthful, Before
      <4>. QED
        BY <4>1, <4>2 DEF InOrder
    <3>. QED
      BY <3>1, <3>2 DEF ReplyInv
  <2>4. CacheInv
    BY CommandsAssumption DEF Init, CacheInv, CacheInStep, ToSet, IsInjective
  <2>5. CountTypes
    BY CommandsAssumption, LimitType DEF Init, CountTypes
  <2>6. CacheShown
    BY DEF Init, CacheShown
  <2>. QED
    BY <2>1, <2>2, <2>3, <2>4, <2>5, <2>6 DEF CommandsInv
<1>2. CommandsInv /\ [Next]_vars => CommandsInv'
  BY SlotStep, UnbornStep, ReplyStep, CacheStep, CountStep, ShownStep DEF CommandsInv
<1>. QED
  BY <1>1, <1>2, PTL DEF Spec

(* The types and bounds of the commands' state, for any users and limits:  *)
(* never more slots taken than there are, nor more tracks of one request   *)
(* in the queue than max_track_playlist.                                   *)
THEOREM Typed == Spec => []TypeOK
<1>1. CommandsInv => TypeOK
  <2>. SUFFICES ASSUME CommandsInv PROVE TypeOK
    OBVIOUS
  <2>1. job \in [Jobs -> [kind : {"none", "url", "playlist"}, at : Places,
                        total : 0..Limit, done : 0..Limit]]
    <3>1. \A j \in Jobs : /\ job[j].done \in 0..Limit
                          /\ job[j].total \in 0..Limit
      BY CommandsAssumption, LimitType
      DEF CommandsInv, SlotInv, SlotTypes, JobType, ReplyInv, Truthful
    <3>2. \A j \in Jobs : job[j] \in [kind : {"none", "url", "playlist"}, at : Places,
                        total : 0..Limit, done : 0..Limit]
      BY <3>1 DEF CommandsInv, SlotInv, SlotTypes, JobType
    <3>. QED
      BY <3>2 DEF CommandsInv, SlotInv, SlotTypes, JobType
  <2>2. \A j \in Jobs : ToSet(answers[j]) \subseteq {"busy", "error", "queued"}
    BY DEF CommandsInv, ReplyInv, ReplyTypes, ToSet
  <2>3. \A e \in ToSet(enqueued) :
          \/ e[1] = "track" /\ e[2] \in Jobs /\ e[3] \in 1..Limit
          \/ e[1] = "item" /\ e[2] \in 1..commands
          \/ e[1] = "station" /\ e[2] \in Channels /\ e[3] \in 0..commands
    BY DEF CommandsInv, CountTypes, Fits, ToSet
  <2>4. ToSet(parked) \subseteq Jobs /\ ToSet(order) \subseteq Channels
    BY DEF CommandsInv, SlotInv, SlotTypes, CacheInv, ToSet
  <2>. QED
    BY <2>1, <2>2, <2>3, <2>4 DEF CommandsInv, CountTypes, CacheShown, TypeOK
<1>. QED
  BY <1>1, CommandsInvHolds, PTL

(* A request is answered once.  After "queued" exactly its tracks are in   *)
(* the queue, in the order of the list, after "error" and "busy" none,     *)
(* whatever the other jobs and handlers enqueue in between.                *)
THEOREM RepliesAreTrue == Spec => []RepliesTellTruth
<1>1. CommandsInv => RepliesTellTruth
  <2>. SUFFICES ASSUME CommandsInv, NEW j \in Jobs
                PROVE  /\ Len(answers[j]) <= 1
                       /\ answers[j] = <<"queued">> =>
                            /\ {enqueued[i][3] : i \in TracksOf(j)} = 1..job[j].total
                            /\ \A i, k \in TracksOf(j) :
                                  i < k => enqueued[i][3] < enqueued[k][3]
                       /\ answers[j] \in {<<"busy">>, <<"error">>} => TracksOf(j) = {}
    BY DEF RepliesTellTruth
  <2>1. Truthful(j) /\ InOrder(j)
    BY DEF CommandsInv, ReplyInv
  <2>2. \/ answers[j] = <<>>
        \/ answers[j] = <<"queued">> /\ job[j].done = job[j].total
        \/ answers[j] \in {<<"busy">>, <<"error">>} /\ job[j].done = 0
    BY <2>1 DEF Truthful, Before, Places, Holding, CommandsInv, SlotInv, SlotTypes, JobType
  <2>3. Len(answers[j]) <= 1
    <3>1. Len(<<>>) = 0 /\ Len(<<"queued">>) = 1 /\ Len(<<"busy">>) = 1
          /\ Len(<<"error">>) = 1
      OBVIOUS
    <3>2. answers[j] \in {<<>>, <<"queued">>, <<"busy">>, <<"error">>}
      BY <2>2, Zenon
    <3>3. \A a \in {<<>>, <<"queued">>, <<"busy">>, <<"error">>} : Len(a) \in {0, 1}
      BY <3>1, Zenon
    <3>4. \A n \in {0, 1} : n <= 1
      OBVIOUS
    <3>. QED
      BY <3>2, <3>3, <3>4, Zenon
  <2>4. ASSUME job[j].done = 0 PROVE TracksOf(j) = {}
    <3>1. 1..0 = {}
      OBVIOUS
    <3>. QED
      BY <2>1, <2>4, <3>1 DEF InOrder
  <2>5. <<"queued">> # <<"busy">> /\ <<"queued">> # <<"error">>
        /\ \A text : <<>> # <<text>>
    OBVIOUS
  <2>6. CASE answers[j] = <<>>
    BY <2>3, <2>5, <2>6
  <2>7. CASE answers[j] = <<"queued">> /\ job[j].done = job[j].total
    BY <2>1, <2>3, <2>5, <2>7 DEF InOrder
  <2>8. CASE answers[j] \in {<<"busy">>, <<"error">>} /\ job[j].done = 0
    BY <2>3, <2>4, <2>5, <2>8
  <2>. QED
    BY <2>2, <2>6, <2>7, <2>8
<1>. QED
  BY <1>1, CommandsInvHolds, PTL

(* Two things that are appended to the same sequence are the same.         *)
LEMMA AppendedOnce ==
  ASSUME NEW S, NEW s \in Seq(S), NEW d \in S, NEW e
  PROVE  /\ Append(s, d) # s
         /\ Append(s, d) = Append(s, e) => d = e
<1>1. /\ Len(s) \in Nat /\ s \in Seq(S \cup {e})
      /\ Append(s, d)[Len(s) + 1] = d /\ Append(s, e)[Len(s) + 1] = e
      /\ Len(Append(s, d)) = Len(s) + 1
  OBVIOUS
<1>. QED
  BY <1>1

(* A station that is played by its index is one of the table that was sent *)
(* last to the channel where it is asked for, whatever was searched        *)
(* meanwhile in other channels, and whichever tables were evicted.         *)
THEOREM IndexMeansShownTable == Spec => PlaysShownStation
<1>1. CommandsInv /\ [Next]_vars
        => [\A ch \in Channels, t \in 1..MaxCommands :
              enqueued' = Append(enqueued, <<"station", ch, t>>) => t = shown[ch]]_vars
  <2>. SUFFICES ASSUME CommandsInv, [Next]_vars,
                       NEW ch \in Channels, NEW t \in 1..MaxCommands,
                       enqueued' = Append(enqueued, <<"station", ch, t>>)
                PROVE  t = shown[ch]
    OBVIOUS
  <2>. DEFINE d == <<"station", ch, t>>
  <2>1. enqueued \in Seq(Call) /\ d \in Call /\ t # 0
    BY CommandsAssumption DEF CommandsInv, ReplyInv, ReplyTypes, Call
  <2>2. enqueued' # enqueued
    BY <2>1, AppendedOnce
  <2>3. PICK e \in Call : /\ enqueued' = Append(enqueued, e)
                          /\ e[1] = "station" => e[3] \in {0, shown[e[2]]}
    BY <2>2, EnqueuedStep
  <2>4. d = e
    <3>1. enqueued' = Append(enqueued, d)
      OBVIOUS
    <3>2. enqueued' = Append(enqueued, e)
      BY <2>3
    <3>. HIDE DEF d
    <3>. QED
      BY <2>1, <3>1, <3>2, AppendedOnce, ZenonT(60)
  <2>5. d[1] = "station" /\ d[2] = ch /\ d[3] = t
    OBVIOUS
  <2>. QED
    BY <2>1, <2>3, <2>4, <2>5
<1>. QED
  BY <1>1, CommandsInvHolds, PTL DEF Spec, PlaysShownStation
=============================================================================
