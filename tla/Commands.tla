------------------------------ MODULE Commands ------------------------------
(***************************************************************************)
(* The commands that leave work behind (internal/command): !url and        *)
(* !playlist start a job that waits for one of maxConcurrentYT slots, runs *)
(* yt-dlp, enqueues and replies (urlcmd.go); !rbquery stores its table in  *)
(* a bounded cache, from which !rbplay takes a station; !radio, !file and  *)
(* !hls enqueue at once (handlers.go).                                     *)
(*                                                                         *)
(* Handlers run one at a time on gumble's read goroutine, jobs on          *)
(* goroutines of their own.  A job is named by its number, a table of      *)
(* search results too; 0 is no table.  The goroutines share the slots and  *)
(* the queue, of which this module keeps the calls of Enqueue.             *)
(***************************************************************************)
EXTENDS Dispatcher, SequencesExt

CONSTANTS
  Users, Channels,
  Nobody,           \* nobody has run !kill
  MaxConcurrent,    \* maxConcurrentYT
  MaxTrackPlaylist, \* [bot] max_track_playlist; 0 or less is no limit
  LongestPlaylist,  \* bound on the entries that a playlist has
  MaxCacheChannels, \* maxCacheChannels
  MaxJobs,          \* bound on the requests to yt-dlp
  MaxCommands       \* bound on the commands that are run

ASSUME CommandsAssumption ==
  /\ {MaxConcurrent, LongestPlaylist, MaxCacheChannels} \subseteq Nat \ {0}
  /\ MaxTrackPlaylist \in Int
  /\ {MaxJobs, MaxCommands} \subseteq Nat
  /\ Nobody \notin Users

(* registry.go:34: only admins are let through to handleKill.              *)
ASSUME RegistryAssumption ==
  \A i \in DOMAIN Registrations :
    Registrations[i].command = "kill" => Registrations[i].adminOnly

Jobs == 1..MaxJobs

VARIABLES
  commands, \* number of commands that were run
  jobs,     \* number of jobs that were started
  job,      \* job[j]: place in runYT, tracks to enqueue, tracks enqueued
  taken,    \* values in the channel ytSem
  parked,   \* jobs that wait to send to ytSem, in the order of their arrival
  late,     \* jobs whose context is done
  answers,  \* answers[j]: replies of job j after "Resolving..."
  enqueued, \* calls of bot.Enqueue: <<"track", job, n>>, <<"item", command>>,
            \* <<"station", channel, table>>
  stations, \* rbCache.stations
  order,    \* rbCache.order
  shown,    \* history: shown[ch] is the table last sent to channel ch
  killedBy  \* the user whose !kill ended the process

poolVars  == <<job, taken, parked, late, answers>>
cacheVars == <<stations, order, shown>>
vars == <<commands, jobs, poolVars, enqueued, cacheVars, killedBy>>

Calling == {"probe", "info", "list"}
Holding == Calling \cup {"enqueue", "leave"}

NoJob == [kind |-> "none", at |-> "none", total |-> 0, done |-> 0]

Init ==
  /\ commands = 0 /\ jobs = 0
  /\ job = [j \in Jobs |-> NoJob]
  /\ taken = 0 /\ parked = <<>> /\ late = {}
  /\ answers = [j \in Jobs |-> <<>>]
  /\ enqueued = <<>>
  /\ stations = <<>> /\ order = <<>>
  /\ shown = [ch \in Channels |-> 0]
  /\ killedBy = Nobody

At(j, place) == job[j].at = place
Goes(j, place) == job' = [job EXCEPT ![j].at = place]
FirstCall(j) == IF job[j].kind = "url" THEN "probe" ELSE "list"

-----------------------------------------------------------------------------
(* runYT: the goroutine around one request.                                *)

(* The select takes a free slot; the context may be done as well.          *)
TakeSlot(j) ==
  /\ At(j, "select") /\ taken < MaxConcurrent
  /\ taken' = taken + 1
  /\ Goes(j, FirstCall(j))
  /\ UNCHANGED <<parked, late, answers, enqueued>>

Park(j) ==
  /\ At(j, "select") /\ taken = MaxConcurrent /\ j \notin late
  /\ parked' = Append(parked, j)
  /\ Goes(j, "parked")
  /\ UNCHANGED <<taken, late, answers, enqueued>>

TooLate(j) ==
  /\ At(j, "select") /\ j \in late
  /\ Goes(j, "busy")
  /\ UNCHANGED <<taken, parked, late, answers, enqueued>>

(* ytTimeout is over before the job has a slot: if it is parked it wakes   *)
(* up.  Later the deadline only makes a yt-dlp call fail.                  *)
Deadline(j) ==
  /\ j \notin late
  /\ late' = late \cup {j}
  /\ \/ At(j, "select") /\ UNCHANGED <<job, parked>>
     \/ /\ At(j, "parked")
        /\ \E i \in DOMAIN parked : parked[i] = j /\ parked' = RemoveAt(parked, i)
        /\ Goes(j, "busy")
  /\ UNCHANGED <<taken, answers, enqueued>>

\* Mutant of Busy: the goroutine returns without calling busy.
BusySilently(j) ==
  /\ At(j, "busy")
  /\ Goes(j, "done")
  /\ UNCHANGED <<taken, parked, late, answers, enqueued>>

Busy(j) ==
  /\ At(j, "busy")
  /\ answers' = [answers EXCEPT ![j] = Append(@, "busy")]
  /\ Goes(j, "done")
  /\ UNCHANGED <<taken, parked, late, enqueued>>

(* The deferred receive.  The runtime hands the slot to the goroutine that *)
(* has been parked longest.                                                *)
Release(j) ==
  /\ At(j, "leave")
  /\ IF parked = <<>>
       THEN /\ taken' = taken - 1
            /\ Goes(j, "done")
            /\ UNCHANGED parked
       ELSE /\ parked' = Tail(parked)
            /\ job' = [job EXCEPT ![j].at = "done",
                                  ![Head(parked)].at = FirstCall(Head(parked))]
            /\ UNCHANGED taken
  /\ UNCHANGED <<late, answers, enqueued>>

-----------------------------------------------------------------------------
(* The function that runs in the slot.  yt-dlp is killed at the deadline,  *)
(* which CallFails covers; a job that was late for its slot makes no call. *)

(* IsPlaylist: the address is a single track.                              *)
Probe(j) ==
  /\ At(j, "probe") /\ j \notin late
  /\ Goes(j, "info")
  /\ UNCHANGED <<taken, parked, late, answers, enqueued>>

(* GetInfo and checkDuration: the track may be enqueued.                   *)
Info(j) ==
  /\ At(j, "info") /\ j \notin late
  /\ job' = [job EXCEPT ![j].at = "enqueue", ![j].total = 1]
  /\ UNCHANGED <<taken, parked, late, answers, enqueued>>

\* How many entries FlatPlaylist returns at most: --playlist-end, and the break.
Limit == IF 0 < MaxTrackPlaylist /\ MaxTrackPlaylist < LongestPlaylist
         THEN MaxTrackPlaylist ELSE LongestPlaylist

\* Mutant of List: reading stops one entry after the limit.
ListOneMore(j) ==
  /\ At(j, "list") /\ j \notin late
  /\ \E n \in 1..(Limit + 1) :
       job' = [job EXCEPT ![j].at = "enqueue", ![j].total = n]
  /\ UNCHANGED <<taken, parked, late, answers, enqueued>>

(* FlatPlaylist and Playlist: the playable ones of the entries that were   *)
(* asked for, at least one.                                                *)
List(j) ==
  /\ At(j, "list") /\ j \notin late
  /\ \E n \in 1..Limit :
       job' = [job EXCEPT ![j].at = "enqueue", ![j].total = n]
  /\ UNCHANGED <<taken, parked, late, answers, enqueued>>

\* Mutant of CallFails: the slot is given back on success only.
CallFailsKeepingSlot(j) ==
  /\ job[j].at \in Calling
  /\ answers' = [answers EXCEPT ![j] = Append(@, "error")]
  /\ Goes(j, "done")
  /\ UNCHANGED <<taken, parked, late, enqueued>>

(* Any call may fail: yt-dlp itself, its output, the deadline, a playlist  *)
(* where a track was asked for, a track that is too long, no entries.      *)
CallFails(j) ==
  /\ job[j].at \in Calling
  /\ answers' = [answers EXCEPT ![j] = Append(@, "error")]
  /\ Goes(j, "leave")
  /\ UNCHANGED <<taken, parked, late, enqueued>>

\* Mutant of EnqueueTrack: the entries are taken from the end of the list.
EnqueueLastTrack(j) ==
  /\ At(j, "enqueue") /\ job[j].done < job[j].total
  /\ enqueued' = Append(enqueued, <<"track", j, job[j].total - job[j].done>>)
  /\ job' = [job EXCEPT ![j].done = @ + 1]
  /\ UNCHANGED <<taken, parked, late, answers>>

EnqueueTrack(j) ==
  /\ At(j, "enqueue") /\ job[j].done < job[j].total
  /\ enqueued' = Append(enqueued, <<"track", j, job[j].done + 1>>)
  /\ job' = [job EXCEPT ![j].done = @ + 1]
  /\ UNCHANGED <<taken, parked, late, answers>>

ReplyQueued(j) ==
  /\ At(j, "enqueue") /\ job[j].done = job[j].total
  /\ answers' = [answers EXCEPT ![j] = Append(@, "queued")]
  /\ Goes(j, "leave")
  /\ UNCHANGED <<taken, parked, late, enqueued>>

JobStep(j) ==
  \/ TakeSlot(j) \/ Park(j) \/ TooLate(j) \/ Busy(j) \/ Release(j)
  \/ Probe(j) \/ Info(j) \/ List(j) \/ CallFails(j)
  \/ EnqueueTrack(j) \/ ReplyQueued(j)

Proceeds(j) ==
  /\ killedBy = Nobody
  /\ JobStep(j)
  /\ UNCHANGED <<commands, jobs, cacheVars, killedBy>>

TimesOut(j) ==
  /\ killedBy = Nobody
  /\ Deadline(j)
  /\ UNCHANGED <<commands, jobs, cacheVars, killedBy>>

-----------------------------------------------------------------------------
(* The handlers.  An argument they refuse, a search that fails or finds    *)
(* nothing and an index out of range are answered and change nothing.      *)

(* handleURL and handlePlaylist.                                           *)
Submit(kind) ==
  /\ jobs < MaxJobs
  /\ jobs' = jobs + 1
  /\ job' = [job EXCEPT ![jobs + 1] =
                [kind |-> kind, at |-> "select", total |-> 0, done |-> 0]]
  /\ UNCHANGED <<taken, parked, late, answers, enqueued, cacheVars, killedBy>>

\* Mutant of CacheSet: the look for an existing entry is forgotten.
CacheSetTwice(ch, table) ==
  LET full == Len(order) >= MaxCacheChannels
      kept == IF full THEN Tail(order) ELSE order
      left == DOMAIN stations \ (IF full THEN {Head(order)} ELSE {})
  IN  /\ order' = Append(kept, ch)
      /\ stations' = [c \in left \cup {ch} |-> IF c = ch THEN table ELSE stations[c]]

\* Mutant of CacheSet: only a new channel is stored.
CacheSetOnce(ch, table) ==
  LET evict == Len(order) >= MaxCacheChannels
      left  == DOMAIN stations \ (IF evict THEN {Head(order)} ELSE {})
  IN  IF ch \in DOMAIN stations
        THEN UNCHANGED <<stations, order>>
        ELSE /\ order' = Append(IF evict THEN Tail(order) ELSE order, ch)
             /\ stations' = [c \in left \cup {ch} |-> IF c = ch THEN table ELSE stations[c]]

(* rbCache.set: a new channel takes the place of the oldest one once there *)
(* are maxCacheChannels.                                                   *)
CacheSet(ch, table) ==
  LET isNew == ch \notin DOMAIN stations
      evict == isNew /\ Len(order) >= MaxCacheChannels
      left  == DOMAIN stations \ (IF evict THEN {Head(order)} ELSE {})
  IN  /\ order' = IF isNew THEN Append(IF evict THEN Tail(order) ELSE order, ch)
                           ELSE order
      /\ stations' = [c \in left \cup {ch} |-> IF c = ch THEN table ELSE stations[c]]

(* makeRBQueryHandler: the table is stored and sent.                       *)
RBQuery(ch) ==
  /\ CacheSet(ch, commands + 1)
  /\ shown' = [shown EXCEPT ![ch] = commands + 1]
  /\ UNCHANGED <<jobs, poolVars, enqueued, killedBy>>

(* makeRBPlayHandler: by index from the cache, or by UUID.                 *)
RBPlay(ch) ==
  /\ \/ /\ ch \in DOMAIN stations
        /\ enqueued' = Append(enqueued, <<"station", ch, stations[ch]>>)
     \/ enqueued' = Append(enqueued, <<"station", ch, 0>>)
  /\ UNCHANGED <<jobs, poolVars, cacheVars, killedBy>>

(* handleRadio with a name or an address, handleFile, handleHLS: what      *)
(* passes its checks is enqueued by the handler itself.                    *)
Direct ==
  /\ enqueued' = Append(enqueued, <<"item", commands + 1>>)
  /\ UNCHANGED <<jobs, poolVars, cacheVars, killedBy>>

(* handleKill: Shutdown, then the process exits.                           *)
Kill(user) ==
  /\ killedBy' = user
  /\ UNCHANGED <<jobs, poolVars, enqueued, cacheVars>>

Message(user, w, ch) ==
  /\ killedBy = Nobody /\ commands < MaxCommands
  /\ commands' = commands + 1
  /\ \/ Dispatch(user, w, "play_url") /\ Submit("url")
     \/ Dispatch(user, w, "play_playlist") /\ Submit("playlist")
     \/ /\ \E c \in {"play_radio", "play_file", "play_hls"} : Dispatch(user, w, c)
        /\ Direct
     \/ Dispatch(user, w, "rb_query") /\ RBQuery(ch)
     \/ Dispatch(user, w, "rb_play") /\ RBPlay(ch)
     \/ Dispatch(user, w, "kill") /\ Kill(user)

Next ==
  \/ \E user \in Users, w \in Words, ch \in Channels : Message(user, w, ch)
  \/ \E j \in Jobs : Proceeds(j) \/ TimesOut(j)

Spec == Init /\ [][Next]_vars

(* The goroutines run on, and a yt-dlp call returns, at the deadline at    *)
(* the latest.  Nobody has to type anything.                               *)
Fairness == \A j \in Jobs : WF_vars(Proceeds(j))

FairSpec == Spec /\ Fairness

-----------------------------------------------------------------------------
Places == {"none", "select", "parked", "busy", "done"} \cup Holding

TypeOK ==
  /\ commands \in 0..MaxCommands /\ jobs \in 0..MaxJobs
  /\ job \in [Jobs -> [kind : {"none", "url", "playlist"}, at : Places,
                      total : 0..Limit, done : 0..Limit]]
  /\ taken \in 0..MaxConcurrent
  /\ ToSet(parked) \subseteq Jobs /\ late \subseteq Jobs
  /\ \A j \in Jobs : ToSet(answers[j]) \subseteq {"busy", "error", "queued"}
  /\ \A e \in ToSet(enqueued) :
       \/ e[1] = "track" /\ e[2] \in Jobs /\ e[3] \in 1..Limit
       \/ e[1] = "item" /\ e[2] \in 1..commands
       \/ e[1] = "station" /\ e[2] \in Channels /\ e[3] \in 0..commands
  /\ ToSet(order) \subseteq Channels /\ DOMAIN stations \subseteq Channels
  /\ shown \in [Channels -> 0..commands]
  /\ killedBy \in Users \cup {Nobody}

(* Every slot is held by a job that runs, none is lost on an error path,   *)
(* and a job waits only while all of them are taken.                       *)
SlotsHeld ==
  /\ taken = Cardinality({j \in Jobs : job[j].at \in Holding})
  /\ parked # <<>> => taken = MaxConcurrent
  /\ \A j \in Jobs : At(j, "parked") <=> j \in ToSet(parked)

\* Where in enqueued the tracks of job j are.
TracksOf(j) ==
  {i \in DOMAIN enqueued : enqueued[i][1] = "track" /\ enqueued[i][2] = j}

(* A request is answered once, and truly: "queued" when all its tracks are *)
(* in the queue, in the order of the list however other goroutines enqueue *)
(* meanwhile, "error" and "busy" when it has put nothing there.            *)
RepliesTellTruth ==
  \A j \in Jobs :
    /\ Len(answers[j]) <= 1
    /\ answers[j] = <<"queued">> =>
         /\ {enqueued[i][3] : i \in TracksOf(j)} = 1..job[j].total
         /\ \A i, k \in TracksOf(j) : i < k => enqueued[i][3] < enqueued[k][3]
    /\ answers[j] \in {<<"busy">>, <<"error">>} => TracksOf(j) = {}

(* The map and the order of the cache hold the same channels, at most      *)
(* maxCacheChannels.                                                       *)
CacheInStep ==
  /\ IsInjective(order) /\ ToSet(order) = DOMAIN stations
  /\ Len(order) <= MaxCacheChannels

(* README.md:275-279: only an admin ends the bot, however the command is   *)
(* abbreviated.                                                            *)
OnlyAdminsKill == killedBy \in Admins \cup {Nobody}

(* A station that is played by its index is one of the table that the      *)
(* channel was shown last, whatever was searched in other channels.        *)
PlaysShownStation ==
  [][\A ch \in Channels, t \in 1..MaxCommands :
       enqueued' = Append(enqueued, <<"station", ch, t>>) => t = shown[ch]]_vars

(* Every request is answered at some time, also when all slots are taken,  *)
(* unless the process ends.  How long ytTimeout is is not modelled.        *)
RequestAnswered ==
  \A j \in Jobs : At(j, "select") ~> (answers[j] # <<>> \/ killedBy # Nobody)
=============================================================================
