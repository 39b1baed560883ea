# gotamusique: models, checks and proofs

TLA+ models of the Mumble music bot in `../src`, the TLC configurations that
check them on small instances, and TLAPS proofs of the properties that matter
most. Paths below are relative to the repository root; line numbers are those
of the modelled commit and are repeated per definition in `PROJECT.json`
("map").

    tlc -workers 2 -config MCQueue_safety.cfg MCQueue.tla     # one run
    tlapm QueueProofs.tla                                     # one proof module

## 1. The system

The bot connects to a Mumble server (`gumble`), takes chat commands, keeps a
play queue, and streams one track at a time by running `ffmpeg` and copying its
PCM output into a gumble audio channel.

| component | state | operations | correct when |
|---|---|---|---|
| play queue (`internal/queue`) | items, currentIndex, mode, version, under `q.mu` | Append, Insert, Remove, Next, JumpTo, Reset, Clear, SetMode, Randomize, Snapshot, NextIfUnchanged, FinishIfUnchanged | index in range; equal versions mean an equal queue; no item lost, doubled or skipped; conditional moves touch only the queue that was judged |
| play loop and end-of-track callback (`internal/bot/loop.go`, `failguard.go`) | playEpoch, launchVersion (atomics), wakeCh, resolveCancel, failure streak | loop, resolveItem, onTrackEnd, trackFailed | never two streams; a failure skips only the failed track; nothing playable is passed over; a dead queue comes to rest |
| playback controls (`internal/bot/controls.go`) | isMuted, prevVol under `b.mu` | Play, Stop, Skip, Clear, Enqueue, SetPlaybackMode, Mute, Unmute, SetVolume | what the user selected is what plays next; the chosen volume is kept |
| audio pipeline (`internal/audio/pipeline.go`) | running (atomic), interruptCh under `p.mu`, ffmpeg process, gumble channel | Launch, Interrupt, the PCM goroutine | one stream at a time; one end report per stream; no process or channel left behind; an interrupt ends the stream |
| volume (`internal/audio/volume.go`) | RealVolume, TargetVolume, MaxVolume | SetTargetVolume, Cycle | never above the ceiling |
| connection (`internal/bot/connect.go`, `bot.go`, `cmd/gotamusique/main.go`) | client, audio, cancelLoop, `disconnected` channel | Run, connect, Connect and Disconnect handlers, startLoop, stopLoop, Shutdown | a loop lives as long as its connection; a loss is redialled; a signal ends the bot |
| database migration (`internal/database/migration.go`) | two SQLite files, each with a version row | Migrate and its steps | nothing lost, converted exactly once, resumable |
| settings and music tables (`settings.go`, `music.go`, `condition.go`) | SQLite rows; the sentinel row `info` holds the version of the music table | Set, Remove, Insert (a look, then the write), Query, QueryRandom, Delete, Get and other reads | what was stored is there at every later start; the sentinel is neither returned nor deleted; durations are converted once |
| yt-dlp job pool (`internal/command/urlcmd.go`) | semaphore of 3, deadline | runYT | a slot is returned on every path; a request is answered once, and truly |
| radio-browser cache (`internal/command/handlers.go`) | map and order of at most 64 channels | put, get | order and map in step, within the bound; an index means the table last shown |
| dispatcher (`internal/command/dispatcher.go`, `registry.go`) | table of aliases | Dispatch | exact match first, an abbreviation only if unique; admin commands only for admins |
| media items, config, fade | none shared | constructors, parsing, arithmetic | - |

How they interact. Five kinds of goroutine meet: `Run` on the main goroutine;
one gumble read goroutine per connection, which runs the Connect and Disconnect
handlers and, for every text message, the commands and so the controls; one
play loop per connection; one PCM goroutine per stream, which runs `onTrackEnd`
before it frees the pipeline; one job goroutine per `!url` or `!playlist`. They
share the queue (one lock section per
method), a few atomics and the pipeline. Nothing spans two of those accesses,
which is where the hard behaviour is: a decision is made on a snapshot and
applied later by `...IfUnchanged`, by comparing an epoch, or by nothing at all.

Hard to test, and listed line by line in `PROJECT.json` ("hazards"): controls
against the fade-out and the callback, resolves of up to 30 s against every
control, the order of the deferred calls of the PCM goroutine, Interrupt while
a launch is under way, losses during a dial, signals during a backoff, crashes
between two SQL statements, reads whose
error is dropped, the loop and the stream of a lost connection beside
those of the next one, two goroutines inserting the same song.

## 2. Modules

| module | models | state <-> code |
|---|---|---|
| `QueueOps` | what each queue method does to items, index and mode, as pure operators; methods that draw random numbers return the set of results | `q.items`, `q.cur` = `currentIndex` (0-based), `q.mode` |
| `Playlist` | what the queue promises when order is abstracted away: `heard`, `now`, `ahead` | - |
| `Queue` | the queue as a state machine, one action per method; clients keep snapshots | `version`; `snap[c]` = what a goroutine got from `Snapshot` |
| `PlayLoop` | loop, pipeline goroutine and controls over one queue, one step per lock section or atomic operation | `pc.loop`, `pc.pcm`, `pc.ctl` = place in loop.go, pipeline.go, controls.go; `running`, `interrupted`, `failed`, `wake` as in the code |
| `Stream` | what `Launch` promises: one stream, one report | - |
| `Pipeline` | Launch, Interrupt and the PCM goroutine by themselves, several of each, with ffmpeg and the audio channel | `running`, `interruptCh`, `closed`, `pcm[s]`, `ffmpeg[s]`, `audio`, `onEnd[s]` |
| `Volume` | target and real volume through mute, unmute, SetVolume, frames and reconnections | `target`, `real`, `cfgVolume`, `isMuted`, `prevVol` |
| `Connection` | Run, the two handlers, startLoop and stopLoop, several connections | `run` = place in Run; `reader[c]` = place of the read goroutine of connection c; `cancelLoop`, `loop[c]` |
| `Link` | what a connection promises to playback: pipeline, loop, cancel, one after the other | - |
| `Reconnect` | the play loops and the streams of all connections over one queue | `at[a]` = place of a loop or PCM goroutine in loop.go; `pipe[c]` = local variable `pipeline`; `snap`, `fresh`, `failed`, `wake` as in `PlayLoop` |
| `Migration` | both migrations, one action per SQL statement (per record in the loops), and one per read whose error is dropped | `settings`, `music`, `musicOld` = the tables; `pc` = the next statement; `misread` = the tables a version of which was once taken for 0 |
| `Condition` | the builder of WHERE texts, and what SQLite makes of them | a condition = its terms in the order they were added |
| `Library` | both databases in use, between two migrations, across starts | `music` as in `Migration`; `stored` = the user's rows of `botamusique`; `insert[g]` = what the goroutine inside Insert has decided; `stumbled` = the method whose last call failed because it selected the sentinel; `wanted` = what Set and Remove have left |
| `Dispatcher` | which command a typed word runs, for whom, as pure operators over the table of RegisterAll | `Registrations[i]` = the entry of the i-th Register |
| `Commands` | the handlers that leave work or state behind, and the jobs | `job[j].at` = place in runYT and in the function it runs; `taken` = values in ytSem; `parked` = goroutines blocked on it; `stations`, `order` = rbCache |
| `QueueOpsProofs` | lemmas about the queue operators, used by the next three | - |
| `QueueProofs`, `PlayLoopProofs`, `ReconnectProofs`, `AudioProofs` (of `Pipeline` and `Volume`), `ConnectionProofs`, `LibraryProofs`, `CommandsProofs` | theorems | - |
| `MCQueue`, `MCPlayLoop`, `MCCommands`, `MCLibrary` | sets and symmetry for TLC | - |

`PlayLoop` extends `QueueOps` and so applies exactly the operators `Queue` is
checked and proved about. Every method of `Queue` is shown to do to `Playlist`
what its namesake says (a plain refinement would be weak: a track end that skips
an item could pass for a selection by the user). `Pipeline` refines `Stream`.
`Connection` refines `Link`, and `Reconnect` instantiates `Link`: the two
compose the connection with playback without the dials and signals of the one
or the controls of the other. `Library` extends `Migration` and `Condition`.

### Modelling decisions

*Counters.* `queue.version`, `playEpoch` and `launchVersion` are only compared
with one copy taken earlier, and at most one copy of each is alive (the loop
takes new ones only while nothing runs, so after the callback that used the old
ones). `PlayLoop` keeps the truth of "counter = copy" (`sameQueue`,
`sameEpoch`, `sameLaunch`); a bump makes it false. That an equal version means
an equal queue is `VersionIdentifiesQueue`, proved of `Queue`, where the
counter is a number. `version` is a uint64; it does not wrap in practice, and
the bound MaxVersion is only TLC's.

*Items* are their own identity: a caller builds a new item for every Append.
`NoItem` is the nil of `Current`.

*Random numbers* (shuffle, position of Append in random mode) are sets of
results, so every seed is covered.

*Several connections*: in `Reconnect` a turn of the loop is cut only where the
queue, the streak or the other goroutines come in: after the look at the
pipeline, around the resolve, between the failure, the judgement and the move.
`Launch` either is refused or starts a stream (`Stream`). The context of a
resolver derives from that of its loop, so the resolve of a cancelled loop may
fail although the track is good. No control but Enqueue is issued: epochs do
not change, and a control beside a loop is the matter of `PlayLoop`.

*Enqueue* in `PlayLoop` is Append and the wake-up in one step: a wake-up that
comes later is one more turn of the loop, which the 100 ms timer allows anyway.

*gumble*, external: the Connect handler runs on the read goroutine before
DialWithDialer returns, Disconnect only after a connection was up. Joining the
channel, comment and avatar are left out, and the length of the backoff: its
timer may fire at any time.

*ffmpeg and the stream*: a frame arrives, or the input ends, or the read fails;
before the first frame any of the last two is "no audio". Frame contents, the
fade envelope and ffmpeg's arguments are data. In `Pipeline` a stream may go on
for ever; in `PlayLoop` a track ends (below).

*Panic*: closing a closed channel ends all goroutines (`panicked`).

*Commands*: handlers run one at a time on the read goroutine, so each is one
step; jobs run beside them. The handlers of radio, file and HLS differ in what
they check and enqueue one item each (`Direct`). What a handler refuses with a reply changes
nothing and is left out, and so is the difference between the failures of a
yt-dlp call. A slot that is given back goes to the goroutine parked longest:
that is how the Go runtime serves a buffered channel. The deadline is a step
while a job has no slot; afterwards it only makes a call fail. `Enqueue` is
kept as the sequence of its calls: where Append puts an item is `Queue`'s
matter. In the instance one alias is claimed by two commands, as a
configuration may do.

*Databases*: each method of music.go and settings.go is one statement, atomic
because of SetMaxOpenConns(1), but for Insert, which is two. Insert drops the
error of its look, so a song that is there may be taken for new. Get, Has,
Items, AllPaths and AllTags read and change nothing. A setting is its text. A
test inside a condition is the truth value it has for each row, one of three
because of NULL; the text has no parentheses but those of sub-conditions, so
AND binds tighter than OR. LIMIT and the values behind LIKE are data. A query
that selects the sentinel fails, because its `type` is NULL and scanRecords
reads it into a string (music.go:187): `stumbled` names the method. QueryRandom
is two actions, since only without a condition does it keep the sentinel out
(music.go:114-121). A settings
table without a version is given up on purpose (step 0), so what it held is
not missed. Callers insert nothing under the id `info` and leave the setting
`bot/db_version` alone; nothing in the code stops them.

*Migration*: of a song, whether its keywords are filled and how often its
duration was multiplied. The `UPDATE` that ends migrateSettings writes the
number that is there already and is merged with the statement before it.
Statements fail in two ways. Most make Migrate return, and it is called again:
`Crash`. The errors of four reads are dropped (migration.go:42 and 132 through
hasTable, 50, 139). A settings table that was overlooked meets
`CREATE TABLE IF NOT EXISTS` and then an INSERT that its version row refuses
(`OverlookSettings`, `InsertVersion`); an overlooked music table meets `CREATE
TABLE`, which fails: `Crash` again. A version that was not read counts as 0
(`MisreadSettings`, `MisreadMusic`): the settings table is dropped, the music
table renamed, its successor stamped 4, and `Copy` copies nothing because two
sentinel rows meet. All of these failures share the bound MaxCrashes. main
does not call Migrate at this commit. Files newer than version 4 are left out.

## 3. What is checked

Twelve runs: ten pass, two exhibit a disagreement between the code and what
the repository says of it. Every property of a passing run has a mutant, a
plausible bug in one definition that makes TLC find the property violated.

| run | question | bounds |
|---|---|---|
| `queue_safety` | all queue methods in any order, valid and out-of-range indices, one snapshot holder: `TypeOK`, `VersionIdentifiesQueue`, `NoDuplicates`, `ConditionalMovesSeenQueue`, `PlayedPartKept`, `ImplementsPlaylist` | 3 items, 8 version bumps, symmetric items |
| `play_safety` | loop, callback and controls interleaved: `OneStream`, `SnapshotFresh`, `FailureMovesOnlyFailedTrack`, `GiveUpOnlyUnplayable` | 2 items, the first an unplayable Resolver, 2 controls of 5 kinds, 3 modes |
| `play_attempts` | `EveryItemAttempted`, `GiveUpWithinStreak` while only modes change | 3 items, the first and third unplayable, the second and third Resolvers |
| `play_allbad` | `ComesToRest`, `NeverStalls` when nothing plays | 2 unplayable items, one a Resolver, any one control |
| `pipeline_streams` | `NothingLeftBehind`, `ImplementsStream`, `InterruptedStreamEnds` | 2 launchers, 2 interrupters, 2 launches, 2 interrupts |
| `connection_lifetime` | `LoopFollowsConnection`, `ImplementsLink`, `LostConnectionIsRedialled`, `CancelEndsRun` | 3 connections, maxRetries 2 |
| `reconnect_safety` | loops and streams of an old and a new connection: `FailureMovesOnlyFailedTrack`, `LostConnectionFades`, `PlaybackResumes` | 2 connections, 2 items, both Resolvers, the first unplayable, 2 modes |
| `volume_safety` | `VolumeTypeOK`, `Ceiling`, `ChosenVolumeKept` | volumes 0..6, ceiling 5, configured 1 or 5 |
| `library_safety` | files migrated, used and migrated again: `TypeOK`, `SettingsRemembered`, `SongsKept`, `ConvertedOnce`, `InfoRowHidden`, `MigrationCompletes` | new files, settings of versions 0 to 2, music of versions 0, 1, 3 and 4, 2 songs, 2 crashes or failed statements, 4 calls of 2 goroutines and others, any number of starts, 3 conditions (one names the sentinel in a sub-condition with OR) |
| `commands_safety` | `TypeOK`, `SlotsHeld`, `RepliesTellTruth`, `CacheInStep`, `OnlyAdminsKill`, `PlaysShownStation`, `RequestAnswered` | 3 commands, 2 slots, playlists of 3 and a limit of 2, 3 channels, a cache of 2, an admin and a guest |
| `play_stop` | violates `SelectionSurvivesTrackEnd` | 2 items, 1 control |
| `connection_retry` | violates `FailedAttemptIsRetried` | 2 connections |

Why the bounds are enough. Three items give the queue a first, a middle and a
last element, an item on each side of the current one, and a lap with a real
choice of its first item; 8 bumps fill the list and leave five for the methods
of interest, including round trips back to an earlier queue. Two controls cover
every pair, so also a control that lands inside the window another has opened;
the loop is memoryless between tracks but for the failure streak, which two or
three items exhaust. In `Pipeline` a second launch is what meets remains of a
first. Three connections let a late handler of the first meet the loop of the
third. A maxRetries of 2 plays no part: the one failed dial that can be
counted leaves Run in its select without a connection that could signal
(`FailedAttemptIsRetried`), so that `failures` never exceeds 1 and Run gives up
for no value of maxRetries. In `Reconnect`
two connections are what overlaps: an old loop that took a wake-up launches on
the new pipeline while its own stream goes on. A volume scale of 6 with the
ceiling below the top separates "clamped" from "full" and leaves room to
overshoot. Two crashes let a repeated attempt be cut short again, and four
calls let two Inserts of one song overlap with a Delete and leave one for after
the next start. Music version 2 is passed through on the way from 1 and takes
the same step as 3. In `Commands` three
requests meet two slots, so one is parked while two run; three searches fill
the cache of two and evict.

Deadlock is checked except in `Pipeline`, `Connection`, `Reconnect` and
`Commands`, which really stop: all launches are used up, or the process has
panicked; Run has returned; all connections are used up and their loops have ended; all jobs are done and nobody types, or `!kill` has ended the process.

### Fairness

* `PlayLoop`: the loop and a control in progress are runnable goroutines; the
  timer of the loop fires every 100 ms. Fairness of `Pcm` also says that a
  track ends, which is true of files and of unplayable items; a radio station
  that never ends simply keeps playing, and then none of the liveness properties
  applies. Nobody is obliged to enqueue or to issue a control.
* `Pipeline`: a launch, an Interrupt and the PCM goroutine run on. When both
  cases of its select are ready Go picks one at random, so a closed interrupt
  channel is chosen after finitely many frames: strong fairness of `FadeOut`.
  That io.ReadFull returns is assumed: no read timeout is given to ffmpeg, and
  a server that stalls would hold the interrupt up.
* `Connection`: a dial ends (dialTimeout), the backoff timer fires, handlers
  and loops run on; strong fairness of `SeeCancel` again for the random choice
  of select. Connections need not be lost, nor the server accept.
* `Commands`: a job runs on; its yt-dlp calls return, at the deadline at the
  latest. A parked job is served because the others leave; that its own
  deadline fires is not needed. Nobody has to type anything.
* `Reconnect`: the loops run on and every stream ends, as in `PlayLoop`. A
  cancelled loop is at its select again and again, where Go picks one of the
  ready cases at random: strong fairness of `SeeDone`. Nothing has to connect,
  be lost or be enqueued.
* `Library`: Migrate runs on and is called at every start; crashes are bounded
  by MaxCrashes. Nobody has to call anything, nor the process to end.

## 4. Known disagreements

Each was found by TLC as a trace of the model and then read again in the
source. The second and the fourth have standing runs; the others can be
reproduced by replacing the properties of the named configuration as shown (and `Controls`
or other constants where given), and are kept out of the standing runs so that
each component exhibits one.

| property | what the code does | what it says |
|---|---|---|
| `PastEndStays` in `MCQueue_safety` | `Insert` before other items of a past-end queue leaves the index at the old length, now the last item: it is current again and is replayed (queue.go:118) | "past-end stays past-end" (queue.go:117) |
| `SelectionSurvivesTrackEnd` (stop) | Stop does not bump launchVersion, so after Stop's Reset to index 0 the callback of the interrupted track moves the queue off it, to 1 (controls.go:79); only a step that moves the index counts | "resets the queue to the beginning" (controls.go:70) |
| `NoPanic` in `Pipeline_streams` | two Interrupts that both find the channel open both close it (pipeline.go:123); within the bot, Skip calls Interrupt without `b.mu`, Shutdown with it; one goroutine alone cannot do it (`OneInterrupterIsSafe`) | "Safe to call from any goroutine" (pipeline.go:110-111) |
| `FailedAttemptIsRetried` | after a failed reconnect Run waits for a Disconnect event no connection is left to send (connect.go:82) | "until ctx is cancelled or the bot exhausts maxRetries consecutive failed reconnect attempts" (connect.go:45-46) |
| `SelectionSurvivesTrackEnd`, `Controls <- OnlyClear` | the same for Clear and an Enqueue during the fade-out: the new item is passed over | "never launches or skips based on an outdated selection" (controls.go:113-114) |
| `SelectionSurvivesTrackEnd`, `OnlyPlay` | Play jumps three steps before it bumps launchVersion; a track ending in between moves the queue off the chosen index | controls.go:21-22 |
| `StopKeepsSilent` in `MCPlayLoop_stop` | after Stop the first item is current and the loop launches it when the fade-out is over | "Stop playback and reset the queue position" (README.md:211) |
| `LaunchesCurrentSelection`, `OnlyClear` | items without a Resolver are launched without comparing the epoch (loop.go:62) | controls.go:113-114 |
| `GiveUpWithinStreak`, `Bad <- AllItems`, `OnlySkip` | a control that resets the streak between allFailed and FinishIfUnchanged does not stop the give-up (loop.go:117) | "a user control ends any failure streak" (controls.go:117) |
| `CancelIsNotFailure` (INVARIANT), `Resolvers <- AllItems`, `OnlySkip` | the loop may read the new epoch between its bump and the cancel; the resolve it starts is cancelled without being stale and counts as a failed track (controls.go:122) | "marks any in-flight Resolver call as stale and cancels it" (controls.go:112) |
| `InterruptReachesStream` in `Pipeline_streams` | between running.Swap and the new channel Interrupt gets the channel of the previous stream (pipeline.go:84) | pipeline.go:110-111 |
| `GiveUpOnlyUnplayable` in `Reconnect_safety`, `Bad = {}`, `MaxItems = 1`, `Resolvers = {1}` | a connection lost while a track resolves cancels the resolve, which counts as a failed track; with one track in the queue the bot gives up on it (loop.go:132) | "gives up only when every entry currently in the queue is in that set, i.e. a full pass produced nothing playable" (failguard.go:9-10) |
| `TrackEndMovesOwnItem` in `Reconnect_safety` | the stream of a lost connection plays on and its end moves the queue off the track of the new one (connect.go:107, loop.go:97); a loop that finds the pipeline taken counts ErrAlreadyRunning as a failure of the track that is playing (loop.go:68); with one connection neither happens (`TrackEndMovesOwnItemOnce`) | no statement forbids it; onTrackEnd means to move past the track that ended (loop.go:79, 97) |
| `Ceiling`, `InitialVolumes = {6}` | a configured volume above max_volume is played as it is | "enforces a MaxVolume ceiling" (volume.go:10) |
| `MutedIsSilent` | a reconnection while muted installs a pipeline at the configured volume | "Mute sets volume to 0" (controls.go:33) |
| `VolumeIsShareOfMax` | the percentage is of 1.0, cut off at max_volume | "Volume is a percentage of `max_volume`." (README.md:266) |
| `NothingLost` in `MCLibrary_safety` | the step from version 0 gives the new table version 4 before it copies; a crash in between strands the songs in music_old | tasks/phase3/01-database.md:60 |
| `DurationsInSeconds` in `MCLibrary_safety` | a crash in the step to version 4 multiplies again what was converted | migration.go:218 |
| `SettingsOutlastErrors` in `MCLibrary_safety` | an error while the version is read counts as version 0: a table of version 1 or 2 is dropped with the user's settings (migration.go:50) | "no data worth preserving in v0" (migration.go:76) |
| `SongsOutlastErrors` in `MCLibrary_safety` | the same of the music table: it becomes music_old, the new one says version 4, the copy fails on the row `info`, and the next Migrate returns nil without the songs (migration.go:139) | tasks/phase3/01-database.md:60 |
| `NoQueryStumbles` in `MCLibrary_safety` | QueryRandom adds no guard to a condition it is given; one that is true of the sentinel may select it, and the query fails (music.go:114-121) | TestMusic_InfoRowExcluded (music_test.go:164-175) |
| `InfoRowHidden` with a condition `Or(And(NoCondition, IsUrl), IdIs(i1))` among `MCConditions` (and without the assumption `OnlyAnd`) | `id != 'info' AND a OR b` selects the sentinel when b does, and the query fails; Delete removes it, and with it the version (music.go:77, 131) | TestMusic_InfoRowExcluded (music_test.go:164-175) |

The passing properties are stated so that they hold beside these. `SongsKept`
says without exception that no song is ever destroyed; that all are in the
table when Migrate has returned it says of files from version 1 on, or of an
attempt that was not cut short, and in both cases of versions that could be
read. `SettingsRemembered` excepts files whose version once could not be read,
`ConvertedOnce` the songs of migrations that were cut short until they are
inserted again, `InfoRowHidden` QueryRandom with a condition; conditions have
their ORs in sub-conditions; `GiveUpOnlyUnplayable` is checked
and proved of `PlayLoop` where only bad items are resolvers; `InterruptedStreamEnds` allows
the panic.

## 5. What is proved

For all values of the constants, with `tlapm`:

| theorem | module | argument |
|---|---|---|
| `TypeCorrect`: `Spec => []TypeOK` | QueueProofs | inductive by itself. Every method maps a queue over Items, index in range, to such queues: the lemmas of `QueueOpsProofs`, one per operator, put together in `MutatorType` |
| `VersionSafety`: `Spec => []VersionIdentifiesQueue` | QueueProofs | inductive with TypeOK: a step either bumps the version past every snapshot's or leaves the queue alone |
| `ConditionalSafety`: `Spec => ConditionalMovesSeenQueue` | QueueProofs | from VersionSafety |
| `NoneTwice`: `Spec => []NoDuplicates` | QueueProofs | inductive with TypeOK: an order is injective, an inserted item is none of the list (`Fresh`), and `InsertAtPlaces` and `RemoveAtPlaces` say where the others go |
| `PlayedPartSafety`: `Spec => PlayedPartKept` | QueueProofs | from TypeOK, by one lemma per operator: a shuffle fixes, and Append inserts behind, every place up to the current one |
| `QueueImplementsPlaylist`: `Spec => ImplementsPlaylist` | QueueProofs | step simulation under TypeOK and NoDuplicates. `Parts`: in a list without repetitions what is ahead is what is neither heard nor current, so each step lemma (`ForwardStep`, `PlaceStep`, `DropStep`, `SelectStep`, `AlikeStep`) only follows the set of items, those behind the index, and the current one |
| `OneStreamAlways`: `Spec => []OneStream` | PlayLoopProofs | OneStream needs to know where the three goroutines are: `PcInv` strengthens it with the ranges of `pc`; loop and pcm steps are taken one by one, and `ControlKeepsOthers` disposes of the controls |
| `SnapshotFreshAlways`: `Spec => []SnapshotFresh` | PlayLoopProofs | `QueueInvariant`: every step that changes the queue clears sameQueue, and the one that sets it copies the queue (`NextQueueStep`, from one lemma per goroutine) |
| `FailureMovesSafely`: `Spec => FailureMovesOnlyFailedTrack` | PlayLoopProofs | from QueueInvariant: an item of the snapshot at an index in range is the current item |
| `Typed`: `Spec => []TypeOK` | PlayLoopProofs | `StreakInv`: beside the queue and the places, whoever works on a track has a snapshot with a current item (`HasItem`), so that only items are ever recorded as failed |
| `GivesUpOnlyUnplayable`: `Spec => GiveUpOnlyUnplayable`, if only bad items are resolvers | PlayLoopProofs | `OnlyBadFail`: what is on record as failed is bad, since only a resolver or a bad item fails; whoever is about to give up has found every item of the snapshot on record, and the snapshot is the queue (`SnapshotFresh`) |
| `GivesUpWithinStreak`: `Spec => GiveUpWithinStreak`, if the controls only change the mode | PlayLoopProofs | `Judged`: whoever is about to give up holds a snapshot all of which is on record, and nobody else ends the streak: a mode change does not, and the other goroutine cannot be at a place that does (`OneStream`). The snapshot is the queue at that moment because the move is conditional on the version (`SnapshotFresh`) |
| `NothingIsLeftBehind`: `Spec => []NothingLeftBehind` | AudioProofs | `LaunchHolds` and `StreamHolds`: a goroutine inside Launch, and a PCM goroutine until its last step, hold `running` for the newest stream, never both; `Resources`: ffmpeg and the audio channel belong to an active stream, each until the deferred call that ends it |
| `PipelineImplementsStream`: `Spec => ImplementsStream` | AudioProofs | step simulation under that invariant and `Reported` (a stream has reported exactly from the time on it starts to clean up): a launch that ends is Begin, onEnd is End, the last deferred call is Release, all else stutters |
| `Typed`: `Spec => []TypeOK` | AudioProofs | with `ChannelTypes`: the channel in the hands of an Interrupt is never nil nor one of a launch still to come |
| `OneInterrupterIsSafe`: `Spec => []NoPanic`, if all calls of Interrupt are made by one goroutine | AudioProofs | `ClosesOpen`: a channel that was found open stays open until its finder closes it |
| `LoopFollows`: `Spec => []LoopFollowsConnection` | ConnectionProofs | not inductive: a late Disconnect handler must be excluded. `OneReader` (only the newest connection's read goroutine is alive) rests on `DialsAfterSignal` (Run dials only after it took the signal that ends the Disconnect handler); `HandlerState` says what the handlers have set up step by step |
| `ConnectionImplementsLink`: `Spec => ImplementsLink` | ConnectionProofs | step simulation under the invariant of `LoopFollows`: the handlers of the newest connection are Install, Start and Stop, LoopEnds is End, all else stutters |
| `Typed`: `Spec => []TypeOK` | ConnectionProofs | with `NewestOnly`: what Run and the handlers refer to is never newer than what was dialled |
| `FailureMovesSafely`: `Spec => FailureMovesOnlyFailedTrack` | ReconnectProofs | `FreshIsQueue`: a fresh snapshot is the queue; each mutator makes every snapshot stale, and a launch hands its snapshot over with its truth |
| `Typed`: `Spec => []TypeOK` | ReconnectProofs | with `HasItem`, as in `PlayLoop`, for every loop and stream |
| `FadedForGood`: `Spec => [][\A c : Faded(c) => Faded(c)']_vars` | ReconnectProofs | `LoopsFollowLink` and `PipesHeld`: a loop that has begun is running or cancelled and not ended, and the pipeline in its hands is of its own connection or a later one; so only the loops up to c, which have ended, could launch on the pipeline of c |
| `TrackEndMovesOwnItemOnce`: `Spec => TrackEndMovesOwnItem`, if there is at most one connection | ReconnectProofs | `OnlyStream` and `OnCurrent`: while a loop or a stream works on an item, it is the only one and the item is current; Enqueue keeps that (`AppendedKeepsCurrent`) |
| `VolumeTyped`: `VolumeSpec => []VolumeTypeOK` | AudioProofs | each stored volume, also while Cycle moves the real one towards its target, is between 0 and Full |
| `CeilingHolds`: `VolumeSpec => []Ceiling`, if the configured volume is within the ceiling | AudioProofs | `StoredVolumes`: whatever is stored anywhere may be installed later, so every stored volume respects the ceiling |
| `ChosenVolumeSurvives`: `VolumeSpec => []ChosenVolumeKept`, under the same hypothesis | AudioProofs | with `StoredVolumes`, because Unmute clamps what Mute stored |
| `OnlyAdminsEndTheBot`: `Spec => []OnlyAdminsKill` | CommandsProofs | both paths of Dispatch end in `Runs`, the test for admins; the registration of kill is `RegistryAssumption` |
| `CacheStaysInStep`: `Spec => []CacheInStep` | CommandsProofs | inductive with the type of `order`; set has three cases (channel known, room left, eviction), the sequence lemmas say what Append and Tail do to a sequence without repetitions |
| `SlotsAreHeld`: `Spec => []SlotsHeld` | CommandsProofs | the sets of jobs inside a call and of parked jobs; `parked` has no repetitions, a job that has not begun is in neither set (`Unborn`); each step adds or removes one job, so the cardinality follows `taken` |
| `RepliesAreTrue`: `Spec => []RepliesTellTruth` | CommandsProofs | `ReplyInv`: by the place of a job, what it has answered and which numbers of its playlist are in the queue, exactly 1 to `done`, and in order (`InOrder`): the next one is larger than all before it and goes behind them, other jobs only append under their own name |
| `IndexMeansShownTable`: `Spec => PlaysShownStation` | CommandsProofs | `CacheShown`: what the cache has of a channel is the table shown there last; an eviction removes, it does not mix up |
| `Typed`: `Spec => []TypeOK` | CommandsProofs | `CommandsInv`: the invariants above put together, with `CountTypes` (a job never counts past its playlist, nor that past max_track_playlist, where 0 or less is no limit: `LimitType`) |
| `SongsSurvive`: `Spec => []SongsKept` | LibraryProofs | `SongsSomewhere`: what is renamed is not dropped before it has been copied, whatever fails; `SongsHeld` and `Started`, where nothing was cut short or misread that matters: by the place of Migrate, which of `music` and `music_old` holds the songs; `Keyed`: keywords are filled for all songs the step is past |
| `SettingsSurvive`: `Spec => []SettingsRemembered` | LibraryProofs | `SettingsHold`: a table without a version holds nothing that is wanted, and while versions are read only such a table is dropped; one that was overlooked keeps its rows and its version |
| `DurationsConvertedOnce`: `Spec => []ConvertedOnce` | LibraryProofs | `Converted`: in an attempt that was not cut short before, a song is multiplied when the step is past it and not before; `WrittenSafe`: what an Insert wrote is in a table of the current version, on which Migrate has no work; misread, that table becomes a music_old with a version, from which nothing is copied |
| `SentinelHidden`: `Spec => []InfoRowHidden` | LibraryProofs | a conjunction that begins with a test that is false of the sentinel is false of it, whatever the other tests are (`QueryHits`), and NOT (id = 'info') is false of it (`RandomHits`); nothing is claimed of QueryRandom with a condition |
| `Typed`: `Spec => []TypeOK` | LibraryProofs | `Types`, the places `MusicPlaces`, and `ScaledBound`: each crash or failed statement is worth one multiplication more at most |

The lemmas on the queue operators are in `QueueOpsProofs` and serve every module
over a queue: what each method returns, where Insert and Remove leave the other
items (`InsertAtPlaces`, `RemoveAtPlaces`), and that Append keeps what has been
played and the current item (`AppendedAlike`, `AppendedKeepsCurrent`). Where an
invariant of a run was not inductive, its strengthening was first run in TLC.

Two definitions changed because the proofs called for it. `Meaning` was a CASE
whose guards were both true of the empty condition, so that its value was
anyone's choice; it is now an IF, in the order SQLite evaluates. And
`RepliesTellTruth` picked the tracks of a job with SelectSeq, which is recursive
and so out of the prover's reach; it now names their places in the queue.

Assumptions on the constants, each evaluated by TLC: `NoItemAssumption`,
`MaxVersionAssumption`, `PlayLoopAssumption`, `PipelineAssumption`,
`ReconnectAssumption`, `ConnectionAssumption`, `VolumeAssumption`,
`MigrationAssumption`, `LibraryAssumption` (conditions are sequences of terms
without an OR at the top level: section 4 has what happens with one),
`DispatcherAssumption`, `CommandsAssumption`, `RegistryAssumption`. Some theorems assume more, as the table
says: that the configured volume is within the ceiling, which the code does not
check; that only bad items are resolvers; that the controls only change the
mode; that one goroutine interrupts; that there has been one connection. Without
the hypothesis each of them is false, and section 4 has what breaks it.

Only model-checked: the liveness properties (`EveryItemAttempted`,
`ComesToRest`, `NeverStalls`, `InterruptedStreamEnds`,
`LostConnectionIsRedialled`, `CancelEndsRun`, `LostConnectionFades`,
`PlaybackResumes`, `MigrationCompletes`, `RequestAnswered`), because liveness
under fairness and ENABLED are beyond the prover. Every invariant, every action
property and every refinement that a passing run checks is also a theorem. None
of the modules uses a RECURSIVE operator.

## 6. What is not modelled

JoinChannel; the text of replies and announcements; HTTP requests, yt-dlp (with
the limit on durations, one comparison before a call fails) and file metadata;
music files newer than version 4, and metadata that is the JSON text `null`, on
which step 2 would panic (migration.go:227); how long anything takes, so that
`RequestAnswered` says that a request is answered, not that it is within
ytTimeout; the matching of LIKE patterns; torn reads of
the data race on TargetVolume (volume.go:37), which 64-bit targets do not show;
the fade envelope; reading the configuration and the flags, which happens once
before anything runs.

Controls beside the loops of two connections are not composed: `PlayLoop` has
the controls and one connection, `Reconnect` the connections and no control but
Enqueue.

## 7. Plan

What is left, in this order:

1. to prove of `Reconnect` that its steps are those of `Stream` for each pipeline;
2. to prove the safety half of the liveness properties where it is not yet a
   theorem, as `FadedForGood` does for `LostConnectionFades`: a run that was
   cancelled dials no more, a migration that is done leaves the versions alone;
3. to model what is not: the sources of radio, HLS and file items as far as
   they keep state, and controls beside the loops of two connections.
