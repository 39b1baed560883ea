------------------------------- MODULE Library -------------------------------
(***************************************************************************)
(* The two databases in use (internal/database/music.go, settings.go):     *)
(* after Migrate has returned they are opened, and goroutines read and     *)
(* write them until the process ends, at any point, and starts again with  *)
(* Migrate.  Every statement is atomic: SetMaxOpenConns(1).  Insert is two *)
(* statements, a look and the write it chose.                              *)
(*                                                                         *)
(* A setting is its text.  Callers insert no song under the id 'info' and  *)
(* do not touch the setting bot/db_version: nothing in the code stops them.*)
(***************************************************************************)
EXTENDS Migration, Condition

CONSTANTS
  Goroutines,   \* the callers of Insert
  Conditions,   \* what is queried for and deleted
  Keys, Texts,  \* settings
  None,         \* no such setting
  MaxCalls      \* bound on the calls that are made

Rows == Songs \cup {Info}

ASSUME LibraryAssumption ==
  /\ Info \notin Songs /\ None \notin Texts /\ MaxCalls \in Nat
  /\ \A cond \in Conditions : cond \in Seq(Terms(Rows)) /\ OnlyAnd(cond)

VARIABLES
  stored,   \* the user's rows of the settings table
  insert,   \* insert[g]: the write that the Insert of g has chosen, if any
  stumbled, \* the method whose last call failed because of the sentinel row
  calls,    \* calls made so far
  wanted,   \* history: the settings as Set and Remove have left them
  kept,     \* history: the songs that were there or inserted, and not deleted
  written   \* history: those of them that were inserted by an Insert

tables == <<settings, music, musicOld, current, todo, crashes, started, misread>>
libraryVars == <<stored, insert, stumbled, calls, wanted, kept, written>>
allVars == <<pc, tables, libraryVars>>

Nothing == [k \in Keys |-> None]
NoInsert == [write |-> "none", song |-> Info, undone |-> FALSE]

\* A settings table without a version is given up on purpose (step 0): of what
\* is in it nothing is asked.
Init ==
  /\ MigrationInit
  /\ stored \in [Keys -> Texts \cup {None}]
  /\ settings.present \/ stored = Nothing
  /\ insert = [g \in Goroutines |-> NoInsert]
  /\ stumbled = "none" /\ calls = 0
  /\ wanted = IF settings.present /\ settings.version = 0 THEN [k \in {} |-> None]
              ELSE stored
  /\ kept = started.songs /\ written = {}

-----------------------------------------------------------------------------
(* Starting and ending.                                                    *)

\* Migrate and its crashes; dropping the table drops the settings in it.
MigrateOrCrash ==
  /\ Migrate \/ Crash
  /\ stored' = IF settings.present /\ ~settings'.present THEN Nothing ELSE stored
  /\ UNCHANGED <<insert, stumbled, calls, wanted, kept, written>>

\* OpenSettings and OpenMusic.
OpenBoth ==
  /\ Goto("done", "serving")
  /\ UNCHANGED <<tables, libraryVars>>

\* The process ends, in the middle of whatever the goroutines do.
Exit ==
  /\ Goto("serving", "off")
  /\ insert' = [g \in Goroutines |-> NoInsert]
  /\ stumbled' = "none"
  /\ UNCHANGED <<tables, stored, calls, wanted, kept, written>>

Call == pc = "serving" /\ calls < MaxCalls /\ calls' = calls + 1

onlyMusic == UNCHANGED <<pc, settings, musicOld, current, todo, crashes, started,
                         misread, stored, stumbled, wanted>>

-----------------------------------------------------------------------------
(* Insert.                                                                 *)

\* SELECT 1.  Its error is dropped: a song that is there may count as new.
Look(g) ==
  /\ Call
  /\ insert[g] = NoInsert
  /\ \E s \in Songs, write \in {"insert", "update"} :
       /\ write = "update" => s \in DOMAIN music.rows
       /\ insert' = [insert EXCEPT ![g] =
                       [write |-> write, song |-> s, undone |-> FALSE]]
  /\ UNCHANGED music /\ onlyMusic
  /\ UNCHANGED <<kept, written>>

\* What a caller hands over has its keywords, and its duration in seconds.
NewRow(s) == [keyed |-> TRUE, scaled |-> Seconds(s)]

\* The end of Insert, error or not.
Return(g) ==
  /\ pc = "serving"
  /\ insert' = [insert EXCEPT ![g] = NoInsert]
  /\ onlyMusic /\ UNCHANGED calls

\* The row is written and Insert returns nil.
WriteRow(g) ==
  LET s == insert[g].song
  IN  /\ IF insert[g].write = "insert" THEN s \notin DOMAIN music.rows
         ELSE insert[g].write = "update" /\ s \in DOMAIN music.rows
      /\ music' = [music EXCEPT !.rows =
                     [r \in DOMAIN @ \cup {s} |-> IF r = s THEN NewRow(s) ELSE @[r]]]
      /\ kept' = kept \cup {s} /\ written' = written \cup {s}
      /\ Return(g)

\* The primary key is taken: Insert returns the error.
WriteRefused(g) ==
  /\ insert[g].write = "insert" /\ insert[g].song \in DOMAIN music.rows
  /\ Return(g)
  /\ UNCHANGED <<music, kept, written>>

\* An UPDATE without a row is no error: Insert returns nil.  A Delete in the
\* meantime is what it takes; without one the song should be there now.
WriteMissed(g) ==
  LET s == insert[g].song
  IN  /\ insert[g].write = "update" /\ s \notin DOMAIN music.rows
      /\ kept' = IF insert[g].undone THEN kept ELSE kept \cup {s}
      /\ Return(g)
      /\ UNCHANGED <<music, written>>

-----------------------------------------------------------------------------
(* The other methods.                                                      *)

\* The ids in the table, the sentinel's being one of them.
Present == DOMAIN music.rows \cup (IF music.version = 0 THEN {} ELSE {Info})

Hits(cond) == Present \cap Selected(Rows, cond)

Delete ==
  /\ Call
  /\ \E cond \in Conditions :
       LET gone == Hits(Guarded(Rows, cond))
           meant == Songs \cap Selected(Rows, cond)
       IN  /\ music' = [music EXCEPT
                !.rows = [s \in DOMAIN @ \ gone |-> @[s]],
                !.version = IF Info \in gone THEN 0 ELSE @]
           /\ kept' = kept \ meant /\ written' = written \ meant
           /\ insert' = [g \in Goroutines |->
                [insert[g] EXCEPT !.undone = @ \/ insert[g].song \in meant]]
  /\ onlyMusic

\* The sentinel has no type, and scanRecords fails on the NULL.
Scan(method, ids) ==
  /\ Call
  /\ stumbled' = IF Info \in ids THEN method ELSE "none"
  /\ UNCHANGED <<pc, tables, stored, insert, wanted, kept, written>>

AnyCondition == Conditions \cup {NoCondition}

\* Query, and with it QueryByID, QueryByKeywords, QueryByTags.
Query == \E cond \in AnyCondition : Scan("Query", Hits(Guarded(Rows, cond)))

\* QueryRandom(count, nil): any rows that meet "NOT (id = 'info')".
QueryRandom ==
  LET isInfo == [r \in Rows |-> IF r = Info THEN "true" ELSE "false"]
      cond == And(NoCondition, NotSub(Rows, And(NoCondition, isInfo)))
  IN  \E ids \in SUBSET Hits(cond) : Scan("QueryRandom", ids)

\* QueryRandom(count, cond): the condition is all that is tested.
QueryRandomBy ==
  \E cond \in AnyCondition : \E ids \in SUBSET Hits(cond) : Scan("QueryRandomBy", ids)

\* Set and Remove of one setting.
Write ==
  /\ Call
  /\ \E k \in Keys, t \in Texts \cup {None} :
       /\ stored' = [stored EXCEPT ![k] = t]
       /\ wanted' = [i \in DOMAIN wanted \cup {k} |-> IF i = k THEN t ELSE wanted[i]]
  /\ UNCHANGED <<pc, tables, insert, stumbled, kept, written>>

Use ==
  \/ \E g \in Goroutines : Look(g) \/ WriteRow(g) \/ WriteRefused(g) \/ WriteMissed(g)
  \/ Delete \/ Query \/ QueryRandom \/ QueryRandomBy \/ Write

Next == MigrateOrCrash \/ OpenBoth \/ Exit \/ Use

(* Migrate runs on, and is called at every start.  Crashes are bounded.    *)
Spec == Init /\ [][Next]_allVars /\ WF_allVars(MigrateOrCrash)

-----------------------------------------------------------------------------
TypeOK ==
  /\ pc \in {"off", "createSettings", "dropSettings", "insertVersion", "stampSettings",
             "music", "step", "rename", "createMusic", "sentinel", "copy", "dropOld",
             "keywords", "durations", "stamp", "done", "serving"}
  /\ settings \in [present : BOOLEAN, version : 0..2]
  /\ \A table \in {music, musicOld} :
       /\ table.present \in BOOLEAN /\ table.version \in 0..4
       /\ table.rows \in [DOMAIN table.rows ->
                          [keyed : BOOLEAN, scaled : 0..MaxCrashes + 1]]
  /\ current \in 0..4 /\ todo \subseteq Songs /\ crashes \in 0..MaxCrashes
  /\ misread \subseteq {"settings", "music"}
  /\ stored \in [Keys -> Texts \cup {None}]
  /\ DOMAIN wanted \subseteq Keys /\ wanted \in [DOMAIN wanted -> Texts \cup {None}]
  /\ insert \in [Goroutines -> [write : {"none", "insert", "update"},
                                song : Rows, undone : BOOLEAN]]
  /\ stumbled \in {"none", "Query", "QueryRandom", "QueryRandomBy"}
  /\ kept \subseteq Songs /\ written \subseteq kept

Ready == pc \in {"done", "serving"}

(* What Set and Remove have left is what is there, at every later start    *)
(* and all through Migrate: one that was cut short anywhere, or has        *)
(* overlooked the table, leaves nothing that the next would drop and       *)
(* anyone has set.  Excepted are files whose version could once not be     *)
(* read: see SettingsOutlastErrors.                                        *)
SettingsRemembered ==
  "settings" \notin misread => \A k \in DOMAIN wanted : stored[k] = wanted[k]

(* The step from version 0 does not survive a crash (see NothingLost), and *)
(* the step to version 4 repeats what a crash left half done (see          *)
(* DurationsInSeconds): what holds of an attempt that is cut short is said *)
(* of files from version 1 on.  A version that could not be read sends     *)
(* these the same way (see SongsOutlastErrors).                            *)
Resumable == (started.music > 0 \/ crashes = 0) /\ "music" \notin misread

(* No song that was there or inserted without an error, and not deleted    *)
(* since, is ever destroyed: whatever is cut short or misread, however     *)
(* often, each one is in music or in music_old at all times.  And but for  *)
(* the exceptions above Migrate returns nil only when it has brought them  *)
(* home: the songs in the table are exactly those, all have keywords, and  *)
(* the table says it has the current version, then and while callers look, *)
(* write and delete in any order, across any number of starts.             *)
SongsKept ==
  /\ kept \subseteq DOMAIN music.rows \cup DOMAIN musicOld.rows
  /\ Ready /\ Resumable =>
       /\ DOMAIN music.rows = kept
       /\ \A s \in kept : music.rows[s].keyed
       /\ music.version = MusicDBVersion

(* Durations are in seconds and stay so at every later start, whatever is  *)
(* deleted: those of url songs from before version 4 were multiplied once, *)
(* all others never.  Excepted are the songs of a migration that was cut   *)
(* short, until an Insert overwrites them.                                 *)
ConvertedOnce ==
  Ready => \A s \in DOMAIN music.rows :
             crashes = 0 \/ s \in written => music.rows[s].scaled = Seconds(s)

(* Query, with all that call it, and QueryRandom without a condition never *)
(* select the sentinel row (TestMusic_InfoRowExcluded), for conditions     *)
(* without a top-level OR: it would make the whole query fail.  With a     *)
(* condition QueryRandom may select it: see NoQueryStumbles.               *)
InfoRowHidden == stumbled \notin {"Query", "QueryRandom"}

(* However often it is cut short, and in whatever state that and the use   *)
(* of the tables leave the files, Migrate comes to a successful end, if    *)
(* it can read the version of the music table.                             *)
MigrationCompletes ==
  started.music > 0 /\ pc = "off" ~> pc = "done" \/ "music" \in misread

-----------------------------------------------------------------------------
(* What the repository says of these files and the code does not keep (see *)
(* the README).                                                            *)

(* tasks/phase3/01-database.md:60: "Migration runs without data loss from  *)
(* each prior schema version", so when Migrate returns nil every song of   *)
(* the first start is in the music table.                                  *)
NothingLost == pc = "done" => DOMAIN music.rows = kept

(* The same of the settings, and of the songs of a file from version 1 on, *)
(* when an error of a read is all that goes wrong (migration.go:50, 139).  *)
SettingsOutlastErrors == Ready => \A k \in DOMAIN wanted : stored[k] = wanted[k]
SongsOutlastErrors == Ready /\ started.music > 0 => DOMAIN music.rows = kept

(* migration.go:218: "URLs were stored in minutes, need seconds".  When    *)
(* Migrate returns nil the durations are in seconds.                       *)
DurationsInSeconds ==
  pc = "done" => \A s \in DOMAIN music.rows : music.rows[s].scaled = Seconds(s)

(* The sentinel row makes no query fail, whatever it asks for: "sentinel   *)
(* row id='info'" is not to be in results (music_test.go:172).             *)
NoQueryStumbles == stumbled = "none"
=============================================================================
