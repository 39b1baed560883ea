------------------------------ MODULE Migration ------------------------------
(***************************************************************************)
(* database.Migrate (internal/database/migration.go): the two SQLite files *)
(* are brought to the current schema one statement at a time.  Every       *)
(* statement commits by itself, and the process can end, or a statement    *)
(* fail, between any two of them; Migrate is then called again at the next *)
(* start.  Not every failure makes Migrate return: an error of the reads   *)
(* that look for the settings table and for the two versions is dropped,   *)
(* and Migrate goes on with what was not read.  main does not call Migrate *)
(* yet.                                                                    *)
(*                                                                         *)
(* A table is present or not; the number in its sentinel row is its        *)
(* version, 0 when there is no such row.  Of a song the model keeps        *)
(* whether its keywords were filled in and how often its duration was      *)
(* multiplied by 60.                                                       *)
(***************************************************************************)
EXTENDS Integers

CONSTANTS
  Songs,            \* ids of songs
  UrlSongs,         \* those of type url or url_from_playlist
  MusicVersions,    \* versions the music file may have at the first start
  MaxCrashes        \* bound on crashes and failed statements

ASSUME MigrationAssumption ==
  /\ UrlSongs \subseteq Songs
  /\ MusicVersions \subseteq 0..4
  /\ MaxCrashes \in Nat

SettingsDBVersion == 2
MusicDBVersion == 4

VARIABLES
  pc,         \* next statement of Migrate, or what the process does otherwise:
              \* "off", "done" (Migrate has returned nil), "serving"
  settings,   \* the settings table: present, version
  music,      \* the music table: present, version, rows
  musicOld,   \* the table music_old: present, version, rows
  current,    \* local variable of migrateMusic
  todo,       \* songs a loop over the records has yet to write
  crashes,    \* crashes and failed statements so far
  started,    \* history: versions and songs at the first start
  misread     \* history: the tables a version of which was taken for 0

vars == <<pc, settings, music, musicOld, current, todo, crashes, started, misread>>

NoRows == [s \in {} |-> [keyed |-> FALSE, scaled |-> 0]]
NoTable == [present |-> FALSE, version |-> 0, rows |-> NoRows]

\* The files of an earlier version, or new ones without a table.
MigrationInit ==
  /\ pc = "off"
  /\ settings \in {[present |-> FALSE, version |-> 0]} \cup
                  [present : {TRUE}, version : 0..SettingsDBVersion]
  /\ \/ music = NoTable
     \/ \E v \in MusicVersions :
          music = [present |-> TRUE, version |-> v,
                   rows |-> [s \in Songs |-> [keyed |-> v >= 2, scaled |-> 0]]]
  /\ musicOld = NoTable
  /\ current = 0 /\ todo = {} /\ crashes = 0 /\ misread = {}
  /\ started = [settings |-> settings.version, music |-> music.version,
                songs |-> DOMAIN music.rows]

Goto(from, to) == pc = from /\ pc' = to

\* A statement fails, whether Migrate returns the error or drops it.
Fail == crashes < MaxCrashes /\ crashes' = crashes + 1

-----------------------------------------------------------------------------
(* Settings.                                                               *)

settingsRead ==
  UNCHANGED <<settings, music, musicOld, current, todo, started>>

\* Mutant of Open: every outdated settings table goes through step 0.
OpenDropsOutdated ==
  /\ Goto("off", IF ~settings.present THEN "createSettings"
                 ELSE IF settings.version = SettingsDBVersion THEN "music"
                 ELSE "dropSettings")
  /\ settingsRead /\ UNCHANGED <<crashes, misread>>

Open ==
  /\ Goto("off", IF ~settings.present THEN "createSettings"
                 ELSE IF settings.version = SettingsDBVersion THEN "music"
                 ELSE IF settings.version = 0 THEN "dropSettings"
                 ELSE "stampSettings")
  /\ settingsRead /\ UNCHANGED <<crashes, misread>>

\* hasTable: an error counts as "no such table".  (Of the music table too, but
\* then CREATE TABLE finds it there and Migrate returns.)
OverlookSettings ==
  /\ settings.present /\ Goto("off", "createSettings")
  /\ Fail
  /\ settingsRead /\ UNCHANGED misread

\* The Scan of the version fails: any table goes through step 0.
MisreadSettings ==
  /\ settings.version # 0 /\ Goto("off", "dropSettings")
  /\ Fail
  /\ misread' = misread \cup {"settings"}
  /\ settingsRead

settingsWritten == UNCHANGED <<music, musicOld, current, todo, crashes, started, misread>>

\* Step 0: drop, create, insert the version row.
DropSettings ==
  /\ Goto("dropSettings", "createSettings")
  /\ settings' = [present |-> FALSE, version |-> 0]
  /\ settingsWritten

\* createSettingsV2: CREATE TABLE IF NOT EXISTS ...
CreateSettings ==
  /\ Goto("createSettings", "insertVersion")
  /\ settings' = [settings EXCEPT !.present = TRUE]
  /\ settingsWritten

\* ... and the INSERT, which a version row in an overlooked table refuses.
\* The UPDATE that ends migrateSettings writes the same number again.
InsertVersion ==
  /\ Goto("insertVersion", IF settings.version = 0 THEN "music" ELSE "off")
  /\ settings' = [settings EXCEPT !.version = IF @ = 0 THEN SettingsDBVersion ELSE @]
  /\ settingsWritten

\* The UPDATE of step 1.
StampSettings ==
  /\ Goto("stampSettings", "music")
  /\ settings' = [settings EXCEPT !.version = SettingsDBVersion]
  /\ settingsWritten

-----------------------------------------------------------------------------
(* Music.                                                                  *)

restUnchanged == UNCHANGED <<settings, crashes, started, misread>>

\* Without a music table only createMusicV1 runs: current is set so that
\* nothing follows the sentinel.
ReadVersion ==
  /\ Goto("music", IF ~music.present THEN "createMusic"
                   ELSE IF music.version = MusicDBVersion THEN "done"
                   ELSE "step")
  /\ current' = IF music.present THEN music.version ELSE MusicDBVersion
  /\ UNCHANGED <<music, musicOld, todo>>
  /\ restUnchanged

\* The Scan of the version fails: any table goes through the steps from 0 on.
MisreadMusic ==
  /\ music.version # 0 /\ Goto("music", "step")
  /\ current' = 0
  /\ Fail
  /\ misread' = misread \cup {"music"}
  /\ UNCHANGED <<settings, music, musicOld, todo, started>>

\* Dispatch of musicMigrateStep, or the final UPDATE.  The steps 1 and 2 query
\* all records first.
Step ==
  /\ Goto("step", CASE current = 0 -> "rename"
                    [] current = 1 -> "keywords"
                    [] current \in {2, 3} -> "durations"
                    [] OTHER -> "stamp")
  /\ todo' = DOMAIN music.rows
  /\ UNCHANGED <<music, musicOld, current>>
  /\ restUnchanged

\* Renaming fails while a music_old is left from an earlier attempt.
Rename ==
  /\ Goto("rename", IF musicOld.present THEN "off" ELSE "createMusic")
  /\ musicOld' = IF musicOld.present THEN musicOld ELSE music
  /\ music' = IF musicOld.present THEN music ELSE NoTable
  /\ UNCHANGED <<current, todo>>
  /\ restUnchanged

\* createMusicV1: CREATE TABLE, then the sentinel, which says 4 at once.
CreateMusic ==
  /\ Goto("createMusic", "sentinel")
  /\ music' = [NoTable EXCEPT !.present = TRUE]
  /\ UNCHANGED <<musicOld, current, todo>>
  /\ restUnchanged

Sentinel ==
  /\ Goto("sentinel", IF current = 0 THEN "copy" ELSE "done")
  /\ music' = [music EXCEPT !.version = MusicDBVersion]
  /\ UNCHANGED <<musicOld, current, todo>>
  /\ restUnchanged

\* Mutant of Copy: the error of the INSERT is dropped too, so that the old table
\* goes whether or not it was copied.
CopyEmptied ==
  /\ Goto("copy", "dropOld")
  /\ music' = [music EXCEPT !.rows = IF musicOld.version = 0 THEN musicOld.rows ELSE @]
  /\ UNCHANGED <<musicOld, current, todo>>
  /\ restUnchanged

\* The sentinel of a table that had one meets the new one: nothing is copied.
Copy ==
  /\ Goto("copy", IF musicOld.version = 0 THEN "dropOld" ELSE "off")
  /\ music' = [music EXCEPT !.rows = IF musicOld.version = 0 THEN musicOld.rows ELSE @]
  /\ UNCHANGED <<musicOld, current, todo>>
  /\ restUnchanged

DropOld ==
  /\ Goto("dropOld", "step")
  /\ musicOld' = NoTable
  /\ current' = 1
  /\ UNCHANGED <<music, todo>>
  /\ restUnchanged

\* Mutant of Keywords: the step returns the version it came from.
KeywordsStaysAtOne ==
  /\ pc = "keywords"
  /\ \/ \E s \in todo :
          /\ music' = [music EXCEPT !.rows[s].keyed = TRUE]
          /\ todo' = todo \ {s}
          /\ UNCHANGED <<pc, current>>
     \/ /\ todo = {}
        /\ pc' = "step" /\ current' = 1
        /\ UNCHANGED <<music, todo>>
  /\ UNCHANGED musicOld
  /\ restUnchanged

\* One record of step 1, or the end of its loop.
Keywords ==
  /\ pc = "keywords"
  /\ \/ \E s \in todo :
          /\ music' = [music EXCEPT !.rows[s].keyed = TRUE]
          /\ todo' = todo \ {s}
          /\ UNCHANGED <<pc, current>>
     \/ /\ todo = {}
        /\ pc' = "step" /\ current' = 2
        /\ UNCHANGED <<music, todo>>
  /\ UNCHANGED musicOld
  /\ restUnchanged

\* Mutant of Durations: step 2 goes to version 3, so that the loop of
\* migrateMusic runs it twice.
DurationsToThree ==
  /\ pc = "durations"
  /\ \/ \E s \in todo :
          /\ music' = [music EXCEPT !.rows[s].scaled =
                         IF s \in UrlSongs THEN @ + 1 ELSE @]
          /\ todo' = todo \ {s}
          /\ UNCHANGED <<pc, current>>
     \/ /\ todo = {}
        /\ pc' = "step" /\ current' = current + 1
        /\ UNCHANGED <<music, todo>>
  /\ UNCHANGED musicOld
  /\ restUnchanged

\* One record of step 2 (which also serves version 3), or the end.
Durations ==
  /\ pc = "durations"
  /\ \/ \E s \in todo :
          /\ music' = [music EXCEPT !.rows[s].scaled =
                         IF s \in UrlSongs THEN @ + 1 ELSE @]
          /\ todo' = todo \ {s}
          /\ UNCHANGED <<pc, current>>
     \/ /\ todo = {}
        /\ pc' = "step" /\ current' = 4
        /\ UNCHANGED <<music, todo>>
  /\ UNCHANGED musicOld
  /\ restUnchanged

Stamp ==
  /\ Goto("stamp", "done")
  /\ music' = [music EXCEPT !.version = MusicDBVersion]
  /\ UNCHANGED <<musicOld, current, todo>>
  /\ restUnchanged

Migrate ==
  \/ Open \/ OverlookSettings \/ MisreadSettings
  \/ DropSettings \/ CreateSettings \/ InsertVersion \/ StampSettings
  \/ ReadVersion \/ MisreadMusic \/ Step \/ Rename \/ CreateMusic \/ Sentinel \/ Copy
  \/ DropOld \/ Keywords \/ Durations \/ Stamp

-----------------------------------------------------------------------------
\* The process ends, or the next statement fails and Migrate returns.
Crash ==
  /\ pc \notin {"off", "done", "serving"}
  /\ Fail
  /\ pc' = "off"
  /\ UNCHANGED <<settings, music, musicOld, current, todo, started, misread>>

-----------------------------------------------------------------------------
(* Songs that were stored in minutes before version 4.                     *)
Seconds(s) == IF s \in UrlSongs /\ started.music < 4 THEN 1 ELSE 0

=============================================================================
