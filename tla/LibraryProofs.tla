---------------------------- MODULE LibraryProofs ----------------------------
(***************************************************************************)
(* What Migrate, the settings and the music database promise, for any set  *)
(* of songs, of callers and of conditions, and any bound on the crashes    *)
(* and the calls.                                                          *)
(***************************************************************************)
EXTENDS Library, TLAPS

-----------------------------------------------------------------------------
(***************************************************************************)
(* The inductive invariant, in parts.  Where it depends on how far Migrate *)
(* is, the places are named by what they are about.                        *)
(***************************************************************************)

\* Nothing of the music table is in the hands of Migrate.
Resting ==
  pc \in {"off", "createSettings", "dropSettings", "insertVersion", "stampSettings",
          "music", "done", "serving"}

\* createMusicV1, with or without the songs of music_old to copy.
Building == pc \in {"createMusic", "sentinel", "copy"}

\* The loop of migrateMusic.
Stepping == pc \in {"step", "rename", "dropOld", "keywords", "durations", "stamp"}

\* This attempt is through with the steps.
Stepped == pc = "stamp" \/ (pc = "step" /\ current = 4)

\* The songs that step 1, and the songs that step 2, has no more work on.
PastKeywords(s) ==
  \/ pc = "keywords" /\ s \notin todo
  \/ pc = "durations" \/ Stepped
  \/ pc = "step" /\ current >= 2
  \/ music.version >= 2 /\ (Resting \/ started.music > 0)

PastDurations(s) ==
  \/ pc = "durations" /\ s \notin todo
  \/ Stepped
  \/ music.version = MusicDBVersion /\ Resting

Row == [keyed : BOOLEAN, scaled : Nat]

IsTable(rows) ==
  /\ rows \in [DOMAIN rows -> Row]
  /\ DOMAIN rows \subseteq Songs

Table(table) == [present : BOOLEAN, version : 0..4, rows : {table.rows}]

Types ==
  /\ settings \in [present : BOOLEAN, version : 0..2]
  /\ music \in Table(music) /\ musicOld \in Table(musicOld)
  /\ IsTable(music.rows) /\ IsTable(musicOld.rows)
  /\ current \in 0..4 /\ todo \subseteq Songs /\ crashes \in 0..MaxCrashes
  /\ misread \subseteq {"settings", "music"} /\ (misread # {} => crashes > 0)
  /\ started.music \in 0..4
  /\ stored \in [Keys -> Texts \cup {None}]
  /\ DOMAIN wanted \subseteq Keys /\ wanted \in [DOMAIN wanted -> Texts \cup {None}]
  /\ insert \in [Goroutines -> [write : {"none", "insert", "update"},
                                song : Rows, undone : BOOLEAN]]
  /\ \A g \in Goroutines : insert[g].write # "none" => insert[g].song \in Songs
  /\ stumbled \in {"none", "Query", "QueryRandom", "QueryRandomBy"}
  /\ kept \subseteq Songs /\ written \subseteq kept
  /\ Resting \/ Building \/ Stepping

\* A settings table without a version holds nothing that anyone relies on.
SettingsHold ==
  /\ "settings" \notin misread =>
       /\ \A k \in DOMAIN wanted : stored[k] = wanted[k]
       /\ settings.version = 0 => \A k \in DOMAIN wanted : wanted[k] = None
       /\ pc = "dropSettings" => settings.version = 0
  /\ pc \notin {"off", "createSettings", "dropSettings", "insertVersion",
                "stampSettings"} => settings.version = SettingsDBVersion

\* What each place of migrateMusic knows of the tables and of their versions.
MusicPlaces ==
  /\ ~music.present => music = NoTable
  /\ ~musicOld.present => musicOld = NoTable
  /\ pc = "createMusic" => ~music.present
  /\ pc = "sentinel" => music.present /\ music.version = 0
  /\ pc \in {"copy", "dropOld"} => music.present /\ music.version = MusicDBVersion
  /\ Building => music.rows = NoRows
  /\ Stepping => music.present
  /\ pc \in {"createMusic", "sentinel"} => current \in {0, 4}
  /\ pc \in {"rename", "copy", "dropOld"} => current = 0
  /\ pc = "keywords" => current = 1
  /\ pc = "durations" => current \in {2, 3}
  /\ pc = "stamp" => current = 4
  /\ pc \in {"keywords", "durations"} => todo \subseteq DOMAIN music.rows
  /\ pc \in {"done", "serving"} => music.present /\ music.version = MusicDBVersion
  /\ pc # "serving" => insert = [g \in Goroutines |-> NoInsert]

\* While its version is read a file from version 1 on never takes the way over
\* music_old, and only a table without a version does.
Started ==
  "music" \notin misread =>
    /\ started.music > 0 =>
         /\ music.present /\ music.version > 0
         /\ ~Building /\ pc \notin {"rename", "dropOld"}
         /\ Stepping => current > 0
    /\ started.music = 4 => Resting /\ music.version = MusicDBVersion
    /\ started.music = 0 /\ crashes = 0 => music.version \in {0, MusicDBVersion}
    /\ pc = "rename" \/ (pc = "step" /\ current = 0) => music.version = 0

\* Without a Delete in between, what an Insert is to update is there.
Looked ==
  \A g \in Goroutines :
    insert[g].write = "update" /\ ~insert[g].undone => insert[g].song \in DOMAIN music.rows

\* Each song is in one of the two tables; music_old goes when it has been copied.
SongsSomewhere ==
  /\ kept \subseteq DOMAIN music.rows \cup DOMAIN musicOld.rows
  /\ pc = "dropOld" => kept \subseteq DOMAIN music.rows

\* Which table that is, where nothing was cut short or misread.
SongsHeld ==
  Resumable =>
    /\ musicOld.version = 0
    /\ musicOld.present => Building \/ pc = "dropOld"
    /\ Building /\ current = 0 => musicOld.present /\ DOMAIN musicOld.rows = kept
    /\ Building /\ current # 0 => ~musicOld.present /\ kept = {}
    /\ ~Building => DOMAIN music.rows = kept

Keyed ==
  Resumable =>
    \A s \in DOMAIN music.rows : PastKeywords(s) => music.rows[s].keyed

\* With no crash so far.
Converted ==
  crashes = 0 =>
    /\ \A s \in DOMAIN musicOld.rows : musicOld.rows[s].scaled = 0
    /\ \A s \in DOMAIN music.rows :
         music.rows[s].scaled =
           IF PastDurations(s) THEN Seconds(s) ELSE 0

\* What an Insert has written is in a table that says it is current: when it is
\* misread it may end up as music_old, where nothing is copied from.
WrittenSafe ==
  /\ written # {} =>
       /\ pc \notin {"dropOld", "keywords", "durations", "stamp"}
       /\ pc = "step" => current = 0
       /\ music.version \in {0, MusicDBVersion}
       /\ ~musicOld.present => music.present /\ music.version = MusicDBVersion
       /\ Building /\ current = 0 => musicOld.version # 0
  /\ \A s \in written \cap DOMAIN music.rows : music.rows[s].scaled = Seconds(s)

\* A crash costs at most one multiplication too many.
ScaledBound ==
  /\ \A s \in DOMAIN musicOld.rows : musicOld.rows[s].scaled <= crashes
  /\ \A s \in DOMAIN music.rows :
       music.rows[s].scaled <= IF PastDurations(s) THEN crashes + 1 ELSE crashes

-----------------------------------------------------------------------------
(***************************************************************************)
(* What the statements that write the music table do to it.                *)
(***************************************************************************)
LEMMA EmptyTable ==
  /\ DOMAIN NoRows = {} /\ IsTable(NoRows)
  /\ NoTable.present = FALSE /\ NoTable.version = 0 /\ NoTable.rows = NoRows
  BY DEF NoRows, NoTable, IsTable, Row

\* The record of the music table is what Types says and nothing more.
MusicRecord == music \in Table(music) /\ IsTable(music.rows)

LEMMA SentinelMusic ==
  ASSUME MusicRecord, Sentinel \/ Stamp
  PROVE  /\ MusicRecord'
         /\ music'.present = music.present
         /\ music'.version = MusicDBVersion
         /\ music'.rows = music.rows
  BY DEF MusicRecord, Table, Sentinel, Stamp, MusicDBVersion

LEMMA CreateMusicMusic ==
  ASSUME CreateMusic
  PROVE  /\ MusicRecord'
         /\ music'.present /\ music'.version = 0 /\ music'.rows = NoRows
<1>1. NoTable \in [present : BOOLEAN, version : 0..4, rows : {NoRows}]
  BY DEF NoTable
<1>2. music' \in [present : BOOLEAN, version : 0..4, rows : {NoRows}]
      /\ music'.present /\ music'.version = 0 /\ music'.rows = NoRows
  BY <1>1, EmptyTable DEF CreateMusic
<1> QED
  BY <1>2, EmptyTable DEF MusicRecord, Table

LEMMA KeywordsMusic ==
  ASSUME MusicRecord, NEW s \in DOMAIN music.rows,
         music' = [music EXCEPT !.rows[s].keyed = TRUE]
  PROVE  /\ MusicRecord'
         /\ music'.present = music.present /\ music'.version = music.version
         /\ DOMAIN music'.rows = DOMAIN music.rows
         /\ \A r \in DOMAIN music.rows :
              /\ music'.rows[r].keyed = IF r = s THEN TRUE ELSE music.rows[r].keyed
              /\ music'.rows[r].scaled = music.rows[r].scaled
<1> DEFINE new == [music.rows EXCEPT ![s].keyed = TRUE]
<1>1. /\ music'.rows = new
      /\ music'.present = music.present /\ music'.version = music.version
      /\ music' \in [present : BOOLEAN, version : 0..4, rows : {new}]
  BY DEF MusicRecord, Table
<1>2. music.rows[s] \in Row
  BY DEF MusicRecord, IsTable
<1>3. /\ DOMAIN new = DOMAIN music.rows
      /\ new \in [DOMAIN music.rows -> Row]
      /\ \A r \in DOMAIN music.rows :
              /\ new[r].keyed = IF r = s THEN TRUE ELSE music.rows[r].keyed
              /\ new[r].scaled = music.rows[r].scaled
  BY <1>2 DEF MusicRecord, IsTable, Row
<1> QED
  BY <1>1, <1>3 DEF MusicRecord, Table, IsTable

LEMMA DurationsMusic ==
  ASSUME MusicRecord, NEW s \in DOMAIN music.rows,
         music' = [music EXCEPT !.rows[s].scaled = IF s \in UrlSongs THEN @ + 1 ELSE @]
  PROVE  /\ MusicRecord'
         /\ music'.present = music.present /\ music'.version = music.version
         /\ DOMAIN music'.rows = DOMAIN music.rows
         /\ \A r \in DOMAIN music.rows :
              /\ music'.rows[r].keyed = music.rows[r].keyed
              /\ music'.rows[r].scaled = IF r = s /\ s \in UrlSongs
                                         THEN music.rows[r].scaled + 1
                                         ELSE music.rows[r].scaled
<1> DEFINE new == [music.rows EXCEPT ![s].scaled = IF s \in UrlSongs THEN @ + 1 ELSE @]
<1>1. /\ music'.rows = new
      /\ music'.present = music.present /\ music'.version = music.version
      /\ music' \in [present : BOOLEAN, version : 0..4, rows : {new}]
  BY DEF MusicRecord, Table
<1>2. music.rows[s] \in Row
  BY DEF MusicRecord, IsTable
<1>3. /\ DOMAIN new = DOMAIN music.rows
      /\ new \in [DOMAIN music.rows -> Row]
      /\ \A r \in DOMAIN music.rows :
              /\ new[r].keyed = music.rows[r].keyed
              /\ new[r].scaled = IF r = s /\ s \in UrlSongs
                                 THEN music.rows[r].scaled + 1
                                 ELSE music.rows[r].scaled
  BY <1>2 DEF MusicRecord, IsTable, Row
<1> QED
  BY <1>1, <1>3 DEF MusicRecord, Table, IsTable

LEMMA CopyMusic ==
  ASSUME MusicRecord, IsTable(musicOld.rows), Copy
  PROVE  /\ MusicRecord'
         /\ music'.present = music.present /\ music'.version = music.version
         /\ music'.rows = IF musicOld.version = 0 THEN musicOld.rows ELSE music.rows
  BY DEF MusicRecord, Table, Copy

LEMMA SecondsRange ==
  ASSUME NEW s
  PROVE  /\ Seconds(s) \in {0, 1}
         /\ s \notin UrlSongs \/ started.music = 4 => Seconds(s) = 0
         /\ s \in UrlSongs /\ started.music < 4 => Seconds(s) = 1
  BY DEF Seconds

LEMMA WriteRowMusic ==
  ASSUME Types, NEW g \in Goroutines, WriteRow(g)
  PROVE  LET s == insert[g].song
         IN  /\ MusicRecord'
             /\ s \in Songs
             /\ music'.present = music.present /\ music'.version = music.version
             /\ DOMAIN music'.rows = DOMAIN music.rows \cup {s}
             /\ music'.rows[s] = NewRow(s)
             /\ \A r \in DOMAIN music.rows \ {s} : music'.rows[r] = music.rows[r]
<1> DEFINE s == insert[g].song
           new == [r \in DOMAIN music.rows \cup {s} |->
                     IF r = s THEN NewRow(s) ELSE music.rows[r]]
<1>1. /\ music'.rows = new
      /\ music'.present = music.present /\ music'.version = music.version
      /\ music' \in [present : BOOLEAN, version : 0..4, rows : {new}]
  BY DEF Types, Table, WriteRow
<1>2. NewRow(s) \in Row
  BY SecondsRange DEF NewRow, Row
<1>3. s \in Songs
  BY DEF Types, WriteRow
<1>4. /\ DOMAIN new = DOMAIN music.rows \cup {s}
      /\ new \in [DOMAIN music.rows \cup {s} -> Row]
      /\ new[s] = NewRow(s)
      /\ \A r \in DOMAIN music.rows \ {s} : new[r] = music.rows[r]
  BY <1>2 DEF Types, IsTable
<1> QED
  BY <1>1, <1>3, <1>4 DEF MusicRecord, Table, IsTable, Types

(***************************************************************************)
(* Conditions.                                                             *)
(***************************************************************************)

\* Without an OR there is one group, and it holds all terms.
LEMMA AndMeaning ==
  ASSUME NEW cond, NEW Term, cond \in Seq(Term), OnlyAnd(cond), NEW row
  PROVE  Meaning(cond, row) = "true"
           <=> \A j \in DOMAIN cond : cond[j].test[row] = "true"
<1> DEFINE IsTrue(i)  == \A j \in Group(cond, i) : cond[j].test[row] = "true"
           IsFalse(i) == \E j \in Group(cond, i) : cond[j].test[row] = "false"
           some == cond = <<>> \/ (\E i \in GroupStarts(cond) : IsTrue(i))
<1>1. Meaning(cond, row) = "true" <=> some
  BY DEF Meaning
<1>2. CASE cond = <<>>
  <2>1. DOMAIN cond = {}
    BY <1>2
  <2> QED
    BY <1>1, <1>2, <2>1
<1>3. CASE cond # <<>>
  <2>1. 1 \in DOMAIN cond /\ \A j \in DOMAIN cond : j \in Int /\ 1 <= j
    BY <1>3
  <2>2. GroupStarts(cond) = {1}
    BY <2>1 DEF GroupStarts, OnlyAnd
  <2>3. ASSUME NEW j \in DOMAIN cond
        PROVE  1 <= j /\ \A k \in (1 + 1)..j : cond[k].op = "and"
    <3>1. \A k \in (1 + 1)..j : k \in DOMAIN cond
      OBVIOUS
    <3> QED
      BY <2>1, <3>1 DEF OnlyAnd
  <2>4. Group(cond, 1) = DOMAIN cond
    BY <2>3 DEF Group
  <2> QED
    BY <1>1, <1>3, <2>2, <2>4
<1> QED
  BY <1>2, <1>3

LEMMA GuardedMeaning ==
  ASSUME NEW cond \in Seq(Terms(Rows)), OnlyAnd(cond), NEW row \in Rows
  PROVE  Meaning(Guarded(Rows, cond), row) = "true"
           <=> row # Info /\ Meaning(cond, row) = "true"
<1> DEFINE guard == [op |-> "and", test |-> IsNotInfo(Rows)]
<1>1. guard \in Terms(Rows)
  BY DEF Terms, Truth, IsNotInfo
<1>2. /\ Guarded(Rows, cond) \in Seq(Terms(Rows))
      /\ DOMAIN Guarded(Rows, cond) = 1..(Len(cond) + 1)
      /\ Guarded(Rows, cond)[1] = guard
      /\ \A j \in 1..Len(cond) : Guarded(Rows, cond)[j + 1] = cond[j]
  BY <1>1 DEF Guarded
<1>3. \A j \in 2..(Len(cond) + 1) :
         j - 1 \in DOMAIN cond /\ Guarded(Rows, cond)[j] = cond[j - 1]
  BY <1>2
<1>4. OnlyAnd(Guarded(Rows, cond))
  BY <1>2, <1>3 DEF OnlyAnd
<1>5. guard.test[row] = "true" <=> row # Info
  BY DEF IsNotInfo
<1>6. (\A j \in DOMAIN Guarded(Rows, cond) : Guarded(Rows, cond)[j].test[row] = "true")
        <=> guard.test[row] = "true" /\ \A j \in DOMAIN cond : cond[j].test[row] = "true"
  <2>1. DOMAIN cond = 1..Len(cond) /\ Len(cond) \in Nat
    OBVIOUS
  <2>2. ASSUME \A j \in DOMAIN Guarded(Rows, cond) :
                 Guarded(Rows, cond)[j].test[row] = "true"
        PROVE  /\ guard.test[row] = "true"
               /\ \A j \in DOMAIN cond : cond[j].test[row] = "true"
    BY <1>2, <2>1, <2>2
  <2>3. ASSUME guard.test[row] = "true",
               \A j \in DOMAIN cond : cond[j].test[row] = "true",
               NEW j \in DOMAIN Guarded(Rows, cond)
        PROVE  Guarded(Rows, cond)[j].test[row] = "true"
    BY <1>2, <1>3, <2>1, <2>3
  <2> QED
    BY <2>2, <2>3
<1> QED
  BY <1>2, <1>4, <1>5, <1>6, AndMeaning, SMTT(60)

\* What a guarded condition finds is no sentinel.
LEMMA GuardedHits ==
  ASSUME IsTable(music.rows), NEW cond \in Conditions \cup {NoCondition}
  PROVE  Hits(Guarded(Rows, cond)) = DOMAIN music.rows \cap Selected(Rows, cond)
<1>1. cond \in Seq(Terms(Rows)) /\ OnlyAnd(cond)
  <2>1. NoCondition \in Seq(Terms(Rows)) /\ OnlyAnd(NoCondition)
    BY DEF NoCondition, OnlyAnd
  <2> QED
    BY <2>1, LibraryAssumption
<1>2. \A row \in Rows : Meaning(Guarded(Rows, cond), row) = "true"
                          <=> row # Info /\ Meaning(cond, row) = "true"
  BY <1>1, GuardedMeaning
<1>3. Selected(Rows, Guarded(Rows, cond)) = Selected(Rows, cond) \ {Info}
  BY <1>2 DEF Selected
<1>4. Info \notin DOMAIN music.rows
  BY LibraryAssumption DEF IsTable
<1> QED
  BY <1>3, <1>4 DEF Hits, Present

\* NOT (id = 'info') is not true of the sentinel.
LEMMA RandomHits ==
  ASSUME QueryRandom
  PROVE  stumbled' = "none"
<1> DEFINE isInfo == [r \in Rows |-> IF r = Info THEN "true" ELSE "false"]
           inner == And(NoCondition, isInfo)
           cond == And(NoCondition, NotSub(Rows, inner))
<1>a. Info \in Rows
  BY DEF Rows
<1>1. /\ inner \in Seq(Terms(Rows)) /\ DOMAIN inner = {1}
      /\ inner[1].op = "and" /\ inner[1].test = isInfo
  <2>1. [op |-> "and", test |-> isInfo] \in Terms(Rows)
    BY DEF Terms, Truth
  <2> QED
    BY <2>1 DEF And, Add, NoCondition
<1>2. Meaning(inner, Info) = "true"
  BY <1>a, <1>1, AndMeaning DEF OnlyAnd
<1>3. DOMAIN cond = {1} /\ cond[1].op = "and" /\ cond[1].test = NotSub(Rows, inner)
  BY DEF And, Add, NoCondition
<1>4. NotSub(Rows, inner)[Info] = "false"
  <2>1. NotSub(Rows, inner)[Info] = Negation("true")
    BY <1>a, <1>2 DEF NotSub
  <2> QED
    BY <2>1 DEF Negation
<1>5. cond \in Seq({cond[1]}) /\ OnlyAnd(cond)
  BY <1>3 DEF OnlyAnd, And, Add, NoCondition
<1>6. Meaning(cond, Info) # "true"
  BY <1>3, <1>4, <1>5, AndMeaning
<1>7. Info \notin Hits(cond)
  BY <1>6 DEF Hits, Selected
<1> QED
  BY <1>7 DEF QueryRandom, Scan

\* The guard of Query is not true of it either.
LEMMA QueryHits ==
  ASSUME Types, Query
  PROVE  stumbled' = "none"
<1>1. PICK cond \in AnyCondition : Scan("Query", Hits(Guarded(Rows, cond)))
  BY DEF Query
<1>2. Hits(Guarded(Rows, cond)) \subseteq DOMAIN music.rows
  BY GuardedHits DEF Types, AnyCondition
<1> QED
  BY <1>1, <1>2, LibraryAssumption DEF Scan, Types, IsTable

\* A Delete leaves the sentinel alone and takes the songs that it means.
LEMMA DeleteMusic ==
  ASSUME Types, Delete
  PROVE  \E meant \in SUBSET Songs :
           /\ MusicRecord'
           /\ music'.present = music.present /\ music'.version = music.version
           /\ DOMAIN music'.rows = DOMAIN music.rows \ meant
           /\ \A s \in DOMAIN music'.rows : music'.rows[s] = music.rows[s]
           /\ kept' = kept \ meant /\ written' = written \ meant
           /\ insert' = [g \in Goroutines |->
                [insert[g] EXCEPT !.undone = @ \/ insert[g].song \in meant]]
<1>1. PICK cond \in Conditions :
        LET gone == Hits(Guarded(Rows, cond))
            meant == Songs \cap Selected(Rows, cond)
        IN  /\ music' = [music EXCEPT
                 !.rows = [s \in DOMAIN @ \ gone |-> @[s]],
                 !.version = IF Info \in gone THEN 0 ELSE @]
            /\ kept' = kept \ meant /\ written' = written \ meant
            /\ insert' = [g \in Goroutines |->
                 [insert[g] EXCEPT !.undone = @ \/ insert[g].song \in meant]]
  BY DEF Delete
<1> DEFINE gone == Hits(Guarded(Rows, cond))
           meant == Songs \cap Selected(Rows, cond)
           new == [s \in DOMAIN music.rows \ gone |-> music.rows[s]]
<1>2. gone = DOMAIN music.rows \cap Selected(Rows, cond)
  BY GuardedHits DEF Types
<1>3. Info \notin gone /\ DOMAIN music.rows \ gone = DOMAIN music.rows \ meant
  BY <1>2, LibraryAssumption DEF Types, IsTable
<1>4. music' = [music EXCEPT !.rows = new, !.version = @]
  BY <1>1, <1>3
<1>5. /\ music'.rows = new
      /\ music'.present = music.present /\ music'.version = music.version
      /\ music' \in [present : BOOLEAN, version : 0..4, rows : {new}]
  BY <1>4 DEF Types, Table
<1>6. /\ DOMAIN new = DOMAIN music.rows \ meant
      /\ new \in [DOMAIN music.rows \ meant -> Row]
      /\ \A s \in DOMAIN new : new[s] = music.rows[s]
  BY <1>3 DEF Types, IsTable
<1>7. MusicRecord'
  BY <1>5, <1>6 DEF MusicRecord, Table, IsTable, Types
<1>8. meant \in SUBSET Songs
  OBVIOUS
<1> QED
  BY <1>1, <1>5, <1>6, <1>7, <1>8

-----------------------------------------------------------------------------
(***************************************************************************)
(* The parts, step by step.                                                *)
(***************************************************************************)
Inv ==
  /\ Types /\ SettingsHold /\ MusicPlaces /\ Started /\ Looked /\ SongsSomewhere
  /\ SongsHeld /\ Keyed /\ Converted /\ WrittenSafe /\ ScaledBound

\* migrateSettings.
MigrateSettings ==
  Open \/ DropSettings \/ CreateSettings \/ InsertVersion \/ StampSettings

\* The reads whose error is dropped.
Failing == OverlookSettings \/ MisreadSettings \/ MisreadMusic

LEMMA MigrateCases ==
  ASSUME Migrate
  PROVE  \/ MigrateSettings \/ Failing \/ ReadVersion \/ Step \/ Rename \/ CreateMusic
         \/ Sentinel \/ Copy \/ DropOld \/ Keywords \/ Durations \/ Stamp
  BY DEF Migrate, MigrateSettings, Failing

LEMMA SettingsEffect ==
  ASSUME Types, MigrateSettings
  PROVE  /\ UNCHANGED <<music, musicOld, current, todo, crashes, started, misread>>
         /\ pc \in {"off", "createSettings", "dropSettings", "insertVersion", "stampSettings"}
         /\ pc' \in {"off", "createSettings", "dropSettings", "insertVersion",
                     "stampSettings", "music"}
         /\ settings' \in [present : BOOLEAN, version : 0..2]
<1> USE DEF Goto, settingsRead, settingsWritten, SettingsDBVersion
<1>1. CASE Open
  BY <1>1 DEF Open, Types
<1>2. CASE DropSettings
  BY <1>2 DEF DropSettings
<1>3. CASE CreateSettings
  BY <1>3 DEF CreateSettings, Types
<1>4. CASE InsertVersion
  BY <1>4 DEF InsertVersion, Types
<1>5. CASE StampSettings
  BY <1>5 DEF StampSettings, Types
<1> QED
  BY <1>1, <1>2, <1>3, <1>4, <1>5 DEF MigrateSettings

LEMMA FailingEffect ==
  ASSUME Types, Failing
  PROVE  /\ UNCHANGED <<settings, music, musicOld, todo, started>>
         /\ crashes' = crashes + 1 /\ crashes' \in 0..MaxCrashes
         /\ misread \subseteq misread' /\ misread' \subseteq {"settings", "music"}
         /\ Resting
         /\ \/ /\ pc = "off" /\ pc' \in {"createSettings", "dropSettings"} /\ Resting'
               /\ current' = current
               /\ pc' = "dropSettings" => "settings" \in misread'
            \/ /\ pc = "music" /\ pc' = "step" /\ current' = 0
               /\ "music" \in misread' /\ music.version # 0
<1> USE DEF Goto, settingsRead, Fail, Resting
<1>a. crashes \in Nat /\ MaxCrashes \in Nat
  BY MigrationAssumption DEF Types
<1>1. CASE OverlookSettings
  BY <1>a, <1>1 DEF OverlookSettings, Types
<1>2. CASE MisreadSettings
  BY <1>a, <1>2 DEF MisreadSettings, Types
<1>3. CASE MisreadMusic
  BY <1>a, <1>3 DEF MisreadMusic, Types
<1> QED
  BY <1>1, <1>2, <1>3 DEF Failing

\* One record of a loop, or its end.
LEMMA KeywordsCases ==
  ASSUME Types, MusicPlaces, Keywords
  PROVE  /\ pc = "keywords" /\ UNCHANGED <<settings, crashes, started, misread, musicOld>>
         /\ \/ \E s \in todo :
                 /\ s \in DOMAIN music.rows
                 /\ music' = [music EXCEPT !.rows[s].keyed = TRUE]
                 /\ todo' = todo \ {s} /\ UNCHANGED <<pc, current>>
            \/ todo = {} /\ pc' = "step" /\ current' = 2 /\ UNCHANGED <<music, todo>>
  BY DEF Keywords, restUnchanged, MusicPlaces

LEMMA DurationsCases ==
  ASSUME Types, MusicPlaces, Durations
  PROVE  /\ pc = "durations" /\ UNCHANGED <<settings, crashes, started, misread, musicOld>>
         /\ \/ \E s \in todo :
                 /\ s \in DOMAIN music.rows
                 /\ music' = [music EXCEPT !.rows[s].scaled =
                                IF s \in UrlSongs THEN @ + 1 ELSE @]
                 /\ todo' = todo \ {s} /\ UNCHANGED <<pc, current>>
            \/ todo = {} /\ pc' = "step" /\ current' = 4 /\ UNCHANGED <<music, todo>>
  BY DEF Durations, restUnchanged, MusicPlaces

\* Either way the table has the same songs, and the version stays.
LEMMA KeywordsEffect ==
  ASSUME Types, MusicPlaces, Keywords
  PROVE  /\ pc = "keywords" /\ UNCHANGED <<settings, crashes, started, misread, musicOld>>
         /\ MusicRecord'
         /\ music'.present = music.present /\ music'.version = music.version
         /\ DOMAIN music'.rows = DOMAIN music.rows
         /\ \A r \in DOMAIN music.rows : music'.rows[r].scaled = music.rows[r].scaled
         /\ \A r \in DOMAIN music.rows :
              music'.rows[r].keyed = IF r \in todo \ todo' THEN TRUE ELSE music.rows[r].keyed
         /\ todo' \subseteq todo
         /\ \/ UNCHANGED <<pc, current>>
            \/ todo = {} /\ pc' = "step" /\ current' = 2
<1>a. MusicRecord
  BY DEF Types, MusicRecord
<1>1. CASE \E s \in todo :
             /\ s \in DOMAIN music.rows
             /\ music' = [music EXCEPT !.rows[s].keyed = TRUE]
             /\ todo' = todo \ {s} /\ UNCHANGED <<pc, current>>
  <2>1. PICK s \in todo :
             /\ s \in DOMAIN music.rows
             /\ music' = [music EXCEPT !.rows[s].keyed = TRUE]
             /\ todo' = todo \ {s} /\ UNCHANGED <<pc, current>>
    BY <1>1
  <2>2. /\ MusicRecord'
        /\ music'.present = music.present /\ music'.version = music.version
        /\ DOMAIN music'.rows = DOMAIN music.rows
        /\ \A r \in DOMAIN music.rows :
             /\ music'.rows[r].keyed = IF r = s THEN TRUE ELSE music.rows[r].keyed
             /\ music'.rows[r].scaled = music.rows[r].scaled
    BY <1>a, <2>1, KeywordsMusic
  <2> QED
    BY <2>1, <2>2, KeywordsCases
<1>2. CASE todo = {} /\ pc' = "step" /\ current' = 2 /\ UNCHANGED <<music, todo>>
  BY <1>a, <1>2, KeywordsCases DEF MusicRecord
<1> QED
  BY <1>1, <1>2, KeywordsCases

LEMMA DurationsEffect ==
  ASSUME Types, MusicPlaces, Durations
  PROVE  /\ pc = "durations" /\ UNCHANGED <<settings, crashes, started, misread, musicOld>>
         /\ MusicRecord'
         /\ music'.present = music.present /\ music'.version = music.version
         /\ DOMAIN music'.rows = DOMAIN music.rows
         /\ \A r \in DOMAIN music.rows : music'.rows[r].keyed = music.rows[r].keyed
         /\ \A r \in DOMAIN music.rows :
              music'.rows[r].scaled = IF r \in todo \ todo' /\ r \in UrlSongs
                                      THEN music.rows[r].scaled + 1
                                      ELSE music.rows[r].scaled
         /\ todo' \subseteq todo
         /\ \/ UNCHANGED <<pc, current>>
            \/ todo = {} /\ pc' = "step" /\ current' = 4
<1>a. MusicRecord
  BY DEF Types, MusicRecord
<1>1. CASE \E s \in todo :
             /\ s \in DOMAIN music.rows
             /\ music' = [music EXCEPT !.rows[s].scaled =
                            IF s \in UrlSongs THEN @ + 1 ELSE @]
             /\ todo' = todo \ {s} /\ UNCHANGED <<pc, current>>
  <2>1. PICK s \in todo :
             /\ s \in DOMAIN music.rows
             /\ music' = [music EXCEPT !.rows[s].scaled =
                            IF s \in UrlSongs THEN @ + 1 ELSE @]
             /\ todo' = todo \ {s} /\ UNCHANGED <<pc, current>>
    BY <1>1
  <2>2. /\ MusicRecord'
        /\ music'.present = music.present /\ music'.version = music.version
        /\ DOMAIN music'.rows = DOMAIN music.rows
        /\ \A r \in DOMAIN music.rows :
             /\ music'.rows[r].keyed = music.rows[r].keyed
             /\ music'.rows[r].scaled = IF r = s /\ s \in UrlSongs
                                        THEN music.rows[r].scaled + 1
                                        ELSE music.rows[r].scaled
    BY <1>a, <2>1, DurationsMusic
  <2> QED
    BY <2>1, <2>2, DurationsCases
<1>2. CASE todo = {} /\ pc' = "step" /\ current' = 4 /\ UNCHANGED <<music, todo>>
  BY <1>a, <1>2, DurationsCases DEF MusicRecord
<1> QED
  BY <1>1, <1>2, DurationsCases

LEMMA TypesMigrate ==
  ASSUME Types, MusicPlaces, Migrate
  PROVE  /\ settings' \in [present : BOOLEAN, version : 0..2]
         /\ MusicRecord'
         /\ musicOld' \in Table(musicOld') /\ IsTable(musicOld'.rows)
         /\ current' \in 0..4 /\ todo' \subseteq Songs
         /\ misread' \subseteq {"settings", "music"}
         /\ started' = started /\ (Resting \/ Building \/ Stepping)'
         /\ \/ crashes' = crashes /\ misread' = misread /\ ~Failing
            \/ crashes' = crashes + 1 /\ crashes' \in 0..MaxCrashes /\ Failing
<1> USE DEF Goto, restUnchanged
<1>a. MusicRecord
  BY DEF Types, MusicRecord
<1>b. crashes \in Nat
  BY DEF Types
<1>1. CASE MigrateSettings
  <2>1. (Resting \/ Building \/ Stepping)'
    BY <1>1, SettingsEffect DEF Resting
  <2>2. MusicRecord' /\ musicOld' \in Table(musicOld')
    BY <1>a, <1>1, SettingsEffect DEF MusicRecord, Table, Types
  <2>3. ~Failing
    BY <1>b, <1>1, SettingsEffect, FailingEffect
  <2> QED
    BY <1>1, <2>1, <2>2, <2>3, SettingsEffect DEF Types
<1>2. CASE Failing
  <2>1. (Resting \/ Building \/ Stepping)' /\ current' \in 0..4
    BY <1>2, FailingEffect DEF Stepping, Types
  <2>2. MusicRecord' /\ musicOld' \in Table(musicOld')
    BY <1>a, <1>2, FailingEffect DEF MusicRecord, Table, Types
  <2> QED
    BY <1>2, <2>1, <2>2, FailingEffect DEF Types
<1>3. CASE ~MigrateSettings /\ ~Failing
  <2>1. UNCHANGED <<settings, crashes, started, misread>>
    BY <1>3, MigrateCases DEF ReadVersion, Step, Rename, CreateMusic, Sentinel, Copy,
                              DropOld, Keywords, Durations, Stamp
  <2>2. /\ MusicRecord'
        /\ musicOld' \in Table(musicOld') /\ IsTable(musicOld'.rows)
        /\ current' \in 0..4 /\ todo' \subseteq Songs
        /\ (Resting \/ Building \/ Stepping)'
    <3>1. CASE ReadVersion
      BY <3>1, <1>a DEF ReadVersion, MusicRecord, Types, Table, Resting, Building, Stepping,
                        MusicDBVersion
    <3>2. CASE Step
      BY <3>2, <1>a DEF Step, MusicRecord, Types, Table, Stepping, IsTable
    <3>3. CASE Rename
      <4>1. NoTable \in Table(NoTable)
        BY DEF Table, NoTable
      <4> QED
        BY <3>3, <4>1, <1>a, EmptyTable
        DEF Rename, MusicRecord, Types, Table, Resting, Building
    <3>4. CASE CreateMusic
      BY <3>4, CreateMusicMusic DEF CreateMusic, Types, Table, Building
    <3>5. CASE Sentinel \/ Stamp
      BY <3>5, <1>a, SentinelMusic
      DEF Sentinel, Stamp, Types, Table, Resting, Building
    <3>6. CASE Copy
      BY <3>6, <1>a, CopyMusic DEF Copy, Types, Table, Stepping, Resting
    <3>7. CASE DropOld
      <4>1. NoTable \in Table(NoTable)
        BY DEF Table, NoTable
      <4> QED
        BY <3>7, <4>1, <1>a, EmptyTable DEF DropOld, MusicRecord, Types, Table, Stepping
    <3>8. CASE Keywords
      <4>1. MusicRecord' /\ todo' \subseteq Songs /\ musicOld' = musicOld
        BY <3>8, KeywordsEffect DEF Types
      <4>2. (Resting \/ Building \/ Stepping)' /\ current' \in 0..4
        BY <3>8, KeywordsCases DEF Types, Stepping
      <4> QED
        BY <4>1, <4>2 DEF Types, Table
    <3>9. CASE Durations
      <4>1. MusicRecord' /\ todo' \subseteq Songs /\ musicOld' = musicOld
        BY <3>9, DurationsEffect DEF Types
      <4>2. (Resting \/ Building \/ Stepping)' /\ current' \in 0..4
        BY <3>9, DurationsCases DEF Types, Stepping
      <4> QED
        BY <4>1, <4>2 DEF Types, Table
    <3> QED
      BY <1>3, <3>1, <3>2, <3>3, <3>4, <3>5, <3>6, <3>7, <3>8, <3>9, MigrateCases
  <2> QED
    BY <1>3, <2>1, <2>2 DEF Types
<1> QED
  BY <1>1, <1>2, <1>3

\* A step of a caller touches no place of Migrate.
LEMMA UseCases ==
  ASSUME Types, Use
  PROVE  /\ pc = "serving"
         /\ UNCHANGED <<pc, settings, musicOld, current, todo, crashes, started, misread>>
  BY DEF Use, Look, WriteRow, WriteRefused, WriteMissed, Delete, Query, QueryRandom,
         QueryRandomBy, Scan, Write, Call, Return, onlyMusic, tables

\* A query writes nothing but what came of it.
LEMMA QueryCases ==
  ASSUME Query \/ QueryRandom \/ QueryRandomBy
  PROVE  /\ UNCHANGED <<pc, tables, stored, insert, wanted, kept, written>>
         /\ stumbled' \in {"none", "Query", "QueryRandom", "QueryRandomBy"}
  BY DEF Query, QueryRandom, QueryRandomBy, Scan

\* What a step of a caller does to the table: it takes songs away, or puts
\* one there as callers have it.
LEMMA UseMusic ==
  ASSUME Types, Use
  PROVE  /\ music'.present = music.present /\ music'.version = music.version
         /\ \A s \in DOMAIN music'.rows :
              \/ s \in DOMAIN music.rows /\ music'.rows[s] = music.rows[s]
              \/ music'.rows[s] = NewRow(s)
<1>1. ASSUME NEW g \in Goroutines, WriteRow(g)
      PROVE  /\ music'.present = music.present /\ music'.version = music.version
             /\ \A s \in DOMAIN music'.rows :
                  \/ s \in DOMAIN music.rows /\ music'.rows[s] = music.rows[s]
                  \/ music'.rows[s] = NewRow(s)
  BY <1>1, WriteRowMusic
<1>2. CASE Delete
  BY <1>2, DeleteMusic
<1>3. CASE UNCHANGED music
  BY <1>3
<1> QED
  BY <1>1, <1>2, <1>3, QueryCases DEF Use, Look, WriteRefused, WriteMissed, Write, tables

LEMMA TypesStep == Types /\ MusicPlaces /\ [Next]_allVars => Types'
<1> SUFFICES ASSUME Types, MusicPlaces, [Next]_allVars PROVE Types'
  OBVIOUS
<1>a. MusicRecord /\ crashes \in Nat
  BY DEF Types, MusicRecord
<1>1. CASE MigrateOrCrash /\ Migrate
  <2>1. UNCHANGED <<insert, stumbled, wanted, kept, written>>
    BY <1>1 DEF MigrateOrCrash
  <2>2. stored' \in [Keys -> Texts \cup {None}]
    BY <1>1 DEF MigrateOrCrash, Types, Nothing
  <2>3. crashes' \in 0..MaxCrashes /\ (misread' # {} => crashes' > 0)
    BY <1>a, <1>1, TypesMigrate DEF Types
  <2> QED
    BY <1>1, <2>1, <2>2, <2>3, TypesMigrate DEF Types, MusicRecord
<1>2. CASE MigrateOrCrash /\ Crash
  <2>1. stored' \in [Keys -> Texts \cup {None}]
    BY <1>2 DEF MigrateOrCrash, Types, Nothing
  <2>2. UNCHANGED <<insert, stumbled, wanted, kept, written>>
    BY <1>2 DEF MigrateOrCrash
  <2>3. crashes' \in 0..MaxCrashes /\ crashes' > 0
    BY <1>a, <1>2, MigrationAssumption DEF Crash, Fail
  <2> QED
    BY <1>2, <2>1, <2>2, <2>3 DEF Crash, Types, Resting, Table
<1>3. CASE OpenBoth
  BY <1>3 DEF OpenBoth, Goto, tables, libraryVars, Types, Resting, Table
<1>4. CASE Exit
  BY <1>4 DEF Exit, Goto, tables, Types, Resting, NoInsert, Rows, Table
<1>5. ASSUME NEW g \in Goroutines, Look(g) PROVE Types'
  BY <1>5 DEF Look, Call, onlyMusic, Types, Resting, Rows, Table
<1>6. ASSUME NEW g \in Goroutines, WriteRow(g) PROVE Types'
  BY <1>6, WriteRowMusic, ZenonT(60)
  DEF WriteRow, Return, onlyMusic, Types, Resting, MusicRecord, NoInsert, Rows, Table
<1>7. ASSUME NEW g \in Goroutines, WriteRefused(g) \/ WriteMissed(g) PROVE Types'
  <2>1. UNCHANGED <<pc, settings, music, musicOld, current, todo, crashes, started,
                    misread, stored, stumbled, wanted, written>>
    BY <1>7 DEF WriteRefused, WriteMissed, Return, onlyMusic
  <2>2. insert' = [insert EXCEPT ![g] = NoInsert]
    BY <1>7 DEF WriteRefused, WriteMissed, Return
  <2>3. kept' \in {kept, kept \cup {insert[g].song}} /\ insert[g].song \in Songs
    BY <1>7 DEF WriteRefused, WriteMissed, Types
  <2> QED
    BY <2>1, <2>2, <2>3 DEF Types, Resting, Building, Stepping, NoInsert, Rows, Table
<1>8. CASE Delete
  <2>1. UNCHANGED <<pc, settings, musicOld, current, todo, crashes, started, misread,
                    stored, stumbled, wanted>>
    BY <1>8 DEF Delete, onlyMusic
  <2>2. PICK meant \in SUBSET Songs :
           /\ MusicRecord'
           /\ kept' = kept \ meant /\ written' = written \ meant
           /\ insert' = [g \in Goroutines |->
                [insert[g] EXCEPT !.undone = @ \/ insert[g].song \in meant]]
    BY <1>8, DeleteMusic
  <2>3. insert' \in [Goroutines -> [write : {"none", "insert", "update"},
                                    song : Rows, undone : BOOLEAN]]
    BY <2>2, ZenonT(60) DEF Types
  <2>4. \A g \in Goroutines : insert'[g].write = insert[g].write
                                /\ insert'[g].song = insert[g].song
    BY <2>2 DEF Types
  <2> QED
    BY <2>1, <2>2, <2>3, <2>4 DEF Types, Resting, Building, Stepping, MusicRecord, Table
<1>9. CASE Query \/ QueryRandom \/ QueryRandomBy
  BY <1>9, QueryCases DEF tables, Types, Resting, Building, Stepping, Table
<1>10. CASE Write
  <2>1. UNCHANGED <<pc, tables, insert, stumbled, kept, written>>
    BY <1>10 DEF Write
  <2>2. PICK k \in Keys, t \in Texts \cup {None} :
          /\ stored' = [stored EXCEPT ![k] = t]
          /\ wanted' = [i \in DOMAIN wanted \cup {k} |-> IF i = k THEN t ELSE wanted[i]]
    BY <1>10 DEF Write
  <2>3. /\ stored' \in [Keys -> Texts \cup {None}]
        /\ DOMAIN wanted' \subseteq Keys /\ wanted' \in [DOMAIN wanted' -> Texts \cup {None}]
    BY <2>2 DEF Types
  <2> QED
    BY <2>1, <2>3 DEF tables, Types, Resting, Building, Stepping, Table
<1>11. CASE UNCHANGED allVars
  BY <1>11 DEF allVars, tables, libraryVars, Types, Resting, Building, Stepping, Table
<1> QED
  BY <1>1, <1>2, <1>3, <1>4, <1>5, <1>6, <1>7, <1>8, <1>9, <1>10, <1>11
  DEF Next, Use, MigrateOrCrash

\* Migrate drops a settings table only where nobody counts on what is in it.
LEMMA SettingsStep == Types /\ SettingsHold /\ [Next]_allVars => SettingsHold'
<1> SUFFICES ASSUME Types, SettingsHold, [Next]_allVars PROVE SettingsHold'
  OBVIOUS
<1> USE DEF Goto, restUnchanged, settingsRead, settingsWritten, SettingsDBVersion
<1>1. CASE MigrateOrCrash /\ Migrate
  <2>1. UNCHANGED wanted
        /\ stored' = IF settings.present /\ ~settings'.present THEN Nothing ELSE stored
    BY <1>1 DEF MigrateOrCrash
  <2>2. CASE Open
    BY <2>1, <2>2 DEF Open, Types, SettingsHold
  <2>3. CASE DropSettings
    BY <2>1, <2>3 DEF DropSettings, Types, SettingsHold, Nothing
  <2>4. CASE CreateSettings
    BY <2>1, <2>4 DEF CreateSettings, Types, SettingsHold
  <2>5. CASE InsertVersion
    BY <2>1, <2>5 DEF InsertVersion, Types, SettingsHold
  <2>6. CASE StampSettings
    BY <2>1, <2>6 DEF StampSettings, Types, SettingsHold
  <2>7. CASE Failing
    BY <2>1, <2>7, FailingEffect DEF SettingsHold, Types
  <2>8. CASE ~MigrateSettings /\ ~Failing
    <3>1. /\ UNCHANGED <<settings, misread>>
          /\ pc \notin {"off", "createSettings", "dropSettings", "insertVersion",
                        "stampSettings"}
          /\ pc' \in {"off"} \/ pc' \notin {"createSettings", "dropSettings",
                                            "insertVersion", "stampSettings"}
      BY <1>1, <2>8, MigrateCases
      DEF ReadVersion, Step, Rename, CreateMusic, Sentinel, Copy, DropOld, Keywords,
          Durations, Stamp
    <3> QED
      BY <2>1, <3>1 DEF SettingsHold
  <2> QED
    BY <2>2, <2>3, <2>4, <2>5, <2>6, <2>7, <2>8 DEF MigrateSettings
<1>2. CASE MigrateOrCrash /\ Crash
  BY <1>2 DEF MigrateOrCrash, Crash, SettingsHold
<1>3. CASE OpenBoth \/ Exit
  BY <1>3 DEF OpenBoth, Exit, tables, libraryVars, SettingsHold
<1>4. CASE Use /\ ~Write
  <2>1. UNCHANGED <<pc, settings, misread, stored, wanted>>
    BY <1>4, QueryCases DEF Use, Look, WriteRow, WriteRefused, WriteMissed, Delete,
                            Call, Return, onlyMusic, tables
  <2> QED
    BY <2>1 DEF SettingsHold
<1>5. CASE Write
  <2>1. pc = "serving" /\ UNCHANGED <<pc, settings, misread>>
    BY <1>5 DEF Write, Call, tables
  <2>2. settings.version # 0
    BY <2>1 DEF SettingsHold
  <2>3. (\A k \in DOMAIN wanted : stored[k] = wanted[k])
          => \A k \in DOMAIN wanted' : stored'[k] = wanted'[k]
    BY <1>5 DEF Write, Types
  <2> QED
    BY <2>1, <2>2, <2>3 DEF SettingsHold
<1>6. CASE UNCHANGED allVars
  BY <1>6 DEF allVars, tables, libraryVars, SettingsHold
<1> QED
  BY <1>1, <1>2, <1>3, <1>4, <1>5, <1>6 DEF Next, MigrateOrCrash

\* The table and its version at every place of migrateMusic.
LEMMA PlacesMigrate ==
  ASSUME Types, MusicPlaces, Migrate, UNCHANGED insert
  PROVE  MusicPlaces'
<1> USE DEF Goto, restUnchanged, MusicDBVersion
<1>a. MusicRecord
  BY DEF Types, MusicRecord
<1>1. CASE MigrateSettings
  BY <1>1, SettingsEffect DEF MusicPlaces, Building, Stepping
<1>12. CASE Failing
  BY <1>12, FailingEffect DEF MusicPlaces, Building, Stepping, NoTable
<1>2. CASE ReadVersion
  BY <1>2 DEF ReadVersion, MusicPlaces, Building, Stepping, Types, Table, NoTable
<1>3. CASE Step
  BY <1>3 DEF Step, MusicPlaces, Building, Stepping, Types
<1>4. CASE Rename
  BY <1>4, EmptyTable DEF Rename, MusicPlaces, Building, Stepping
<1>5. CASE CreateMusic
  BY <1>5, CreateMusicMusic DEF CreateMusic, MusicPlaces, Building, Stepping
<1>6. CASE Sentinel
  BY <1>6, <1>a, SentinelMusic DEF Sentinel, MusicPlaces, Building, Stepping
<1>7. CASE Copy
  BY <1>7, <1>a, CopyMusic DEF Copy, MusicPlaces, Building, Stepping, Types
<1>8. CASE DropOld
  BY <1>8 DEF DropOld, MusicPlaces, Building, Stepping
<1>9. CASE Keywords
  BY <1>9, KeywordsEffect DEF MusicPlaces, Building, Stepping
<1>10. CASE Durations
  BY <1>10, DurationsEffect DEF MusicPlaces, Building, Stepping
<1>11. CASE Stamp
  BY <1>11, <1>a, SentinelMusic DEF Stamp, MusicPlaces, Building, Stepping
<1> QED
  BY <1>1, <1>2, <1>3, <1>4, <1>5, <1>6, <1>7, <1>8, <1>9, <1>10, <1>11, <1>12,
     MigrateCases

LEMMA PlacesStep == Types /\ MusicPlaces /\ [Next]_allVars => MusicPlaces'
<1> SUFFICES ASSUME Types, MusicPlaces, [Next]_allVars PROVE MusicPlaces'
  OBVIOUS
<1> USE DEF Goto
<1>1. CASE MigrateOrCrash /\ Migrate
  BY <1>1, PlacesMigrate DEF MigrateOrCrash
<1>2. CASE MigrateOrCrash /\ Crash
  BY <1>2 DEF MigrateOrCrash, Crash, MusicPlaces, Building, Stepping
<1>3. CASE OpenBoth \/ Exit
  BY <1>3 DEF OpenBoth, Exit, tables, libraryVars, MusicPlaces, Building, Stepping
<1>4. CASE Use
  <2>1. pc = "serving" /\ pc' = pc /\ musicOld' = musicOld
    BY <1>4, UseCases
  <2>2. music'.present = music.present /\ music'.version = music.version
    BY <1>4, UseMusic
  <2> QED
    BY <2>1, <2>2 DEF MusicPlaces, Building, Stepping
<1>5. CASE UNCHANGED allVars
  BY <1>5 DEF allVars, tables, libraryVars, MusicPlaces, Building, Stepping
<1> QED
  BY <1>1, <1>2, <1>3, <1>4, <1>5 DEF Next, MigrateOrCrash

\* A file whose version is read never gets into the step from version 0, unless
\* it has none.
LEMMA StartedStep ==
  Types /\ MusicPlaces /\ Started /\ [Next]_allVars => Started'
<1> SUFFICES ASSUME Types, MusicPlaces, Started, [Next]_allVars, "music" \notin misread'
             PROVE  Started'
  BY DEF Started
<1> USE DEF Goto, restUnchanged, MusicDBVersion
<1>a. MusicRecord
  BY DEF Types, MusicRecord
<1>1. CASE MigrateOrCrash /\ Migrate
  <2>1. CASE MigrateSettings
    BY <2>1, SettingsEffect DEF Started, Resting, Building, Stepping
  <2>8. CASE Failing
    <3>1. /\ UNCHANGED <<music, started>> /\ pc = "off" /\ "music" \notin misread
          /\ pc' \in {"createSettings", "dropSettings"} /\ crashes' # 0
      BY <2>8, FailingEffect DEF Types
    <3> QED
      BY <3>1 DEF Started, Resting, Building, Stepping
  <2>2. CASE ReadVersion
    BY <2>2 DEF ReadVersion, Started, Resting, Building, Stepping, Types, Table,
                MusicPlaces, NoTable
  <2>3. CASE Step
    BY <2>3 DEF Step, Started, Resting, Building, Stepping, Types
  <2>4. CASE Rename \/ CreateMusic \/ DropOld \/ Copy
    <3>1. started.music = 0 /\ UNCHANGED <<started, crashes, misread>>
      BY <2>4 DEF Rename, CreateMusic, DropOld, Copy, Started, Building, Types
    <3>2. CASE Rename
      BY <3>1, <3>2, EmptyTable DEF Rename, Started
    <3>3. CASE CreateMusic
      BY <3>1, <3>3, CreateMusicMusic DEF CreateMusic, Started
    <3>4. CASE DropOld
      BY <3>1, <3>4 DEF DropOld, Started
    <3>5. CASE Copy
      BY <3>1, <3>5, <1>a, CopyMusic DEF Copy, Started, Types
    <3> QED
      BY <2>4, <3>2, <3>3, <3>4, <3>5
  <2>5. CASE Sentinel \/ Stamp
    <3>1. /\ music'.present = music.present /\ music'.version = 4
          /\ UNCHANGED <<crashes, started, misread>>
      BY <2>5, <1>a, SentinelMusic DEF Sentinel, Stamp
    <3>2. started.music \in 0..4
      BY DEF Types
    <3>3. CASE Sentinel
      <4>1. started.music = 0 /\ pc' \in {"copy", "done"}
        BY <3>1, <3>2, <3>3 DEF Sentinel, Started, Building
      <4> QED
        BY <3>1, <4>1 DEF Started
    <3>4. CASE Stamp
      <4>1. pc = "stamp" /\ pc' = "done"
        BY <3>4 DEF Stamp
      <4> QED
        BY <3>1, <4>1 DEF Started, Resting, Building, Stepping
    <3> QED
      BY <2>5, <3>3, <3>4
  <2>6. CASE Keywords
    <3>1. /\ music'.present = music.present /\ music'.version = music.version
          /\ UNCHANGED <<crashes, started, misread>> /\ pc = "keywords"
          /\ \/ UNCHANGED <<pc, current>>
             \/ pc' = "step" /\ current' = 2
      BY <2>6, KeywordsEffect
    <3> QED
      BY <3>1 DEF Started, Resting, Building, Stepping
  <2>7. CASE Durations
    <3>1. /\ music'.present = music.present /\ music'.version = music.version
          /\ UNCHANGED <<crashes, started, misread>> /\ pc = "durations"
          /\ \/ UNCHANGED <<pc, current>>
             \/ pc' = "step" /\ current' = 4
      BY <2>7, DurationsEffect
    <3> QED
      BY <3>1 DEF Started, Resting, Building, Stepping
  <2> QED
    BY <1>1, <2>1, <2>2, <2>3, <2>4, <2>5, <2>6, <2>7, <2>8, MigrateCases
<1>2. CASE MigrateOrCrash /\ Crash
  BY <1>2 DEF MigrateOrCrash, Crash, Fail, Started, Resting, Building, Stepping, Types
<1>3. CASE OpenBoth \/ Exit
  BY <1>3 DEF OpenBoth, Exit, tables, libraryVars, Started, Resting, Building, Stepping
<1>4. CASE Use
  <2>1. pc = "serving" /\ UNCHANGED <<pc, started, crashes, misread>>
    BY <1>4, UseCases
  <2>2. music'.present = music.present /\ music'.version = music.version
    BY <1>4, UseMusic
  <2> QED
    BY <2>1, <2>2 DEF Started, Resting, Building, Stepping
<1>5. CASE UNCHANGED allVars
  BY <1>5 DEF allVars, tables, libraryVars, Started, Resting, Building, Stepping
<1> QED
  BY <1>1, <1>2, <1>3, <1>4, <1>5 DEF Next, MigrateOrCrash

\* Only a Delete takes a row away from under an Insert that is to update it.
LEMMA LookedStep == Types /\ MusicPlaces /\ Looked /\ [Next]_allVars => Looked'
<1> SUFFICES ASSUME Types, MusicPlaces, Looked, [Next]_allVars PROVE Looked'
  OBVIOUS
<1>1. CASE MigrateOrCrash /\ pc # "serving"
  <2>1. \A g \in Goroutines : insert'[g].write = "none"
    BY <1>1 DEF MigrateOrCrash, MusicPlaces, NoInsert
  <2> QED
    BY <2>1 DEF Looked
<1>2. ~(MigrateOrCrash /\ pc = "serving")
  BY SettingsEffect, FailingEffect, MigrateCases
  DEF MigrateOrCrash, Goto, ReadVersion, Step, Rename, CreateMusic, Sentinel, Copy,
      DropOld, Keywords, Durations, Stamp, Crash
<1>3. CASE OpenBoth
  BY <1>3 DEF OpenBoth, tables, libraryVars, Looked
<1>4. CASE Exit
  BY <1>4 DEF Exit, Looked, NoInsert
<1>5. ASSUME NEW g \in Goroutines, Look(g) PROVE Looked'
  <2>1. PICK s \in Songs, write \in {"insert", "update"} :
           /\ write = "update" => s \in DOMAIN music.rows
           /\ insert' = [insert EXCEPT ![g] = [write |-> write, song |-> s, undone |-> FALSE]]
    BY <1>5 DEF Look
  <2>2. music' = music
    BY <1>5 DEF Look
  <2> QED
    BY <2>1, <2>2 DEF Looked, Types
<1>6. ASSUME NEW g \in Goroutines, WriteRow(g) \/ WriteRefused(g) \/ WriteMissed(g)
      PROVE  Looked'
  <2>1. DOMAIN music.rows \subseteq DOMAIN music'.rows
    BY <1>6, WriteRowMusic DEF WriteRefused, WriteMissed
  <2>2. insert' = [insert EXCEPT ![g] = NoInsert]
    BY <1>6 DEF WriteRow, WriteRefused, WriteMissed, Return
  <2> QED
    BY <2>1, <2>2 DEF Looked, Types, NoInsert
<1>7. CASE Delete
  <2>1. PICK meant \in SUBSET Songs :
           /\ DOMAIN music'.rows = DOMAIN music.rows \ meant
           /\ insert' = [g \in Goroutines |->
                [insert[g] EXCEPT !.undone = @ \/ insert[g].song \in meant]]
    BY <1>7, DeleteMusic
  <2>2. ASSUME NEW g \in Goroutines, insert'[g].write = "update", ~insert'[g].undone
        PROVE  insert'[g].song \in DOMAIN music'.rows
    <3>1. /\ insert'[g].write = insert[g].write /\ insert'[g].song = insert[g].song
          /\ insert'[g].undone = (insert[g].undone \/ insert[g].song \in meant)
      BY <2>1 DEF Types
    <3>2. ~insert[g].undone /\ insert[g].song \notin meant
      BY <2>2, <3>1
    <3> QED
      BY <2>1, <2>2, <3>1, <3>2 DEF Looked
  <2> QED
    BY <2>2 DEF Looked
<1>8. CASE Query \/ QueryRandom \/ QueryRandomBy \/ Write
  BY <1>8, QueryCases DEF Write, tables, Looked
<1>9. CASE UNCHANGED allVars
  BY <1>9 DEF allVars, tables, libraryVars, Looked
<1> QED
  BY <1>1, <1>2, <1>3, <1>4, <1>5, <1>6, <1>7, <1>8, <1>9 DEF Next, Use

\* Nothing destroys a song: music_old is written when there is none, and goes
\* when all of it has been copied.
LEMMA SomewhereMigrate ==
  ASSUME Types, MusicPlaces, SongsSomewhere, Migrate, UNCHANGED kept
  PROVE  SongsSomewhere'
<1> USE DEF Goto
<1>a. MusicRecord
  BY DEF Types, MusicRecord
<1>1. CASE MigrateSettings
  BY <1>1, SettingsEffect DEF SongsSomewhere
<1>2. CASE Failing
  BY <1>2, FailingEffect DEF SongsSomewhere
<1>3. CASE ReadVersion \/ Step
  BY <1>3 DEF ReadVersion, Step, SongsSomewhere
<1>4. CASE Rename
  BY <1>4, EmptyTable DEF Rename, SongsSomewhere, MusicPlaces
<1>5. CASE CreateMusic
  BY <1>5, CreateMusicMusic, EmptyTable
  DEF CreateMusic, SongsSomewhere, MusicPlaces, Building
<1>6. CASE Sentinel \/ Stamp
  BY <1>6, <1>a, SentinelMusic DEF Sentinel, Stamp, SongsSomewhere
<1>7. CASE Copy
  BY <1>7, <1>a, CopyMusic, EmptyTable
  DEF Copy, SongsSomewhere, MusicPlaces, Building, Types
<1>8. CASE DropOld
  BY <1>8 DEF DropOld, SongsSomewhere
<1>9. CASE Keywords
  BY <1>9, KeywordsEffect DEF SongsSomewhere
<1>10. CASE Durations
  BY <1>10, DurationsEffect DEF SongsSomewhere
<1> QED
  BY <1>1, <1>2, <1>3, <1>4, <1>5, <1>6, <1>7, <1>8, <1>9, <1>10, MigrateCases

\* What a caller's step does to the songs that should be there.
LEMMA UseKept ==
  ASSUME Types, Looked, Use
  PROVE  \E meant \in SUBSET Songs, more \in SUBSET Songs :
           /\ DOMAIN music'.rows = (DOMAIN music.rows \cup more) \ meant
           /\ kept' = (kept \cup more) \ meant
<1> DEFINE Changed(more, meant) ==
             /\ DOMAIN music'.rows = (DOMAIN music.rows \cup more) \ meant
             /\ kept' = (kept \cup more) \ meant
<1>1. ASSUME NEW g \in Goroutines, WriteRow(g)
      PROVE  Changed({insert[g].song}, {}) /\ {insert[g].song} \in SUBSET Songs
  BY <1>1, WriteRowMusic DEF WriteRow
<1>2. CASE Delete
  <2>1. PICK meant \in SUBSET Songs :
          DOMAIN music'.rows = DOMAIN music.rows \ meant /\ kept' = kept \ meant
    BY <1>2, DeleteMusic
  <2>2. Changed({}, meant)
    BY <2>1
  <2> QED
    BY <2>2
<1>3. CASE UNCHANGED <<music, kept>>
  <2>1. Changed({}, {})
    BY <1>3
  <2> QED
    BY <2>1
<1>4. ASSUME NEW g \in Goroutines, WriteMissed(g) PROVE UNCHANGED <<music, kept>>
  BY <1>4 DEF WriteMissed, Looked
<1>5. \/ \E g \in Goroutines : WriteRow(g)
      \/ Delete
      \/ UNCHANGED <<music, kept>>
  BY <1>4, QueryCases DEF Use, Look, WriteRefused, Write, tables
<1> HIDE DEF Changed
<1>6. \E meant \in SUBSET Songs, more \in SUBSET Songs : Changed(more, meant)
  <2>1. CASE \E g \in Goroutines : WriteRow(g)
    BY <1>1, <2>1
  <2> QED
    BY <1>5, <1>2, <1>3, <2>1 DEF Changed
<1> QED
  BY <1>6 DEF Changed

LEMMA SomewhereStep ==
  Types /\ MusicPlaces /\ Looked /\ SongsSomewhere /\ [Next]_allVars => SongsSomewhere'
<1> SUFFICES ASSUME Types, MusicPlaces, Looked, SongsSomewhere, [Next]_allVars
             PROVE  SongsSomewhere'
  OBVIOUS
<1> USE DEF Goto
<1>1. CASE MigrateOrCrash /\ Migrate
  BY <1>1, SomewhereMigrate DEF MigrateOrCrash
<1>2. CASE MigrateOrCrash /\ Crash
  BY <1>2 DEF MigrateOrCrash, Crash, SongsSomewhere
<1>3. CASE OpenBoth \/ Exit \/ UNCHANGED allVars
  BY <1>3 DEF OpenBoth, Exit, allVars, tables, libraryVars, SongsSomewhere
<1>4. CASE Use
  <2>1. pc = "serving" /\ UNCHANGED <<pc, musicOld>>
    BY <1>4, UseCases
  <2> QED
    BY <1>4, <2>1, UseKept DEF SongsSomewhere
<1> QED
  BY <1>1, <1>2, <1>3, <1>4 DEF Next, MigrateOrCrash

\* Where nothing was cut short or misread every song is in exactly one of the
\* two tables, or on its way.
LEMMA SongsMigrate ==
  ASSUME Types, MusicPlaces, Started, SongsHeld, Migrate, UNCHANGED kept, Resumable'
  PROVE  SongsHeld'
<1> USE DEF Goto, restUnchanged
<1>a. MusicRecord
  BY DEF Types, MusicRecord
<1>b. Resumable
  BY TypesMigrate, FailingEffect DEF Resumable, Types
<1>1. CASE MigrateSettings
  BY <1>b, <1>1, SettingsEffect DEF SongsHeld, Building
<1>9. CASE Failing
  BY <1>b, <1>9, FailingEffect DEF SongsHeld, Building, Resumable
<1>2. CASE ReadVersion
  BY <1>b, <1>2, EmptyTable DEF ReadVersion, SongsHeld, Building, MusicPlaces, MusicDBVersion
<1>10. CASE Step
  BY <1>b, <1>10 DEF Step, SongsHeld, Building
<1>3. CASE Rename
  BY <1>b, <1>3, EmptyTable
  DEF Rename, SongsHeld, Building, Stepping, MusicPlaces, Started, Resumable
<1>4. CASE CreateMusic
  BY <1>b, <1>4 DEF CreateMusic, SongsHeld, Building
<1>5. CASE Sentinel \/ Stamp
  <2>1. music'.rows = music.rows /\ UNCHANGED <<musicOld, current, crashes, started>>
    BY <1>5, <1>a, SentinelMusic DEF Sentinel, Stamp
  <2>2. CASE Sentinel
    BY <1>b, <2>1, <2>2, EmptyTable DEF Sentinel, SongsHeld, Building, MusicPlaces
  <2>3. CASE Stamp
    BY <1>b, <2>1, <2>3 DEF Stamp, SongsHeld, Building
  <2> QED
    BY <1>5, <2>2, <2>3
<1>6. CASE Copy
  BY <1>b, <1>6, <1>a, CopyMusic DEF Copy, SongsHeld, Building, MusicPlaces, Types
<1>7. CASE DropOld
  BY <1>b, <1>7, EmptyTable DEF DropOld, SongsHeld, Building
<1>8. CASE Keywords \/ Durations
  BY <1>b, <1>8, KeywordsEffect, DurationsEffect DEF SongsHeld, Building
<1> QED
  BY <1>1, <1>2, <1>3, <1>4, <1>5, <1>6, <1>7, <1>8, <1>9, <1>10, MigrateCases

LEMMA SongsStep ==
  Types /\ MusicPlaces /\ Started /\ Looked /\ SongsHeld /\ [Next]_allVars => SongsHeld'
<1> SUFFICES ASSUME Types, MusicPlaces, Started, Looked, SongsHeld, [Next]_allVars,
                    Resumable'
             PROVE  SongsHeld'
  BY DEF SongsHeld
<1> USE DEF Goto
<1>1. CASE MigrateOrCrash /\ Migrate
  BY <1>1, SongsMigrate DEF MigrateOrCrash
<1>2. CASE MigrateOrCrash /\ Crash
  BY <1>2 DEF MigrateOrCrash, Crash, Fail, SongsHeld, Resumable, Started, Building, Types
<1>3. CASE OpenBoth \/ Exit \/ UNCHANGED allVars
  BY <1>3 DEF OpenBoth, Exit, allVars, tables, libraryVars, SongsHeld, Building, Resumable
<1>4. CASE Use
  <2>1. pc = "serving" /\ UNCHANGED <<pc, musicOld, current, crashes, started, misread>>
    BY <1>4, UseCases
  <2>2. DOMAIN music.rows = kept /\ SongsHeld
    BY <2>1 DEF SongsHeld, Building, Resumable
  <2>3. DOMAIN music'.rows = kept'
    BY <1>4, <2>2, UseKept
  <2> QED
    BY <2>1, <2>2, <2>3 DEF SongsHeld, Building, Resumable
<1> QED
  BY <1>1, <1>2, <1>3, <1>4 DEF Next, MigrateOrCrash

\* Keywords are there from the end of step 1 on, at every later start too.
LEMMA KeyedMigrate ==
  ASSUME Types, MusicPlaces, Started, SongsHeld, Keyed, Migrate
  PROVE  Keyed'
<1> SUFFICES ASSUME Resumable', NEW s \in DOMAIN music'.rows, PastKeywords(s)'
             PROVE  music'.rows[s].keyed
  BY DEF Keyed
<1> USE DEF Goto, restUnchanged, PastKeywords
<1>a. MusicRecord
  BY DEF Types, MusicRecord
<1>b. Resumable /\ UNCHANGED started
  BY TypesMigrate, FailingEffect DEF Resumable, Types
<1>1. CASE MigrateSettings
  <2>1. Resting /\ Resting' /\ UNCHANGED music
    BY <1>1, SettingsEffect DEF Resting
  <2> QED
    BY <1>b, <2>1 DEF Keyed, Resting, Stepped
<1>11. CASE Failing
  <2>1. Resting /\ Resting' /\ UNCHANGED music
    BY <1>11, FailingEffect DEF Resumable
  <2> QED
    BY <1>b, <2>1 DEF Keyed, Resting, Stepped
<1>2. CASE ReadVersion
  BY <1>2, <1>b, EmptyTable
  DEF ReadVersion, Keyed, Resting, Stepped, MusicPlaces, MusicDBVersion
<1>3. CASE Step
  BY <1>3, <1>b DEF Step, Keyed, Resting, Stepped, Types
<1>4. CASE Rename
  BY <1>4, <1>b, EmptyTable DEF Rename, SongsHeld, Building
<1>5. CASE CreateMusic
  BY <1>5, CreateMusicMusic, EmptyTable
<1>6. CASE Sentinel
  BY <1>6, <1>a, SentinelMusic, EmptyTable DEF MusicPlaces, Building, Sentinel
<1>7. CASE Copy \/ DropOld
  BY <1>7, <1>b DEF Copy, DropOld, Started, SongsHeld, Resumable, Building, Resting, Stepped,
                    Types
<1>8. CASE Keywords
  BY <1>8, <1>b, KeywordsEffect DEF Keyed, Stepped, Resting
<1>9. CASE Durations
  BY <1>9, <1>b, DurationsEffect DEF Keyed, Stepped, Resting
<1>10. CASE Stamp
  BY <1>10, <1>a, <1>b, SentinelMusic DEF Stamp, Keyed, Stepped
<1> QED
  BY <1>1, <1>2, <1>3, <1>4, <1>5, <1>6, <1>7, <1>8, <1>9, <1>10, <1>11, MigrateCases

LEMMA KeyedStep ==
  Types /\ MusicPlaces /\ Started /\ SongsHeld /\ Keyed /\ [Next]_allVars => Keyed'
<1> SUFFICES ASSUME Types, MusicPlaces, Started, SongsHeld, Keyed, [Next]_allVars
             PROVE  Keyed'
  OBVIOUS
<1> USE DEF Goto
<1>1. CASE MigrateOrCrash /\ Migrate
  BY <1>1, KeyedMigrate
<1>2. CASE MigrateOrCrash /\ Crash
  BY <1>2 DEF Crash, Fail, Keyed, PastKeywords, Resumable, Resting, Stepped, Types
<1>3. CASE OpenBoth \/ Exit
  BY <1>3 DEF OpenBoth, Exit, tables, libraryVars, Keyed, PastKeywords, Resumable, Resting,
              Stepped
<1>4. CASE Use
  <2>1. UNCHANGED <<pc, current, todo, started, crashes, misread>>
    BY <1>4, UseCases
  <2>2. \A s : PastKeywords(s)' => PastKeywords(s)
    BY <1>4, <2>1, UseMusic DEF PastKeywords, Stepped, Resting
  <2>3. \A s : NewRow(s).keyed
    BY DEF NewRow
  <2> QED
    BY <1>4, <2>1, <2>2, <2>3, UseMusic DEF Keyed, Resumable
<1>5. CASE UNCHANGED allVars
  BY <1>5 DEF allVars, tables, libraryVars, Keyed, PastKeywords, Resumable, Resting, Stepped
<1> QED
  BY <1>1, <1>2, <1>3, <1>4, <1>5 DEF Next, MigrateOrCrash

\* Without a crash each duration is converted once, by step 2 or by its caller.
LEMMA ConvertedMigrate ==
  ASSUME Types, MusicPlaces, Started, SongsHeld, Converted, Migrate, crashes' = 0
  PROVE  Converted'
<1> USE DEF Goto, restUnchanged
<1>a. MusicRecord
  BY DEF Types, MusicRecord
<1>b. /\ UNCHANGED <<crashes, started>> /\ \A s : Seconds(s)' = Seconds(s)
      /\ crashes = 0 /\ misread = {} /\ ~Failing
  BY TypesMigrate DEF Seconds, Types
<1>1. CASE MigrateSettings
  <2>1. Resting /\ Resting' /\ UNCHANGED <<music, musicOld>>
    BY <1>1, SettingsEffect DEF Resting
  <2>2. \A s : PastDurations(s)' <=> PastDurations(s)
    BY <2>1 DEF PastDurations, Resting, Stepped
  <2> QED
    BY <1>b, <2>1, <2>2 DEF Converted
<1>2. CASE ReadVersion
  <2>1. CASE music.present
    <3>1. \A s : PastDurations(s)' <=> PastDurations(s)
      BY <1>2, <2>1 DEF ReadVersion, PastDurations, Resting, Stepped, MusicDBVersion
    <3> QED
      BY <1>2, <1>b, <3>1 DEF ReadVersion, Converted
  <2>2. CASE ~music.present
    BY <1>2, <1>b, <2>2, EmptyTable DEF ReadVersion, Converted, MusicPlaces
  <2> QED
    BY <2>1, <2>2
<1>3. CASE Step
  <2>1. \A s \in DOMAIN music.rows : PastDurations(s)' <=> PastDurations(s)
    BY <1>3 DEF Step, PastDurations, Resting, Stepped, Types
  <2> QED
    BY <1>3, <1>b, <2>1 DEF Step, Converted
<1>4. CASE Rename
  <2>1. \A s \in DOMAIN music.rows : music.rows[s].scaled = 0
    BY <1>4, <1>b DEF Rename, Converted, PastDurations, Resting, Stepped
  <2>2. ~musicOld.present
    BY <1>4, <1>b DEF Rename, SongsHeld, Resumable, Building
  <2> QED
    BY <1>4, <1>b, <2>1, <2>2, EmptyTable DEF Rename, Converted
<1>5. CASE CreateMusic
  BY <1>5, <1>b, CreateMusicMusic, EmptyTable DEF CreateMusic, Converted
<1>6. CASE Sentinel
  BY <1>6, <1>a, <1>b, SentinelMusic, EmptyTable DEF MusicPlaces, Building, Sentinel, Converted
<1>7. CASE Copy
  <2>1. musicOld.version = 0
    BY <1>7, <1>b DEF Copy, SongsHeld, Resumable
  <2>2. \A s : ~PastDurations(s)'
    BY <1>7, <2>1 DEF Copy, PastDurations, Resting, Stepped
  <2> QED
    BY <1>7, <1>a, <1>b, <2>1, <2>2, CopyMusic DEF Copy, Converted, Types
<1>8. CASE DropOld
  <2>1. \A s : ~PastDurations(s) /\ ~PastDurations(s)'
    BY <1>8 DEF DropOld, PastDurations, Resting, Stepped
  <2> QED
    BY <1>8, <1>b, <2>1, EmptyTable DEF DropOld, Converted
<1>9. CASE Keywords
  <2>1. \A s : ~PastDurations(s) /\ ~PastDurations(s)'
    BY <1>9, KeywordsEffect DEF PastDurations, Resting, Stepped
  <2> QED
    BY <1>9, <1>b, <2>1, KeywordsEffect DEF Converted
<1>10. CASE Durations
  <2>1. \A s : /\ PastDurations(s) <=> s \notin todo
               /\ PastDurations(s)' <=> s \notin todo'
    BY <1>10, DurationsEffect DEF PastDurations, Resting, Stepped
  <2>2. started.music < 4
    BY <1>10, <1>b, DurationsEffect DEF Started, Resting, Types
  <2> QED
    BY <1>10, <1>b, <2>1, <2>2, DurationsEffect, SecondsRange DEF Converted
<1>11. CASE Stamp
  <2>1. \A s : PastDurations(s) /\ PastDurations(s)'
    BY <1>11, <1>a, SentinelMusic DEF Stamp, PastDurations, Resting, Stepped
  <2> QED
    BY <1>11, <1>a, <1>b, <2>1, SentinelMusic DEF Stamp, Converted
<1> QED
  BY <1>1, <1>2, <1>3, <1>4, <1>5, <1>6, <1>7, <1>8, <1>9, <1>10, <1>11, <1>b, MigrateCases

LEMMA ConvertedStep ==
  Types /\ MusicPlaces /\ Started /\ SongsHeld /\ Converted /\ [Next]_allVars => Converted'
<1> SUFFICES ASSUME Types, MusicPlaces, Started, SongsHeld, Converted, [Next]_allVars,
                    crashes' = 0
             PROVE  Converted'
  BY DEF Converted
<1> USE DEF Goto
<1>1. CASE MigrateOrCrash /\ Migrate
  BY <1>1, ConvertedMigrate
<1>2. CASE MigrateOrCrash /\ Crash
  BY <1>2 DEF Crash, Fail, Types
<1>3. CASE OpenBoth \/ Exit
  <2>1. UNCHANGED tables /\ \A s : PastDurations(s)' <=> PastDurations(s)
    BY <1>3 DEF OpenBoth, Exit, tables, PastDurations, Resting, Stepped
  <2> QED
    BY <2>1 DEF tables, Converted, Seconds
<1>4. CASE Use
  <2>1. pc = "serving"
        /\ UNCHANGED <<pc, current, todo, musicOld, started, crashes>>
    BY <1>4, UseCases
  <2>2. \A s : PastDurations(s)' /\ PastDurations(s)
    BY <1>4, <2>1, UseMusic DEF PastDurations, Stepped, Resting, MusicPlaces
  <2>3. \A s : NewRow(s).scaled = Seconds(s) /\ Seconds(s)' = Seconds(s)
    BY <2>1 DEF NewRow, Seconds
  <2> QED
    BY <1>4, <2>1, <2>2, <2>3, UseMusic DEF Converted
<1>5. CASE UNCHANGED allVars
  <2>1. UNCHANGED tables /\ \A s : PastDurations(s)' <=> PastDurations(s)
    BY <1>5 DEF allVars, tables, PastDurations, Resting, Stepped
  <2> QED
    BY <2>1 DEF tables, Converted, Seconds
<1> QED
  BY <1>1, <1>2, <1>3, <1>4, <1>5 DEF Next, MigrateOrCrash

\* Migrate has no work on a table that an Insert has written to.
LEMMA WrittenMigrate ==
  ASSUME Types, MusicPlaces, WrittenSafe, Migrate, UNCHANGED written
  PROVE  WrittenSafe'
<1> USE DEF Goto, restUnchanged, MusicDBVersion
<1>a. MusicRecord /\ UNCHANGED started /\ \A s : Seconds(s)' = Seconds(s)
  BY TypesMigrate DEF Types, MusicRecord, Seconds
<1>1. CASE written = {}
  BY <1>1 DEF WrittenSafe
<1>2. CASE written # {} /\ MigrateSettings
  BY <1>a, <1>2, SettingsEffect DEF WrittenSafe, Building
<1>3. CASE written # {} /\ Failing
  BY <1>a, <1>3, FailingEffect DEF WrittenSafe, Building
<1>4. CASE written # {} /\ ReadVersion
  BY <1>a, <1>4 DEF ReadVersion, WrittenSafe, Building
<1>5. CASE written # {} /\ Step
  BY <1>a, <1>5 DEF Step, WrittenSafe, Building
<1>6. CASE written # {} /\ Rename
  <2>1. CASE musicOld.present
    BY <1>a, <1>6, <2>1 DEF Rename, WrittenSafe, Building
  <2>2. CASE ~musicOld.present
    BY <1>a, <1>6, <2>2, EmptyTable DEF Rename, WrittenSafe, MusicPlaces, Stepping
  <2> QED
    BY <2>1, <2>2
<1>7. CASE written # {} /\ CreateMusic
  BY <1>a, <1>7, CreateMusicMusic, EmptyTable
  DEF CreateMusic, WrittenSafe, MusicPlaces, Building
<1>8. CASE written # {} /\ Sentinel
  BY <1>a, <1>8, SentinelMusic DEF Sentinel, WrittenSafe, Building
<1>9. CASE written # {} /\ Copy
  <2>1. musicOld.version # 0
    BY <1>9 DEF Copy, WrittenSafe, MusicPlaces, Building
  <2> QED
    BY <1>a, <1>9, <2>1, CopyMusic DEF Copy, WrittenSafe, Building, Types
<1>10. written = {} \/ ~(DropOld \/ Keywords \/ Durations \/ Stamp)
  BY DEF WrittenSafe, DropOld, Keywords, Durations, Stamp
<1> QED
  BY <1>1, <1>2, <1>3, <1>4, <1>5, <1>6, <1>7, <1>8, <1>9, <1>10, MigrateCases

LEMMA WrittenStep ==
  Types /\ MusicPlaces /\ WrittenSafe /\ [Next]_allVars => WrittenSafe'
<1> SUFFICES ASSUME Types, MusicPlaces, WrittenSafe, [Next]_allVars PROVE WrittenSafe'
  OBVIOUS
<1> USE DEF Goto
<1>1. CASE MigrateOrCrash /\ Migrate
  BY <1>1, WrittenMigrate DEF MigrateOrCrash
<1>2. CASE MigrateOrCrash /\ Crash
  BY <1>2 DEF MigrateOrCrash, Crash, WrittenSafe, Seconds, Building
<1>3. CASE OpenBoth \/ Exit \/ UNCHANGED allVars
  BY <1>3 DEF OpenBoth, Exit, allVars, tables, libraryVars, WrittenSafe, Seconds, Building
<1>4. CASE Use
  <2>1. /\ pc = "serving" /\ UNCHANGED <<pc, musicOld, started>>
        /\ music.present /\ music.version = MusicDBVersion
        /\ music'.present = music.present /\ music'.version = music.version
        /\ \A s : Seconds(s)' = Seconds(s)
    BY <1>4, UseCases, UseMusic DEF MusicPlaces, Seconds
  <2>2. ASSUME NEW g \in Goroutines, WriteRow(g) PROVE WrittenSafe'
    <3>1. written' = written \cup {insert[g].song}
      BY <2>2 DEF WriteRow
    <3>2. NewRow(insert[g].song).scaled = Seconds(insert[g].song)
      BY DEF NewRow
    <3>3. \A s \in written' \cap DOMAIN music'.rows : music'.rows[s].scaled = Seconds(s)
      BY <2>2, <3>1, <3>2, WriteRowMusic DEF WrittenSafe
    <3> QED
      BY <2>1, <3>3 DEF WrittenSafe, Building
  <2>3. CASE Delete
    <3>1. PICK meant \in SUBSET Songs :
             /\ DOMAIN music'.rows = DOMAIN music.rows \ meant
             /\ \A s \in DOMAIN music'.rows : music'.rows[s] = music.rows[s]
             /\ written' = written \ meant
      BY <2>3, DeleteMusic
    <3>2. \A s \in written' \cap DOMAIN music'.rows : music'.rows[s].scaled = Seconds(s)
      BY <3>1 DEF WrittenSafe
    <3> QED
      BY <2>1, <3>2 DEF WrittenSafe, Building
  <2>4. CASE UNCHANGED <<music, written>>
    BY <2>1, <2>4 DEF WrittenSafe, Building
  <2> QED
    BY <1>4, <2>2, <2>3, <2>4, QueryCases
    DEF Use, Look, WriteRefused, WriteMissed, Write, tables
<1> QED
  BY <1>1, <1>2, <1>3, <1>4 DEF Next, MigrateOrCrash

\* A crash in the loop of step 2 costs at most one multiplication too many.
LEMMA ScaledMigrate ==
  ASSUME Types, MusicPlaces, ScaledBound, Migrate
  PROVE  ScaledBound'
<1> USE DEF Goto, restUnchanged
<1>a. MusicRecord /\ crashes \in Nat
  BY DEF Types, MusicRecord
<1>c. /\ \A s \in DOMAIN music.rows : music.rows[s].scaled \in Nat
      /\ \A s \in DOMAIN musicOld.rows : musicOld.rows[s].scaled \in Nat
  BY DEF Types, IsTable, Row
<1>b. ReadVersion \/ Step \/ Rename \/ CreateMusic \/ Sentinel \/ Copy \/ DropOld
        \/ Keywords \/ Durations \/ Stamp => crashes' = crashes
  BY DEF ReadVersion, Step, Rename, CreateMusic, Sentinel, Copy, DropOld, Keywords,
         Durations, Stamp
<1>1. CASE MigrateSettings
  <2>1. Resting /\ Resting' /\ UNCHANGED <<music, musicOld, current, todo, crashes>>
    BY <1>1, SettingsEffect DEF Resting
  <2>2. \A s : PastDurations(s) => PastDurations(s)'
    BY <2>1 DEF PastDurations, Resting, Stepped
  <2> QED
    BY <1>a, <1>c, <2>1, <2>2 DEF ScaledBound
<1>10. CASE Failing
  <2>1. UNCHANGED <<music, musicOld>> /\ crashes' = crashes + 1
    BY <1>10, FailingEffect
  <2> QED
    BY <1>a, <1>c, <2>1 DEF ScaledBound
<1>11. CASE ReadVersion \/ Step
  <2>1. UNCHANGED <<music, musicOld>>
    BY <1>11 DEF ReadVersion, Step
  <2>2. \A s \in DOMAIN music.rows : PastDurations(s) => PastDurations(s)'
    <3>1. CASE ReadVersion
      BY <3>1, EmptyTable DEF ReadVersion, PastDurations, Resting, Stepped, MusicPlaces,
                  MusicDBVersion
    <3>2. CASE Step
      BY <3>2 DEF Step, PastDurations, Resting, Stepped, Types
    <3> QED
      BY <1>11, <3>1, <3>2
  <2> QED
    BY <1>11, <1>a, <1>b, <1>c, <2>1, <2>2 DEF ScaledBound
<1>2. CASE Rename
  <2>1. \A s : ~PastDurations(s)
    BY <1>2 DEF Rename, PastDurations, Resting, Stepped
  <2> QED
    BY <1>2, <1>a, <1>b, <1>c, <2>1, EmptyTable DEF Rename, ScaledBound
<1>3. CASE CreateMusic
  BY <1>3, <1>b, CreateMusicMusic, EmptyTable DEF CreateMusic, ScaledBound
<1>4. CASE Sentinel
  BY <1>4, <1>a, <1>b, SentinelMusic, EmptyTable
  DEF MusicPlaces, Building, Sentinel, ScaledBound
<1>5. CASE Copy
  <2>1. \/ music'.rows = musicOld.rows
        \/ music'.rows = music.rows /\ music.rows = NoRows
    BY <1>5, <1>a, CopyMusic DEF Copy, Types, MusicPlaces, Building
  <2> QED
    BY <1>5, <1>a, <1>b, <1>c, <2>1, EmptyTable DEF Copy, ScaledBound
<1>6. CASE DropOld
  <2>1. \A s : ~PastDurations(s)
    BY <1>6 DEF DropOld, PastDurations, Resting, Stepped
  <2> QED
    BY <1>6, <1>a, <1>b, <1>c, <2>1, EmptyTable DEF DropOld, ScaledBound
<1>7. CASE Keywords
  <2>1. \A s : ~PastDurations(s)
    BY <1>7, KeywordsEffect DEF PastDurations, Resting, Stepped
  <2> QED
    BY <1>7, <1>a, <1>b, <1>c, <2>1, KeywordsEffect DEF ScaledBound
<1>8. CASE Durations
  <2>1. \A s : /\ PastDurations(s) <=> s \notin todo
               /\ PastDurations(s)' <=> s \notin todo'
    BY <1>8, DurationsEffect DEF PastDurations, Resting, Stepped
  <2> QED
    BY <1>8, <1>a, <1>b, <1>c, <2>1, DurationsEffect DEF ScaledBound
<1>9. CASE Stamp
  <2>1. \A s : PastDurations(s)'
    BY <1>9, <1>a, SentinelMusic DEF Stamp, PastDurations, Resting
  <2> QED
    BY <1>9, <1>a, <1>b, <1>c, <2>1, SentinelMusic DEF Stamp, ScaledBound
<1> QED
  BY <1>1, <1>2, <1>3, <1>4, <1>5, <1>6, <1>7, <1>8, <1>9, <1>10, <1>11, MigrateCases

LEMMA ScaledStep ==
  Types /\ MusicPlaces /\ ScaledBound /\ [Next]_allVars => ScaledBound'
<1> SUFFICES ASSUME Types, MusicPlaces, ScaledBound, [Next]_allVars PROVE ScaledBound'
  OBVIOUS
<1> USE DEF Goto
<1>1. CASE MigrateOrCrash /\ Migrate
  BY <1>1, ScaledMigrate
<1>2. CASE MigrateOrCrash /\ Crash
  <2>1. crashes \in Nat /\ crashes' = crashes + 1 /\ UNCHANGED <<music, musicOld>>
    BY <1>2 DEF Crash, Fail, Types
  <2>2. /\ \A s \in DOMAIN music.rows : music.rows[s].scaled \in Nat
        /\ \A s \in DOMAIN musicOld.rows : musicOld.rows[s].scaled \in Nat
    BY DEF Types, IsTable, Row
  <2> QED
    BY <2>1, <2>2 DEF ScaledBound
<1>3. CASE OpenBoth \/ Exit \/ UNCHANGED allVars
  <2>1. UNCHANGED tables /\ \A s : PastDurations(s)' <=> PastDurations(s)
    BY <1>3 DEF OpenBoth, Exit, tables, allVars, PastDurations, Resting, Stepped
  <2> QED
    BY <2>1 DEF tables, ScaledBound
<1>4. CASE Use
  <2>1. pc = "serving"
        /\ UNCHANGED <<pc, current, todo, musicOld, crashes>>
    BY <1>4, UseCases
  <2>2. \A s : PastDurations(s)' /\ PastDurations(s)
    BY <1>4, <2>1, UseMusic DEF PastDurations, Stepped, Resting, MusicPlaces
  <2>3. \A s : NewRow(s).scaled \in {0, 1}
    BY SecondsRange DEF NewRow
  <2>4. crashes \in Nat
    BY DEF Types
  <2> QED
    BY <1>4, <2>1, <2>2, <2>3, <2>4, UseMusic DEF ScaledBound
<1> QED
  BY <1>1, <1>2, <1>3, <1>4 DEF Next, MigrateOrCrash

-----------------------------------------------------------------------------
(***************************************************************************)
(* The theorems.                                                           *)
(***************************************************************************)
LEMMA InitInv == Init => Inv
<1> SUFFICES ASSUME Init PROVE Inv
  OBVIOUS
<1> USE DEF Init, MigrationInit
<1>1. /\ music \in Table(music) /\ IsTable(music.rows)
      /\ ~music.present => music = NoTable
      /\ \A s \in DOMAIN music.rows :
           /\ music.rows[s].scaled = 0
           /\ music.version >= 2 => music.rows[s].keyed
  <2>1. CASE music = NoTable
    BY <2>1, EmptyTable DEF NoTable, Table
  <2>2. ASSUME NEW v \in MusicVersions,
               music = [present |-> TRUE, version |-> v,
                        rows |-> [s \in Songs |-> [keyed |-> v >= 2, scaled |-> 0]]]
        PROVE  /\ music \in Table(music) /\ IsTable(music.rows)
               /\ ~music.present => music = NoTable
               /\ \A s \in DOMAIN music.rows :
                    /\ music.rows[s].scaled = 0
                    /\ music.version >= 2 => music.rows[s].keyed
    <3>1. v \in 0..4
      BY MigrationAssumption
    <3>2. [keyed |-> v >= 2, scaled |-> 0] \in Row
      BY DEF Row
    <3> QED
      BY <2>2, <3>1, <3>2 DEF IsTable, Table
  <2> QED
    BY <2>1, <2>2
<1>2. settings \in [present : BOOLEAN, version : 0..2]
      /\ (~settings.present => settings.version = 0)
  <2>1. CASE settings = [present |-> FALSE, version |-> 0]
    BY <2>1
  <2>2. CASE settings \in [present : {TRUE}, version : 0..SettingsDBVersion]
    BY <2>2 DEF SettingsDBVersion
  <2> QED
    BY <2>1, <2>2
<1>3. /\ musicOld \in Table(musicOld)
      /\ IsTable(musicOld.rows) /\ musicOld = NoTable
  BY EmptyTable DEF NoTable, Table
<1>4. /\ started.music = music.version
      /\ kept = DOMAIN music.rows /\ kept \subseteq Songs
  BY <1>1 DEF IsTable
<1>5. /\ DOMAIN wanted \subseteq Keys /\ wanted \in [DOMAIN wanted -> Texts \cup {None}]
      /\ \A k \in DOMAIN wanted : stored[k] = wanted[k]
      /\ settings.version = 0 => \A k \in DOMAIN wanted : wanted[k] = None
  <2>1. CASE settings.present /\ settings.version = 0
    <3>1. wanted = [k \in {} |-> None]
      BY <2>1
    <3>2. DOMAIN wanted = {}
      BY <3>1
    <3> QED
      BY <3>1, <3>2
  <2>2. CASE ~(settings.present /\ settings.version = 0)
    BY <1>2, <2>2 DEF Nothing
  <2> QED
    BY <2>1, <2>2
<1>6. /\ insert \in [Goroutines -> [write : {"none", "insert", "update"},
                                    song : Rows, undone : BOOLEAN]]
      /\ \A g \in Goroutines : insert[g].write = "none"
  BY DEF NoInsert, Rows
<1>7. Types
  BY <1>1, <1>2, <1>3, <1>4, <1>5, <1>6, MigrationAssumption DEF Types, Resting, Table
<1>8. SettingsHold
  BY <1>5 DEF SettingsHold
<1>9. MusicPlaces
  BY <1>1, <1>3 DEF MusicPlaces, Building, Stepping
<1>10. Started
  BY <1>1, <1>4, EmptyTable DEF Started, Resting, Building, Stepping, MusicDBVersion
<1>11. Looked /\ SongsSomewhere
  BY <1>4, <1>6 DEF Looked, SongsSomewhere
<1>12. SongsHeld
  BY <1>3, <1>4, EmptyTable DEF SongsHeld, Building
<1>13. Keyed
  BY <1>1, <1>4 DEF Keyed, PastKeywords, Resting, Stepped
<1>14. Converted
  BY <1>1, <1>3, <1>4, EmptyTable, SecondsRange
  DEF Converted, PastDurations, Resting, Stepped, MusicDBVersion
<1>15. WrittenSafe
  BY DEF WrittenSafe
<1>16. ScaledBound
  BY <1>1, <1>3, EmptyTable DEF ScaledBound, PastDurations, Stepped, Resting
<1> QED
  BY <1>7, <1>8, <1>9, <1>10, <1>11, <1>12, <1>13, <1>14, <1>15, <1>16 DEF Inv

LEMMA InvHolds == Spec => []Inv
<1>1. Inv /\ [Next]_allVars => Inv'
  BY TypesStep, SettingsStep, PlacesStep, StartedStep, LookedStep, SomewhereStep,
     SongsStep, KeyedStep, ConvertedStep, WrittenStep, ScaledStep, Zenon DEF Inv
<1> QED
  BY InitInv, <1>1, PTL DEF Spec

(* The two files, whatever is done to them in whatever order, and wherever *)
(* Migrate is cut short or cannot read: no duration is multiplied more     *)
(* often than once per failure and once more.                              *)
THEOREM Typed == Spec => []TypeOK
<1>1. Inv => TypeOK
  <2> SUFFICES ASSUME Inv PROVE TypeOK
    OBVIOUS
  <2>1. \A rows \in {music.rows, musicOld.rows} :
          rows \in [DOMAIN rows -> [keyed : BOOLEAN, scaled : 0..MaxCrashes + 1]]
    <3>1. crashes \in Nat /\ MaxCrashes \in Nat /\ crashes <= MaxCrashes
      BY MigrationAssumption DEF Inv, Types
    <3>2. /\ \A s \in DOMAIN music.rows :
               music.rows[s] \in [keyed : BOOLEAN, scaled : 0..MaxCrashes + 1]
          /\ \A s \in DOMAIN musicOld.rows :
               musicOld.rows[s] \in [keyed : BOOLEAN, scaled : 0..MaxCrashes + 1]
      BY <3>1 DEF Inv, Types, IsTable, Row, ScaledBound
    <3> QED
      BY <3>2 DEF Inv, Types, IsTable
  <2>2. pc \in {"off", "createSettings", "dropSettings", "insertVersion", "stampSettings",
                "music", "step", "rename", "createMusic", "sentinel", "copy", "dropOld",
                "keywords", "durations", "stamp", "done", "serving"}
    BY DEF Inv, Types, Resting, Building, Stepping
  <2>3. \A table \in {music, musicOld} :
          /\ table.present \in BOOLEAN /\ table.version \in 0..4
          /\ table.rows \in [DOMAIN table.rows ->
                             [keyed : BOOLEAN, scaled : 0..MaxCrashes + 1]]
    BY <2>1 DEF Inv, Types, Table
  <2> QED
    BY <2>2, <2>3 DEF Inv, Types, TypeOK
<1> QED
  BY <1>1, InvHolds, PTL

(* What Set has stored is there all through Migrate and at every later     *)
(* start, wherever it is cut short or overlooks the table, as long as the  *)
(* version that is in the table can be read.                               *)
THEOREM SettingsSurvive == Spec => []SettingsRemembered
<1>1. Inv => SettingsRemembered
  BY DEF Inv, SettingsHold, SettingsRemembered
<1> QED
  BY <1>1, InvHolds, PTL

(* No song is ever destroyed, whatever is cut short or misread: it is in   *)
(* music or in music_old.  Where neither happens to a file that the step   *)
(* from version 0 or the reading of the version exposes, the songs in use  *)
(* are those that were there or inserted without an error and not deleted  *)
(* since, with keywords, under the current version.                        *)
THEOREM SongsSurvive == Spec => []SongsKept
<1>1. Inv => SongsKept
  <2> SUFFICES ASSUME Inv PROVE SongsKept
    OBVIOUS
  <2>1. kept \subseteq DOMAIN music.rows \cup DOMAIN musicOld.rows
    BY DEF Inv, SongsSomewhere
  <2>2. ASSUME Ready, Resumable
        PROVE  /\ DOMAIN music.rows = kept
               /\ \A s \in kept : music.rows[s].keyed
               /\ music.version = MusicDBVersion
    BY <2>2 DEF Inv, MusicPlaces, SongsHeld, Keyed, PastKeywords, Ready, Resting, Building,
                MusicDBVersion
  <2> QED
    BY <2>1, <2>2 DEF SongsKept
<1> QED
  BY <1>1, InvHolds, PTL

(* Without a crash, and for every song that an Insert has written, the     *)
(* duration is in seconds: converted once if it was in minutes, else never.*)
THEOREM DurationsConvertedOnce == Spec => []ConvertedOnce
<1>1. Inv => ConvertedOnce
  BY DEF Inv, MusicPlaces, Converted, PastDurations, WrittenSafe, ConvertedOnce, Ready,
         Resting
<1> QED
  BY <1>1, InvHolds, PTL

(* Query, and QueryRandom without a condition, never take the row that     *)
(* holds the version for a song: the guard is one AND more in a condition  *)
(* without a top-level OR, and NOT (id = 'info') is false of it.  Nothing  *)
(* is claimed of QueryRandom with a condition, which has no guard.         *)
THEOREM SentinelHidden == Spec => []InfoRowHidden
<1>1. Init => InfoRowHidden
  BY DEF Init, InfoRowHidden
<1>2. Inv /\ InfoRowHidden /\ [Next]_allVars => InfoRowHidden'
  <2> SUFFICES ASSUME Types, InfoRowHidden, [Next]_allVars PROVE InfoRowHidden'
    BY DEF Inv
  <2>1. CASE Query \/ QueryRandom
    BY <2>1, QueryHits, RandomHits DEF InfoRowHidden
  <2>2. CASE QueryRandomBy
    BY <2>2 DEF QueryRandomBy, Scan, InfoRowHidden
  <2>3. CASE Exit
    BY <2>3 DEF Exit, InfoRowHidden
  <2>4. CASE UNCHANGED stumbled
    BY <2>4 DEF InfoRowHidden
  <2> QED
    BY <2>1, <2>2, <2>3, <2>4
    DEF Next, MigrateOrCrash, OpenBoth, Use, Look, WriteRow, WriteRefused, WriteMissed,
        Delete, Write, Return, onlyMusic, libraryVars, allVars
<1> QED
  BY <1>1, <1>2, InvHolds, PTL DEF Spec
=============================================================================
