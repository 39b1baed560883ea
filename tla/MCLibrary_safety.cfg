CONSTANTS
  f1 = f1
  u1 = u1
  i1 = i1
  k1 = k1
  t1 = t1
  g1 = g1
  g2 = g2
  none = none
  Songs <- MCSongs
  UrlSongs <- MCUrlSongs
  MusicVersions = {0, 1, 3, 4}
  MaxCrashes = 2
  Info = i1
  Goroutines <- MCGoroutines
  Conditions <- MCConditions
  Keys <- MCKeys
  Texts <- MCTexts
  None = none
  MaxCalls = 4
SPECIFICATION Spec
INVARIANTS
  TypeOK
  SettingsRemembered
  SongsKept
  ConvertedOnce
  InfoRowHidden
PROPERTY
  MigrationCompletes
