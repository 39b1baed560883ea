CONSTANTS
  Items = {a, b, c}
  Clients = {k1}
  NoItem = NoItem
  MaxVersion = 8
SPECIFICATION Spec
SYMMETRY Symmetry
INVARIANTS
  TypeOK
  VersionIdentifiesQueue
  NoDuplicates
PROPERTIES
  ConditionalMovesSeenQueue
  PlayedPartKept
  ImplementsPlaylist
