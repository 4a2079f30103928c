CONSTANTS
  place = place  person = person  hermit = hermit
  w1 = w1  w2 = w2  k1 = k1  k2 = k2
  Quests = {"quest"}
  BlockIds = {"place", "person", "letter"}
  IdOf <- MCIdOf
  Blocks <- MCBlocks
  Needs <- MCNeeds
  Contents <- MCContents
  ChangeSets <- MCChangeSets
  RestoreKeys = {k1, k2}
  Workers = {w1, w2}
  Adapter = "sqlite"
  MaxRevision = 3
  MaxRecords = 1
  Refused = Refused
  Originals = {"original"}
  Destinations = {"copy"}
  Titles = {"first"}
  Versions <- MCVersions
  CopyKeys = {k1, k2}
  Copiers = {w1, w2}
  LastRevision = 1
SPECIFICATION DraftsSpec
SYMMETRY Symmetry
INVARIANTS EditsCompose RestoresOnce CopiesComeTrue
PROPERTIES DraftsAreALog
CHECK_DEADLOCK TRUE
