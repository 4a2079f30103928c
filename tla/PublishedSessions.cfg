CONSTANTS
  r1 = r1  r2 = r2  k1 = k1  k2 = k2  w1 = w1  p1 = p1  p2 = p2
  Quests = {"quest"}
  Releases = {r1, r2}
  Drafts = {"draft", "broken"}
  ValidDrafts = {"draft"}
  Keys = {k1, k2}
  Workers = {w1}
  MaxEvents = 3
  None = None
  SessionIds = {"new", "old"}
  Seeded = {"old"}
  Players = {p1, p2}
SPECIFICATION SessionsSpec
SYMMETRY Symmetry
INVARIANTS SessionKeepsItsScope LogExplainsPointer MovesAreKeyed
PROPERTIES RetryIsReplayed PlaysItsOwnRelease
CHECK_DEADLOCK TRUE
