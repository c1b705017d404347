\* Cards are pulled and put in at any time.
SPECIFICATION Spec
CONSTANTS
  Cards = {"A", "B"}
  Order <- MCOrder
  Has <- MCHas
  Chunks = 2
  MaxInsertions = 3
  Faults = {"raw"}
INVARIANTS TypeOK NoMixedImage HandleOfCard CacheUsable
CHECK_DEADLOCK FALSE
