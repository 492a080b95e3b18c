CONSTANTS
  Window = 2
  Containers <- MCContainers
  Environments <- MCEnvironments
  Articles = {"a1", "a2"}
  Baggage = {"b1", "b1.bin"}
  FileOf <- MCFileOf
SPECIFICATION MCSpec
INVARIANT SoundEntriesSucceed
INVARIANT SectionWhole
INVARIANT WrittenIsOwn
INVARIANT ManifestIsTrue
PROPERTY Terminates
CHECK_DEADLOCK FALSE
