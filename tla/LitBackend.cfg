CONSTANTS
  Window = 2
  Containers <- MCContainers
  Environments <- MCEnvironments
  Articles = {"a1", "a2"}
  Baggage = {"b1", "b1.bin"}
  FileOf <- MCFileOf
SPECIFICATION MCSpec
INVARIANT PythonWhenForced
CHECK_DEADLOCK FALSE
