SPECIFICATION Spec
CONSTANTS
  Usages = {"one", "two"}
  MaxInput = 6
  MaxChunk = 2
INVARIANTS ChunkingInvisible AgreesWithStream
CHECK_DEADLOCK FALSE
