SPECIFICATION Spec
CONSTANTS
  CallId = {"call_0", "call_1"}
  Tool = {"read_file", "edit_file"}
  Mutating = {"edit_file"}
  Replies <- MCReplies
  MaxRetries = 2
  Careful = FALSE
  NoCall = NoCall
  MaxMsgs = 6
INVARIANTS
  TranscriptWellFormed
  WaitsAreOwed
  AttemptsBounded
PROPERTIES
  ImplementsTranscript
