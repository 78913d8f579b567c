SPECIFICATION FairSpec
CONSTANTS
  CallId = {"call_0", "call_1"}
  Tool = {"read_file", "edit_file"}
  Mutating = {"edit_file"}
  Replies <- MCReplies
  MaxRetries = 3
  Careful = TRUE
  NoCall = NoCall
  MaxMsgs = 8
INVARIANTS
  TypeOK
  AnswersBelongToTheirRound
  HookBeforeNextRequest
PROPERTIES
  TurnEnds
