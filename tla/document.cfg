CONSTANTS
  Strings <- MCStrings
  Empty = ""
  Numbers <- MCNumbers
  Minus = {"-1"}
  Nul = "nul"
  Texts <- MCTexts
  Beyond <- MCBeyond
  Sequels <- Works
  Plans = {}
  MaxReq = 2
SPECIFICATION DocSpec
INVARIANTS ParserFollowsGrammar TreeIsTheText ErrorsAreExplained DataIsOwn
CHECK_DEADLOCK FALSE
PROPERTIES AnswersInOrder EveryTextIsReplied
