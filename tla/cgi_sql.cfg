CONSTANTS
  a = a
  b = b
  small = small
  middle = middle
  edge = edge
  large = large
  huge = huge
  negative = negative
  Chars <- MCChars
  Nul = Nul
  Rest = Rest
  Requests <- MCRequests
  OutSize <- MCOutSize
  Answers <- MCAnswers
  BuffSize = 3
  IntSize = 8
  Given <- MCGiven
  MaxRows = 4
  MaxParms = 3
SPECIFICATION MCSpec
INVARIANTS RowsAsAsked RunsWhatWasSent AnswersTheRequest
PROPERTY EverythingEnds
CHECK_DEADLOCK FALSE
