CONSTANTS
  Chars <- MCChars
  Letters <- MCLetters
  Starters <- MCStarters
  Responses <- MCResponses
  KeysInOrder <- MCKeys
  Additions <- MCAdditions
  MaxLines = 4
  Absent = Absent

SPECIFICATION Spec
INVARIANTS TypeOK LoadsExactly
PROPERTIES PollIsStable
