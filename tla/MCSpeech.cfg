SPECIFICATION FairSpec
CONSTANTS
  Messages <- Parts
  MaxResponses = 3
  MaxSpeeches = 6
INVARIANTS
  SpeechIsFlagged
  OneVoice
  TurnsStayApart
PROPERTIES
  NoHandlerHangs
CHECK_DEADLOCK FALSE
