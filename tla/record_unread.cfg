SPECIFICATION Spec
CONSTANTS
  Payloads <- PlainPayload
  NativeCalls <- CallBeyondOne
  Messages <- NoMessages
  Ids <- Id
  Readings <- NoReadings
  UtcNow <- Noon
  SentinelsIn <- TextsWithSentinels
  ControlTexts <- ControlCharacters
  MaxLines = 1
CHECK_DEADLOCK FALSE
INVARIANT ReadBack
