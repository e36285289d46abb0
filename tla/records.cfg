SPECIFICATION Spec
CONSTANTS
  Payloads <- SomePayloads
  NativeCalls <- SomeCalls
  Messages <- SomeMessages
  Ids <- Id
  Readings <- SomeReadings
  UtcNow <- Noon
  SentinelsIn <- TextsWithSentinels
  ControlTexts <- ControlCharacters
  MaxLines = 2
CHECK_DEADLOCK FALSE
INVARIANT TypeOK
INVARIANT RoundTrip
INVARIANT FieldsArrive
INVARIANT Genuine
INVARIANT MalformedReported
INVARIANT TimesTrue
