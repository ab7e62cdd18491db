SPECIFICATION Spec
INVARIANTS TypeOK OrderIsKept BackgroundIsInFlight RunsOnlyApproved QueueAgreesWithGate
  TokenUnderCaret ScreenShowsPrompt
PROPERTIES EveryoneIsAnswered ImplementsTextBuffer TranscriptIsAppendOnly
CHECK_DEADLOCK FALSE
