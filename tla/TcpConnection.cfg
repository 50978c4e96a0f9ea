SPECIFICATION Spec
CONSTANTS
  MaxReceived = 2
  MaxSent = 3
  writeCompleteCallback_ = TRUE
INVARIANTS TypeOK ClosedOnce CompletionPerSend OutputPrecedesFin
PROPERTIES ImplementsConversation UnreadOnlyIfSilenced SentIsWritten ReaderSeesPeerEnd
CHECK_DEADLOCK FALSE
