SPECIFICATION SuiteSpec
PROPERTIES
  MessagesAreAppended
  ConversationMoves
CHECK_DEADLOCK FALSE
