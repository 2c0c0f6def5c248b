\* Two threads, one of two groups changes twice; all that may fail does.
SPECIFICATION Spec
CONSTANTS
  Handlers = {h1, h2}
  NoHandler = NoHandler
  g1 = g1
  g2 = g2
  Groups = {g1, g2}
  NoGroup = NoGroup
  Batches <- const_Batches
  NoSource = NoSource
  Chats = {"chat1"}
  MailOn = TRUE
  Editions <- const_Editions
INVARIANT AnswerTellsEffects
PROPERTY NoOlderSnapshot
PROPERTY GroupsSettle
