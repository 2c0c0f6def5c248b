\* One group, checked against the docstrings of send_email and send_telegram.
SPECIFICATION Spec
CONSTANTS
  Handlers = {h1, h2}
  NoHandler = NoHandler
  g1 = g1
  g2 = g2
  Groups = {g1}
  NoGroup = NoGroup
  Batches <- const_Batches
  NoSource = NoSource
  Chats = {"chat1"}
  MailOn = TRUE
  Editions <- const_Editions
PROPERTY BestEffort
