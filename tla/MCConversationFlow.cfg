\* One sender, three conversations of which a handler looks at one related, four
\* messages, at most three tool calls in a conversation, one fault.  The messages
\* are finite, so the model may stop.
SPECIFICATION Spec
CONSTANTS
  c1 = c1  c2 = c2  c3 = c3  m1 = m1  m2 = m2  m3 = m3  m4 = m4
  Convs = {c1, c2, c3}
  Msgs = {m1, m2, m3, m4}
  ConvOf <- Owners
  NoMail = NoMail
  Mailboxes <- Written
  LinkLimit = 1
  RawAnswers <- Answers
  ModelStates <- States
  MaxCalls <- Calls
  MaxFaults = 1
CHECK_DEADLOCK FALSE
INVARIANTS
  TypeOK
  ArchiveIsUnambiguous
  LegalThreatsEscalate
  SecondTicketNeedsLoss
  NothingUnseen
  OneTemplatePerSender
  LoneAppealIsDrafted
PROPERTIES
  HandOffStaysOpen
  FollowUpKeepsTicket
  OnlyOwnerWrites
