SPECIFICATION FairMailbox
CONSTANTS
  Messages = {m1}
  Pulls = {1, 2}
INVARIANTS MailboxTypeOK SentIsShown
PROPERTIES StaysTakenBack TakenBackAtLast
CHECK_DEADLOCK FALSE
