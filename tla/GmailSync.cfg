SPECIFICATION FairSpec
CONSTANTS
  Messages = {m, n}
  PageSize = 1
  MaxChanges = 4
  MaxExpiries = 1
  MaxErrors = 1
  None = None
INVARIANTS
  TypeOK
  LiveAreCovered
  ForgottenByHistory
PROPERTIES
  MailArrives
