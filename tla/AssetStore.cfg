\* One image, two conversations and two requests beside the cleanup, two failures.
SPECIFICATION Spec
CONSTANTS
  Assets = {a1}
  Conversations = {c1, c2}
  Workers = {w1, w2}
  Cleaner = Cleaner
  Nobody = Nobody
  Prompt = TRUE
  MaxFaults = 2
INVARIANTS RowsHaveFiles OneConversation
PROPERTIES CleanupSparesAttached NothingLingers
