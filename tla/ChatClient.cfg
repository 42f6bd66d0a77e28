SPECIFICATION ClientSpec
CONSTANTS
  Convs = {a, n}
  Old = {a}
  Messages = {m1, m2}
  Calls = {c1, c2}
  None = None
  MaxTurns = 2
SYMMETRY Symmetric
CHECK_DEADLOCK FALSE
INVARIANTS NoConfirmedResend OneTranscript
