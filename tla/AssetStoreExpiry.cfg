\* An image may expire while the turn that shows it commits.
SPECIFICATION Spec
CONSTANTS
  Assets = {a1}
  Conversations = {c1, c2}
  Workers = {w1, w2}
  Cleaner = Cleaner
  Nobody = Nobody
  Prompt = FALSE
  MaxFaults = 0
INVARIANT ShownImagesStay
