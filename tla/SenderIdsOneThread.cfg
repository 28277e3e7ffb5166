SPECIFICATION Spec
CONSTANTS
  t1 = t1
  t2 = t2
  e1 = e1
  e2 = e2
  Threads = {t1}
  Embeddable = {e1, e2}
  Dying = {e1, e2}
  MaxSends = 4
  MaxEmbedded = 2
SYMMETRY EmbeddableSymmetry
INVARIANTS IdsInDataKnownUnlessMissed IdsInSendingKnown SourcesAndTargetsAgree
CHECK_DEADLOCK FALSE
