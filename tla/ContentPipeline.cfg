SPECIFICATION FairSpec
CONSTANTS
  s1 = s1  s2 = s2  s3 = s3  s4 = s4  m1 = m1  m2 = m2  g1 = g1  g2 = g2
  Source = {s1, s2, s3, s4}
  Title <- Titles  Group <- Apps  Kind <- Kinds  Selection <- Selections
  Linked0 = {s3, s4}  Article0 = {s4}  Ready = {s1, s3}
  Batch = {m1, m2, g1, g2}
  Handler = {w1, w2}  Editor = {a1}
  Inline <- Requests  Demands <- Together
  MaxMishaps = 1
  NoBatch = NoBatch  NoSource = NoSource
INVARIANTS OneNovelPerSource  OnlyMovesDeadlock
PROPERTIES GenerationsSerial BatchesEnd
CHECK_DEADLOCK FALSE
