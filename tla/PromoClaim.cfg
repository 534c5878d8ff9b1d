\* Submissions of the same or of overlapping selections, aborts, retries,
\* crashes and hung handlers
SPECIFICATION Spec
CONSTANTS
  i1 = i1  i2 = i2  s1 = s1  s2 = s2
  Item = {i1, i2}
  Selection = {s1, s2}
  MaxRuns = 3
  NoKey = NoKey
SYMMETRY Symmetry
INVARIANTS GetcodeOnce IntentsTrue
PROPERTY ReviewIsAdmins
\* every item settled and no attempt left: nothing more to do
CHECK_DEADLOCK FALSE
