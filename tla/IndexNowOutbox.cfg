SPECIFICATION FairSpec
CONSTANTS
  Row = {r1}  MaxAttempts = 2  ItemTries = 2  Handler = {h1, h2}
  MaxMishaps = 1  MaxNo = 4  NoRow = NoRow
INVARIANTS RequestsCounted OutcomeEvidenced
PROPERTY RowsSettle
CHECK_DEADLOCK FALSE
