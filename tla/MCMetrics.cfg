\* Three requests that may meet on a rule never counted before, and a scraper.
SPECIFICATION MetricsSpec
CONSTANTS
  Recorders = {r1, r2, r3}
  Keys <- MCKeys
  MaxRecords = 4
INVARIANT NothingLost
PROPERTY PagesForward
