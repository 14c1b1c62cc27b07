\* One run, whose two calls share a client, and one test.
SPECIFICATION FairSpec
CONSTANTS
  Runs = {r1}
  Calls = {k1, k2}
  Tests = {t1}
  MaxPerClient = 1
INVARIANTS GrantsAreBacked
PROPERTIES NoRequestAfterRevocation GrantsEnd
