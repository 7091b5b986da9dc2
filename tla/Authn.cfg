CONSTANTS
  Caller = {c1, c2}
  Kid = {k1, k2}
  NoKid = NoKid
  Nobody = Nobody
  NoProvider = NoProvider
  Initial <- MCInitial
  Offers <- MCOffers
  Floor = 1
  TTL = 2
  MaxEntries = 1
  MaxStale = 1
  FetchTime = 1
  MaxTime = 6
  MaxRotations = 1
  Attempts = 3
  Cap = 3
  MaxBody = 5
  MaxRead = 4
  Calls <- MCCalls
SPECIFICATION MCSpec
SYMMETRY Symmetry
CHECK_DEADLOCK FALSE
INVARIANTS
  RevocationBound UnknownIsTrue NeverStuck FailsClosed BodyIsExact
  AcceptIffPolicy ReasonIsTrue KeysAreEligible
PROPERTIES
  OneFetchPerFloor
