SPECIFICATION ProxySpec
CONSTANTS
  None = None
  Unreadable = Unreadable
  Contents <- MCContents
  Pems = {"pem1", "pem2"}
  Clients = {c1}
  Uris <- MCUris
  Slots = {r1, r2}
  MaxPerMinute = 1
  Window = 1
  TrueMeansGoOn = TRUE
  InDirectory = TRUE
  MaxTime = 3
  MaxSlow = 1
  MaxArrivals = 4
  MaxEdits = 1
  MaxStarts = 1
CHECK_DEADLOCK FALSE
INVARIANTS
  ValidatedIsServed
  TwiceTheLimit
  UpstreamsShareAlike
PROPERTIES
  ChangesAreTold
