SPECIFICATION FairSpec
CONSTANTS
  c1 = c1
  c2 = c2
  Clients = {c1, c2}
  Upstreams = {"http://a", "https://b"}
  SchemeOf <- MCSchemeOf
  ClientHosts = {"", "proxy:8080"}
  ClientHeaders <- MCHeaders
  Pages <- MCPages
  Window = 4
  Growth = 2
  MaxPages = 2
CHECK_DEADLOCK FALSE
INVARIANTS
  TypeOK LostForCause DrainsInFlight FramingExact SessionInv
PROPERTIES
  Exits
