SPECIFICATION Spec
CONSTANTS
  c1 = c1
  c2 = c2
  Clients = {c1}
  Upstreams = {"http://a"}
  SchemeOf <- MCSchemeOf
  ClientHosts = {"proxy:8080"}
  ClientHeaders <- MCHeaders
  Pages <- MCPages
  Window = 4
  Growth = 2
  MaxPages = 2
CHECK_DEADLOCK FALSE
INVARIANTS
  FollowedURLsReachTheProxy
