SPECIFICATION Spec
CONSTANTS
  Servers = {"s1", "s2", "s3"}
  Address <- MCAddress
  Router <- MCRouter
  None = "none"
  Attempts = 2
  Joins = 2
  Dests = {"near", "far"}
  Local = {"near"}
  Tries = 2
  PingHost = "h"
  NameServer <- MCNameServer
  Near = {"r1", "d3"}
  Networks = {n1, n2, n3, n4, n5}
  Open = {n1, n3, n5}
  Hidden = {n5}
  MAX_APS = 3
  KeyCodes = {97, 10, 212}
  MaxKeys = 3
  Packets = 3
  ReadMax = 2
  Window = 2
INVARIANTS
  LeasedAddress
  RightHop
  CacheHonest
  QueriesGoRight
  TableShown
  KeysDelivered
PROPERTIES
  RequestsWhatWasOffered
  JoinsWithOneConfiguration
  Returns
  KeyBringsOutput
CHECK_DEADLOCK FALSE
