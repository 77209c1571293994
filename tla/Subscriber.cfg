\* An application thread and a subscription share one client.
CONSTANTS
  Thread = {app, nats}
  Listener = nats
  CacheTtl = 2
  L2Stale = 2
  RpcDelay = 1
  MaxVersion = 3
SPECIFICATION FairSpec
INVARIANTS
  SubscriberTypeOK
  L1StaleWithinTtls
  RefetchIsFresh
PROPERTIES
  AgentConverges
