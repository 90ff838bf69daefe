SPECIFICATION MCSpec
CONSTANTS
  load = load
  sfu = sfu
  store = store
  other = other
  N = 5
  Unit <- MCUnit
  Peer <- MCPeer
INVARIANTS HandshakeInv MatchedTokens Rendezvous DeadlockFree
PROPERTY Termination
