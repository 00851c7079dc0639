CONSTANTS
  Connections = {"high", "low", "lib"}
  SharedLibs = {"lib"}
  Script <- MCScript
  MayRead <- MCMayRead
  Raises <- MCRaises
  Rule <- MCRule
  Lifetime = 1
  MaxMessages <- MCMaxMessages
  MaxFailures = 1
  Within = {}
SPECIFICATION FairSpec
INVARIANTS
  NoDeletedPeer
  StackIsRestored
PROPERTIES
  MessageIsDecided
  DataIsDelivered
  
