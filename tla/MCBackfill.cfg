\* No websocket: the backfill alone, with failing saves, rpc and process.
SPECIFICATION FairSpec
CONSTANTS
  History <- MCHistory
  Recent = 2
  WsServed = FALSE
  Faults = {"save"}
  MaxStops = 2
PROPERTIES
  EventuallyIndexed
  IsReplica
