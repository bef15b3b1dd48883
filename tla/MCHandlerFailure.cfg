\* A failing handler, fed by the backfill alone.
SPECIFICATION Spec
CONSTANTS
  History <- MCHistory
  Recent = 2
  WsServed = FALSE
  Faults = {"handler"}
  MaxStops = 0
INVARIANT StopsAtFailure
