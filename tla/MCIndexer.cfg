\* Everything that may fail does: socket, handler, save, rpc, process.
SPECIFICATION Spec
CONSTANTS
  History <- MCStorm
  Recent = 2
  WsServed = TRUE
  Faults = {"handler", "save", "notification"}
  MaxStops = 2
INVARIANT GapsHaveACause
PROPERTY AppliedOncePerLife
