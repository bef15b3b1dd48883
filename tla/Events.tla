------------------------------- MODULE Events -------------------------------
(***************************************************************************)
(* The events of the program in the log lines of a transaction.  A line is *)
(* "invoke" (a program begins), "return" (the last one that began ends) or *)
(* "data" (an event, of the program that is running).                      *)
(*                                                                         *)
(* External: what a node logs.  A program returns before its caller does,  *)
(* and another program may log data that decodes as an event of this one.  *)
(***************************************************************************)
EXTENDS SequencesExt, Layout

Invoke(program) == [line |-> "invoke", program |-> program]
NotAnEvent == [kind |-> "none"]
Return == [line |-> "return"]
Data(e) == [line |-> "data", bytes |-> EventBytes(e)]

\* What another program logs to look like event e.
Lookalike(e) ==
  IF e.kind \in {"pledged", "visibilityChanged"}
    THEN [kind |-> "visibilityChanged", creator |-> e.creator, supporter |-> e.supporter,
          show_publicly |-> ~e.show_publicly, slot |-> e.slot]
    ELSE e

\* The log of a transaction in which the program emitted `events`, each after a call of the
\* system program; another program called it, and logs data before and after the call.
LogLines(events) ==
  FlattenSeq([i \in DOMAIN events |->
    <<Invoke("other"), Data(Lookalike(events[i])), Invoke("ccsupport"), Invoke("system"),
      Return, Data(events[i]), Return, Data(Lookalike(events[i])), Return>>])

\* The invoke stack after the first i lines.
InvokeStack(lines) ==
  LET stack[i \in 0..Len(lines)] ==
        IF i = 0 THEN <<>>
        ELSE IF lines[i].line = "invoke" THEN Append(stack[i - 1], lines[i].program)
        ELSE IF lines[i].line = "return" THEN Front(stack[i - 1])
        ELSE stack[i - 1]
  IN  stack

\* decodeEvent: the discriminator picks the decoder; other bytes are no event.
DecodeEvent(bytes) ==
  CASE bytes[1] = "Pledged" -> DecodePledgedEvent(bytes)
    [] bytes[1] = "CreatorRegistered" -> DecodeCreatorRegisteredEvent(bytes)
    [] bytes[1] = "CreatorUpdated" -> DecodeCreatorUpdatedEvent(bytes)
    [] bytes[1] = "VisibilityChanged" -> DecodeVisibilityChangedEvent(bytes)
    [] OTHER -> NotAnEvent

\* parseEvents: line by line; a data line belongs to the program on top of the stack.
AnysData(lines, i) == lines[i].line = "data"   \* mutant: whosever it is
OwnData(lines, i) ==
  lines[i].line = "data" /\ Last(InvokeStack(lines)[i]) = "ccsupport"
ParseEvents(lines) ==
  LET events[i \in 0..Len(lines)] ==
        IF i = 0 THEN <<>>
        ELSE IF OwnData(lines, i) /\ DecodeEvent(lines[i].bytes) # NotAnEvent
          THEN Append(events[i - 1], DecodeEvent(lines[i].bytes))
          ELSE events[i - 1]
  IN  events[Len(lines)]
=============================================================================
