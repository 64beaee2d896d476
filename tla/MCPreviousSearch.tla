--------------------------- MODULE MCPreviousSearch ---------------------------
(* Every calendar over a few seconds, dense, sparse and empty. *)
EXTENDS PreviousSearch

CONSTANT Span      \* the seconds calendars and arguments are drawn from

AllCalendars == SUBSET (0..Span)
AllInputs == 0..(Span + 2)

===============================================================================
