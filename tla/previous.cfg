SPECIFICATION FairSearchSpec
CONSTANTS
  Span = 8
  Calendars <- AllCalendars
  Inputs <- AllInputs
  Window = 6
  Horizon = 7
INVARIANTS FoundIsPrevious InvalidMeansNone
PROPERTIES Terminates
CHECK_DEADLOCK FALSE
