---------------------------- MODULE PreviousSearch ----------------------------
(***************************************************************************)
(* Spec.Previous for cron schedules: the last occurrence at or before a    *)
(* time, found by a binary search that can only ask for the next           *)
(* occurrence after a time.  One action is one pass of the loop.           *)
(***************************************************************************)
EXTENDS Integers

CONSTANTS
  Calendars,       \* the sets of occurrence times a cron expression can stand for
  Inputs,          \* the times asked about
  Window,          \* how far back the search starts: 366 * 5 days
  Horizon          \* how far ahead the cron library looks before it gives up

ASSUME SearchAssumption ==
  /\ Calendars \subseteq SUBSET Int
  /\ Inputs \subseteq Int
  /\ Window \in Nat \ {0}
  /\ Horizon \in Nat /\ Horizon >= Window

VARIABLES
  cal,             \* the occurrences of the schedule
  at,              \* the argument
  lo, hi,          \* the bounds of the search, in seconds
  pc               \* "check", "search", then "found" or "invalid"

searchVars == <<cal, at, lo, hi, pc>>

\* schedule.Next(t) is a time no later than b.  The library answers with the least
\* occurrence after t, or the zero time when it meets none within its horizon, so this
\* says that some occurrence after t is within both limits.
NextBy(t, b) == \E x \in cal : t < x /\ x <= t + Horizon /\ x <= b

SearchInit ==
  /\ cal \in Calendars
  /\ at \in Inputs
  /\ lo = at - Window
  /\ hi = at
  /\ pc = "check"

\* A window that overlooks an occurrence at its very end.
CheckOpenWindow ==
  /\ pc = "check"
  /\ pc' = IF NextBy(lo, at - 1) THEN "search" ELSE "invalid"
  /\ UNCHANGED <<cal, at, lo, hi>>

\* The window must hold an occurrence at all.
CheckWindow ==
  /\ pc = "check"
  /\ pc' = IF NextBy(lo, at) THEN "search" ELSE "invalid"
  /\ UNCHANGED <<cal, at, lo, hi>>

Mid == lo + (hi - lo) \div 2

\* A lower bound that may not move.
NarrowToMid ==
  /\ pc = "search" /\ lo < hi
  /\ IF NextBy(Mid, at)
     THEN lo' = Mid /\ hi' = hi
     ELSE lo' = lo /\ hi' = Mid
  /\ UNCHANGED <<cal, at, pc>>

\* One pass of the loop.
Narrow ==
  /\ pc = "search" /\ lo < hi
  /\ IF NextBy(Mid, at)
     THEN lo' = Mid + 1 /\ hi' = hi
     ELSE lo' = lo /\ hi' = Mid
  /\ UNCHANGED <<cal, at, pc>>

\* Leaving the loop one pass early with an unverified candidate.
AcceptEarly ==
  /\ pc = "search" /\ ~(lo + 1 < hi)
  /\ pc' = "found"
  /\ UNCHANGED <<cal, at, lo, hi>>

\* The loop ends; the candidate must be an occurrence of its own.
Verify ==
  /\ pc = "search" /\ ~(lo < hi)
  /\ pc' = IF NextBy(lo - 1, lo) THEN "found" ELSE "invalid"
  /\ UNCHANGED <<cal, at, lo, hi>>

SearchNext == CheckWindow \/ Narrow \/ Verify

SearchSpec == SearchInit /\ [][SearchNext]_searchVars
FairSearchSpec == SearchSpec /\ WF_searchVars(SearchNext)

-----------------------------------------------------------------------------
(* Properties *)

\* Times are whole seconds, and the search is in one of its four stages.
SearchTypeOK ==
  /\ cal \in SUBSET Int
  /\ at \in Int /\ lo \in Int /\ hi \in Int
  /\ pc \in {"check", "search", "found", "invalid"}

\* The reference: x is the last occurrence at or before the argument.
IsPrevious(x) == x \in cal /\ x <= at /\ \A y \in cal : y <= at => y <= x

\* Previous returns exactly the last occurrence at or before the argument.
FoundIsPrevious == pc = "found" => IsPrevious(lo)

\* Previous reports ErrInvalid only when its five-year window holds no occurrence.
InvalidMeansNone ==
  pc = "invalid" => \A x \in cal : ~(at - Window < x /\ x <= at)

\* Between passes the bounds still enclose the answer.
Bracketed ==
  pc = "search" =>
    /\ lo <= hi /\ hi <= at /\ at - Window <= lo
    /\ \E x \in cal : lo <= x /\ x <= at
    /\ \A x \in cal : ~(hi < x /\ x <= at)

\* The search ends.
Terminates == <>(pc \in {"found", "invalid"})

=============================================================================
