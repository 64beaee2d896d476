------------------------------ MODULE Recurrence ------------------------------
(***************************************************************************)
(* jobs.Spec for the "interval" kind: occurrences are anchored, one every  *)
(* spec.every seconds from spec.anchor on.  Cron expressions share Next's  *)
(* and Previous's contract; module PreviousSearch models how Previous is   *)
(* computed for them.                                                      *)
(***************************************************************************)
EXTENDS Integers

\* An interval counted from the time asked about.
NextFromNow(spec, after) ==
  IF after < spec.anchor THEN spec.anchor ELSE after + spec.every

\* The least occurrence strictly after a time; before the anchor, the anchor.
SpecNext(spec, after) ==
  IF after < spec.anchor
  THEN spec.anchor
  ELSE spec.anchor + ((after - spec.anchor) \div spec.every + 1) * spec.every

\* The greatest occurrence at or before a time; before the anchor, one interval earlier.
SpecPrevious(spec, at) ==
  IF at < spec.anchor
  THEN spec.anchor - spec.every
  ELSE spec.anchor + ((at - spec.anchor) \div spec.every) * spec.every

\* The reference: the occurrences of a spec within lo..hi.
Occurrences(spec, lo, hi) ==
  {t \in lo..hi : t >= spec.anchor /\ (t - spec.anchor) % spec.every = 0}

=============================================================================
