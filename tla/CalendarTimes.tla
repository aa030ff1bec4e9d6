---------------------------- MODULE CalendarTimes ----------------------------
(***************************************************************************)
(* A feed's local times become instants by two guesses (calendar/ics.ts):  *)
(* the offset is looked up at the wall clock's numbers read as UTC, then at *)
(* the instant that offset gives.  A zone is what Intl.DateTimeFormat      *)
(* answers around one change of its clocks.                                *)
(***************************************************************************)
EXTENDS Integers

Zones == [at : Int, before : Int, after : Int]

OffsetAt(zone, utc) == IF utc < zone.at THEN zone.before ELSE zone.after

Guess(zone, wall, utc) == wall - OffsetAt(zone, utc)

ZonedToUtc(zone, wall) == Guess(zone, wall, Guess(zone, wall, wall))

Reads(zone, utc, wall) == utc + OffsetAt(zone, utc) = wall
=============================================================================
