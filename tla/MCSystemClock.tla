--------------------------- MODULE MCSystemClock ---------------------------
(* Names for the small instances of SystemClock.                           *)
EXTENDS SystemClock, TLC

CONSTANTS v1, v2

DateAndTime == {"date", "time"}
TimeZone == {"time_zone_name"}
TwoValues == {v1, v2}

\* The values are alike.
Symmetry == Permutations(Value)
=============================================================================
