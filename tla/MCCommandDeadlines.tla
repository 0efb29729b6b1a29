------------------------ MODULE MCCommandDeadlines ------------------------
(* Small instances of CommandDeadlines for TLC; a tick is two seconds. *)
EXTENDS CommandDeadlines

\* A wall clock that is up to the guard behind, or ahead.
SmallSkew == -1 .. 1
\* The same, and clocks that are far off: the device has no battery-backed one.
AnySkew == {-20, -1, 1, 20}
=============================================================================
