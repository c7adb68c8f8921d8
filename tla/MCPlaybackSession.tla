-------------------------- MODULE MCPlaybackSession --------------------------
(* Instances of PlaybackSession for TLC. *)
EXTENDS PlaybackSession

CONSTANTS a, b, c

\* The second page repeats an item of the first one.
TwoPages == << <<a, b>>, <<b, c>> >>
=============================================================================
