---------------------------- MODULE MCSchedules ----------------------------
(***************************************************************************)
(* Instances of Schedules for TLC: a timing that comes round every other   *)
(* minute, later away than at home, and one without days.                  *)
(***************************************************************************)
EXTENDS Schedules, TLC

CONSTANTS s1, s2, t1, t2, u1, x1, x2, often, never, home, away

Minutes(timing) == IF timing = often THEN {0, 2, 4} ELSE {}

MCOccurs ==
  [timing \in Timings |->
     [tz \in Zones |->
        (IF tz = home THEN Minutes(timing) ELSE {m + 1: m \in Minutes(timing)}) \cap Times]]

Symmetry == Permutations(Schedules) \cup Permutations(Ticks)
=============================================================================
