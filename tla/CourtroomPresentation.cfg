\* Everything a hearing does to the stage at once: a gavelled ruling, an objection
\* into a recording, two exhibits, two compositions and a change of the motion preference.
SPECIFICATION Spec
CONSTANTS
  Idle = Idle
  Exhibits = {e1, e2}
  Shots = {"wide", "witness"}
  Purposes = {"ruling", "objection", "transcript"}
  Hysteresis = 1
  Transition = 1
  GavelTime = 2
  MaxEvents = 4
INVARIANTS
  StageIsTrue
PROPERTIES
  StageSettles
CHECK_DEADLOCK FALSE
