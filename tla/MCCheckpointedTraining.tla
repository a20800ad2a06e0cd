----------------------- MODULE MCCheckpointedTraining -----------------------
(***************************************************************************)
(* Instances of CheckpointedTraining for TLC.                              *)
(***************************************************************************)
EXTENDS CheckpointedTrainingInv

\* --steps 5 with a save every other step: saves at 2, 4 and, as the last
\* step, 5.
FixedTarget == {5}

\* A run extended along its schedule: every target is a scheduled save.
ScheduledTargets == {2, 6, 8}

\* A run taken to step 3 and extended to step 4: the last save of the first
\* target is off the schedule of the second.
ExtendedTarget == {3, 4}

=============================================================================
