------------------------- MODULE ResumableTraining -------------------------
(***************************************************************************)
(* What the compact-LoRA checkpoint store promises to whoever restarts an  *)
(* experiment, with the files taken away: one durable snapshot, replaced   *)
(* only by a later snapshot of the running process, and a process that     *)
(* starts exactly from the durable snapshot or does not start at all.      *)
(*                                                                         *)
(* A snapshot is the pair of the global step it was taken at and the       *)
(* number of the save that wrote it, because two saves of one step (before *)
(* and after a crash) hold different weights.                              *)
(***************************************************************************)
EXTENDS Naturals

VARIABLES
    durable,   \* the snapshot a restart would resume from; save 0 is "none"
    running,   \* is a training process alive?
    at,        \* the global step of the process, 0 while none is alive
    from       \* the save the process descends from, 0 for a fresh start

vars == <<durable, running, at, from>>

Init ==
    /\ durable = [step |-> 0, save |-> 0]
    /\ running = FALSE
    /\ at = 0
    /\ from = 0

\* A process starts from the durable snapshot, whole.
Start ==
    /\ ~running
    /\ running' = TRUE
    /\ at' = durable.step
    /\ from' = durable.save
    /\ UNCHANGED durable

\* One optimiser step.
Train ==
    /\ running
    /\ at' = at + 1
    /\ UNCHANGED <<durable, running, from>>

\* The snapshot of the current step becomes the durable one.
Publish ==
    /\ running
    /\ at > durable.step
    /\ durable'.save \in Nat
    /\ durable'.save > durable.save
    /\ durable' = [step |-> at, save |-> durable'.save]
    /\ UNCHANGED <<running, at, from>>

\* The process ends, by itself or by a crash, and its memory is lost.
Stop ==
    /\ running
    /\ running' = FALSE
    /\ at' = 0
    /\ from' = 0
    /\ UNCHANGED durable

Next == Start \/ Train \/ Publish \/ Stop

Spec == Init /\ [][Next]_vars

=============================================================================
