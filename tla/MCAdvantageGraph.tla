-------------------------- MODULE MCAdvantageGraph --------------------------
(***************************************************************************)
(* Instances of AdvantageGraph for TLC.                                    *)
(***************************************************************************)
EXTENDS AdvantageGraph, TLC

CONSTANTS a, b, x, g1, g2

\* Three tokens: two turns around an observation, or one long turn.
TwoTurns == <<TRUE, FALSE, TRUE>>
OneTurn == <<TRUE, TRUE, TRUE>>

Step(action, start, end) ==
    [action |-> action, observation |-> x, mergeable |-> TRUE,
     start |-> start, end |-> end]
Barred(start, end) == [Step(a, start, end) EXCEPT !.mergeable = FALSE]

\* A mask and a trace.
Rollouts ==
    { [mask |-> TwoTurns, trace |-> <<Step(a, 0, 1), Step(b, 2, 3)>>],
      [mask |-> TwoTurns, trace |-> <<Barred(0, 1), Step(b, 2, 3)>>],
      [mask |-> TwoTurns, trace |-> <<Step(b, 2, 3), Step(a, 0, 1)>>],
      [mask |-> OneTurn, trace |-> <<Step(a, 0, 2), Step(b, 1, 3), Step(b, 2, 3)>>],
      [mask |-> TwoTurns, trace |-> <<Step(a, 0, 2), Malformed, Step(b, 2, 4)>>],
      [mask |-> OneTurn, trace |-> <<Step(a, 0, 1), Step(a, 1, 2), Step(a, 2, 3)>>],
      [mask |-> TwoTurns, trace |-> <<Step(a, 0, 1), Step(b, 2, 4)>>],
      [mask |-> OneTurn, trace |-> <<Step(NoKey, 0, 1), Step(a, -1, 2), Step(b, 2, 2)>>],
      [mask |-> TwoTurns, trace |-> NoTrace] }

\* Outcome and progress of the trajectories; 1 is below TauReward.
Results ==
    { [outcome |-> <<4, 0, 0, 4>>, progress |-> <<0, 1, 2, 0>>],
      [outcome |-> <<0, 4, 4, 0>>, progress |-> <<0, 0, 1, 1>>],
      [outcome |-> <<1, 0, 0, 4>>, progress |-> <<2, 1, 0, 0>>],
      [outcome |-> <<1, 0, 0, 1>>, progress |-> <<0, 1, 1, 1>>] }

\* The last trajectory repeats the first one.
Four(f) == <<f[1], f[2], f[3], f[1]>>

SomeBatches ==
    { [group |-> prompts[1], root |-> prompts[2], base |-> result.outcome,
       outcome |-> result.outcome, progress |-> result.progress,
       mask |-> Four([s \in 1..3 |-> rollout[s].mask]),
       trace |-> Four([s \in 1..3 |-> rollout[s].trace]),
       salt |-> switches[1], progpo |-> switches[2], lata |-> switches[3]] :
      prompts \in {<<<<g1, g1, g1, g2>>, <<a, b, a, a>>>>,
                   <<<<g1, g1, g2, g2>>, <<a, a, a, a>>>>},
      result \in Results,
      rollout \in [1..3 -> Rollouts],
      switches \in {<<TRUE, TRUE, TRUE>>, <<TRUE, FALSE, FALSE>>,
                    <<FALSE, FALSE, TRUE>>, <<FALSE, TRUE, FALSE>>} }

=============================================================================
