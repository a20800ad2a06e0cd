-------------------------- MODULE MCAblationRunner --------------------------
(***************************************************************************)
(* Instances of AblationRunner for TLC.                                    *)
(***************************************************************************)
EXTENDS AblationRunnerInv, TLC

CONSTANTS e1, e2, r1, r2, one, other

\* The command lines: the whole batch and single experiments, with every
\* option of the runner taken by at least one.
Line(select, target, request) ==
    [select |-> select, target |-> target, request |-> request, mode |-> "auto",
     data |-> "reuse", dry |-> FALSE, proceed |-> FALSE]

SomeInvocations ==
    { [Line(<<e1, e2>>, 1, one) EXCEPT !.proceed = TRUE],
      [Line(<<e1>>, 2, one) EXCEPT !.data = "rebuild"],
      [Line(<<e2>>, 1, other) EXCEPT !.data = "skip", !.mode = "disable"],
      [Line(<<e1, e2>>, 1, one) EXCEPT !.dry = TRUE, !.data = "rebuild"],
      Line(<<e2, e1>>, 2, other) }

\* The runners are alike.
RunnerSymmetry == Permutations(Runners)

=============================================================================
