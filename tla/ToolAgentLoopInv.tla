-------------------------- MODULE ToolAgentLoopInv --------------------------
(***************************************************************************)
(* The inductive invariant behind the safety of ToolAgentLoop.             *)
(***************************************************************************)
EXTENDS ToolAgentLoop

Acting == {"processing_tools", "interacting"}   \* a step is pending
Over   == {"terminated", "scored", "done"}      \* no handler runs any more

\* A handler is only entered below the length of the buffer, and at most
\* MaxParallelCalls calls are under way.
EntryInv ==
    /\ state \in Acting => Len(response_mask) < ResponseLength
    /\ Len(tool_calls) <= MaxParallelCalls
    /\ state \notin Over => reward_score = NoScore

\* The simulation's end is known to the loop, by a response of the current
\* generation or because the conversation is over, unless an exception hid it.
\* Only an end that was reported is paid.
EndInv ==
    /\ env_done =>
          \/ env_lost
          \/ state \in Over
          \/ state = "processing_tools" /\ \E i \in DOMAIN tool_calls : tool_calls[i] = "ended"
    /\ env_lost => env_done
    /\ total_reward = 1 => env_done /\ ~env_lost
    /\ reward_score = 1 => total_reward = 1
    /\ contaminated => state \in Over /\ total_reward = 0

\* What the progress is computed from.
CoverageInv ==
    /\ IsFiniteSet(visited)
    /\ state = "start" => /\ num_tool_calls = 0 /\ num_user_turns = 0
                          /\ action_count = 0 /\ novel_count = 0
    /\ ProgressIsCoverage

\* A step SALT may use wherever it stands in a trace.
Sound(s) == s.mergeable /\ s.observation = SeenKey /\ s.end < ResponseLength

\* All steps are sound while the conversation goes on, and afterwards all but
\* the last; a pending step becomes sound with its observation.
TraceInv ==
    /\ SpansTileGenerations
    /\ \A i \in 1..Len(salt_steps) :
          /\ i < Len(salt_steps) \/ state \notin Over => Sound(salt_steps[i])
          /\ salt_steps[i].mergeable => salt_steps[i].observation = SeenKey
    /\ \A i \in 1..Len(pending_salt_step) :
          /\ pending_salt_step[i].mergeable
          /\ pending_salt_step[i].action # "incomplete"
          /\ pending_salt_step[i].end < ResponseLength

LoopInv ==
    /\ TypeOK
    /\ EntryInv
    /\ EndInv
    /\ CoverageInv
    /\ TraceInv

=============================================================================
