--------------------------- MODULE ToolAgentLoop ---------------------------
(***************************************************************************)
(* One rollout: ToolAgentLoop.run drives the policy, the tools and the     *)
(* tau2 user simulator in turns, fills the response buffer, records one    *)
(* SALT step per assistant generation, and asks TauBenchInteraction for    *)
(* the score when the conversation is over.  The calls of one generation   *)
(* run concurrently under asyncio.gather.                                  *)
(*                                                                         *)
(* Tokens are their response_mask bits.  Texts are abstracted to what the  *)
(* code tests in them: which tool calls they parse to, and whether they    *)
(* hold a forbidden template token.  The tau2 Gym environment and the      *)
(* inference engine are external and answer in any way they can.           *)
(***************************************************************************)
EXTENDS Integers, Sequences, FiniteSets

CONSTANTS
    ResponseLength,     \* rollout.response_length
    PromptSlack,        \* rollout.prompt_length minus the prompt's own length
    MaxAssistantTurns,  \* multi_turn.max_assistant_turns, 0 for None
    MaxUserTurns,       \* multi_turn.max_user_turns, 0 for None
    MaxParallelCalls,   \* multi_turn.max_parallel_calls
    MaxTurns,           \* max_turns of the interaction
    MessageLengths,     \* tokens a tool or user message takes in the template
    Observations,       \* the distinguishable observations of the environment
    FirstObservation,   \* what env.reset() observes
    ErrorObservation    \* the text of an exception raised by env.step

ASSUME ConstantsAssumption ==
    /\ ResponseLength \in Nat \ {0}
    /\ PromptSlack \in Nat
    /\ MaxAssistantTurns \in Nat
    /\ MaxUserTurns \in Nat
    /\ MaxParallelCalls \in Nat \ {0}
    /\ MaxTurns \in Nat
    /\ MessageLengths \subseteq Nat \ {0} /\ MessageLengths # {}
    /\ FirstObservation \in Observations
    /\ ErrorObservation \in Observations

\* A call whose JSON or name _call_tool rejects, and one that reaches the tool.
Requests == {"malformed", "known"}

\* What a call comes to: rejected before the tool, an exception of env.step,
\* an observation, an observation that ends the simulation.
Responses == {"rejected", "raised", "observed", "ended"}

\* The calls of one generation that are gathered: those beyond
\* max_parallel_calls are dropped.
Selections == UNION {[1..n -> Requests] : n \in 0..MaxParallelCalls}

VARIABLES
    \* the state machine of run()
    state,
    response_mask,     \* 1 for a generated token, 0 for a message token
    salt_steps,        \* closed SALT steps
    pending_salt_step, \* the open one: a sequence of at most one step
    assistant_turns,
    user_turns,
    tool_calls,        \* the selected calls, each a request or its response
    forbidden,         \* does the last assistant text hold a forbidden token?
    reward_score,
    \* the interaction's state dictionary
    total_reward,
    num_tool_calls,
    num_user_turns,
    contaminated,
    visited,           \* visited_observations
    action_count,      \* progress_action_count
    novel_count,       \* progress_novel_count
    \* the environment
    env_done,          \* the simulation has ended
    env_actions,       \* observation only: actions it has been asked to take
    env_lost,          \* observation only: it ended in a step that raised
    released           \* finalize_interaction has closed it

loop     == <<response_mask, salt_steps, pending_salt_step, assistant_turns, user_turns>>
parsed   == <<tool_calls, forbidden>>
progress == <<visited, action_count, novel_count>>
episode  == <<total_reward, num_tool_calls, num_user_turns, contaminated, progress>>
env      == <<env_done, env_actions, env_lost>>
vars     == <<state, loop, parsed, reward_score, episode, env, released>>

(***************************************************************************)
(* A SALT step: the half-open span of one generation, what it did, whether *)
(* an observation followed, and whether SALT may merge it.                 *)
(***************************************************************************)
NoScore == -1

NoKey == "none"          \* observation_key is None
EmptyKey == "empty"      \* the key of the empty text
SeenKey == "seen"        \* the key of an observation

Step(start, end) ==
    [start |-> start, end |-> end, action |-> "incomplete", observation |-> NoKey,
     mergeable |-> FALSE]

Init ==
    /\ state = "start"
    /\ response_mask = <<>>
    /\ salt_steps = <<>>
    /\ pending_salt_step = <<>>
    /\ assistant_turns = 0
    /\ user_turns = 0
    /\ tool_calls = <<>>
    /\ forbidden = FALSE
    /\ reward_score = NoScore
    /\ total_reward = 0
    /\ num_tool_calls = 0
    /\ num_user_turns = 0
    /\ contaminated = FALSE
    /\ visited = {}
    /\ action_count = 0
    /\ novel_count = 0
    /\ env_done = FALSE
    /\ env_actions = 0
    /\ env_lost = FALSE
    /\ released = FALSE

(***************************************************************************)
(* Closing a step.                                                         *)
(***************************************************************************)
\* Mutant: a step nothing was observed after is thrown away.
KeepObservedOnly(step, observation, mergeable) ==
    /\ salt_steps' = IF observation = NoKey THEN salt_steps
                     ELSE Append(salt_steps, [step EXCEPT !.observation = observation,
                                                          !.mergeable = @ /\ mergeable])
    /\ pending_salt_step' = <<>>

\* _finalize_salt_step with a step pending: a step without an action or an
\* observation is kept, but never merged.
FinalizeSaltStep(step, observation, mergeable) ==
    /\ salt_steps' = Append(salt_steps,
                        [step EXCEPT !.observation = observation,
                                     !.mergeable = /\ @
                                                   /\ mergeable
                                                   /\ step.action # "incomplete"
                                                   /\ observation # NoKey])
    /\ pending_salt_step' = <<>>

Ones(n)  == [i \in 1..n |-> 1]
Zeros(n) == [i \in 1..n |-> 0]

(***************************************************************************)
(* Generating.                                                             *)
(***************************************************************************)
\* The interaction resets a fresh environment; its first observation is part
\* of the prompt and counts as visited.
StartInteraction ==
    /\ state = "start"
    /\ state' = "pending"
    /\ visited' = {FirstObservation}
    /\ UNCHANGED <<loop, parsed, reward_score, total_reward, num_tool_calls, num_user_turns,
                   contaminated, action_count, novel_count, env, released>>

\* _handle_pending_state: the prompt is tokenised.
PreparePrompt ==
    /\ state = "pending"
    /\ state' = "generating"
    /\ UNCHANGED <<loop, parsed, reward_score, episode, env, released>>

\* Mutant: one generation may always fill a whole response.
WholeResponse == ResponseLength

\* The tokens the engine may generate: it does not know where the prompt
\* ends, so a short prompt leaves room beyond the response buffer.
MaxTokens ==
    LET room == PromptSlack + ResponseLength - Len(response_mask)
    IN  IF room < ResponseLength THEN room ELSE ResponseLength

\* The engine does not accept a budget of no token: generate() raises and so
\* does run().
GenerateRefused ==
    /\ state = "generating"
    /\ MaxTokens < 1
    /\ state' = "raised"
    /\ UNCHANGED <<loop, parsed, reward_score, episode, env, released>>

\* Mutant: the length of the buffer is not looked at.
TurnsExhausted(length, turn) ==
    \/ MaxAssistantTurns # 0 /\ turn >= MaxAssistantTurns
    \/ MaxUserTurns # 0 /\ user_turns >= MaxUserTurns

\* The termination conditions, on the buffer and the turns so far.
Exhausted(length, turn) ==
    \/ length >= ResponseLength
    \/ MaxAssistantTurns # 0 /\ turn >= MaxAssistantTurns
    \/ MaxUserTurns # 0 /\ user_turns >= MaxUserTurns

\* n tokens are generated and become the pending step.
Generated(n) == Step(Len(response_mask), Len(response_mask) + n)

Generate(n) ==
    /\ state = "generating"
    /\ n \in 1..MaxTokens
    /\ response_mask' = response_mask \o Ones(n)
    /\ assistant_turns' = assistant_turns + 1
    /\ UNCHANGED <<user_turns, reward_score, episode, env, released>>

\* The last generation: its step is closed at once, its text is not parsed.
GenerateLast(n) ==
    /\ Generate(n)
    /\ Exhausted(Len(response_mask) + n, assistant_turns + 1)
    /\ FinalizeSaltStep(Generated(n), NoKey, TRUE)
    /\ state' = "terminated"
    /\ UNCHANGED parsed

GenerateToolCalls(n, calls) ==
    /\ Generate(n)
    /\ ~Exhausted(Len(response_mask) + n, assistant_turns + 1)
    /\ calls # <<>>
    /\ pending_salt_step' = <<[Generated(n) EXCEPT !.action = "tool", !.mergeable = TRUE]>>
    /\ tool_calls' = calls
    /\ state' = "processing_tools"
    /\ UNCHANGED <<salt_steps, forbidden>>

GenerateMessage(n, tainted) ==
    /\ Generate(n)
    /\ ~Exhausted(Len(response_mask) + n, assistant_turns + 1)
    /\ pending_salt_step' = <<[Generated(n) EXCEPT !.action = "respond", !.mergeable = TRUE]>>
    /\ forbidden' = tainted
    /\ state' = "interacting"
    /\ UNCHANGED <<salt_steps, tool_calls>>

(***************************************************************************)
(* Acting on the environment.                                              *)
(***************************************************************************)
\* env.step raises, always once the simulation has ended.  The step that ends
\* it may raise too: its result is then lost, and with it the flag that would
\* have told the loop.
EnvRaises ==
    /\ env_actions' = env_actions + 1
    /\ env_done' \in {env_done, TRUE}
    /\ env_lost' = (env_lost \/ env_done' # env_done)

\* env.step observes; only an action that ends the simulation is paid.
EnvSteps(done, reward) ==
    /\ ~env_done
    /\ reward = 1 => done
    /\ env_actions' = env_actions + 1
    /\ env_done' = done
    /\ UNCHANGED env_lost

\* record_observation_transition.
RecordObservation(o) ==
    /\ visited' = visited \cup {o}
    /\ action_count' = action_count + 1
    /\ novel_count' = IF o \in visited THEN novel_count ELSE novel_count + 1

\* Mutant: an action that raised is left out of the progress.
ToolErrorUncounted ==
    /\ num_tool_calls' = num_tool_calls + 1
    /\ UNCHANGED <<visited, action_count, novel_count>>

\* TauBenchToolBase.execute, env.step having raised.
ToolError ==
    /\ num_tool_calls' = num_tool_calls + 1
    /\ RecordObservation(ErrorObservation)

\* _call_tool fails before it reaches the tool: invalid JSON, unknown name.
RejectCall(i) ==
    /\ state = "processing_tools"
    /\ tool_calls[i] = "malformed"
    /\ tool_calls' = [tool_calls EXCEPT ![i] = "rejected"]
    /\ UNCHANGED <<state, loop, forbidden, reward_score, episode, env, released>>

ToolRaises(i) ==
    /\ state = "processing_tools"
    /\ tool_calls[i] = "known"
    /\ tool_calls' = [tool_calls EXCEPT ![i] = "raised"]
    /\ EnvRaises
    /\ ToolError
    /\ UNCHANGED <<state, loop, forbidden, reward_score, total_reward, num_user_turns,
                   contaminated, released>>

ToolObserves(i, o, done, reward) ==
    /\ state = "processing_tools"
    /\ tool_calls[i] = "known"
    /\ tool_calls' = [tool_calls EXCEPT ![i] = IF done THEN "ended" ELSE "observed"]
    /\ EnvSteps(done, reward)
    /\ total_reward' = total_reward + reward
    /\ num_tool_calls' = num_tool_calls + 1
    /\ RecordObservation(o)
    /\ UNCHANGED <<state, loop, forbidden, reward_score, num_user_turns, contaminated, released>>

(***************************************************************************)
(* Answering the policy.                                                   *)
(***************************************************************************)
\* asyncio.gather has returned.
Gathered == \A i \in DOMAIN tool_calls : tool_calls[i] \in Responses

\* Mutant: the response processed last decides.
LastTerminates == tool_calls[Len(tool_calls)] = "ended"

\* Any response may end the conversation.
TerminateSequence == \E i \in DOMAIN tool_calls : tool_calls[i] = "ended"

\* A message of n tokens is appended and the policy's turn comes again.
AppendMessage(n) == response_mask' = response_mask \o Zeros(n)

\* _handle_processing_tools_state after the gather.  The responses of the
\* calls are dead once their messages are built.
ProcessResponses ==
    /\ state = "processing_tools"
    /\ Gathered
    /\ FinalizeSaltStep(Head(pending_salt_step), SeenKey, TRUE)
    /\ tool_calls' = <<>>
    /\ UNCHANGED <<assistant_turns, forbidden, reward_score, episode, env, released>>

StopAfterTools ==
    /\ ProcessResponses
    /\ TerminateSequence
    /\ state' = "terminated"
    /\ UNCHANGED <<response_mask, user_turns>>

\* Responses that would fill the buffer are not appended.
DropToolMessages(n) ==
    /\ ProcessResponses
    /\ ~TerminateSequence
    /\ Len(response_mask) + n >= ResponseLength
    /\ state' = "terminated"
    /\ UNCHANGED <<response_mask, user_turns>>

AnswerTools(n) ==
    /\ ProcessResponses
    /\ ~TerminateSequence
    /\ Len(response_mask) + n < ResponseLength
    /\ AppendMessage(n)
    /\ user_turns' = user_turns + 1
    /\ state' = "generating"

\* _handle_interacting_state around generate_response: whatever the user
\* said is appended, without a look at the buffer.
Answer(n, observation, mergeable) ==
    /\ state = "interacting"
    /\ FinalizeSaltStep(Head(pending_salt_step), observation, mergeable)
    /\ AppendMessage(n)
    /\ user_turns' = user_turns + 1
    /\ forbidden' = FALSE
    /\ UNCHANGED <<assistant_turns, tool_calls, reward_score, released>>

\* A forbidden token: the environment does not get to see the message.
Contaminate(n) ==
    /\ forbidden
    /\ Answer(n, EmptyKey, FALSE)
    /\ contaminated' = TRUE
    /\ state' = "terminated"
    /\ UNCHANGED <<total_reward, num_tool_calls, num_user_turns, progress, env>>

RespondRaises(n) ==
    /\ ~forbidden
    /\ Answer(n, EmptyKey, FALSE)
    /\ EnvRaises
    /\ state' = "terminated"
    /\ UNCHANGED episode

\* Mutant: only the turn limit is looked at.
TurnLimitOnly(done) == num_user_turns' + num_tool_calls' >= MaxTurns

InteractionOver(done) == done \/ num_user_turns' + num_tool_calls' >= MaxTurns

Respond(n, o, done, reward) ==
    /\ ~forbidden
    /\ Answer(n, SeenKey, TRUE)
    /\ EnvSteps(done, reward)
    /\ total_reward' = total_reward + reward
    /\ num_user_turns' = num_user_turns + 1
    /\ RecordObservation(o)
    /\ UNCHANGED <<num_tool_calls, contaminated>>
    /\ state' = IF InteractionOver(done) THEN "terminated" ELSE "generating"

(***************************************************************************)
(* Ending.                                                                 *)
(***************************************************************************)
\* A step still pending when the state machine stops is closed.
SettleTrace ==
    IF pending_salt_step = <<>> THEN UNCHANGED <<salt_steps, pending_salt_step>>
    ELSE FinalizeSaltStep(Head(pending_salt_step), NoKey, TRUE)

\* calculate_score in an outcome-only reward mode; an exception is logged and
\* leaves no score.
CalculateScore ==
    /\ state = "terminated"
    /\ SettleTrace
    /\ reward_score' \in {IF total_reward >= 1 THEN 1 ELSE 0, NoScore}
    /\ state' = "scored"
    /\ UNCHANGED <<response_mask, assistant_turns, user_turns, parsed, episode, env, released>>

\* Mutant: nothing to finalize when there is no score.
FinalizeScoredOnly ==
    /\ state = "scored"
    /\ state' = "done"
    /\ released' = (reward_score # NoScore)
    /\ UNCHANGED <<loop, parsed, reward_score, episode, env>>

\* finalize_interaction, in the finally clause: a simulation that has not
\* ended is asked to; whatever comes of it is dropped.
FinalizeInteraction ==
    /\ state = "scored"
    /\ state' = "done"
    /\ released' = TRUE
    /\ IF env_done THEN UNCHANGED env
       ELSE EnvRaises \/ \E done \in BOOLEAN : EnvSteps(done, 0)
    /\ UNCHANGED <<loop, parsed, reward_score, episode>>

\* run() has returned or raised.
Finished ==
    /\ state \in {"done", "raised"}
    /\ UNCHANGED vars

Next ==
    \/ StartInteraction \/ PreparePrompt \/ GenerateRefused
    \/ \E n \in 1..ResponseLength :
          \/ GenerateLast(n)
          \/ \E calls \in Selections : GenerateToolCalls(n, calls)
          \/ \E tainted \in BOOLEAN : GenerateMessage(n, tainted)
    \/ \E i \in DOMAIN tool_calls :
          \/ RejectCall(i)
          \/ ToolRaises(i)
          \/ \E o \in Observations, done \in BOOLEAN, reward \in {0, 1} :
                ToolObserves(i, o, done, reward)
    \/ StopAfterTools
    \/ \E n \in MessageLengths :
          \/ DropToolMessages(n)
          \/ AnswerTools(n)
          \/ Contaminate(n)
          \/ RespondRaises(n)
          \/ \E o \in Observations, done \in BOOLEAN, reward \in {0, 1} :
                Respond(n, o, done, reward)
    \/ CalculateScore \/ FinalizeInteraction \/ Finished

Spec == Init /\ [][Next]_vars

\* The coroutine goes on whenever what it awaits has come.
FairSpec == Spec /\ WF_vars(Next)

-----------------------------------------------------------------------------
(***************************************************************************)
(* Properties.                                                             *)
(***************************************************************************)
SaltSteps ==
    [start : Nat, end : Nat, action : {"incomplete", "tool", "respond"},
     observation : {NoKey, EmptyKey, SeenKey}, mergeable : BOOLEAN]

\* Every variable ranges over the values its counterpart can take; the buffer
\* outgrows the response by no more than the prompt leaves free and one
\* message (generate()'s budget against the unchecked append of a user turn).
TypeOK ==
    /\ state \in {"start", "pending", "generating", "processing_tools", "interacting",
                  "terminated", "scored", "done", "raised"}
    /\ response_mask \in Seq({0, 1})
    /\ \E m \in MessageLengths : Len(response_mask) <= ResponseLength + PromptSlack + m
    /\ salt_steps \in Seq(SaltSteps)
    /\ pending_salt_step \in Seq(SaltSteps)
    /\ Len(pending_salt_step) = IF state \in {"processing_tools", "interacting"} THEN 1 ELSE 0
    /\ assistant_turns \in Nat
    /\ user_turns \in Nat
    /\ tool_calls \in Seq(Requests \cup Responses)
    /\ forbidden \in BOOLEAN
    /\ reward_score \in {NoScore, 0, 1}
    /\ total_reward \in {0, 1}
    /\ num_tool_calls \in Nat
    /\ num_user_turns \in Nat
    /\ contaminated \in BOOLEAN
    /\ visited \subseteq Observations
    /\ action_count \in Nat
    /\ novel_count \in Nat
    /\ env_done \in BOOLEAN
    /\ env_actions \in Nat
    /\ env_lost \in BOOLEAN
    /\ released \in BOOLEAN

Trace == salt_steps \o pending_salt_step

\* The spans of the trace are the generations, one each, in order and without
\* overlap, and together they cover exactly the tokens the policy generated:
\* an advantage assigned through a span reaches no message token and leaves no
\* policy token out (_finalize_salt_step on every way out of every handler).
SpansTileGenerations ==
    /\ Len(Trace) = assistant_turns
    /\ \A i \in 1..Len(Trace) :
          Trace[i].start < Trace[i].end /\ Trace[i].end <= Len(response_mask)
    /\ \A i, j \in 1..Len(Trace) : i < j => Trace[i].end <= Trace[j].start
    /\ \A p \in 1..Len(response_mask) :
          response_mask[p] = 1 <=>
             \E i \in 1..Len(Trace) : Trace[i].start < p /\ p <= Trace[i].end

\* Only the last step of a trace can lack an observation, be barred from
\* merging, or end beyond the response buffer: SALT keys a transition by the
\* steps before it, so a gap in the middle would spoil every later one.
GapsOnlyAtTheEnd ==
    \A i \in 1..Len(salt_steps) :
       /\ i < Len(Trace) => /\ salt_steps[i].mergeable
                            /\ salt_steps[i].observation = SeenKey
                            /\ salt_steps[i].end < ResponseLength
       /\ salt_steps[i].mergeable => salt_steps[i].observation = SeenKey

\* A contaminated conversation is never scored a success, although
\* calculate_score does not look at the flag: the environment pays only what
\* ends it, and nothing is generated after that ("lock reward=0 + terminate").
ContaminatedScoresZero == contaminated => reward_score # 1

\* No action is sent to a simulation whose end a result has reported, neither
\* by the loop nor by the cleanup; with one call per generation there is no
\* other sender.  An end that an exception hid is the only way to go on after it.
ActsOnLiveEnvironment ==
    [][env_actions' # env_actions => ~env_done \/ env_lost]_vars

\* First-visit coverage is a fraction of the executed actions: every action
\* the turn counters know of is in the denominator, the reset observation is
\* not in the numerator, and an exception's text counts like any observation.
ProgressIsCoverage ==
    state # "start" =>
       /\ action_count = num_tool_calls + num_user_turns
       /\ novel_count = Cardinality(visited) - 1
       /\ novel_count <= action_count

\* As long as the engine never refuses a generation (constants that keep
\* GenerateRefused from happening), every rollout ends and gives its
\* environment back, with or without a score.
EveryEnvironmentReleased == <>released

\* "An invalid action is still an agent action": no step of the trace that was
\* answered is missing from the denominator of the progress.
InvalidActionsCounted ==
    Cardinality({i \in 1..Len(salt_steps) : salt_steps[i].observation = SeenKey}) <= action_count

\* "Spans are half-open offsets into the final response buffer": no span of
\* the output ends beyond it.
SpansWithinOutput ==
    state = "done" => \A i \in 1..Len(salt_steps) : salt_steps[i].end <= ResponseLength

=============================================================================
