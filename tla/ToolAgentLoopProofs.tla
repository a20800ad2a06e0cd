------------------------- MODULE ToolAgentLoopProofs -------------------------
(***************************************************************************)
(* Machine-checked proofs about ToolAgentLoop, for every buffer length,    *)
(* every turn and call limit, every set of message lengths and every set   *)
(* of observations.                                                        *)
(***************************************************************************)
EXTENDS ToolAgentLoopInv, FiniteSetTheorems, TLAPS

(***************************************************************************)
(* Lemmas about the operators.                                             *)
(***************************************************************************)

\* Generated tokens are appended as ones, message tokens as zeros, and what
\* is in the buffer stays.
LEMMA Appended ==
  ASSUME NEW m \in Seq({0, 1}), NEW n \in Nat, NEW x \in {0, 1},
         NEW t, t = [i \in 1..n |-> x]
  PROVE  /\ m \o t \in Seq({0, 1})
         /\ Len(m \o t) = Len(m) + n
         /\ \A p \in 1..Len(m) : (m \o t)[p] = m[p]
         /\ \A p \in Len(m) + 1 .. Len(m) + n : (m \o t)[p] = x
<1>1. t \in Seq({0, 1}) /\ Len(t) = n
  OBVIOUS
<1>2. QED
  BY <1>1

\* The budget of a generation keeps the buffer within what the prompt leaves.
LEMMA Budget ==
  ASSUME NEW n \in 1..MaxTokens, Len(response_mask) \in Nat
  PROVE  /\ n \in Nat \ {0}
         /\ Len(response_mask) + n <= ResponseLength + PromptSlack
  BY ConstantsAssumption DEF MaxTokens

\* A closed step is a well-typed step.
LEMMA FinalizeType ==
  ASSUME salt_steps \in Seq(SaltSteps), NEW s \in SaltSteps,
         NEW o \in {NoKey, EmptyKey, SeenKey}, NEW m \in BOOLEAN,
         FinalizeSaltStep(s, o, m)
  PROVE  salt_steps' \in Seq(SaltSteps) /\ pending_salt_step' = <<>>
<1> DEFINE c == [s EXCEPT !.observation = o,
                          !.mergeable = /\ @
                                        /\ m
                                        /\ s.action # "incomplete"
                                        /\ o # NoKey]
<1>1. c \in SaltSteps
  BY DEF SaltSteps
<1>2. QED
  BY <1>1 DEF FinalizeSaltStep

\* What a generation appends to the buffer, and the step it opens.
LEMMA GenerateFacts ==
  ASSUME TypeOK, NEW n \in 1..ResponseLength, Generate(n)
  PROVE  /\ state = "generating"
         /\ n \in Nat \ {0}
         /\ Generated(n) \in SaltSteps
         /\ response_mask' = response_mask \o Ones(n)
         /\ response_mask' \in Seq({0, 1})
         /\ Len(response_mask') = Len(response_mask) + n
         /\ Len(response_mask') <= ResponseLength + PromptSlack
<1>1. n \in 1..MaxTokens /\ response_mask \in Seq({0, 1}) /\ Len(response_mask) \in Nat
  BY DEF Generate, TypeOK
<1>2. n \in Nat \ {0}
  BY <1>1, Budget
<1>3. Len(response_mask) + n \in Nat
  BY <1>1, <1>2
<1>4. QED
  BY <1>1, <1>2, <1>3, Budget, Appended DEF Generate, Generated, Step, SaltSteps, NoKey, Ones

\* What an appended message does to the buffer.
LEMMA MessageFacts ==
  ASSUME TypeOK, NEW n \in MessageLengths, AppendMessage(n)
  PROVE  /\ n \in Nat \ {0}
         /\ response_mask' = response_mask \o Zeros(n)
         /\ response_mask' \in Seq({0, 1})
         /\ Len(response_mask') = Len(response_mask) + n
  BY ConstantsAssumption, Appended DEF AppendMessage, Zeros, TypeOK

\* A short enough buffer fits the type, whatever the messages.
LEMMA BufferFits ==
  ASSUME NEW l \in Nat, l <= ResponseLength + PromptSlack
  PROVE  \E m \in MessageLengths : l <= ResponseLength + PromptSlack + m
<1>1. PICK m \in MessageLengths : m \in Nat
  BY ConstantsAssumption
<1>2. QED
  BY <1>1, ConstantsAssumption

\* An element of a list has the type of the list's elements.
LEMMA ElementType ==
  ASSUME NEW S, NEW q \in Seq(S), NEW i \in 1..Len(q)
  PROVE  q[i] \in S
  OBVIOUS

\* While a handler runs, exactly one step is pending.
LEMMA PendingFacts ==
  ASSUME TypeOK, state \in Acting
  PROVE  Len(pending_salt_step) = 1 /\ Head(pending_salt_step) \in SaltSteps
<1>1. pending_salt_step \in Seq(SaltSteps) /\ Len(pending_salt_step) = 1
  BY DEF TypeOK, Acting
<1>2. Head(pending_salt_step) = pending_salt_step[1]
  BY <1>1
<1>3. 1 \in 1..Len(pending_salt_step)
  BY <1>1
<1>4. pending_salt_step[1] \in SaltSteps
  BY <1>1, <1>3, ElementType
<1>5. QED
  BY <1>1, <1>2, <1>4

\* Nothing is a well-typed trace and a well-typed list of calls.
LEMMA EmptyType ==
  \A q : q = <<>> => /\ q \in Seq(SaltSteps)
                     /\ q \in Seq(Requests \cup Responses)
                     /\ Len(q) = 0
  OBVIOUS

\* Closing the step of a generation whose calls have been gathered.
LEMMA ProcessFacts ==
  ASSUME TypeOK, ProcessResponses
  PROVE  /\ state = "processing_tools"
         /\ salt_steps' \in Seq(SaltSteps)
         /\ pending_salt_step' = <<>>
         /\ tool_calls' = <<>>
         /\ UNCHANGED <<assistant_turns, forbidden, reward_score, episode, env, released>>
<1>1. state = "processing_tools" /\ FinalizeSaltStep(Head(pending_salt_step), SeenKey, TRUE)
  BY DEF ProcessResponses
<1>2. Head(pending_salt_step) \in SaltSteps
  BY <1>1, PendingFacts DEF Acting
<1>3. salt_steps' \in Seq(SaltSteps) /\ pending_salt_step' = <<>>
  BY <1>1, <1>2, FinalizeType DEF TypeOK
<1>4. QED
  BY <1>1, <1>3 DEF ProcessResponses

\* Closing the step of a message the user has answered.
LEMMA AnswerFacts ==
  ASSUME TypeOK, EntryInv, NEW n \in MessageLengths,
         NEW o \in {NoKey, EmptyKey, SeenKey}, NEW m \in BOOLEAN, Answer(n, o, m)
  PROVE  /\ state = "interacting"
         /\ salt_steps' \in Seq(SaltSteps)
         /\ pending_salt_step' = <<>>
         /\ user_turns' \in Nat
         /\ forbidden' \in BOOLEAN
         /\ response_mask' \in Seq({0, 1})
         /\ \E l \in MessageLengths :
               Len(response_mask') <= ResponseLength + PromptSlack + l
         /\ UNCHANGED <<assistant_turns, tool_calls, reward_score, released>>
<1>1. state = "interacting" /\ FinalizeSaltStep(Head(pending_salt_step), o, m)
  BY DEF Answer
<1>2. Head(pending_salt_step) \in SaltSteps
  BY <1>1, PendingFacts DEF Acting
<1>3. salt_steps' \in Seq(SaltSteps) /\ pending_salt_step' = <<>>
  BY <1>1, <1>2, FinalizeType DEF TypeOK
<1>4. /\ response_mask' \in Seq({0, 1})
      /\ Len(response_mask') = Len(response_mask) + n
      /\ n \in Nat \ {0}
  BY MessageFacts DEF Answer
<1>5. Len(response_mask) < ResponseLength /\ Len(response_mask) \in Nat
  BY <1>1 DEF EntryInv, Acting, TypeOK
<1>6. Len(response_mask') <= ResponseLength + PromptSlack + n
  BY <1>4, <1>5, ConstantsAssumption
<1>7. user_turns' = user_turns + 1 /\ user_turns \in Nat
  BY DEF Answer, TypeOK
<1>8. forbidden' \in BOOLEAN
  BY DEF Answer
<1>9. QED
  BY <1>1, <1>3, <1>4, <1>6, <1>7, <1>8 DEF Answer

\* An observation is recorded with well-typed counters.
LEMMA RecordType ==
  ASSUME TypeOK, NEW o \in Observations, RecordObservation(o)
  PROVE  visited' \subseteq Observations /\ action_count' \in Nat /\ novel_count' \in Nat
  BY DEF TypeOK, RecordObservation

\* A step of the environment: only a live one observes, and no reward is paid
\* twice.
LEMMA EnvType ==
  ASSUME TypeOK, EndInv, NEW d \in BOOLEAN, NEW r \in {0, 1}, EnvSteps(d, r)
  PROVE  /\ env_done' \in BOOLEAN /\ env_actions' \in Nat /\ env_lost' \in BOOLEAN
         /\ total_reward + r \in {0, 1}
<1>1. total_reward = 0
  BY DEF EnvSteps, EndInv, TypeOK
<1>2. QED
  BY <1>1 DEF EnvSteps, TypeOK

\* A step that raises: an end it brings about is lost, one that was there
\* before stays as it was.
LEMMA RaiseFacts ==
  ASSUME TypeOK, EndInv, EnvRaises
  PROVE  /\ env_done' \in BOOLEAN /\ env_actions' \in Nat /\ env_lost' \in BOOLEAN
         /\ env_done => env_done' /\ env_lost' = env_lost
         /\ env_lost' => env_done'
         /\ env_done' => env_done \/ env_lost'
<1>1. env_done \in BOOLEAN /\ env_actions \in Nat /\ env_lost \in BOOLEAN /\ (env_lost => env_done)
  BY DEF TypeOK, EndInv
<1>2. env_actions' \in Nat
  BY <1>1 DEF EnvRaises
<1>3. CASE env_done' = env_done
  BY <1>1, <1>2, <1>3 DEF EnvRaises
<1>4. CASE env_done' # env_done
  BY <1>1, <1>2, <1>4 DEF EnvRaises
<1>5. QED
  BY <1>3, <1>4

(***************************************************************************)
(* Type correctness of a step.                                             *)
(***************************************************************************)
LEMMA TypeStep ==
  ASSUME LoopInv, [Next]_vars
  PROVE  TypeOK'
<1> USE DEF LoopInv
<1>1. CASE UNCHANGED vars
  BY <1>1 DEF vars, loop, parsed, episode, progress, env, TypeOK
<1>2. CASE StartInteraction
  BY <1>2, ConstantsAssumption DEF StartInteraction, loop, parsed, env, TypeOK
<1>3. CASE PreparePrompt \/ GenerateRefused
  BY <1>3 DEF PreparePrompt, GenerateRefused, loop, parsed, episode, progress, env, TypeOK
<1>4. ASSUME NEW n \in 1..ResponseLength, GenerateLast(n) PROVE TypeOK'
  <2>1. Generate(n)
    BY <1>4 DEF GenerateLast
  <2>2. salt_steps' \in Seq(SaltSteps) /\ pending_salt_step' = <<>>
    BY <1>4, <2>1, GenerateFacts, FinalizeType DEF GenerateLast, TypeOK
  <2>3. /\ response_mask' \in Seq({0, 1})
        /\ \E m \in MessageLengths : Len(response_mask') <= ResponseLength + PromptSlack + m
    BY <2>1, GenerateFacts, BufferFits
  <2>4. QED
    BY <1>4, <2>1, <2>2, <2>3
       DEF GenerateLast, Generate, parsed, episode, progress, env, TypeOK
<1>5. ASSUME NEW n \in 1..ResponseLength, NEW calls \in Selections, GenerateToolCalls(n, calls)
      PROVE  TypeOK'
  <2>1. Generate(n)
    BY <1>5 DEF GenerateToolCalls
  <2>2. /\ response_mask' \in Seq({0, 1})
        /\ \E m \in MessageLengths : Len(response_mask') <= ResponseLength + PromptSlack + m
    BY <2>1, GenerateFacts, BufferFits
  <2>3. [Generated(n) EXCEPT !.action = "tool", !.mergeable = TRUE] \in SaltSteps
    BY <2>1, GenerateFacts DEF SaltSteps
  <2>4. pending_salt_step' \in Seq(SaltSteps) /\ Len(pending_salt_step') = 1
    BY <1>5, <2>3 DEF GenerateToolCalls
  <2>5. tool_calls' \in Seq(Requests \cup Responses)
    BY <1>5 DEF GenerateToolCalls, Selections
  <2>6. QED
    BY <1>5, <2>1, <2>2, <2>4, <2>5
       DEF GenerateToolCalls, Generate, episode, progress, env, TypeOK
<1>6. ASSUME NEW n \in 1..ResponseLength, NEW tainted \in BOOLEAN, GenerateMessage(n, tainted)
      PROVE  TypeOK'
  <2>1. Generate(n)
    BY <1>6 DEF GenerateMessage
  <2>2. /\ response_mask' \in Seq({0, 1})
        /\ \E m \in MessageLengths : Len(response_mask') <= ResponseLength + PromptSlack + m
    BY <2>1, GenerateFacts, BufferFits
  <2>3. [Generated(n) EXCEPT !.action = "respond", !.mergeable = TRUE] \in SaltSteps
    BY <2>1, GenerateFacts DEF SaltSteps
  <2>4. pending_salt_step' \in Seq(SaltSteps) /\ Len(pending_salt_step') = 1
    BY <1>6, <2>3 DEF GenerateMessage
  <2>5. QED
    BY <1>6, <2>1, <2>2, <2>4 DEF GenerateMessage, Generate, episode, progress, env, TypeOK
<1>7. ASSUME NEW i \in DOMAIN tool_calls, RejectCall(i) PROVE TypeOK'
  BY <1>7 DEF RejectCall, loop, episode, progress, env, Responses, TypeOK
<1>8. ASSUME NEW i \in DOMAIN tool_calls, ToolRaises(i) PROVE TypeOK'
  <2>1. visited' \subseteq Observations /\ action_count' \in Nat /\ novel_count' \in Nat
    BY <1>8, RecordType, ConstantsAssumption DEF ToolRaises, ToolError
  <2>2. env_done' \in BOOLEAN /\ env_actions' \in Nat /\ env_lost' \in BOOLEAN
    BY <1>8, RaiseFacts DEF ToolRaises
  <2>3. QED
    BY <1>8, <2>1, <2>2 DEF ToolRaises, ToolError, loop, Responses, TypeOK
<1>9. ASSUME NEW i \in DOMAIN tool_calls, NEW o \in Observations, NEW d \in BOOLEAN,
             NEW r \in {0, 1}, ToolObserves(i, o, d, r)
      PROVE  TypeOK'
  <2>1. visited' \subseteq Observations /\ action_count' \in Nat /\ novel_count' \in Nat
    BY <1>9, RecordType DEF ToolObserves
  <2>2. /\ env_done' \in BOOLEAN /\ env_actions' \in Nat /\ env_lost' \in BOOLEAN
        /\ total_reward' \in {0, 1}
    BY <1>9, EnvType DEF ToolObserves
  <2>3. tool_calls' \in Seq(Requests \cup Responses)
    BY <1>9 DEF ToolObserves, Responses, TypeOK
  <2>4. QED
    BY <1>9, <2>1, <2>2, <2>3 DEF ToolObserves, loop, TypeOK
<1>10. CASE StopAfterTools
  BY <1>10, ProcessFacts, EmptyType DEF StopAfterTools, episode, progress, env, TypeOK
<1>11. ASSUME NEW n \in MessageLengths, DropToolMessages(n) PROVE TypeOK'
  BY <1>11, ProcessFacts, EmptyType DEF DropToolMessages, episode, progress, env, TypeOK
<1>12. ASSUME NEW n \in MessageLengths, AnswerTools(n) PROVE TypeOK'
  <2>1. response_mask' \in Seq({0, 1}) /\ Len(response_mask') = Len(response_mask) + n
    BY <1>12, MessageFacts DEF AnswerTools
  <2>2. Len(response_mask') \in Nat /\ Len(response_mask') <= ResponseLength + PromptSlack
    BY <1>12, <2>1, ConstantsAssumption DEF AnswerTools
  <2>3. \E m \in MessageLengths : Len(response_mask') <= ResponseLength + PromptSlack + m
    BY <2>2, BufferFits
  <2>4. state' = "generating" /\ user_turns' \in Nat /\ ProcessResponses
    BY <1>12 DEF AnswerTools, TypeOK
  <2>5. QED
    BY <2>1, <2>3, <2>4, ProcessFacts, EmptyType DEF episode, progress, env, TypeOK
<1>13. ASSUME NEW n \in MessageLengths, Contaminate(n) PROVE TypeOK'
  <2>1. Answer(n, EmptyKey, FALSE)
    BY <1>13 DEF Contaminate
  <2>2. QED
    BY <1>13, <2>1, AnswerFacts, EmptyType DEF Contaminate, progress, env, TypeOK
<1>14. ASSUME NEW n \in MessageLengths, RespondRaises(n) PROVE TypeOK'
  <2>1. Answer(n, EmptyKey, FALSE)
    BY <1>14 DEF RespondRaises
  <2>2. QED
    <3>1. env_done' \in BOOLEAN /\ env_actions' \in Nat /\ env_lost' \in BOOLEAN
      BY <1>14, RaiseFacts DEF RespondRaises
    <3>2. state' = "terminated" /\ UNCHANGED episode
      BY <1>14 DEF RespondRaises
    <3>3. QED
      BY <2>1, <3>1, <3>2, AnswerFacts, EmptyType DEF episode, progress, TypeOK
<1>15. ASSUME NEW n \in MessageLengths, NEW o \in Observations, NEW d \in BOOLEAN,
              NEW r \in {0, 1}, Respond(n, o, d, r)
       PROVE  TypeOK'
  <2>1. Answer(n, SeenKey, TRUE)
    BY <1>15 DEF Respond
  <2>2. visited' \subseteq Observations /\ action_count' \in Nat /\ novel_count' \in Nat
    BY <1>15, RecordType DEF Respond
  <2>3. /\ env_done' \in BOOLEAN /\ env_actions' \in Nat /\ env_lost' \in BOOLEAN
        /\ total_reward' \in {0, 1}
    BY <1>15, EnvType DEF Respond
  <2>4. state' \in {"terminated", "generating"}
    BY <1>15 DEF Respond
  <2>5. QED
    <3>1. num_user_turns' \in Nat /\ UNCHANGED <<num_tool_calls, contaminated>>
      BY <1>15 DEF Respond, TypeOK
    <3>2. QED
      BY <2>1, <2>2, <2>3, <2>4, <3>1, AnswerFacts, EmptyType DEF TypeOK
<1>16. CASE CalculateScore
  <2>1. state = "terminated" /\ pending_salt_step = <<>>
    BY <1>16 DEF CalculateScore, TypeOK
  <2>2. UNCHANGED <<salt_steps, pending_salt_step>>
    BY <1>16, <2>1 DEF CalculateScore, SettleTrace
  <2>3. QED
    BY <1>16, <2>1, <2>2 DEF CalculateScore, parsed, episode, progress, env, TypeOK
<1>17. CASE FinalizeInteraction
  <2>1. env_done' \in BOOLEAN /\ env_actions' \in Nat /\ env_lost' \in BOOLEAN
    <3>1. CASE UNCHANGED env
      BY <3>1 DEF env, TypeOK
    <3>2. CASE EnvRaises
      BY <3>2, RaiseFacts
    <3>3. CASE \E done \in BOOLEAN : EnvSteps(done, 0)
      BY <3>3 DEF EnvSteps, TypeOK
    <3>4. QED
      BY <1>17, <3>1, <3>2, <3>3 DEF FinalizeInteraction
  <2>2. QED
    BY <1>17, <2>1 DEF FinalizeInteraction, loop, parsed, episode, progress, TypeOK
<1>18. CASE Finished
  BY <1>1, <1>18 DEF Finished, vars
<1>19. QED
  BY <1>1, <1>2, <1>3, <1>4, <1>5, <1>6, <1>7, <1>8, <1>9, <1>10, <1>11, <1>12, <1>13,
     <1>14, <1>15, <1>16, <1>17, <1>18 DEF Next

(***************************************************************************)
(* Entering a handler.                                                     *)
(***************************************************************************)
LEMMA EntryStep ==
  ASSUME LoopInv, [Next]_vars
  PROVE  EntryInv'
<1> USE DEF LoopInv
<1> USE DEF EntryInv, Acting, Over
<1>1. CASE UNCHANGED vars
  BY <1>1 DEF vars, loop, parsed
<1>2. CASE StartInteraction \/ PreparePrompt \/ GenerateRefused
  BY <1>2 DEF StartInteraction, PreparePrompt, GenerateRefused, loop, parsed
<1>3. ASSUME NEW n \in 1..ResponseLength, GenerateLast(n) PROVE EntryInv'
  BY <1>3 DEF GenerateLast, Generate, parsed
<1>4. ASSUME NEW n \in 1..ResponseLength, NEW calls \in Selections, GenerateToolCalls(n, calls)
      PROVE  EntryInv'
  <2>1. Generate(n)
    BY <1>4 DEF GenerateToolCalls
  <2>2. Len(response_mask') = Len(response_mask) + n /\ Len(response_mask') \in Nat
    BY <2>1, GenerateFacts DEF TypeOK
  <2>3. Len(response_mask') < ResponseLength
    BY <1>4, <2>2, ConstantsAssumption DEF GenerateToolCalls, Exhausted
  <2>4. PICK m \in 0..MaxParallelCalls : calls \in [1..m -> Requests]
    BY DEF Selections
  <2>5. Len(calls) <= MaxParallelCalls
    BY <2>4, ConstantsAssumption
  <2>6. QED
    BY <1>4, <2>1, <2>3, <2>5 DEF GenerateToolCalls, Generate
<1>5. ASSUME NEW n \in 1..ResponseLength, NEW tainted \in BOOLEAN, GenerateMessage(n, tainted)
      PROVE  EntryInv'
  <2>1. Generate(n)
    BY <1>5 DEF GenerateMessage
  <2>2. Len(response_mask') = Len(response_mask) + n /\ Len(response_mask') \in Nat
    BY <2>1, GenerateFacts DEF TypeOK
  <2>3. Len(response_mask') < ResponseLength
    BY <1>5, <2>2, ConstantsAssumption DEF GenerateMessage, Exhausted
  <2>4. QED
    BY <1>5, <2>1, <2>3 DEF GenerateMessage, Generate
<1>6. ASSUME NEW i \in DOMAIN tool_calls,
             \/ RejectCall(i) \/ ToolRaises(i)
             \/ \E o \in Observations, d \in BOOLEAN, r \in {0, 1} : ToolObserves(i, o, d, r)
      PROVE  EntryInv'
  <2>1. state' = state /\ UNCHANGED <<loop, reward_score>>
    BY <1>6 DEF RejectCall, ToolRaises, ToolObserves
  <2>2. \E x : tool_calls' = [tool_calls EXCEPT ![i] = x]
    BY <1>6 DEF RejectCall, ToolRaises, ToolObserves
  <2>3. Len(tool_calls') = Len(tool_calls)
    BY <2>2 DEF TypeOK
  <2>4. QED
    BY <2>1, <2>3 DEF loop
<1>7. ASSUME NEW n \in MessageLengths,
             StopAfterTools \/ DropToolMessages(n) \/ AnswerTools(n)
      PROVE  EntryInv'
  <2>1. ProcessResponses /\ state' \in {"terminated", "generating"}
    BY <1>7 DEF StopAfterTools, DropToolMessages, AnswerTools
  <2>2. state = "processing_tools" /\ Len(tool_calls') = 0 /\ reward_score' = reward_score
    BY <2>1, ProcessFacts, EmptyType
  <2>3. QED
    BY <2>1, <2>2, ConstantsAssumption
<1>8. ASSUME NEW n \in MessageLengths,
             \/ Contaminate(n) \/ RespondRaises(n)
             \/ \E o \in Observations, d \in BOOLEAN, r \in {0, 1} : Respond(n, o, d, r)
      PROVE  EntryInv'
  <2>1. state = "interacting" /\ state' \in {"terminated", "generating"}
    BY <1>8 DEF Contaminate, RespondRaises, Respond, Answer
  <2>2. UNCHANGED <<tool_calls, reward_score>>
    BY <1>8 DEF Contaminate, RespondRaises, Respond, Answer
  <2>3. QED
    BY <2>1, <2>2
<1>9. CASE CalculateScore \/ FinalizeInteraction \/ Finished
  BY <1>1, <1>9 DEF CalculateScore, FinalizeInteraction, Finished, vars, loop, parsed
<1>10. StopAfterTools => EntryInv'
  <2>1. \E n \in MessageLengths : TRUE
    BY ConstantsAssumption
  <2>2. QED
    BY <1>7, <2>1
<1>11. QED
  BY <1>1, <1>2, <1>3, <1>4, <1>5, <1>6, <1>7, <1>8, <1>9, <1>10 DEF Next

(***************************************************************************)
(* The end of the simulation and the score.                                *)
(***************************************************************************)
LEMMA EndStep ==
  ASSUME LoopInv, [Next]_vars
  PROVE  EndInv'
<1> USE DEF LoopInv
<1> USE DEF EndInv, Over
<1>1. CASE UNCHANGED vars
  BY <1>1 DEF vars, parsed, episode, env
<1>2. CASE StartInteraction \/ PreparePrompt \/ GenerateRefused
  BY <1>2 DEF StartInteraction, PreparePrompt, GenerateRefused, parsed, episode, env
<1>3. ASSUME NEW n \in 1..ResponseLength,
             \/ GenerateLast(n)
             \/ \E calls \in Selections : GenerateToolCalls(n, calls)
             \/ \E tainted \in BOOLEAN : GenerateMessage(n, tainted)
      PROVE  EndInv'
  <2>1. Generate(n)
    BY <1>3 DEF GenerateLast, GenerateToolCalls, GenerateMessage
  <2>2. state = "generating" /\ UNCHANGED <<reward_score, episode, env>>
    BY <2>1 DEF Generate
  <2>3. (env_done => env_lost) /\ ~contaminated
    BY <2>2
  <2>4. QED
    BY <2>2, <2>3 DEF episode, env
<1>4. ASSUME NEW i \in DOMAIN tool_calls, RejectCall(i) PROVE EndInv'
  BY <1>4 DEF RejectCall, episode, env, TypeOK
<1>5. ASSUME NEW i \in DOMAIN tool_calls, ToolRaises(i) PROVE EndInv'
  <2>1. /\ state = "processing_tools" /\ state' = state
        /\ UNCHANGED <<reward_score, total_reward, contaminated>>
    BY <1>5 DEF ToolRaises
  <2>2. \A j \in DOMAIN tool_calls :
           tool_calls[j] = "ended" => j \in DOMAIN tool_calls' /\ tool_calls'[j] = "ended"
    BY <1>5 DEF ToolRaises, TypeOK
  <2>3. /\ env_done => env_done' /\ env_lost' = env_lost
        /\ env_lost' => env_done'
        /\ env_done' => env_done \/ env_lost'
    BY <1>5, RaiseFacts DEF ToolRaises
  <2>4. QED
    BY <2>1, <2>2, <2>3
<1>6. ASSUME NEW i \in DOMAIN tool_calls, NEW o \in Observations, NEW d \in BOOLEAN,
             NEW r \in {0, 1}, ToolObserves(i, o, d, r)
      PROVE  EndInv'
  <2>1. /\ ~env_done /\ env_done' = d /\ (r = 1 => d) /\ env_lost' = env_lost
        /\ state = "processing_tools" /\ state' = state
        /\ total_reward' = total_reward + r
        /\ reward_score' = reward_score /\ contaminated' = contaminated
    BY <1>6 DEF ToolObserves, EnvSteps
  <2>2. total_reward = 0 /\ reward_score # 1 /\ ~contaminated /\ ~env_lost
    BY <2>1 DEF TypeOK
  <2>3. d => tool_calls'[i] = "ended" /\ i \in DOMAIN tool_calls'
    BY <1>6 DEF ToolObserves, TypeOK
  <2>4. QED
    BY <2>1, <2>2, <2>3
<1>7. ASSUME NEW n \in MessageLengths, DropToolMessages(n) \/ AnswerTools(n)
      PROVE  EndInv'
  <2>1. /\ ProcessResponses /\ state' \in {"terminated", "generating"}
        /\ \A i \in DOMAIN tool_calls : tool_calls[i] # "ended"
    BY <1>7 DEF DropToolMessages, AnswerTools, TerminateSequence
  <2>2. state = "processing_tools" /\ UNCHANGED <<reward_score, episode, env>>
    BY <2>1 DEF ProcessResponses
  <2>3. (env_done => env_lost) /\ ~contaminated
    BY <2>1, <2>2
  <2>4. QED
    BY <2>2, <2>3 DEF episode, env
<1>8. CASE StopAfterTools
  <2>1. state' = "terminated" /\ UNCHANGED <<reward_score, episode, env>>
    BY <1>8 DEF StopAfterTools, ProcessResponses
  <2>2. QED
    BY <2>1 DEF episode, env
<1>9. ASSUME NEW n \in MessageLengths, Contaminate(n) PROVE EndInv'
  <2>1. /\ state = "interacting" /\ state' = "terminated"
        /\ UNCHANGED <<reward_score, total_reward, env>>
    BY <1>9 DEF Contaminate, Answer
  <2>2. total_reward = 0
    BY <2>1 DEF TypeOK
  <2>3. QED
    BY <2>1, <2>2 DEF env
<1>10. ASSUME NEW n \in MessageLengths, RespondRaises(n) PROVE EndInv'
  <2>1. /\ state = "interacting" /\ state' = "terminated"
        /\ UNCHANGED <<reward_score, total_reward, contaminated>>
    BY <1>10 DEF RespondRaises, Answer, episode
  <2>2. /\ env_done => env_done' /\ env_lost' = env_lost
        /\ env_lost' => env_done'
    BY <1>10, RaiseFacts DEF RespondRaises
  <2>3. QED
    BY <2>1, <2>2
<1>11. ASSUME NEW n \in MessageLengths, NEW o \in Observations, NEW d \in BOOLEAN,
              NEW r \in {0, 1}, Respond(n, o, d, r)
       PROVE  EndInv'
  <2>1. /\ state = "interacting" /\ ~env_done /\ env_done' = d /\ (r = 1 => d)
        /\ env_lost' = env_lost
        /\ total_reward' = total_reward + r
        /\ reward_score' = reward_score /\ contaminated' = contaminated
    BY <1>11 DEF Respond, Answer, EnvSteps
  <2>2. d => state' = "terminated"
    BY <1>11 DEF Respond, InteractionOver
  <2>3. total_reward = 0 /\ reward_score # 1 /\ ~contaminated /\ ~env_lost
    BY <2>1 DEF TypeOK
  <2>4. QED
    BY <2>1, <2>2, <2>3
<1>12. CASE CalculateScore
  <2>1. /\ state' = "scored" /\ UNCHANGED <<episode, env>>
        /\ reward_score' = 1 => total_reward >= 1
    BY <1>12 DEF CalculateScore, NoScore
  <2>2. QED
    BY <2>1 DEF episode, env, TypeOK
<1>13. CASE FinalizeInteraction
  <2>1. /\ state' = "done" /\ UNCHANGED <<reward_score, episode>>
    BY <1>13 DEF FinalizeInteraction
  <2>2. /\ env_done => env_done' /\ env_lost' = env_lost
        /\ env_lost' => env_done'
    <3>1. CASE UNCHANGED env
      BY <3>1 DEF env
    <3>2. CASE EnvRaises
      BY <3>2, RaiseFacts
    <3>3. CASE \E done \in BOOLEAN : EnvSteps(done, 0)
      BY <3>3 DEF EnvSteps
    <3>4. QED
      BY <1>13, <3>1, <3>2, <3>3 DEF FinalizeInteraction
  <2>3. QED
    BY <2>1, <2>2 DEF episode
<1>14. CASE Finished
  BY <1>1, <1>14 DEF Finished, vars
<1>15. QED
  BY <1>1, <1>2, <1>3, <1>4, <1>5, <1>6, <1>7, <1>8, <1>9, <1>10, <1>11, <1>12, <1>13,
     <1>14 DEF Next

(***************************************************************************)
(* Progress.                                                               *)
(***************************************************************************)

\* One more action is recorded: the coverage grows with it or stays behind.
LEMMA RecordCoverage ==
  ASSUME TypeOK, CoverageInv, state # "start", NEW o \in Observations, RecordObservation(o)
  PROVE  /\ IsFiniteSet(visited')
         /\ action_count' = num_tool_calls + num_user_turns + 1
         /\ novel_count' = Cardinality(visited') - 1
         /\ novel_count' <= action_count'
<1>1. /\ IsFiniteSet(visited)
      /\ action_count = num_tool_calls + num_user_turns
      /\ novel_count = Cardinality(visited) - 1
      /\ novel_count <= action_count
  BY DEF CoverageInv, ProgressIsCoverage
<1>2. /\ visited' = visited \cup {o}
      /\ action_count' = action_count + 1
      /\ novel_count' = IF o \in visited THEN novel_count ELSE novel_count + 1
  BY DEF RecordObservation
<1>3. /\ IsFiniteSet(visited')
      /\ Cardinality(visited') = IF o \in visited THEN Cardinality(visited)
                                                  ELSE Cardinality(visited) + 1
  BY <1>1, <1>2, FS_AddElement
<1>4. novel_count \in Nat /\ action_count \in Nat /\ Cardinality(visited) \in Nat
  BY <1>1, FS_CardinalityType DEF TypeOK
<1>5. QED
  BY <1>1, <1>2, <1>3, <1>4

LEMMA CoverageStep ==
  ASSUME LoopInv, [Next]_vars
  PROVE  CoverageInv'
<1> USE DEF LoopInv
<1>1. ASSUME UNCHANGED <<num_tool_calls, num_user_turns, progress>>,
             state # "start", state' # "start"
      PROVE  CoverageInv'
  BY <1>1 DEF CoverageInv, ProgressIsCoverage, progress
<1>2. CASE UNCHANGED vars
  BY <1>2 DEF vars, episode, progress, CoverageInv, ProgressIsCoverage
<1>3. CASE StartInteraction
  <2>1. /\ state = "start" /\ state' = "pending" /\ visited' = {FirstObservation}
        /\ UNCHANGED <<num_tool_calls, num_user_turns, action_count, novel_count>>
    BY <1>3 DEF StartInteraction
  <2>2. IsFiniteSet(visited') /\ Cardinality(visited') = 1
    BY <2>1, FS_Singleton
  <2>3. QED
    BY <2>1, <2>2 DEF CoverageInv, ProgressIsCoverage
<1>4. CASE PreparePrompt \/ GenerateRefused
  BY <1>1, <1>4 DEF PreparePrompt, GenerateRefused, episode
<1>5. ASSUME NEW n \in 1..ResponseLength,
             \/ GenerateLast(n)
             \/ \E calls \in Selections : GenerateToolCalls(n, calls)
             \/ \E tainted \in BOOLEAN : GenerateMessage(n, tainted)
      PROVE  CoverageInv'
  BY <1>1, <1>5 DEF GenerateLast, GenerateToolCalls, GenerateMessage, Generate, episode
<1>6. ASSUME NEW i \in DOMAIN tool_calls, RejectCall(i) PROVE CoverageInv'
  BY <1>1, <1>6 DEF RejectCall, episode
<1>7. ASSUME NEW i \in DOMAIN tool_calls,
             \/ ToolRaises(i)
             \/ \E o \in Observations, d \in BOOLEAN, r \in {0, 1} : ToolObserves(i, o, d, r)
      PROVE  CoverageInv'
  <2>1. /\ state = "processing_tools" /\ state' = state
        /\ num_tool_calls' = num_tool_calls + 1 /\ num_user_turns' = num_user_turns
    BY <1>7 DEF ToolRaises, ToolError, ToolObserves
  <2>2. \E o \in Observations : RecordObservation(o)
    BY <1>7, ConstantsAssumption DEF ToolRaises, ToolError, ToolObserves
  <2>3. num_tool_calls \in Nat /\ num_user_turns \in Nat
    BY DEF TypeOK
  <2>4. QED
    BY <2>1, <2>2, <2>3, RecordCoverage DEF CoverageInv, ProgressIsCoverage
<1>8. ASSUME NEW n \in MessageLengths,
             StopAfterTools \/ DropToolMessages(n) \/ AnswerTools(n)
      PROVE  CoverageInv'
  <2>1. ProcessResponses /\ state' # "start"
    BY <1>8 DEF StopAfterTools, DropToolMessages, AnswerTools
  <2>2. QED
    BY <1>1, <2>1 DEF ProcessResponses, episode
<1>9. CASE StopAfterTools
  BY <1>8, <1>9, ConstantsAssumption
<1>10. ASSUME NEW n \in MessageLengths, Contaminate(n) \/ RespondRaises(n) PROVE CoverageInv'
  BY <1>1, <1>10 DEF Contaminate, RespondRaises, Answer, episode
<1>11. ASSUME NEW n \in MessageLengths, NEW o \in Observations, NEW d \in BOOLEAN,
              NEW r \in {0, 1}, Respond(n, o, d, r)
       PROVE  CoverageInv'
  <2>1. /\ state = "interacting" /\ state' # "start" /\ RecordObservation(o)
        /\ num_user_turns' = num_user_turns + 1 /\ num_tool_calls' = num_tool_calls
    BY <1>11 DEF Respond, Answer
  <2>2. num_tool_calls \in Nat /\ num_user_turns \in Nat
    BY DEF TypeOK
  <2>3. QED
    BY <2>1, <2>2, RecordCoverage DEF CoverageInv, ProgressIsCoverage
<1>12. CASE CalculateScore \/ FinalizeInteraction
  BY <1>1, <1>12 DEF CalculateScore, FinalizeInteraction, episode
<1>13. CASE Finished
  BY <1>2, <1>13 DEF Finished, vars
<1>14. QED
  BY <1>2, <1>3, <1>4, <1>5, <1>6, <1>7, <1>8, <1>9, <1>10, <1>11, <1>12, <1>13 DEF Next

(***************************************************************************)
(* The trace.                                                              *)
(***************************************************************************)

\* SpansTileGenerations of any trace, buffer and number of generations.
Tiled(T, m, k) ==
    /\ Len(T) = k
    /\ \A i \in 1..Len(T) : T[i].start < T[i].end /\ T[i].end <= Len(m)
    /\ \A i, j \in 1..Len(T) : i < j => T[i].end <= T[j].start
    /\ \A p \in 1..Len(m) :
          m[p] = 1 <=> \E i \in 1..Len(T) : T[i].start < p /\ p <= T[i].end

\* A generation extends the buffer and the trace by the same tokens.
LEMMA TiledByGeneration ==
  ASSUME NEW T \in Seq(SaltSteps), NEW m \in Seq({0, 1}), NEW k \in Nat, NEW n \in Nat \ {0},
         NEW U \in Seq(SaltSteps), NEW w, w = m \o Ones(n),
         Tiled(T, m, k),
         Len(U) = Len(T) + 1,
         \A i \in 1..Len(T) : U[i].start = T[i].start /\ U[i].end = T[i].end,
         U[Len(T) + 1].start = Len(m) /\ U[Len(T) + 1].end = Len(m) + n
  PROVE  Tiled(U, w, k + 1)
<1>1. /\ Len(w) = Len(m) + n
      /\ \A p \in 1..Len(m) : w[p] = m[p]
      /\ \A p \in Len(m) + 1 .. Len(m) + n : w[p] = 1
  BY Appended DEF Ones
<1>2. Len(T) \in Nat /\ Len(m) \in Nat
  OBVIOUS
<1>3. \A i \in 1..Len(U) : i \in 1..Len(T) \/ i = Len(T) + 1
  BY <1>2
<1>4. 1..Len(T) \subseteq 1..Len(U) /\ Len(T) + 1 \in 1..Len(U)
  BY <1>2
<1>5. ASSUME NEW i \in 1..Len(U) PROVE U[i].start \in Nat /\ U[i].end \in Nat
  <2>1. U[i] \in SaltSteps
    BY ElementType
  <2>2. QED
    BY <2>1 DEF SaltSteps
<1>6. Len(U) = k + 1
  BY DEF Tiled
<1>7. \A i \in 1..Len(T) : U[i].start < U[i].end /\ U[i].end <= Len(m)
  BY DEF Tiled
<1>8. \A i \in 1..Len(U) : U[i].start < U[i].end /\ U[i].end <= Len(w)
  BY <1>1, <1>2, <1>5, <1>7
<1>9. \A i, j \in 1..Len(U) : i < j => U[i].end <= U[j].start
  <2> SUFFICES ASSUME NEW i \in 1..Len(U), NEW j \in 1..Len(U), i < j
               PROVE  U[i].end <= U[j].start
    OBVIOUS
  <2>1. i \in 1..Len(T)
    BY <1>2
  <2>2. CASE j = Len(T) + 1
    BY <1>7, <2>1, <2>2
  <2>3. CASE j \in 1..Len(T)
    BY <2>1, <2>3 DEF Tiled
  <2>4. QED
    BY <1>3, <2>2, <2>3
<1>10. ASSUME NEW p \in 1..Len(w)
      PROVE  w[p] = 1 <=> \E i \in 1..Len(U) : U[i].start < p /\ p <= U[i].end
  <2>1. CASE p \in 1..Len(m)
    <3>1. ~ (U[Len(T) + 1].start < p)
      BY <1>2, <2>1
    <3>2. (\E i \in 1..Len(U) : U[i].start < p /\ p <= U[i].end)
            <=> \E i \in 1..Len(T) : T[i].start < p /\ p <= T[i].end
      BY <1>3, <1>4, <3>1
    <3>3. QED
      BY <1>1, <2>1, <3>2 DEF Tiled
  <2>2. CASE p \in Len(m) + 1 .. Len(m) + n
    <3>1. U[Len(T) + 1].start < p /\ p <= U[Len(T) + 1].end
      BY <1>2, <2>2
    <3>2. w[p] = 1
      BY <1>1, <2>2
    <3>3. QED
      BY <1>4, <3>1, <3>2
  <2>3. QED
    BY <1>1, <1>2, <2>1, <2>2
<1>11. QED
  BY <1>6, <1>8, <1>9, <1>10 DEF Tiled

\* A message extends the buffer by tokens no span covers; closing a step
\* keeps its span.
LEMMA TiledByMessage ==
  ASSUME NEW T \in Seq(SaltSteps), NEW m \in Seq({0, 1}), NEW k \in Nat,
         NEW U \in Seq(SaltSteps), NEW w \in Seq({0, 1}), NEW n \in Nat,
         w = m \/ w = m \o Zeros(n),
         Tiled(T, m, k),
         Len(U) = Len(T),
         \A i \in 1..Len(T) : U[i].start = T[i].start /\ U[i].end = T[i].end
  PROVE  Tiled(U, w, k)
<1>1. CASE w = m
  BY <1>1 DEF Tiled
<1>2. CASE w = m \o Zeros(n)
  <2>1. /\ Len(w) = Len(m) + n
        /\ \A p \in 1..Len(m) : w[p] = m[p]
        /\ \A p \in Len(m) + 1 .. Len(m) + n : w[p] = 0
    BY <1>2, Appended DEF Zeros
  <2>2. Len(m) \in Nat
    OBVIOUS
  <2>3. ASSUME NEW i \in 1..Len(U) PROVE U[i].end \in Nat
    <3>1. U[i] \in SaltSteps
      BY ElementType
    <3>2. QED
      BY <3>1 DEF SaltSteps
  <2>4. \A i \in 1..Len(U) : U[i].start < U[i].end /\ U[i].end <= Len(m)
    BY DEF Tiled
  <2>5. \A i \in 1..Len(U) : U[i].end <= Len(w)
    BY <2>1, <2>2, <2>3, <2>4
  <2>6. \A i, j \in 1..Len(U) : i < j => U[i].end <= U[j].start
    BY DEF Tiled
  <2>7. ASSUME NEW p \in 1..Len(w)
        PROVE  w[p] = 1 <=> \E i \in 1..Len(U) : U[i].start < p /\ p <= U[i].end
    <3>1. CASE p \in 1..Len(m)
      BY <2>1, <3>1 DEF Tiled
    <3>2. CASE p \in Len(m) + 1 .. Len(m) + n
      <4>1. \A i \in 1..Len(U) : ~ (p <= U[i].end)
        BY <2>2, <2>3, <2>4, <3>2
      <4>2. w[p] # 1
        BY <2>1, <3>2
      <4>3. QED
        BY <4>1, <4>2
    <3>3. QED
      BY <2>1, <2>2, <3>1, <3>2
  <2>8. QED
    BY <2>4, <2>5, <2>6, <2>7 DEF Tiled
<1>3. QED
  BY <1>1, <1>2

\* The closed steps and then the open one.
LEMMA Concatenated ==
  ASSUME NEW a \in Seq(SaltSteps), NEW b \in Seq(SaltSteps)
  PROVE  /\ a \o b \in Seq(SaltSteps)
         /\ Len(a \o b) = Len(a) + Len(b)
         /\ \A i \in 1..Len(a) : (a \o b)[i] = a[i]
         /\ \A i \in 1..Len(b) : (a \o b)[Len(a) + i] = b[i]
  OBVIOUS

\* Outside the handlers that wait for an answer, the trace is closed.
LEMMA ClosedTrace ==
  ASSUME NEW a \in Seq(SaltSteps), NEW b \in Seq(SaltSteps), Len(b) = 0
  PROVE  a \o b = a
  OBVIOUS

\* A step appended to the closed ones.
LEMMA AppendedStep ==
  ASSUME NEW a \in Seq(SaltSteps), NEW s \in SaltSteps
  PROVE  /\ Append(a, s) \in Seq(SaltSteps)
         /\ Len(Append(a, s)) = Len(a) + 1
         /\ \A i \in 1..Len(a) : Append(a, s)[i] = a[i]
         /\ Append(a, s)[Len(a) + 1] = s
         /\ a \o <<s>> = Append(a, s)
  OBVIOUS

\* What closing a step makes of it, and of the trace.
LEMMA FinalizeFacts ==
  ASSUME salt_steps \in Seq(SaltSteps), NEW s \in SaltSteps,
         NEW o \in {NoKey, EmptyKey, SeenKey}, NEW m \in BOOLEAN,
         FinalizeSaltStep(s, o, m)
  PROVE  \E c \in SaltSteps :
            /\ c.start = s.start /\ c.end = s.end /\ c.observation = o
            /\ c.mergeable = (s.mergeable /\ m /\ s.action # "incomplete" /\ o # NoKey)
            /\ salt_steps' = Append(salt_steps, c)
            /\ Trace' = Append(salt_steps, c)
<1> DEFINE c == [s EXCEPT !.observation = o,
                          !.mergeable = /\ @
                                        /\ m
                                        /\ s.action # "incomplete"
                                        /\ o # NoKey]
<1>1. c \in SaltSteps
  BY DEF SaltSteps
<1>2. /\ c.start = s.start /\ c.end = s.end /\ c.observation = o
      /\ c.mergeable = (s.mergeable /\ m /\ s.action # "incomplete" /\ o # NoKey)
  BY DEF SaltSteps
<1>3. salt_steps' = Append(salt_steps, c) /\ pending_salt_step' = <<>>
  BY DEF FinalizeSaltStep
<1>4. Append(salt_steps, c) \in Seq(SaltSteps)
  BY <1>1
<1>5. Append(salt_steps, c) \o <<>> = Append(salt_steps, c)
  BY <1>4, ClosedTrace, EmptyType
<1>6. Trace' = Append(salt_steps, c)
  BY <1>3, <1>5 DEF Trace
<1> QED
  BY <1>1, <1>2, <1>3, <1>6

\* While the policy generates, the trace is closed and all of it is sound.
LEMMA GeneratingTrace ==
  ASSUME TypeOK, TraceInv, state = "generating"
  PROVE  /\ Trace = salt_steps
         /\ Tiled(salt_steps, response_mask, assistant_turns)
         /\ \A i \in 1..Len(salt_steps) : Sound(salt_steps[i])
<1>1. /\ salt_steps \in Seq(SaltSteps)
      /\ pending_salt_step \in Seq(SaltSteps) /\ Len(pending_salt_step) = 0
  BY DEF TypeOK
<1>2. Trace = salt_steps
  BY <1>1, ClosedTrace DEF Trace
<1>3. QED
  BY <1>2 DEF TraceInv, SpansTileGenerations, Tiled, Over

\* While a handler waits, the trace is the closed steps and the open one.
LEMMA WaitingTrace ==
  ASSUME TypeOK, TraceInv, state \in Acting
  PROVE  LET s == Head(pending_salt_step)
         IN  /\ s \in SaltSteps
             /\ s.mergeable /\ s.action # "incomplete" /\ s.end < ResponseLength
             /\ Tiled(Append(salt_steps, s), response_mask, assistant_turns)
             /\ \A i \in 1..Len(salt_steps) : Sound(salt_steps[i])
<1> DEFINE s == Head(pending_salt_step)
<1>1. salt_steps \in Seq(SaltSteps) /\ pending_salt_step \in Seq(SaltSteps)
  BY DEF TypeOK
<1>2. Len(pending_salt_step) = 1 /\ s \in SaltSteps
  BY PendingFacts
<1>3. s = pending_salt_step[1] /\ pending_salt_step = <<s>>
  BY <1>1, <1>2
<1>4. Trace = Append(salt_steps, s)
  <2>1. Trace = salt_steps \o <<s>>
    BY <1>3 DEF Trace
  <2> HIDE DEF s
  <2>2. QED
    BY <1>1, <1>2, <2>1, AppendedStep
<1>5. s.mergeable /\ s.action # "incomplete" /\ s.end < ResponseLength
  BY <1>2, <1>3 DEF TraceInv
<1>6. Tiled(Append(salt_steps, s), response_mask, assistant_turns)
  BY <1>4 DEF TraceInv, SpansTileGenerations, Tiled
<1>7. \A i \in 1..Len(salt_steps) : Sound(salt_steps[i])
  BY DEF TraceInv, Acting, Over
<1>8. QED
  BY <1>2, <1>5, <1>6, <1>7

\* A closed trace after a step: sound but for its last step, which may only
\* be merged with an observation, and altogether if the policy goes on.
LEMMA TraceClosed ==
  ASSUME NEW a \in Seq(SaltSteps), NEW c \in SaltSteps,
         \A i \in 1..Len(a) : Sound(a[i]),
         c.mergeable => c.observation = SeenKey,
         state' \in Over \/ Sound(c),
         salt_steps' = Append(a, c), Trace' = Append(a, c),
         pending_salt_step' = <<>>,
         Tiled(Append(a, c), response_mask', assistant_turns')
  PROVE  TraceInv'
<1>1. /\ Len(salt_steps') = Len(a) + 1
      /\ \A i \in 1..Len(a) : salt_steps'[i] = a[i]
      /\ salt_steps'[Len(a) + 1] = c
  BY AppendedStep
<1>2. Len(a) \in Nat
  OBVIOUS
<1>3. SpansTileGenerations'
  BY DEF SpansTileGenerations, Tiled
<1>4. \A i \in 1..Len(pending_salt_step') : FALSE
  BY EmptyType
<1>5. ASSUME NEW i \in 1..Len(salt_steps')
      PROVE  /\ i < Len(salt_steps') \/ state' \notin Over => Sound(salt_steps'[i])
             /\ salt_steps'[i].mergeable => salt_steps'[i].observation = SeenKey
  <2>1. CASE i \in 1..Len(a)
    BY <1>1, <2>1 DEF Sound
  <2>2. CASE i = Len(a) + 1
    BY <1>1, <1>2, <2>2
  <2>3. QED
    BY <1>1, <1>2, <2>1, <2>2
<1>6. QED
  BY <1>3, <1>4, <1>5 DEF TraceInv, Over, Sound

\* An open step after a step.
LEMMA TraceOpened ==
  ASSUME NEW a \in Seq(SaltSteps), NEW s \in SaltSteps,
         \A i \in 1..Len(a) : Sound(a[i]),
         s.mergeable, s.action # "incomplete", s.end < ResponseLength,
         salt_steps' = a, pending_salt_step' = <<s>>,
         Tiled(Append(a, s), response_mask', assistant_turns')
  PROVE  TraceInv'
<1>1. Trace' = Append(a, s)
  BY AppendedStep DEF Trace
<1>2. SpansTileGenerations'
  BY <1>1 DEF SpansTileGenerations, Tiled
<1>3. \A i \in 1..Len(pending_salt_step') : pending_salt_step'[i] = s
  OBVIOUS
<1>4. QED
  BY <1>2, <1>3 DEF TraceInv, Over, Sound

\* Nothing happens to the trace and the buffer.
LEMMA TraceKept ==
  ASSUME TraceInv, UNCHANGED loop, state \notin Over \/ state' \in Over
  PROVE  TraceInv'
  BY DEF TraceInv, SpansTileGenerations, Trace, Sound, Over, loop

\* A generation tiles the buffer with one more step.
LEMMA GeneratedTiles ==
  ASSUME TypeOK, TraceInv, NEW n \in 1..ResponseLength, Generate(n),
         NEW c \in SaltSteps, c.start = Generated(n).start, c.end = Generated(n).end
  PROVE  Tiled(Append(salt_steps, c), response_mask', assistant_turns')
<1>1. /\ salt_steps \in Seq(SaltSteps) /\ response_mask \in Seq({0, 1})
      /\ assistant_turns \in Nat /\ n \in Nat \ {0}
      /\ response_mask' = response_mask \o Ones(n)
      /\ assistant_turns' = assistant_turns + 1
  BY GenerateFacts DEF TypeOK, Generate
<1>2. Tiled(salt_steps, response_mask, assistant_turns)
  BY GeneratingTrace DEF Generate
<1>3. c.start = Len(response_mask) /\ c.end = Len(response_mask) + n
  BY DEF Generated, Step
<1> DEFINE U == Append(salt_steps, c)
<1>4. /\ U \in Seq(SaltSteps)
      /\ Len(U) = Len(salt_steps) + 1
      /\ \A i \in 1..Len(salt_steps) : U[i] = salt_steps[i]
      /\ U[Len(salt_steps) + 1] = c
  BY <1>1, AppendedStep
<1> HIDE DEF U
<1>5. /\ \A i \in 1..Len(salt_steps) :
            U[i].start = salt_steps[i].start /\ U[i].end = salt_steps[i].end
      /\ U[Len(salt_steps) + 1].start = Len(response_mask)
      /\ U[Len(salt_steps) + 1].end = Len(response_mask) + n
  BY <1>3, <1>4
<1>6. Tiled(U, response_mask', assistant_turns + 1)
  BY <1>1, <1>2, <1>4, <1>5, TiledByGeneration
<1>7. QED
  BY <1>1, <1>6 DEF U

\* Closing a step keeps the buffer tiled, a message or not.
LEMMA ClosedTiles ==
  ASSUME TypeOK, TraceInv, state \in Acting, NEW n \in Nat, NEW c \in SaltSteps,
         c.start = Head(pending_salt_step).start, c.end = Head(pending_salt_step).end,
         response_mask' = response_mask \/ response_mask' = response_mask \o Zeros(n),
         assistant_turns' = assistant_turns
  PROVE  Tiled(Append(salt_steps, c), response_mask', assistant_turns')
<1> DEFINE s == Head(pending_salt_step)
<1>1. /\ s \in SaltSteps /\ Tiled(Append(salt_steps, s), response_mask, assistant_turns)
  BY WaitingTrace
<1>2. /\ salt_steps \in Seq(SaltSteps) /\ response_mask \in Seq({0, 1})
      /\ assistant_turns \in Nat
  BY DEF TypeOK
<1>3. response_mask' \in Seq({0, 1})
  <2>1. response_mask \o Zeros(n) \in Seq({0, 1})
    BY <1>2, Appended DEF Zeros
  <2>2. QED
    BY <1>2, <2>1
<1> HIDE DEF s
<1>4. /\ Append(salt_steps, s) \in Seq(SaltSteps) /\ Append(salt_steps, c) \in Seq(SaltSteps)
      /\ Len(Append(salt_steps, c)) = Len(Append(salt_steps, s))
  BY <1>1, <1>2, AppendedStep
<1>5. ASSUME NEW i \in 1..Len(Append(salt_steps, s))
      PROVE  /\ Append(salt_steps, c)[i].start = Append(salt_steps, s)[i].start
             /\ Append(salt_steps, c)[i].end = Append(salt_steps, s)[i].end
  <2>1. i \in 1..Len(salt_steps) \/ i = Len(salt_steps) + 1
    BY <1>1, <1>2, AppendedStep
  <2>2. c.start = s.start /\ c.end = s.end
    BY DEF s
  <2>3. QED
    BY <1>1, <1>2, <2>1, <2>2, AppendedStep
<1>6. QED
  BY <1>1, <1>2, <1>3, <1>4, <1>5, TiledByMessage

LEMMA TraceStep ==
  ASSUME LoopInv, [Next]_vars
  PROVE  TraceInv'
<1> USE DEF LoopInv
<1>1. salt_steps \in Seq(SaltSteps)
  BY DEF TypeOK
<1>2. CASE UNCHANGED vars
  BY <1>2, TraceKept DEF vars, Over
<1>3. CASE StartInteraction \/ PreparePrompt \/ GenerateRefused
  BY <1>3, TraceKept DEF StartInteraction, PreparePrompt, GenerateRefused, Over
<1>4. ASSUME NEW n \in 1..ResponseLength, GenerateLast(n) PROVE TraceInv'
  <2>1. /\ Generate(n) /\ state' = "terminated"
        /\ FinalizeSaltStep(Generated(n), NoKey, TRUE)
    BY <1>4 DEF GenerateLast
  <2>2. Generated(n) \in SaltSteps
    BY <2>1, GenerateFacts
  <2>3. PICK c \in SaltSteps :
          /\ c.start = Generated(n).start /\ c.end = Generated(n).end
          /\ ~c.mergeable
          /\ salt_steps' = Append(salt_steps, c) /\ Trace' = Append(salt_steps, c)
    BY <1>1, <2>1, <2>2, FinalizeFacts
  <2>4. pending_salt_step' = <<>>
    BY <2>1 DEF FinalizeSaltStep
  <2>5. Tiled(Append(salt_steps, c), response_mask', assistant_turns')
    BY <2>1, <2>3, GeneratedTiles
  <2>6. \A i \in 1..Len(salt_steps) : Sound(salt_steps[i])
    BY <2>1, GeneratingTrace DEF Generate
  <2>7. state' \in Over
    BY <2>1 DEF Over
  <2>8. QED
    BY <1>1, <2>3, <2>4, <2>5, <2>6, <2>7, TraceClosed
<1>5. ASSUME NEW n \in 1..ResponseLength, NEW s,
             Generate(n), ~Exhausted(Len(response_mask) + n, assistant_turns + 1),
             \/ s = [Generated(n) EXCEPT !.action = "tool", !.mergeable = TRUE]
             \/ s = [Generated(n) EXCEPT !.action = "respond", !.mergeable = TRUE],
             pending_salt_step' = <<s>>, salt_steps' = salt_steps
      PROVE  TraceInv'
  <2>1. Generated(n) \in SaltSteps /\ n \in Nat \ {0} /\ Len(response_mask) \in Nat
    BY <1>5, GenerateFacts DEF TypeOK
  <2>2. /\ s \in SaltSteps /\ s.mergeable /\ s.action # "incomplete"
        /\ s.start = Generated(n).start /\ s.end = Generated(n).end
    BY <1>5, <2>1 DEF SaltSteps
  <2>3. s.end < ResponseLength
    BY <1>5, <2>1, <2>2, ConstantsAssumption DEF Generated, Step, Exhausted
  <2>4. Tiled(Append(salt_steps, s), response_mask', assistant_turns')
    BY <1>5, <2>2, GeneratedTiles
  <2>5. \A i \in 1..Len(salt_steps) : Sound(salt_steps[i])
    BY <1>5, GeneratingTrace DEF Generate
  <2>6. QED
    BY <1>1, <1>5, <2>2, <2>3, <2>4, <2>5, TraceOpened
<1>6. ASSUME NEW n \in 1..ResponseLength,
             \/ \E calls \in Selections : GenerateToolCalls(n, calls)
             \/ \E tainted \in BOOLEAN : GenerateMessage(n, tainted)
      PROVE  TraceInv'
  BY <1>5, <1>6 DEF GenerateToolCalls, GenerateMessage
<1>7. ASSUME NEW i \in DOMAIN tool_calls,
             \/ RejectCall(i) \/ ToolRaises(i)
             \/ \E o \in Observations, d \in BOOLEAN, r \in {0, 1} : ToolObserves(i, o, d, r)
      PROVE  TraceInv'
  BY <1>7, TraceKept DEF RejectCall, ToolRaises, ToolObserves, Over
<1>8. ASSUME NEW n \in Nat, NEW o \in {EmptyKey, SeenKey}, NEW m \in BOOLEAN,
             state \in Acting, FinalizeSaltStep(Head(pending_salt_step), o, m),
             response_mask' = response_mask \/ response_mask' = response_mask \o Zeros(n),
             assistant_turns' = assistant_turns,
             m <=> o = SeenKey,
             o = SeenKey \/ state' = "terminated"
      PROVE  TraceInv'
  <2> DEFINE s == Head(pending_salt_step)
  <2>1. /\ s \in SaltSteps /\ s.mergeable /\ s.action # "incomplete" /\ s.end < ResponseLength
        /\ \A i \in 1..Len(salt_steps) : Sound(salt_steps[i])
    BY <1>8, WaitingTrace
  <2>2. o \in {NoKey, EmptyKey, SeenKey} /\ o # NoKey
    BY DEF NoKey, EmptyKey, SeenKey
  <2>3. \E c \in SaltSteps :
          /\ c.start = s.start /\ c.end = s.end /\ c.observation = o
          /\ c.mergeable = (s.mergeable /\ m /\ s.action # "incomplete" /\ o # NoKey)
          /\ salt_steps' = Append(salt_steps, c) /\ Trace' = Append(salt_steps, c)
    BY <1>1, <1>8, <2>1, <2>2, FinalizeFacts
  <2>4. PICK c \in SaltSteps :
          /\ c.start = s.start /\ c.end = s.end /\ c.observation = o
          /\ c.mergeable <=> m
          /\ salt_steps' = Append(salt_steps, c) /\ Trace' = Append(salt_steps, c)
    BY <2>1, <2>2, <2>3
  <2>5. pending_salt_step' = <<>>
    BY <1>8 DEF FinalizeSaltStep
  <2>6. Tiled(Append(salt_steps, c), response_mask', assistant_turns')
    BY <1>8, <2>4, ClosedTiles
  <2>7. c.mergeable => c.observation = SeenKey
    BY <1>8, <2>4
  <2>8. state' \in Over \/ Sound(c)
    BY <1>8, <2>1, <2>4 DEF Sound, Over
  <2>9. QED
    BY <1>1, <2>1, <2>4, <2>5, <2>6, <2>7, <2>8, TraceClosed
<1>9. CASE StopAfterTools
  <2>1. 0 \in Nat /\ state \in Acting /\ FinalizeSaltStep(Head(pending_salt_step), SeenKey, TRUE)
        /\ response_mask' = response_mask /\ assistant_turns' = assistant_turns
    BY <1>9 DEF StopAfterTools, ProcessResponses, Acting
  <2>2. QED
    BY <1>8, <2>1
<1>10. ASSUME NEW n \in MessageLengths, DropToolMessages(n) \/ AnswerTools(n) PROVE TraceInv'
  <2>1. /\ state \in Acting /\ FinalizeSaltStep(Head(pending_salt_step), SeenKey, TRUE)
        /\ assistant_turns' = assistant_turns
        /\ response_mask' = response_mask \/ response_mask' = response_mask \o Zeros(n)
    BY <1>10 DEF DropToolMessages, AnswerTools, AppendMessage, ProcessResponses, Acting
  <2>2. n \in Nat
    BY ConstantsAssumption
  <2>3. QED
    BY <1>8, <2>1, <2>2
<1>11. ASSUME NEW n \in MessageLengths, Contaminate(n) \/ RespondRaises(n) PROVE TraceInv'
  <2>1. /\ state \in Acting /\ FinalizeSaltStep(Head(pending_salt_step), EmptyKey, FALSE)
        /\ assistant_turns' = assistant_turns /\ state' = "terminated"
        /\ response_mask' = response_mask \o Zeros(n)
    BY <1>11 DEF Contaminate, RespondRaises, Answer, AppendMessage, Acting
  <2>2. n \in Nat /\ EmptyKey # SeenKey
    BY ConstantsAssumption DEF EmptyKey, SeenKey
  <2>3. QED
    BY <1>8, <2>1, <2>2
<1>12. ASSUME NEW n \in MessageLengths, NEW o \in Observations, NEW d \in BOOLEAN,
              NEW r \in {0, 1}, Respond(n, o, d, r)
       PROVE  TraceInv'
  <2>1. /\ state \in Acting /\ FinalizeSaltStep(Head(pending_salt_step), SeenKey, TRUE)
        /\ assistant_turns' = assistant_turns
        /\ response_mask' = response_mask \o Zeros(n)
    BY <1>12 DEF Respond, Answer, AppendMessage, Acting
  <2>2. n \in Nat
    BY ConstantsAssumption
  <2>3. QED
    BY <1>8, <2>1, <2>2
<1>13. CASE CalculateScore
  <2>1. pending_salt_step = <<>>
    BY <1>13 DEF CalculateScore, TypeOK
  <2>2. UNCHANGED loop /\ state' \in Over
    BY <1>13, <2>1 DEF CalculateScore, SettleTrace, loop, Over
  <2>3. QED
    BY <2>2, TraceKept
<1>14. CASE FinalizeInteraction
  BY <1>14, TraceKept DEF FinalizeInteraction, Over
<1>15. CASE Finished
  BY <1>2, <1>15 DEF Finished, vars
<1>16. QED
  BY <1>2, <1>3, <1>4, <1>6, <1>7, <1>9, <1>10, <1>11, <1>12, <1>13, <1>14, <1>15 DEF Next

(***************************************************************************)
(* The theorems.                                                           *)
(***************************************************************************)

\* The invariant holds before the rollout starts.
LEMMA LoopInitially == Init => LoopInv
<1> SUFFICES ASSUME Init PROVE LoopInv
  OBVIOUS
<1>1. TypeOK
  <2>1. Len(response_mask) = 0 /\ response_mask \in Seq({0, 1})
    BY DEF Init
  <2>2. \E m \in MessageLengths : Len(response_mask) <= ResponseLength + PromptSlack + m
    BY <2>1, BufferFits, ConstantsAssumption
  <2>3. /\ salt_steps \in Seq(SaltSteps)
        /\ pending_salt_step \in Seq(SaltSteps) /\ Len(pending_salt_step) = 0
        /\ tool_calls \in Seq(Requests \cup Responses)
    BY EmptyType DEF Init
  <2>4. QED
    BY <2>1, <2>2, <2>3 DEF Init, TypeOK, NoScore
<1>2. EntryInv
  BY ConstantsAssumption DEF Init, EntryInv, Acting, NoScore
<1>3. EndInv
  BY DEF Init, EndInv, NoScore
<1>4. CoverageInv
  BY FS_EmptySet DEF Init, CoverageInv, ProgressIsCoverage
<1>5. TraceInv
  <2>1. Trace = <<>> /\ Len(Trace) = 0
    BY DEF Init, Trace
  <2>2. QED
    BY <2>1 DEF Init, TraceInv, SpansTileGenerations
<1>6. QED
  BY <1>1, <1>2, <1>3, <1>4, <1>5 DEF LoopInv

\* The inductive invariant holds throughout every rollout.
THEOREM LoopInvariant == Spec => []LoopInv
<1>1. Init => LoopInv
  BY LoopInitially
<1>2. LoopInv /\ [Next]_vars => LoopInv'
  BY TypeStep, EntryStep, EndStep, CoverageStep, TraceStep DEF LoopInv
<1>3. QED
  BY <1>1, <1>2, PTL DEF Spec

\* Every variable keeps its type, and the buffer its bound, although user
\* messages are appended unchecked.
THEOREM LoopTypeCorrect == Spec => []TypeOK
<1>1. LoopInv => TypeOK
  BY DEF LoopInv
<1>2. QED
  BY <1>1, LoopInvariant, PTL

\* The spans of the trace tile the generated tokens, whatever way each handler
\* is left.
THEOREM SpansAlwaysTile == Spec => []SpansTileGenerations
<1>1. LoopInv => SpansTileGenerations
  BY DEF LoopInv, TraceInv
<1>2. QED
  BY <1>1, LoopInvariant, PTL

\* Only the last step of a trace can be incomplete, unmergeable or overlong.
THEOREM OnlyLastStepIncomplete == Spec => []GapsOnlyAtTheEnd
<1>1. LoopInv => GapsOnlyAtTheEnd
  <2> SUFFICES ASSUME LoopInv PROVE GapsOnlyAtTheEnd
    OBVIOUS
  <2>1. salt_steps \in Seq(SaltSteps) /\ pending_salt_step \in Seq(SaltSteps)
    BY DEF LoopInv, TypeOK
  <2>2. Len(Trace) = Len(salt_steps) + Len(pending_salt_step)
    BY <2>1, Concatenated DEF Trace
  <2>3. Len(pending_salt_step) > 0 => state \notin Over
    BY DEF LoopInv, TypeOK, Over
  <2>4. Len(pending_salt_step) \in Nat /\ Len(salt_steps) \in Nat
    BY <2>1
  <2>5. \A i \in 1..Len(salt_steps) :
          i < Len(Trace) => i < Len(salt_steps) \/ state \notin Over
    BY <2>2, <2>3, <2>4
  <2>6. QED
    BY <2>5 DEF GapsOnlyAtTheEnd, LoopInv, TraceInv, Sound
<1>2. QED
  BY <1>1, LoopInvariant, PTL

\* A contaminated conversation is never scored a success.
THEOREM ContaminationIsNeverPaid == Spec => []ContaminatedScoresZero
<1>1. LoopInv => ContaminatedScoresZero
  BY DEF LoopInv, EndInv, ContaminatedScoresZero
<1>2. QED
  BY <1>1, LoopInvariant, PTL

\* First-visit coverage is a fraction of the executed actions.
THEOREM ProgressAlwaysCoverage == Spec => []ProgressIsCoverage
<1>1. LoopInv => ProgressIsCoverage
  BY DEF LoopInv, CoverageInv
<1>2. QED
  BY <1>1, LoopInvariant, PTL

\* With one call per generation, no action is sent to a simulation whose end a
\* result has reported.
THEOREM NoActionAfterTheEnd ==
  ASSUME MaxParallelCalls = 1
  PROVE  Spec => ActsOnLiveEnvironment
<1>1. LoopInv /\ [Next]_vars => [env_actions' # env_actions => ~env_done \/ env_lost]_vars
  <2> SUFFICES ASSUME LoopInv, Next, env_actions' # env_actions PROVE ~env_done \/ env_lost
    BY DEF vars, env
  <2>1. state = "processing_tools" /\ (\E i \in DOMAIN tool_calls : tool_calls[i] = "known")
          => ~env_done \/ env_lost
    <3> SUFFICES ASSUME state = "processing_tools", NEW i \in DOMAIN tool_calls,
                        tool_calls[i] = "known"
                 PROVE  ~env_done \/ env_lost
      OBVIOUS
    <3>1. tool_calls \in Seq(Requests \cup Responses) /\ Len(tool_calls) <= 1
      BY DEF LoopInv, TypeOK, EntryInv
    <3>2. \A j \in DOMAIN tool_calls : j = i
      BY <3>1
    <3>3. QED
      BY <3>2 DEF LoopInv, EndInv, Over
  <2>2. state \in {"generating", "interacting"} => ~env_done \/ env_lost
    BY DEF LoopInv, EndInv, Over
  <2>3. ASSUME NEW n \in 1..ResponseLength, Generate(n) PROVE FALSE
    BY <2>3 DEF Generate, env
  <2>4. ASSUME NEW i \in DOMAIN tool_calls,
               \/ ToolRaises(i)
               \/ \E o \in Observations, d \in BOOLEAN, r \in {0, 1} : ToolObserves(i, o, d, r)
        PROVE  ~env_done \/ env_lost
    BY <2>1, <2>4 DEF ToolRaises, ToolObserves
  <2>5. ASSUME NEW n \in MessageLengths,
               \/ RespondRaises(n) \/ Contaminate(n)
               \/ \E o \in Observations, d \in BOOLEAN, r \in {0, 1} : Respond(n, o, d, r)
        PROVE  ~env_done \/ env_lost
    BY <2>2, <2>5 DEF RespondRaises, Contaminate, Respond, Answer
  <2>6. ASSUME FinalizeInteraction PROVE ~env_done \/ env_lost
    BY <2>6 DEF FinalizeInteraction, EnvSteps, env
  <2>7. ASSUME ProcessResponses PROVE FALSE
    BY <2>7 DEF ProcessResponses, env
  <2>8. ASSUME \/ StartInteraction \/ PreparePrompt \/ GenerateRefused \/ CalculateScore
               \/ Finished \/ \E i \in DOMAIN tool_calls : RejectCall(i)
        PROVE  FALSE
    BY <2>8 DEF StartInteraction, PreparePrompt, GenerateRefused, CalculateScore, Finished,
                RejectCall, env, vars
  <2>9. QED
    BY <2>3, <2>4, <2>5, <2>6, <2>7, <2>8
       DEF Next, GenerateLast, GenerateToolCalls, GenerateMessage, StopAfterTools,
           DropToolMessages, AnswerTools
<1>2. QED
  BY <1>1, LoopInvariant, PTL DEF Spec, ActsOnLiveEnvironment

=============================================================================
