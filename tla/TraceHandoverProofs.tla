------------------------- MODULE TraceHandoverProofs -------------------------
(***************************************************************************)
(* From ToolAgentLoop to AdvantageGraph: the estimator reads a trace whole *)
(* if it tiles the generated tokens, and what a rollout delivers does.     *)
(***************************************************************************)
EXTENDS AdvantageGraphProofs

CONSTANTS
    PromptSlack, MaxAssistantTurns, MaxUserTurns, MaxParallelCalls, MaxTurns,
    MessageLengths, Observations, FirstObservation, ErrorObservation

VARIABLES
    state, response_mask, salt_steps, pending_salt_step, assistant_turns, user_turns,
    tool_calls, forbidden, reward_score, total_reward, num_tool_calls, num_user_turns,
    contaminated, visited, action_count, novel_count, env_done, env_actions, env_lost,
    released

\* A rollout.  The batch has room for rollout.response_length tokens of each.
Rollout == INSTANCE ToolAgentLoopProofs WITH ResponseLength <- Width

\* Trajectory s is what the rollout has delivered: its steps one by one, and
\* its mask cut and padded to the width of the batch (tool_agent_loop.py:275,
\* agent_loop.py:657).
Delivered(s) ==
    /\ state = "done"
    /\ Len(Records(s)) = Len(salt_steps)
    /\ \A k \in 1..Len(salt_steps) :
          /\ Records(s)[k] # Malformed
          /\ Records(s)[k].start = salt_steps[k].start
          /\ Records(s)[k].end = salt_steps[k].end
    /\ \A p \in Tokens :
          batch.mask[s][p] <=> p <= Len(response_mask) /\ response_mask[p] = 1

\* LATA has taken the generations that were not cut, as far as it has come.
TurnsWhole == \A s \in Samples : batch.lata /\ Tiled(s) =>
    \A k \in 1..Len(Records(s)) : Behind("turns", s, k) =>
        (k \in spans["turns"][s] <=> k \in WithinResponse(s))

\* A token outside the spans broadcast has its trajectory's advantage.
Untouched == \A s \in Samples, p \in Tokens :
    phase # "scores" /\ (\A k \in spans["broadcast"][s] : p \notin SpanOf(s, k)) =>
        token[s][p] = [sum |-> scalar[s], count |-> 1]

(***************************************************************************)
(* The estimator.                                                          *)
(***************************************************************************)

\* In a trace that tiles the generated tokens, what does not go beyond the
\* response can be read, and no two spans meet.
LEMMA TiledFacts ==
  ASSUME batch \in Batch, NEW s \in Samples, Tiled(s)
  PROVE  /\ \A k \in 1..Len(Records(s)) :
               /\ RecordOf(s, k) \in Record /\ k \in Nat \ {0}
               /\ Readable(s, RecordOf(s, k)) <=> k \in WithinResponse(s)
         /\ \A j, k \in 1..Len(Records(s)) : j # k => SpanOf(s, j) \cap SpanOf(s, k) = {}
<1>1. \A k \in 1..Len(Records(s)) :
         /\ RecordOf(s, k) \in Record /\ k \in Nat \ {0} /\ RecordOf(s, k) # Malformed
         /\ RecordOf(s, k).start \in Int /\ RecordOf(s, k).end \in Int
         /\ 0 <= RecordOf(s, k).start /\ RecordOf(s, k).start < RecordOf(s, k).end
         /\ k \in WithinResponse(s) <=> RecordOf(s, k).end <= Width
  <2>1. \A k \in 1..Len(Records(s)) : RecordOf(s, k) \in Record /\ k \in Nat \ {0}
    BY RecordFacts DEF Tiled, RecordOf
  <2>2. QED
    BY <2>1 DEF Tiled, RecordOf, Record, WithinResponse
<1>2. ASSUME NEW k \in 1..Len(Records(s)), RecordOf(s, k).end <= Width, NEW p \in SpanOf(s, k)
      PROVE  batch.mask[s][p]
  <2>1. p \in Tokens
    BY <1>1, <1>2, SizesAssumption DEF SpanOf, Span, Tokens
  <2>2. p \in Span(Records(s)[k])
    BY <1>2 DEF SpanOf, RecordOf
  <2>3. QED
    BY <2>1, <2>2 DEF Tiled
<1>3. \A k \in 1..Len(Records(s)) : Readable(s, RecordOf(s, k)) <=> k \in WithinResponse(s)
  BY <1>1, <1>2 DEF Readable, SpanOf
<1>4. ASSUME NEW j \in 1..Len(Records(s)), NEW k \in 1..Len(Records(s)), j < k
      PROVE  SpanOf(s, j) \cap SpanOf(s, k) = {}
  <2>1. RecordOf(s, j).end <= RecordOf(s, k).start
    BY <1>4 DEF Tiled, RecordOf
  <2>2. QED
    BY <1>1, <2>1 DEF SpanOf, Span
<1>5. \A j, k \in 1..Len(Records(s)) : j # k => j < k \/ k < j
  BY <1>1
<1>6. QED
  BY <1>1, <1>3, <1>4, <1>5

\* Whether a trace tiles does not change.
LEMMA SameTiling ==
  ASSUME batch' = batch
  PROVE  \A s : (Tiled(s)' <=> Tiled(s)) /\ WithinResponse(s)' = WithinResponse(s)
<1>1. \A s : Records(s)' = Records(s)
  BY SameBatch
<1>2. QED
  BY <1>1 DEF Tiled, WithinResponse

\* The loops visit and skip as TurnsWhole says.
LEMMA TurnsWholeStep ==
  ASSUME SpansInv, TurnsWhole, [Next]_vars
  PROVE  TurnsWhole'
<1>1. /\ Loops /\ batch \in Batch /\ N \in Nat /\ sample \in Nat \ {0} /\ step \in Nat \ {0}
      /\ spans \in [Passes -> [Samples -> SUBSET (Nat \ {0})]]
  BY SizesAssumption DEF SpansInv, Loops
<1>2. batch' = batch
  BY DEF Next, Scores, AddStep, Merge, Broadcast, EndBroadcast, Turn, EndTurns, NextSample,
         Combine, vars
<1>3. SUFFICES ASSUME NEW s \in Samples, batch.lata, Tiled(s), NEW k \in 1..Len(Records(s)),
                      Behind("turns", s, k)'
               PROVE  k \in spans'["turns"][s] <=> k \in WithinResponse(s)
  BY <1>2, SameBatch, SameTiling DEF TurnsWhole
<1>4. k \in Nat \ {0} /\ Len(Records(s)) \in Nat /\ s \in Nat \ {0} /\ s <= N
  BY <1>1, RecordFacts DEF Samples
<1>5. Behind("turns", s, k) => (k \in spans["turns"][s] <=> k \in WithinResponse(s))
  BY <1>3 DEF TurnsWhole
<1>6. CASE Turn
  <2> DEFINE takes == TurnTakes(sample, Current)
  <2>1. /\ sample \in Samples /\ step \in 1..Len(Records(sample)) /\ phase = "turns"
    BY <1>6, AtFacts DEF Turn, Passes
  <2>2. /\ \A t \in Samples : t # sample => spans'["turns"][t] = spans["turns"][t]
        /\ spans'["turns"][sample] =
              IF takes THEN spans["turns"][sample] \cup {step} ELSE spans["turns"][sample]
        /\ takes <=> /\ Readable(sample, RecordOf(sample, step))
                     /\ \A j \in spans["turns"][sample] :
                           SpanOf(sample, j) \cap SpanOf(sample, step) = {}
        /\ \A j \in spans["turns"][sample] : j < step
    <3>1. takes \in BOOLEAN
      BY DEF TurnTakes, Readable
    <3>2. takes <=> Readable(sample, Current) /\ Span(Current) \cap covered = {}
      BY DEF TurnTakes
    <3>3. IF takes THEN Take("turns") ELSE Skip
      BY <1>6 DEF Turn
    <3>4. "turns" \in Passes /\ AtRecord("turns") /\ NextRecord /\ UNCHANGED <<batch, phase>>
      BY <1>6 DEF Turn, Passes
    <3> HIDE DEF takes
    <3>5. QED
      BY <3>1, <3>2, <3>3, <3>4, TakeFacts
  <2>3. Behind("turns", s, k) \/ (s = sample /\ k = step)
    BY <1>3, <1>4, <1>6, <2>1 DEF Behind, Over, Turn, NextRecord
  <2> HIDE DEF takes
  <2>4. CASE s = sample /\ k = step
    <3>1. \A j \in spans["turns"][sample] : j \in 1..Len(Records(sample)) /\ j # step
      BY <1>1, <2>1, <2>2 DEF SpansInv, Taken, Passes
    <3>2. \A j \in spans["turns"][sample] : SpanOf(sample, j) \cap SpanOf(sample, step) = {}
      BY <1>1, <1>3, <2>1, <2>4, <3>1, TiledFacts
    <3>3. takes <=> step \in WithinResponse(sample)
      BY <1>1, <1>3, <2>1, <2>2, <2>4, <3>2, TiledFacts
    <3>4. step \notin spans["turns"][sample]
      BY <3>1
    <3>5. QED
      BY <2>2, <2>4, <3>3, <3>4
  <2>5. CASE ~(s = sample /\ k = step)
    <3>1. k \in spans'["turns"][s] <=> k \in spans["turns"][s]
      BY <2>2, <2>5
    <3>2. QED
      BY <1>5, <2>3, <2>5, <3>1
  <2>6. QED
    BY <2>4, <2>5
<1>7. CASE AddStep \/ Broadcast
  <2>1. ~Behind("turns", s, k)'
    BY <1>7 DEF AddStep, Broadcast, AtRecord, Behind, Over
  <2>2. QED
    BY <1>3, <2>1
<1>8. CASE NextSample
  <2>1. Behind("turns", s, k) /\ spans' = spans
    <3>1. phase = "turns" /\ s = sample => step > Len(Records(s))
      BY <1>8 DEF NextSample, Visited
    <3>2. QED
      BY <1>1, <1>3, <1>4, <1>8, <3>1 DEF NextSample, Behind, Over
  <2>2. QED
    BY <1>5, <2>1
<1>9. CASE Scores \/ Merge \/ EndBroadcast
  <2>1. ~Behind("turns", s, k)'
    BY <1>1, <1>3, <1>4, <1>9 DEF Scores, Merge, EndBroadcast, EndOf, Rewind, Behind, Over, Loops,
       loopVars
  <2>2. QED
    BY <1>3, <2>1
<1>10. CASE EndTurns \/ Combine
  <2>1. Behind("turns", s, k) /\ spans' = spans
    BY <1>1, <1>4, <1>10 DEF EndTurns, Combine, EndOf, Behind, Over
  <2>2. QED
    BY <1>5, <2>1
<1>11. CASE UNCHANGED vars
  <2>1. Behind("turns", s, k) /\ spans' = spans
    BY <1>3, <1>11 DEF Behind, Over, vars, loopVars
  <2>2. QED
    BY <1>5, <2>1
<1>12. QED
  BY <1>6, <1>7, <1>8, <1>9, <1>10, <1>11 DEF Next

\* Only the broadcast changes a token, and only in the spans it takes.
LEMMA UntouchedStep ==
  ASSUME SpansInv, Untouched, [Next]_vars
  PROVE  Untouched'
<1>1. Loops /\ batch' = batch /\ DOMAIN token = Samples
  BY DEF SpansInv, Loops, Next, Scores, AddStep, Merge, Broadcast, EndBroadcast, Turn, EndTurns,
         NextSample, Combine, vars
<1>2. \A s, k : SpanOf(s, k)' = SpanOf(s, k)
  BY <1>1, SameBatch
<1>3. CASE Scores
  BY <1>3 DEF Scores, Untouched
<1>4. CASE Broadcast
  <2> DEFINE takes == BroadcastTakes(sample, Current)
  <2>1. /\ sample \in Samples /\ phase # "scores" /\ scalar' = scalar
        /\ Span(Current) = SpanOf(sample, step)
    BY <1>4, AtFacts DEF Broadcast, Passes, SpanOf
  <2>2. /\ \A t \in Samples : t # sample => spans'["broadcast"][t] = spans["broadcast"][t]
        /\ spans'["broadcast"][sample] =
              IF takes THEN spans["broadcast"][sample] \cup {step} ELSE spans["broadcast"][sample]
    <3>1. takes \in BOOLEAN
      BY DEF BroadcastTakes, Readable
    <3>2. takes <=> Readable(sample, Current) /\ Span(Current) \cap covered = {}
      BY DEF BroadcastTakes
    <3>3. IF takes THEN Take("broadcast") ELSE Skip
      BY <1>4 DEF Broadcast
    <3>4. /\ "broadcast" \in Passes /\ AtRecord("broadcast") /\ NextRecord
          /\ UNCHANGED <<batch, phase>>
      BY <1>4 DEF Broadcast, Passes
    <3> HIDE DEF takes
    <3>5. QED
      BY <3>1, <3>2, <3>3, <3>4, TakeFacts
  <2>3. ASSUME NEW s \in Samples, NEW p \in Tokens,
               \A k \in spans'["broadcast"][s] : p \notin SpanOf(s, k)
        PROVE  token'[s][p] = [sum |-> scalar[s], count |-> 1]
    <3>1. \A k \in spans["broadcast"][s] : p \notin SpanOf(s, k)
      BY <2>2, <2>3
    <3>2. token[s][p] = [sum |-> scalar[s], count |-> 1]
      BY <2>1, <3>1 DEF Untouched
    <3>3. CASE takes /\ s = sample
      <4>1. p \notin Span(Current)
        BY <2>1, <2>2, <2>3, <3>3
      <4>2. QED
        BY <1>1, <1>4, <2>1, <3>2, <3>3, <4>1 DEF Broadcast
    <3>4. CASE ~takes \/ s # sample
      BY <1>1, <1>4, <3>2, <3>4 DEF Broadcast
    <3>5. QED
      BY <3>3, <3>4
  <2>4. QED
    BY <1>2, <2>1, <2>3 DEF Untouched
<1>5. CASE UNCHANGED <<token, scalar>> /\ phase # "scores"
           /\ \A s \in Samples : spans'["broadcast"][s] = spans["broadcast"][s]
  BY <1>2, <1>5 DEF Untouched
<1>6. CASE UNCHANGED vars
  BY <1>2, <1>6 DEF Untouched, vars
<1>7. ASSUME AddStep \/ Turn PROVE \A s \in Samples : spans'["broadcast"][s] = spans["broadcast"][s]
  BY <1>1, <1>7 DEF AddStep, Turn, Take, Skip, Loops, Passes
<1>8. QED
  BY <1>3, <1>4, <1>5, <1>6, <1>7 DEF Next, AddStep, Merge, EndBroadcast, Turn, EndTurns,
     NextSample, Combine, AtRecord, EndOf

\* Nothing of a trace that tiles the generated tokens is skipped, in the graph
\* and in LATA, but a last generation that was cut (core_algos.py:791, 884,
\* 971); in every reachable state, for batches and traces of any size.
THEOREM TiledTracesRead == Spec => []GenerationsScored
<1>1. Init => SpansInv /\ TurnsWhole /\ Untouched
  <2>1. Init => TurnsWhole
    BY DEF Init, TurnsWhole, Behind, Over
  <2>2. Init => Untouched
    BY DEF Init, Untouched
  <2>3. QED
    BY <2>1, <2>2, SpansInit
<1>2. SpansInv /\ TurnsWhole /\ Untouched /\ [Next]_vars => (SpansInv /\ TurnsWhole /\ Untouched)'
  BY SpansStep, TurnsWholeStep, UntouchedStep
<1>3. ASSUME SpansInv, TurnsWhole, Untouched PROVE GenerationsScored
  <2>1. Loops /\ batch \in Batch
    BY <1>3 DEF SpansInv, Loops
  <2>2. SUFFICES ASSUME NEW s \in Samples, Tiled(s)
                 PROVE  /\ batch.salt /\ Eligible(s) /\ phase \in {"turns", "combine", "done"} =>
                              \A k \in 1..Len(Records(s)) : \A p \in SpanOf(s, k) \cap Tokens :
                                  token[s][p] = IF k \in WithinResponse(s) THEN score[s][k]
                                                ELSE [sum |-> scalar[s], count |-> 1]
                        /\ batch.lata /\ phase \in {"combine", "done"} =>
                              spans["turns"][s] = WithinResponse(s)
    BY DEF GenerationsScored, SpanOf, RecordOf
  <2>3. ASSUME batch.salt, Eligible(s), phase \in {"turns", "combine", "done"},
               NEW k \in 1..Len(Records(s)), NEW p \in SpanOf(s, k) \cap Tokens
        PROVE  token[s][p] = IF k \in WithinResponse(s) THEN score[s][k]
                             ELSE [sum |-> scalar[s], count |-> 1]
    <3>1. \A j : Behind("graph", s, j) /\ Behind("broadcast", s, j)
      BY <2>3 DEF Behind, Over
    <3>2. \A j \in spans["graph"][s] : j \in 1..Len(Records(s)) /\ Readable(s, RecordOf(s, j))
      BY <1>3 DEF SpansInv, Taken, Passes
    <3>3. \A j \in 1..Len(Records(s)) : j \in spans["graph"][s] <=> j \in WithinResponse(s)
      <4>1. ASSUME NEW j \in 1..Len(Records(s))
            PROVE  \A i \in spans["graph"][s] : i < j => SpanOf(s, i) \cap SpanOf(s, j) = {}
        <5>1. ASSUME NEW i \in spans["graph"][s], i < j PROVE i \in 1..Len(Records(s)) /\ i # j
          BY <2>1, <2>2, <3>2, <5>1, TiledFacts
        <5>2. QED
          BY <2>1, <2>2, <5>1, TiledFacts
      <4>2. QED
        BY <1>3, <2>1, <2>2, <2>3, <3>1, <4>1, TiledFacts DEF SpansInv, Greedy
    <3>4. spans["broadcast"][s] = spans["graph"][s]
      <4>1. \A q \in Passes : spans[q][s] \subseteq Nat
        BY <2>1 DEF Loops
      <4>2. QED
        BY <1>3, <3>1, <4>1 DEF SpansInv, Agree, Passes
    <3>5. CASE k \in WithinResponse(s)
      BY <1>3, <3>3, <3>4, <3>5 DEF SpansInv, Spread
    <3>6. CASE k \notin WithinResponse(s)
      <4>1. \A j \in spans["broadcast"][s] : j \in 1..Len(Records(s)) /\ j # k
        BY <3>2, <3>3, <3>4, <3>6
      <4>2. \A j \in spans["broadcast"][s] : p \notin SpanOf(s, j)
        BY <2>1, <2>2, <4>1, TiledFacts
      <4>3. QED
        BY <1>3, <2>3, <3>6, <4>2 DEF Untouched
    <3>7. QED
      BY <3>5, <3>6
  <2>4. ASSUME batch.lata, phase \in {"combine", "done"}
        PROVE  spans["turns"][s] = WithinResponse(s)
    <3>1. \A j : Behind("turns", s, j)
      BY <2>4 DEF Behind, Over
    <3>2. \A j \in spans["turns"][s] : j \in 1..Len(Records(s))
      BY <1>3 DEF SpansInv, Taken, Passes
    <3>3. \A j \in 1..Len(Records(s)) : j \in spans["turns"][s] <=> j \in WithinResponse(s)
      BY <1>3, <2>2, <2>4, <3>1 DEF TurnsWhole
    <3>4. QED
      BY <3>2, <3>3 DEF WithinResponse
  <2>5. QED
    BY <2>3, <2>4
<1>4. QED
  BY <1>1, <1>2, <1>3, PTL DEF Spec

(***************************************************************************)
(* The rollout.                                                            *)
(***************************************************************************)

\* What a rollout has delivered tiles its generated tokens, and all steps but
\* the last lie within the response.
LEMMA DeliveredTiled ==
  ASSUME Rollout!LoopInv, NEW s \in Samples, Delivered(s), Width \in Nat
  PROVE  /\ Tiled(s)
         /\ \A k \in 1..Len(Records(s)) : k < Len(Records(s)) => k \in WithinResponse(s)
<1>1. /\ salt_steps \in Seq(Rollout!SaltSteps) /\ pending_salt_step \in Seq(Rollout!SaltSteps)
      /\ Len(pending_salt_step) = 0 /\ Len(salt_steps) \in Nat /\ Len(response_mask) \in Nat
  BY DEF Rollout!LoopInv, Rollout!TypeOK, Delivered
<1>2. Rollout!Trace = salt_steps
  BY <1>1, Rollout!ClosedTrace DEF Rollout!Trace
<1>3. \A k \in 1..Len(salt_steps) :
         salt_steps[k].start \in Nat /\ salt_steps[k].end \in Nat
  <2>1. \A k \in 1..Len(salt_steps) : salt_steps[k] \in Rollout!SaltSteps
    BY <1>1
  <2>2. \A r \in Rollout!SaltSteps : r.start \in Nat /\ r.end \in Nat
    BY DEF Rollout!SaltSteps
  <2>3. QED
    BY <2>1, <2>2
<1>4. /\ \A k \in 1..Len(salt_steps) :
            salt_steps[k].start < salt_steps[k].end /\ salt_steps[k].end <= Len(response_mask)
      /\ \A j, k \in 1..Len(salt_steps) : j < k => salt_steps[j].end <= salt_steps[k].start
      /\ \A p \in 1..Len(response_mask) :
            response_mask[p] = 1 <=>
               \E k \in 1..Len(salt_steps) : salt_steps[k].start < p /\ p <= salt_steps[k].end
  BY <1>2 DEF Rollout!LoopInv, Rollout!TraceInv, Rollout!SpansTileGenerations
<1>5. \A k \in 1..Len(Records(s)) :
         /\ k \in 1..Len(salt_steps)
         /\ Records(s)[k] # Malformed
         /\ Records(s)[k].start = salt_steps[k].start /\ Records(s)[k].end = salt_steps[k].end
         /\ \A p \in Int : p \in Span(Records(s)[k]) <=>
                             salt_steps[k].start < p /\ p <= salt_steps[k].end
  BY <1>3 DEF Delivered, Span
<1>6. ASSUME NEW p \in Tokens
      PROVE  batch.mask[s][p] <=> \E k \in 1..Len(Records(s)) : p \in Span(Records(s)[k])
  <2>1. p \in Nat \ {0}
    BY <1>6 DEF Tokens
  <2>2. (\E k \in 1..Len(Records(s)) : p \in Span(Records(s)[k])) <=>
           p <= Len(response_mask) /\ response_mask[p] = 1
    <3>1. CASE p <= Len(response_mask)
      BY <1>1, <1>4, <1>5, <2>1, <3>1 DEF Delivered
    <3>2. CASE ~(p <= Len(response_mask))
      <4>1. ASSUME NEW k \in 1..Len(Records(s)), p \in Span(Records(s)[k]) PROVE FALSE
        <5>1. k \in 1..Len(salt_steps) /\ p <= salt_steps[k].end
          BY <1>5, <2>1, <4>1
        <5>2. salt_steps[k].end <= Len(response_mask) /\ salt_steps[k].end \in Nat
          BY <1>3, <1>4, <5>1
        <5>3. QED
          BY <1>1, <2>1, <3>2, <5>1, <5>2
      <4>2. QED
        BY <3>2, <4>1
    <3>3. QED
      BY <3>1, <3>2
  <2>3. QED
    BY <2>2 DEF Delivered
<1>7. Tiled(s)
  <2>1. \A k \in 1..Len(Records(s)) :
           /\ Records(s)[k] # Malformed
           /\ 0 <= Records(s)[k].start /\ Records(s)[k].start < Records(s)[k].end
    <3>1. \A k \in 1..Len(salt_steps) :
             0 <= salt_steps[k].start /\ salt_steps[k].start < salt_steps[k].end
      BY <1>3, <1>4
    <3>2. QED
      BY <1>5, <3>1
  <2>2. \A j, k \in 1..Len(Records(s)) : j < k => Records(s)[j].end <= Records(s)[k].start
    BY <1>4, <1>5
  <2>3. QED
    BY <1>6, <2>1, <2>2 DEF Tiled
<1>8. ASSUME NEW k \in 1..Len(Records(s)), k < Len(Records(s))
      PROVE  k \in WithinResponse(s)
  <2>1. k \in 1..Len(salt_steps) /\ k < Len(salt_steps)
    BY <1>8 DEF Delivered
  <2>2. Rollout!Sound(salt_steps[k])
    BY <2>1 DEF Rollout!LoopInv, Rollout!TraceInv
  <2>3. salt_steps[k].end < Width
    BY <2>2 DEF Rollout!Sound
  <2>4. QED
    BY <1>3, <1>8, <2>1, <2>3 DEF Delivered, WithinResponse
<1>9. QED
  BY <1>7, <1>8

\* What the loop promises is what the estimator needs: a trajectory delivered
\* by a rollout, in a mixed group of any batch, has on each of its generated
\* tokens the score of the step that generated it, with no exception but a
\* last generation beyond the response, whose tokens keep the trajectory's
\* own advantage.
THEOREM DeliveredTracesRead ==
  ASSUME Rollout!ConstantsAssumption
  PROVE  Rollout!Spec /\ Spec =>
           [](\A s \in Samples :
                Delivered(s) /\ batch.salt /\ Eligible(s) /\ phase \in {"turns", "combine", "done"} =>
                   \A p \in Tokens : batch.mask[s][p] =>
                      \E k \in 1..Len(Records(s)) :
                         /\ p \in Span(Records(s)[k])
                         /\ \/ token[s][p] = score[s][k]
                            \/ /\ k = Len(Records(s)) /\ Records(s)[k].end > Width
                               /\ token[s][p] = [sum |-> scalar[s], count |-> 1])
<1> DEFINE Read == \A s \in Samples :
                Delivered(s) /\ batch.salt /\ Eligible(s) /\ phase \in {"turns", "combine", "done"} =>
                   \A p \in Tokens : batch.mask[s][p] =>
                      \E k \in 1..Len(Records(s)) :
                         /\ p \in Span(Records(s)[k])
                         /\ \/ token[s][p] = score[s][k]
                            \/ /\ k = Len(Records(s)) /\ Records(s)[k].end > Width
                               /\ token[s][p] = [sum |-> scalar[s], count |-> 1]
<1>1. ASSUME Rollout!LoopInv, GenerationsScored, SpansInv PROVE Read
  <2>1. Width \in Nat /\ batch \in Batch
    BY <1>1, SizesAssumption, BatchesAssumption DEF SpansInv, Loops
  <2>2. SUFFICES ASSUME NEW s \in Samples, Delivered(s), batch.salt, Eligible(s),
                        phase \in {"turns", "combine", "done"}, NEW p \in Tokens, batch.mask[s][p]
                 PROVE  \E k \in 1..Len(Records(s)) :
                         /\ p \in Span(Records(s)[k])
                         /\ \/ token[s][p] = score[s][k]
                            \/ /\ k = Len(Records(s)) /\ Records(s)[k].end > Width
                               /\ token[s][p] = [sum |-> scalar[s], count |-> 1]
    OBVIOUS
  <2>3. /\ Tiled(s)
        /\ \A k \in 1..Len(Records(s)) : k < Len(Records(s)) => k \in WithinResponse(s)
    BY <1>1, <2>1, <2>2, DeliveredTiled
  <2>4. PICK k \in 1..Len(Records(s)) : p \in Span(Records(s)[k])
    BY <2>2, <2>3 DEF Tiled
  <2>5. token[s][p] = IF k \in WithinResponse(s) THEN score[s][k]
                      ELSE [sum |-> scalar[s], count |-> 1]
    BY <1>1, <2>2, <2>3, <2>4 DEF GenerationsScored
  <2>6. CASE k \notin WithinResponse(s)
    <3>1. Len(Records(s)) \in Nat /\ RecordOf(s, k) \in Record
      BY <2>1, <2>3, RecordFacts, TiledFacts
    <3>2. k = Len(Records(s)) /\ Records(s)[k].end > Width
      BY <2>1, <2>3, <2>6, <3>1 DEF WithinResponse, Record, RecordOf
    <3>3. QED
      BY <2>4, <2>5, <2>6, <3>2
  <2>7. QED
    BY <2>4, <2>5, <2>6
<1>2. Rollout!Spec => []Rollout!LoopInv
  BY Rollout!LoopInvariant
<1> HIDE DEF Read
<1>3. Rollout!Spec /\ Spec => []Read
  BY <1>1, <1>2, TiledTracesRead, PassesAgree, PTL
<1>4. QED
  BY <1>3 DEF Read

=============================================================================
