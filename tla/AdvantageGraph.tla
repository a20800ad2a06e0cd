---------------------------- MODULE AdvantageGraph ----------------------------
(***************************************************************************)
(* compute_grpo_agentic_ablation_outcome_advantage of core_algos.py: one   *)
(* call that turns the rewards and traces of a batch of trajectories into  *)
(* one advantage per token.  ToolAgentLoop produces the traces; here they  *)
(* are any lists of records, because the estimator does not trust them.    *)
(*                                                                         *)
(* Numbers are exact.  Normalising a group divides by its size, and by a   *)
(* deviation; both are positive factors common to the group, so that an    *)
(* advantage is kept as the integer "size * score - sum of scores" in the  *)
(* unit of its group.  A SALT mean is a sum and a count.  A LATA weight is *)
(* the raw weight, in the unit of its trajectory.                          *)
(***************************************************************************)
EXTENDS Integers, Sequences, FiniteSets, Functions

CONSTANTS
    N,          \* trajectories of the batch, in its order
    Groups,     \* uids: the trajectories of one prompt
    Width,      \* response_mask.shape[1]
    Keys,       \* action, observation and root keys
    NoKey,      \* None for a key
    Malformed,  \* a record that is not a dict
    NoTrace,    \* None for a trace
    History,    \* history_length
    TauReward,  \* tau_reward, in units of the outcome
    Alpha,      \* turn_discount.alpha
    Batches     \* the batches that may be handed over

Samples == 1..N
Tokens == 1..Width

\* A span as the producer writes it: tokens start + 1 to end.  What is not an
\* integer is treated like a negative start.
Record ==
    [action: Keys \cup {NoKey}, observation: Keys \cup {NoKey},
     mergeable: BOOLEAN, start: Int, end: Int]

Batch ==
    [group: [Samples -> Groups], root: [Samples -> Keys],
     base: [Samples -> Int], outcome: [Samples -> Nat], progress: [Samples -> Nat],
     mask: [Samples -> [Tokens -> BOOLEAN]],
     trace: [Samples -> Seq(Record \cup {Malformed}) \cup {NoTrace}],
     salt: BOOLEAN, progpo: BOOLEAN, lata: BOOLEAN]

ASSUME SizesAssumption == N \in Nat /\ Width \in Nat /\ History \in Nat \ {0}
ASSUME ScalesAssumption == TauReward \in Nat \ {0} /\ Alpha \in Nat \ {0}
ASSUME BatchesAssumption == Batches \subseteq Batch
ASSUME NoKeyAssumption == NoKey \notin Keys
ASSUME MalformedAssumption == Malformed \notin Record
ASSUME NoTraceAssumption == NoTrace \notin Seq(Record \cup {Malformed})

VARIABLES
    batch,     \* the arguments of the call
    phase,     \* the function at work
    sample,    \* the trajectory its loop is at
    step,      \* the record its loop is at
    covered,   \* span_coverage or covered, of that trajectory
    history,   \* its pairs so far, in the graph
    scalar,    \* scalar_advantages
    occurrences, \* occurrence_map, the groups in one set
    score,     \* step_scores
    token,     \* token_scalars
    spans,     \* per pass and trajectory, the records whose span it took
    weight,    \* LATA's raw weights
    advantage  \* the result

loopVars == <<sample, step, covered, history>>
vars == <<batch, phase, loopVars, scalar, occurrences, score, token, spans, weight,
          advantage>>

-----------------------------------------------------------------------------
(***************************************************************************)
(* The batch.                                                              *)
(***************************************************************************)
Peers(s) == {t \in Samples : batch.group[t] = batch.group[s]}

\* _salt_records
Records(s) == IF batch.trace[s] = NoTrace THEN <<>> ELSE batch.trace[s]

\* Outcomes are not negative: the largest absolute value is the largest.
AllFail(s) == \A t \in Peers(s) : batch.outcome[t] < TauReward

\* Mutant: any difference between two outcomes makes a group mixed.
EligibleIfUnequal(s) == \E t, u \in Peers(s) : batch.outcome[t] # batch.outcome[u]

\* The groups compute_salt_step_scores works on: largest minus smallest.
Eligible(s) ==
    \E t, u \in Peers(s) : batch.outcome[t] - batch.outcome[u] >= TauReward

\* A group of one keeps its raw score (mean 0, deviation 1).
Centred(f, s) ==
    IF Peers(s) = {s} THEN f[s]
    ELSE Cardinality(Peers(s)) * f[s] - SumFunctionOnSet(f, Peers(s))

-----------------------------------------------------------------------------
(***************************************************************************)
(* compute_progpo_group_scores and compute_grpo_group_scores.  A progress  *)
(* without variance leaves its group without a signal: the centred values  *)
(* are 0.                                                                  *)
(***************************************************************************)
Fallback(s) == batch.progpo /\ AllFail(s)

ScalarOf(s) ==
    IF ~Fallback(s) THEN Centred(batch.base, s)
    ELSE Cardinality(Peers(s)) * batch.progress[s]
         - SumFunctionOnSet(batch.progress, Peers(s))

Scores ==
    /\ phase = "scores"
    /\ scalar' = [s \in Samples |-> ScalarOf(s)]
    /\ score' = [s \in Samples |->
                   [k \in 1..Len(Records(s)) |-> [sum |-> scalar'[s], count |-> 1]]]
    /\ token' = [s \in Samples |->
                   [p \in Tokens |-> [sum |-> scalar'[s], count |-> 1]]]
    /\ phase' = IF batch.salt THEN "graph"
                ELSE IF batch.lata THEN "turns" ELSE "combine"
    /\ UNCHANGED <<batch, loopVars, occurrences, spans, weight, advantage>>

-----------------------------------------------------------------------------
(***************************************************************************)
(* Three loops read the spans of a trace, each with a test of its own that *)
(* skips what cannot be read or overlaps a span it has taken before.       *)
(***************************************************************************)
Span(record) == (record.start + 1)..record.end

\* Mutant: a span that goes up to the end of the response is left out.
ReadableInside(s, record) ==
    /\ record # Malformed
    /\ record.start >= 0
    /\ record.end > record.start
    /\ record.end < Width
    /\ \A p \in Span(record) : batch.mask[s][p]

Readable(s, record) ==
    /\ record # Malformed
    /\ record.start >= 0
    /\ record.end > record.start
    /\ record.end <= Width
    /\ \A p \in Span(record) : batch.mask[s][p]

GraphTakes(s, record) == Readable(s, record) /\ Span(record) \cap covered = {}

\* Mutant: a span over an observation is broadcast where the mask allows it.
BroadcastMasked(s, record) ==
    /\ record # Malformed
    /\ record.start >= 0
    /\ record.end > record.start
    /\ record.end <= Width
    /\ Span(record) \cap covered = {}

BroadcastTakes(s, record) == Readable(s, record) /\ Span(record) \cap covered = {}

TurnTakes(s, record) == Readable(s, record) /\ Span(record) \cap covered = {}

\* SALT leaves the trajectories of other groups alone.
Visited(s) == IF phase = "turns" \/ Eligible(s) THEN Records(s) ELSE <<>>

Current == Records(sample)[step]

AtRecord(loop) ==
    /\ phase = loop
    /\ sample <= N
    /\ step <= Len(Visited(sample))

NextRecord ==
    /\ step' = step + 1
    /\ UNCHANGED sample

\* A loop is through with a trajectory.
NextSample ==
    /\ phase \in {"graph", "broadcast", "turns"}
    /\ sample <= N
    /\ step > Len(Visited(sample))
    /\ sample' = sample + 1
    /\ step' = 1
    /\ covered' = {}
    /\ history' = <<>>
    /\ UNCHANGED <<batch, phase, scalar, occurrences, score, token, spans, weight,
                   advantage>>

EndOf(loop) == phase = loop /\ sample > N

Rewind ==
    /\ sample' = 1
    /\ step' = 1
    /\ UNCHANGED <<covered, history>>

\* Mutant: the span's first token is taken for its number.
TakeFromStart(pass) ==
    /\ covered' = covered \cup (Current.start..Current.end)
    /\ spans' = [spans EXCEPT ![pass][sample] = @ \cup {step}]

Take(pass) ==
    /\ covered' = covered \cup Span(Current)
    /\ spans' = [spans EXCEPT ![pass][sample] = @ \cup {step}]

Skip == UNCHANGED <<covered, spans>>

-----------------------------------------------------------------------------
(***************************************************************************)
(* compute_salt_step_scores.                                               *)
(***************************************************************************)
ValidKey(record) ==
    /\ record # Malformed
    /\ record.mergeable
    /\ record.action # NoKey
    /\ record.observation # NoKey

\* Mutant: a step that must not be merged gets the same key everywhere.
PairAlike(record) ==
    IF ValidKey(record)
    THEN [action |-> record.action, observation |-> record.observation, origin |-> <<>>]
    ELSE [action |-> NoKey, observation |-> NoKey, origin |-> <<>>]

\* A step without a valid key has a key of its own.
Pair(record) ==
    IF ValidKey(record)
    THEN [action |-> record.action, observation |-> record.observation, origin |-> <<>>]
    ELSE [action |-> NoKey, observation |-> NoKey, origin |-> <<sample, step>>]

\* history[-history_length:]
Recent(h) == IF Len(h) <= History THEN h ELSE SubSeq(h, Len(h) - History + 1, Len(h))

State(h) ==
    IF h = <<>> THEN [root |-> batch.root[sample], recent |-> <<>>]
    ELSE [root |-> NoKey, recent |-> Recent(h)]

Transition(h, pair) ==
    [from |-> State(h), action |-> pair.action, to |-> State(Append(h, pair))]

AddStep ==
    /\ AtRecord("graph")
    /\ LET pair == Pair(Current) IN
       /\ history' = Append(history, pair)
       /\ IF GraphTakes(sample, Current) THEN Take("graph") ELSE Skip
       /\ occurrences' =
            IF ValidKey(Current) /\ GraphTakes(sample, Current)
            THEN occurrences \cup {[sample |-> sample, step |-> step,
                                    key |-> Transition(history, pair)]}
            ELSE occurrences
    /\ NextRecord
    /\ UNCHANGED <<batch, phase, scalar, score, token, weight, advantage>>

\* Mutant: one occurrence map for the whole batch.
SameEverywhere(o) == {q \in occurrences : q.key = o.key}

\* The occurrences of one transition key in one group.
Alike(o) == {q \in occurrences : q.key = o.key /\ q.sample \in Peers(o.sample)}

Mean(S) ==
    [sum |-> SumFunction([q \in S |-> scalar[q.sample]]), count |-> Cardinality(S)]

Merge ==
    /\ EndOf("graph")
    /\ score' = [s \in Samples |-> [k \in DOMAIN score[s] |->
                    IF \E o \in occurrences : o.sample = s /\ o.step = k
                    THEN Mean(Alike(CHOOSE o \in occurrences :
                                        o.sample = s /\ o.step = k))
                    ELSE score[s][k]]]
    /\ phase' = "broadcast"
    /\ Rewind
    /\ UNCHANGED <<batch, scalar, occurrences, token, spans, weight, advantage>>

(***************************************************************************)
(* _apply_salt_spans.                                                      *)
(***************************************************************************)
Broadcast ==
    /\ AtRecord("broadcast")
    /\ IF BroadcastTakes(sample, Current)
       THEN /\ Take("broadcast")
            /\ token' = [token EXCEPT ![sample] =
                           [p \in Tokens |-> IF p \in Span(Current)
                                             THEN score[sample][step] ELSE @[p]]]
       ELSE Skip /\ UNCHANGED token
    /\ NextRecord
    /\ UNCHANGED <<batch, phase, history, scalar, occurrences, score, weight, advantage>>

EndBroadcast ==
    /\ EndOf("broadcast")
    /\ phase' = IF batch.lata THEN "turns" ELSE "combine"
    /\ Rewind
    /\ UNCHANGED <<batch, scalar, occurrences, score, token, spans, weight, advantage>>

(***************************************************************************)
(* compute_lata_turn_weights.                                              *)
(***************************************************************************)
Turn ==
    /\ AtRecord("turns")
    /\ IF TurnTakes(sample, Current) THEN Take("turns") ELSE Skip
    /\ NextRecord
    /\ UNCHANGED <<batch, phase, history, scalar, occurrences, score, token, weight,
                   advantage>>

\* Mutant: turns in the order of the records.
LaterRecords(s, k) == {j \in spans["turns"][s] : j > k}

\* The turns after turn k, by the order of the spans.
LaterTurns(s, k) ==
    {j \in spans["turns"][s] : Records(s)[j].start > Records(s)[k].start}

Power[n \in Nat] == IF n = 0 THEN 1 ELSE Alpha * Power[n - 1]

TurnsAt(s, p) == {k \in spans["turns"][s] : p \in Span(Records(s)[k])}

EndTurns ==
    /\ EndOf("turns")
    /\ weight' = [s \in Samples |-> [p \in Tokens |->
                    IF TurnsAt(s, p) = {} THEN 1
                    ELSE Power[Cardinality(
                            LaterTurns(s, CHOOSE k \in TurnsAt(s, p) : TRUE))]]]
    /\ phase' = "combine"
    /\ Rewind
    /\ UNCHANGED <<batch, scalar, occurrences, score, token, spans, advantage>>

(***************************************************************************)
(* The end of the estimator: token_scalars * weights * response_mask.      *)
(***************************************************************************)
Combine ==
    /\ phase = "combine"
    /\ advantage' = [s \in Samples |-> [p \in Tokens |->
                       IF batch.mask[s][p]
                       THEN [token[s][p] EXCEPT !.sum = @ * weight[s][p]]
                       ELSE [sum |-> 0, count |-> 1]]]
    /\ phase' = "done"
    /\ UNCHANGED <<batch, loopVars, scalar, occurrences, score, token, spans, weight>>

Init ==
    /\ batch \in Batches
    /\ phase = "scores"
    /\ sample = 1
    /\ step = 1
    /\ covered = {}
    /\ history = <<>>
    /\ scalar = [s \in Samples |-> 0]
    /\ occurrences = {}
    /\ score = [s \in Samples |-> <<>>]
    /\ token = [s \in Samples |-> [p \in Tokens |-> [sum |-> 0, count |-> 1]]]
    /\ spans = [pass \in {"graph", "broadcast", "turns"} |-> [s \in Samples |-> {}]]
    /\ weight = [s \in Samples |-> [p \in Tokens |-> 1]]
    /\ advantage = [s \in Samples |-> [p \in Tokens |-> [sum |-> 0, count |-> 1]]]

Next ==
    \/ Scores \/ AddStep \/ Merge \/ Broadcast \/ EndBroadcast
    \/ Turn \/ EndTurns \/ NextSample \/ Combine

Spec == Init /\ [][Next]_vars

-----------------------------------------------------------------------------
(***************************************************************************)
(* Properties.                                                             *)
(***************************************************************************)
Score == [sum: Int, count: Nat \ {0}]
PairState == [action: Keys \cup {NoKey}, observation: Keys \cup {NoKey},
              origin: {<<>>} \cup (Samples \X (Nat \ {0}))]
Vertex == [root: Keys \cup {NoKey}, recent: Seq(PairState)]
Occurrence ==
    [sample: Samples, step: Nat \ {0}, key: [from: Vertex, action: Keys, to: Vertex]]

TypeOK ==
    /\ batch \in Batch
    /\ phase \in {"scores", "graph", "broadcast", "turns", "combine", "done"}
    /\ sample \in 1..N + 1
    /\ step \in Nat \ {0}
    /\ covered \subseteq Tokens
    /\ history \in Seq(PairState)
    /\ scalar \in [Samples -> Int]
    /\ occurrences \subseteq Occurrence
    /\ \A s \in Samples : score[s] \in Seq(Score)
    /\ token \in [Samples -> [Tokens -> Score]]
    /\ spans \in [{"graph", "broadcast", "turns"} -> [Samples -> SUBSET (Nat \ {0})]]
    /\ weight \in [Samples -> [Tokens -> Nat \ {0}]]
    /\ advantage \in [Samples -> [Tokens -> Score]]

\* Steps are only merged if the conversation before them is the same as far
\* back as the history reaches: the same actions and observations, each of
\* them mergeable and keyed, or the same beginning.  A step that must not be
\* merged separates the conversations that contain it (core_algos.py:775).
Back(o) == IF o.step - 1 < History THEN o.step - 1 ELSE History
Before(o, j) == Records(o.sample)[o.step - j]

MergedShareContext ==
    \A o, q \in occurrences :
        o # q /\ o.key = q.key =>
            /\ Back(o) = Back(q)
            /\ o.step = 1 => q.step = 1 /\ batch.root[o.sample] = batch.root[q.sample]
            /\ \A j \in 0..Back(o) :
                  /\ ValidKey(Before(o, j)) /\ ValidKey(Before(q, j))
                  /\ Before(o, j).action = Before(q, j).action
                  /\ Before(o, j).observation = Before(q, j).observation

\* Merging redistributes the advantages of a group among its steps and
\* neither adds to their sum nor takes away, nor moves any of it between
\* groups (compute_salt_step_scores, core_algos.py:662).
Steps(S) == UNION {{t} \X DOMAIN score[t] : t \in S}
ScoreAt(p) == score[p[1]][p[2]]

Counts == {ScoreAt(p).count : p \in Steps(Samples)}
Times(m, n) == m * n
CommonMultiple == FoldFunction(Times, 1, [n \in Counts |-> n])

StepsConserved ==
    phase # "scores" =>
        \A s \in Samples :
            LET merged == [p \in Steps(Peers(s)) |->
                             ScoreAt(p).sum * (CommonMultiple \div ScoreAt(p).count)]
                own == [p \in Steps(Peers(s)) |-> scalar[p[1]]]
            IN  SumFunction(merged) = CommonMultiple * SumFunction(own)

\* The graph, the broadcast and LATA each read the spans for themselves and
\* come to the same ones, so that every merged step's score is on all of its
\* tokens and on no other's (core_algos.py:780, 884, 971).
SpansReadAlike ==
    /\ phase \in {"turns", "combine", "done"} =>
          \A o \in occurrences : \A p \in Span(Records(o.sample)[o.step]) :
              token[o.sample][p] = score[o.sample][o.step]
    /\ phase \in {"combine", "done"} =>
          \A s \in Samples :
              /\ batch.salt /\ Eligible(s) => spans["graph"][s] = spans["broadcast"][s]
              /\ batch.salt /\ batch.lata /\ Eligible(s) =>
                    spans["graph"][s] = spans["turns"][s]

\* A trajectory whose group fell back on progress carries the one advantage
\* of the fallback on every token: the outcome-only graph never refines a
\* progress signal, although the two tests for it look at the outcomes in
\* different ways (core_algos.py:528, 732).
FallbackNeverRefined ==
    \A s \in Samples : Fallback(s) /\ phase # "scores" =>
        \A p \in Tokens : token[s][p] = [sum |-> scalar[s], count |-> 1]

\* The earlier of two turns weighs at least alpha times the later one,
\* whatever observations lie between them and in whatever order the records
\* come, and no turn weighs less than a token without one (core_algos.py:924).
EarlierTurnsWeighMore ==
    \A s \in Samples : phase \in {"combine", "done"} /\ batch.lata =>
        /\ \A j, k \in spans["turns"][s] :
              Records(s)[j].start < Records(s)[k].start =>
                  \A p \in Span(Records(s)[j]), q \in Span(Records(s)[k]) :
                      weight[s][p] >= Alpha * weight[s][q]
        /\ \A p, q \in Tokens : TurnsAt(s, q) = {} => weight[s][p] >= weight[s][q]

\* A trace as a rollout of ToolAgentLoop leaves it: the spans are in order and
\* together they are the generated tokens, except that the last may go on
\* beyond the response.
Tiled(s) ==
    /\ \A k \in 1..Len(Records(s)) :
          /\ Records(s)[k] # Malformed
          /\ 0 <= Records(s)[k].start /\ Records(s)[k].start < Records(s)[k].end
    /\ \A j, k \in 1..Len(Records(s)) : j < k => Records(s)[j].end <= Records(s)[k].start
    /\ \A p \in Tokens :
          batch.mask[s][p] <=> \E k \in 1..Len(Records(s)) : p \in Span(Records(s)[k])

WithinResponse(s) == {k \in 1..Len(Records(s)) : Records(s)[k].end <= Width}

\* Of such a trace nothing is skipped but a last generation that was cut: every
\* token of a mixed group's trajectory has the score of the step that
\* generated it, the tokens of a cut generation keep the trajectory's own,
\* and the turns LATA counts are the generations that were not cut
\* (core_algos.py:791, 884, 971).
GenerationsScored ==
    \A s \in Samples : Tiled(s) =>
        /\ batch.salt /\ Eligible(s) /\ phase \in {"turns", "combine", "done"} =>
              \A k \in 1..Len(Records(s)) : \A p \in Span(Records(s)[k]) \cap Tokens :
                  token[s][p] = IF k \in WithinResponse(s) THEN score[s][k]
                                ELSE [sum |-> scalar[s], count |-> 1]
        /\ batch.lata /\ phase \in {"combine", "done"} =>
              spans["turns"][s] = WithinResponse(s)

=============================================================================
