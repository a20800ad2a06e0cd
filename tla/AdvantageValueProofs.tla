------------------------- MODULE AdvantageValueProofs -------------------------
(***************************************************************************)
(* Machine-checked proofs about the numbers of AdvantageGraph, for every   *)
(* batch of every size: their types, that merging conserves the sum of a   *)
(* group's advantages, and that earlier turns weigh more.                  *)
(***************************************************************************)
EXTENDS AdvantageGraphProofs, FiniteSums

\* A step is merged once the graph is done and has a transition for it.
OccurrencesAt(s, k) == {o \in occurrences : o.sample = s /\ o.step = k}
IsMerged(s, k) == Over("graph") /\ OccurrencesAt(s, k) # {}

StepScore(s, k) ==
    IF IsMerged(s, k) THEN Mean(Alike(CHOOSE o \in occurrences : o.sample = s /\ o.step = k))
    ELSE [sum |-> scalar[s], count |-> 1]

\* What a step's score is made of, from the graph's beginning to the end.
Values ==
    /\ scalar \in [Samples -> Int]
    /\ IsFiniteSet(occurrences)
    /\ DOMAIN score = Samples
    /\ \A s \in Samples : score[s] =
          IF phase = "scores" THEN <<>>
          ELSE [k \in 1..Len(Records(s)) |-> StepScore(s, k)]

(***************************************************************************)
(* The scores.                                                             *)
(***************************************************************************)

\* A group is a finite set of trajectories, the same for all of its members.
LEMMA PeersFacts ==
  ASSUME NEW s \in Samples
  PROVE  /\ IsFiniteSet(Peers(s)) /\ Peers(s) \subseteq Samples /\ s \in Peers(s)
         /\ Cardinality(Peers(s)) \in Nat
         /\ \A t \in Peers(s) : Peers(t) = Peers(s)
<1>1. Samples = 1..N /\ N \in Nat
  BY SizesAssumption DEF Samples
<1>2. IsFiniteSet(Samples)
  BY <1>1, FS_Interval
<1>3. Peers(s) \subseteq Samples /\ s \in Peers(s) /\ \A t \in Peers(s) : Peers(t) = Peers(s)
  BY DEF Peers
<1>4. IsFiniteSet(Peers(s)) /\ Cardinality(Peers(s)) \in Nat
  BY <1>2, <1>3, FS_Subset, FS_CardinalityType
<1>5. QED
  BY <1>3, <1>4

\* Centring, by the mean or by the progress, gives integers.
LEMMA ScalarType ==
  ASSUME batch \in Batch, NEW s \in Samples
  PROVE  ScalarOf(s) \in Int
<1>1. /\ batch.base \in [Samples -> Int] /\ batch.progress \in [Samples -> Nat]
  BY DEF Batch
<1>2. /\ \A t \in Peers(s) : batch.base[t] \in Int /\ batch.progress[t] \in Int
      /\ IsFiniteSet(Peers(s)) /\ Cardinality(Peers(s)) \in Nat
      /\ batch.base[s] \in Int /\ batch.progress[s] \in Int
  BY <1>1, PeersFacts
<1>3. /\ SumFunctionOnSet(batch.base, Peers(s)) \in Int
      /\ SumFunctionOnSet(batch.progress, Peers(s)) \in Int
  BY <1>2, SumFacts
<1>4. QED
  BY <1>2, <1>3 DEF ScalarOf, Centred

\* A merged score stays as long as what it is computed from does.
LEMMA SameScores ==
  ASSUME UNCHANGED <<batch, scalar, occurrences>>, Over("graph")' <=> Over("graph"),
         NEW s, NEW k
  PROVE  StepScore(s, k)' = StepScore(s, k)
<1>1. \A o : Alike(o)' = Alike(o)
  BY DEF Alike, Peers
<1>2. \A S : Mean(S)' = Mean(S)
  BY DEF Mean
<1>3. (CHOOSE o \in occurrences : o.sample = s /\ o.step = k)'
         = (CHOOSE o \in occurrences : o.sample = s /\ o.step = k)
  OBVIOUS
<1>4. IsMerged(s, k)' <=> IsMerged(s, k)
  BY DEF IsMerged, OccurrencesAt
<1>5. QED
  BY <1>1, <1>2, <1>3, <1>4 DEF StepScore

\* Before the graph is done no step is merged.
LEMMA NotMerged ==
  ASSUME ~Over("graph") \/ occurrences = {}, NEW s, NEW k
  PROVE  StepScore(s, k) = [sum |-> scalar[s], count |-> 1]
  BY DEF StepScore, IsMerged, OccurrencesAt

\* Before the graph there are no transitions.
LEMMA NoOccurrences ==
  ASSUME SpansInv, phase = "scores"
  PROVE  occurrences = {}
<1>1. \A s, k : ~Behind("graph", s, k)
  BY DEF Behind, Over
<1>2. QED
  BY <1>1 DEF SpansInv, Spread, Taken, Passes

\* Every step of the estimator keeps the scores what they are made of.
LEMMA ValuesStep ==
  ASSUME SpansInv, Values, [Next]_vars
  PROVE  Values'
<1>1. batch \in Batch /\ Loops
  BY BatchesAssumption DEF SpansInv, Loops
<1>2. batch' = batch
  BY DEF Next, Scores, AddStep, Merge, Broadcast, EndBroadcast, Turn, EndTurns, NextSample,
         Combine, vars
<1>3. \A s : Records(s)' = Records(s)
  BY <1>2, SameBatch
<1>4. CASE Scores
  <2>1. occurrences = {} /\ occurrences' = {} /\ phase' # "scores"
    BY <1>4, NoOccurrences DEF Scores
  <2>2. scalar' \in [Samples -> Int]
    BY <1>1, <1>4, ScalarType DEF Scores
  <2>3. \A s, k : StepScore(s, k)' = [sum |-> scalar'[s], count |-> 1]
    BY <2>1 DEF StepScore, IsMerged, OccurrencesAt
  <2>4. /\ DOMAIN score' = Samples
        /\ \A s \in Samples :
              score'[s] = [k \in 1..Len(Records(s)) |-> [sum |-> scalar'[s], count |-> 1]]
    BY <1>4 DEF Scores
  <2>5. \A s \in Samples : score'[s] = [k \in 1..Len(Records(s)') |-> StepScore(s, k)']
    BY <1>3, <2>3, <2>4
  <2>6. QED
    BY <2>1, <2>2, <2>4, <2>5, FS_EmptySet DEF Values
<1>5. CASE AddStep
  <2>1. phase = "graph" /\ phase' = "graph" /\ UNCHANGED <<scalar, score>>
    BY <1>5 DEF AddStep, AtRecord
  <2>2. IsFiniteSet(occurrences')
    <3>1. PICK o : occurrences' = occurrences \/ occurrences' = occurrences \cup {o}
      BY <1>5 DEF AddStep
    <3>2. IsFiniteSet(occurrences \cup {o})
      BY FS_AddElement DEF Values
    <3>3. QED
      BY <3>1, <3>2 DEF Values
  <2>3. \A s, k : StepScore(s, k)' = StepScore(s, k)
    BY <2>1 DEF StepScore, IsMerged, Over
  <2>4. QED
    BY <1>3, <2>1, <2>2, <2>3 DEF Values
<1>6. CASE Merge
  <2>1. phase = "graph" /\ phase' = "broadcast" /\ UNCHANGED <<scalar, occurrences>>
    BY <1>6 DEF Merge, EndOf
  <2>2. Over("graph")' /\ ~Over("graph")
    BY <2>1 DEF Over
  <2>3. \A o : Alike(o)' = Alike(o)
    BY <1>2, <2>1 DEF Alike, Peers
  <2>4. \A S : Mean(S)' = Mean(S)
    BY <2>1 DEF Mean
  <2>5. \A s \in Samples : score[s] = [k \in 1..Len(Records(s)) |-> [sum |-> scalar[s], count |-> 1]]
    BY <2>1, <2>2, NotMerged DEF Values
  <2>6. \A s, k : StepScore(s, k)' =
           IF \E o \in occurrences : o.sample = s /\ o.step = k
           THEN Mean(Alike(CHOOSE o \in occurrences : o.sample = s /\ o.step = k))
           ELSE [sum |-> scalar[s], count |-> 1]
    <3>1. \A s, k : IsMerged(s, k)' <=> \E o \in occurrences : o.sample = s /\ o.step = k
      BY <2>1, <2>2 DEF IsMerged, OccurrencesAt
    <3>2. QED
      BY <2>1, <2>3, <2>4, <3>1 DEF StepScore
  <2>7. /\ DOMAIN score' = Samples
        /\ \A s \in Samples : score'[s] = [k \in DOMAIN score[s] |->
              IF \E o \in occurrences : o.sample = s /\ o.step = k
              THEN Mean(Alike(CHOOSE o \in occurrences : o.sample = s /\ o.step = k))
              ELSE score[s][k]]
    BY <1>6 DEF Merge
  <2>8. ASSUME NEW s \in Samples
        PROVE  score'[s] = [k \in 1..Len(Records(s)') |-> StepScore(s, k)']
    <3>1. /\ DOMAIN score[s] = 1..Len(Records(s))
          /\ \A k \in 1..Len(Records(s)) : score[s][k] = [sum |-> scalar[s], count |-> 1]
      <4>1. score[s] = [k \in 1..Len(Records(s)) |-> [sum |-> scalar[s], count |-> 1]]
        BY <2>5
      <4>2. QED
        BY <4>1
    <3>2. score'[s] = [k \in 1..Len(Records(s)) |-> StepScore(s, k)']
      BY <2>6, <2>7, <3>1
    <3>3. QED
      BY <1>3, <3>2
  <2>9. QED
    BY <2>1, <2>7, <2>8 DEF Values
<1>7. CASE Broadcast \/ EndBroadcast \/ Turn \/ EndTurns \/ NextSample \/ Combine \/ UNCHANGED vars
  <2>1. UNCHANGED <<scalar, occurrences, score>> /\ (phase' = "scores" <=> phase = "scores")
    BY <1>7 DEF Broadcast, EndBroadcast, Turn, EndTurns, NextSample, Combine, vars, AtRecord, EndOf
  <2>2. Over("graph")' <=> Over("graph")
    BY <1>7 DEF Broadcast, EndBroadcast, Turn, EndTurns, NextSample, Combine, vars, AtRecord,
       EndOf, Over
  <2>3. \A s, k : StepScore(s, k)' = StepScore(s, k)
    BY <1>2, <2>1, <2>2, SameScores
  <2>4. QED
    BY <1>3, <2>1, <2>3 DEF Values
<1>8. QED
  BY <1>4, <1>5, <1>6, <1>7 DEF Next

\* Two transitions of one step are one.
LEMMA OneOccurrence ==
  ASSUME Keyed, NEW o \in occurrences, NEW q \in occurrences,
         o.sample = q.sample, o.step = q.step
  PROVE  o = q
<1>1. PICK g : /\ PairsUpTo(o.sample, g, o.step - 1)
               /\ o.key = KeyOf(o.sample, g, PairOf(o.sample, o.step))
  BY DEF Keyed
<1>2. PICK h : /\ PairsUpTo(q.sample, h, q.step - 1)
               /\ q.key = KeyOf(q.sample, h, PairOf(q.sample, q.step))
  BY DEF Keyed
<1>3. /\ g \in Seq(PairState) /\ h \in Seq(PairState) /\ Len(g) = Len(h)
      /\ \A j \in 1..Len(g) : g[j] = h[j]
  BY <1>1, <1>2 DEF PairsUpTo
<1>4. g = h
  BY <1>3
<1>5. o.key = q.key
  BY <1>1, <1>2, <1>4
<1>6. /\ o = [sample |-> o.sample, step |-> o.step, key |-> o.key]
      /\ q = [sample |-> q.sample, step |-> q.step, key |-> q.key]
  BY DEF Keyed
<1>7. QED
  BY <1>5, <1>6

\* The transitions merged with one are finitely many, one at least, and of
\* its group; their mean is a score.
LEMMA AlikeFacts ==
  ASSUME Values, Keyed, NEW o \in occurrences
  PROVE  /\ o \in Alike(o) /\ IsFiniteSet(Alike(o)) /\ Cardinality(Alike(o)) \in Nat \ {0}
         /\ \A q \in Alike(o) : /\ q \in occurrences /\ q.sample \in Peers(o.sample)
                                /\ scalar[q.sample] \in Int
                                /\ Alike(q) = Alike(o)
         /\ Mean(Alike(o)).count = Cardinality(Alike(o))
         /\ Mean(Alike(o)).sum
               = SumFunctionOnSet([q \in Alike(o) |-> scalar[q.sample]], Alike(o))
         /\ Mean(Alike(o)) \in Score
<1>1. o.sample \in Samples /\ scalar \in [Samples -> Int] /\ IsFiniteSet(occurrences)
  BY DEF Keyed, Values
<1>2. o.sample \in Peers(o.sample) /\ Peers(o.sample) \subseteq Samples
      /\ \A t \in Peers(o.sample) : Peers(t) = Peers(o.sample)
  BY <1>1, PeersFacts
<1>3. o \in Alike(o) /\ IsFiniteSet(Alike(o)) /\ Alike(o) \subseteq occurrences
  BY <1>1, <1>2, FS_Subset DEF Alike
<1>4. Cardinality(Alike(o)) \in Nat \ {0}
  BY <1>3, FS_CardinalityType, FS_EmptySet
<1>5. \A q \in Alike(o) : /\ q \in occurrences /\ q.sample \in Peers(o.sample)
                          /\ scalar[q.sample] \in Int
                          /\ Alike(q) = Alike(o)
  BY <1>1, <1>2 DEF Alike
<1> DEFINE f == [q \in Alike(o) |-> scalar[q.sample]]
<1>6. Mean(Alike(o)) = [sum |-> SumFunctionOnSet(f, Alike(o)), count |-> Cardinality(Alike(o))]
  BY DEF Mean, SumFunction
<1>7. \A q \in Alike(o) : f[q] \in Int
  BY <1>5
<1> HIDE DEF f
<1>8. SumFunctionOnSet(f, Alike(o)) \in Int
  BY <1>3, <1>7, SumFacts
<1>9. Mean(Alike(o)) \in Score
  BY <1>4, <1>6, <1>8 DEF Score
<1>10. QED
  BY <1>3, <1>4, <1>5, <1>6, <1>9 DEF f

\* The scores are scores.
LEMMA StepScoreType ==
  ASSUME Values, Keyed, NEW s \in Samples, NEW k
  PROVE  StepScore(s, k) \in Score
<1>1. CASE IsMerged(s, k)
  <2> DEFINE o == CHOOSE o \in occurrences : o.sample = s /\ o.step = k
  <2>1. o \in occurrences
    BY <1>1 DEF IsMerged, OccurrencesAt
  <2> HIDE DEF o
  <2>2. Mean(Alike(o)) \in Score
    BY <2>1, AlikeFacts
  <2>3. QED
    BY <1>1, <2>2 DEF StepScore, o
<1>2. CASE ~IsMerged(s, k)
  BY <1>2 DEF StepScore, Score, Values
<1>3. QED
  BY <1>1, <1>2

(***************************************************************************)
(* The sum of a group's scores.                                            *)
(***************************************************************************)

\* The steps of some trajectories are finitely many.
LEMMA StepsFacts ==
  ASSUME Values, batch \in Batch, phase # "scores", NEW S \in SUBSET Samples
  PROVE  /\ IsFiniteSet(Steps(S))
         /\ \A p \in Steps(S) : /\ p = <<p[1], p[2]>> /\ p[1] \in S
                                /\ p[2] \in 1..Len(Records(p[1]))
                                /\ ScoreAt(p) = StepScore(p[1], p[2])
         /\ \A t \in S : \A k \in 1..Len(Records(t)) : <<t, k>> \in Steps(S)
<1>1. \A t \in S : DOMAIN score[t] = 1..Len(Records(t)) /\ Len(Records(t)) \in Nat
  BY RecordFacts DEF Values
<1>2. Samples = 1..N /\ N \in Nat
  BY SizesAssumption DEF Samples
<1>3. IsFiniteSet(S)
  <2>1. IsFiniteSet(Samples)
    BY <1>2, FS_Interval
  <2>2. QED
    BY <2>1, FS_Subset
<1> DEFINE blocks == [t \in S |-> {t} \X DOMAIN score[t]]
           F == {{t} \X DOMAIN score[t] : t \in S}
<1>4. IsFiniteSet(F)
  <2>1. blocks \in Surjection(S, F)
    BY DEF Surjection
  <2>2. QED
    BY <1>3, <2>1, FS_Surjection
<1>5. \A T \in F : IsFiniteSet(T)
  <2>1. ASSUME NEW t \in S PROVE IsFiniteSet({t} \X DOMAIN score[t])
    <3>1. IsFiniteSet(1..Len(Records(t)))
      BY <1>1, FS_Interval
    <3>2. IsFiniteSet({t}) /\ IsFiniteSet(DOMAIN score[t])
      BY <1>1, <3>1, FS_Singleton
    <3>3. QED
      BY <3>2, FS_Product
  <2>2. QED
    BY <2>1
<1>6. IsFiniteSet(Steps(S))
  BY <1>4, <1>5, FS_UNION DEF Steps
<1>7. ASSUME NEW p \in Steps(S)
      PROVE  p = <<p[1], p[2]>> /\ p[1] \in S /\ p[2] \in 1..Len(Records(p[1]))
  BY <1>1 DEF Steps
<1>8. ASSUME NEW p \in Steps(S)
      PROVE  ScoreAt(p) = StepScore(p[1], p[2])
  BY <1>7 DEF ScoreAt, Values
<1>9. \A t \in S : \A k \in 1..Len(Records(t)) : <<t, k>> \in Steps(S)
  BY <1>1 DEF Steps
<1>10. QED
  BY <1>6, <1>7, <1>8, <1>9

\* The common multiple is a multiple of every count.
LEMMA MultipleFacts ==
  ASSUME Values, Keyed, batch \in Batch, phase # "scores"
  PROVE  /\ CommonMultiple \in Int
         /\ \A p \in Steps(Samples) :
               /\ ScoreAt(p) \in Score
               /\ CommonMultiple \div ScoreAt(p).count \in Int
               /\ ScoreAt(p).count * (CommonMultiple \div ScoreAt(p).count) = CommonMultiple
<1>1. \A p \in Steps(Samples) : ScoreAt(p) \in Score
  BY StepsFacts, StepScoreType
<1>2. Counts \subseteq Nat \ {0}
  BY <1>1 DEF Counts, Score
<1>3. IsFiniteSet(Counts)
  <2> DEFINE f == [p \in Steps(Samples) |-> ScoreAt(p).count]
  <2>1. f \in Surjection(Steps(Samples), Counts)
    BY DEF Surjection, Counts
  <2>2. IsFiniteSet(Steps(Samples))
    BY StepsFacts
  <2>3. QED
    BY <2>1, <2>2, FS_Surjection
<1> DEFINE same == [n \in Counts |-> n]
<1>4. CommonMultiple = Total(FALSE, same, Counts)
  BY DEF CommonMultiple, FoldFunction, FoldFunctionOnSet, MapThenFoldSet, Times, Total, IsFold,
     Fold, Op, Unit
<1>5. \A n \in Counts : same[n] = n /\ n \in Int
  BY <1>2
<1> HIDE DEF same
<1>6. /\ Total(FALSE, same, Counts) \in Int
      /\ \A n \in Counts : Total(FALSE, same, Counts) = Op(FALSE, same[n], Total(FALSE, same, Counts \ {n}))
  <2>1. FALSE \in BOOLEAN /\ \A n \in Counts : same[n] \in Int
    BY <1>5
  <2>2. QED
    BY <1>3, <2>1, TotalTakesAny
<1>7. ASSUME NEW n \in Counts
      PROVE  CommonMultiple \div n \in Int /\ n * (CommonMultiple \div n) = CommonMultiple
  <2> DEFINE rest == Total(FALSE, same, Counts \ {n})
  <2>1. rest \in Int
    <3>1. IsFiniteSet(Counts \ {n}) /\ \A m \in Counts \ {n} : same[m] \in Int
      BY <1>3, <1>5, FS_RemoveElement
    <3>2. QED
      BY <3>1, TotalTakesAny
  <2>2. CommonMultiple = n * rest
    BY <1>4, <1>5, <1>6 DEF Op
  <2> HIDE DEF rest
  <2>3. n \in Nat \ {0}
    BY <1>2
  <2>4. (n * rest) \div n = rest
    BY <2>1, <2>3
  <2>5. QED
    BY <2>1, <2>2, <2>4
<1>8. ASSUME NEW p \in Steps(Samples) PROVE ScoreAt(p).count \in Counts
  BY DEF Counts
<1>9. QED
  BY <1>1, <1>4, <1>6, <1>7, <1>8

\* The steps merged with step p.
Block(p) ==
    IF IsMerged(p[1], p[2])
    THEN {<<q.sample, q.step>> :
             q \in Alike(CHOOSE o \in occurrences : o.sample = p[1] /\ o.step = p[2])}
    ELSE {p}

\* The steps of a group fall into blocks of steps merged with each other.
LEMMA BlockFacts ==
  ASSUME Values, Keyed, batch \in Batch, phase # "scores", NEW s \in Samples,
         NEW p \in Steps(Peers(s))
  PROVE  /\ p \in Block(p) /\ Block(p) \subseteq Steps(Peers(s))
         /\ \A y \in Block(p) : Block(y) = Block(p)
<1>1. p = <<p[1], p[2]>> /\ p[1] \in Peers(s)
  BY PeersFacts, StepsFacts
<1>2. CASE ~IsMerged(p[1], p[2])
  BY <1>2 DEF Block
<1>3. CASE IsMerged(p[1], p[2])
  <2> DEFINE o == CHOOSE o \in occurrences : o.sample = p[1] /\ o.step = p[2]
  <2>1. o \in occurrences /\ o.sample = p[1] /\ o.step = p[2]
    BY <1>3 DEF IsMerged, OccurrencesAt
  <2>2. Block(p) = {<<q.sample, q.step>> : q \in Alike(o)}
    BY <1>3 DEF Block
  <2> HIDE DEF o
  <2>3. /\ o \in Alike(o)
        /\ \A q \in Alike(o) : /\ q \in occurrences /\ q.sample \in Peers(o.sample)
                               /\ Alike(q) = Alike(o)
    BY <2>1, AlikeFacts
  <2>4. p \in Block(p)
    BY <1>1, <2>1, <2>2, <2>3
  <2>5. ASSUME NEW q \in Alike(o)
        PROVE  /\ <<q.sample, q.step>> \in Steps(Peers(s))
               /\ Block(<<q.sample, q.step>>) = Block(p)
    <3>1. q \in occurrences /\ q.sample \in Peers(s) /\ q.step \in 1..Len(Records(q.sample))
      BY <1>1, <2>1, <2>3, PeersFacts DEF Keyed
    <3>2. <<q.sample, q.step>> \in Steps(Peers(s))
      BY <3>1, PeersFacts, StepsFacts
    <3> DEFINE r == CHOOSE r \in occurrences : r.sample = q.sample /\ r.step = q.step
    <3>3. r \in occurrences /\ r.sample = q.sample /\ r.step = q.step
      BY <3>1
    <3>4. IsMerged(q.sample, q.step)
      BY <1>3, <3>1 DEF IsMerged, OccurrencesAt
    <3>5. Block(<<q.sample, q.step>>) = {<<t.sample, t.step>> : t \in Alike(r)}
      BY <3>4 DEF Block
    <3> HIDE DEF r
    <3>6. r = q
      BY <3>1, <3>3, OneOccurrence
    <3>7. QED
      BY <2>2, <2>3, <3>2, <3>5, <3>6
  <2>6. QED
    BY <2>2, <2>4, <2>5
<1>4. QED
  BY <1>2, <1>3

\* In a block of merged steps, each has the mean of what each had: together
\* they have what they had.
LEMMA BlockSum ==
  ASSUME Values, Keyed, batch \in Batch, phase # "scores", NEW s \in Samples,
         NEW p \in Steps(Peers(s)), NEW merged, NEW own,
         \A y \in Steps(Peers(s)) :
            /\ merged[y] = ScoreAt(y).sum * (CommonMultiple \div ScoreAt(y).count)
            /\ own[y] = CommonMultiple * scalar[y[1]]
  PROVE  SumFunctionOnSet(merged, Block(p)) = SumFunctionOnSet(own, Block(p))
<1> DEFINE M == CommonMultiple
<1>1. /\ p = <<p[1], p[2]>> /\ p[1] \in Samples /\ ScoreAt(p) = StepScore(p[1], p[2])
      /\ p \in Steps(Samples) /\ scalar[p[1]] \in Int
  BY PeersFacts, StepsFacts DEF Values
<1>2. M \in Int
  BY MultipleFacts
<1>3. p \in Block(p) /\ Block(p) \subseteq Steps(Peers(s))
  BY BlockFacts
<1>4. CASE ~IsMerged(p[1], p[2])
  <2>1. Block(p) = {p} /\ ScoreAt(p) = [sum |-> scalar[p[1]], count |-> 1]
    BY <1>1, <1>4 DEF Block, StepScore
  <2>2. M \div 1 = M
    BY <1>2
  <2>3. merged[p] = own[p]
    BY <1>1, <1>2, <2>1, <2>2
  <2>4. IsFiniteSet(Block(p)) /\ \A y \in Block(p) : merged[y] = own[y]
    BY <2>1, <2>3, FS_Singleton
  <2>5. QED
    BY <2>4, SumSame
<1>5. CASE IsMerged(p[1], p[2])
  <2> DEFINE o == CHOOSE o \in occurrences : o.sample = p[1] /\ o.step = p[2]
             A == Alike(o)
             name == [q \in A |-> <<q.sample, q.step>>]
             each == [q \in A |-> Mean(A).sum * (M \div Mean(A).count)]
             had == [q \in A |-> scalar[q.sample]]
             share == [q \in A |-> M * scalar[q.sample]]
  <2>1. o \in occurrences /\ o.sample = p[1] /\ o.step = p[2]
    BY <1>5 DEF IsMerged, OccurrencesAt
  <2>2. Block(p) = {name[q] : q \in A}
    BY <1>5 DEF Block
  <2>3. ScoreAt(p) = Mean(A)
    BY <1>1, <1>5 DEF StepScore
  <2> HIDE DEF o
  <2>4. /\ IsFiniteSet(A) /\ Cardinality(A) \in Nat \ {0} /\ Mean(A).count = Cardinality(A)
        /\ Mean(A).sum = SumFunctionOnSet(had, A) /\ Mean(A).sum \in Int
        /\ \A q \in A : /\ q \in occurrences /\ scalar[q.sample] \in Int
                        /\ Alike(q) = A
    BY <2>1, AlikeFacts DEF Score
  <2>5. M \div Mean(A).count \in Int /\ Mean(A).count * (M \div Mean(A).count) = M
    BY <1>1, <2>3, MultipleFacts
  <2>6. name \in Bijection(A, Block(p))
    <3>1. \A q, r \in A : name[q] = name[r] => q = r
      BY <2>4, OneOccurrence
    <3>2. \A y \in Block(p) : \E q \in A : y = name[q]
      BY <2>2
    <3>3. name \in [A -> Block(p)]
      BY <2>2
    <3> HIDE DEF name, A
    <3>4. QED
      BY <3>1, <3>2, <3>3 DEF Bijection, Injection, Surjection, IsInjective
  <2>7. ASSUME NEW q \in A
        PROVE  merged[name[q]] = each[q] /\ own[name[q]] = share[q]
    <3>1. name[q] = <<q.sample, q.step>> /\ name[q] \in Block(p)
      BY <2>2
    <3>2. name[q] \in Steps(Peers(s)) /\ ScoreAt(name[q]) = StepScore(q.sample, q.step)
      BY <1>3, <3>1, PeersFacts, StepsFacts
    <3>3. q \in occurrences /\ Alike(q) = A
      BY <2>4
    <3> DEFINE r == CHOOSE r \in occurrences : r.sample = q.sample /\ r.step = q.step
    <3>4. r \in occurrences /\ r.sample = q.sample /\ r.step = q.step
      BY <3>3
    <3>5. StepScore(q.sample, q.step) = Mean(Alike(r))
      BY <1>5, <3>3 DEF StepScore, IsMerged, OccurrencesAt
    <3> HIDE DEF r
    <3>6. r = q
      BY <3>3, <3>4, OneOccurrence
    <3>7. ScoreAt(name[q]) = Mean(A)
      BY <3>2, <3>3, <3>5, <3>6
    <3>8. QED
      BY <3>1, <3>2, <3>7
  <2>8. \A q \in A : each[q] \in Int /\ had[q] \in Int /\ share[q] \in Int /\ share[q] = M * had[q]
    BY <1>2, <2>4, <2>5
  <2>9. \A q \in A : each[q] = Mean(A).sum * (M \div Mean(A).count)
    OBVIOUS
  <2> HIDE DEF A, M, name, each, had, share
  <2>10. SumFunctionOnSet(merged, Block(p)) = SumFunctionOnSet(each, A)
    <3>1. \A q \in A : each[q] \in Int /\ merged[name[q]] = each[q]
      BY <2>7, <2>8
    <3>2. IsFiniteSet(A)
      BY <2>4
    <3>3. QED
      BY <2>6, <3>1, <3>2, SumRenamed
  <2>11. SumFunctionOnSet(own, Block(p)) = SumFunctionOnSet(share, A)
    <3>1. \A q \in A : share[q] \in Int /\ own[name[q]] = share[q]
      BY <2>7, <2>8
    <3>2. IsFiniteSet(A)
      BY <2>4
    <3>3. QED
      BY <2>6, <3>1, <3>2, SumRenamed
  <2>12. SumFunctionOnSet(share, A) = M * Mean(A).sum
    BY <1>2, <2>4, <2>8, SumScaled
  <2>13. SumFunctionOnSet(each, A) = Cardinality(A) * (Mean(A).sum * (M \div Mean(A).count))
    <3>1. Mean(A).sum * (M \div Mean(A).count) \in Int
      BY <2>4, <2>5
    <3>2. QED
      BY <2>4, <2>9, <3>1, SumConstant
  <2>14. \A c, a, d \in Int : c * (a * d) = (c * d) * a
    OBVIOUS
  <2>15. QED
    BY <1>2, <2>4, <2>5, <2>10, <2>11, <2>12, <2>13, <2>14
<1>6. QED
  BY <1>4, <1>5

\* Merging neither adds to the sum of a group's advantages nor takes away.
LEMMA SumsKept ==
  ASSUME Values, Keyed, batch \in Batch
  PROVE  StepsConserved
<1> SUFFICES ASSUME phase # "scores", NEW s \in Samples
             PROVE  LET merged == [p \in Steps(Peers(s)) |->
                                     ScoreAt(p).sum * (CommonMultiple \div ScoreAt(p).count)]
                        own == [p \in Steps(Peers(s)) |-> scalar[p[1]]]
                    IN  SumFunction(merged) = CommonMultiple * SumFunction(own)
  BY DEF StepsConserved
<1> DEFINE S == Steps(Peers(s))
           M == CommonMultiple
           merged == [p \in S |-> ScoreAt(p).sum * (M \div ScoreAt(p).count)]
           own == [p \in S |-> scalar[p[1]]]
           share == [p \in S |-> M * scalar[p[1]]]
           block == [p \in S |-> Block(p)]
<1>1. IsFiniteSet(S) /\ M \in Int
  BY PeersFacts, StepsFacts, MultipleFacts
<1>2. block \in [S -> SUBSET S] /\ \A p \in S : p \in block[p] /\ \A y \in block[p] : block[y] = block[p]
  <2>1. \A p \in S : p \in Block(p) /\ Block(p) \subseteq S /\ \A y \in Block(p) : Block(y) = Block(p)
    BY BlockFacts
  <2> HIDE DEF S
  <2>2. QED
    BY <2>1
<1>3. ASSUME NEW p \in S
      PROVE  merged[p] \in Int /\ own[p] \in Int /\ share[p] \in Int /\ share[p] = M * own[p]
  <2>1. scalar[p[1]] \in Int /\ p \in Steps(Samples)
    BY PeersFacts, StepsFacts DEF Values
  <2>2. ScoreAt(p) \in Score /\ M \div ScoreAt(p).count \in Int
    BY <2>1, MultipleFacts
  <2> HIDE DEF M
  <2>3. ScoreAt(p).sum * (M \div ScoreAt(p).count) \in Int
    BY <2>2 DEF Score
  <2>4. QED
    BY <1>1, <2>1, <2>3
<1>4. ASSUME NEW p \in S
      PROVE  SumFunctionOnSet(merged, block[p]) = SumFunctionOnSet(share, block[p])
  <2>1. \A y \in Steps(Peers(s)) :
           /\ merged[y] = ScoreAt(y).sum * (CommonMultiple \div ScoreAt(y).count)
           /\ share[y] = CommonMultiple * scalar[y[1]]
    OBVIOUS
  <2>2. block[p] = Block(p) /\ p \in Steps(Peers(s))
    OBVIOUS
  <2> HIDE DEF merged, share, block, S
  <2>3. SumFunctionOnSet(merged, Block(p)) = SumFunctionOnSet(share, Block(p))
    BY <2>1, <2>2, BlockSum
  <2>4. QED
    BY <2>2, <2>3
<1> HIDE DEF S, M, merged, own, share, block
<1>5. SumFunctionOnSet(merged, S) = SumFunctionOnSet(share, S)
  BY <1>1, <1>2, <1>3, <1>4, SumOfBlocks
<1>6. SumFunctionOnSet(share, S) = M * SumFunctionOnSet(own, S)
  BY <1>1, <1>3, SumScaled
<1>7. SumFunctionOnSet(merged, S) = M * SumFunctionOnSet(own, S)
  BY <1>5, <1>6
<1>8. SumFunction(merged) = SumFunctionOnSet(merged, S) /\ SumFunction(own) = SumFunctionOnSet(own, S)
  BY DEF SumFunction, merged, own
<1>9. QED
  BY <1>7, <1>8 DEF S, M, merged, own

\* In every reachable state the scores are what the graph makes of them.
THEOREM ScoresKept == Spec => [](SpansInv /\ Histories /\ Keyed /\ Values)
<1>1. Init => Histories /\ Keyed /\ Values
  <2>1. SUFFICES ASSUME Init PROVE Histories /\ Keyed /\ Values
    OBVIOUS
  <2>2. Histories /\ Keyed
    BY <2>1 DEF Init, Histories, Keyed
  <2>3. IsFiniteSet(occurrences) /\ phase = "scores"
    BY <2>1, FS_EmptySet DEF Init
  <2>4. scalar \in [Samples -> Int] /\ DOMAIN score = Samples /\ \A s \in Samples : score[s] = <<>>
    BY <2>1 DEF Init
  <2>5. QED
    BY <2>2, <2>3, <2>4 DEF Values
<1>2. SpansInv /\ Histories /\ Keyed /\ [Next]_vars => Histories' /\ Keyed'
  BY KeyedStep
<1>3. SpansInv /\ Values /\ [Next]_vars => Values'
  BY ValuesStep
<1>4. QED
  BY <1>1, <1>2, <1>3, PassesAgree, PTL DEF Spec

\* Merging redistributes the advantages of a group among its steps and neither
\* adds to their sum nor takes away, nor moves any of it between groups
\* (compute_salt_step_scores, core_algos.py:662): for every batch.
THEOREM MergingConserves == Spec => []StepsConserved
<1>1. SpansInv /\ Keyed /\ Values => StepsConserved
  <2>1. SpansInv => batch \in Batch
    BY BatchesAssumption DEF SpansInv, Loops
  <2>2. QED
    BY <2>1, SumsKept
<1>2. QED
  BY <1>1, ScoresKept, PTL

(***************************************************************************)
(* Powers of Alpha.                                                        *)
(***************************************************************************)

\* The recursion of Power has a solution, a product of Alphas.
LEMMA PowerFacts ==
  /\ Power[0] = 1
  /\ \A n \in Nat : Power[n + 1] = Alpha * Power[n]
<1> DEFINE Solves(f) == f = [n \in Nat |-> IF n = 0 THEN 1 ELSE Alpha * f[n - 1]]
           alphas == [i \in Nat |-> Alpha]
           f == [n \in Nat |-> Total(FALSE, alphas, 1..n)]
<1>1. \A i \in Nat : alphas[i] = Alpha /\ Alpha \in Int
  BY ScalesAssumption
<1>2. \A n \in Nat : f[n] = Total(FALSE, alphas, 1..n)
  OBVIOUS
<1> HIDE DEF alphas
<1>3. ASSUME NEW n \in Nat PROVE f[n] = IF n = 0 THEN 1 ELSE Alpha * f[n - 1]
  <2>1. IsFiniteSet(1..n) /\ \A i \in 1..n : alphas[i] \in Int
    BY <1>1, FS_Interval
  <2>2. CASE n = 0
    <3>1. 1..n = {}
      BY <2>2
    <3>2. Total(FALSE, alphas, 1..n) = Unit(FALSE)
      BY <2>1, <3>1, TotalFacts
    <3>3. QED
      BY <1>2, <2>2, <3>2 DEF Unit
  <2>3. CASE n # 0
    <3>1. n \in 1..n /\ (1..n) \ {n} = 1..(n - 1) /\ n - 1 \in Nat
      BY <2>3
    <3>2. Total(FALSE, alphas, 1..n) = Op(FALSE, alphas[n], Total(FALSE, alphas, (1..n) \ {n}))
      <4> DEFINE S == 1..n
      <4>1. IsFiniteSet(S) /\ (\A i \in S : alphas[i] \in Int) /\ n \in S /\ FALSE \in BOOLEAN
        BY <2>1, <3>1
      <4> HIDE DEF S
      <4>2. \A i \in S : Total(FALSE, alphas, S) = Op(FALSE, alphas[i], Total(FALSE, alphas, S \ {i}))
        BY <4>1, TotalTakesAny
      <4>3. Total(FALSE, alphas, S) = Op(FALSE, alphas[n], Total(FALSE, alphas, S \ {n}))
        BY <4>1, <4>2
      <4>4. QED
        BY <4>3 DEF S
    <3>3. f[n] = Op(FALSE, Alpha, f[n - 1])
      BY <1>1, <1>2, <3>1, <3>2
    <3>4. QED
      BY <2>3, <3>3 DEF Op
  <2>4. QED
    BY <2>2, <2>3
<1>4. Solves(f)
  BY <1>3
<1>5. Power = CHOOSE g : Solves(g)
  BY DEF Power
<1> HIDE DEF f
<1>6. Solves(Power)
  <2> HIDE DEF Solves
  <2>1. QED
    BY <1>4, <1>5
<1>7. \A n \in Nat : Power[n] = IF n = 0 THEN 1 ELSE Alpha * Power[n - 1]
  BY <1>6
<1>8. QED
  BY <1>7

\* Powers are positive, and more turns to come weigh no less.
LEMMA PowerGrows ==
  /\ \A n \in Nat : Power[n] \in Nat \ {0}
  /\ \A m, n \in Nat : n < m => Power[m] >= Alpha * Power[n]
<1>1. Alpha \in Nat \ {0}
  BY ScalesAssumption
<1>2. ASSUME NEW a \in Nat \ {0} PROVE Alpha * a \in Nat \ {0} /\ Alpha * a >= a
  <2>1. Alpha * a = a + (Alpha - 1) * a /\ (Alpha - 1) * a \in Nat
    <3>1. Alpha - 1 \in Nat
      BY <1>1
    <3>2. \A b \in Nat : b * a \in Nat /\ (b + 1) * a = a + b * a
      OBVIOUS
    <3>3. (Alpha - 1) + 1 = Alpha
      BY <1>1
    <3>4. QED
      BY <3>1, <3>2, <3>3
  <2>2. QED
    BY <2>1
<1>3. ASSUME NEW n \in Nat PROVE Power[n] \in Nat \ {0}
  <2> DEFINE Bad == {k \in Nat : Power[k] \notin Nat \ {0}}
  <2>1. SUFFICES ASSUME Bad # {} PROVE FALSE
    BY <1>3
  <2>2. PICK m \in Bad : \A k \in Bad : m <= k
    BY <2>1, LeastNatural
  <2>3. m # 0 /\ m - 1 \in Nat /\ m - 1 \notin Bad
    BY <2>2, PowerFacts
  <2>4. Power[(m - 1) + 1] = Alpha * Power[m - 1] /\ (m - 1) + 1 = m
    BY <2>2, <2>3, PowerFacts
  <2>5. QED
    BY <1>2, <2>2, <2>3, <2>4
<1>4. ASSUME NEW n \in Nat, NEW m \in Nat, n < m PROVE Power[m] >= Alpha * Power[n]
  <2> DEFINE Bad == {k \in Nat : n < k /\ ~(Power[k] >= Alpha * Power[n])}
  <2>1. SUFFICES ASSUME Bad # {} PROVE FALSE
    BY <1>4
  <2>2. PICK k \in Bad : \A i \in Bad : k <= i
    BY <2>1, LeastNatural
  <2>3. k - 1 \in Nat /\ (k - 1) + 1 = k /\ k - 1 \notin Bad
    BY <2>2
  <2>4. Power[k] = Alpha * Power[k - 1] /\ Power[k - 1] \in Nat \ {0} /\ Power[n] \in Nat \ {0}
    BY <1>3, <2>3, PowerFacts
  <2>5. Power[k] >= Power[k - 1] /\ Power[k] \in Nat /\ Alpha * Power[n] \in Nat
    BY <1>2, <2>4
  <2>6. n # k - 1
    BY <2>2, <2>4, <2>5
  <2>7. Power[k - 1] >= Alpha * Power[n]
    BY <2>2, <2>3, <2>6
  <2> HIDE DEF Bad
  <2>8. Power[k] >= Alpha * Power[n]
    BY <2>4, <2>5, <2>7
  <2>9. QED
    BY <2>2, <2>8 DEF Bad
<1>5. QED
  BY <1>3, <1>4

(***************************************************************************)
(* The weights.                                                            *)
(***************************************************************************)

\* The spans LATA takes of a trajectory have no token in common.
Apart == \A s \in Samples : \A j, k \in spans["turns"][s] :
    j # k => SpanOf(s, j) \cap SpanOf(s, k) = {}

WeightOf(s, p) ==
    IF TurnsAt(s, p) = {} THEN 1
    ELSE Power[Cardinality(LaterTurns(s, CHOOSE k \in TurnsAt(s, p) : TRUE))]

\* Once LATA is done the weights are those of its spans.
Weighted == phase \in {"combine", "done"} /\ batch.lata =>
    \A s \in Samples, p \in Tokens : weight[s][p] = WeightOf(s, p)

\* The turns after a turn are finitely many.
LEMMA LaterFacts ==
  ASSUME SpansInv, NEW s \in Samples, NEW k
  PROVE  IsFiniteSet(LaterTurns(s, k)) /\ Cardinality(LaterTurns(s, k)) \in Nat
<1>1. batch \in Batch
  BY BatchesAssumption DEF SpansInv, Loops
<1>2. IsFiniteSet(1..Len(Records(s)))
  BY <1>1, RecordFacts, FS_Interval
<1>3. LaterTurns(s, k) \in SUBSET (1..Len(Records(s)))
  BY DEF LaterTurns, SpansInv, Taken, Passes
<1>4. QED
  BY <1>2, <1>3, FS_Subset, FS_CardinalityType

\* A weight is a positive integer.
LEMMA WeightType ==
  ASSUME SpansInv, NEW s \in Samples, NEW p
  PROVE  WeightOf(s, p) \in Nat \ {0}
<1>1. \A k : Cardinality(LaterTurns(s, k)) \in Nat
  BY LaterFacts
<1>2. QED
  BY <1>1, PowerGrows DEF WeightOf

\* LATA takes a span that meets none of those taken, and the weights stay.
LEMMA WeightStep ==
  ASSUME SpansInv, Apart, Weighted, [Next]_vars
  PROVE  Apart' /\ Weighted'
<1>1. batch \in Batch /\ Loops
  BY BatchesAssumption DEF SpansInv, Loops
<1>2. batch' = batch
  BY DEF Next, Scores, AddStep, Merge, Broadcast, EndBroadcast, Turn, EndTurns, NextSample,
         Combine, vars
<1>3. ASSUME \A s \in Samples : spans'["turns"][s] = spans["turns"][s] PROVE Apart'
  BY <1>2, <1>3, SameBatch DEF Apart
<1>4. CASE Turn
  <2> DEFINE takes == TurnTakes(sample, Current)
  <2>1. takes \in BOOLEAN
    BY DEF TurnTakes, Readable
  <2>2. takes <=> Readable(sample, Current) /\ Span(Current) \cap covered = {}
    BY DEF TurnTakes
  <2>3. IF takes THEN Take("turns") ELSE Skip
    BY <1>4 DEF Turn
  <2>4. /\ "turns" \in Passes /\ AtRecord("turns") /\ NextRecord /\ UNCHANGED <<batch, phase>>
        /\ phase = "turns" /\ sample \in Samples
    BY <1>4, AtFacts DEF Turn, Passes
  <2> HIDE DEF takes
  <2>5. /\ \A s \in Samples : s # sample => spans'["turns"][s] = spans["turns"][s]
        /\ spans'["turns"][sample] =
              IF takes THEN spans["turns"][sample] \cup {step} ELSE spans["turns"][sample]
        /\ takes => \A j \in spans["turns"][sample] :
                       SpanOf(sample, j) \cap SpanOf(sample, step) = {}
    BY <2>1, <2>2, <2>3, <2>4, TakeFacts
  <2>6. \A s \in Samples : \A j, k \in spans'["turns"][s] :
           j # k => SpanOf(s, j) \cap SpanOf(s, k) = {}
    BY <2>4, <2>5 DEF Apart
  <2>7. Apart'
    BY <1>2, <2>6, SameBatch DEF Apart
  <2>8. QED
    BY <2>4, <2>7 DEF Weighted
<1>5. CASE AddStep \/ Broadcast
  <2>1. \A s \in Samples : spans'["turns"][s] = spans["turns"][s]
    BY <1>1, <1>5 DEF AddStep, Broadcast, Take, Skip, Loops, Passes
  <2>2. phase' \notin {"combine", "done"}
    BY <1>5 DEF AddStep, Broadcast, AtRecord
  <2>3. QED
    BY <1>3, <2>1, <2>2 DEF Weighted
<1>6. CASE EndTurns
  <2>1. UNCHANGED spans /\ phase' = "combine"
    BY <1>6 DEF EndTurns
  <2>2. \A s \in Samples, p \in Tokens : weight'[s][p] = WeightOf(s, p)
    BY <1>6 DEF EndTurns, WeightOf
  <2>3. \A s, p : WeightOf(s, p)' = WeightOf(s, p)
    BY <1>2, <2>1 DEF WeightOf, TurnsAt, LaterTurns, Records, Span
  <2>4. QED
    BY <1>2, <1>3, <2>1, <2>2, <2>3 DEF Weighted
<1>7. CASE Scores \/ Merge \/ EndBroadcast
  <2>1. UNCHANGED spans /\ (phase' \in {"combine", "done"} => ~batch.lata)
    BY <1>7 DEF Scores, Merge, EndBroadcast
  <2>2. QED
    BY <1>2, <1>3, <2>1 DEF Weighted
<1>8. CASE NextSample \/ Combine \/ UNCHANGED vars
  <2>1. /\ UNCHANGED <<spans, weight>>
        /\ phase' \in {"combine", "done"} => phase \in {"combine", "done"}
    BY <1>8 DEF NextSample, Combine, vars
  <2>2. \A s, p : WeightOf(s, p)' = WeightOf(s, p)
    BY <1>2, <2>1 DEF WeightOf, TurnsAt, LaterTurns, Records, Span
  <2>3. QED
    BY <1>2, <1>3, <2>1, <2>2 DEF Weighted
<1>9. QED
  BY <1>4, <1>5, <1>6, <1>7, <1>8 DEF Next

\* Of two turns the earlier one has more turns to come, the later one among
\* them.
LEMMA EarlierMore ==
  ASSUME SpansInv, Apart, Weighted
  PROVE  EarlierTurnsWeighMore
<1> SUFFICES ASSUME NEW s \in Samples, phase \in {"combine", "done"}, batch.lata
             PROVE  /\ \A j, k \in spans["turns"][s] :
                          Records(s)[j].start < Records(s)[k].start =>
                              \A p \in Span(Records(s)[j]), q \in Span(Records(s)[k]) :
                                  weight[s][p] >= Alpha * weight[s][q]
                    /\ \A p, q \in Tokens : TurnsAt(s, q) = {} => weight[s][p] >= weight[s][q]
  BY DEF EarlierTurnsWeighMore
<1>1. batch \in Batch
  BY BatchesAssumption DEF SpansInv, Loops
<1>2. ASSUME NEW i \in spans["turns"][s]
      PROVE  /\ RecordOf(s, i) \in Record /\ RecordOf(s, i) = Records(s)[i]
             /\ SpanOf(s, i) \subseteq Tokens /\ Records(s)[i].start \in Int
  <2>1. i \in 1..Len(Records(s)) /\ Readable(s, RecordOf(s, i))
    BY DEF SpansInv, Taken, Passes
  <2>2. RecordOf(s, i) \in Record /\ SpanOf(s, i) \subseteq Tokens
    BY <1>1, <2>1, ReadableFacts
  <2>3. QED
    BY <2>2 DEF RecordOf, Record
<1>3. ASSUME NEW i \in spans["turns"][s], NEW r \in SpanOf(s, i)
      PROVE  weight[s][r] = Power[Cardinality(LaterTurns(s, i))]
  <2>1. TurnsAt(s, r) = {i}
    BY <1>3 DEF TurnsAt, Apart, SpanOf, RecordOf
  <2>2. (CHOOSE n \in TurnsAt(s, r) : TRUE) = i
    BY <2>1
  <2>3. r \in Tokens
    BY <1>2, <1>3
  <2>4. QED
    BY <2>1, <2>2, <2>3 DEF Weighted, WeightOf
<1>4. ASSUME NEW j \in spans["turns"][s], NEW k \in spans["turns"][s],
             Records(s)[j].start < Records(s)[k].start,
             NEW p \in Span(Records(s)[j]), NEW q \in Span(Records(s)[k])
      PROVE  weight[s][p] >= Alpha * weight[s][q]
  <2>1. p \in SpanOf(s, j) /\ q \in SpanOf(s, k)
    BY <1>4 DEF SpanOf, RecordOf
  <2>2. /\ LaterTurns(s, k) \subseteq LaterTurns(s, j)
        /\ k \in LaterTurns(s, j) /\ k \notin LaterTurns(s, k)
    BY <1>2, <1>4 DEF LaterTurns
  <2>3. Cardinality(LaterTurns(s, k)) < Cardinality(LaterTurns(s, j))
    <3>1. /\ IsFiniteSet(LaterTurns(s, j)) /\ Cardinality(LaterTurns(s, j)) \in Nat
          /\ Cardinality(LaterTurns(s, k)) \in Nat
      BY LaterFacts
    <3>2. /\ Cardinality(LaterTurns(s, k)) <= Cardinality(LaterTurns(s, j))
          /\ Cardinality(LaterTurns(s, j)) = Cardinality(LaterTurns(s, k))
                => LaterTurns(s, j) = LaterTurns(s, k)
      BY <2>2, <3>1, FS_Subset
    <3>3. QED
      BY <2>2, <3>1, <3>2
  <2>4. Power[Cardinality(LaterTurns(s, j))] >= Alpha * Power[Cardinality(LaterTurns(s, k))]
    BY <2>3, LaterFacts, PowerGrows
  <2>5. QED
    BY <1>3, <2>1, <2>4
<1>5. ASSUME NEW p \in Tokens, NEW q \in Tokens, TurnsAt(s, q) = {}
      PROVE  weight[s][p] >= weight[s][q]
  <2>1. weight[s][p] = WeightOf(s, p) /\ weight[s][q] = 1
    BY <1>5 DEF Weighted, WeightOf
  <2>2. WeightOf(s, p) \in Nat \ {0}
    BY WeightType
  <2>3. QED
    BY <2>1, <2>2
<1>6. QED
  BY <1>4, <1>5

\* The earlier of two turns weighs at least alpha times the later one, in
\* whatever order the records come (core_algos.py:924), for any number of them.
THEOREM EarlierWeighMore == Spec => []EarlierTurnsWeighMore
<1>1. Init => Apart /\ Weighted
  BY DEF Init, Apart, Weighted
<1>2. SpansInv /\ Apart /\ Weighted /\ [Next]_vars => Apart' /\ Weighted'
  BY WeightStep
<1>3. SpansInv /\ Apart /\ Weighted => EarlierTurnsWeighMore
  BY EarlierMore
<1>4. QED
  BY <1>1, <1>2, <1>3, PassesAgree, PTL DEF Spec

(***************************************************************************)
(* The types.                                                              *)
(***************************************************************************)

\* What TypeOK says beyond Loops and Values.
Typed ==
    /\ history \in Seq(PairState)
    /\ covered \subseteq Tokens
    /\ token \in [Samples -> [Tokens -> Score]]
    /\ weight \in [Samples -> [Tokens -> Nat \ {0}]]
    /\ advantage \in [Samples -> [Tokens -> Score]]

\* A span taken lies within the response.
LEMMA TakenWithin ==
  ASSUME SpansInv, NEW pass \in Passes, AtRecord(pass), Readable(sample, Current)
  PROVE  Span(Current) \subseteq Tokens
<1>1. /\ sample \in Samples /\ step \in 1..Len(Records(sample)) /\ batch \in Batch
      /\ Current = RecordOf(sample, step)
  BY AtFacts, BatchesAssumption DEF SpansInv, Loops
<1>2. QED
  BY <1>1, ReadableFacts DEF SpanOf

\* Every step keeps the types.
LEMMA TypedStep ==
  ASSUME SpansInv, Keyed, Values, Typed, [Next]_vars
  PROVE  Typed'
<1>1. batch \in Batch /\ Loops
  BY BatchesAssumption DEF SpansInv, Loops
<1>2. CASE Scores
  <2>1. \A s \in Samples : [sum |-> ScalarOf(s), count |-> 1] \in Score
    BY <1>1, ScalarType DEF Score
  <2>2. token' = [s \in Samples |-> [p \in Tokens |-> [sum |-> ScalarOf(s), count |-> 1]]]
    BY <1>2 DEF Scores
  <2>3. token' \in [Samples -> [Tokens -> Score]]
    BY <2>1, <2>2
  <2>4. QED
    BY <1>2, <2>3 DEF Scores, Typed, loopVars
<1>3. CASE AddStep
  <2>1. /\ "graph" \in Passes /\ AtRecord("graph") /\ sample \in Samples
        /\ step \in 1..Len(Records(sample)) /\ Current = RecordOf(sample, step)
    BY <1>3, AtFacts DEF AddStep, Passes
  <2>2. Pair(Current) \in PairState
    BY <1>1, <2>1, PairFacts DEF Pair, PairOf
  <2>3. history' \in Seq(PairState)
    BY <1>3, <2>2 DEF AddStep, Typed
  <2>4. covered' \subseteq Tokens
    BY <1>3, <2>1, TakenWithin DEF AddStep, GraphTakes, Take, Skip, Typed
  <2>5. QED
    BY <1>3, <2>3, <2>4 DEF AddStep, Typed
<1>4. CASE Broadcast
  <2>1. /\ "broadcast" \in Passes /\ AtRecord("broadcast") /\ sample \in Samples
        /\ step \in 1..Len(Records(sample)) /\ phase = "broadcast"
    BY <1>4, AtFacts DEF Broadcast, Passes
  <2>2. covered' \subseteq Tokens
    BY <1>4, <2>1, TakenWithin DEF Broadcast, BroadcastTakes, Take, Skip, Typed
  <2>3. score[sample][step] \in Score
    BY <2>1, StepScoreType DEF Values
  <2>4. token' \in [Samples -> [Tokens -> Score]]
    <3>1. CASE BroadcastTakes(sample, Current)
      <4> DEFINE row == [p \in Tokens |-> IF p \in Span(Current) THEN score[sample][step]
                                          ELSE token[sample][p]]
      <4>1. row \in [Tokens -> Score]
        BY <2>1, <2>3 DEF Typed
      <4>2. token' = [token EXCEPT ![sample] = row]
        BY <1>4, <3>1 DEF Broadcast
      <4> HIDE DEF row
      <4>3. QED
        BY <4>1, <4>2 DEF Typed
    <3>2. CASE ~BroadcastTakes(sample, Current)
      BY <1>4, <3>2 DEF Broadcast, Typed
    <3>3. QED
      BY <3>1, <3>2
  <2>5. QED
    BY <1>4, <2>2, <2>4 DEF Broadcast, Typed
<1>5. CASE Turn
  <2>1. "turns" \in Passes /\ AtRecord("turns")
    BY <1>5 DEF Turn, Passes
  <2>2. covered' \subseteq Tokens
    BY <1>5, <2>1, TakenWithin DEF Turn, TurnTakes, Take, Skip, Typed
  <2>3. QED
    BY <1>5, <2>2 DEF Turn, Typed
<1>6. CASE EndTurns
  <2>1. weight' = [s \in Samples |-> [p \in Tokens |-> WeightOf(s, p)]]
    BY <1>6 DEF EndTurns, WeightOf
  <2>2. \A s \in Samples, p \in Tokens : WeightOf(s, p) \in Nat \ {0}
    BY WeightType
  <2>3. weight' \in [Samples -> [Tokens -> Nat \ {0}]]
    BY <2>1, <2>2
  <2>4. QED
    BY <1>6, <2>3 DEF EndTurns, Rewind, Typed
<1>7. CASE Combine
  <2>1. ASSUME NEW s \in Samples, NEW p \in Tokens
        PROVE  /\ [token[s][p] EXCEPT !.sum = @ * weight[s][p]] \in Score
               /\ [sum |-> 0, count |-> 1] \in Score
    <3>1. token[s][p] \in Score /\ weight[s][p] \in Nat
      BY DEF Typed
    <3>2. \A m \in Int, n \in Nat : m * n \in Int
      OBVIOUS
    <3>3. token[s][p].sum * weight[s][p] \in Int
      BY <3>1, <3>2 DEF Score
    <3>4. QED
      BY <3>1, <3>3 DEF Score
  <2>2. advantage' \in [Samples -> [Tokens -> Score]]
    BY <1>7, <2>1 DEF Combine
  <2>3. QED
    BY <1>7, <2>2 DEF Combine, Typed, loopVars
<1>8. CASE Merge \/ EndBroadcast \/ UNCHANGED vars
  BY <1>8 DEF Merge, EndBroadcast, Rewind, Typed, vars, loopVars
<1>9. CASE NextSample
  <2>1. history' \in Seq(PairState) /\ covered' \subseteq Tokens
    BY <1>9 DEF NextSample
  <2>2. QED
    BY <1>9, <2>1 DEF NextSample, Typed
<1>10. QED
  BY <1>2, <1>3, <1>4, <1>5, <1>6, <1>7, <1>8, <1>9 DEF Next

\* A transition leads from a vertex to a vertex.
LEMMA OccurrenceType ==
  ASSUME batch \in Batch, Keyed, NEW o \in occurrences
  PROVE  o \in Occurrence
<1>1. PICK h : /\ PairsUpTo(o.sample, h, o.step - 1)
               /\ o.key = KeyOf(o.sample, h, PairOf(o.sample, o.step))
  BY DEF Keyed
<1>2. /\ o = [sample |-> o.sample, step |-> o.step, key |-> o.key]
      /\ o.sample \in Samples /\ o.step \in 1..Len(Records(o.sample)) /\ o.step \in Nat \ {0}
      /\ ValidKey(RecordOf(o.sample, o.step))
  BY RecordFacts DEF Keyed
<1>3. ASSUME NEW g \in Seq(PairState) PROVE StateOf(o.sample, g) \in Vertex
  <2>1. Recent(g) \in Seq(PairState) /\ <<>> \in Seq(PairState)
    BY RecentFacts
  <2>2. batch.root[o.sample] \in Keys
    BY <1>2 DEF Batch
  <2>3. QED
    BY <2>1, <2>2 DEF StateOf, Vertex
<1> DEFINE pair == PairOf(o.sample, o.step)
<1>4. pair \in PairState /\ pair.action \in Keys
  <2>1. pair \in PairState
    BY <1>2, PairFacts
  <2>2. RecordOf(o.sample, o.step) \in Record /\ RecordOf(o.sample, o.step).action # NoKey
    BY <1>2, RecordFacts DEF ValidKey
  <2>3. QED
    BY <1>2, <2>1, <2>2 DEF PairOf, Record
<1> HIDE DEF pair
<1>5. h \in Seq(PairState) /\ Append(h, pair) \in Seq(PairState)
  BY <1>1, <1>4 DEF PairsUpTo
<1>6. o.key \in [from: Vertex, action: Keys, to: Vertex]
  <2>1. StateOf(o.sample, h) \in Vertex /\ StateOf(o.sample, Append(h, pair)) \in Vertex
    BY <1>3, <1>5
  <2>2. o.key = [from |-> StateOf(o.sample, h), action |-> pair.action,
                 to |-> StateOf(o.sample, Append(h, pair))]
    BY <1>1 DEF KeyOf, pair
  <2>3. QED
    BY <1>4, <2>1, <2>2
<1>7. QED
  BY <1>2, <1>6 DEF Occurrence

\* The types, for every batch.
THEOREM TypesKept == Spec => []TypeOK
<1>1. Init => Typed
  <2>1. [sum |-> 0, count |-> 1] \in Score
    BY DEF Score
  <2>2. QED
    BY <2>1 DEF Init, Typed
<1>2. SpansInv /\ Keyed /\ Values /\ Typed /\ [Next]_vars => Typed'
  BY TypedStep
<1>3. SpansInv /\ Keyed /\ Values /\ Typed => TypeOK
  <2>1. SUFFICES ASSUME SpansInv, Keyed, Values, Typed PROVE TypeOK
    OBVIOUS
  <2>2. Loops /\ batch \in Batch
    BY <2>1, BatchesAssumption DEF SpansInv, Loops
  <2>3. phase \in {"scores", "graph", "broadcast", "turns", "combine", "done"}
    BY <2>2 DEF Loops, Phases, Passes
  <2>4. sample \in 1..N + 1 /\ step \in Nat \ {0}
    BY <2>2, SizesAssumption DEF Loops
  <2>5. spans \in [{"graph", "broadcast", "turns"} -> [Samples -> SUBSET (Nat \ {0})]]
    BY <2>2 DEF Loops, Passes
  <2>6. occurrences \subseteq Occurrence
    BY <2>1, <2>2, OccurrenceType
  <2>7. ASSUME NEW s \in Samples PROVE score[s] \in Seq(Score)
    <3>1. CASE phase = "scores"
      <4>1. score[s] = <<>>
        BY <2>1, <3>1 DEF Values
      <4>2. QED
        BY <4>1
    <3>2. CASE phase # "scores"
      <4>1. score[s] = [k \in 1..Len(Records(s)) |-> StepScore(s, k)]
        BY <2>1, <3>2 DEF Values
      <4>2. Len(Records(s)) \in Nat /\ \A k : StepScore(s, k) \in Score
        BY <2>1, <2>2, RecordFacts, StepScoreType
      <4>3. QED
        BY <4>1, <4>2
    <3>3. QED
      BY <3>1, <3>2
  <2>8. QED
    BY <2>1, <2>2, <2>3, <2>4, <2>5, <2>6, <2>7 DEF TypeOK, Typed, Values
<1>4. QED
  BY <1>1, <1>2, <1>3, ScoresKept, PTL DEF Spec

===============================================================================
