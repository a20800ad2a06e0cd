------------------------- MODULE AdvantageGraphProofs -------------------------
(***************************************************************************)
(* Machine-checked proofs about AdvantageGraph, for every batch of every   *)
(* size: the three passes over the spans agree, the fallback is never      *)
(* refined, and only steps after the same conversation are merged.         *)
(***************************************************************************)
EXTENDS AdvantageGraph, TLAPS

Passes == {"graph", "broadcast", "turns"}
Phases == Passes \cup {"scores", "combine", "done"}

RecordOf(s, k) == Records(s)[k]
SpanOf(s, k) == Span(RecordOf(s, k))

\* The phases a pass is over in.
Over(pass) ==
    \/ pass = "graph" /\ phase \in {"broadcast", "turns", "combine", "done"}
    \/ pass = "broadcast" /\ phase \in {"turns", "combine", "done"}
    \/ pass = "turns" /\ phase \in {"combine", "done"}

\* A pass is through with record k of trajectory s.
Behind(pass, s, k) ==
    Over(pass) \/ (phase = pass /\ (s < sample \/ (s = sample /\ k < step)))

\* Where the loops are and what the passes keep.
Loops ==
    /\ batch \in Batch
    /\ phase \in Phases
    /\ sample \in Nat \ {0} /\ sample <= N + 1
    /\ step \in Nat \ {0}
    /\ spans \in [Passes -> [Samples -> SUBSET (Nat \ {0})]]
    /\ DOMAIN token = Samples
    /\ phase = "scores" => sample = 1 /\ step = 1
    /\ phase \in {"graph", "broadcast"} => batch.salt

\* What a pass has taken it has met, and can read.
Taken == \A pass \in Passes, s \in Samples : \A k \in spans[pass][s] :
    /\ k \in 1..Len(Records(s))
    /\ Readable(s, RecordOf(s, k))
    /\ Behind(pass, s, k)
    /\ pass # "turns" => Eligible(s)

\* The tokens covered are those of the spans taken of this trajectory.
Covered == phase \in Passes \cup {"scores"} => \A p :
    p \in covered <=>
        /\ phase \in Passes
        /\ sample <= N
        /\ \E k \in spans[phase][sample] : p \in SpanOf(sample, k)

\* The graph takes a span if it can read it and no span taken before meets it.
Greedy == \A s \in Samples : batch.salt /\ Eligible(s) =>
    \A k \in 1..Len(Records(s)) : Behind("graph", s, k) =>
        (k \in spans["graph"][s] <=>
            /\ Readable(s, RecordOf(s, k))
            /\ \A j \in spans["graph"][s] : j < k => SpanOf(s, j) \cap SpanOf(s, k) = {})

\* The later passes take what the graph has taken, as far as they have come.
Agree == \A s \in Samples, k \in Nat :
    /\ k \in spans["broadcast"][s] <=>
          k \in spans["graph"][s] /\ Behind("broadcast", s, k)
    /\ batch.salt /\ batch.lata /\ Eligible(s) =>
          (k \in spans["turns"][s] <=> k \in spans["graph"][s] /\ Behind("turns", s, k))

\* A transition belongs to a span of the graph, and a span broadcast has its
\* step's score on each of its tokens.
Spread ==
    /\ \A o \in occurrences : o.sample \in Samples /\ o.step \in spans["graph"][o.sample]
    /\ \A s \in Samples : \A k \in spans["broadcast"][s] : \A p \in SpanOf(s, k) :
          token[s][p] = score[s][k]

SpansInv == Loops /\ Taken /\ Covered /\ Greedy /\ Agree /\ Spread

(***************************************************************************)
(* Lemmas.                                                                 *)
(***************************************************************************)

\* The traces of a batch are lists of records.
LEMMA RecordFacts ==
  ASSUME batch \in Batch, NEW s \in Samples
  PROVE  /\ Records(s) \in Seq(Record \cup {Malformed})
         /\ Len(Records(s)) \in Nat
         /\ \A k \in 1..Len(Records(s)) : RecordOf(s, k) \in Record \cup {Malformed}
<1>1. batch.trace \in [Samples -> Seq(Record \cup {Malformed}) \cup {NoTrace}]
  BY DEF Batch
<1>2. Records(s) \in Seq(Record \cup {Malformed})
  BY <1>1 DEF Records
<1>3. QED
  BY <1>2 DEF RecordOf

\* A span that can be read lies within the response.
LEMMA ReadableFacts ==
  ASSUME batch \in Batch, NEW s \in Samples, NEW k \in 1..Len(Records(s)),
         Readable(s, RecordOf(s, k))
  PROVE  RecordOf(s, k) \in Record /\ SpanOf(s, k) \subseteq Tokens
<1>1. RecordOf(s, k) \in Record
  BY RecordFacts DEF Readable
<1>2. RecordOf(s, k).start \in Int /\ RecordOf(s, k).end \in Int /\ Width \in Nat
  BY <1>1, SizesAssumption DEF Record
<1>3. QED
  BY <1>1, <1>2 DEF Readable, SpanOf, Span, Tokens

\* As long as the batch is the same, so is what is read from it.
LEMMA SameBatch ==
  ASSUME batch' = batch
  PROVE  /\ \A s : Records(s)' = Records(s) /\ (Eligible(s)' <=> Eligible(s))
         /\ \A s, r : Readable(s, r)' <=> Readable(s, r)
         /\ \A s, k : RecordOf(s, k)' = RecordOf(s, k) /\ SpanOf(s, k)' = SpanOf(s, k)
<1>1. \A s : Records(s)' = Records(s)
  BY DEF Records
<1>2. \A s : Peers(s)' = Peers(s)
  BY DEF Peers
<1>3. \A s : Eligible(s)' <=> Eligible(s)
  BY <1>2 DEF Eligible
<1>4. \A s, r : Readable(s, r)' <=> Readable(s, r)
  BY DEF Readable
<1>5. \A s, k : RecordOf(s, k)' = RecordOf(s, k) /\ SpanOf(s, k)' = SpanOf(s, k)
  BY <1>1 DEF RecordOf, SpanOf
<1>6. QED
  BY <1>1, <1>3, <1>4, <1>5

\* Before the first record nothing is behind, and then one record after the
\* other.
LEMMA BehindFacts ==
  ASSUME Loops, NEW pass \in Passes, NEW s \in Samples, NEW k \in Nat
  PROVE  /\ phase = pass => (Behind(pass, s, k) <=> s < sample \/ (s = sample /\ k < step))
         /\ Over(pass) => Behind(pass, s, k) /\ phase # pass
         /\ ~Over(pass) /\ phase # pass => ~Behind(pass, s, k)
  BY DEF Behind, Over, Passes

\* At the record a loop visits.
LEMMA AtFacts ==
  ASSUME SpansInv, NEW pass \in Passes, AtRecord(pass)
  PROVE  /\ sample \in Samples /\ step \in 1..Len(Records(sample)) /\ phase = pass
         /\ pass # "turns" => Eligible(sample) /\ batch.salt
         /\ Current = RecordOf(sample, step)
         /\ Current \in Record \cup {Malformed}
<1>1. Loops /\ batch \in Batch
  BY BatchesAssumption DEF SpansInv, Loops
<1>2. sample \in Samples /\ phase = pass /\ step \in Nat \ {0}
  BY <1>1, SizesAssumption DEF AtRecord, Loops, Samples
<1>3. step <= Len(Visited(sample)) /\ Len(<<>>) = 0
  BY DEF AtRecord
<1>4. phase = "turns" \/ Eligible(sample)
  BY <1>2, <1>3 DEF Visited
<1>5. step <= Len(Records(sample))
  BY <1>3, <1>4 DEF Visited
<1>6. step \in 1..Len(Records(sample))
  BY <1>1, <1>2, <1>5, RecordFacts
<1>7. QED
  BY <1>1, <1>2, <1>4, <1>6, RecordFacts DEF RecordOf, Current, Loops, Passes

(***************************************************************************)
(* The steps.                                                              *)
(***************************************************************************)

\* At the beginning no pass has met anything.
LEMMA SpansInit ==
  ASSUME Init
  PROVE  SpansInv
<1>1. Loops
  <2>1. phase \in Phases /\ sample = 1 /\ step = 1 /\ batch \in Batch /\ phase = "scores"
    BY BatchesAssumption DEF Init, Phases, Batch
  <2>2. spans \in [Passes -> [Samples -> SUBSET (Nat \ {0})]] /\ DOMAIN token = Samples
    BY DEF Init, Passes
  <2>3. QED
    BY <2>1, <2>2, SizesAssumption DEF Init, Loops
<1>2. \A pass \in Passes, s \in Samples : spans[pass][s] = {}
  BY DEF Init, Passes
<1>3. phase = "scores" /\ covered = {} /\ occurrences = {}
  BY DEF Init
<1>4. \A pass, s, k : ~Behind(pass, s, k) \/ pass = "scores"
  BY <1>3 DEF Behind, Over
<1>5. Taken /\ Spread
  BY <1>2, <1>3 DEF Taken, Spread, Passes
<1>6. Covered
  BY <1>3 DEF Covered, Passes
<1>7. Greedy /\ Agree
  BY <1>2, <1>4 DEF Greedy, Agree, Passes
<1>8. QED
  BY <1>1, <1>5, <1>6, <1>7 DEF SpansInv

\* The pass takes a span or leaves it: what both branches have in common.
LEMMA TakeFacts ==
  ASSUME SpansInv, NEW pass \in Passes, AtRecord(pass), NextRecord,
         UNCHANGED <<batch, phase>>, NEW takes \in BOOLEAN,
         takes <=> Readable(sample, Current) /\ Span(Current) \cap covered = {},
         IF takes THEN Take(pass) ELSE Skip
  PROVE  /\ \A q \in Passes, s \in Samples : q # pass \/ s # sample => spans'[q][s] = spans[q][s]
         /\ spans'[pass][sample] =
               IF takes THEN spans[pass][sample] \cup {step} ELSE spans[pass][sample]
         /\ spans' \in [Passes -> [Samples -> SUBSET (Nat \ {0})]]
         /\ takes <=> /\ Readable(sample, RecordOf(sample, step))
                      /\ \A j \in spans[pass][sample] :
                            SpanOf(sample, j) \cap SpanOf(sample, step) = {}
         /\ \A j \in spans[pass][sample] : j < step
         /\ Taken' /\ Covered'
<1> USE DEF SpansInv
<1>1. /\ sample \in Samples /\ step \in 1..Len(Records(sample)) /\ phase = pass
      /\ Current = RecordOf(sample, step) /\ step \in Nat \ {0} /\ sample \in Nat
      /\ pass # "turns" => Eligible(sample)
  BY AtFacts DEF Loops
<1>2. spans \in [Passes -> [Samples -> SUBSET (Nat \ {0})]]
  BY DEF Loops
<1>3. /\ \A q \in Passes, s \in Samples : q # pass \/ s # sample => spans'[q][s] = spans[q][s]
      /\ spans'[pass][sample] =
            IF takes THEN spans[pass][sample] \cup {step} ELSE spans[pass][sample]
      /\ spans' \in [Passes -> [Samples -> SUBSET (Nat \ {0})]]
  <2>1. CASE takes
    BY <1>1, <1>2, <2>1 DEF Take
  <2>2. CASE ~takes
    BY <1>1, <1>2, <2>2 DEF Skip
  <2>3. QED
    BY <2>1, <2>2
<1>4. \A j \in spans[pass][sample] : j < step /\ j \in Nat
  <2>1. \A j \in spans[pass][sample] : Behind(pass, sample, j) /\ j \in Nat
    BY <1>1, <1>2 DEF Taken
  <2>2. QED
    BY <1>1, <2>1, BehindFacts
<1>5. \A p : p \in covered <=> \E k \in spans[pass][sample] : p \in SpanOf(sample, k)
  BY <1>1 DEF Covered, Samples
<1>6. Span(Current) = SpanOf(sample, step)
  BY <1>1 DEF SpanOf
<1>7. takes <=> /\ Readable(sample, RecordOf(sample, step))
                /\ \A j \in spans[pass][sample] :
                      SpanOf(sample, j) \cap SpanOf(sample, step) = {}
  BY <1>1, <1>5, <1>6
<1>8. Covered'
  <2>1. /\ phase' = phase /\ sample' = sample /\ sample <= N
        /\ \A k : SpanOf(sample, k)' = SpanOf(sample, k)
    BY <1>1, SameBatch DEF NextRecord, Samples
  <2>2. \A p : p \in covered' <=> \E k \in spans'[pass][sample] : p \in SpanOf(sample, k)
    <3>1. CASE takes
      BY <1>3, <1>5, <1>6, <3>1 DEF Take
    <3>2. CASE ~takes
      BY <1>3, <1>5, <3>2 DEF Skip
    <3>3. QED
      BY <3>1, <3>2
  <2>3. QED
    BY <1>1, <2>1, <2>2 DEF Covered
<1>9. Taken'
  <2>1. ASSUME NEW q \in Passes, NEW s \in Samples, NEW k \in spans'[q][s]
        PROVE  /\ k \in 1..Len(Records(s)) /\ Readable(s, RecordOf(s, k))
               /\ Behind(q, s, k)' /\ (q # "turns" => Eligible(s))
    <3>1. CASE k \in spans[q][s]
      <4>1. Behind(q, s, k) /\ k \in Nat
        BY <3>1, <1>2 DEF Taken
      <4>2. Behind(q, s, k)'
        BY <1>1, <4>1 DEF Behind, Over, NextRecord
      <4>3. QED
        BY <3>1, <4>2 DEF Taken
    <3>2. CASE k \notin spans[q][s]
      <4>1. q = pass /\ s = sample /\ k = step /\ takes
        BY <1>3, <2>1, <3>2
      <4>2. Behind(q, s, k)'
        BY <1>1, <4>1 DEF Behind, NextRecord
      <4>3. QED
        BY <1>1, <1>7, <4>1, <4>2
    <3>3. QED
      BY <3>1, <3>2
  <2>2. QED
    BY <2>1, SameBatch DEF Taken
<1>10. QED
  BY <1>3, <1>4, <1>7, <1>8, <1>9

\* The graph meets a record.
LEMMA GraphStep ==
  ASSUME SpansInv, AddStep
  PROVE  SpansInv'
<1> DEFINE takes == GraphTakes(sample, Current)
<1>1. /\ sample \in Samples /\ step \in 1..Len(Records(sample)) /\ phase = "graph"
      /\ Eligible(sample) /\ batch.salt /\ Loops /\ step \in Nat \ {0} /\ sample \in Nat
  BY AtFacts DEF AddStep, Passes, SpansInv, Loops
<1>2. /\ \A q \in Passes, s \in Samples : q # "graph" \/ s # sample => spans'[q][s] = spans[q][s]
      /\ spans'["graph"][sample] =
            IF takes THEN spans["graph"][sample] \cup {step} ELSE spans["graph"][sample]
      /\ spans' \in [Passes -> [Samples -> SUBSET (Nat \ {0})]]
      /\ takes <=> /\ Readable(sample, RecordOf(sample, step))
                   /\ \A j \in spans["graph"][sample] :
                         SpanOf(sample, j) \cap SpanOf(sample, step) = {}
      /\ \A j \in spans["graph"][sample] : j < step
      /\ Taken' /\ Covered'
  <2>1. takes \in BOOLEAN
    BY DEF GraphTakes, Readable
  <2>2. takes <=> Readable(sample, Current) /\ Span(Current) \cap covered = {}
    BY DEF GraphTakes
  <2>3. IF takes THEN Take("graph") ELSE Skip
    BY DEF AddStep
  <2>4. "graph" \in Passes /\ AtRecord("graph") /\ NextRecord /\ UNCHANGED <<batch, phase>>
    BY DEF AddStep, Passes
  <2> HIDE DEF takes
  <2>5. QED
    BY <2>1, <2>2, <2>3, <2>4, TakeFacts
<1> HIDE DEF takes
<1>3. UNCHANGED <<batch, phase, token, score, sample>> /\ step' = step + 1
  BY DEF AddStep, NextRecord
<1>4. Loops'
  BY <1>1, <1>2, <1>3 DEF Loops
<1>5. \A q \in Passes, s \in Samples, k \in Nat :
         Behind(q, s, k)' <=> Behind(q, s, k) \/ (q = "graph" /\ s = sample /\ k = step)
  BY <1>1, <1>3 DEF Behind, Over, Passes
<1>6. Greedy'
  <2>1. ASSUME NEW s \in Samples, Eligible(s), NEW k \in 1..Len(Records(s)), Behind("graph", s, k)'
        PROVE  k \in spans'["graph"][s] <=>
                  /\ Readable(s, RecordOf(s, k))
                  /\ \A j \in spans'["graph"][s] : j < k => SpanOf(s, j) \cap SpanOf(s, k) = {}
    <3>1. k \in Nat
      BY <1>1, RecordFacts, BatchesAssumption DEF Loops
    <3>2. CASE s # sample
      BY <1>1, <1>2, <1>5, <2>1, <3>1, <3>2 DEF SpansInv, Greedy, Passes
    <3>3. CASE s = sample /\ k # step
      <4>1. Behind("graph", s, k)
        BY <1>5, <2>1, <3>1, <3>3 DEF Passes
      <4>2. k < step
        BY <1>1, <3>1, <3>3, <4>1 DEF Behind, Over
      <4>3. \A j : j < k /\ j \in spans'["graph"][s] <=> j < k /\ j \in spans["graph"][s]
        BY <1>1, <1>2, <3>1, <3>3, <4>2
      <4>4. k \in spans'["graph"][s] <=> k \in spans["graph"][s]
        BY <1>2, <3>3
      <4>5. k \in spans["graph"][s] <=>
               /\ Readable(s, RecordOf(s, k))
               /\ \A j \in spans["graph"][s] : j < k => SpanOf(s, j) \cap SpanOf(s, k) = {}
        BY <1>1, <2>1, <4>1 DEF SpansInv, Greedy
      <4>6. QED
        BY <4>3, <4>4, <4>5
    <3>4. CASE s = sample /\ k = step
      <4>1. step \in spans'["graph"][sample] <=> takes
        BY <1>1, <1>2
      <4>2. \A j : j < step /\ j \in spans'["graph"][sample] <=> j \in spans["graph"][sample]
        BY <1>1, <1>2
      <4>3. QED
        BY <1>2, <3>4, <4>1, <4>2
    <3>5. QED
      BY <3>2, <3>3, <3>4
  <2>2. QED
    BY <1>3, <2>1, SameBatch DEF Greedy
<1>7. Agree'
  <2>1. \A s \in Samples, k \in Nat : ~Behind("broadcast", s, k)' /\ ~Behind("turns", s, k)'
    BY <1>1, <1>3 DEF Behind, Over
  <2>2. \A s \in Samples, k \in Nat : ~Behind("broadcast", s, k) /\ ~Behind("turns", s, k)
    BY <1>1 DEF Behind, Over
  <2>3. \A s \in Samples : spans'["broadcast"][s] = spans["broadcast"][s]
                           /\ spans'["turns"][s] = spans["turns"][s]
    BY <1>2 DEF Passes
  <2>4. QED
    BY <1>3, <2>1, <2>2, <2>3, SameBatch DEF SpansInv, Agree
<1>8. Spread'
  <2>1. ASSUME NEW o \in occurrences'
        PROVE  o.sample \in Samples /\ o.step \in spans'["graph"][o.sample]
    <3>1. CASE o \in occurrences
      <4>1. o.sample \in Samples /\ o.step \in spans["graph"][o.sample]
        BY <3>1 DEF SpansInv, Spread
      <4>2. QED
        BY <1>2, <4>1 DEF Passes
    <3>2. CASE o \notin occurrences
      <4>1. takes /\ o.sample = sample /\ o.step = step
        BY <2>1, <3>2 DEF AddStep, takes
      <4>2. QED
        BY <1>1, <1>2, <4>1
    <3>3. QED
      BY <3>1, <3>2
  <2>2. \A s \in Samples : spans'["broadcast"][s] = spans["broadcast"][s]
    BY <1>2 DEF Passes
  <2>3. QED
    BY <1>3, <2>1, <2>2, SameBatch DEF SpansInv, Spread
<1>9. QED
  BY <1>2, <1>4, <1>6, <1>7, <1>8 DEF SpansInv

\* The broadcast meets a record.
LEMMA BroadcastStep ==
  ASSUME SpansInv, Broadcast
  PROVE  SpansInv'
<1> DEFINE takes == BroadcastTakes(sample, Current)
<1>1. /\ sample \in Samples /\ step \in 1..Len(Records(sample)) /\ phase = "broadcast"
      /\ Eligible(sample) /\ batch.salt /\ Loops /\ step \in Nat \ {0} /\ sample \in Nat
      /\ Current = RecordOf(sample, step)
  BY AtFacts DEF Broadcast, Passes, SpansInv, Loops
<1>2. /\ \A q \in Passes, s \in Samples : q # "broadcast" \/ s # sample => spans'[q][s] = spans[q][s]
      /\ spans'["broadcast"][sample] =
            IF takes THEN spans["broadcast"][sample] \cup {step} ELSE spans["broadcast"][sample]
      /\ spans' \in [Passes -> [Samples -> SUBSET (Nat \ {0})]]
      /\ takes <=> /\ Readable(sample, RecordOf(sample, step))
                   /\ \A j \in spans["broadcast"][sample] :
                         SpanOf(sample, j) \cap SpanOf(sample, step) = {}
      /\ \A j \in spans["broadcast"][sample] : j < step
      /\ Taken' /\ Covered'
  <2>1. takes \in BOOLEAN
    BY DEF BroadcastTakes, Readable
  <2>2. takes <=> Readable(sample, Current) /\ Span(Current) \cap covered = {}
    BY DEF BroadcastTakes
  <2>3. IF takes THEN Take("broadcast") ELSE Skip
    BY DEF Broadcast
  <2>4. "broadcast" \in Passes /\ AtRecord("broadcast") /\ NextRecord /\ UNCHANGED <<batch, phase>>
    BY DEF Broadcast, Passes
  <2> HIDE DEF takes
  <2>5. QED
    BY <2>1, <2>2, <2>3, <2>4, TakeFacts
<1>3. UNCHANGED <<batch, phase, score, sample, occurrences>> /\ step' = step + 1
  BY DEF Broadcast, NextRecord
<1>4. /\ DOMAIN token' = Samples
      /\ \A s \in Samples : s # sample => token'[s] = token[s]
      /\ takes => \A p \in Tokens : token'[sample][p] =
                     IF p \in SpanOf(sample, step) THEN score[sample][step] ELSE token[sample][p]
      /\ ~takes => token' = token
  <2>1. CASE takes
    BY <1>1, <2>1 DEF Broadcast, SpanOf, Loops
  <2>2. CASE ~takes
    BY <1>1, <2>2 DEF Broadcast, Loops
  <2>3. QED
    BY <2>1, <2>2
<1> HIDE DEF takes
<1>5. Loops'
  BY <1>1, <1>2, <1>3, <1>4 DEF Loops
<1>6. \A q \in Passes, s \in Samples, k \in Nat :
         Behind(q, s, k)' <=> Behind(q, s, k) \/ (q = "broadcast" /\ s = sample /\ k = step)
  BY <1>1, <1>3 DEF Behind, Over, Passes
<1>7. \A s \in Samples : spans'["graph"][s] = spans["graph"][s] /\ spans'["turns"][s] = spans["turns"][s]
  BY <1>2 DEF Passes
<1>8. Greedy'
  <2>1. \A s \in Samples, k \in Nat : Behind("graph", s, k)
    BY <1>1 DEF Behind, Over
  <2>2. ASSUME NEW s \in Samples, Eligible(s), NEW k \in 1..Len(Records(s))
        PROVE  k \in spans'["graph"][s] <=>
                  /\ Readable(s, RecordOf(s, k))
                  /\ \A j \in spans'["graph"][s] : j < k => SpanOf(s, j) \cap SpanOf(s, k) = {}
    <3>1. k \in Nat
      BY <1>1, RecordFacts, BatchesAssumption DEF Loops
    <3>2. QED
      BY <1>1, <1>7, <2>1, <2>2, <3>1 DEF SpansInv, Greedy
  <2>3. QED
    BY <1>3, <2>2, SameBatch DEF Greedy
<1>9. step \in spans["graph"][sample] <=> takes
  <2>1. Behind("graph", sample, step)
    BY <1>1 DEF Behind, Over
  <2>2. step \in spans["graph"][sample] <=>
          /\ Readable(sample, RecordOf(sample, step))
          /\ \A j \in spans["graph"][sample] : j < step => SpanOf(sample, j) \cap SpanOf(sample, step) = {}
    BY <1>1, <2>1 DEF SpansInv, Greedy
  <2>3. \A j : j \in spans["broadcast"][sample] <=> j \in spans["graph"][sample] /\ j < step
    <3>1. \A j \in Nat : Behind("broadcast", sample, j) <=> j < step
      BY <1>1 DEF Behind, Over
    <3>2. spans["broadcast"][sample] \subseteq Nat /\ spans["graph"][sample] \subseteq Nat
      BY <1>1 DEF Loops, Passes
    <3>3. QED
      BY <1>1, <3>1, <3>2 DEF SpansInv, Agree
  <2>4. QED
    BY <1>2, <2>2, <2>3
<1>10. Agree'
  <2>1. ASSUME NEW s \in Samples, NEW k \in Nat
        PROVE  k \in spans'["broadcast"][s] <=> k \in spans'["graph"][s] /\ Behind("broadcast", s, k)'
    <3>1. k \in spans["broadcast"][s] <=> k \in spans["graph"][s] /\ Behind("broadcast", s, k)
      BY DEF SpansInv, Agree
    <3>2. CASE s # sample \/ k # step
      BY <1>2, <1>6, <1>7, <3>1, <3>2 DEF Passes
    <3>3. CASE s = sample /\ k = step
      <4>1. step \notin spans["broadcast"][sample]
        BY <1>1, <1>2
      <4>2. QED
        BY <1>1, <1>2, <1>6, <1>7, <1>9, <3>3, <4>1 DEF Passes
    <3>4. QED
      BY <3>2, <3>3
  <2>2. \A s \in Samples, k \in Nat : ~Behind("turns", s, k)' /\ ~Behind("turns", s, k)
    BY <1>1, <1>3 DEF Behind, Over
  <2>3. QED
    BY <1>3, <1>7, <2>1, <2>2, SameBatch DEF SpansInv, Agree
<1>11. Spread'
  <2>1. ASSUME NEW s \in Samples, NEW k \in spans'["broadcast"][s], NEW p \in SpanOf(s, k)
        PROVE  token'[s][p] = score[s][k]
    <3>1. CASE s # sample
      BY <1>2, <1>4, <2>1, <3>1 DEF SpansInv, Spread, Passes
    <3>2. CASE s = sample /\ ~takes
      BY <1>2, <1>4, <2>1, <3>2 DEF SpansInv, Spread
    <3>3. CASE s = sample /\ takes
      <4>1. k \in 1..Len(Records(s)) /\ Readable(s, RecordOf(s, k))
        <5>1. (k \in 1..Len(Records(s)) /\ Readable(s, RecordOf(s, k)))'
          BY <1>2, <2>1 DEF Taken, Passes
        <5>2. QED
          BY <1>3, <5>1, SameBatch
      <4>2. p \in Tokens
        BY <1>1, <2>1, <4>1, ReadableFacts, BatchesAssumption DEF Loops
      <4>3. CASE k = step
        BY <1>4, <2>1, <3>3, <4>2, <4>3
      <4>4. CASE k # step
        <5>1. k \in spans["broadcast"][s] /\ p \notin SpanOf(sample, step)
          BY <1>2, <2>1, <3>3, <4>4
        <5>2. QED
          BY <1>4, <2>1, <3>3, <4>2, <5>1 DEF SpansInv, Spread
      <4>5. QED
        BY <4>3, <4>4
    <3>4. QED
      BY <3>1, <3>2, <3>3
  <2>2. QED
    BY <1>3, <1>7, <2>1, SameBatch DEF SpansInv, Spread
<1>12. QED
  BY <1>2, <1>5, <1>8, <1>10, <1>11 DEF SpansInv

\* LATA meets a record.
LEMMA TurnStep ==
  ASSUME SpansInv, Turn
  PROVE  SpansInv'
<1> DEFINE takes == TurnTakes(sample, Current)
<1>1. /\ sample \in Samples /\ step \in 1..Len(Records(sample)) /\ phase = "turns"
      /\ Loops /\ step \in Nat \ {0} /\ sample \in Nat
  BY AtFacts DEF Turn, Passes, SpansInv, Loops
<1>2. /\ \A q \in Passes, s \in Samples : q # "turns" \/ s # sample => spans'[q][s] = spans[q][s]
      /\ spans'["turns"][sample] =
            IF takes THEN spans["turns"][sample] \cup {step} ELSE spans["turns"][sample]
      /\ spans' \in [Passes -> [Samples -> SUBSET (Nat \ {0})]]
      /\ takes <=> /\ Readable(sample, RecordOf(sample, step))
                   /\ \A j \in spans["turns"][sample] :
                         SpanOf(sample, j) \cap SpanOf(sample, step) = {}
      /\ \A j \in spans["turns"][sample] : j < step
      /\ Taken' /\ Covered'
  <2>1. takes \in BOOLEAN
    BY DEF TurnTakes, Readable
  <2>2. takes <=> Readable(sample, Current) /\ Span(Current) \cap covered = {}
    BY DEF TurnTakes
  <2>3. IF takes THEN Take("turns") ELSE Skip
    BY DEF Turn
  <2>4. "turns" \in Passes /\ AtRecord("turns") /\ NextRecord /\ UNCHANGED <<batch, phase>>
    BY DEF Turn, Passes
  <2> HIDE DEF takes
  <2>5. QED
    BY <2>1, <2>2, <2>3, <2>4, TakeFacts
<1>3. UNCHANGED <<batch, phase, score, sample, occurrences, token>> /\ step' = step + 1
  BY DEF Turn, NextRecord
<1> HIDE DEF takes
<1>4. Loops'
  BY <1>1, <1>2, <1>3 DEF Loops
<1>5. \A q \in Passes, s \in Samples, k \in Nat :
         Behind(q, s, k)' <=> Behind(q, s, k) \/ (q = "turns" /\ s = sample /\ k = step)
  BY <1>1, <1>3 DEF Behind, Over, Passes
<1>6. \A s \in Samples : /\ spans'["graph"][s] = spans["graph"][s]
                         /\ spans'["broadcast"][s] = spans["broadcast"][s]
  BY <1>2 DEF Passes
<1>7. \A s \in Samples, k \in Nat : Behind("graph", s, k) /\ Behind("broadcast", s, k)
                                   /\ Behind("graph", s, k)' /\ Behind("broadcast", s, k)'
  BY <1>1, <1>3 DEF Behind, Over
<1>8. Greedy'
  <2>1. ASSUME NEW s \in Samples, batch.salt, Eligible(s), NEW k \in 1..Len(Records(s))
        PROVE  k \in spans'["graph"][s] <=>
                  /\ Readable(s, RecordOf(s, k))
                  /\ \A j \in spans'["graph"][s] : j < k => SpanOf(s, j) \cap SpanOf(s, k) = {}
    <3>1. k \in Nat
      BY <1>1, RecordFacts, BatchesAssumption DEF Loops
    <3>2. QED
      BY <1>1, <1>6, <1>7, <2>1, <3>1 DEF SpansInv, Greedy
  <2>2. QED
    BY <1>3, <2>1, SameBatch DEF Greedy
<1>9. batch.salt /\ batch.lata /\ Eligible(sample) =>
         (step \in spans["graph"][sample] <=> takes)
  <2>1. ASSUME batch.salt, batch.lata, Eligible(sample)
        PROVE  step \in spans["graph"][sample] <=> takes
    <3>1. step \in spans["graph"][sample] <=>
            /\ Readable(sample, RecordOf(sample, step))
            /\ \A j \in spans["graph"][sample] : j < step => SpanOf(sample, j) \cap SpanOf(sample, step) = {}
      BY <1>1, <1>7, <2>1 DEF SpansInv, Greedy
    <3>2. \A j : j \in spans["turns"][sample] <=> j \in spans["graph"][sample] /\ j < step
      <4>1. \A j \in Nat : Behind("turns", sample, j) <=> j < step
        BY <1>1 DEF Behind, Over
      <4>2. spans["turns"][sample] \subseteq Nat /\ spans["graph"][sample] \subseteq Nat
        BY <1>1 DEF Loops, Passes
      <4>3. QED
        BY <1>1, <2>1, <4>1, <4>2 DEF SpansInv, Agree
    <3>3. QED
      BY <1>2, <3>1, <3>2
  <2>2. QED
    BY <2>1
<1>10. Agree'
  <2>1. ASSUME NEW s \in Samples, NEW k \in Nat, batch.salt, batch.lata, Eligible(s)
        PROVE  k \in spans'["turns"][s] <=> k \in spans'["graph"][s] /\ Behind("turns", s, k)'
    <3>1. k \in spans["turns"][s] <=> k \in spans["graph"][s] /\ Behind("turns", s, k)
      BY <2>1 DEF SpansInv, Agree
    <3>2. CASE s # sample \/ k # step
      BY <1>2, <1>5, <1>6, <3>1, <3>2 DEF Passes
    <3>3. CASE s = sample /\ k = step
      <4>1. step \notin spans["turns"][sample]
        BY <1>1, <1>2
      <4>2. QED
        BY <1>1, <1>2, <1>5, <1>6, <1>9, <2>1, <3>3, <4>1 DEF Passes
    <3>4. QED
      BY <3>2, <3>3
  <2>2. ASSUME NEW s \in Samples, NEW k \in Nat
        PROVE  k \in spans'["broadcast"][s] <=> k \in spans'["graph"][s] /\ Behind("broadcast", s, k)'
    BY <1>6, <1>7 DEF SpansInv, Agree
  <2>3. QED
    BY <1>3, <2>1, <2>2, SameBatch DEF Agree
<1>11. Spread'
  BY <1>3, <1>6, SameBatch DEF SpansInv, Spread
<1>12. QED
  BY <1>2, <1>4, <1>8, <1>10, <1>11 DEF SpansInv

\* A loop goes on to the next trajectory.
LEMMA NextSampleStep ==
  ASSUME SpansInv, NextSample
  PROVE  SpansInv'
<1>1. /\ Loops /\ phase \in Passes /\ sample \in Samples /\ sample \in Nat /\ step \in Nat \ {0}
      /\ sample' = sample + 1 /\ step' = 1 /\ covered' = {} /\ N \in Nat
      /\ UNCHANGED <<batch, phase, spans, token, score, occurrences>>
  BY SizesAssumption DEF SpansInv, NextSample, Loops, Samples, Passes
<1>2. Loops'
  BY <1>1 DEF Loops, Samples, Passes
<1>3. ASSUME NEW q \in Passes, NEW s \in Samples, NEW k \in 1..Len(Records(s)),
             Eligible(s) \/ phase = "turns"
      PROVE  Behind(q, s, k)' <=> Behind(q, s, k)
  <2>1. k \in Nat \ {0} /\ Len(Records(s)) \in Nat
    BY <1>1, RecordFacts, BatchesAssumption DEF Loops
  <2>2. s = sample => k < step
    <3>1. s = sample => step > Len(Records(s))
      BY <1>3 DEF NextSample, Visited
    <3>2. QED
      BY <1>1, <2>1, <3>1
  <2>3. s \in Nat
    BY DEF Samples
  <2>4. QED
    BY <1>1, <2>1, <2>2, <2>3 DEF Behind, Over
<1>4. \A q \in Passes, s \in Samples : \A k \in spans[q][s] :
         /\ k \in 1..Len(Records(s)) /\ Readable(s, RecordOf(s, k)) /\ Behind(q, s, k)
         /\ q # "turns" => Eligible(s)
  BY DEF SpansInv, Taken
<1>5. Taken'
  <2>1. ASSUME NEW q \in Passes, NEW s \in Samples, NEW k \in spans[q][s]
        PROVE  Behind(q, s, k)'
    <3>1. Behind(q, s, k) /\ s \in Nat /\ k \in Nat
      BY <1>1, <1>4 DEF Loops, Samples
    <3>2. QED
      BY <1>1, <3>1 DEF Behind, Over
  <2>2. QED
    BY <1>1, <1>4, <2>1, SameBatch DEF Taken
<1>6. Covered'
  <2>1. ASSUME sample + 1 <= N PROVE spans[phase][sample + 1] = {}
    <3>1. sample + 1 \in Samples
      BY <1>1, <2>1 DEF Samples
    <3>2. \A k : ~Behind(phase, sample + 1, k)
      BY <1>1 DEF Behind, Over, Passes
    <3>3. QED
      BY <1>1, <1>4, <3>1, <3>2
  <2>2. QED
    BY <1>1, <2>1 DEF Covered
<1>7. Greedy'
  <2>1. ASSUME NEW s \in Samples, batch.salt, Eligible(s), NEW k \in 1..Len(Records(s)), Behind("graph", s, k)'
        PROVE  k \in spans["graph"][s] <=>
                  /\ Readable(s, RecordOf(s, k))
                  /\ \A j \in spans["graph"][s] : j < k => SpanOf(s, j) \cap SpanOf(s, k) = {}
    <3>1. Behind("graph", s, k)
      BY <1>3, <2>1 DEF Passes
    <3>2. QED
      BY <2>1, <3>1 DEF SpansInv, Greedy
  <2>2. QED
    BY <1>1, <2>1, SameBatch DEF Greedy
<1>8. Agree'
  <2>1. ASSUME NEW s \in Samples, NEW k \in Nat
        PROVE  k \in spans["broadcast"][s] <=> k \in spans["graph"][s] /\ Behind("broadcast", s, k)'
    <3>1. k \in spans["broadcast"][s] <=> k \in spans["graph"][s] /\ Behind("broadcast", s, k)
      BY DEF SpansInv, Agree
    <3>2. CASE k \in spans["graph"][s]
      BY <1>3, <1>4, <3>1, <3>2 DEF Passes
    <3>3. CASE k \notin spans["graph"][s]
      BY <3>1, <3>3
    <3>4. QED
      BY <3>2, <3>3
  <2>2. ASSUME NEW s \in Samples, NEW k \in Nat, batch.salt, batch.lata, Eligible(s)
        PROVE  k \in spans["turns"][s] <=> k \in spans["graph"][s] /\ Behind("turns", s, k)'
    <3>1. k \in spans["turns"][s] <=> k \in spans["graph"][s] /\ Behind("turns", s, k)
      BY <2>2 DEF SpansInv, Agree
    <3>2. CASE k \in spans["graph"][s]
      BY <1>3, <1>4, <2>2, <3>1, <3>2 DEF Passes
    <3>3. CASE k \notin spans["graph"][s]
      BY <3>1, <3>3
    <3>4. QED
      BY <3>2, <3>3
  <2>3. QED
    BY <1>1, <2>1, <2>2, SameBatch DEF Agree
<1>9. Spread'
  BY <1>1, SameBatch DEF SpansInv, Spread
<1>10. QED
  BY <1>2, <1>5, <1>6, <1>7, <1>8, <1>9 DEF SpansInv

\* What the functions' ends have in common: the next one starts from the
\* first record of the first trajectory.
Turnover ==
    /\ UNCHANGED <<batch, spans, occurrences, covered>>
    /\ DOMAIN token' = Samples
    /\ UNCHANGED <<token, score>> \/ phase \in {"scores", "graph"}
    /\ \/ /\ phase = "scores"
          /\ phase' = IF batch.salt THEN "graph"
                      ELSE IF batch.lata THEN "turns" ELSE "combine"
          /\ UNCHANGED <<sample, step>>
       \/ /\ phase \in Passes
          /\ sample > N
          /\ phase' = IF phase = "graph" THEN "broadcast"
                      ELSE IF phase = "broadcast" /\ batch.lata THEN "turns" ELSE "combine"
          /\ sample' = 1 /\ step' = 1
       \/ phase = "combine" /\ phase' = "done" /\ UNCHANGED <<sample, step>>

\* A function ends, and the next one begins.
LEMMA TurnoverStep ==
  ASSUME SpansInv, Turnover
  PROVE  SpansInv'
<1>1. /\ Loops /\ sample \in Nat \ {0} /\ step \in Nat \ {0} /\ N \in Nat
      /\ UNCHANGED <<batch, spans, occurrences, covered>>
  BY SizesAssumption DEF SpansInv, Turnover, Loops
<1>2. Loops'
  <2>1. phase' \in Phases /\ (phase' \in {"graph", "broadcast"} => batch.salt) /\ phase' # "scores"
    BY <1>1 DEF Turnover, Loops, Phases, Passes
  <2>2. sample' \in Nat \ {0} /\ sample' <= N + 1 /\ step' \in Nat \ {0}
    BY <1>1 DEF Turnover, Loops
  <2>3. QED
    BY <1>1, <2>1, <2>2 DEF Loops, Turnover
<1>3. \A q \in Passes, s \in Samples : \A k \in spans[q][s] :
         /\ k \in 1..Len(Records(s)) /\ Readable(s, RecordOf(s, k)) /\ Behind(q, s, k)
         /\ q # "turns" => Eligible(s)
  BY DEF SpansInv, Taken
<1>4. \A s \in Samples : s \in Nat \ {0} /\ s <= N
  BY <1>1 DEF Samples
<1>5. ASSUME NEW q \in Passes, NEW s \in Samples, NEW k, Behind(q, s, k) PROVE Behind(q, s, k)'
  BY <1>1, <1>4, <1>5 DEF Behind, Over, Turnover, Passes
<1>6. Taken'
  BY <1>1, <1>3, <1>5, SameBatch DEF Taken
<1>7. Covered'
  <2>1. CASE phase' \in Passes
    <3>1. covered = {}
      BY <1>1, <2>1 DEF SpansInv, Covered, Turnover, Passes
    <3>2. \A s \in Samples : spans[phase'][s] = {}
      <4>1. \A s, k : ~Behind(phase', s, k)
        BY <2>1 DEF Behind, Over, Turnover, Passes
      <4>2. QED
        BY <1>3, <2>1, <4>1
    <3>3. sample' = 1
      BY <1>1, <2>1 DEF Turnover, Loops, Passes
    <3>4. 1 <= N => 1 \in Samples
      BY <1>1 DEF Samples
    <3>5. QED
      BY <1>1, <3>1, <3>2, <3>3, <3>4 DEF Covered
  <2>2. CASE phase' \notin Passes
    BY <1>1, <2>2 DEF Covered, Turnover, Passes
  <2>3. QED
    BY <2>1, <2>2
<1>8. ASSUME NEW q \in Passes, NEW s \in Samples, NEW k \in Nat \ {0}, Behind(q, s, k)', ~Behind(q, s, k)
      PROVE  ~batch.salt \/ (q = "turns" /\ ~batch.lata)
  BY <1>1, <1>4, <1>8 DEF Behind, Over, Turnover, Passes, Loops
<1>9. Greedy'
  <2>1. ASSUME NEW s \in Samples, batch.salt, Eligible(s), NEW k \in 1..Len(Records(s)), Behind("graph", s, k)'
        PROVE  k \in spans["graph"][s] <=>
                  /\ Readable(s, RecordOf(s, k))
                  /\ \A j \in spans["graph"][s] : j < k => SpanOf(s, j) \cap SpanOf(s, k) = {}
    <3>1. k \in Nat \ {0}
      BY <1>1, RecordFacts, BatchesAssumption DEF Loops
    <3>2. Behind("graph", s, k)
      BY <1>8, <2>1, <3>1 DEF Passes
    <3>3. QED
      BY <2>1, <3>2 DEF SpansInv, Greedy
  <2>2. QED
    BY <1>1, <2>1, SameBatch DEF Greedy
<1>10. \A q \in Passes, s \in Samples : spans[q][s] \subseteq Nat \ {0}
  BY <1>1 DEF Loops
<1>11. Agree'
  <2>1. ASSUME NEW s \in Samples, NEW k \in Nat
        PROVE  k \in spans["broadcast"][s] <=> k \in spans["graph"][s] /\ Behind("broadcast", s, k)'
    <3>1. k \in spans["broadcast"][s] <=> k \in spans["graph"][s] /\ Behind("broadcast", s, k)
      BY DEF SpansInv, Agree
    <3>2. ASSUME k \in spans["graph"][s], Behind("broadcast", s, k)', ~Behind("broadcast", s, k)
          PROVE  FALSE
      <4>1. ~batch.salt
        BY <1>8, <1>10, <3>2 DEF Passes
      <4>2. phase = "scores"
        BY <1>1, <1>4, <3>2, <4>1 DEF Behind, Over, Turnover, Passes, Loops
      <4>3. ~Behind("graph", s, k)
        BY <4>2 DEF Behind, Over
      <4>4. QED
        BY <1>3, <3>2, <4>3 DEF Passes
    <3>3. QED
      BY <1>5, <3>1, <3>2 DEF Passes
  <2>2. ASSUME NEW s \in Samples, NEW k \in Nat, batch.salt, batch.lata, Eligible(s)
        PROVE  k \in spans["turns"][s] <=> k \in spans["graph"][s] /\ Behind("turns", s, k)'
    <3>1. k \in spans["turns"][s] <=> k \in spans["graph"][s] /\ Behind("turns", s, k)
      BY <2>2 DEF SpansInv, Agree
    <3>2. k \in spans["graph"][s] => (Behind("turns", s, k)' <=> Behind("turns", s, k))
      BY <1>5, <1>8, <1>10, <2>2 DEF Passes
    <3>3. QED
      BY <3>1, <3>2
  <2>3. QED
    BY <1>1, <2>1, <2>2, SameBatch DEF Agree
<1>12. Spread'
  <2>1. CASE UNCHANGED <<token, score>>
    BY <1>1, <2>1, SameBatch DEF SpansInv, Spread
  <2>2. CASE phase \in {"scores", "graph"}
    <3>1. \A s, k : ~Behind("broadcast", s, k)
      BY <2>2 DEF Behind, Over
    <3>2. \A s \in Samples : spans["broadcast"][s] = {}
      BY <1>3, <3>1 DEF Passes
    <3>3. QED
      BY <1>1, <3>2 DEF SpansInv, Spread
  <2>3. QED
    BY <2>1, <2>2 DEF Turnover
<1>13. QED
  BY <1>2, <1>6, <1>7, <1>9, <1>11, <1>12 DEF SpansInv

\* Every step keeps the passes in agreement.
LEMMA SpansStep ==
  ASSUME SpansInv, [Next]_vars
  PROVE  SpansInv'
<1>1. Loops
  BY DEF SpansInv
<1>2. CASE Scores
  <2>1. Turnover
    BY <1>2 DEF Scores, Turnover, loopVars
  <2>2. QED
    BY <2>1, TurnoverStep
<1>3. CASE Merge
  <2>1. Turnover
    BY <1>1, <1>3 DEF Merge, Turnover, EndOf, Rewind, Passes, Loops
  <2>2. QED
    BY <2>1, TurnoverStep
<1>4. CASE EndBroadcast
  <2>1. Turnover
    BY <1>1, <1>4 DEF EndBroadcast, Turnover, EndOf, Rewind, Passes, Loops
  <2>2. QED
    BY <2>1, TurnoverStep
<1>5. CASE EndTurns
  <2>1. Turnover
    BY <1>1, <1>5 DEF EndTurns, Turnover, EndOf, Rewind, Passes, Loops
  <2>2. QED
    BY <2>1, TurnoverStep
<1>6. CASE Combine
  <2>1. Turnover
    BY <1>1, <1>6 DEF Combine, Turnover, Passes, Loops, loopVars
  <2>2. QED
    BY <2>1, TurnoverStep
<1>7. CASE UNCHANGED vars
  <2>1. UNCHANGED <<batch, phase, sample, step, covered, occurrences, score, token, spans>>
    BY <1>7 DEF vars, loopVars
  <2>2. \A q, s, k : Behind(q, s, k)' <=> Behind(q, s, k)
    BY <2>1 DEF Behind, Over
  <2>3. Loops' /\ Taken' /\ Covered'
    BY <2>1, <2>2, SameBatch DEF SpansInv, Loops, Taken, Covered
  <2>4. Greedy' /\ Agree' /\ Spread'
    BY <2>1, <2>2, SameBatch DEF SpansInv, Greedy, Agree, Spread
  <2>5. QED
    BY <2>3, <2>4 DEF SpansInv
<1>8. QED
  BY <1>2, <1>3, <1>4, <1>5, <1>6, <1>7, GraphStep, BroadcastStep, TurnStep, NextSampleStep DEF Next

\* The passes are in agreement in every reachable state, whatever the traces
\* hold (core_algos.py:780, 884, 971).
THEOREM PassesAgree == Spec => []SpansInv
<1>1. Init => SpansInv
  BY SpansInit
<1>2. SpansInv /\ [Next]_vars => SpansInv'
  BY SpansStep
<1>3. QED
  BY <1>1, <1>2, PTL DEF Spec

\* The graph, the broadcast and LATA come to the same spans, and every merged
\* step's score is on all of its tokens, for any number and length of traces.
THEOREM SpansAgree == Spec => []SpansReadAlike
<1>1. ASSUME SpansInv PROVE SpansReadAlike
  <2>1. Loops /\ \A q \in Passes, s \in Samples : spans[q][s] \subseteq Nat
    BY <1>1 DEF SpansInv, Loops
  <2>2. ASSUME NEW s \in Samples, phase \in {"turns", "combine", "done"}
        PROVE  spans["broadcast"][s] = spans["graph"][s]
    <3>1. \A k : Behind("broadcast", s, k)
      BY <2>2 DEF Behind, Over
    <3>2. QED
      BY <1>1, <2>1, <3>1 DEF SpansInv, Agree, Passes
  <2>3. ASSUME NEW s \in Samples, phase \in {"combine", "done"}, batch.salt, batch.lata, Eligible(s)
        PROVE  spans["turns"][s] = spans["graph"][s]
    <3>1. \A k : Behind("turns", s, k)
      BY <2>3 DEF Behind, Over
    <3>2. QED
      BY <1>1, <2>1, <2>3, <3>1 DEF SpansInv, Agree, Passes
  <2>4. ASSUME phase \in {"turns", "combine", "done"}, NEW o \in occurrences,
               NEW p \in Span(Records(o.sample)[o.step])
        PROVE  token[o.sample][p] = score[o.sample][o.step]
    <3>1. o.sample \in Samples /\ o.step \in spans["broadcast"][o.sample]
      BY <1>1, <2>2, <2>4 DEF SpansInv, Spread
    <3>2. p \in SpanOf(o.sample, o.step)
      BY <2>4 DEF SpanOf, RecordOf
    <3>3. QED
      BY <1>1, <3>1, <3>2 DEF SpansInv, Spread
  <2>5. QED
    BY <2>2, <2>3, <2>4 DEF SpansReadAlike
<1>2. QED
  BY <1>1, PassesAgree, PTL

(***************************************************************************)
(* The fallback.                                                           *)
(***************************************************************************)

\* A group all of whose trajectories failed has no mixed outcomes.
LEMMA FallbackIneligible ==
  ASSUME batch \in Batch, NEW s \in Samples, Fallback(s)
  PROVE  ~Eligible(s)
<1>1. \A t \in Peers(s) : batch.outcome[t] \in Nat /\ batch.outcome[t] < TauReward
  BY DEF Fallback, AllFail, Peers, Batch
<1>2. TauReward \in Nat
  BY ScalesAssumption
<1>3. QED
  BY <1>1, <1>2 DEF Eligible

\* The broadcast visits no trajectory whose group fell back on progress, and
\* nothing else changes a token after the scores are set.
LEMMA FallbackStep ==
  ASSUME SpansInv, FallbackNeverRefined, [Next]_vars
  PROVE  FallbackNeverRefined'
<1>1. batch \in Batch /\ Loops
  BY BatchesAssumption DEF SpansInv, Loops
<1>2. batch' = batch
  BY DEF Next, Scores, AddStep, Merge, Broadcast, EndBroadcast, Turn, EndTurns, NextSample,
         Combine, vars
<1>3. \A s : Fallback(s)' <=> Fallback(s)
  <2>1. \A s : Peers(s)' = Peers(s)
    BY <1>2 DEF Peers
  <2>2. QED
    BY <1>2, <2>1 DEF Fallback, AllFail
<1>4. CASE Scores
  BY <1>4 DEF Scores, FallbackNeverRefined
<1>5. CASE Broadcast
  <2>1. sample \in Samples /\ Eligible(sample) /\ UNCHANGED scalar /\ phase # "scores"
    BY <1>5, AtFacts DEF Broadcast, Passes
  <2>2. \A s \in Samples : s # sample => token'[s] = token[s]
    BY <1>1, <1>5 DEF Broadcast, Loops
  <2>3. \A s \in Samples : Fallback(s) => s # sample
    BY <1>1, <2>1, FallbackIneligible
  <2>4. QED
    BY <1>3, <2>1, <2>2, <2>3 DEF FallbackNeverRefined
<1>6. CASE UNCHANGED <<token, scalar>> /\ phase # "scores"
  BY <1>3, <1>6 DEF FallbackNeverRefined
<1>7. CASE UNCHANGED vars
  BY <1>3, <1>7 DEF FallbackNeverRefined, vars
<1>8. QED
  BY <1>4, <1>5, <1>6, <1>7 DEF Next, AddStep, Merge, EndBroadcast, Turn, EndTurns,
     NextSample, Combine, AtRecord, EndOf

\* A progress signal is never refined by the outcome-only graph: every token
\* of a trajectory that fell back carries its one advantage (core_algos.py:528,
\* 732), whatever the outcomes of the other groups.
THEOREM FallbackStays == Spec => []FallbackNeverRefined
<1>1. Init => FallbackNeverRefined
  BY DEF Init, FallbackNeverRefined
<1>2. SpansInv /\ FallbackNeverRefined /\ [Next]_vars => FallbackNeverRefined'
  BY FallbackStep
<1>3. QED
  BY <1>1, <1>2, PassesAgree, PTL DEF Spec

(***************************************************************************)
(* The transitions.                                                        *)
(***************************************************************************)

\* The pair of record k of trajectory s.
PairOf(s, k) ==
    IF ValidKey(RecordOf(s, k))
    THEN [action |-> RecordOf(s, k).action, observation |-> RecordOf(s, k).observation,
          origin |-> <<>>]
    ELSE [action |-> NoKey, observation |-> NoKey, origin |-> <<s, k>>]

\* The list h holds the pairs of the first n records of trajectory s.
PairsUpTo(s, h, n) ==
    /\ h \in Seq(PairState)
    /\ Len(h) = n
    /\ \A j \in 1..n : h[j] = PairOf(s, j)

StateOf(s, h) ==
    IF h = <<>> THEN [root |-> batch.root[s], recent |-> <<>>]
    ELSE [root |-> NoKey, recent |-> Recent(h)]

KeyOf(s, h, pair) ==
    [from |-> StateOf(s, h), action |-> pair.action, to |-> StateOf(s, Append(h, pair))]

\* The history is that of the records behind the graph, and a transition's
\* key that of the records before its step.
Histories ==
    /\ phase = "scores" => history = <<>>
    /\ phase = "graph" /\ sample <= N => PairsUpTo(sample, history, step - 1)

Keyed == \A o \in occurrences :
    /\ o = [sample |-> o.sample, step |-> o.step, key |-> o.key]
    /\ o.sample \in Samples
    /\ o.step \in 1..Len(Records(o.sample))
    /\ ValidKey(RecordOf(o.sample, o.step))
    /\ \E h : /\ PairsUpTo(o.sample, h, o.step - 1)
              /\ o.key = KeyOf(o.sample, h, PairOf(o.sample, o.step))

\* The pairs are well formed.
LEMMA PairFacts ==
  ASSUME batch \in Batch, NEW s \in Samples, NEW k \in 1..Len(Records(s))
  PROVE  PairOf(s, k) \in PairState
<1>1. k \in Nat \ {0} /\ RecordOf(s, k) \in Record \cup {Malformed}
  BY RecordFacts
<1>2. CASE ValidKey(RecordOf(s, k))
  BY <1>1, <1>2 DEF PairOf, PairState, ValidKey, Record
<1>3. CASE ~ValidKey(RecordOf(s, k))
  BY <1>1, <1>3 DEF PairOf, PairState
<1>4. QED
  BY <1>2, <1>3

\* The last History pairs, counted from the end.
LEMMA RecentFacts ==
  ASSUME NEW S, NEW h \in Seq(S)
  PROVE  /\ Recent(h) \in Seq(S)
         /\ Len(Recent(h)) = IF Len(h) <= History THEN Len(h) ELSE History
         /\ \A j \in Nat : j < Len(Recent(h)) =>
               Recent(h)[Len(Recent(h)) - j] = h[Len(h) - j]
<1>1. History \in Nat \ {0} /\ Len(h) \in Nat
  BY SizesAssumption
<1>2. CASE Len(h) <= History
  BY <1>1, <1>2 DEF Recent
<1>3. CASE ~(Len(h) <= History)
  <2> DEFINE m == Len(h) - History + 1
  <2>1. m \in 1..Len(h) /\ Len(h) - m + 1 = History
    BY <1>1, <1>3
  <2>2. Recent(h) = SubSeq(h, m, Len(h))
    BY <1>3 DEF Recent
  <2>3. /\ SubSeq(h, m, Len(h)) \in Seq(S)
        /\ Len(SubSeq(h, m, Len(h))) = History
        /\ \A i \in 1..History : SubSeq(h, m, Len(h))[i] = h[m + i - 1]
    BY <1>1, <2>1
  <2>4. ASSUME NEW j \in Nat, j < History PROVE SubSeq(h, m, Len(h))[History - j] = h[Len(h) - j]
    <3>1. History - j \in 1..History /\ m + (History - j) - 1 = Len(h) - j
      BY <1>1, <2>4
    <3>2. QED
      BY <2>3, <3>1
  <2> HIDE DEF m
  <2>5. QED
    BY <1>3, <2>2, <2>3, <2>4
<1>4. QED
  BY <1>2, <1>3

\* How many of n pairs a state remembers.
Reach(n) == IF n <= History THEN n ELSE History

\* What two lists have in common that make the same state.
SameEnd(s, g, t, h) ==
    /\ Reach(Len(g)) = Reach(Len(h))
    /\ \A j \in Nat : j < Reach(Len(g)) => g[Len(g) - j] = h[Len(h) - j]
    /\ g = <<>> => h = <<>> /\ batch.root[s] = batch.root[t]

\* Two states are the same only if the same pairs end their histories.
LEMMA StateFacts ==
  \A s, t : \A g, h \in Seq(PairState) :
      StateOf(s, g) = StateOf(t, h) => SameEnd(s, g, t, h)
<1> SUFFICES ASSUME NEW s, NEW t, NEW g \in Seq(PairState), NEW h \in Seq(PairState),
                    StateOf(s, g) = StateOf(t, h)
             PROVE  SameEnd(s, g, t, h)
  OBVIOUS
<1>1. History \in Nat \ {0} /\ Len(g) \in Nat /\ Len(h) \in Nat
  BY SizesAssumption
<1>2. StateOf(s, g).recent = Recent(g) /\ StateOf(t, h).recent = Recent(h)
  <2>1. \A f \in Seq(PairState) : f = <<>> => Recent(f) = <<>>
    BY <1>1 DEF Recent
  <2>2. QED
    BY <2>1 DEF StateOf
<1>3. Recent(g) = Recent(h)
  BY <1>2
<1>4. /\ Len(Recent(g)) = Reach(Len(g))
      /\ Len(Recent(h)) = Reach(Len(h))
      /\ \A j \in Nat : j < Len(Recent(g)) => Recent(g)[Len(Recent(g)) - j] = g[Len(g) - j]
      /\ \A j \in Nat : j < Len(Recent(h)) => Recent(h)[Len(Recent(h)) - j] = h[Len(h) - j]
  BY RecentFacts DEF Reach
<1>5. ASSUME g = <<>> PROVE h = <<>> /\ batch.root[s] = batch.root[t]
  <2>1. Len(g) = 0
    BY <1>5
  <2>2. Len(h) = 0
    BY <1>1, <1>3, <1>4, <2>1 DEF Reach
  <2>3. h = <<>>
    BY <2>2
  <2>4. QED
    BY <1>5, <2>3 DEF StateOf
<1>6. QED
  BY <1>3, <1>4, <1>5 DEF SameEnd

\* What a transition's key is made of stays as long as the batch does.
LEMMA SameKeys ==
  ASSUME batch' = batch
  PROVE  /\ \A s, k : PairOf(s, k)' = PairOf(s, k)
         /\ \A s, h, n : PairsUpTo(s, h, n)' <=> PairsUpTo(s, h, n)
         /\ \A s, h, p : KeyOf(s, h, p)' = KeyOf(s, h, p)
<1>1. \A s, k : PairOf(s, k)' = PairOf(s, k)
  BY SameBatch DEF PairOf, ValidKey
<1>2. \A s, h, n : PairsUpTo(s, h, n)' <=> PairsUpTo(s, h, n)
  BY <1>1 DEF PairsUpTo
<1>3. \A s, h, p : KeyOf(s, h, p)' = KeyOf(s, h, p)
  BY DEF KeyOf, StateOf, Recent
<1>4. QED
  BY <1>1, <1>2, <1>3

\* Nothing is the history of no records.
LEMMA NoPairs == \A s : PairsUpTo(s, <<>>, 0)
  BY DEF PairsUpTo

\* The graph keeps the histories and keys its transitions by them.
LEMMA KeyedStep ==
  ASSUME SpansInv, Histories, Keyed, [Next]_vars
  PROVE  Histories' /\ Keyed'
<1>1. batch \in Batch /\ Loops
  BY BatchesAssumption DEF SpansInv, Loops
<1>2. batch' = batch
  BY DEF Next, Scores, AddStep, Merge, Broadcast, EndBroadcast, Turn, EndTurns, NextSample,
         Combine, vars
<1>3. occurrences' = occurrences => Keyed'
  <2>1. ASSUME occurrences' = occurrences, NEW o \in occurrences
        PROVE  (/\ o = [sample |-> o.sample, step |-> o.step, key |-> o.key]
                /\ o.sample \in Samples
                /\ o.step \in 1..Len(Records(o.sample))
                /\ ValidKey(RecordOf(o.sample, o.step))
                /\ \E h : /\ PairsUpTo(o.sample, h, o.step - 1)
                          /\ o.key = KeyOf(o.sample, h, PairOf(o.sample, o.step)))'
    <3>1. /\ o = [sample |-> o.sample, step |-> o.step, key |-> o.key]
          /\ o.sample \in Samples
          /\ o.step \in 1..Len(Records(o.sample))
          /\ ValidKey(RecordOf(o.sample, o.step))
      BY <2>1 DEF Keyed
    <3>2. PICK h : /\ PairsUpTo(o.sample, h, o.step - 1)
                   /\ o.key = KeyOf(o.sample, h, PairOf(o.sample, o.step))
      BY <2>1 DEF Keyed
    <3>3. /\ Records(o.sample)' = Records(o.sample)
          /\ RecordOf(o.sample, o.step)' = RecordOf(o.sample, o.step)
      BY <1>2, SameBatch
    <3>4. PairsUpTo(o.sample, h, o.step - 1)' /\ PairOf(o.sample, o.step)' = PairOf(o.sample, o.step)
      BY <1>2, <3>2, SameKeys
    <3>5. KeyOf(o.sample, h, PairOf(o.sample, o.step))' = KeyOf(o.sample, h, PairOf(o.sample, o.step))
      BY <1>2, <3>4 DEF KeyOf, StateOf, Recent
    <3>6. (ValidKey(RecordOf(o.sample, o.step)))'
      BY <3>1, <3>3 DEF ValidKey
    <3>7. QED
      BY <3>1, <3>2, <3>3, <3>4, <3>5, <3>6
  <2>2. QED
    BY <2>1 DEF Keyed
<1>4. CASE AddStep
  <2> DEFINE pair == Pair(Current)
             new == [sample |-> sample, step |-> step, key |-> Transition(history, pair)]
  <2>1. /\ sample \in Samples /\ step \in 1..Len(Records(sample)) /\ phase = "graph"
        /\ Current = RecordOf(sample, step) /\ sample <= N /\ step \in Nat \ {0}
    BY <1>1, <1>4, AtFacts DEF AddStep, Passes, Samples, Loops
  <2>2. pair = PairOf(sample, step) /\ pair \in PairState
    BY <1>1, <2>1, PairFacts DEF Pair, PairOf
  <2>3. PairsUpTo(sample, history, step - 1)
    BY <2>1 DEF Histories
  <2>4. history' = Append(history, pair) /\ sample' = sample /\ step' = step + 1 /\ phase' = phase
    BY <1>4 DEF AddStep, NextRecord
  <2>5. PairsUpTo(sample, history', step)
    <3>1. /\ history \in Seq(PairState) /\ Len(history) = step - 1
          /\ \A j \in 1..step - 1 : history[j] = PairOf(sample, j)
      BY <2>3 DEF PairsUpTo
    <3>2. /\ history' \in Seq(PairState) /\ Len(history') = step
          /\ \A j \in 1..step - 1 : history'[j] = history[j]
          /\ history'[step] = pair
      BY <2>1, <2>2, <2>4, <3>1
    <3>3. QED
      BY <2>1, <2>2, <3>1, <3>2 DEF PairsUpTo
  <2>6. Histories'
    <3>1. step' - 1 = step
      BY <2>1, <2>4
    <3>2. PairsUpTo(sample', history', step' - 1)
      BY <2>4, <2>5, <3>1
    <3>3. \A s, h, n : PairsUpTo(s, h, n)' <=> PairsUpTo(s, h, n)
      BY <1>2, SameKeys
    <3>4. PairsUpTo(sample, history, step - 1)'
      BY <3>2, <3>3
    <3>5. QED
      BY <2>1, <2>4, <3>4 DEF Histories
  <2>7. ASSUME NEW o \in occurrences', o \notin occurrences
        PROVE  o = new /\ ValidKey(Current)
    BY <1>4, <2>7 DEF AddStep
  <2>8. Transition(history, pair) = KeyOf(sample, history, pair)
    BY DEF Transition, KeyOf, State, StateOf
  <2>9. ASSUME NEW o \in occurrences'
        PROVE  /\ o = [sample |-> o.sample, step |-> o.step, key |-> o.key]
               /\ o.sample \in Samples
               /\ o.step \in 1..Len(Records(o.sample))
               /\ ValidKey(RecordOf(o.sample, o.step))
               /\ \E h : /\ PairsUpTo(o.sample, h, o.step - 1)
                         /\ o.key = KeyOf(o.sample, h, PairOf(o.sample, o.step))
    <3>1. CASE o \in occurrences
      BY <3>1 DEF Keyed
    <3>2. CASE o \notin occurrences
      <4>1. /\ o.sample = sample /\ o.step = step /\ o.key = KeyOf(sample, history, pair)
            /\ o = [sample |-> o.sample, step |-> o.step, key |-> o.key] /\ ValidKey(Current)
        BY <2>7, <2>8, <2>9, <3>2
      <4>2. QED
        BY <2>1, <2>2, <2>3, <4>1
    <3>3. QED
      BY <3>1, <3>2
  <2>10. Keyed'
    BY <1>2, <2>9, SameBatch, SameKeys DEF Keyed, ValidKey
  <2>11. QED
    BY <2>6, <2>10
<1>5. CASE NextSample
  <2>1. history' = <<>> /\ step' - 1 = 0 /\ occurrences' = occurrences /\ phase # "scores" /\ phase' = phase
    BY <1>5 DEF NextSample
  <2>2. \A s, h, n : PairsUpTo(s, h, n)' <=> PairsUpTo(s, h, n)
    BY <1>2, SameKeys
  <2>3. PairsUpTo(sample, history, step - 1)'
    BY <2>1, <2>2, NoPairs
  <2>4. QED
    BY <1>3, <2>1, <2>3 DEF Histories
<1>6. CASE Scores
  <2>1. /\ history' = <<>> /\ step' - 1 = 0 /\ occurrences' = occurrences
        /\ phase' # "scores"
    BY <1>1, <1>6 DEF Scores, Histories, Loops, loopVars
  <2>2. \A s, h, n : PairsUpTo(s, h, n)' <=> PairsUpTo(s, h, n)
    BY <1>2, SameKeys
  <2>3. PairsUpTo(sample, history, step - 1)'
    BY <2>1, <2>2, NoPairs
  <2>4. QED
    BY <1>3, <2>1, <2>3 DEF Histories
<1>7. CASE Merge \/ Broadcast \/ EndBroadcast \/ Turn \/ EndTurns \/ Combine
  <2>1. phase' \notin {"scores", "graph"} /\ occurrences' = occurrences
    BY <1>7 DEF Merge, Broadcast, EndBroadcast, Turn, EndTurns, Combine, AtRecord, EndOf
  <2>2. QED
    BY <1>3, <2>1 DEF Histories
<1>8. CASE UNCHANGED vars
  <2>1. UNCHANGED <<batch, phase, sample, step, history, occurrences>>
    BY <1>8 DEF vars, loopVars
  <2>2. \A s, h, n : PairsUpTo(s, h, n)' <=> PairsUpTo(s, h, n)
    BY <1>2, SameKeys
  <2>3. PairsUpTo(sample, history, step - 1)' <=> PairsUpTo(sample, history, step - 1)
    BY <2>1, <2>2
  <2>4. QED
    BY <1>3, <2>1, <2>3 DEF Histories
<1>9. QED
  BY <1>4, <1>5, <1>6, <1>7, <1>8 DEF Next

\* Two transitions with one key follow the same conversation, as far back as
\* the history reaches (core_algos.py:763): a step that must not be merged
\* has a pair of its own and separates what comes after it.
LEMMA KeyedShareContext ==
  ASSUME SpansInv, Keyed
  PROVE  MergedShareContext
<1>1. batch \in Batch /\ History \in Nat \ {0}
  BY BatchesAssumption, SizesAssumption DEF SpansInv, Loops
<1>2. ASSUME NEW o \in occurrences, NEW q \in occurrences, o # q, o.key = q.key
      PROVE  /\ Back(o) = Back(q) /\ Back(o) \in Nat
             /\ o.step = 1 => q.step = 1 /\ batch.root[o.sample] = batch.root[q.sample]
             /\ \A j \in 0..Back(o) :
                   PairOf(o.sample, o.step - j) = PairOf(q.sample, q.step - j)
  <2>1. PICK g : /\ PairsUpTo(o.sample, g, o.step - 1)
                 /\ o.key = KeyOf(o.sample, g, PairOf(o.sample, o.step))
    BY DEF Keyed
  <2>2. PICK h : /\ PairsUpTo(q.sample, h, q.step - 1)
                 /\ q.key = KeyOf(q.sample, h, PairOf(q.sample, q.step))
    BY DEF Keyed
  <2>3. /\ o.sample \in Samples /\ o.step \in 1..Len(Records(o.sample)) /\ o.step \in Nat \ {0}
        /\ q.sample \in Samples /\ q.step \in 1..Len(Records(q.sample)) /\ q.step \in Nat \ {0}
    BY <1>1, RecordFacts DEF Keyed
  <2>4. /\ g \in Seq(PairState) /\ Len(g) = o.step - 1
        /\ \A j \in 1..o.step - 1 : g[j] = PairOf(o.sample, j)
        /\ h \in Seq(PairState) /\ Len(h) = q.step - 1
        /\ \A j \in 1..q.step - 1 : h[j] = PairOf(q.sample, j)
    BY <2>1, <2>2 DEF PairsUpTo
  <2>5. StateOf(o.sample, g) = StateOf(q.sample, h)
    <3>1. o.key.from = StateOf(o.sample, g) /\ q.key.from = StateOf(q.sample, h)
      BY <2>1, <2>2 DEF KeyOf
    <3>2. QED
      BY <1>2, <3>1
  <2> DEFINE G == Append(g, PairOf(o.sample, o.step))
             H == Append(h, PairOf(q.sample, q.step))
  <2>6. StateOf(o.sample, G) = StateOf(q.sample, H)
    <3>1. o.key.to = StateOf(o.sample, G) /\ q.key.to = StateOf(q.sample, H)
      BY <2>1, <2>2 DEF KeyOf
    <3>2. QED
      BY <1>2, <3>1
  <2>7. PairOf(o.sample, o.step) \in PairState /\ PairOf(q.sample, q.step) \in PairState
    BY <1>1, <2>3, PairFacts
  <2>8. /\ G \in Seq(PairState) /\ Len(G) = o.step /\ G[o.step] = PairOf(o.sample, o.step)
        /\ H \in Seq(PairState) /\ Len(H) = q.step /\ H[q.step] = PairOf(q.sample, q.step)
    BY <2>3, <2>4, <2>7
  <2> HIDE DEF G, H
  <2>9. PairOf(o.sample, o.step) = PairOf(q.sample, q.step)
    <3>1. \A j \in Nat : j < Reach(Len(G)) =>
               G[Len(G) - j] = H[Len(H) - j]
      <4>1. SameEnd(o.sample, G, q.sample, H)
        BY <2>6, <2>8, StateFacts
      <4>2. QED
        BY <4>1 DEF SameEnd
    <3>2. 0 < Reach(Len(G))
      BY <1>1, <2>3, <2>8 DEF Reach
    <3>3. G[Len(G) - 0] = H[Len(H) - 0]
      BY <3>1, <3>2
    <3>4. QED
      BY <2>3, <2>8, <3>3
  <2>10. /\ Reach(Len(g)) = Reach(Len(h))
         /\ \A j \in Nat : j < Reach(Len(g)) =>
               g[Len(g) - j] = h[Len(h) - j]
         /\ g = <<>> => h = <<>> /\ batch.root[o.sample] = batch.root[q.sample]
    <3>1. SameEnd(o.sample, g, q.sample, h)
      BY <2>4, <2>5, StateFacts
    <3>2. QED
      BY <3>1 DEF SameEnd
  <2>11. /\ Back(o) = Reach(Len(g))
         /\ Back(q) = Reach(Len(h))
         /\ Back(o) \in Nat /\ Back(o) <= o.step - 1 /\ Back(q) <= q.step - 1
    <3>1. ASSUME NEW n \in Nat
          PROVE  (IF n < History THEN n ELSE History) = Reach(n)
      BY <1>1 DEF Reach
    <3>2. QED
      BY <1>1, <2>3, <2>4, <3>1 DEF Back
  <2>12. Back(o) = Back(q)
    BY <2>10, <2>11
  <2>13. ASSUME NEW j \in 0..Back(o)
         PROVE  PairOf(o.sample, o.step - j) = PairOf(q.sample, q.step - j)
    <3>1. CASE j = 0
      BY <2>3, <2>9, <3>1
    <3>2. CASE j # 0
      <4>1. j - 1 \in Nat /\ j - 1 < Back(o) /\ j \in Nat
        BY <2>11, <3>2
      <4>2. g[Len(g) - (j - 1)] = h[Len(h) - (j - 1)]
        BY <2>10, <2>11, <4>1
      <4>3. Len(g) - (j - 1) = o.step - j /\ Len(h) - (j - 1) = q.step - j
        <5>1. Len(g) = o.step - 1 /\ Len(h) = q.step - 1 /\ o.step \in Nat /\ q.step \in Nat
          BY <2>3, <2>4
        <5>2. \A n \in Nat : (n - 1) - (j - 1) = n - j
          BY <4>1
        <5>3. QED
          BY <5>1, <5>2
      <4>4. o.step - j \in 1..o.step - 1 /\ q.step - j \in 1..q.step - 1
        BY <2>3, <2>11, <2>12, <2>13, <3>2, <4>1
      <4>5. QED
        BY <2>4, <4>2, <4>3, <4>4
    <3>3. QED
      BY <3>1, <3>2
  <2>14. ASSUME o.step = 1 PROVE q.step = 1 /\ batch.root[o.sample] = batch.root[q.sample]
    <3>1. g = <<>>
      BY <2>4, <2>14
    <3>2. h = <<>> /\ batch.root[o.sample] = batch.root[q.sample]
      BY <2>10, <3>1
    <3>3. QED
      BY <2>3, <2>4, <3>2
  <2>15. QED
    BY <2>11, <2>12, <2>13, <2>14
<1>3. ASSUME NEW o \in occurrences, NEW q \in occurrences, o # q, o.key = q.key,
             NEW j \in 0..Back(o)
      PROVE  ValidKey(RecordOf(o.sample, o.step - j))
  <2>1. PairOf(o.sample, o.step - j) = PairOf(q.sample, q.step - j)
    BY <1>2, <1>3
  <2>2. /\ o.step \in Nat /\ q.step \in Nat /\ j \in Int
        /\ o = [sample |-> o.sample, step |-> o.step, key |-> o.key]
        /\ q = [sample |-> q.sample, step |-> q.step, key |-> q.key]
    BY <1>1, <1>2, <1>3, RecordFacts DEF Keyed
  <2>3. ASSUME ~ValidKey(RecordOf(o.sample, o.step - j)) PROVE FALSE
    <3>1. PairOf(o.sample, o.step - j).origin = <<o.sample, o.step - j>>
      BY <2>3 DEF PairOf
    <3>2. \/ PairOf(q.sample, q.step - j).origin = <<>>
          \/ PairOf(q.sample, q.step - j).origin = <<q.sample, q.step - j>>
      BY DEF PairOf
    <3>3. <<o.sample, o.step - j>> = <<q.sample, q.step - j>>
      BY <2>1, <3>1, <3>2
    <3>4. o.sample = q.sample /\ o.step - j = q.step - j
      BY <3>3
    <3>5. o.step = q.step
      BY <2>2, <3>4
    <3>6. QED
      BY <1>3, <2>2, <3>4, <3>5
  <2>4. QED
    BY <2>3
<1>4. ASSUME NEW o \in occurrences, NEW q \in occurrences, o # q, o.key = q.key,
             NEW j \in 0..Back(o)
      PROVE  /\ ValidKey(Before(o, j)) /\ ValidKey(Before(q, j))
             /\ Before(o, j).action = Before(q, j).action
             /\ Before(o, j).observation = Before(q, j).observation
  <2>1. Back(q) = Back(o) /\ q.key = o.key /\ q # o
    BY <1>2, <1>4
  <2>2. ValidKey(RecordOf(o.sample, o.step - j)) /\ ValidKey(RecordOf(q.sample, q.step - j))
    BY <1>3, <1>4, <2>1
  <2>3. PairOf(o.sample, o.step - j) = PairOf(q.sample, q.step - j)
    BY <1>2, <1>4
  <2>4. /\ RecordOf(o.sample, o.step - j).action = RecordOf(q.sample, q.step - j).action
        /\ RecordOf(o.sample, o.step - j).observation = RecordOf(q.sample, q.step - j).observation
    BY <2>2, <2>3 DEF PairOf
  <2>5. QED
    BY <2>2, <2>4 DEF Before, RecordOf
<1>5. QED
  BY <1>2, <1>4 DEF MergedShareContext

\* Steps are only merged after the same conversation, for every history
\* length and every batch.
THEOREM MergesShareContext == Spec => []MergedShareContext
<1>1. Init => Histories /\ Keyed
  BY DEF Init, Histories, Keyed
<1>2. SpansInv /\ Histories /\ Keyed /\ [Next]_vars => Histories' /\ Keyed'
  BY KeyedStep
<1>3. SpansInv /\ Keyed => MergedShareContext
  BY KeyedShareContext
<1>4. QED
  BY <1>1, <1>2, <1>3, PassesAgree, PTL DEF Spec

=============================================================================
