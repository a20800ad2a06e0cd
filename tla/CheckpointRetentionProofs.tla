---------------------- MODULE CheckpointRetentionProofs ----------------------
(***************************************************************************)
(* The retention limit of CheckpointedTraining, for every limit of two or  *)
(* more and every number of restarts, as long as removals do not fail half *)
(* way: of the directories up to the published step on any schedule, and   *)
(* of all of them for a single rank or for saves on one schedule.          *)
(***************************************************************************)
EXTENDS CheckpointedTrainingProofs

\* A list has no more distinct entries than its length.
LEMMA EntriesBound ==
  ASSUME NEW q \in Seq(Steps)
  PROVE  IsFiniteSet(Entries(q)) /\ Cardinality(Entries(q)) <= Len(q)
<1>1. Len(q) \in Nat /\ IsFiniteSet(1..Len(q)) /\ Cardinality(1..Len(q)) = Len(q)
  <2>1. Len(q) \in Nat
    OBVIOUS
  <2>2. /\ IsFiniteSet(1..Len(q))
        /\ Cardinality(1..Len(q)) = IF 1 > Len(q) THEN 0 ELSE Len(q) - 1 + 1
    BY <2>1, FS_Interval
  <2>3. QED
    BY <2>1, <2>2
<1>2. q \in Surjection(1..Len(q), Entries(q))
  BY DEF Surjection, Entries
<1>3. QED
  BY <1>1, <1>2, FS_Surjection

\* Directories among those of a list and the one being filled.
LEMMA ListedBound ==
  ASSUME NEW S, NEW q \in Seq(Steps), NEW s, S \subseteq Entries(q) \cup {s}
  PROVE  Cardinality(S) <= Len(q) + 1
<1>1. IsFiniteSet(Entries(q)) /\ Cardinality(Entries(q)) <= Len(q)
  BY EntriesBound
<1>2. /\ IsFiniteSet(Entries(q) \cup {s})
      /\ Cardinality(Entries(q) \cup {s}) <= Cardinality(Entries(q)) + 1
      /\ Cardinality(Entries(q)) \in Nat
  BY <1>1, FS_AddElement, FS_CardinalityType
<1>3. /\ IsFiniteSet(S) /\ Cardinality(S) <= Cardinality(Entries(q) \cup {s})
  BY <1>2, FS_Subset
<1>4. Cardinality(S) \in Nat /\ Cardinality(Entries(q) \cup {s}) \in Nat /\ Len(q) \in Nat
  BY <1>2, <1>3, FS_CardinalityType
<1>5. QED
  BY <1>1, <1>2, <1>3, <1>4

\* Splitting a list loses no entry.
LEMMA SplitEntries ==
  ASSUME NEW q \in Seq(Steps), NEW n \in 0..Len(q)
  PROVE  /\ Entries(q) \subseteq
              Entries(SubSeq(q, n + 1, Len(q))) \cup Entries(SubSeq(q, 1, n))
         /\ Len(SubSeq(q, n + 1, Len(q))) = Len(q) - n
<1>1. /\ Len(SubSeq(q, 1, n)) = n
      /\ \A i \in 1..n : SubSeq(q, 1, n)[i] = q[i]
      /\ Len(SubSeq(q, n + 1, Len(q))) = Len(q) - n
      /\ \A i \in 1..(Len(q) - n) : SubSeq(q, n + 1, Len(q))[i] = q[n + i]
  OBVIOUS
<1>2. ASSUME NEW i \in 1..Len(q)
      PROVE  q[i] \in Entries(SubSeq(q, n + 1, Len(q))) \cup Entries(SubSeq(q, 1, n))
  <2>1. CASE i \in 1..n
    BY <1>1, <2>1 DEF Entries
  <2>2. CASE i - n \in 1..(Len(q) - n)
    <3>1. SubSeq(q, n + 1, Len(q))[i - n] = q[i]
      BY <1>1, <2>2
    <3>2. QED
      BY <1>1, <2>2, <3>1 DEF Entries
  <2>3. QED
    BY <2>1, <2>2
<1>3. QED
  BY <1>1, <1>2 DEF Entries

\* A set of actor directories is finite.
LEMMA ActorFinite ==
  ASSUME NEW S \in SUBSET Steps
  PROVE  IsFiniteSet(S) /\ Cardinality(S) \in Nat
<1>1. IsFiniteSet(Steps)
  BY FS_Interval, ConstantsAssumption DEF Steps
<1>2. QED
  BY <1>1, FS_Subset, FS_CardinalityType

\* Counting fewer directories.
LEMMA FewerActors ==
  ASSUME NEW S \in SUBSET Steps, NEW T, T \subseteq S, NEW k \in Nat, Cardinality(S) <= k
  PROVE  Cardinality(T) <= k
<1>1. IsFiniteSet(S) /\ Cardinality(S) \in Nat
  BY ActorFinite
<1>2. IsFiniteSet(T) /\ Cardinality(T) <= Cardinality(S) /\ Cardinality(T) \in Nat
  BY <1>1, FS_Subset, FS_CardinalityType
<1>3. QED
  BY <1>1, <1>2

\* The list a save rotates knows of every directory but its own.
LEMMA RotatedRetention ==
  ASSUME TypeOK, ListInv, proc = "rotate", NEW paths \in RestoredHistories
  PROVE  paths \in Seq(Steps) /\ actor \subseteq Entries(paths) \cup {step}
<1>1. CASE history # <<>>
  BY <1>1 DEF RestoredHistories, ListInv, TypeOK
<1>2. CASE history = <<>>
  <2>1. paths \in AscendingPaths(actor \ {step}) /\ actor \ {step} \in SUBSET Steps
    BY <1>2 DEF RestoredHistories, TypeOK
  <2>2. paths \in Seq(Steps) /\ \A s \in actor \ {step} : \E i \in 1..Len(paths) : paths[i] = s
    BY <2>1, AscendingPathsFacts
  <2>3. QED
    BY <2>2 DEF Entries
<1>3. QED
  BY <1>1, <1>2

\* On any schedule, a process is at or past the published step: it starts
\* there, or from scratch while nothing is published, and only counts up.
LEMMA PositionStep ==
  ASSUME TypeOK, PositionInv, [Next]_vars
  PROVE  PositionInv'
<1> USE Stages DEF PositionInv, Running, NoTracker, EmptyTracker
<1>0. published.step \in Nat /\ step \in Nat
  BY DEF TypeOK, Steps
<1>1. CASE UNCHANGED <<tracker, published, step>> /\ (proc' \in Saving => proc \in Saving)
           /\ (proc = "down" => proc' = "down")
  BY <1>1
<1>2. CASE UNCHANGED vars
  BY <1>2 DEF vars, disk, memory, world
<1>3. ASSUME NEW t \in Targets, LaunchFresh(t) PROVE PositionInv'
  BY <1>0, <1>3 DEF LaunchFresh, Launched, disk, DirectoryEmpty
<1>4. ASSUME NEW t \in Targets, LaunchResume(t) PROVE PositionInv'
  <2>1. LatestStep = tracker /\ tracker \in Steps /\ tracker > 0
    BY <1>4 DEF LaunchResume, LatestStep, Steps
  <2>2. step' = published.step /\ proc' = "train" /\ UNCHANGED <<tracker, published>>
    BY <1>4, <2>1 DEF LaunchResume, Launched, disk
  <2>3. QED
    BY <1>0, <2>1, <2>2
<1>5. ASSUME NEW t \in Targets, Skip(t) \/ Refuse(t) PROVE PositionInv'
  BY <1>5 DEF Skip, Refuse, disk, memory
<1>6. CASE TrainStep
  <2>1. /\ published.step <= step /\ step' = step + 1 /\ UNCHANGED <<tracker, published>>
        /\ proc' \in {"rotate", "train"}
    BY <1>6 DEF TrainStep, disk, world
  <2>2. QED
    BY <1>0, <2>1
<1>7. CASE NextEpoch
  BY <1>7 DEF NextEpoch, disk, world
<1>8. CASE FitReturns \/ Crash
  BY <1>8 DEF FitReturns, Crash, Forget, disk
<1>9. CASE Rotate \/ RemoveOldest \/ MakeDirectory \/ PeerMakesDirectory
  BY <1>1, <1>9 DEF Rotate, RemoveOldest, MakeDirectory, PeerMakesDirectory, disk, memory, world
<1>10. ASSUME NEW f \in ActorFiles, WriteShard(f) PROVE PositionInv'
  BY <1>1, <1>10 DEF WriteShard, world
<1>11. ASSUME NEW f \in {Weights, Config}, ReplaceAdapter(f) PROVE PositionInv'
  BY <1>1, <1>11 DEF ReplaceAdapter, memory, world
<1>12. CASE Register \/ EndTrim \/ CommitMarker \/ SaveData
  BY <1>1, <1>12 DEF Register, EndTrim, CommitMarker, SaveData, disk, memory, world
<1>13. CASE TruncateTracker
  BY <1>13 DEF TruncateTracker, memory, world
<1>14. CASE WriteTracker
  <2>1. /\ tracker' = step /\ step' = step /\ published'.step = step /\ proc' = "train"
        /\ step \in Steps
    BY <1>14 DEF WriteTracker, memory, TypeOK
  <2>2. QED
    BY <1>0, <2>1 DEF Steps
<1>15. QED
  BY <1>2, <1>3, <1>4, <1>5, <1>6, <1>7, <1>8, <1>9, <1>10, <1>11, <1>12, <1>13, <1>14
     DEF Next, Launch, Trainer

\* On any schedule, the list keeps knowing of every directory.
LEMMA ListStep ==
  ASSUME KeepMax > 1, RmErrors = FALSE, TypeOK, ListInv, [Next]_vars
  PROVE  ListInv'
<1> USE Stages, ConstantsAssumption
<1>1. ASSUME UNCHANGED <<actor, history, doomed, proc, step>> PROVE ListInv'
  BY <1>1 DEF ListInv, Entries
<1>2. ASSUME Forget, actor' = actor PROVE ListInv'
  BY <1>2 DEF Forget, ListInv
<1>3. CASE UNCHANGED vars
  BY <1>1, <1>3 DEF vars, disk, memory
<1>4. CASE TrainStep
  BY <1>4 DEF TrainStep, disk, ListInv, Entries
<1>5. CASE NextEpoch
  BY <1>1, <1>5 DEF NextEpoch, disk
<1>6. CASE FitReturns
  BY <1>2, <1>6 DEF FitReturns, disk
<1>7. CASE Crash
  BY <1>2, <1>7 DEF Crash, TornWrite, PartlyRemoved
<1>8. ASSUME NEW t \in Targets, LaunchFresh(t) \/ LaunchResume(t) PROVE ListInv'
  BY <1>8 DEF LaunchFresh, LaunchResume, Launched, disk, ListInv
<1>9. ASSUME NEW t \in Targets, Skip(t) \/ Refuse(t) PROVE ListInv'
  BY <1>1, <1>9 DEF Skip, Refuse, disk, memory
<1>10. CASE Rotate
  <2>1. PICK paths \in RestoredHistories : DropOldest(paths, OverCapacity(paths))
    BY <1>10 DEF Rotate
  <2>2. /\ proc = "rotate" /\ proc' = "evict" /\ actor' = actor /\ step' = step
    BY <1>10 DEF Rotate, disk
  <2>3. paths \in Seq(Steps) /\ actor \subseteq Entries(paths) \cup {step}
    BY <2>2, RotatedRetention
  <2> DEFINE n == OverCapacity(paths)
  <2>4. n \in 0..Len(paths) /\ Len(paths) - n < KeepMax
    BY <2>3 DEF OverCapacity
  <2>5. /\ doomed' = SubSeq(paths, 1, n) /\ history' = SubSeq(paths, n + 1, Len(paths))
    BY <2>1 DEF DropOldest
  <2> HIDE DEF n
  <2>6. Entries(paths) \subseteq Entries(history') \cup Entries(doomed') /\ Len(history') < KeepMax
    BY <2>3, <2>4, <2>5, SplitEntries
  <2>7. actor' \subseteq Entries(history') \cup Entries(doomed') \cup {step'}
    BY <2>2, <2>3, <2>6
  <2>8. QED
    BY <2>2, <2>6, <2>7 DEF ListInv, Entries
<1>11. CASE RemoveOldest
  <2>1. /\ proc = "evict" /\ doomed # <<>> /\ doomed' = Tail(doomed)
        /\ actor' = actor \ {Head(doomed)}
        /\ UNCHANGED <<proc, step, history>>
    BY <1>11 DEF RemoveOldest, Removed, ListInv
  <2>2. Entries(doomed) \subseteq {Head(doomed)} \cup Entries(Tail(doomed))
    <3>1. ASSUME NEW i \in 1..Len(doomed), i # 1
          PROVE  i - 1 \in 1..Len(Tail(doomed)) /\ Tail(doomed)[i - 1] = doomed[i]
      BY <2>1, <3>1 DEF TypeOK
    <3>2. Head(doomed) = doomed[1]
      BY <2>1 DEF TypeOK
    <3>3. QED
      BY <3>1, <3>2 DEF Entries
  <2>3. actor' \subseteq Entries(history') \cup Entries(doomed') \cup {step'}
    <3>1. actor \subseteq Entries(history) \cup Entries(doomed) \cup {step}
      BY <2>1 DEF ListInv
    <3>2. Entries(history') = Entries(history) /\ Entries(doomed') = Entries(Tail(doomed))
      BY <2>1
    <3>3. QED
      BY <2>1, <2>2, <3>1, <3>2
  <2>4. QED
    BY <2>1, <2>3 DEF ListInv, Entries
<1>12. CASE MakeDirectory
  <2>1. /\ proc = "evict" /\ doomed = <<>> /\ proc' = "shards" /\ actor' = actor \cup {step}
        /\ UNCHANGED <<step, history, doomed>>
    BY <1>12 DEF MakeDirectory
  <2>2. Entries(doomed) = {}
    BY <2>1 DEF Entries
  <2>3. actor' \subseteq Entries(history) \cup {step} /\ Len(history) < KeepMax
    BY <2>1, <2>2 DEF ListInv
  <2>4. QED
    BY <2>1, <2>3 DEF ListInv, Entries
<1>13. CASE PeerMakesDirectory
  <2>1. /\ proc \in {"rotate", "evict"} /\ actor' \subseteq actor \cup {step}
        /\ UNCHANGED <<proc, step, history, doomed>>
    BY <1>13 DEF PeerMakesDirectory, memory
  <2>2. QED
    BY <2>1 DEF ListInv, Entries
<1>14. CASE Register
  <2>1. /\ proc = "register" /\ proc' = "trim" /\ UNCHANGED <<step, actor>>
        /\ DropOldest(Append(history, step), Excess(Append(history, step)))
    BY <1>14 DEF Register, disk
  <2>2. /\ history \in Seq(Steps) /\ step \in Steps
        /\ actor \subseteq Entries(history) \cup {step} /\ Len(history) < KeepMax
    BY <2>1 DEF ListInv, TypeOK
  <2> DEFINE paths == Append(history, step)
  <2>3. /\ paths \in Seq(Steps) /\ Len(paths) = Len(history) + 1
        /\ \A i \in 1..Len(history) : paths[i] = history[i]
        /\ paths[Len(history) + 1] = step
    BY <2>2
  <2>4. Excess(paths) = 0 /\ Len(paths) <= KeepMax
    BY <2>2, <2>3 DEF Excess
  <2>5. doomed' = SubSeq(paths, 1, 0) /\ history' = SubSeq(paths, 1, Len(paths))
    BY <2>1, <2>4 DEF DropOldest
  <2> HIDE DEF paths
  <2>6. doomed' = <<>> /\ history' = paths
    BY <2>3, <2>5
  <2>7. Entries(history) \cup {step} \subseteq Entries(paths)
    BY <2>2, <2>3 DEF Entries
  <2>8. actor' \subseteq Entries(history') /\ Len(history') <= KeepMax
    BY <2>1, <2>2, <2>4, <2>6, <2>7
  <2>9. QED
    BY <2>1, <2>6, <2>8 DEF ListInv, Entries
<1>15. ASSUME NEW f \in ActorFiles, WriteShard(f) PROVE ListInv'
  BY <1>15 DEF WriteShard, ListInv, Entries
<1>16. ASSUME NEW f \in ActorFiles,
              \/ EndTrim \/ ReplaceAdapter(f) \/ CommitMarker \/ SaveData
              \/ TruncateTracker \/ WriteTracker
       PROVE  ListInv'
  <2>1. /\ proc \in {"trim", "weights", "config", "marker", "data", "truncate", "track"}
        /\ proc' = After[proc]
        /\ UNCHANGED <<actor, history, doomed, step>>
    BY <1>16 DEF EndTrim, ReplaceAdapter, CommitMarker, SaveData, TruncateTracker,
                 WriteTracker, disk, memory
  <2>2. proc' \in {"weights", "config", "marker", "data", "truncate", "track", "train"}
    BY <2>1
  <2>3. QED
    BY <2>1, <2>2 DEF ListInv, Entries
<1>17. Weights \in ActorFiles /\ Config \in ActorFiles
  BY DEF ActorFiles, HashedFiles
<1>18. QED
  BY <1>3, <1>4, <1>5, <1>6, <1>7, <1>8, <1>9, <1>10, <1>11, <1>12, <1>13, <1>14, <1>15, <1>16, <1>17
     DEF Next, Launch, Trainer

\* On any schedule, the counts stay within the limit: a new directory lies
\* beyond the published step, and all directories are listed when the next step
\* is published.
LEMMA CountStep ==
  ASSUME KeepMax > 1, RmErrors = FALSE, TypeOK, TypeOK', RetentionInv, [Next]_vars
  PROVE  CountInv'
<1>00. step \in Nat /\ published.step \in Nat
  <2>1. LastStep \in Nat
    BY ConstantsAssumption
  <2>2. step \in 0..LastStep /\ published.step \in {0} \cup 1..LastStep
    BY DEF TypeOK, Steps
  <2>3. QED
    BY <2>1, <2>2
<1> USE Stages, ConstantsAssumption
<1>0. /\ actor \in SUBSET Steps /\ PublishedActors \in SUBSET Steps
      /\ Cardinality(PublishedActors) <= KeepMax
      /\ WorldSize = 1 => Cardinality(actor) <= KeepMax
      /\ KeepMax \in Nat
  BY DEF RetentionInv, CountInv, TypeOK, PublishedActors
<1>1. ASSUME actor' \subseteq actor, published' = published PROVE CountInv'
  <2>1. PublishedActors' \subseteq PublishedActors
    BY <1>1 DEF PublishedActors
  <2>2. Cardinality(PublishedActors') <= KeepMax
    BY <1>0, <2>1, FewerActors
  <2>3. WorldSize = 1 => Cardinality(actor') <= KeepMax
    BY <1>0, <1>1, FewerActors
  <2>4. QED
    BY <2>2, <2>3 DEF CountInv
<1>2. ASSUME actor' \subseteq actor \cup {step}, published' = published, published.step < step
      PROVE  Cardinality(PublishedActors') <= KeepMax
  <2>1. PublishedActors' \subseteq PublishedActors
    BY <1>00, <1>2 DEF PublishedActors
  <2>2. QED
    BY <1>0, <2>1, FewerActors
<1>3. ASSUME NEW t \in Targets, LaunchFresh(t) \/ LaunchResume(t) \/ Skip(t) \/ Refuse(t)
      PROVE  CountInv'
  BY <1>1, <1>3 DEF LaunchFresh, LaunchResume, Skip, Refuse, Launched, disk
<1>4. CASE \/ TrainStep \/ NextEpoch \/ FitReturns \/ Rotate \/ RemoveOldest
           \/ Register \/ EndTrim \/ CommitMarker \/ SaveData \/ TruncateTracker
  BY <1>1, <1>4 DEF TrainStep, NextEpoch, FitReturns, Rotate, RemoveOldest, Removed,
                    PartlyRemoved, Register, EndTrim, CommitMarker, SaveData,
                    TruncateTracker, disk, world
<1>5. ASSUME NEW f \in ActorFiles, WriteShard(f) \/ ReplaceAdapter(f) PROVE CountInv'
  BY <1>1, <1>5 DEF WriteShard, ReplaceAdapter, world
<1>6. CASE PeerMakesDirectory
  <2>1. /\ WorldSize # 1 /\ proc \in Saving /\ actor' \subseteq actor \cup {step}
        /\ published' = published
    BY <1>6 DEF PeerMakesDirectory, world
  <2>2. published.step < step
    BY <2>1 DEF RetentionInv, PositionInv
  <2>3. QED
    BY <1>2, <2>1, <2>2 DEF CountInv
<1>7. CASE MakeDirectory
  <2>1. /\ proc = "evict" /\ doomed = <<>> /\ actor' = actor \cup {step}
        /\ published' = published
    BY <1>7 DEF MakeDirectory, world
  <2>2. published.step < step
    BY <2>1 DEF RetentionInv, PositionInv
  <2>3. Entries(doomed) = {}
    BY <2>1 DEF Entries
  <2>4. actor' \subseteq Entries(history) \cup {step} /\ Len(history) < KeepMax
    BY <2>1, <2>3 DEF RetentionInv, ListInv
  <2>5. history \in Seq(Steps) /\ Len(history) \in Nat /\ Cardinality(actor') \in Nat
    BY ActorFinite DEF TypeOK
  <2>6. Cardinality(actor') <= Len(history) + 1
    BY <2>4, <2>5, ListedBound
  <2>7. Cardinality(actor') <= KeepMax
    BY <2>4, <2>5, <2>6
  <2>8. QED
    BY <1>2, <2>1, <2>2, <2>7 DEF CountInv
<1>8. CASE WriteTracker
  <2>1. /\ actor' = actor /\ actor \subseteq Entries(history) /\ Len(history) <= KeepMax
        /\ history \in Seq(Steps)
    BY <1>8 DEF WriteTracker, RetentionInv, ListInv, TypeOK
  <2>2. IsFiniteSet(Entries(history)) /\ Cardinality(Entries(history)) <= Len(history)
    BY <2>1, EntriesBound
  <2>3. Cardinality(Entries(history)) \in Nat /\ Len(history) \in Nat
    BY <2>1, <2>2, FS_CardinalityType
  <2>4. Cardinality(actor) <= Cardinality(Entries(history)) /\ Cardinality(actor) \in Nat
    BY <1>0, <2>1, <2>2, FS_Subset, ActorFinite
  <2>5. Cardinality(actor) <= KeepMax
    BY <1>0, <2>1, <2>2, <2>3, <2>4
  <2>6. PublishedActors' \subseteq actor
    BY <2>1 DEF PublishedActors
  <2>7. Cardinality(PublishedActors') <= KeepMax
    BY <1>0, <2>5, <2>6, FewerActors
  <2>8. QED
    BY <2>1, <2>5, <2>7 DEF CountInv
<1>9. CASE Crash
  BY <1>1, <1>9 DEF Crash, TornWrite, PartlyRemoved
<1>10. CASE UNCHANGED vars
  BY <1>1, <1>10 DEF vars, disk, world
<1>11. Weights \in ActorFiles /\ Config \in ActorFiles
  BY DEF ActorFiles, HashedFiles
<1>12. QED
  BY <1>3, <1>4, <1>5, <1>6, <1>7, <1>8, <1>9, <1>10, <1>11 DEF Next, Launch, Trainer

\* The inductive invariant of the retention, on any schedule.
LEMMA RetentionInvariant ==
  ASSUME KeepMax > 1, RmErrors = FALSE
  PROVE  Spec => []RetentionInv
<1>1. Init => RetentionInv
  <2> SUFFICES ASSUME Init PROVE RetentionInv
    OBVIOUS
  <2>1. PositionInv
    BY DEF Init, PositionInv, Running, Saving, After, NoTracker
  <2>2. ListInv
    BY DEF Init, ListInv
  <2>3. actor = {} /\ PublishedActors = {}
    BY DEF Init, PublishedActors
  <2>4. CountInv
    BY <2>3, FS_EmptySet, ConstantsAssumption DEF CountInv
  <2>5. QED
    BY <2>1, <2>2, <2>4 DEF RetentionInv
<1>2. TypeOK /\ TypeOK' /\ RetentionInv /\ [Next]_vars => RetentionInv'
  <2> SUFFICES ASSUME TypeOK, TypeOK', RetentionInv, [Next]_vars PROVE RetentionInv'
    OBVIOUS
  <2>1. PositionInv' /\ ListInv'
    BY PositionStep, ListStep DEF RetentionInv
  <2>2. CountInv'
    BY CountStep
  <2>3. QED
    BY <2>1, <2>2 DEF RetentionInv
<1>3. QED
  BY <1>1, <1>2, TypeCorrect, PTL DEF Spec

\* With saves on one schedule, at most one directory lies beyond the published
\* step: that of the save that is due next.
LEMMA OneBeyond ==
  ASSUME TypeOK, BeyondInv
  PROVE  \E s : actor \subseteq PublishedActors \cup {s}
<1>1. actor \subseteq Steps /\ published.step \in Nat
  BY DEF TypeOK, Steps
<1>2. ASSUME NEW n \in actor, NEW m \in actor, published.step < n, n < m PROVE FALSE
  <2>1. n \in Steps /\ m \in Steps /\ n <= m - 1 /\ published.step < m
    BY <1>1, <1>2 DEF Steps
  <2>2. Scheduled(n) /\ NothingDue(m - 1)
    BY <1>2, <2>1 DEF BeyondInv
  <2>3. QED
    BY <1>2, <2>1, <2>2 DEF NothingDue
<1>3. CASE \E n \in actor : published.step < n
  <2>1. PICK s \in actor : published.step < s
    BY <1>3
  <2>2. ASSUME NEW n \in actor, n # s PROVE n \in PublishedActors
    <3>1. n < s \/ s < n
      BY <1>1, <2>2 DEF Steps
    <3>2. ~(published.step < n)
      BY <1>2, <2>1, <2>2, <3>1
    <3>3. QED
      BY <1>1, <3>2 DEF PublishedActors, Steps
  <2>3. QED
    BY <2>2
<1>4. CASE \A n \in actor : ~(published.step < n)
  BY <1>1, <1>4 DEF PublishedActors, Steps
<1>5. QED
  BY <1>3, <1>4

\* With a limit of two or more and removals that do not fail, a single rank, or
\* any number of ranks whose saves are on one schedule, never keep more old
\* actor directories than the limit says, nor more than one besides, however
\* often the process was restarted with its history lost.
THEOREM RetentionHolds ==
  ASSUME KeepMax > 1, RmErrors = FALSE, WorldSize = 1 \/ OneSchedule
  PROVE  Spec => []RetentionBound
<1>1. CASE WorldSize = 1
  <2>1. RetentionInv => RetentionBound
    BY <1>1, ConstantsAssumption DEF RetentionInv, CountInv, RetentionBound
  <2>2. QED
    BY <2>1, RetentionInvariant, PTL
<1>2. CASE OneSchedule
  <2>1. IInv /\ RetentionInv => RetentionBound
    <3> SUFFICES ASSUME IInv, RetentionInv PROVE RetentionBound
      OBVIOUS
    <3>1. /\ actor \in SUBSET Steps /\ PublishedActors \in SUBSET Steps
          /\ Cardinality(PublishedActors) <= KeepMax
          /\ WorldSize = 1 => Cardinality(actor) <= KeepMax
      BY DEF IInv, TypeOK, PublishedActors, RetentionInv, CountInv
    <3>2. PICK s : actor \subseteq PublishedActors \cup {s}
      BY OneBeyond DEF IInv
    <3>3. /\ IsFiniteSet(PublishedActors) /\ Cardinality(PublishedActors) \in Nat
          /\ Cardinality(actor) \in Nat
      BY <3>1, ActorFinite
    <3>4. /\ IsFiniteSet(PublishedActors \cup {s})
          /\ Cardinality(PublishedActors \cup {s}) <= Cardinality(PublishedActors) + 1
      <4> DEFINE old == PublishedActors
      <4>1. IsFiniteSet(old) /\ Cardinality(old) \in Nat
        BY <3>3
      <4> HIDE DEF old
      <4>2. /\ IsFiniteSet(old \cup {s})
            /\ \/ Cardinality(old \cup {s}) = Cardinality(old)
               \/ Cardinality(old \cup {s}) = Cardinality(old) + 1
        BY <4>1, FS_AddElement
      <4>3. Cardinality(old \cup {s}) <= Cardinality(old) + 1
        BY <4>1, <4>2
      <4>4. QED
        BY <4>2, <4>3 DEF old
    <3>5. /\ Cardinality(actor) <= Cardinality(PublishedActors \cup {s})
          /\ Cardinality(PublishedActors \cup {s}) \in Nat
      BY <3>2, <3>4, FS_Subset, FS_CardinalityType
    <3>6. Cardinality(actor) <= KeepMax + 1
      BY <3>1, <3>3, <3>4, <3>5, ConstantsAssumption
    <3>7. QED
      BY <3>1, <3>6, ConstantsAssumption DEF RetentionBound
  <2>2. QED
    BY <1>2, <2>1, Invariant, RetentionInvariant, PTL
<1>3. QED
  BY <1>1, <1>2

\* On any schedule and with any number of ranks, the directories up to the
\* published step stay within the limit.
THEOREM OldOnesBounded ==
  ASSUME KeepMax > 1, RmErrors = FALSE
  PROVE  Spec => [](Cardinality(PublishedActors) <= KeepMax)
<1>1. RetentionInv => Cardinality(PublishedActors) <= KeepMax
  BY DEF RetentionInv, CountInv
<1>2. QED
  BY <1>1, RetentionInvariant, PTL

=============================================================================
