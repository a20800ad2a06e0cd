--------------------- MODULE CheckpointedTrainingProofs ---------------------
(***************************************************************************)
(* Machine-checked proofs about CheckpointedTraining, for every number of  *)
(* ranks, step bound, set of targets, save frequency, retention limit,     *)
(* epoch length and number of crashes.                                     *)
(***************************************************************************)
EXTENDS CheckpointedTrainingInv, FiniteSetTheorems, TLAPS

(***************************************************************************)
(* Lemmas about the operators.                                             *)
(***************************************************************************)

\* The quotient that restores the epoch counter is a natural number.
LEMMA QuotientIsNat == \A n \in Nat, e \in Nat \ {0} : n \div e \in Nat
  OBVIOUS

\* Splitting a list of steps into its n oldest entries and the rest yields
\* two lists of steps.
LEMMA SplitType ==
  ASSUME NEW q \in Seq(Steps), NEW n \in 0..Len(q)
  PROVE  SubSeq(q, 1, n) \in Seq(Steps) /\ SubSeq(q, n + 1, Len(q)) \in Seq(Steps)
  OBVIOUS

\* Both retention rules drop a prefix that exists.
LEMMA DropBounds ==
  ASSUME NEW q \in Seq(Steps)
  PROVE  OverCapacity(q) \in 0..Len(q) /\ Excess(q) \in 0..Len(q)
  BY ConstantsAssumption DEF OverCapacity, Excess

\* A set of steps is finite, and an enumeration of it is a list of its
\* elements, all of them, in ascending order.
LEMMA AscendingPathsFacts ==
  ASSUME NEW S \in SUBSET Steps, NEW q \in AscendingPaths(S)
  PROVE  /\ q \in Seq(Steps)
         /\ Ascending(q)
         /\ \A i \in 1..Len(q) : q[i] \in S
         /\ \A s \in S : \E i \in 1..Len(q) : q[i] = s
<1>1. IsFiniteSet(Steps)
  BY FS_Interval, ConstantsAssumption DEF Steps
<1>2. Cardinality(S) \in Nat
  BY <1>1, FS_Subset, FS_CardinalityType
<1>3. q \in [1..Cardinality(S) -> S]
  BY DEF AscendingPaths
<1>4. q \in Seq(Steps) /\ Len(q) = Cardinality(S)
  BY <1>2, <1>3
<1>5. QED
  BY <1>3, <1>4 DEF AscendingPaths, Ascending

(***************************************************************************)
(* Type correctness.                                                       *)
(***************************************************************************)

\* Everything a crash forgets is well typed.
LEMMA ForgetType ==
  ASSUME Forget
  PROVE  /\ proc' \in {"down", "train"} \cup Saving
         /\ target' \in {0} \cup Targets
         /\ step' \in 0..LastStep
         /\ epoch' \in Nat
         /\ consumed' \in 0..BatchesPerEpoch
         /\ order' \in Nat
         /\ history' \in Seq(Steps)
         /\ doomed' \in Seq(Steps)
         /\ unwritten' \subseteq ActorFiles
         /\ loaded' \in [Parts -> Content]
  BY ConstantsAssumption DEF Forget, FreshState, Content, Missing, Torn

\* Removing an actor directory, whole or in part, leaves well-typed files.
LEMMA RemovalType ==
  ASSUME TypeOK, NEW n \in Steps, Removed(n) \/ PartlyRemoved(n)
  PROVE  /\ actor' \subseteq Steps
         /\ file' \in [Steps -> [ActorFiles -> Content]]
         /\ marker' \in [Steps -> [HashedFiles -> Content]]
<1>1. NoFiles \in [ActorFiles -> Content] /\ NoMarker \in [HashedFiles -> Content]
  BY DEF NoFiles, NoMarker, Content, Missing, Torn
<1>2. CASE Removed(n)
  BY <1>1, <1>2 DEF Removed, TypeOK
<1>3. CASE PartlyRemoved(n)
  <2>1. actor' = actor
    BY <1>3 DEF PartlyRemoved
  <2>2. PICK gone \in SUBSET ActorFiles :
          file' = [file EXCEPT ![n] = [f \in ActorFiles |->
                                          IF f \in gone THEN Missing ELSE file[n][f]]]
    BY <1>3 DEF PartlyRemoved
  <2>3. [f \in ActorFiles |-> IF f \in gone THEN Missing ELSE file[n][f]]
            \in [ActorFiles -> Content]
    BY DEF TypeOK, Content, Missing, Torn
  <2>4. marker' = [marker EXCEPT ![n] = NoMarker] \/ marker' = marker
    BY <1>3 DEF PartlyRemoved
  <2>5. QED
    BY <1>1, <2>1, <2>2, <2>3, <2>4 DEF TypeOK
<1>4. QED
  BY <1>2, <1>3

\* Writing an actor file leaves well-typed files.
LEMMA WriteType ==
  ASSUME TypeOK, NEW f \in ActorFiles, Write(f)
  PROVE  file' \in [Steps -> [ActorFiles -> Content]]
<1>1. save \in Content
  BY DEF TypeOK, Content, Torn
<1>2. QED
  BY <1>1 DEF TypeOK, Write

\* The stages of a save, spelt out.
LEMMA Stages ==
  /\ Saving = {"rotate", "evict", "shards", "register", "trim", "weights", "config",
               "marker", "data", "truncate", "track"}
  /\ After["rotate"] = "evict" /\ After["evict"] = "shards"
  /\ After["shards"] = "register" /\ After["register"] = "trim"
  /\ After["trim"] = "weights" /\ After["weights"] = "config"
  /\ After["config"] = "marker" /\ After["marker"] = "data"
  /\ After["data"] = "truncate" /\ After["truncate"] = "track"
  /\ After["track"] = "train"
  BY DEF Saving, After

\* Every value of every variable has its type in every reachable state.
THEOREM TypeCorrect == Spec => []TypeOK
<1> USE ConstantsAssumption, Stages
<1>1. Init => TypeOK
  <2> SUFFICES ASSUME Init PROVE TypeOK
    OBVIOUS
  <2>1. /\ NoFiles \in [ActorFiles -> Content]
        /\ NoMarker \in [HashedFiles -> Content]
        /\ FreshState \in [Parts -> Content]
        /\ NoData \in [save : Content, consumed : 0..BatchesPerEpoch, order : Nat]
    BY DEF NoFiles, NoMarker, FreshState, NoData, Content, Missing, Torn
  <2>2. QED
    BY <2>1 DEF Init, TypeOK, NoTracker
<1>2. TypeOK /\ [Next]_vars => TypeOK'
  <2> SUFFICES ASSUME TypeOK, [Next]_vars PROVE TypeOK'
    OBVIOUS
  <2>1. CASE UNCHANGED vars
    BY <2>1 DEF vars, disk, memory, loader, world, TypeOK
  <2>2. ASSUME NEW t \in Targets, LaunchFresh(t) PROVE TypeOK'
    BY <2>2 DEF LaunchFresh, Launched, disk, loader, TypeOK
  <2>3. ASSUME NEW t \in Targets, LaunchResume(t) PROVE TypeOK'
    <3>1. LatestStep \in Steps /\ LatestStep \in Nat
      BY <2>3 DEF LaunchResume, Steps
    <3>2. LatestStep \div BatchesPerEpoch \in Nat
      BY <3>1, QuotientIsNat
    <3>3. epoch' \in Nat /\ consumed' \in 0..BatchesPerEpoch /\ order' \in Nat
      <4>1. data[LatestStep] \in [save : Content, consumed : 0..BatchesPerEpoch, order : Nat]
        BY <3>1 DEF TypeOK
      <4>2. QED
        BY <2>3, <3>2, <4>1 DEF LaunchResume, RestoreLoader
    <3>4. loaded' \in [Parts -> Content]
      BY <2>3, <3>1 DEF LaunchResume, TypeOK, ActorFiles
    <3>5. step' \in 0..LastStep /\ proc' = "train"
      BY <2>3, <3>1 DEF LaunchResume, Launched, Steps
    <3>6. QED
      BY <2>3, <3>3, <3>4, <3>5 DEF LaunchResume, Launched, disk, TypeOK
  <2>4. ASSUME NEW t \in Targets, Skip(t) \/ Refuse(t) PROVE TypeOK'
    BY <2>4 DEF Skip, Refuse, disk, memory, loader, TypeOK
  <2>5. CASE TrainStep
    <3>1. step' \in Steps /\ consumed' \in 0..BatchesPerEpoch
      BY <2>5 DEF TrainStep, TypeOK, Steps
    <3>2. proc' \in {"train", "rotate"}
      BY <2>5 DEF TrainStep
    <3>3. step' \in 0..LastStep
      BY <3>1 DEF Steps
    <3>4. QED
      BY <2>5, <3>1, <3>2, <3>3 DEF TrainStep, disk, world, TypeOK
  <2>6. CASE NextEpoch
    BY <2>6 DEF NextEpoch, disk, world, TypeOK
  <2>7. CASE FitReturns
    BY <2>7, ForgetType DEF FitReturns, Forget, disk, TypeOK
  <2>8. CASE Rotate
    <3>1. PICK paths \in RestoredHistories : DropOldest(paths, OverCapacity(paths))
      BY <2>8 DEF Rotate
    <3>2. paths \in Seq(Steps)
      <4>1. CASE history = <<>>
        BY <3>1, <4>1, AscendingPathsFacts DEF RestoredHistories, TypeOK
      <4>2. CASE history # <<>>
        BY <3>1, <4>2 DEF RestoredHistories, TypeOK
      <4>3. QED
        BY <4>1, <4>2
    <3>3. doomed' \in Seq(Steps) /\ history' \in Seq(Steps)
      BY <3>1, <3>2, SplitType, DropBounds DEF DropOldest
    <3>4. QED
      BY <2>8, <3>3 DEF Rotate, disk, loader, TypeOK
  <2>9. CASE RemoveOldest
    <3>1. Head(doomed) \in Steps /\ Tail(doomed) \in Seq(Steps)
      BY <2>9 DEF RemoveOldest, TypeOK
    <3>2. QED
      BY <2>9, <3>1, RemovalType DEF RemoveOldest, loader, world, TypeOK
  <2>10. CASE MakeDirectory
    BY <2>10 DEF MakeDirectory, loader, world, TypeOK, ActorFiles, HashedFiles
  <2>11. CASE PeerMakesDirectory
    BY <2>11 DEF PeerMakesDirectory, memory, loader, world, TypeOK
  <2>12. ASSUME NEW f \in ActorFiles, WriteShard(f) PROVE TypeOK'
    <3>1. file' \in [Steps -> [ActorFiles -> Content]]
      BY <2>12, WriteType DEF WriteShard
    <3>2. proc' \in {"shards", "register"}
      BY <2>12 DEF WriteShard
    <3>3. QED
      BY <2>12, <3>1, <3>2 DEF WriteShard, loader, world, TypeOK
  <2>13. CASE Register
    <3>1. Append(history, step) \in Seq(Steps)
      BY <2>13 DEF Register, TypeOK
    <3>2. doomed' \in Seq(Steps) /\ history' \in Seq(Steps)
      BY <2>13, <3>1, SplitType, DropBounds DEF Register, DropOldest
    <3>3. QED
      BY <2>13, <3>2 DEF Register, disk, loader, world, TypeOK
  <2>14. CASE EndTrim
    BY <2>14 DEF EndTrim, disk, memory, loader, world, TypeOK
  <2>15. ASSUME NEW f \in {Weights, Config}, ReplaceAdapter(f) PROVE TypeOK'
    <3>1. file' \in [Steps -> [ActorFiles -> Content]]
      BY <2>15, WriteType DEF ReplaceAdapter, ActorFiles, HashedFiles
    <3>2. QED
      BY <2>15, <3>1 DEF ReplaceAdapter, memory, loader, world, TypeOK
  <2>16. CASE CommitMarker
    <3>1. [f \in HashedFiles |-> file[step][f]] \in [HashedFiles -> Content]
      BY <2>16 DEF CommitMarker, TypeOK, ActorFiles
    <3>2. QED
      BY <2>16, <3>1 DEF CommitMarker, memory, loader, world, TypeOK
  <2>17. CASE SaveData
    <3>1. save \in Content
      BY DEF TypeOK, Content, Torn
    <3>2. QED
      BY <2>17, <3>1 DEF SaveData, memory, loader, world, TypeOK
  <2>18. CASE TruncateTracker
    BY <2>18 DEF TruncateTracker, memory, loader, world, TypeOK
  <2>19. CASE WriteTracker
    BY <2>19 DEF WriteTracker, memory, loader, TypeOK
  <2>20. CASE Crash
    <3>1. /\ folder' \subseteq Steps
          /\ actor' \subseteq Steps
          /\ file' \in [Steps -> [ActorFiles -> Content]]
          /\ marker' \in [Steps -> [HashedFiles -> Content]]
          /\ data' \in [Steps -> [save : Content, consumed : 0..BatchesPerEpoch, order : Nat]]
      <4>0. TornWrite
        BY <2>20 DEF Crash
      <4>1. CASE proc = "shards" /\ \E cut \in SUBSET InFlight :
                    /\ file' = [file EXCEPT ![step] =
                        [f \in ActorFiles |-> IF f \in cut THEN Torn ELSE file[step][f]]]
                    /\ UNCHANGED <<folder, actor, marker, data>>
        <5>1. ASSUME NEW cut \in SUBSET InFlight
              PROVE  [f \in ActorFiles |-> IF f \in cut THEN Torn ELSE file[step][f]]
                         \in [ActorFiles -> Content]
          BY <4>1 DEF TypeOK, Content, Torn
        <5>2. QED
          BY <4>1, <5>1 DEF TypeOK
      <4>2. CASE proc = "data" /\ data' = [data EXCEPT ![step].save = Torn]
                    /\ UNCHANGED <<folder, actor, file, marker>>
        <5>1. data[step] \in [save : Content, consumed : 0..BatchesPerEpoch, order : Nat]
          BY <4>2 DEF TypeOK
        <5>2. [data[step] EXCEPT !.save = Torn]
                  \in [save : Content, consumed : 0..BatchesPerEpoch, order : Nat]
          BY <5>1 DEF Content, Torn
        <5>3. QED
          BY <4>2, <5>2 DEF TypeOK
      <4>3. CASE doomed # <<>> /\ PartlyRemoved(Head(doomed))
                    /\ UNCHANGED <<folder, data>>
        <5>1. Head(doomed) \in Steps
          BY <4>3 DEF TypeOK
        <5>2. QED
          BY <4>3, <5>1, RemovalType DEF TypeOK
      <4>4. CASE UNCHANGED <<folder, actor, file, marker, data>>
        BY <4>4 DEF TypeOK
      <4>5. CASE proc = "evict" /\ folder' = folder \cup {step}
                    /\ UNCHANGED <<actor, file, marker, data>>
        BY <4>5 DEF TypeOK
      <4>6. QED
        BY <4>0, <4>1, <4>2, <4>3, <4>4, <4>5 DEF TornWrite
    <3>2. crashes' \in 0..MaxCrashes
      BY <2>20 DEF Crash, TypeOK
    <3>3. QED
      BY <2>20, <3>1, <3>2, ForgetType DEF Crash, Forget, TypeOK
  <2>21. QED
    BY <2>1, <2>2, <2>3, <2>4, <2>5, <2>6, <2>7, <2>8, <2>9, <2>10, <2>11, <2>12, <2>13,
       <2>14, <2>15, <2>16, <2>17, <2>18, <2>19, <2>20 DEF Next, Launch, Trainer
<1>3. QED
  BY <1>1, <1>2, PTL DEF Spec

(***************************************************************************)
(* The inductive invariant, one part at a time.  Each lemma takes a step   *)
(* from a state that satisfies all of it to a state that satisfies one     *)
(* part of it.                                                             *)
(***************************************************************************)

\* Under one schedule, the trainer saves exactly at the scheduled steps.
LEMMA SaveDueIsScheduled ==
  ASSUME OneSchedule, NEW t \in Targets, NEW s \in 1..t
  PROVE  SaveDue(s, t, FALSE) <=> Scheduled(s)
<1>1. t \in Nat
  BY ConstantsAssumption
<1>2. s >= t => s = t
  BY <1>1
<1>3. s \in Targets => s = t \/ s % SaveFreq = 0
  BY DEF OneSchedule
<1>4. QED
  BY <1>1, <1>2, <1>3 DEF SaveDue, Scheduled

\* The tracker keeps agreeing with the published snapshot.
LEMMA PointerStep ==
  ASSUME IInv, [Next]_vars
  PROVE  PointerInv'
<1> USE Stages DEF IInv, PointerInv, Running, NoTracker, EmptyTracker
<1>1. CASE UNCHANGED vars
  BY <1>1 DEF vars, disk, world
<1>2. ASSUME NEW t \in Targets, LaunchFresh(t) PROVE PointerInv'
  BY <1>2 DEF LaunchFresh, Launched, disk, DirectoryEmpty
<1>3. ASSUME NEW t \in Targets, LaunchResume(t) PROVE PointerInv'
  <2>1. tracker \in Steps
    BY <1>3 DEF LaunchResume, LatestStep, TypeOK, Steps
  <2>2. QED
    BY <1>3, <2>1 DEF LaunchResume, Launched, disk, Steps
<1>4. ASSUME NEW t \in Targets, Skip(t) \/ Refuse(t) PROVE PointerInv'
  BY <1>4 DEF Skip, Refuse, disk
<1>5. CASE TrainStep \/ NextEpoch
  BY <1>5 DEF TrainStep, NextEpoch, disk, world
<1>6. CASE FitReturns
  BY <1>6 DEF FitReturns, Forget, disk
<1>7. CASE Rotate
  BY <1>7 DEF Rotate, disk, TypeOK
<1>8. CASE RemoveOldest
  BY <1>8 DEF RemoveOldest, world
<1>9. CASE MakeDirectory \/ PeerMakesDirectory
  BY <1>9 DEF MakeDirectory, PeerMakesDirectory, memory, world
<1>10. ASSUME NEW f \in ActorFiles, WriteShard(f) PROVE PointerInv'
  BY <1>10 DEF WriteShard, world
<1>11. CASE Register \/ EndTrim
  BY <1>11 DEF Register, EndTrim, disk, world
<1>12. ASSUME NEW f \in {Weights, Config}, ReplaceAdapter(f) PROVE PointerInv'
  BY <1>12 DEF ReplaceAdapter, world
<1>13. CASE CommitMarker \/ SaveData
  BY <1>13 DEF CommitMarker, SaveData, world
<1>14. CASE TruncateTracker
  BY <1>14 DEF TruncateTracker, world
<1>15. CASE WriteTracker
  <2>1. step \in Steps /\ published.save < save /\ published.save \in Nat /\ save \in Nat
    BY <1>15 DEF WriteTracker, TypeOK, ScheduleInv
  <2>2. QED
    BY <1>15, <2>1 DEF WriteTracker, Steps
<1>16. CASE Crash
  BY <1>16 DEF Crash, Forget
<1>17. QED
  BY <1>1, <1>2, <1>3, <1>4, <1>5, <1>6, <1>7, <1>8, <1>9, <1>10, <1>11, <1>12, <1>13,
     <1>14, <1>15, <1>16 DEF Next, Launch, Trainer

\* Nothing is left in the memory of a process that is gone.
LEMMA RestStep ==
  ASSUME IInv, [Next]_vars
  PROVE  RestInv'
<1> USE Stages DEF IInv, RestInv, Running
<1>1. CASE UNCHANGED vars
  BY <1>1 DEF vars, memory
<1>2. ASSUME NEW t \in Targets, LaunchFresh(t) \/ LaunchResume(t) PROVE RestInv'
  BY <1>2 DEF LaunchFresh, LaunchResume, Launched
<1>3. ASSUME NEW t \in Targets, Skip(t) \/ Refuse(t) PROVE RestInv'
  BY <1>3 DEF Skip, Refuse, memory
<1>4. CASE \/ TrainStep \/ NextEpoch \/ Rotate \/ RemoveOldest
           \/ MakeDirectory \/ PeerMakesDirectory
  BY <1>4 DEF TrainStep, NextEpoch, Rotate, RemoveOldest, MakeDirectory, PeerMakesDirectory
<1>5. CASE FitReturns \/ Crash
  BY <1>5 DEF FitReturns, Crash, Forget
<1>6. ASSUME NEW f \in ActorFiles, WriteShard(f) \/ ReplaceAdapter(f) PROVE RestInv'
  BY <1>6 DEF WriteShard, ReplaceAdapter
<1>7. CASE Register \/ EndTrim \/ CommitMarker \/ SaveData \/ TruncateTracker \/ WriteTracker
  BY <1>7 DEF Register, EndTrim, CommitMarker, SaveData, TruncateTracker, WriteTracker
<1>8. Weights \in ActorFiles /\ Config \in ActorFiles
  BY DEF ActorFiles, HashedFiles
<1>9. QED
  BY <1>1, <1>2, <1>3, <1>4, <1>5, <1>6, <1>7, <1>8 DEF Next, Launch, Trainer

\* The process keeps its place on the schedule.
LEMMA ScheduleStep ==
  ASSUME OneSchedule, IInv, [Next]_vars
  PROVE  ScheduleInv'
<1> USE Stages DEF IInv, ScheduleInv, NothingDue, Running
<1>1. CASE UNCHANGED vars
  BY <1>1 DEF vars, memory, world
<1>2. ASSUME NEW t \in Targets, LaunchFresh(t) PROVE ScheduleInv'
  <2>1. step = 0 /\ published.step = 0 /\ t \in Nat
    BY <1>2, ConstantsAssumption DEF LaunchFresh, DirectoryEmpty, RestInv, PointerInv
  <2>2. QED
    BY <1>2, <2>1 DEF LaunchFresh, Launched, Steps
<1>3. ASSUME NEW t \in Targets, LaunchResume(t) PROVE ScheduleInv'
  <2>1. LatestStep \in Steps /\ LatestStep < t
    BY <1>3 DEF LaunchResume
  <2>2. LatestStep = published.step
    <3>1. tracker = LatestStep
      BY <2>1 DEF LatestStep, NoTracker, Steps
    <3>2. QED
      BY <2>1, <3>1 DEF PointerInv, Steps
  <2>3. step' = LatestStep /\ target' = t /\ published' = published /\ proc' = "train"
    BY <1>3 DEF LaunchResume, Launched
  <2>4. LatestStep \in Nat /\ t \in Nat
    BY <2>1, ConstantsAssumption DEF Steps
  <2>5. QED
    BY <2>1, <2>2, <2>3, <2>4 DEF Steps
<1>4. ASSUME NEW t \in Targets, Skip(t) \/ Refuse(t) PROVE ScheduleInv'
  BY <1>4 DEF Skip, Refuse, memory
<1>5. CASE TrainStep
  <2>1. /\ step \in Nat /\ target \in Nat /\ step < target /\ published.step \in Nat
        /\ target \in Targets
    <3>1. LastStep \in Nat /\ Targets \subseteq 1..LastStep
      BY ConstantsAssumption
    <3>2. step \in 0..LastStep /\ published.step \in {0} \cup 1..LastStep
      BY DEF TypeOK, Steps
    <3>3. proc = "train" /\ step < target
      BY <1>5 DEF TrainStep
    <3>4. target \in Targets
      BY <3>3
    <3>5. QED
      BY <3>1, <3>2, <3>3, <3>4
  <2>2. step' = step + 1 /\ step' \in 1..target /\ UNCHANGED <<target, published>>
    BY <1>5, <2>1 DEF TrainStep, world
  <2>3. proc' = IF SaveDue(step', target, FALSE) THEN "rotate" ELSE "train"
    BY <1>5, <2>2 DEF TrainStep, OneSchedule
  <2>4. proc' = IF Scheduled(step') THEN "rotate" ELSE "train"
    BY <2>1, <2>2, <2>3, SaveDueIsScheduled
  <2>5. NothingDue(step)
    BY <1>5 DEF TrainStep
  <2>6. step' \in Nat /\ step' - 1 = step /\ published.step < step' /\ step' <= target
    <3>1. published.step <= step
      BY <1>5 DEF TrainStep
    <3>2. QED
      BY <2>1, <2>2, <3>1
  <2>7. CASE Scheduled(step')
    <3>1. proc' = "rotate"
      BY <2>4, <2>7
    <3>2. NothingDue(step - 1)'
      BY <2>2, <2>5, <2>6 DEF Scheduled
    <3>3. Scheduled(step)'
      BY <2>2, <2>7 DEF Scheduled
    <3>4. QED
      BY <2>1, <2>2, <2>6, <3>1, <3>2, <3>3
  <2>8. CASE ~Scheduled(step')
    <3>1. proc' = "train"
      BY <2>4, <2>8
    <3>2. NothingDue(step)'
      <4>1. ASSUME NEW m \in Steps, m > published.step, m <= step'
            PROVE  ~Scheduled(m)
        <5>1. m <= step \/ m = step'
          BY <2>1, <2>2, <4>1 DEF Steps
        <5>2. QED
          BY <2>5, <2>8, <4>1, <5>1
      <4>2. QED
        BY <2>2, <4>1 DEF Scheduled
    <3>3. QED
      BY <2>1, <2>2, <2>6, <3>1, <3>2
  <2>9. QED
    BY <2>7, <2>8
<1>6. CASE NextEpoch
  BY <1>6 DEF NextEpoch, world
<1>7. CASE FitReturns \/ Crash
  BY <1>7 DEF FitReturns, Crash, Forget
<1>8. CASE Rotate
  BY <1>8 DEF Rotate, PointerInv, TypeOK
<1>9. CASE RemoveOldest \/ MakeDirectory \/ PeerMakesDirectory
  BY <1>9 DEF RemoveOldest, MakeDirectory, PeerMakesDirectory, memory, world
<1>10. ASSUME NEW f \in ActorFiles, WriteShard(f) \/ ReplaceAdapter(f) PROVE ScheduleInv'
  BY <1>10 DEF WriteShard, ReplaceAdapter, memory, world
<1>11. CASE Register \/ EndTrim \/ CommitMarker \/ SaveData \/ TruncateTracker
  BY <1>11 DEF Register, EndTrim, CommitMarker, SaveData, TruncateTracker, memory, world
<1>12. CASE WriteTracker
  BY <1>12 DEF WriteTracker, memory, TypeOK, Steps
<1>13. Weights \in ActorFiles /\ Config \in ActorFiles
  BY DEF ActorFiles, HashedFiles
<1>14. QED
  BY <1>1, <1>2, <1>3, <1>4, <1>5, <1>6, <1>7, <1>8, <1>9, <1>10, <1>11, <1>12, <1>13
  DEF Next, Launch, Trainer

\* A directory queued for removal is older than the published one.
LEMMA QueuedIsOld ==
  ASSUME IInv, proc \in {"evict", "trim"}, doomed # <<>>
  PROVE  proc = "evict" /\ Head(doomed) \in Steps /\ Head(doomed) < published.step
<1>1. proc = "evict"
  BY DEF IInv, HistoryInv
<1>2. 1 \in 1..Len(doomed) /\ Head(doomed) = doomed[1] /\ doomed[1] \in Steps
  BY DEF IInv, TypeOK
<1>3. QED
  BY <1>1, <1>2 DEF IInv, HistoryInv

\* The files of step n are those they were.
SameFiles(n) ==
  /\ n \in folder => n \in folder'
  /\ n \in actor => n \in actor'
  /\ file'[n] = file[n]
  /\ marker'[n] = marker[n]
  /\ data'[n] = data[n]

\* A step that leaves the published directory alone leaves it whole.
LEMMA WholeKept ==
  ASSUME WholeInv, published' = published, published.step > 0 => SameFiles(published.step)
  PROVE  WholeInv'
<1>1. SUFFICES ASSUME published.step > 0 PROVE Whole(published.step, published.save)'
  BY DEF WholeInv
<1>2. Whole(published.step, published.save) /\ SameFiles(published.step)
  BY <1>1 DEF WholeInv
<1>3. QED
  BY <1>2 DEF Whole, SameFiles

\* Removing a directory, in whole or in part, does not touch another one.
LEMMA RemovalElsewhere ==
  ASSUME TypeOK, NEW n \in Steps, NEW m \in Steps, n # m,
         Removed(m) \/ PartlyRemoved(m), UNCHANGED <<folder, data>>
  PROVE  SameFiles(n)
<1>1. CASE Removed(m)
  BY <1>1 DEF Removed, SameFiles, TypeOK
<1>2. CASE PartlyRemoved(m)
  BY <1>2 DEF PartlyRemoved, SameFiles, TypeOK
<1>3. QED
  BY <1>1, <1>2

\* A crash tears only files of the save in progress, or of a directory that
\* is being removed.
LEMMA CrashElsewhere ==
  ASSUME IInv, Crash, NEW n \in Steps, n = published.step
  PROVE  SameFiles(n)
<1> USE Stages DEF IInv
<1>0. TornWrite
  BY DEF Crash
<1>1. CASE proc = "shards" /\ UNCHANGED <<folder, actor, marker, data>> /\ \E cut \in SUBSET InFlight :
                file' = [file EXCEPT ![step] =
                  [f \in ActorFiles |-> IF f \in cut THEN Torn ELSE file[step][f]]]
  <2>1. step # n
    BY <1>1 DEF ScheduleInv, TypeOK, Steps
  <2>2. QED
    BY <1>1, <2>1 DEF SameFiles, TypeOK
<1>2. CASE proc = "data" /\ data' = [data EXCEPT ![step].save = Torn]
                /\ UNCHANGED <<folder, actor, file, marker>>
  <2>1. step # n
    BY <1>2 DEF ScheduleInv, TypeOK, Steps
  <2>2. QED
    BY <1>2, <2>1 DEF SameFiles, TypeOK
<1>3. CASE proc \in {"evict", "trim"} /\ doomed # <<>> /\ PartlyRemoved(Head(doomed))
                /\ UNCHANGED <<folder, data>>
  <2>1. Head(doomed) \in Steps /\ Head(doomed) # n
    BY <1>3, QueuedIsOld DEF Steps
  <2>2. QED
    BY <1>3, <2>1, RemovalElsewhere
<1>4. CASE folder \subseteq folder' /\ UNCHANGED <<actor, file, marker, data>>
  BY <1>4 DEF SameFiles
<1>5. QED
  BY <1>0, <1>1, <1>2, <1>3, <1>4 DEF TornWrite

\* The published checkpoint stays whole, and a newly published one is whole.
LEMMA WholeStep ==
  ASSUME IInv, [Next]_vars
  PROVE  WholeInv'
<1> USE Stages DEF IInv
<1>0. published.step > 0 => published.step \in Steps
  BY DEF TypeOK
<1>1. CASE UNCHANGED <<folder, actor, file, marker, data, published>>
  BY <1>1, WholeKept DEF SameFiles
<1>2. ASSUME NEW t \in Targets,
             LaunchFresh(t) \/ LaunchResume(t) \/ Skip(t) \/ Refuse(t)
      PROVE  WholeInv'
  BY <1>1, <1>2 DEF LaunchFresh, LaunchResume, Skip, Refuse, Launched, disk
<1>3. CASE TrainStep \/ NextEpoch \/ FitReturns \/ Rotate \/ Register \/ EndTrim
  BY <1>1, <1>3 DEF TrainStep, NextEpoch, FitReturns, Rotate, Register, EndTrim, disk, world
<1>4. CASE TruncateTracker
  BY <1>1, <1>4 DEF TruncateTracker, world
<1>5. CASE RemoveOldest
  <2>1. published.step > 0 => SameFiles(published.step)
    BY <1>0, <1>5, QueuedIsOld, RemovalElsewhere DEF RemoveOldest, Steps
  <2>2. QED
    BY <1>5, <2>1, WholeKept DEF RemoveOldest, world
<1>6. CASE MakeDirectory \/ PeerMakesDirectory
  <2>1. SameFiles(published.step)
    BY <1>6 DEF MakeDirectory, PeerMakesDirectory, SameFiles
  <2>2. QED
    BY <1>6, <2>1, WholeKept DEF MakeDirectory, PeerMakesDirectory, world
<1>7. ASSUME proc \in Saving PROVE step \in Steps /\ step # published.step
  BY <1>7 DEF ScheduleInv, TypeOK, Steps
<1>8. ASSUME NEW f \in ActorFiles, WriteShard(f) \/ ReplaceAdapter(f) PROVE WholeInv'
  <2>1. proc \in Saving /\ Write(f) /\ UNCHANGED <<folder, actor, marker, data, published>>
    BY <1>8 DEF WriteShard, ReplaceAdapter, world
  <2>2. SameFiles(published.step)
    BY <1>7, <2>1 DEF Write, SameFiles, TypeOK
  <2>3. QED
    BY <2>1, <2>2, WholeKept
<1>9. CASE CommitMarker
  <2>1. SameFiles(published.step)
    BY <1>7, <1>9 DEF CommitMarker, SameFiles, TypeOK
  <2>2. QED
    BY <1>9, <2>1, WholeKept DEF CommitMarker, world
<1>10. CASE SaveData
  <2>1. SameFiles(published.step)
    BY <1>7, <1>10 DEF SaveData, SameFiles, TypeOK
  <2>2. QED
    BY <1>10, <2>1, WholeKept DEF SaveData, world
<1>11. CASE WriteTracker
  <2>1. Whole(step, save)
    BY <1>11 DEF WriteTracker, Whole, ProgressInv, Written, Late
  <2>2. published' = [step |-> step, save |-> save]
        /\ UNCHANGED <<folder, actor, file, marker, data>>
    BY <1>11 DEF WriteTracker
  <2>3. QED
    BY <2>1, <2>2 DEF WholeInv, Whole
<1>12. CASE Crash
  <2>1. published.step > 0 => SameFiles(published.step)
    BY <1>0, <1>12, CrashElsewhere
  <2>2. QED
    BY <1>12, <2>1, WholeKept DEF Crash
<1>13. CASE UNCHANGED vars
  BY <1>1, <1>13 DEF vars, disk, world
<1>14. Weights \in ActorFiles /\ Config \in ActorFiles
  BY DEF ActorFiles, HashedFiles
<1>15. QED
  BY <1>2, <1>3, <1>4, <1>5, <1>6, <1>8, <1>9, <1>10, <1>11, <1>12, <1>13, <1>14
  DEF Next, Launch, Trainer

\* Directories beyond the published step stay those of the next save.
LEMMA BeyondStep ==
  ASSUME IInv, [Next]_vars
  PROVE  BeyondInv'
<1> USE Stages DEF IInv
<1>1. CASE actor' \subseteq actor /\ published' = published
  BY <1>1 DEF BeyondInv, NothingDue, Scheduled
<1>2. ASSUME NEW t \in Targets,
             LaunchFresh(t) \/ LaunchResume(t) \/ Skip(t) \/ Refuse(t)
      PROVE  BeyondInv'
  BY <1>1, <1>2 DEF LaunchFresh, LaunchResume, Skip, Refuse, Launched, disk
<1>3. CASE TrainStep \/ NextEpoch \/ FitReturns \/ Rotate \/ Register \/ EndTrim
  BY <1>1, <1>3 DEF TrainStep, NextEpoch, FitReturns, Rotate, Register, EndTrim, disk, world
<1>4. CASE RemoveOldest \/ CommitMarker \/ SaveData \/ TruncateTracker
  BY <1>1, <1>4 DEF RemoveOldest, Removed, PartlyRemoved, CommitMarker, SaveData,
                    TruncateTracker, world
<1>5. ASSUME NEW f \in ActorFiles, WriteShard(f) \/ ReplaceAdapter(f) PROVE BeyondInv'
  BY <1>1, <1>5 DEF WriteShard, ReplaceAdapter, world
<1>6. CASE Crash
  BY <1>1, <1>6 DEF Crash, TornWrite, PartlyRemoved
<1>7. CASE MakeDirectory \/ PeerMakesDirectory
  <2>1. Scheduled(step) /\ NothingDue(step - 1)
    BY <1>7 DEF MakeDirectory, PeerMakesDirectory, ScheduleInv
  <2>2. actor' \subseteq actor \cup {step} /\ published' = published
    BY <1>7 DEF MakeDirectory, PeerMakesDirectory, world
  <2>3. QED
    BY <2>1, <2>2 DEF BeyondInv, NothingDue, Scheduled
<1>8. CASE WriteTracker
  <2>1. /\ step \in Steps /\ step > published.step /\ Scheduled(step)
        /\ published.step \in Nat /\ actor' = actor /\ published'.step = step
    BY <1>8 DEF WriteTracker, ScheduleInv, TypeOK, Steps
  <2>2. ASSUME NEW n \in actor, n > step PROVE FALSE
    <3>1. n \in Nat /\ n > published.step /\ step <= n - 1
      BY <2>1, <2>2 DEF TypeOK, Steps
    <3>2. NothingDue(n - 1)
      BY <3>1 DEF BeyondInv
    <3>3. QED
      BY <2>1, <3>1, <3>2 DEF NothingDue
  <2>3. QED
    BY <2>1, <2>2 DEF BeyondInv
<1>9. CASE UNCHANGED vars
  BY <1>1, <1>9 DEF vars, disk, world
<1>10. Weights \in ActorFiles /\ Config \in ActorFiles
  BY DEF ActorFiles, HashedFiles
<1>11. QED
  BY <1>2, <1>3, <1>4, <1>5, <1>6, <1>7, <1>8, <1>9, <1>10 DEF Next, Launch, Trainer

\* Splitting an ascending list keeps both parts in place and in order.
LEMMA SplitFacts ==
  ASSUME NEW q \in Seq(Steps), Ascending(q), NEW n \in 0..Len(q)
  PROVE  /\ Len(SubSeq(q, 1, n)) = n
         /\ \A i \in 1..n : SubSeq(q, 1, n)[i] = q[i]
         /\ Len(SubSeq(q, n + 1, Len(q))) = Len(q) - n
         /\ \A i \in 1..(Len(q) - n) : SubSeq(q, n + 1, Len(q))[i] = q[n + i]
         /\ Ascending(SubSeq(q, n + 1, Len(q)))
<1>1. /\ Len(SubSeq(q, 1, n)) = n
      /\ \A i \in 1..n : SubSeq(q, 1, n)[i] = q[i]
      /\ Len(SubSeq(q, n + 1, Len(q))) = Len(q) - n
      /\ \A i \in 1..(Len(q) - n) : SubSeq(q, n + 1, Len(q))[i] = q[n + i]
  OBVIOUS
<1>2. Ascending(SubSeq(q, n + 1, Len(q)))
  <2>1. ASSUME NEW i \in 1..(Len(q) - n), NEW j \in 1..(Len(q) - n), i < j
        PROVE  q[n + i] < q[n + j]
    BY <2>1 DEF Ascending
  <2>2. QED
    BY <1>1, <2>1 DEF Ascending
<1>3. QED
  BY <1>1, <1>2

\* The list a save rotates is ascending and ends with the published step: a
\* restarted process adopts no directory beyond it but its own, which it
\* leaves out.
LEMMA RotatedPaths ==
  ASSUME IInv, proc = "rotate", NEW paths \in RestoredHistories
  PROVE  /\ paths \in Seq(Steps)
         /\ Ascending(paths)
         /\ published.step > 0 => EndsWith(paths, published.step)
         /\ published.step = 0 => paths = <<>>
<1> USE Stages DEF IInv
<1>1. CASE history # <<>>
  <2>1. paths = history
    BY <1>1 DEF RestoredHistories
  <2>2. published.step > 0 /\ EndsWith(history, published.step) /\ Ascending(history)
    BY <1>1 DEF HistoryInv
  <2>3. QED
    BY <2>1, <2>2 DEF TypeOK
<1>2. CASE history = <<>>
  <2>1. paths \in AscendingPaths(actor \ {step}) /\ actor \ {step} \in SUBSET Steps
    BY <1>2 DEF RestoredHistories, TypeOK
  <2>2. /\ paths \in Seq(Steps)
        /\ Ascending(paths)
        /\ \A i \in 1..Len(paths) : paths[i] \in actor \ {step}
        /\ \A s \in actor \ {step} : \E i \in 1..Len(paths) : paths[i] = s
    BY <2>1, AscendingPathsFacts
  <2>3. /\ step \in Steps /\ step > published.step /\ Scheduled(step)
        /\ NothingDue(step - 1) /\ published.step \in {0} \cup Steps
    BY DEF ScheduleInv, TypeOK
  <2>4. ASSUME NEW n \in actor \ {step} PROVE n \in Steps /\ n <= published.step
    <3>1. n \in Steps
      BY DEF TypeOK
    <3>2. SUFFICES ASSUME n > published.step PROVE FALSE
      BY <2>3, <3>1 DEF Steps
    <3>3. Scheduled(n) /\ NothingDue(n - 1)
      BY <3>2 DEF BeyondInv
    <3>4. n <= step - 1 \/ step <= n - 1
      BY <2>3, <3>1 DEF Steps
    <3>5. QED
      BY <2>3, <3>1, <3>2, <3>3, <3>4 DEF NothingDue
  <2>5. CASE published.step = 0
    <3>1. \A i \in 1..Len(paths) : FALSE
      BY <2>2, <2>4, <2>5 DEF Steps
    <3>2. QED
      BY <2>2, <2>5, <3>1
  <2>6. CASE published.step > 0
    <3>1. published.step \in actor \ {step}
      BY <2>3, <2>6 DEF WholeInv, Whole, Steps
    <3>2. PICK i \in 1..Len(paths) : paths[i] = published.step
      BY <2>2, <3>1
    <3>3. Len(paths) \in 1..Len(paths) /\ paths[Len(paths)] \in actor \ {step}
      BY <2>2, <3>2
    <3>4. paths[Len(paths)] \in Steps /\ paths[Len(paths)] <= published.step
      BY <2>4, <3>3
    <3>5. i < Len(paths) => paths[i] < paths[Len(paths)]
      BY <2>2, <3>3 DEF Ascending
    <3>6. i = Len(paths)
      BY <2>2, <2>3, <3>2, <3>3, <3>4, <3>5 DEF Steps
    <3>7. QED
      BY <2>2, <2>6, <3>2, <3>6 DEF EndsWith
  <2>7. QED
    BY <2>3, <2>5, <2>6 DEF Steps
<1>3. QED
  BY <1>1, <1>2

\* The published checkpoint stays the newest in the rotation's list, and only
\* older ones are queued.
LEMMA HistoryStep ==
  ASSUME OneSchedule, IInv, [Next]_vars
  PROVE  HistoryInv'
<1> USE Stages DEF IInv
<1>1. CASE UNCHANGED <<proc, step, history, doomed, published>>
  BY <1>1 DEF HistoryInv, Ascending, EndsWith
<1>2. CASE proc' \in {"down", "train"} /\ history' = <<>> /\ doomed' = <<>>
  BY <1>2 DEF HistoryInv, Ascending, EndsWith
<1>3. ASSUME NEW t \in Targets, LaunchFresh(t) \/ LaunchResume(t) PROVE HistoryInv'
  BY <1>2, <1>3 DEF LaunchFresh, LaunchResume, Launched, RestInv, HistoryInv, Running
<1>4. ASSUME NEW t \in Targets, Skip(t) \/ Refuse(t) PROVE HistoryInv'
  BY <1>1, <1>4 DEF Skip, Refuse, memory
<1>5. CASE TrainStep \/ NextEpoch
  BY <1>5 DEF TrainStep, NextEpoch, world, HistoryInv, Ascending, EndsWith
<1>6. CASE FitReturns \/ Crash
  BY <1>2, <1>6 DEF FitReturns, Crash, Forget
<1>7. CASE Rotate
  <2>1. PICK paths \in RestoredHistories : DropOldest(paths, OverCapacity(paths))
    BY <1>7 DEF Rotate
  <2>2. /\ paths \in Seq(Steps) /\ Ascending(paths)
        /\ published.step > 0 => EndsWith(paths, published.step)
        /\ published.step = 0 => paths = <<>>
    BY <1>7, RotatedPaths DEF Rotate
  <2> DEFINE n == OverCapacity(paths)
  <2>3. /\ n \in 0..Len(paths)
        /\ Len(paths) > 0 => n < Len(paths)
        /\ KeepMax > 0 => Len(paths) - n < KeepMax
    BY <2>2, ConstantsAssumption DEF OverCapacity, OneSchedule
  <2>4. /\ doomed' = SubSeq(paths, 1, n) /\ history' = SubSeq(paths, n + 1, Len(paths))
        /\ proc' = "evict" /\ published' = published
    BY <1>7, <2>1 DEF DropOldest, Rotate
  <2> HIDE DEF n
  <2>5. /\ Len(doomed') = n
        /\ \A i \in 1..n : doomed'[i] = paths[i]
        /\ Len(history') = Len(paths) - n
        /\ \A i \in 1..(Len(paths) - n) : history'[i] = paths[n + i]
        /\ Ascending(history)'
    BY <2>2, <2>3, <2>4, SplitFacts DEF Ascending
  <2>6. published'.step > 0 => EndsWith(history, published.step)'
    <3>1. SUFFICES ASSUME published.step > 0
                   PROVE  Len(history') > 0 /\ history'[Len(history')] = published.step
      BY <2>4 DEF EndsWith
    <3>2. Len(paths) > 0 /\ paths[Len(paths)] = published.step
      BY <2>2, <3>1 DEF EndsWith
    <3>3. Len(paths) - n \in 1..(Len(paths) - n) /\ n + (Len(paths) - n) = Len(paths)
      BY <2>2, <2>3, <3>2
    <3>4. QED
      BY <2>5, <3>2, <3>3
  <2>7. published'.step = 0 => history' = <<>>
    BY <2>2, <2>3, <2>4
  <2>8. \A i \in 1..Len(doomed') : doomed'[i] < published'.step
    <3>1. SUFFICES ASSUME NEW i \in 1..n PROVE paths[i] < published.step
      BY <2>4, <2>5
    <3>2. Len(paths) > 0 /\ i < Len(paths) /\ Len(paths) \in 1..Len(paths)
      BY <2>2, <2>3
    <3>3. paths # <<>>
      BY <3>2
    <3>4. published.step > 0
      BY <2>2, <3>3 DEF TypeOK, Steps
    <3>5. QED
      BY <2>2, <3>2, <3>4 DEF Ascending, EndsWith
  <2>9. QED
    BY <2>3, <2>4, <2>5, <2>6, <2>7, <2>8 DEF HistoryInv
<1>8. CASE RemoveOldest
  <2>1. proc = "evict"
    BY <1>8, QueuedIsOld DEF RemoveOldest
  <2>2. /\ doomed' = Tail(doomed) /\ doomed # <<>> /\ doomed \in Seq(Steps)
        /\ UNCHANGED <<proc, step, history, published>>
    BY <1>8 DEF RemoveOldest, world, TypeOK
  <2>3. \A i \in 1..Len(doomed') : doomed'[i] = doomed[i + 1] /\ i + 1 \in 1..Len(doomed)
    BY <2>2
  <2>4. QED
    BY <2>1, <2>2, <2>3 DEF HistoryInv, Ascending, EndsWith
<1>9. CASE MakeDirectory \/ PeerMakesDirectory
  BY <1>1, <1>9 DEF MakeDirectory, PeerMakesDirectory, memory, world, HistoryInv, Ascending,
                    EndsWith
<1>10. ASSUME NEW f \in ActorFiles, WriteShard(f) PROVE HistoryInv'
  BY <1>10 DEF WriteShard, world, HistoryInv, Ascending, EndsWith
<1>11. CASE Register
  <2> DEFINE paths == Append(history, step)
  <2>1. /\ step \in Steps /\ history \in Seq(Steps) /\ step > published.step
        /\ Ascending(history)
        /\ published.step > 0 => EndsWith(history, published.step)
        /\ published.step = 0 => history = <<>>
        /\ KeepMax > 0 => Len(history) < KeepMax
        /\ published.step \in {0} \cup Steps
    BY <1>11 DEF Register, TypeOK, ScheduleInv, HistoryInv
  <2>2. /\ paths \in Seq(Steps) /\ Len(paths) = Len(history) + 1
        /\ paths[Len(paths)] = step
        /\ \A i \in 1..Len(history) : paths[i] = history[i]
    BY <2>1
  <2>3. Excess(paths) = 0
    BY <2>1, <2>2, ConstantsAssumption DEF Excess
  <2> HIDE DEF paths
  <2>4. doomed' = SubSeq(paths, 1, 0) /\ history' = SubSeq(paths, 1, Len(paths))
    BY <1>11, <2>3 DEF Register, DropOldest, paths
  <2>5. doomed' = <<>> /\ history' = paths
    BY <2>2, <2>4
  <2>6. \A i \in 1..Len(history) : history[i] < step
    <3>1. SUFFICES ASSUME NEW i \in 1..Len(history) PROVE history[i] < step
      OBVIOUS
    <3>2. history # <<>> /\ Len(history) \in 1..Len(history)
      BY <2>1, <3>1
    <3>3. published.step > 0 /\ history[Len(history)] = published.step
      BY <2>1, <3>2 DEF EndsWith, Steps
    <3>4. i < Len(history) => history[i] < history[Len(history)]
      BY <2>1, <3>2 DEF Ascending
    <3>5. history[i] \in Steps
      BY <2>1
    <3>6. QED
      BY <2>1, <3>1, <3>3, <3>4, <3>5 DEF Steps
  <2>7. Ascending(paths)
    BY <2>1, <2>2, <2>6 DEF Ascending
  <2>8. EndsWith(paths, step)
    BY <2>1, <2>2 DEF EndsWith
  <2>9. proc' = "trim" /\ step' = step
    BY <1>11 DEF Register
  <2>10. QED
    BY <2>5, <2>7, <2>8, <2>9 DEF HistoryInv, Ascending, EndsWith
<1>12. CASE EndTrim \/ CommitMarker \/ SaveData \/ TruncateTracker
  BY <1>12 DEF EndTrim, CommitMarker, SaveData, TruncateTracker, memory, world, HistoryInv,
               Ascending, EndsWith
<1>13. ASSUME NEW f \in {Weights, Config}, ReplaceAdapter(f) PROVE HistoryInv'
  BY <1>13 DEF ReplaceAdapter, memory, world, HistoryInv, Ascending, EndsWith
<1>14. CASE WriteTracker
  BY <1>14 DEF WriteTracker, memory, HistoryInv, Ascending, EndsWith, TypeOK, Steps
<1>15. CASE UNCHANGED vars
  BY <1>1, <1>15 DEF vars, memory, world
<1>16. QED
  BY <1>3, <1>4, <1>5, <1>6, <1>7, <1>8, <1>9, <1>10, <1>11, <1>12, <1>13, <1>14, <1>15
  DEF Next, Launch, Trainer

\* A save keeps what it has written until it is published.
LEMMA ProgressStep ==
  ASSUME IInv, [Next]_vars
  PROVE  ProgressInv'
<1> USE Stages DEF IInv
<1>0. /\ ActorFiles = Shards \cup {Weights, Config, Fsdp}
      /\ HashedFiles = Shards \cup {Weights, Config}
  BY DEF ActorFiles, HashedFiles
<1>1. CASE proc' \in {"down", "train", "rotate", "evict"}
  BY <1>1 DEF ProgressInv, Written, Late
<1>2. CASE UNCHANGED vars
  BY <1>2 DEF vars, disk, memory, world, ProgressInv, Written
<1>3. ASSUME NEW t \in Targets,
             LaunchFresh(t) \/ LaunchResume(t) \/ Skip(t) \/ Refuse(t)
      PROVE  ProgressInv'
  BY <1>1, <1>3 DEF LaunchFresh, LaunchResume, Skip, Refuse, Launched
<1>4. CASE TrainStep \/ NextEpoch \/ FitReturns \/ Crash \/ Rotate \/ WriteTracker
  BY <1>1, <1>4 DEF TrainStep, NextEpoch, FitReturns, Crash, Forget, Rotate, WriteTracker
<1>5. CASE RemoveOldest \/ PeerMakesDirectory
  BY <1>1, <1>5, QueuedIsOld DEF RemoveOldest, PeerMakesDirectory
<1>6. CASE MakeDirectory
  BY <1>6 DEF MakeDirectory, ProgressInv, Written, Late
<1>7. ASSUME NEW f \in ActorFiles, WriteShard(f) PROVE ProgressInv'
  <2>1. /\ proc = "shards" /\ step \in Steps /\ step \in folder /\ step \in actor
        /\ \A g \in (Shards \cup {Fsdp}) \ unwritten : file[step][g] = save
        /\ unwritten' = unwritten \ {f}
        /\ proc' = IF unwritten = {f} THEN "register" ELSE "shards"
        /\ UNCHANGED <<folder, actor, step, save>>
    BY <1>7 DEF WriteShard, ProgressInv, Written, Late, TypeOK, world
  <2>2. file'[step] = [file[step] EXCEPT ![f] = save] /\ file[step] \in [ActorFiles -> Content]
    BY <1>7, <2>1 DEF WriteShard, Write, TypeOK
  <2>3. \A g \in (Shards \cup {Fsdp}) \ unwritten' : file'[step][g] = save
    BY <1>0, <2>1, <2>2
  <2>4. proc' = "register" => unwritten' = {}
    BY <2>1
  <2>5. QED
    BY <2>1, <2>3, <2>4 DEF ProgressInv, Written, Late
<1>8. CASE Register \/ EndTrim \/ TruncateTracker
  BY <1>8 DEF Register, EndTrim, TruncateTracker, disk, memory, world, ProgressInv, Written, Late
<1>9. ASSUME NEW f \in {Weights, Config}, ReplaceAdapter(f) PROVE ProgressInv'
  <2>1. /\ \/ proc = "weights" /\ f = Weights /\ proc' = "config"
           \/ proc = "config" /\ f = Config /\ proc' = "marker"
        /\ step \in Steps /\ step \in folder /\ step \in actor
        /\ UNCHANGED <<folder, actor, marker, data, step, save>>
    <3>1. /\ \/ proc = "weights" /\ f = Weights
             \/ proc = "config" /\ f = Config
          /\ proc' = After[proc]
          /\ UNCHANGED <<folder, actor, marker, data, step, save>>
      BY <1>9 DEF ReplaceAdapter, memory, world
    <3>2. proc \in Late /\ proc \in Saving
      BY <3>1 DEF Late
    <3>3. QED
      BY <3>1, <3>2 DEF ProgressInv, TypeOK
  <2>2. file'[step] = [file[step] EXCEPT ![f] = save] /\ file[step] \in [ActorFiles -> Content]
    BY <1>9, <2>1 DEF ReplaceAdapter, Write, TypeOK
  <2>3. \A g \in Written : file[step][g] = save
    BY DEF ProgressInv
  <2>4. Written \cup {f} \subseteq ActorFiles
    BY <1>0, <2>1 DEF Written
  <2>5. \A g \in Written \cup {f} : file'[step][g] = save
    BY <2>2, <2>3, <2>4
  <2>6. Written' = Written \cup {f}
    BY <1>0, <2>1 DEF Written
  <2>7. QED
    BY <2>1, <2>5, <2>6 DEF ProgressInv, Late
<1>10. CASE CommitMarker
  <2>1. /\ proc' = "data" /\ step \in Steps /\ step \in folder /\ step \in actor
        /\ \A f \in ActorFiles : file[step][f] = save
        /\ UNCHANGED <<folder, actor, file, step, save>>
    BY <1>10 DEF CommitMarker, ProgressInv, Written, Late, TypeOK, memory, world
  <2>2. marker'[step] = [f \in HashedFiles |-> file[step][f]]
    BY <1>10, <2>1 DEF CommitMarker, TypeOK
  <2>3. QED
    BY <1>0, <2>1, <2>2 DEF ProgressInv, Written, Late
<1>11. CASE SaveData
  <2>1. /\ proc' = "truncate" /\ step \in Steps /\ step \in folder /\ step \in actor
        /\ \A f \in ActorFiles : file[step][f] = save
        /\ \A f \in HashedFiles : marker[step][f] = save
        /\ step \in folder'
        /\ UNCHANGED <<actor, file, marker, step, save>>
    BY <1>11 DEF SaveData, ProgressInv, Written, Late, TypeOK, memory, world
  <2>2. data'[step].save = save
    BY <1>11, <2>1 DEF SaveData, TypeOK
  <2>3. QED
    BY <2>1, <2>2 DEF ProgressInv, Written, Late
<1>12. QED
  BY <1>2, <1>3, <1>4, <1>5, <1>6, <1>7, <1>8, <1>9, <1>10, <1>11 DEF Next, Launch, Trainer

(***************************************************************************)
(* The safety of one schedule.                                             *)
(***************************************************************************)

\* A run starts with nothing on disk and no process, where every part of the
\* invariant holds.
LEMMA InvariantInitially ==
  ASSUME OneSchedule, Init, TypeOK
  PROVE  IInv
<1> USE Stages DEF Init
<1>1. PointerInv /\ WholeInv /\ BeyondInv /\ RestInv
  BY DEF PointerInv, WholeInv, BeyondInv, RestInv, NoTracker, EmptyTracker, Running
<1>2. ScheduleInv /\ ProgressInv
  BY DEF ScheduleInv, ProgressInv, Written, Late, Running
<1>3. HistoryInv
  BY DEF HistoryInv, Ascending
<1>4. QED
  BY <1>1, <1>2, <1>3 DEF IInv

\* Under one schedule, the inductive invariant holds in every reachable state:
\* the rotation, the rewriting of shards and any crash stay clear of the
\* published checkpoint.
THEOREM Invariant == ASSUME OneSchedule PROVE Spec => []IInv
<1>1. TypeOK /\ Init => IInv
  BY InvariantInitially
<1>2. TypeOK' /\ IInv /\ [Next]_vars => IInv'
  <2> SUFFICES ASSUME TypeOK', IInv, [Next]_vars PROVE IInv'
    OBVIOUS
  <2>1. PointerInv' /\ WholeInv' /\ BeyondInv'
    BY PointerStep, WholeStep, BeyondStep
  <2>2. ScheduleInv' /\ HistoryInv' /\ ProgressInv' /\ RestInv'
    BY ScheduleStep, HistoryStep, ProgressStep, RestStep
  <2>3. QED
    BY <2>1, <2>2 DEF IInv
<1>3. QED
  BY <1>1, <1>2, TypeCorrect, PTL DEF Spec

\* A whole checkpoint can be resumed from.
LEMMA WholeIsLoadable ==
  ASSUME TypeOK, NEW n \in Steps, NEW v \in Nat \ {0}, Whole(n, v)
  PROVE  Loadable(n)
<1>1. HashedFiles \subseteq ActorFiles /\ Fsdp \in ActorFiles
  BY DEF ActorFiles
<1>2. QED
  BY <1>1 DEF Whole, Loadable, Valid, Missing, Torn

\* What a readable tracker stands for.
LEMMA TrackedIsPublished ==
  ASSUME IInv, tracker > 0
  PROVE  /\ tracker = published.step /\ tracker \in Steps
         /\ published.save \in Nat \ {0}
         /\ Whole(tracker, published.save)
<1>1. tracker = published.step /\ tracker \in Steps /\ published.save > 0
  BY DEF IInv, PointerInv, TypeOK, NoTracker, EmptyTracker
<1>2. QED
  BY <1>1 DEF IInv, WholeInv, TypeOK

\* For one target, or targets that are multiples of the save frequency, and a
\* retention limit other than one, the checkpoint the tracker names can be
\* resumed from at every instant, whatever crashes.
THEOREM TrackedAlwaysLoadable ==
  ASSUME OneSchedule PROVE Spec => []TrackedCheckpointLoadable
<1>1. IInv => TrackedCheckpointLoadable
  <2> SUFFICES ASSUME IInv, tracker > 0 PROVE tracker \in folder /\ Loadable(tracker)
    BY DEF TrackedCheckpointLoadable
  <2>1. QED
    BY TrackedIsPublished, WholeIsLoadable DEF IInv, Whole
<1>2. QED
  BY <1>1, Invariant, PTL

\* A launch that resumes does so at the published step.
LEMMA ResumeFacts ==
  ASSUME IInv, NEW t \in Targets, LaunchResume(t)
  PROVE  /\ LatestStep = published.step /\ published.step \in Steps
         /\ step' = published.step
         /\ \A p \in Parts : loaded'[p] = published.save
<1>1. LatestStep = tracker /\ tracker \in Steps
  BY DEF LaunchResume, LatestStep, NoTracker, Steps
<1>2. tracker > 0
  BY <1>1 DEF Steps
<1>3. tracker = published.step /\ Whole(tracker, published.save)
  BY <1>2, TrackedIsPublished
<1>4. step' = published.step
  BY <1>1, <1>3 DEF LaunchResume
<1>5. HashedFiles \subseteq ActorFiles
  BY DEF ActorFiles
<1>6. \A p \in Parts : loaded'[p] = published.save
  BY <1>1, <1>3, <1>5 DEF LaunchResume, Whole
<1>7. QED
  BY <1>1, <1>3, <1>4, <1>6

\* What a resumed process is assembled from is one save, the published one.
THEOREM ResumesAreExact == ASSUME OneSchedule PROVE Spec => ResumeIsExact
<1>1. IInv /\ [Next]_vars =>
        [(proc = "down" /\ proc' = "train" /\ step' > 0) =>
            \A p \in Parts : loaded'[p] = published.save]_vars
  <2> SUFFICES ASSUME IInv, Next, proc = "down", proc' = "train", step' > 0
               PROVE  \A p \in Parts : loaded'[p] = published.save
    BY DEF vars
  <2>1. ASSUME NEW t \in Targets, LaunchFresh(t) PROVE FALSE
    BY <2>1 DEF LaunchFresh, IInv, RestInv, Running
  <2>2. ASSUME NEW t \in Targets, LaunchResume(t)
        PROVE  \A p \in Parts : loaded'[p] = published.save
    BY <2>2, ResumeFacts
  <2>3. ASSUME NEW t \in Targets, Skip(t) \/ Refuse(t) PROVE FALSE
    BY <2>3 DEF Skip, Refuse
  <2>4. ~Trainer
    BY DEF Trainer, TrainStep, NextEpoch, FitReturns, Rotate, RemoveOldest, MakeDirectory,
           PeerMakesDirectory, WriteShard, Register, EndTrim, ReplaceAdapter, CommitMarker,
           SaveData, TruncateTracker, WriteTracker
  <2>5. ~Crash
    BY DEF Crash, Running
  <2>6. QED
    BY <2>1, <2>2, <2>3, <2>4, <2>5 DEF Next, Launch
<1>2. QED
  BY <1>1, Invariant, PTL DEF Spec, ResumeIsExact

\* Training starts from scratch only while nothing has been published.
THEOREM NoSilentRestart == ASSUME OneSchedule PROVE Spec => NeverStartsOver
<1>1. IInv /\ [Next]_vars =>
        [(proc = "down" /\ proc' = "train" /\ step' = 0) => published.step = 0]_vars
  <2> SUFFICES ASSUME IInv, Next, proc = "down", proc' = "train", step' = 0
               PROVE  published.step = 0
    BY DEF vars
  <2>1. ASSUME NEW t \in Targets, LaunchFresh(t) PROVE published.step = 0
    BY <2>1 DEF LaunchFresh, DirectoryEmpty, IInv, PointerInv
  <2>2. ASSUME NEW t \in Targets, LaunchResume(t) PROVE published.step = 0
    BY <2>2, ResumeFacts
  <2>3. ASSUME NEW t \in Targets, Skip(t) \/ Refuse(t) PROVE FALSE
    BY <2>3 DEF Skip, Refuse
  <2>4. ~Trainer
    BY DEF Trainer, TrainStep, NextEpoch, FitReturns, Rotate, RemoveOldest, MakeDirectory,
           PeerMakesDirectory, WriteShard, Register, EndTrim, ReplaceAdapter, CommitMarker,
           SaveData, TruncateTracker, WriteTracker
  <2>5. ~Crash
    BY DEF Crash, Running
  <2>6. QED
    BY <2>1, <2>2, <2>3, <2>4, <2>5 DEF Next, Launch
<1>2. QED
  BY <1>1, Invariant, PTL DEF Spec, NeverStartsOver

\* Each step of the store is a step of its abstract view, or invisible to it:
\* a launch starts from the durable snapshot, whole; a completed tracker write
\* publishes the current step; a crash or a return stops; every other
\* operation, rotation and torn writes included, is hidden.
LEMMA StepRefines ==
  ASSUME IInv, [Next]_vars
  PROVE  [Abstract!Next]_(Abstract!vars)
<1> USE Stages DEF IInv, Running, Abstract!vars
<1>1. CASE UNCHANGED <<published, Running, step, loaded>>
  BY <1>1 DEF DescendsFrom
<1>2. ASSUME NEW v, \A p \in Parts : loaded[p] = v PROVE DescendsFrom = v
  <2>1. Weights \in Parts
    BY DEF Parts, HashedFiles
  <2>2. QED
    BY <1>2, <2>1 DEF DescendsFrom
<1>3. ASSUME NEW v, \A p \in Parts : loaded'[p] = v PROVE DescendsFrom' = v
  <2>1. Weights \in Parts
    BY DEF Parts, HashedFiles
  <2>2. QED
    BY <1>3, <2>1 DEF DescendsFrom
<1>4. ASSUME NEW t \in Targets, LaunchFresh(t) PROVE Abstract!Start
  <2>1. /\ proc = "down" /\ proc' = "train" /\ published' = published
        /\ step' = 0 /\ published.step = 0 /\ published.save = 0
        /\ loaded' = FreshState
    BY <1>4 DEF LaunchFresh, Launched, DirectoryEmpty, PointerInv, RestInv
  <2>2. DescendsFrom' = 0
    BY <1>3, <2>1 DEF FreshState, Missing
  <2>3. QED
    BY <2>1, <2>2 DEF Abstract!Start
<1>5. ASSUME NEW t \in Targets, LaunchResume(t) PROVE Abstract!Start
  <2>1. DescendsFrom' = published.save /\ step' = published.step
    BY <1>3, <1>5, ResumeFacts
  <2>2. QED
    BY <1>5, <2>1 DEF LaunchResume, Launched, Abstract!Start
<1>6. ASSUME NEW t \in Targets, Skip(t) \/ Refuse(t)
      PROVE  UNCHANGED <<published, Running, step, loaded>>
  BY <1>6 DEF Skip, Refuse, memory
<1>7. CASE TrainStep
  <2>1. DescendsFrom' = DescendsFrom
    BY <1>7 DEF TrainStep, DescendsFrom
  <2>2. QED
    BY <1>7, <2>1 DEF TrainStep, world, Abstract!Next, Abstract!Train
<1>8. CASE NextEpoch \/ Rotate \/ RemoveOldest \/ MakeDirectory \/ PeerMakesDirectory
  BY <1>1, <1>8 DEF NextEpoch, Rotate, RemoveOldest, MakeDirectory, PeerMakesDirectory,
                    memory, world
<1>9. CASE FitReturns \/ Crash
  <2>1. /\ proc # "down" /\ proc' = "down" /\ step' = 0 /\ loaded' = FreshState
        /\ published' = published
    BY <1>9 DEF FitReturns, Crash, Forget, Running
  <2>2. DescendsFrom' = 0
    BY <1>3, <2>1 DEF FreshState, Missing
  <2>3. QED
    BY <2>1, <2>2 DEF Abstract!Next, Abstract!Stop
<1>10. ASSUME NEW f \in ActorFiles, WriteShard(f) \/ ReplaceAdapter(f)
       PROVE  UNCHANGED <<published, Running, step, loaded>>
  BY <1>10 DEF WriteShard, ReplaceAdapter, memory, world
<1>11. CASE Register \/ EndTrim \/ CommitMarker \/ SaveData \/ TruncateTracker
  BY <1>1, <1>11 DEF Register, EndTrim, CommitMarker, SaveData, TruncateTracker, memory, world
<1>12. CASE WriteTracker
  <2>1. /\ proc # "down" /\ proc' = "train" /\ step' = step /\ loaded' = loaded
        /\ published' = [step |-> step, save |-> save]
        /\ step > published.step /\ save > published.save /\ save \in Nat
    BY <1>12 DEF WriteTracker, memory, ScheduleInv, TypeOK
  <2>2. DescendsFrom' = DescendsFrom
    BY <2>1 DEF DescendsFrom
  <2>3. QED
    BY <2>1, <2>2 DEF Abstract!Next, Abstract!Publish
<1>13. CASE UNCHANGED vars
  BY <1>1, <1>13 DEF vars, memory, world
<1>14. Weights \in ActorFiles /\ Config \in ActorFiles
  BY DEF ActorFiles, HashedFiles
<1>15. QED
  BY <1>1, <1>4, <1>5, <1>6, <1>7, <1>8, <1>9, <1>10, <1>11, <1>12, <1>13, <1>14
  DEF Next, Launch, Trainer, Abstract!Next

\* The checkpoint store implements its abstract view: seen through what it
\* publishes, it is one durable snapshot from which processes start, whole.
THEOREM Refinement == ASSUME OneSchedule PROVE Spec => ImplementsResumableTraining
<1>1. Init => Abstract!Init
  <2>1. ASSUME Init PROVE DescendsFrom = 0
    <3>1. \A p \in Parts : loaded[p] = 0
      BY <2>1 DEF Init, FreshState, Missing
    <3>2. Weights \in Parts
      BY DEF Parts, HashedFiles
    <3>3. QED
      BY <3>1, <3>2 DEF DescendsFrom
  <2>2. QED
    BY <2>1 DEF Init, Abstract!Init, Running
<1>2. IInv /\ [Next]_vars => [Abstract!Next]_(Abstract!vars)
  BY StepRefines
<1>3. QED
  BY <1>1, <1>2, Invariant, PTL DEF Spec, ImplementsResumableTraining, Abstract!Spec

(***************************************************************************)
(* The tracker and the dataloader.                                         *)
(***************************************************************************)

\* The tracker is only ever moved forward.
THEOREM TrackerOnlyForward == ASSUME OneSchedule PROVE Spec => TrackerMovesForward
<1>1. IInv /\ [Next]_vars =>
        [(tracker' > 0 /\ tracker' # tracker) => tracker' > published.step]_vars
  <2> SUFFICES ASSUME IInv, Next, tracker' > 0, tracker' # tracker
               PROVE  tracker' > published.step
    BY DEF vars
  <2>1. CASE WriteTracker
    BY <2>1, Stages DEF WriteTracker, IInv, ScheduleInv
  <2>2. CASE TruncateTracker
    BY <2>2 DEF TruncateTracker, EmptyTracker
  <2>3. Trainer => WriteTracker \/ TruncateTracker
    BY DEF Trainer, TrainStep, NextEpoch, FitReturns, Rotate, RemoveOldest, MakeDirectory,
           PeerMakesDirectory, WriteShard, Register, EndTrim, ReplaceAdapter, CommitMarker,
           SaveData, disk
  <2>4. ~Crash /\ ~Launch
    BY DEF Crash, Launch, LaunchFresh, LaunchResume, Launched, Skip, Refuse, disk
  <2>5. QED
    BY <2>1, <2>2, <2>3, <2>4 DEF Next
<1>2. QED
  BY <1>1, Invariant, PTL DEF Spec, TrackerMovesForward

\* Quotient and remainder put a step back together.
LEMMA Reassembled ==
  ASSUME NEW n \in Nat, NEW b \in Nat \ {0}
  PROVE  n = (n \div b) * b + (n % b)
  OBVIOUS

\* The remainder of a step is the position inside its epoch, and nothing at
\* the end of one.
LEMMA PositionInEpoch ==
  ASSUME NEW n \in Nat, NEW e \in Nat, NEW b \in Nat \ {0}, NEW c \in 0..b, n = e * b + c
  PROVE  n % b = IF c = b THEN 0 ELSE c
<1>1. CASE c = b
  BY <1>1
<1>2. CASE c \in 0..(b - 1)
  BY <1>2
<1>3. QED
  BY <1>1, <1>2

LEMMA LoaderStep ==
  ASSUME TypeOK, LoaderInv, [Next]_vars
  PROVE  LoaderInv'
<1> USE ConstantsAssumption
<1>1. ASSUME UNCHANGED <<step, epoch, consumed, data>> PROVE LoaderInv'
  BY <1>1 DEF LoaderInv, EpochBoundary
<1>2. ASSUME Forget, ASSUME NEW n \in Steps
                     PROVE  data'[n].save \in {Missing, Torn} \/ data'[n] = data[n]
      PROVE  LoaderInv'
  BY <1>2 DEF Forget, LoaderInv, EpochBoundary
<1>3. CASE UNCHANGED vars
  BY <1>1, <1>3 DEF vars, disk, memory, loader
<1>4. CASE TrainStep
  <2>1. /\ step' = step + 1 /\ consumed' = consumed + 1 /\ epoch' = epoch /\ data' = data
    BY <1>4 DEF TrainStep, disk
  <2>2. QED
    BY <2>1 DEF LoaderInv, EpochBoundary, TypeOK
<1>5. CASE NextEpoch
  <2>1. /\ consumed = BatchesPerEpoch /\ consumed' = 0 /\ epoch' = epoch + 1
        /\ step' = step /\ data' = data
    BY <1>5 DEF NextEpoch, disk
  <2>2. (epoch + 1) * BatchesPerEpoch + 0 = epoch * BatchesPerEpoch + BatchesPerEpoch
    BY DEF TypeOK
  <2>3. QED
    BY <2>1, <2>2 DEF LoaderInv, EpochBoundary
<1>6. CASE FitReturns
  BY <1>2, <1>6 DEF FitReturns, disk
<1>7. CASE SaveData
  <2>1. /\ data' = [data EXCEPT ![step] =
                      [save |-> save, consumed |-> consumed, order |-> order]]
        /\ UNCHANGED <<step, epoch, consumed>> /\ step \in Steps
    BY <1>7, Stages DEF SaveData, memory, loader, TypeOK
  <2>2. step % BatchesPerEpoch = IF consumed = BatchesPerEpoch THEN 0 ELSE consumed
    <3>1. /\ step \in Nat /\ epoch \in Nat /\ consumed \in 0..BatchesPerEpoch
          /\ step = epoch * BatchesPerEpoch + consumed
      BY DEF LoaderInv, TypeOK
    <3>2. BatchesPerEpoch \in Nat \ {0}
      OBVIOUS
    <3>3. QED
      BY ONLY <3>1, <3>2, PositionInEpoch
  <2>3. ASSUME NEW n \in Steps, ~EpochBoundary(n), data'[n].save \notin {Missing, Torn}
        PROVE  data'[n].consumed = n % BatchesPerEpoch
    <3>1. CASE n = step
      BY <2>1, <2>2, <2>3, <3>1 DEF EpochBoundary, TypeOK
    <3>2. CASE n # step
      BY <2>1, <2>3, <3>2 DEF LoaderInv, EpochBoundary, TypeOK
    <3>3. QED
      BY <3>1, <3>2
  <2>4. QED
    BY <2>1, <2>3 DEF LoaderInv, EpochBoundary
<1>8. CASE Crash
  <2>1. Forget /\ TornWrite
    BY <1>8 DEF Crash
  <2>2. ASSUME NEW n \in Steps
        PROVE  data'[n].save \in {Missing, Torn} \/ data'[n] = data[n]
    <3>1. data' = data \/ (step \in Steps /\ data' = [data EXCEPT ![step].save = Torn])
      BY <2>1, Stages DEF TornWrite, TypeOK
    <3>2. QED
      BY <3>1 DEF TypeOK
  <2>3. QED
    BY <1>2, <2>1, <2>2
<1>9. ASSUME NEW t \in Targets, LaunchResume(t) PROVE LoaderInv'
  <2>1. /\ LatestStep \in Steps /\ LatestStep \in Nat /\ Loadable(LatestStep)
        /\ step' = LatestStep /\ RestoreLoader(LatestStep) /\ data' = data
    BY <1>9 DEF LaunchResume, Launched, disk, Steps
  <2> HIDE DEF LatestStep
  <2>2. consumed' = LatestStep % BatchesPerEpoch
    BY <2>1 DEF LoaderInv, RestoreLoader, Loadable, Valid, EpochBoundary
  <2>3. step' = epoch' * BatchesPerEpoch + consumed'
    BY <2>1, <2>2, Reassembled DEF RestoreLoader
  <2>4. QED
    BY <2>1, <2>3 DEF LoaderInv, EpochBoundary
<1>10. ASSUME NEW t \in Targets, LaunchFresh(t) \/ Skip(t) \/ Refuse(t) PROVE LoaderInv'
  BY <1>1, <1>10 DEF LaunchFresh, Launched, Skip, Refuse, disk, memory, loader
<1>11. ASSUME NEW f \in ActorFiles,
              \/ Rotate \/ RemoveOldest \/ MakeDirectory \/ PeerMakesDirectory
              \/ WriteShard(f) \/ Register \/ EndTrim \/ ReplaceAdapter(f) \/ CommitMarker
              \/ TruncateTracker \/ WriteTracker
       PROVE  LoaderInv'
  BY <1>1, <1>11
     DEF Rotate, RemoveOldest, MakeDirectory, PeerMakesDirectory, WriteShard, Register,
         EndTrim, ReplaceAdapter, CommitMarker, TruncateTracker, WriteTracker, disk, memory,
         loader
<1>12. Weights \in ActorFiles /\ Config \in ActorFiles
  BY DEF ActorFiles, HashedFiles
<1>13. QED
  BY <1>3, <1>4, <1>5, <1>6, <1>7, <1>8, <1>9, <1>10, <1>11, <1>12 DEF Next, Launch, Trainer

\* On any schedule, every completed step accounts for one batch of one epoch:
\* restarts neither skip a batch nor train one twice.
THEOREM BatchesMatchSteps == Spec => []StepsMatchBatches
<1>1. Init => LoaderInv
  BY ConstantsAssumption DEF Init, LoaderInv, NoData
<1>2. TypeOK /\ LoaderInv /\ [Next]_vars => LoaderInv'
  BY LoaderStep
<1>3. LoaderInv => StepsMatchBatches
  BY DEF LoaderInv, StepsMatchBatches
<1>4. QED
  BY <1>1, <1>2, <1>3, TypeCorrect, PTL DEF Spec

\* As many epochs as the target has steps are enough.
LEMMA EpochsSuffice ==
  ASSUME NEW e \in Nat, NEW b \in Nat \ {0}, NEW t \in Nat, e >= t
  PROVE  e * b >= t
<1>1. e * b >= e
  OBVIOUS
<1>2. e * b \in Nat
  OBVIOUS
<1>3. QED
  BY <1>1, <1>2

\* On any schedule, fit() never runs out of epochs before its target.
THEOREM TargetAlwaysReached == Spec => []NeverStopsShort
<1> DEFINE Inv == LoaderInv /\ NeverStopsShort
<1>1. Init => Inv
  BY ConstantsAssumption DEF Init, LoaderInv, NoData, NeverStopsShort
<1>2. TypeOK /\ Inv /\ [Next]_vars => Inv'
  <2> SUFFICES ASSUME TypeOK, LoaderInv, NeverStopsShort, [Next]_vars PROVE NeverStopsShort'
    BY LoaderStep
  <2>1. CASE FitReturns
    <3>1. /\ step = epoch * BatchesPerEpoch + consumed
          /\ step \in Nat /\ epoch \in Nat /\ consumed \in Nat /\ target \in Nat
          /\ BatchesPerEpoch \in Nat \ {0}
      BY ConstantsAssumption DEF LoaderInv, TypeOK
    <3> SUFFICES ASSUME step < target PROVE FALSE
      BY <2>1, <3>1 DEF FitReturns, NeverStopsShort
    <3>2. EffectiveEpochs(target) \in Nat /\ EffectiveEpochs(target) >= target
      BY <3>1, ConstantsAssumption DEF EffectiveEpochs
    <3>3. CASE epoch >= EffectiveEpochs(target)
      <4>1. epoch >= target
        BY <3>1, <3>2, <3>3
      <4>2. epoch * BatchesPerEpoch >= target /\ epoch * BatchesPerEpoch \in Nat
        BY <3>1, <4>1, EpochsSuffice
      <4>3. QED
        BY <3>1, <4>2
    <3>4. CASE consumed = BatchesPerEpoch /\ epoch + 1 >= EffectiveEpochs(target)
      <4>1. epoch + 1 >= target /\ epoch + 1 \in Nat
        BY <3>1, <3>2, <3>4
      <4>2. (epoch + 1) * BatchesPerEpoch >= target
        BY <3>1, <4>1, EpochsSuffice
      <4>3. step = (epoch + 1) * BatchesPerEpoch
        BY <3>1, <3>4
      <4>4. QED
        BY <3>1, <4>2, <4>3
    <3>5. QED
      BY <2>1, <3>1, <3>3, <3>4 DEF FitReturns
  <2>2. CASE UNCHANGED outcome
    BY <2>2 DEF NeverStopsShort
  <2>3. [Next]_vars => FitReturns \/ UNCHANGED outcome \/ outcome' # "short"
    BY DEF Next, Launch, LaunchFresh, LaunchResume, Launched, Skip, Refuse, Trainer, TrainStep,
           NextEpoch, Rotate, RemoveOldest, MakeDirectory, PeerMakesDirectory, WriteShard,
           Register, EndTrim, ReplaceAdapter, CommitMarker, SaveData, TruncateTracker,
           WriteTracker, Crash, vars, world
  <2>4. QED
    BY <2>1, <2>2, <2>3 DEF NeverStopsShort
<1>3. QED
  BY <1>1, <1>2, TypeCorrect, PTL DEF Spec

=============================================================================
