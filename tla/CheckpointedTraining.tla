------------------------ MODULE CheckpointedTraining ------------------------
(***************************************************************************)
(* One experiment of the ablation matrix: the runner launches the GRPO     *)
(* trainer on a checkpoint directory, the trainer trains, saves compact    *)
(* LoRA checkpoints, rotates old ones and publishes the newest step in     *)
(* latest_checkpointed_iteration.txt.  Any process may die between two     *)
(* file operations, or in the middle of one, and be launched again.        *)
(*                                                                         *)
(* The content of a file is the number of the save that wrote it: two      *)
(* saves of one step, one before and one after a crash, never write the    *)
(* same bytes, because rollouts are sampled.  A file write that is not a   *)
(* rename can be cut in two by a crash and leaves a Torn file.             *)
(***************************************************************************)
EXTENDS Integers, Sequences, FiniteSets

CONSTANTS
    WorldSize,        \* FSDP ranks writing optimizer and extra-state shards
    LastStep,         \* bound: no target exceeds it
    Targets,          \* the values of --steps the operator may pass
    SaveFreq,         \* trainer.save_freq
    KeepMax,          \* trainer.max_actor_ckpt_to_keep, 0 for None
    BatchesPerEpoch,  \* len(train_dataloader)
    TotalEpochs,      \* trainer.total_epochs of the training YAML
    EsiSaves,         \* may the elastic-instance deadline force a save?
    RmErrors,         \* may rmtree(ignore_errors=True) meet an error?
    MaxCrashes        \* bound on the number of crashes

ASSUME ConstantsAssumption ==
    /\ WorldSize \in Nat \ {0}
    /\ LastStep \in Nat \ {0}
    /\ Targets \subseteq 1..LastStep
    /\ SaveFreq \in Nat \ {0}
    /\ KeepMax \in Nat
    /\ BatchesPerEpoch \in Nat \ {0}
    /\ TotalEpochs \in Nat
    /\ EsiSaves \in BOOLEAN
    /\ RmErrors \in BOOLEAN
    /\ MaxCrashes \in Nat

Steps == 1..LastStep
Ranks == 0..(WorldSize - 1)

(***************************************************************************)
(* The files of global_step_N/actor.                                       *)
(***************************************************************************)
Optim(r) == <<"optim", r>>
Extra(r) == <<"extra_state", r>>
Fsdp     == <<"fsdp_config", 0>>
Weights  == <<"adapter_weights", 0>>
Config   == <<"adapter_config", 0>>

Shards    == {Optim(r) : r \in Ranks} \cup {Extra(r) : r \in Ranks}
HashedFiles == Shards \cup {Weights, Config}   \* what the marker vouches for
ActorFiles  == HashedFiles \cup {Fsdp}

Missing == 0
Torn    == -1
Content == {v \in Int : v >= Torn}

NoFiles  == [f \in ActorFiles |-> Missing]
NoMarker == [f \in HashedFiles |-> Missing]
NoData   == [save |-> Missing, consumed |-> 0, order |-> 0]

VARIABLES
    \* the checkpoint directory
    folder,    \* the steps N whose directory global_step_N exists
    actor,     \* the steps N whose directory global_step_N/actor exists
    file,      \* content of each actor file of each step
    marker,    \* compact_lora_checkpoint.json: the contents it has hashed
    data,      \* data.pt: the dataloader state
    tracker,   \* latest_checkpointed_iteration.txt, see below
    \* the training process
    proc,      \* its control point; "down" when there is none
    target,    \* trainer.total_training_steps of this launch
    step,      \* completed optimiser steps
    epoch,     \* the epoch loop's counter
    consumed,  \* batches the current pass over the dataset has yielded
    order,     \* which permutation of the dataset this pass draws
    history,   \* CheckpointManager.previous_saved_paths
    doomed,    \* old actor directories still to be removed in this save
    unwritten, \* shard files the ranks have not written yet in this save
    loaded,    \* which save each part of the live training state came from
    \* the world around it
    outcome,   \* what the last launch came to
    crashes,
    \* observation only
    save,      \* number of the latest save attempt
    published  \* the snapshot of the latest completed tracker write

disk   == <<folder, actor, file, marker, data, tracker>>
loader == <<epoch, consumed, order>>
memory == <<target, step, loader, history, doomed, unwritten, loaded>>
world  == <<outcome, crashes, save, published>>
vars   == <<disk, proc, memory, world>>

NoTracker    == -1   \* the file does not exist
EmptyTracker == 0    \* opened with "w", nothing written: not an integer

\* The parts of the training state a resumed process is assembled from.
Parts == HashedFiles \cup {<<"data", 0>>}
FreshState == [p \in Parts |-> Missing]

(***************************************************************************)
(* The order of the stages of _save_checkpoint.  register_checkpoint runs  *)
(* inside the FSDP manager's save, before the adapter is written; data.pt  *)
(* and the tracker follow when the workers have returned.                  *)
(***************************************************************************)
After ==
    [rotate |-> "evict", evict |-> "shards", shards |-> "register",
     register |-> "trim", trim |-> "weights", weights |-> "config",
     config |-> "marker", marker |-> "data", data |-> "truncate",
     truncate |-> "track", track |-> "train"]

Saving == DOMAIN After
Running == proc # "down"

Init ==
    /\ folder = {}
    /\ actor = {}
    /\ file = [n \in Steps |-> NoFiles]
    /\ marker = [n \in Steps |-> NoMarker]
    /\ data = [n \in Steps |-> NoData]
    /\ tracker = NoTracker
    /\ proc = "down"
    /\ target = 0
    /\ step = 0
    /\ epoch = 0
    /\ consumed = 0
    /\ order = 0
    /\ history = <<>>
    /\ doomed = <<>>
    /\ unwritten = {}
    /\ loaded = FreshState
    /\ outcome = "idle"
    /\ crashes = 0
    /\ save = 0
    /\ published = [step |-> 0, save |-> 0]

(***************************************************************************)
(* Training.                                                               *)
(***************************************************************************)

\* Mutant: the YAML's epoch count, whatever --steps asks for.
YamlEpochsOnly(t) == TotalEpochs

\* The runner keeps at least one epoch per step, so that --steps always wins.
EffectiveEpochs(t) == IF t > TotalEpochs THEN t ELSE TotalEpochs

\* Mutant: the last step is missed by one.
SaveDueStrict(s, t, esi) == s > t \/ s % SaveFreq = 0 \/ esi

\* A save is due at the last step, at multiples of SaveFreq, or when the
\* elastic instance is about to expire.
SaveDue(s, t, esi) == s >= t \/ s % SaveFreq = 0 \/ esi

\* One batch: rollout, advantages, actor update, and whether it is saved.
TrainStep ==
    /\ proc = "train"
    /\ step < target
    /\ epoch < EffectiveEpochs(target)
    /\ consumed < BatchesPerEpoch
    /\ step' = step + 1
    /\ consumed' = consumed + 1
    /\ \E esi \in {FALSE, EsiSaves} :
          proc' = IF SaveDue(step + 1, target, esi) THEN "rotate" ELSE "train"
    /\ UNCHANGED <<disk, target, epoch, order, history, doomed, unwritten, loaded, world>>

\* The iterator over the dataset is exhausted and the epoch loop goes round;
\* the sampler's generator draws the next permutation.
NextEpoch ==
    /\ proc = "train"
    /\ step < target
    /\ consumed = BatchesPerEpoch
    /\ epoch + 1 < EffectiveEpochs(target)
    /\ epoch' = epoch + 1
    /\ consumed' = 0
    /\ order' = order + 1
    /\ UNCHANGED <<disk, proc, target, step, history, doomed, unwritten, loaded, world>>

\* Nothing survives the process but the checkpoint directory.
Forget ==
    /\ proc' = "down"
    /\ target' = 0
    /\ step' = 0
    /\ epoch' = 0
    /\ consumed' = 0
    /\ order' = 0
    /\ history' = <<>>
    /\ doomed' = <<>>
    /\ unwritten' = {}
    /\ loaded' = FreshState

\* fit() returns: after its last step, or because the epochs ran out.
FitReturns ==
    /\ proc = "train"
    /\ \/ step >= target
       \/ epoch >= EffectiveEpochs(target)
       \/ consumed = BatchesPerEpoch /\ epoch + 1 >= EffectiveEpochs(target)
    /\ outcome' = IF step >= target THEN "done" ELSE "short"
    /\ Forget
    /\ UNCHANGED <<disk, crashes, save, published>>

(***************************************************************************)
(* Retention.                                                              *)
(***************************************************************************)

\* The ascending enumeration of a finite set of steps (exactly one exists).
AscendingPaths(S) ==
    {q \in [1..Cardinality(S) -> S] :
        /\ \A i, j \in 1..Cardinality(S) : i < j => q[i] < q[j]
        /\ \A s \in S : \E i \in 1..Cardinality(S) : q[i] = s}

\* Mutant: a restarted process starts with an empty history.
HistoryNotRestored == {history}

\* Mutant: the directory of the save in progress counts as an old checkpoint.
OwnPathIncluded == IF history = <<>> THEN AscendingPaths(actor) ELSE {history}

\* restore_checkpoint_history: a process that has saved nothing yet adopts
\* the actor directories it finds, whatever they contain, but for its own.
RestoredHistories == IF history = <<>> THEN AscendingPaths(actor \ {step}) ELSE {history}

\* ensure_checkpoint_capacity: how many of the oldest paths make room.
OverCapacity(paths) ==
    IF KeepMax > 1 /\ Len(paths) >= KeepMax THEN Len(paths) - KeepMax + 1 ELSE 0

\* register_checkpoint: how many of the oldest paths exceed the limit.
Excess(paths) ==
    IF KeepMax > 0 /\ Len(paths) > KeepMax THEN Len(paths) - KeepMax ELSE 0

\* Mutant: the newest paths go instead of the oldest.
DropNewest(paths, n) ==
    /\ doomed' = SubSeq(paths, Len(paths) - n + 1, Len(paths))
    /\ history' = SubSeq(paths, 1, Len(paths) - n)

\* Forget the n oldest paths and queue them for removal.
DropOldest(paths, n) ==
    /\ doomed' = SubSeq(paths, 1, n)
    /\ history' = SubSeq(paths, n + 1, Len(paths))

\* Rank 0 enters save_checkpoint.
Rotate ==
    /\ proc = "rotate"
    /\ \E paths \in RestoredHistories : DropOldest(paths, OverCapacity(paths))
    /\ save' = save + 1
    /\ proc' = After[proc]
    /\ UNCHANGED <<disk, target, step, loader, unwritten, loaded, outcome, crashes, published>>

Removed(n) ==
    /\ actor' = actor \ {n}
    /\ file' = [file EXCEPT ![n] = NoFiles]
    /\ marker' = [marker EXCEPT ![n] = NoMarker]

\* rmtree stopped half way: some files are gone, the directory is not.
PartlyRemoved(n) ==
    /\ \E gone \in SUBSET ActorFiles :
          file' = [file EXCEPT ![n] = [f \in ActorFiles |->
                                          IF f \in gone THEN Missing ELSE file[n][f]]]
    /\ \/ marker' = [marker EXCEPT ![n] = NoMarker]
       \/ UNCHANGED marker
    /\ UNCHANGED actor

\* remove_previous_save_local_path takes the queued paths one by one.
RemoveOldest ==
    /\ proc \in {"evict", "trim"}
    /\ doomed # <<>>
    /\ doomed' = Tail(doomed)
    /\ \/ Removed(Head(doomed))
       \/ RmErrors /\ PartlyRemoved(Head(doomed))
    /\ UNCHANGED <<folder, data, tracker, proc, target, step, loader, history, unwritten,
                   loaded, world>>

(***************************************************************************)
(* Saving.                                                                 *)
(***************************************************************************)

\* The other ranks do not wait for rank 0 to rotate: each calls
\* local_mkdir_safe as soon as it enters the save.  makedirs is a system call
\* for global_step_N and one for its actor directory.
PeerMakesDirectory ==
    /\ WorldSize > 1
    /\ proc \in {"rotate", "evict"}
    /\ \/ /\ step \notin folder
          /\ folder' = folder \cup {step}
          /\ UNCHANGED actor
       \/ /\ step \in folder
          /\ step \notin actor
          /\ actor' = actor \cup {step}
          /\ UNCHANGED folder
    /\ UNCHANGED <<file, marker, data, tracker, proc, memory, world>>

\* Rank 0 has rotated and calls local_mkdir_safe; by the barrier before the
\* shards every rank has.
MakeDirectory ==
    /\ proc = "evict"
    /\ doomed = <<>>
    /\ folder' = folder \cup {step}
    /\ actor' = actor \cup {step}
    /\ unwritten' = Shards \cup {Fsdp}
    /\ proc' = After[proc]
    /\ UNCHANGED <<file, marker, data, tracker, target, step, loader, history, doomed, loaded,
                   world>>

\* The write each rank is at: optimizer, then extra state, then, on rank 0,
\* the FSDP metadata.
InFlight ==
    {f \in unwritten :
        /\ \A r \in Ranks : f = Extra(r) => Optim(r) \notin unwritten
        /\ f = Fsdp => Extra(0) \notin unwritten}

Write(f) == file' = [file EXCEPT ![step][f] = save]

\* A rank finishes a shard; the last one releases the barrier.
WriteShard(f) ==
    /\ proc = "shards"
    /\ f \in InFlight
    /\ Write(f)
    /\ unwritten' = unwritten \ {f}
    /\ proc' = IF unwritten = {f} THEN After[proc] ELSE proc
    /\ UNCHANGED <<folder, actor, marker, data, tracker, target, step, loader, history, doomed,
                   loaded, world>>

\* Rank 0 registers the path it has just filled, adapter not yet included.
Register ==
    /\ proc = "register"
    /\ LET paths == Append(history, step) IN DropOldest(paths, Excess(paths))
    /\ proc' = After[proc]
    /\ UNCHANGED <<disk, target, step, loader, unwritten, loaded, world>>

\* The barrier between the FSDP manager's save and the adapter's.
EndTrim ==
    /\ proc = "trim"
    /\ doomed = <<>>
    /\ proc' = After[proc]
    /\ UNCHANGED <<disk, memory, world>>

\* os.replace puts each complete adapter file in place.
ReplaceAdapter(f) ==
    /\ \/ proc = "weights" /\ f = Weights
       \/ proc = "config" /\ f = Config
    /\ Write(f)
    /\ proc' = After[proc]
    /\ UNCHANGED <<folder, actor, marker, data, tracker, memory, world>>

\* The marker hashes what is on disk and is renamed into place.
CommitMarker ==
    /\ proc = "marker"
    /\ \E r \in Ranks : file[step][Optim(r)] # Missing
    /\ \E r \in Ranks : file[step][Extra(r)] # Missing
    /\ marker' = [marker EXCEPT ![step] = [f \in HashedFiles |-> file[step][f]]]
    /\ proc' = After[proc]
    /\ UNCHANGED <<folder, actor, file, data, tracker, memory, world>>

\* Mutant: a data.pt left by an earlier attempt is kept.
SaveDataOnce ==
    /\ proc = "data"
    /\ folder' = folder \cup {step}
    /\ data' = IF data[step].save # Missing THEN data
               ELSE [data EXCEPT ![step] =
                        [save |-> save, consumed |-> consumed, order |-> order]]
    /\ proc' = After[proc]
    /\ UNCHANGED <<actor, file, marker, tracker, memory, world>>

\* The driver writes data.pt when the workers have returned.
SaveData ==
    /\ proc = "data"
    /\ folder' = folder \cup {step}
    /\ data' = [data EXCEPT ![step] = [save |-> save, consumed |-> consumed, order |-> order]]
    /\ proc' = After[proc]
    /\ UNCHANGED <<actor, file, marker, tracker, memory, world>>

\* open(tracker, "w") truncates ...
TruncateTracker ==
    /\ proc = "truncate"
    /\ tracker' = EmptyTracker
    /\ proc' = After[proc]
    /\ UNCHANGED <<folder, actor, file, marker, data, memory, world>>

\* ... and closing it flushes the step number.
WriteTracker ==
    /\ proc = "track"
    /\ tracker' = step
    /\ published' = [step |-> step, save |-> save]
    /\ proc' = After[proc]
    /\ UNCHANGED <<folder, actor, file, marker, data, memory, outcome, crashes, save>>

(***************************************************************************)
(* Crashes: a killed process, or a write that raises.  What had returned   *)
(* stays on disk; what was in flight may be cut short.                     *)
(***************************************************************************)
TornWrite ==
    \/ /\ proc = "shards"
       /\ \E cut \in SUBSET InFlight :
             file' = [file EXCEPT ![step] =
                        [f \in ActorFiles |-> IF f \in cut THEN Torn ELSE file[step][f]]]
       /\ UNCHANGED <<folder, actor, marker, data>>
    \/ /\ proc = "data"
       /\ data' = [data EXCEPT ![step].save = Torn]
       /\ UNCHANGED <<folder, actor, file, marker>>
    \/ /\ proc \in {"evict", "trim"}
       /\ doomed # <<>>
       /\ PartlyRemoved(Head(doomed))
       /\ UNCHANGED <<folder, data>>
    \/ /\ proc = "evict"
       /\ doomed = <<>>
       /\ folder' = folder \cup {step}   \* makedirs got half way
       /\ UNCHANGED <<actor, file, marker, data>>
    \/ UNCHANGED <<folder, actor, file, marker, data>>

Crash ==
    /\ Running
    /\ crashes < MaxCrashes
    /\ crashes' = crashes + 1
    /\ outcome' = "crashed"
    /\ TornWrite
    /\ Forget
    /\ UNCHANGED <<tracker, save, published>>

(***************************************************************************)
(* Launching: the runner's plan, the validation before the workers are     *)
(* built, and the restoration at the head of fit().                        *)
(***************************************************************************)
\* Mutant: a tracker that cannot be read means there is nothing to resume.
NothingTracked == tracker \notin Steps

DirectoryEmpty == folder = {} /\ tracker = NoTracker

\* Mutant: the highest step directory, tracked or not.
HighestFolder ==
    IF tracker \in folder THEN CHOOSE n \in folder : \A m \in folder : m <= n ELSE NoTracker

\* The step a launch would resume from, NoTracker if there is none.
LatestStep == IF tracker \in folder THEN tracker ELSE NoTracker

EpochBoundary(n) == n % BatchesPerEpoch = 0

\* prepare_compact_lora_resume and validate_compact_lora_checkpoint.
Valid(n) ==
    /\ data[n].save # Missing
    /\ \A f \in HashedFiles : file[n][f] # Missing /\ file[n][f] = marker[n][f]
    /\ file[n][Fsdp] \notin {Missing, Torn}

\* data.pt carries no hash; reading a torn one raises, but it is not read
\* at an epoch boundary.
Loadable(n) == Valid(n) /\ (EpochBoundary(n) \/ data[n].save # Torn)

\* Mutant: the global step taken for the position inside the epoch.
RestoreAtGlobalStep(n) ==
    /\ epoch' = n \div BatchesPerEpoch
    /\ consumed' = n
    /\ order' = data[n].order

\* Mutant: the exhausted loader saved at an epoch boundary is restored too.
RestoreExhausted(n) ==
    /\ epoch' = n \div BatchesPerEpoch
    /\ consumed' = data[n].consumed
    /\ order' = data[n].order

\* The loader restarts at an epoch boundary, and resumes inside an epoch.
RestoreLoader(n) ==
    /\ epoch' = n \div BatchesPerEpoch
    /\ consumed' = IF EpochBoundary(n) THEN 0 ELSE data[n].consumed
    /\ order' = IF EpochBoundary(n) THEN 0 ELSE data[n].order

Launched(t) ==
    /\ proc' = "train"
    /\ outcome' = "running"
    /\ target' = t
    /\ UNCHANGED <<disk, history, doomed, unwritten, crashes, save, published>>

\* An empty directory, in either resume mode: training starts from scratch.
LaunchFresh(t) ==
    /\ proc = "down"
    /\ DirectoryEmpty
    /\ Launched(t)
    /\ UNCHANGED <<step, loader, loaded>>

\* --resume-mode auto below the target: everything is loaded from one step.
LaunchResume(t) ==
    /\ proc = "down"
    /\ LatestStep \in Steps
    /\ LatestStep < t
    /\ Loadable(LatestStep)
    /\ Launched(t)
    /\ step' = LatestStep
    /\ loaded' = [p \in Parts |-> IF p \in HashedFiles THEN file[LatestStep][p]
                                                        ELSE data[LatestStep].save]
    /\ RestoreLoader(LatestStep)

\* The runner skips an experiment whose checkpoint reached the target.
Skip(t) ==
    /\ proc = "down"
    /\ LatestStep \in Steps
    /\ LatestStep >= t
    /\ outcome' = "done"
    /\ UNCHANGED <<disk, proc, memory, crashes, save, published>>

\* No readable tracker in a non-empty directory, or a checkpoint that does
\* not validate: the launch fails and leaves the directory as it is.
Refuse(t) ==
    /\ proc = "down"
    /\ ~DirectoryEmpty
    /\ LatestStep \in Steps => LatestStep < t /\ ~Loadable(LatestStep)
    /\ outcome' = "refused"
    /\ UNCHANGED <<disk, proc, memory, crashes, save, published>>

Launch == \E t \in Targets : LaunchFresh(t) \/ LaunchResume(t) \/ Skip(t) \/ Refuse(t)

Trainer ==
    \/ TrainStep \/ NextEpoch \/ FitReturns
    \/ Rotate \/ RemoveOldest \/ PeerMakesDirectory \/ MakeDirectory
    \/ \E f \in ActorFiles : WriteShard(f)
    \/ Register \/ EndTrim
    \/ \E f \in {Weights, Config} : ReplaceAdapter(f)
    \/ CommitMarker \/ SaveData \/ TruncateTracker \/ WriteTracker

Next == Launch \/ Trainer \/ Crash

Spec == Init /\ [][Next]_vars

\* A live process keeps executing, and the operator launches again whenever
\* no process is alive.
Fairness == WF_vars(Trainer) /\ WF_vars(Launch)

FairSpec == Spec /\ Fairness

-----------------------------------------------------------------------------
(***************************************************************************)
(* Properties.                                                             *)
(***************************************************************************)

\* Every variable ranges over the values its counterpart in the code can take.
TypeOK ==
    /\ folder \subseteq Steps
    /\ actor \subseteq Steps
    /\ file \in [Steps -> [ActorFiles -> Content]]
    /\ marker \in [Steps -> [HashedFiles -> Content]]
    /\ data \in [Steps -> [save : Content, consumed : 0..BatchesPerEpoch, order : Nat]]
    /\ tracker \in {NoTracker, EmptyTracker} \cup Steps
    /\ proc \in {"down", "train"} \cup Saving
    /\ target \in {0} \cup Targets
    /\ step \in 0..LastStep
    /\ proc \in Saving => step \in Steps
    /\ epoch \in Nat
    /\ consumed \in 0..BatchesPerEpoch
    /\ order \in Nat
    /\ history \in Seq(Steps)
    /\ doomed \in Seq(Steps)
    /\ unwritten \subseteq ActorFiles
    /\ loaded \in [Parts -> Content]
    /\ outcome \in {"idle", "running", "done", "short", "refused", "crashed"}
    /\ crashes \in 0..MaxCrashes
    /\ save \in Nat
    /\ published \in [step : {0} \cup Steps, save : Nat]

\* The step the tracker names can be resumed from, at every instant: no
\* rotation, re-save or crash may touch the checkpoint a restart depends on
\* (ensure_checkpoint_capacity and register_checkpoint against the order of
\* the stages of a save).
TrackedCheckpointLoadable == tracker > 0 => tracker \in folder /\ Loadable(tracker)

\* A resumed process is assembled from the files of one save, the one that
\* published its step; adapter, optimizer, scheduler/RNG and dataloader never
\* come from different attempts (data.pt is not covered by the marker's hashes,
\* and at an epoch boundary the resume asks only that it exists).
ResumeIsExact ==
    [][(proc = "down" /\ proc' = "train" /\ step' > 0) =>
          \A p \in Parts : loaded'[p] = published.save]_vars

\* The actor directories of the steps up to the published one.
PublishedActors == {n \in actor : n <= published.step}

\* With a limit of two or more, no more than max_actor_ckpt_to_keep old actor
\* directories exist, however often the process was restarted with its
\* in-memory history lost (restore_checkpoint_history); the directory of the
\* save that is under way, or was cut, is within the limit, or one beyond it
\* where another rank can make it before rank 0 has made room.
RetentionBound ==
    KeepMax > 1 =>
       /\ Cardinality(PublishedActors) <= KeepMax
       /\ Cardinality(actor) <= KeepMax + (IF WorldSize > 1 THEN 1 ELSE 0)

\* Training never silently starts again from scratch once a step has been
\* published (find_latest_ckpt_path returns None when the tracker or its
\* directory is missing; latest_checkpoint_step must refuse first).
NeverStartsOver ==
    [][(proc = "down" /\ proc' = "train" /\ step' = 0) => published.step = 0]_vars

\* The tracker is only ever moved forward, across any number of launches.
TrackerMovesForward ==
    [][(tracker' > 0 /\ tracker' # tracker) => tracker' > published.step]_vars

\* Every completed step accounts for exactly one batch of one epoch: no batch
\* is skipped or trained twice by a restart, and no epoch is used up by
\* restoring an exhausted loader (_load_checkpoint at an epoch boundary).
StepsMatchBatches == Running => step = epoch * BatchesPerEpoch + consumed

\* A process that returns without an error has reached its target: the epoch
\* loop never runs out first (build_training_command's effective_epochs).
NeverStopsShort == outcome # "short"

\* The two states the runner answers by refusing for good: a crash before
\* anything was published, and a crash between truncating and writing the
\* tracker.
FirstSaveLost == tracker = NoTracker /\ folder # {}
PointerLost == tracker = EmptyTracker

\* When launches and training go on and crashes stop, the target is reached,
\* or the run is in one of the two states that need an operator.
EventuallySettled ==
    <>[](FirstSaveLost \/ PointerLost \/ \E t \in Targets : tracker >= t)

\* What the documentation calls an atomic tracker: while no process is alive,
\* a run that has published a step still says which.
TrackerReadableAtRest == (~Running /\ published.step > 0) => tracker > 0

\* What an exact resume entails for the sampler: a pass over the dataset draws
\* the permutation an uninterrupted run would draw in that epoch.
SamplerOrderPreserved == Running => order = epoch

(***************************************************************************)
(* The abstract view: the durable snapshot is the latest published one.    *)
(***************************************************************************)
DescendsFrom ==
    IF \A p, q \in Parts : loaded[p] = loaded[q] THEN loaded[Weights] ELSE Torn

Abstract == INSTANCE ResumableTraining WITH
    durable <- published,
    running <- Running,
    at <- step,
    from <- DescendsFrom

\* Seen through its published snapshots, the store with its files, crashes
\* and rotations is the abstract one: a restart gets the durable snapshot,
\* whole, or nothing.
ImplementsResumableTraining == Abstract!Spec

=============================================================================
