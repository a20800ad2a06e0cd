# Verification of cp-longhorizon-grpo

The repository trains a tool-calling customer-service agent on tau2-bench with
GRPO: a vendored and modified veRL (`src/verl_qwen35`) does rollouts and
training, and `src/agentic-grpo-longhorizon` adds the tau2 environment, the
advantage methods' inputs and the runner that launches the experiments of an
ablation matrix. The modules here model the four parts whose correctness depends
on orders of steps, or on shapes of data, that are hard to test:

* what a training run leaves on disk, what a crash does to it, and what the next
  launch makes of it (`CheckpointedTraining`);
* how one rollout drives the policy, the tools and the simulated user, and what
  it records for the advantage estimators (`ToolAgentLoop`);
* how runners take batches of experiments through planning, identities, manifests
  and launches while the world changes under them (`AblationRunner`);
* how the estimator of the ablation matrix turns rewards and traces into
  advantages (`AdvantageGraph`).

Paths below are relative to the repository; RT is
`verl_qwen35/verl/trainer/ppo/ray_trainer.py`, CM, FM and LC are
`checkpoint_manager.py`, `fsdp_checkpoint_manager.py` and `lora_checkpoint.py` in
`verl_qwen35/verl/utils/checkpoint/`, RA is
`agentic-grpo-longhorizon/scripts/train/grpo/run_ablation_matrix.py`, LO is
`verl_qwen35/verl/experimental/agent_loop/tool_agent_loop.py`, CA is
`verl_qwen35/verl/trainer/ppo/core_algos.py`.


## 1. Inventory

| component | state | operations | who it talks to |
|---|---|---|---|
| Checkpoint store (CM, FM, LC) | `global_step_N/actor` with shards per rank, adapter, marker; `previous_saved_paths` in the memory of rank 0 | save, rotate, commit the marker, validate, load | called by the workers on the trainer's request |
| Trainer driver (RT) | `global_steps`, epoch, dataloader position, `data.pt`, `latest_checkpointed_iteration.txt` | `fit`, `_save_checkpoint`, `_load_checkpoint` | calls the store; launched by the runner |
| Ablation runner (RA) | run identities and manifests, checkpoint directories, one child process at a time | plan, validate, launch, skip, refuse | reads what the store wrote, starts the trainer |
| Rollout loop (LO) | per rollout: token buffer and mask, turns, SALT steps, pending step | `run` and its four handlers, `_call_tool` | inference engine, tools, interaction |
| tau2 interaction and tools (`src/envs/tau_bench_*.py`, `progpo_progress.py`) | per rollout: rewards, counters, contaminated flag, visited observations | `start_interaction`, `generate_response`, `calculate_score`, `finalize_interaction`, `execute` | the rollout's environment |
| Context variables (`tau_bench_context.py`) | the environment and the state dictionary of the current task | set and get | how tools find their rollout |
| tau2 Gym adapter (`tau2_adapter.py`) | a simulation thread, done flag, last observation | reset, `step_tool`, `step_response`, close | tau2-bench (external) |
| Advantage estimators (`core_algos.py`) | none: functions of a batch | GRPO, ProGPO, SALT graph, LATA weights | consume the traces and scores of the loop |
| SALT keys (`salt_trace.py`) | none | canonical keys of actions and observations | the loop |
| Workers, load balancer, weight synchronisation | Ray actors | batching of rollouts | upstream veRL |
| Log monitor, data preparation, SFT, evaluation | files | batch programs | nothing else depends on their state |

### What is hard, and what makes each part correct

**Checkpoints.** A save is a dozen file operations by several ranks and the
driver, with the removal of old checkpoints *before* and *between* them; any of
them may be the last one before the process dies, and the next process knows only
what it finds on disk. Correct means: the step the tracker names can be resumed
from at every instant; what a resumed process loads was written by one save, the
one that published the step; nothing restarts silently from scratch; the number of
directories stays bounded whatever was forgotten in a crash, and whichever rank comes
first; no batch is trained
twice or left out; the run ends.

**Rollouts.** Each handler has several ways out, each of which must close the
pending SALT step; tool messages are checked against the buffer and user messages
are not; the end of the simulation arrives as a flag in the result of one of
several concurrent calls; a forbidden token must cost the reward; scoring may
raise. Correct means: spans are exactly the generations; nothing but the last step
can be incomplete; contaminated rollouts are worth nothing; progress is a fraction
of the actions taken; the simulation gets no action after an end the loop was told of,
and where an exception hid the end, score and progress do not suffer from what is sent
after it; its thread is always ended.

**Runner.** Model, configuration and data may change between planning and a launch
hours later; identities come in part from caches; runners are interrupted or killed
anywhere and leave files, or a process, behind; a batch goes on after one of its
experiments failed. Correct means that a directory is only ever trained on by the
configuration recorded in its manifest; the experiments of a batch are
comparable; exit status 0 means that everything asked for is there; a dry run
changes nothing; the promise of the checkpoint store survives the runner around it.

**Advantages.** Correct means conservation (SALT redistributes the advantage of a
group, it does not create any), only steps in the same context merged, the same
spans skipped by all three loops that read them, no refinement of a group that fell
back on progress, and earlier turns weighing more whatever the order of the records.

`PROJECT.json` lists every hazard at its line with the properties that cover it.


## 2. Plan

In order of what an undetected failure would cost:

1. `CheckpointedTraining` with `ResumableTraining` as its abstract specification,
   checked and proved. **Done.**
2. `ToolAgentLoop`: one rollout, all handlers, checked and proved. **Done.**
3. `AblationRunner`: batches, identities, manifests, launches; for each experiment
   it implements `ResumableTraining` again. Checked and proved. **Done.**
4. `AdvantageGraph`: the estimator with all of its switches, checked and proved.
   **Done.**
5. A composition of several rollouts of one process was planned and is dropped: what
   separates them is Python's `ContextVar` (each task has its own copy), so that a
   model would assume what it is to show.

| module | role |
|---|---|
| `ResumableTraining` | abstract specification of the checkpoint store |
| `CheckpointedTraining` | runner, trainer and store of one experiment; its properties and refinement mapping |
| `CheckpointedTrainingInv` | the inductive invariants and the condition `OneSchedule` |
| `CheckpointedTrainingProofs`, `CheckpointRetentionProofs` | proofs about it |
| `ToolAgentLoop` | one rollout: loop, tools, interaction; its properties |
| `ToolAgentLoopInv`, `ToolAgentLoopProofs` | its inductive invariant and the proofs |
| `AblationRunner` | runners, the world, directories and training processes; its properties and refinement mapping |
| `AblationRunnerInv`, `AblationRunnerProofs` | its inductive invariant and the proofs |
| `AdvantageGraph` | one call of the estimator; its properties |
| `AdvantageGraphProofs` | its inductive invariants and the proofs about spans, groups and contexts |
| `FiniteSums` | lemmas: induction over finite sets, and the sums the library defines by a fold |
| `AdvantageValueProofs` | the proofs about the estimator's numbers |
| `TraceHandoverProofs` | `ToolAgentLoop` and `AdvantageGraph` composed: what a rollout delivers is read whole |
| `MCCheckpointedTraining`, `MCToolAgentLoop`, `MCAblationRunner`, `MCAdvantageGraph` | the constants of the runs |

`ToolAgentLoop` produces the traces `AdvantageGraph` reads. The estimator checks every
span itself, and is modelled on any trace; `TraceHandoverProofs` takes what the loop
guarantees of its traces and shows what the estimator makes of them.
`CheckpointedTraining` has the files behind the one number per directory that
`AblationRunner` keeps; both implement `ResumableTraining`.

Definitions preceded by a comment that starts with "Mutant:" are not part of a model: each is a
plausible mistake in the definition after it, kept to show that a property
notices it.


## 3. `CheckpointedTraining`

**State.** The variables of the first group are the directory: which step
directories and `actor` directories exist, the content of each file, what the
marker has hashed, `data.pt`, and the tracker, which may be absent, empty or a
step. The content of a file is the number of the save that wrote it, because two
saves of one step (before and after a crash) hold different weights; a write that
a crash cuts leaves a `Torn` file. The second group is the process, of which a
crash leaves nothing.

**Actions and code.**

| action | code |
|---|---|
| `LaunchFresh`, `LaunchResume`, `Skip`, `Refuse` | RA's decision in `--resume-mode auto`, `find_latest_ckpt_path`, `prepare_compact_lora_resume`, `validate_compact_lora_checkpoint`, RT `_load_checkpoint` |
| `TrainStep`, `NextEpoch`, `FitReturns` | RT `fit` |
| `Rotate` | FM `save_checkpoint` up to CM `ensure_checkpoint_capacity`, with `restore_checkpoint_history` |
| `RemoveOldest` | CM `remove_previous_save_local_path`, one directory at a time; with `RmErrors` the removal may stop half way unnoticed |
| `PeerMakesDirectory`, `MakeDirectory` | FM 208-213: every rank but 0 makes the directory as soon as it enters the save, while rank 0 still lists and evicts; rank 0 makes it afterwards, and all meet at the barrier |
| `WriteShard(f)` | the shards of all ranks in any interleaving, each rank in its own order |
| `Register`, `EndTrim` | CM `register_checkpoint` and the barrier after it |
| `ReplaceAdapter(f)`, `CommitMarker` | LC: temporary file and `os.replace`; hashes and marker |
| `SaveData`, `TruncateTracker`, `WriteTracker` | RT `_save_checkpoint` after the workers returned |
| `Crash` | the process dies; `TornWrite` says what the operation in flight can leave |

A crash is a process crash: what a system call returned from is on disk. Renames
are atomic, other writes are not, and a directory removal may stop anywhere.

**Abstract specification.** `ResumableTraining` has a durable snapshot, a process
that starts from it as a whole or not at all, trains, publishes later snapshots
and stops. `ImplementsResumableTraining` maps the durable snapshot to the step and
save of the last completed tracker write, and the origin of the process to the
save *every* part of its state was loaded from.

**Fairness.** `FairSpec` asks that a live process goes on executing
(`WF(Trainer)`) and that an operator or scheduler relaunches while no process is
alive (`WF(Launch)`). Neither asks that crashes stop: their number is bounded by
`MaxCrashes`.

**What holds.**

* `TrackedCheckpointLoadable`: although old checkpoints go before the new one is
  complete, the tracked one is never among them.
* `ResumeIsExact`: in particular `data.pt`, which no hash covers, is never one of
  an earlier attempt.
* `NeverStartsOver`, `TrackerMovesForward`: a missing tracker, which
  `find_latest_ckpt_path` takes for a fresh run, is refused by the runner first.
* `RetentionBound`: the directories up to the published step stay within the limit over
  restarts because the history is rebuilt from disk. With several ranks one directory may
  be beside them, because another rank can make the new one before rank 0 has made room;
  a crash there leaves it. For that time the promise of the docstring at FM 194 is exceeded
  by one. `keep_two` reaches this state: its bound cannot be lowered.
* `StepsMatchBatches`, `NeverStopsShort`: epoch boundaries cost no batch and no
  epoch, and the enlarged epoch count always reaches `--steps`.
* `EventuallySettled`: the run reaches its target or one of two states that need
  an operator, `FirstSaveLost` (a crash before anything was published, in a
  directory that exists) and `PointerLost` (below).


## 4. `ToolAgentLoop`

**State.** The buffer is its `response_mask`; a SALT step is its span, the kind of
action, whether an observation followed, and the mergeable bit. `tool_calls` holds
the selected calls of the last generation, each of which turns from a request into
the response it got, in any order, as `asyncio.gather` lets them. The interaction's
dictionary has its counters, flag and visited observations. The environment and
the inference engine answer in any way they can. `tau2_adapter.py` only forwards to
tau2's Gym environment, which is external; two things are assumed of that. A step on a
simulation that has ended raises, which is what the code expects of it
(`tau_bench_tools.py:114`, `tau_bench_interaction.py:514`), and only a step that reports
the end is paid. Nothing else is: any step may raise, and so may the one that ends the
simulation (`EnvRaises`), whose result is then lost together with the flag that tells the
loop. `execute` answers it like any other exception, and the loop goes on. `env_lost`
only observes that this has happened.

**Actions and code.**

| action | code |
|---|---|
| `StartInteraction`, `PreparePrompt` | LO `run` before the loop, `_handle_pending_state` |
| `GenerateLast`, `GenerateToolCalls`, `GenerateMessage`, `GenerateRefused` | the ways out of `_handle_generating_state`; the last is the engine refusing an empty budget |
| `RejectCall`, `ToolRaises`, `ToolObserves` | `_call_tool` failing before the tool, `execute` with a raising and a returning environment |
| `StopAfterTools`, `DropToolMessages`, `AnswerTools` | the ways out of `_handle_processing_tools_state` |
| `Contaminate`, `RespondRaises`, `Respond` | the ways out of `_handle_interacting_state` through `generate_response` |
| `CalculateScore`, `FinalizeInteraction` | LO `run` after the loop |
| `Finished` | the rollout has been delivered or has failed; nothing happens |

The step of the environment and the recording of its observation are one action:
the code between the two writes nothing another call reads, so they commute with
the other calls' steps.

**Fairness.** `FairSpec` has weak fairness on the rollout's steps: an awaited call
returns or raises. The code itself has no loop that needs more.

**What holds.** `SpansTileGenerations`, `GapsOnlyAtTheEnd`,
`ContaminatedScoresZero` (the score does not look at the flag; it holds because the
environment pays only the step that ends it and nothing is generated after),
`ProgressIsCoverage`, `EveryEnvironmentReleased` (in an instance in which the engine
never refuses: an exception of the engine leaves `run` without the cleanup, and fails
the whole batch), and, with one call per generation as the shipped configuration has it,
`ActsOnLiveEnvironment`: no handler misses an end it was told of. An end hidden by an
exception is the one exception, and it is a real one: the loop then sends further actions to a
finished simulation, each of which raises, until a turn limit or the buffer ends the
rollout, unpaid. With two calls
per generation the second may reach a finished simulation, which the environment
answers with an exception; the `ParallelCalls` run therefore omits that property
and shows that the score and the progress survive it.


## 5. `AblationRunner`

**State.** The world (model directory, its metadata, configuration, data set); per
experiment its directory (manifest, temporary manifest, logs, an entry in
`checkpoints/`, the tracked step) and its training process; the persistent cache of
model hashes; per runner the command line, the point it has reached and what it has
in memory. A content is a version number; an edit makes a later version or brings
back the one before, and every change of the model directory, a copy of the same
content over it too, changes its metadata.

**Actions and code.**

| action | code |
|---|---|
| `Start` | `main`, which parses a command line, and the selection at the head of `execute`, under the rule below |
| `Plan`, `Planned` | `plan_experiment` for each selected experiment |
| `UseData`, `AnnounceBuild`, `BuildData` | `_prepare_shared_data` in its three modes, the builder failing or not |
| `ReadModel`, `HashModel`, `ReadFiles`, `ReadDataset`, `IdentityError` | `build_current_plan_identity`, part by part, with the cache of the batch and the one on disk |
| `Check`, `Rename` | `validate_or_create_manifest`, `atomic_write_manifest` |
| `Validated` | the end of the first pass, at which a dry run stops and skips fall out |
| `Launch`, `Reap`, `Launched` | the second pass: `run_streaming_command`, the exit status, the end of `execute` |
| `Interrupt`, `Kill` | Ctrl-C, which ends the process and removes the temporary file, and a kill, which does neither |
| `Load`, `Train`, `BeginSave`, `EndSave`, `Succeed`, `Die` | the training process as the runner sees it (external to RA) |
| `Edit` | somebody changes model, configuration or data |

`Undisturbed` is an assumption about the operator, taken from
`training_and_ablation_guide.md:313` ("不要让多个进程同时写同一个 variant 目录"): a batch is not
started on a directory that another runner or a surviving process is on. RA has no lock
that would enforce it. Runners on different directories share the world, the data set and
the hash cache.

Four variables only observe: `launched` (every launch with its identity and batch),
`serial` (the number of a runner's batch), `drift` (the parts changed since the identity
of a launch read them; what changes between that reading and the start of the process
is seen by nothing) and `undone` (whether a content ever came back, which no hash
can tell from not having changed).

**What holds.**

* `OneIdentityPerDirectory`: whatever happened in between, no actor is continued under
  another identity.
* `BatchUsesOneConfiguration`: identities of a batch are built one after another and each is only compared with
  its own manifest, yet all launches of a batch agree unless a content was changed and
  changed back between two of them.
* `TrainedAsRecorded`: the hash of the batch in memory, the cache on disk and a hash taken
  during a change never let a process read what its manifest does not say.
* `ManifestPrecedesArtifacts`: the refusal of a directory with artifacts and no manifest
  never meets the runner's own work, except for the temporary file of a killed runner.
* `SuccessMeansComplete`, `DryRunTouchesNothing`: exit status 0 and `--dry-run` mean what
  they say.
* `ExperimentsAreResumable`: each experiment implements `ResumableTraining`, in either
  resume mode.

No fairness is stated: the runner waits for nothing but its own process.


## 6. `AdvantageGraph`

**State.** The batch (groups, rewards, masks, traces, switches), the function at work, the
record its loop is at with the coverage and history it has built, and the results:
group scores, transition occurrences, step scores, token values, LATA weights, advantages.
Traces are any lists of records, as the code does not trust them: spans may be empty,
overlap, be out of order, leave the buffer or cover an observation, keys may be missing, a
record may be no dictionary.

**Numbers.** All arithmetic is exact. Dividing by the size of a group and by its deviation
scales a group by one positive factor, so that an advantage is kept as
"size * score - sum" in the unit of its group; a SALT mean is a sum and a count; a LATA weight is the raw weight before its normalisation by the
trajectory. Outcomes are taken to be non-negative, as the environment's rewards are. `Alpha`, the base
of LATA's weights, is an integer of at least 1, so that powers stay exact; the code takes any
positive number and ships with 1.05. Below 1 the order of weights would be the reverse.

| action | code |
|---|---|
| `Scores` | `compute_progpo_group_scores` / `compute_grpo_group_scores` (CA 489), with the fallback of failed groups on progress |
| `AddStep`, `Merge` | `compute_salt_step_scores`: the loop over records and the means per transition |
| `Broadcast`, `EndBroadcast` | `_apply_salt_spans` |
| `Turn`, `EndTurns` | `compute_lata_turn_weights` |
| `NextSample` | each of the loops goes on to the next trajectory |
| `Combine` | the end of `compute_grpo_agentic_ablation_outcome_advantage` |

**What holds.**

* `MergedShareContext`: two steps get one mean only after the same keyed history, as far
  back as `history_length`; a step that must not be merged separates what follows it.
* `StepsConserved`: merging moves advantage within a group and adds none. A mean is a
  fraction; sums of them are compared in the common multiple of all counts.
* `SpansReadAlike`: the three loops with their three tests take the same spans, so that
  the score of a merged step is on its tokens and on no others.
* `FallbackNeverRefined`: no group is both taken by the fallback and refined, although one test looks at the largest
  outcome and the other at the spread.
* `EarlierTurnsWeighMore`: also for records out of order, and no turn weighs less than a
  token outside all turns.
* `GenerationsScored`: of a trace that tiles the generated tokens, as the loop's do, nothing
  is skipped but a last generation that was cut at the end of the response.


## 7. Runs and bounds

| run | instance | shows |
|---|---|---|
| `keep_two` | 2 ranks, target 5, a save every 2 steps, 2 batches per epoch, 2 checkpoints kept, 2 crashes | all properties of section 3 |
| `failing_removals` | 2 ranks, targets 2, 6, 8, 3 checkpoints kept, removals that fail, 1 crash | the inductive invariant and `TrackedCheckpointLoadable` |
| `one_call` | buffer 9, 2 free prompt tokens, messages of 1 or 2 tokens, 1 call, 4 assistant turns, interaction limit 3 | all properties of section 4 |
| `parallel_calls` | buffer 9, 2 calls, messages of 1 or 3 tokens, 3 user turns, interaction limit 4 | four invariants with concurrent calls and messages that outgrow the context, and the inductive invariant `LoopInv` |
| `batches` | 2 experiments, 2 runners (symmetric), 5 command lines, 1 edit, 2 batches, targets 1 and 2 | all properties of section 5, and the inductive invariant `IInv` |
| `estimator` | 4 trajectories of 3 tokens, 2 groups, 9 traces, 4 results, history 2, 4 settings of the switches: 23328 batches | all properties of section 6 |
| `keep_one`, `extended_target`, `torn_tracker`, `sampler_order`, `uncounted_calls`, `span_overshoot` | as small as shows the disagreement | section 9 |

*Why these are enough.* With a save every other step and target 5, saves fall on an
epoch boundary, on another one and inside an epoch, the last off the schedule; with a limit of two
the third save is the first to evict. Two crashes allow a crash while saving, a
restart, and a crash in the repeated save, whose directory then holds files of
both attempts. Two ranks are enough to have one rank ahead of the other in either
file. Targets 2, 6 and 8 let launches stop, skip and extend. In a buffer of nine
tokens, three to four turns fit, so that each handler can be left in every way in the
first, a middle and the last turn; two free tokens let the last generation cross the
end of the buffer, and a message of three tokens can use them up altogether, so that
the engine refuses. Two batches are enough to
have one resume, extend or collide with what another left, or to have both at work at once; one
edit falls anywhere between any two steps of either, and since a data set is also rebuilt by a
batch, contents still change twice and come back. The five command lines take every
option of the runner at least once. The traces of the estimator have one of every kind of span
the code skips, next to spans it takes, and its groups are of one, two and three
trajectories, mixed, failed and successful. Three observations are the least that distinguish the reset
observation, a new one and the text of an exception.


## 8. What is proved

`CheckpointedTrainingProofs` and `CheckpointRetentionProofs` prove for every number of
ranks, steps, crashes, every set of targets, save frequency, retention limit and epoch
length:

| theorem | says |
|---|---|
| `TypeCorrect` | `Spec => []TypeOK`, without further assumptions |
| `Invariant` | `OneSchedule` implies `Spec => []IInv` |
| `TrackedAlwaysLoadable` | … `[]TrackedCheckpointLoadable` |
| `ResumesAreExact` | … `ResumeIsExact` |
| `NoSilentRestart` | … `NeverStartsOver` |
| `TrackerOnlyForward` | … `TrackerMovesForward` |
| `Refinement` | … `ImplementsResumableTraining` |
| `BatchesMatchSteps` | `Spec => []StepsMatchBatches`, on any schedule |
| `TargetAlwaysReached` | `Spec => []NeverStopsShort`, on any schedule |
| `RetentionHolds` | `Spec => []RetentionBound`, for a limit of two or more and removals that do not fail half way, if there is a single rank (on any schedule) or `OneSchedule` (with any number of ranks) |
| `OldOnesBounded` | the directories up to the published step stay within the limit, with the same limit and removals, on any schedule and with any number of ranks |

`OneSchedule` is a condition on the constants: a retention limit other than one, no
saves forced by an elastic-instance deadline, and either a single target or targets
that are all multiples of the save frequency. It is needed: dropping the first or
the last part gives the counterexamples `keep_one` and `extended_target`, and the
middle one fails like the latter. Failing removals and crashes are allowed.

*Why the invariant looks as it does.* `TrackedCheckpointLoadable` alone says nothing
of the queue of directories about to be removed. What protects the published
checkpoint is its place in the rotation: the history is ascending and ends with it,
and a rotation with a limit of at least two removes only a proper prefix. After a
crash, the history is rebuilt from the directories found, and it still ends with
the published step only if the unfinished directory beyond it, if any, is that of the very save that
is about to be repeated, and is therefore excluded. That is `BeyondInv`, and it holds
because all launches agree on which steps are due (`NothingDue`, `ScheduleInv`).
`ProgressInv` collects what the save in progress has written; when the tracker is
written it becomes `WholeInv` of the new step. `PointerInv` ties the tracker to the
last completed write. `IInv`, their conjunction, is an invariant of the
`failing_removals` run as well.

`LoaderInv` is the invariant behind `StepsMatchBatches`: a `data.pt` a launch would
restore stands where its step does. `RetentionInv` is the one behind `RetentionBound`: a save
is past the published step (`PositionInv`); the rotation's list knows of every actor directory but
the one being filled, and is short enough before a new one is entered (`ListInv`), so that
at the moment a step is published all directories are listed and within the limit; until the next one
is published no directory is added at or below it (`CountInv`). A removal that
stops half way unnoticed breaks `ListInv`, since the list forgets what the disk keeps. What
lies beyond the published step is bounded by `BeyondInv`: all launches agree on
the save that is due next, so there is one such directory at most (`OneBeyond`). Off
the schedule, with several ranks, crashed saves of different steps may each leave theirs until
a later save evicts them; this is why `RetentionHolds` has its condition, and `OldOnesBounded`
needs none.

`ToolAgentLoopProofs` proves for every buffer length, prompt, turn and call limit, set of
message lengths and set of observations:

| theorem | says |
|---|---|
| `LoopInvariant` | `Spec => []LoopInv`, the inductive invariant |
| `LoopTypeCorrect` | `Spec => []TypeOK`, with the bound of the buffer |
| `SpansAlwaysTile` | `Spec => []SpansTileGenerations` |
| `OnlyLastStepIncomplete` | `Spec => []GapsOnlyAtTheEnd` |
| `ContaminationIsNeverPaid` | `Spec => []ContaminatedScoresZero` |
| `ProgressAlwaysCoverage` | `Spec => []ProgressIsCoverage` |
| `NoActionAfterTheEnd` | `MaxParallelCalls = 1` implies `Spec => ActsOnLiveEnvironment`: no action after an end that was reported |

The parts of `LoopInv`: handlers are entered below the length of the buffer, which bounds
what one unchecked message can add (`EntryInv`); a simulation that has ended is known to
have, by a response of the current generation or because the conversation is over, unless the
step that ended it raised, and only an end that was reported was paid (`EndInv`), which is why a contaminated conversation, whose last
message never reached the simulation, has earned nothing; the counters of actions and
progress move together (`CoverageInv`); the trace tiles the buffer, and all of its closed
steps are sound while the conversation goes on (`TraceInv`).

`AblationRunnerProofs` proves for any set of experiments, runners, requests and command
lines, and any number of edits and batches:

| theorem | says |
|---|---|
| `Invariant` | `Spec => []IInv`, the inductive invariant |
| `TypeCorrect` | `Spec => []TypeOK` |
| `OneIdentity` | `Spec => []OneIdentityPerDirectory` |
| `OneConfigurationPerBatch` | `Spec => []BatchUsesOneConfiguration` |
| `RecordsAreTrue` | `Spec => []TrainedAsRecorded` |
| `ManifestFirst` | `Spec => []ManifestPrecedesArtifacts` |
| `SuccessIsComplete` | `Spec => SuccessMeansComplete` |
| `DryRunsAreDry` | `Spec => DryRunTouchesNothing` |
| `RunnerResumes` | `Spec => ExperimentsAreResumable` |

The assumptions are those the constants are declared with: a command line selects
experiments without repetition, and at least one. The parts of `IInv`: the lists of a batch are disjoint and
without repetition, and belong to its stage (`Shape`); no two runners, and no process left
over, are on one experiment (`Exclusive`), which is what lets a comparison with a manifest
stay true until the launch (`Identified`); a hash whose metadata is the present one stands
for the present model (`HashesSound`), so that an identity and the world differ only in
the parts that have drifted (`DriftKnown`). For `OneConfigurationPerBatch` manifests are compared in time: as long as nothing comes
back, versions only grow, what was written in planning is at most what a launch reads
(`BehindWorld`), and since a launch needs the two to be equal, every later manifest of the
batch, which is at most the first launch's, and at least it, is the same
(`OneConfiguration`, with `Numbered` and `Requested`). `Accounted` says of each selected
experiment that it is still to go, was counted as a failure, or is done; `Fresh` that a
process which is to start over finds nothing saved.

`AdvantageGraphProofs` proves for batches of any size, any width, traces, keys and history length:

| theorem | says |
|---|---|
| `PassesAgree` | `Spec => []SpansInv`, the inductive invariant |
| `SpansAgree` | `Spec => []SpansReadAlike` |
| `FallbackStays` | `Spec => []FallbackNeverRefined` |
| `MergesShareContext` | `Spec => []MergedShareContext` |

`SpansInv` describes a pass by what it has taken, not by its loop: the graph's
spans are those that can be read and meet none taken before (`Greedy`); the coverage of a
loop is the union of what it has taken of the trajectory at hand (`Covered`); and
a later pass has taken just the graph's spans up to where it is (`Agree`), because with
the same coverage its test comes out the same way. `FallbackStays` needs only that outcomes are
non-negative: if all are below `tau_reward`, so is their spread. For `MergesShareContext`
each occurrence's key is shown to spell out the last steps before it; a step that is not
mergeable has its own position as key, which no other step has.

`AdvantageValueProofs` proves, as generally, with sums and powers of any size:

| theorem | says |
|---|---|
| `ScoresKept` | `Spec => [](SpansInv /\ Histories /\ Keyed /\ Values)`, the inductive invariant |
| `MergingConserves` | `Spec => []StepsConserved` |
| `EarlierWeighMore` | `Spec => []EarlierTurnsWeighMore` |
| `TypesKept` | `Spec => []TypeOK`, without bounds |

`Values` says of each step what its score is made of: its trajectory's own advantage until the
graph is done, and then, for a step with an occurrence, the mean over the occurrences
of its transition. The argument for `MergingConserves`: a step has one occurrence at most
(`OneOccurrence`), so that the steps of a group fall into blocks, the occurrences of
one transition and the single unmerged steps, which are disjoint and cover the group
(`BlockFacts`); in each block the scores add up to what the advantages of its steps did, because
the common multiple is divisible by the block's size (`BlockSum`); and sums over disjoint blocks add up
(`SumOfBlocks`). That all occurrences of a transition are of one group, and that the
choice of an occurrence does not matter, is what the mutant that merges over the whole batch breaks.
For `EarlierWeighMore`: the spans a pass has taken are disjoint (`Apart`), so a token is in one turn
and two turns start at different places; the turns after the later one
are then a proper subset of those after the earlier one, and powers of `Alpha` grow
(`Weighted`, `PowerGrows`).

`FiniteSums` has what these need of the library's `SumFunction` and `FoldFunction`, which are
defined by choosing a recursive function. The library's induction
theorems take an operator as a parameter and cannot be cited here; induction is done
with sets in place of predicates instead: a set of naturals that is not empty has a
least element (`LeastNatural`), and a set of subsets of a finite set that has a subset whenever
it has all the smaller ones below it has them all (`SubsetInduction`). From this the fold
exists (`FoldExists`) and adds its elements in any order (`TotalTakesAny`). `Power` is the product fold over `1..n`, of which its recursion follows.

`TraceHandoverProofs` proves what the estimator makes of the traces the loop leaves:

| theorem | says |
|---|---|
| `TiledTracesRead` | `Spec => []GenerationsScored` |
| `DeliveredTracesRead` | with the loop's constants as assumed, the loop's `Spec` and the estimator's imply that each generated token of a delivered trajectory in a mixed group carries its step's score, unless its generation is the last and goes on beyond the response |

The first adds to `SpansInv` that LATA has taken all it can read of such a trace
(`TurnsWhole`) and that a token no broadcast span holds still has its trajectory's
advantage (`Untouched`). The second takes `LoopInv` of an instance of `ToolAgentLoop`
whose `ResponseLength` is the estimator's `Width`, and `Delivered(s)`, which says that
trajectory `s` of the batch has the rollout's steps and its mask, cut and padded. The exception is real:
it is the finding `span_overshoot`.

With these, every safety property of the passing runs is a theorem.

**Only model-checked:** liveness (`EventuallySettled`, `EveryEnvironmentReleased`), which
is out of the prover's reach.


## 9. Disagreements found

* **`keep_one`.** With `max_actor_ckpt_to_keep=1` the old checkpoint is deleted when
  the new one is registered, which is before its adapter, marker, `data.pt` and
  tracker exist (FM 357), against the comment at CM 190.
* **`extended_target`.** A crash in the last save of a target that is no multiple of the save
  frequency leaves a directory that a launch with a larger `--steps` will not write again. The
  rotation counts it as the newest checkpoint and evicts the tracked one (CM 184).
* **`torn_tracker`.** The "atomic" tracker is truncated and rewritten in place (RT 1050).
* **`sampler_order`.** A restart at an epoch boundary also skips the sampler's
  generator (RT 1107), so the next epoch repeats the first permutation of the dataset.
* **`uncounted_calls`.** A call rejected before it reaches the tool (LO 617) is recorded
  as a mergeable step but is missing from the progress denominator.
* **`span_overshoot`.** The last generation may cross the end of the buffer; the
  output is cut there, its span is not (LO 275).

`keep_one` and `extended_target` need settings other than the shipped ones (limit two,
targets that are left alone or extended along the schedule).


## 10. What is not modelled

* Of checkpointing: `--resume-mode disable` on a non-empty directory, which only refuses, HDFS, asynchronous
  saves, the critic's checkpoints, the full-model branch, export tools; power
  failures (nothing is fsynced, so a write that returned may be lost).
* Of the loop: images and videos, log-probs, metrics, `turn_scores`, the gpt-oss template,
  deployments without an interaction, the PRM-Lite process score. Calls beyond
  `max_parallel_calls` are dropped by the code and only enter a metric. The prompt is
  assumed to fit its length limit.
* Of the runner: the log monitor it starts, the parsing of the matrix, `--list`, models named
  by a hub identifier, a configuration that changes between the reading of the model path and
  its hash, a data builder that leaves one of the two files. Two batches on one directory at a time (section 5). That a
  batch ends is not stated: it does if its training processes do.
* Of the estimators: the fixed variants `grpo_progpo_lata` and `grpo_salt_progpo_lata`
  (the same helpers in other combinations), metrics, floating-point rounding, veRL's own estimators.
* The larger part of the repository: it holds two copies of veRL (of which the changes
  made for this project are what is modelled) and the older tau-bench with its task data, which
  training does not use; tau2-bench, which it does, is not in the repository.
* The remaining components of section 1, for the reasons given in `PROJECT.json`.
