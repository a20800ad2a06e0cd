--------------------------- MODULE AblationRunner ---------------------------
(***************************************************************************)
(* run_ablation_matrix.py: one or several runners that each take a batch   *)
(* of experiments through planning, the shared data set, the validation or *)
(* creation of every run manifest, a second validation right before each   *)
(* launch, and the training processes themselves, while the model, the     *)
(* configuration and the data may change under them and while a runner may *)
(* be interrupted or killed.                                               *)
(*                                                                         *)
(* Contents are versions: a change makes a later one or, when it is        *)
(* undone, an earlier one again, and equal versions are equal contents.    *)
(* What a training process leaves on disk is reduced to the step its       *)
(* tracker names; CheckpointedTraining has the files behind it, and both   *)
(* meet in ResumableTraining.                                              *)
(***************************************************************************)
EXTENDS Integers, Sequences, FiniteSets

CONSTANTS
    Experiments,  \* directories of the matrix
    Runners,
    Requests,     \* switches and --model-path: what a command line fixes
    NoRequest,    \* in an identity that holds none yet
    Invocations,  \* the command lines somebody may type
    MaxEdits,     \* bound on changes of the world
    MaxStarts     \* bound on started runners

Elems(q) == {q[i] : i \in 1..Len(q)}

Invocation ==
    [select: Seq(Experiments), target: Nat \ {0}, request: Requests,
     mode: {"auto", "disable"}, data: {"reuse", "skip", "rebuild"},
     dry: BOOLEAN, proceed: BOOLEAN]

ASSUME InvocationsAssumption ==
    /\ Invocations # {}
    /\ Invocations \subseteq Invocation
    /\ \A inv \in Invocations : inv.select # <<>>
    /\ \A inv \in Invocations : \A i, j \in 1..Len(inv.select) :
           inv.select[i] = inv.select[j] => i = j

ASSUME RequestsAssumption == NoRequest \notin Requests

ASSUME BoundsAssumption == MaxEdits \in Nat /\ MaxStarts \in Nat

\* Stands for the command line of a runner that has none.
SomeInvocation == CHOOSE inv \in Invocations : TRUE

Absent == 0          \* of a version: no such file, not read
Parts == {"request", "model", "files", "data"}
Identity == [request: Requests \cup {NoRequest}, model: Nat, files: Nat, data: Nat]
NoIdentity ==
    [request |-> NoRequest, model |-> Absent, files |-> Absent, data |-> Absent]

VARIABLES
    \* the world
    model,     \* content of the local model directory
    stamp,     \* its sizes, times and inodes: _model_content_metadata
    files,     \* configuration, tool, interaction, implementation, tau2
    dataset,   \* the two parquet files
    edits,
    \* experiments/ablations and experiments/.identity_cache
    manifest,  \* run_manifest.json of each experiment
    temp,      \* has it a temporary manifest?
    logs,      \* has it logs/?
    begun,     \* has checkpoints/ an entry?
    saved,     \* the step its tracker names
    cache,     \* the persistent model hash cache
    \* each runner
    pc, stage,
    args,      \* its command line
    todo,      \* experiments still to go in this pass over the batch
    kept,      \* those this pass has accepted so far
    found,     \* plan.latest_step
    available, \* datasets_available
    ident,     \* the identity under construction
    hashing,   \* metadata and content of a hash in progress
    memo,      \* shared_model_identity_cache
    failed,    \* failures > 0
    rc,        \* 0, or 1 for any other status the last batch ended with
    \* each experiment's training process
    proc, command, at, from, input,
    \* observation only
    starts,    \* batches started so far
    serial,    \* the number of the runner's batch
    drift,     \* parts changed since the launch identity read them
    launched,  \* every launch there has been
    undone     \* has a content ever come back?

worldVars  == <<model, stamp, files, dataset, edits>>
disk       == <<manifest, temp, logs, begun, saved, cache>>
batchVars  == <<args, failed, available, serial>>
identVars  == <<ident, hashing, memo>>
control    == <<pc, stage, todo, kept, found, rc>>
runnerVars == <<control, batchVars, identVars>>
childVars  == <<proc, command, at, from, input>>
ghosts     == <<starts, drift, launched, undone>>
vars       == <<worldVars, disk, runnerVars, childVars, ghosts>>

Init ==
    /\ model = 1 /\ stamp = 1 /\ files = 1 /\ edits = 0
    /\ dataset \in {Absent, 1}
    /\ manifest = [e \in Experiments |-> NoIdentity]
    /\ temp = [e \in Experiments |-> FALSE]
    /\ logs = [e \in Experiments |-> FALSE]
    /\ begun = [e \in Experiments |-> FALSE]
    /\ saved = [e \in Experiments |-> 0]
    /\ cache = [meta |-> Absent, content |-> Absent]
    /\ pc = [r \in Runners |-> "idle"]
    /\ stage = [r \in Runners |-> "plan"]
    /\ args = [r \in Runners |-> SomeInvocation]
    /\ todo = [r \in Runners |-> <<>>]
    /\ kept = [r \in Runners |-> <<>>]
    /\ found = [r \in Runners |-> [e \in Experiments |-> 0]]
    /\ available = [r \in Runners |-> FALSE]
    /\ ident = [r \in Runners |-> NoIdentity]
    /\ hashing = [r \in Runners |-> [meta |-> Absent, content |-> Absent]]
    /\ memo = [r \in Runners |-> Absent]
    /\ failed = [r \in Runners |-> FALSE]
    /\ rc = [r \in Runners |-> 0]
    /\ proc = [e \in Experiments |-> "none"]
    /\ command = [e \in Experiments |-> SomeInvocation]
    /\ at = [e \in Experiments |-> 0]
    /\ from = [e \in Experiments |-> 0]
    /\ input = [e \in Experiments |-> NoIdentity]
    /\ starts = 0
    /\ serial = [r \in Runners |-> 0]
    /\ drift = [e \in Experiments |-> {}]
    /\ launched = {}
    /\ undone = FALSE

Alive(e) == proc[e] \in {"forked", "running"}
Active(r) == pc[r] # "idle"
Current(r) == Head(todo[r])

\* What _run_dir_has_artifacts finds beside the manifest.
Artifacts(e) == temp[e] \/ logs[e] \/ begun[e]

(***************************************************************************)
(* The world.  Every change of the model directory changes its metadata;   *)
(* copying the same content over it changes nothing else.                  *)
(***************************************************************************)

\* The experiments a launch is under way for, up to the process's start.
Launching ==
    {e \in Experiments : proc[e] = "forked"}
    \cup {Current(r) : r \in {q \in Runners : /\ Active(q) /\ todo[q] # <<>>
                                           /\ stage[q] = "launch"
                                           /\ pc[q] # "wait"}}

Drifted(p) ==
    drift' = [e \in Experiments |->
                IF e \in Launching THEN drift[e] \cup {p} ELSE drift[e]]

\* The versions a content may change to.
Other(v) == {w \in {v - 1, v + 1} : w > Absent}

EditModel ==
    /\ model' \in Other(model)
    /\ stamp' = stamp + 1
    /\ undone' = (undone \/ model' < model)
    /\ Drifted("model")
    /\ UNCHANGED <<files, dataset>>

RecopyModel ==
    /\ stamp' = stamp + 1
    /\ UNCHANGED <<model, files, dataset, drift, undone>>

EditFiles ==
    /\ files' \in Other(files)
    /\ undone' = (undone \/ files' < files)
    /\ Drifted("files")
    /\ UNCHANGED <<model, stamp, dataset>>

EditDataset ==
    /\ dataset # Absent
    /\ dataset' \in Other(dataset)
    /\ undone' = (undone \/ dataset' < dataset)
    /\ Drifted("data")
    /\ UNCHANGED <<model, stamp, files>>

Edit ==
    /\ edits < MaxEdits
    /\ edits' = edits + 1
    /\ EditModel \/ RecopyModel \/ EditFiles \/ EditDataset
    /\ UNCHANGED <<disk, runnerVars, childVars, starts, launched>>

(***************************************************************************)
(* The course of a batch.                                                  *)
(***************************************************************************)

\* execute returns, or the process is gone, with nothing left in memory.
Ends(r, code) ==
    /\ pc' = [pc EXCEPT ![r] = "idle"]
    /\ rc' = [rc EXCEPT ![r] = code]
    /\ stage' = [stage EXCEPT ![r] = "plan"]
    /\ args' = [args EXCEPT ![r] = SomeInvocation]
    /\ todo' = [todo EXCEPT ![r] = <<>>]
    /\ kept' = [kept EXCEPT ![r] = <<>>]
    /\ found' = [found EXCEPT ![r] = [e \in Experiments |-> 0]]
    /\ available' = [available EXCEPT ![r] = FALSE]
    /\ ident' = [ident EXCEPT ![r] = NoIdentity]
    /\ hashing' = [hashing EXCEPT ![r] = [meta |-> Absent, content |-> Absent]]
    /\ memo' = [memo EXCEPT ![r] = Absent]
    /\ failed' = [failed EXCEPT ![r] = FALSE]
    /\ serial' = [serial EXCEPT ![r] = 0]

\* The loop body ends for the experiment at hand, which goes on or does not.
Advance(r, loop, goesOn) ==
    /\ pc' = [pc EXCEPT ![r] = loop]
    /\ todo' = [todo EXCEPT ![r] = Tail(@)]
    /\ kept' = [kept EXCEPT ![r] =
                   IF goesOn THEN Append(@, Current(r)) ELSE @]

\* Mutant: a failure the batch survives is not counted.
FailsUncounted(r, loop) ==
    \/ /\ ~args[r].proceed
       /\ Ends(r, 1)
    \/ /\ args[r].proceed
       /\ Advance(r, loop, FALSE)
       /\ UNCHANGED <<stage, found, rc, batchVars, identVars>>

\* A RunnerError about one experiment, or its training exited with a status.
Fails(r, loop) ==
    \/ /\ ~args[r].proceed
       /\ Ends(r, 1)
    \/ /\ args[r].proceed
       /\ Advance(r, loop, FALSE)
       /\ failed' = [failed EXCEPT ![r] = TRUE]
       /\ UNCHANGED <<stage, found, rc, args, available, serial, identVars>>

(***************************************************************************)
(* The operator.  The guide (training_and_ablation_guide.md, 7.3) forbids  *)
(* two processes on one directory: a batch is only started when no other   *)
(* runner and no process left by a killed one is on its experiments.       *)
(***************************************************************************)
Undisturbed(inv) ==
    \A e \in Elems(inv.select) :
        /\ ~Alive(e)
        /\ \A q \in Runners : Active(q) => e \notin Elems(args[q].select)

Start(r) == \E inv \in Invocations :
    /\ ~Active(r)
    /\ starts < MaxStarts
    /\ Undisturbed(inv)
    /\ starts' = starts + 1
    /\ serial' = [serial EXCEPT ![r] = starts + 1]
    /\ rc' = [rc EXCEPT ![r] = 0]
    /\ args' = [args EXCEPT ![r] = inv]
    /\ todo' = [todo EXCEPT ![r] = inv.select]
    /\ pc' = [pc EXCEPT ![r] = "plan"]
    /\ UNCHANGED <<worldVars, disk, stage, kept, found, failed, available,
                   identVars, childVars, drift, launched, undone>>

\* Mutant: --resume-mode disable takes a directory as it finds it.
PlannableOverRemains(r, e) ==
    args[r].mode = "disable" \/ (begun[e] => saved[e] > 0)

(***************************************************************************)
(* plan_experiment.  A directory with an entry and no tracker is an error  *)
(* in either mode.                                                         *)
(***************************************************************************)
Plannable(r, e) ==
    IF args[r].mode = "disable" THEN ~begun[e] ELSE begun[e] => saved[e] > 0

Plan(r) ==
    /\ pc[r] = "plan"
    /\ todo[r] # <<>>
    /\ LET e == Current(r) IN
       \/ /\ Plannable(r, e)
          /\ Advance(r, "plan", TRUE)
          /\ found' = [found EXCEPT ![r][e] =
                          IF args[r].mode = "disable" THEN 0 ELSE saved[e]]
          /\ UNCHANGED <<stage, rc, batchVars, identVars>>
       \/ /\ ~Plannable(r, e)
          /\ Fails(r, "plan")
    /\ UNCHANGED <<worldVars, disk, childVars, ghosts>>

Planned(r) ==
    /\ pc[r] = "plan"
    /\ todo[r] = <<>>
    /\ \/ /\ kept[r] = <<>>
          /\ Ends(r, IF failed[r] THEN 1 ELSE 0)
       \/ /\ kept[r] # <<>>
          /\ pc' = [pc EXCEPT ![r] = "data"]
          /\ todo' = [todo EXCEPT ![r] = kept[r]]
          /\ kept' = [kept EXCEPT ![r] = <<>>]
          /\ UNCHANGED <<stage, found, rc, batchVars, identVars>>
    /\ UNCHANGED <<worldVars, disk, childVars, ghosts>>

(***************************************************************************)
(* _prepare_shared_data.                                                   *)
(***************************************************************************)
Builds(r) ==
    args[r].data = "rebuild" \/ (args[r].data = "reuse" /\ dataset = Absent)

DataReady(r, yes) ==
    /\ pc' = [pc EXCEPT ![r] = "model"]
    /\ available' = [available EXCEPT ![r] = yes]
    /\ UNCHANGED <<stage, todo, kept, found, rc, args, failed, serial, identVars>>

UseData(r) ==
    /\ pc[r] = "data"
    /\ ~Builds(r)
    /\ \/ dataset # Absent /\ DataReady(r, TRUE)
       \/ dataset = Absent /\ args[r].dry /\ DataReady(r, FALSE)
       \/ dataset = Absent /\ ~args[r].dry /\ Ends(r, 1)
    /\ UNCHANGED <<worldVars, disk, childVars, ghosts>>

AnnounceBuild(r) ==
    /\ pc[r] = "data"
    /\ Builds(r)
    /\ args[r].dry
    /\ DataReady(r, FALSE)
    /\ UNCHANGED <<worldVars, disk, childVars, ghosts>>

\* The builder writes the same content again or another; a failing one may
\* have rewritten existing files.
BuildData(r) ==
    /\ pc[r] = "data"
    /\ Builds(r)
    /\ ~args[r].dry
    /\ \/ /\ dataset' \in ({dataset} \cup Other(dataset)) \ {Absent}
          /\ DataReady(r, TRUE)
       \/ /\ dataset' \in IF dataset = Absent THEN {Absent}
                          ELSE {dataset} \cup Other(dataset)
          /\ Ends(r, 1)
    /\ undone' = (undone \/ dataset' < dataset)
    /\ IF dataset' = dataset THEN UNCHANGED drift ELSE Drifted("data")
    /\ UNCHANGED <<model, stamp, files, edits, disk, childVars, starts, launched>>

(***************************************************************************)
(* build_current_plan_identity, part by part.  The pass that plans shares  *)
(* one model identity in memory between experiments; a launch asks the     *)
(* persistent cache, which answers for unchanged metadata only.            *)
(***************************************************************************)
Dry(r) == args[r].dry
Read(r, p) ==
    drift' = IF stage[r] = "launch"
             THEN [drift EXCEPT ![Current(r)] = @ \ {p}] ELSE drift

\* Mutant: the launch, too, takes the identity the batch shares in memory.
SharedModel(r) ==
    IF memo[r] # Absent THEN memo[r]
    ELSE IF cache.meta = stamp THEN cache.content ELSE Absent

\* What is known of the model without hashing it, Absent when nothing is.
KnownModel(r) ==
    IF stage[r] = "plan" /\ memo[r] # Absent THEN memo[r]
    ELSE IF cache.meta = stamp THEN cache.content ELSE Absent

HasModel(r, content) ==
    /\ ident' = [ident EXCEPT ![r] = [NoIdentity EXCEPT !.model = content]]
    /\ memo' = [memo EXCEPT ![r] = IF stage[r] = "plan" THEN content ELSE @]
    /\ pc' = [pc EXCEPT ![r] = "files"]

ReadModel(r) ==
    /\ pc[r] = "model"
    /\ todo[r] # <<>>
    /\ \/ /\ KnownModel(r) # Absent
          /\ HasModel(r, KnownModel(r))
          /\ UNCHANGED hashing
       \/ /\ KnownModel(r) = Absent
          /\ hashing' = [hashing EXCEPT ![r] = [meta |-> stamp, content |-> model]]
          /\ pc' = [pc EXCEPT ![r] = "hash"]
          /\ UNCHANGED <<ident, memo>>
    /\ Read(r, "model")
    /\ UNCHANGED <<worldVars, disk, stage, todo, kept, found, rc, batchVars,
                   childVars, starts, launched, undone>>

\* Mutant: a dry run fills the cache as well.
AlwaysStored(r) == hashing[r]

\* The cache a finished hash leaves.
Stored(r) == IF Dry(r) THEN cache ELSE hashing[r]

\* Mutant: the metadata is read once, when the hash is taken.
HashThenStat(r) ==
    /\ pc[r] = "hash"
    /\ HasModel(r, hashing[r].content)
    /\ cache' = IF Dry(r) THEN cache
                ELSE [meta |-> stamp, content |-> hashing[r].content]
    /\ hashing' = [hashing EXCEPT ![r] = [meta |-> Absent, content |-> Absent]]
    /\ UNCHANGED <<worldVars, manifest, temp, logs, begun, saved, stage, todo, kept,
                   found, rc, batchVars, childVars, ghosts>>

\* The hash is taken: an error if the model changed meanwhile.
HashModel(r) ==
    /\ pc[r] = "hash"
    /\ \/ /\ hashing[r].meta = stamp
          /\ HasModel(r, hashing[r].content)
          /\ cache' = Stored(r)
          /\ hashing' = [hashing EXCEPT ![r] = [meta |-> Absent, content |-> Absent]]
          /\ UNCHANGED <<stage, todo, kept, found, rc, batchVars>>
       \/ /\ hashing[r].meta # stamp
          /\ Fails(r, "model")
          /\ UNCHANGED cache
    /\ UNCHANGED <<worldVars, manifest, temp, logs, begun, saved, childVars, ghosts>>

\* With the data set unavailable, which only a dry run goes on from, the
\* identity is static.
WithData(r) == stage[r] = "launch" \/ available[r]

ReadFiles(r) ==
    /\ pc[r] = "files"
    /\ ident' = [ident EXCEPT ![r].files = files, ![r].request = args[r].request]
    /\ pc' = [pc EXCEPT ![r] = IF WithData(r) THEN "dataset" ELSE "check"]
    /\ Read(r, "files")
    /\ UNCHANGED <<worldVars, disk, stage, todo, kept, found, rc, batchVars,
                   hashing, memo, childVars, starts, launched, undone>>

ReadDataset(r) ==
    /\ pc[r] = "dataset"
    /\ ident' = [ident EXCEPT ![r].data = dataset]
    /\ pc' = [pc EXCEPT ![r] = "check"]
    /\ Read(r, "data")
    /\ UNCHANGED <<worldVars, disk, stage, todo, kept, found, rc, batchVars,
                   hashing, memo, childVars, starts, launched, undone>>

\* A part cannot be read or is not what it has to be: no model directory, a
\* tau2 checkout that is not at its pinned commit, and so on.
IdentityError(r) ==
    /\ pc[r] \in {"files", "dataset"}
    /\ Fails(r, "model")
    /\ UNCHANGED <<worldVars, disk, childVars, ghosts>>

(***************************************************************************)
(* validate_or_create_manifest.                                            *)
(***************************************************************************)
\* Mutant: the hashes of the configuration files are not compared.
FilesIgnored(id, withData) ==
    [id EXCEPT !.files = Absent, !.data = IF withData THEN @ ELSE Absent]

\* _identity_view: full, or static.
View(id, withData) == IF withData THEN id ELSE [id EXCEPT !.data = Absent]

\* Mutant: only the static fields count.
StaticMatches(r, e) ==
    /\ manifest[e] # NoIdentity
    /\ View(manifest[e], FALSE) = View(ident[r], FALSE)

\* Mutant: a directory without a manifest differs in nothing.
MatchesOrNone(r, e) ==
    \/ manifest[e] = NoIdentity
    \/ View(manifest[e], WithData(r)) = View(ident[r], WithData(r))

Matches(r, e) ==
    /\ manifest[e] # NoIdentity
    /\ View(manifest[e], WithData(r)) = View(ident[r], WithData(r))

\* No manifest is there and none may be made.
Unverifiable(r, e) ==
    stage[r] = "launch" \/ found[r][e] > 0 \/ Artifacts(e)

\* The plan goes into the list of runnable ones unless it is a skip, and
\* before a launch it is the launch's turn.
Accept(r) ==
    IF stage[r] = "launch"
    THEN /\ pc' = [pc EXCEPT ![r] = "launch"]
         /\ UNCHANGED <<todo, kept>>
    ELSE Advance(r, "model", found[r][Current(r)] < args[r].target)

Check(r) ==
    /\ pc[r] = "check"
    /\ LET e == Current(r) IN
       \/ /\ Matches(r, e)
          /\ Accept(r)
          /\ UNCHANGED <<temp, stage, found, rc, batchVars, identVars>>
       \/ /\ manifest[e] # NoIdentity
          /\ ~Matches(r, e)
          /\ Fails(r, "model")
          /\ UNCHANGED temp
       \/ /\ manifest[e] = NoIdentity
          /\ Unverifiable(r, e)
          /\ Fails(r, "model")
          /\ UNCHANGED temp
       \/ /\ manifest[e] = NoIdentity
          /\ ~Unverifiable(r, e)
          /\ Dry(r)
          /\ Accept(r)
          /\ UNCHANGED <<temp, stage, found, rc, batchVars, identVars>>
       \/ /\ manifest[e] = NoIdentity
          /\ ~Unverifiable(r, e)
          /\ ~Dry(r)
          /\ temp' = [temp EXCEPT ![e] = TRUE]
          /\ pc' = [pc EXCEPT ![r] = "rename"]
          /\ UNCHANGED <<stage, todo, kept, found, rc, batchVars, identVars>>
    /\ UNCHANGED <<worldVars, manifest, logs, begun, saved, cache, childVars, ghosts>>

\* The end of atomic_write_manifest: os.replace.
Rename(r) ==
    /\ pc[r] = "rename"
    /\ LET e == Current(r) IN
       /\ manifest' = [manifest EXCEPT ![e] = ident[r]]
       /\ temp' = [temp EXCEPT ![e] = FALSE]
    /\ Accept(r)
    /\ UNCHANGED <<worldVars, logs, begun, saved, cache, stage, found, rc,
                   batchVars, identVars, childVars, ghosts>>

\* The pass over the plans is over: a dry run has printed its commands, any
\* other goes through the runnable plans.
Validated(r) ==
    /\ pc[r] = "model"
    /\ stage[r] = "plan"
    /\ todo[r] = <<>>
    /\ \/ /\ Dry(r)
          /\ Ends(r, IF failed[r] THEN 1 ELSE 0)
       \/ /\ ~Dry(r)
          /\ stage' = [stage EXCEPT ![r] = "launch"]
          /\ todo' = [todo EXCEPT ![r] = kept[r]]
          /\ kept' = [kept EXCEPT ![r] = <<>>]
          /\ UNCHANGED <<pc, found, rc, batchVars, identVars>>
    /\ UNCHANGED <<worldVars, disk, childVars, ghosts>>

(***************************************************************************)
(* run_streaming_command: the log directory, the process, its exit status. *)
(***************************************************************************)
Launch(r) ==
    /\ pc[r] = "launch"
    /\ LET e == Current(r) IN
       /\ logs' = [logs EXCEPT ![e] = TRUE]
       /\ \/ /\ proc' = [proc EXCEPT ![e] = "forked"]
             /\ command' = [command EXCEPT ![e] = args[r]]
             /\ launched' = launched \cup
                  {[experiment |-> e, batch |-> serial[r], identity |-> ident[r]]}
             /\ pc' = [pc EXCEPT ![r] = "wait"]
             /\ UNCHANGED <<stage, todo, kept, found, rc, batchVars, identVars>>
          \/ /\ Fails(r, "model")    \* Popen raises OSError: status 127
             /\ UNCHANGED <<proc, command, launched>>
    /\ UNCHANGED <<worldVars, manifest, temp, begun, saved, cache, at, from,
                   input, starts, drift, undone>>

Reap(r) ==
    /\ pc[r] = "wait"
    /\ LET e == Current(r) IN
       /\ ~Alive(e)
       /\ proc' = [proc EXCEPT ![e] = "none"]
       /\ \/ /\ proc[e] = "succeeded"
             /\ Advance(r, "model", FALSE)
             /\ UNCHANGED <<stage, found, rc, batchVars, identVars>>
          \/ /\ proc[e] = "failed"
             /\ Fails(r, "model")
    /\ UNCHANGED <<worldVars, disk, command, at, from, input, ghosts>>

Launched(r) ==
    /\ pc[r] = "model"
    /\ stage[r] = "launch"
    /\ todo[r] = <<>>
    /\ Ends(r, IF failed[r] THEN 1 ELSE 0)
    /\ UNCHANGED <<worldVars, disk, childVars, ghosts>>

(***************************************************************************)
(* Ctrl-C unwinds the runner: its process is terminated and waited for, a  *)
(* temporary manifest is unlinked.  A kill does neither.                   *)
(***************************************************************************)
NotRunning(e) ==
    /\ proc' = [proc EXCEPT ![e] = "none"]
    /\ at' = [at EXCEPT ![e] = 0]
    /\ from' = [from EXCEPT ![e] = 0]
    /\ input' = [input EXCEPT ![e] = NoIdentity]
    /\ drift' = [drift EXCEPT ![e] = {}]
    /\ command' = [command EXCEPT ![e] = SomeInvocation]

Interrupt(r) ==
    /\ Active(r)
    /\ Ends(r, 1)
    /\ IF pc[r] = "wait" THEN NotRunning(Current(r)) ELSE UNCHANGED <<childVars, drift>>
    /\ temp' = IF pc[r] = "rename" THEN [temp EXCEPT ![Current(r)] = FALSE] ELSE temp
    /\ UNCHANGED <<worldVars, manifest, logs, begun, saved, cache, starts, launched, undone>>

Kill(r) ==
    /\ Active(r)
    /\ Ends(r, 1)
    /\ UNCHANGED <<worldVars, disk, childVars, ghosts>>

\* Mutant: a process resumes from the step before the one it loaded.
LoadBehind(e) ==
    /\ proc[e] = "forked"
    /\ proc' = [proc EXCEPT ![e] = "running"]
    /\ input' = [input EXCEPT ![e] =
                   [request |-> command[e].request, model |-> model,
                    files |-> files, data |-> dataset]]
    /\ at' = [at EXCEPT ![e] = saved[e] - 1]
    /\ from' = [from EXCEPT ![e] = saved[e]]
    /\ UNCHANGED <<worldVars, disk, runnerVars, command, ghosts>>

(***************************************************************************)
(* The training process, as far as the runner sees it.  What it reads of   *)
(* the world it reads when it starts; the rest is on its command line.     *)
(***************************************************************************)
Load(e) ==
    /\ proc[e] = "forked"
    /\ proc' = [proc EXCEPT ![e] = "running"]
    /\ input' = [input EXCEPT ![e] =
                   [request |-> command[e].request, model |-> model,
                    files |-> files, data |-> dataset]]
    /\ at' = [at EXCEPT ![e] = IF command[e].mode = "auto" THEN saved[e] ELSE 0]
    /\ from' = [from EXCEPT ![e] = at'[e]]
    /\ UNCHANGED <<worldVars, disk, runnerVars, command, ghosts>>

Train(e) ==
    /\ proc[e] = "running"
    /\ at[e] < command[e].target
    /\ at' = [at EXCEPT ![e] = @ + 1]
    /\ UNCHANGED <<worldVars, disk, runnerVars, proc, command, from, input, ghosts>>

\* A save begins with a directory and ends with the tracker.
BeginSave(e) ==
    /\ proc[e] = "running"
    /\ at[e] > saved[e]
    /\ ~begun[e]
    /\ begun' = [begun EXCEPT ![e] = TRUE]
    /\ UNCHANGED <<worldVars, manifest, temp, logs, saved, cache, runnerVars,
                   childVars, ghosts>>

EndSave(e) ==
    /\ proc[e] = "running"
    /\ at[e] > saved[e]
    /\ begun[e]
    /\ saved' = [saved EXCEPT ![e] = at[e]]
    /\ UNCHANGED <<worldVars, manifest, temp, logs, begun, cache, runnerVars,
                   childVars, ghosts>>

\* The process has finished its last step and save, or dies anywhere.
Exit(e, status) ==
    /\ proc' = [proc EXCEPT ![e] = status]
    /\ at' = [at EXCEPT ![e] = 0]
    /\ from' = [from EXCEPT ![e] = 0]
    /\ input' = [input EXCEPT ![e] = NoIdentity]
    /\ drift' = [drift EXCEPT ![e] = {}]
    /\ command' = [command EXCEPT ![e] = SomeInvocation]
    /\ UNCHANGED <<worldVars, disk, runnerVars, starts, launched, undone>>

Succeed(e) ==
    /\ proc[e] = "running"
    /\ at[e] >= command[e].target
    /\ saved[e] = at[e]
    /\ Exit(e, "succeeded")

Die(e) == Alive(e) /\ Exit(e, "failed")

RunnerStep(r) ==
    \/ Plan(r) \/ Planned(r)
    \/ UseData(r) \/ AnnounceBuild(r) \/ BuildData(r)
    \/ ReadModel(r) \/ HashModel(r) \/ ReadFiles(r) \/ ReadDataset(r)
    \/ IdentityError(r) \/ Check(r) \/ Rename(r) \/ Validated(r)
    \/ Launch(r) \/ Reap(r) \/ Launched(r)

TrainingStep(e) ==
    Load(e) \/ Train(e) \/ BeginSave(e) \/ EndSave(e) \/ Succeed(e)

Next ==
    \/ Edit
    \/ \E r \in Runners : Start(r) \/ RunnerStep(r) \/ Interrupt(r) \/ Kill(r)
    \/ \E e \in Experiments : TrainingStep(e) \/ Die(e)

Spec == Init /\ [][Next]_vars

-----------------------------------------------------------------------------
(***************************************************************************)
(* Properties.                                                             *)
(***************************************************************************)
HashState == [meta: Nat, content: Nat]

TypeOK ==
    /\ model \in Nat \ {0} /\ stamp \in Nat \ {0} /\ files \in Nat \ {0}
    /\ dataset \in Nat /\ edits \in Nat
    /\ manifest \in [Experiments -> Identity]
    /\ temp \in [Experiments -> BOOLEAN]
    /\ logs \in [Experiments -> BOOLEAN]
    /\ begun \in [Experiments -> BOOLEAN]
    /\ saved \in [Experiments -> Nat]
    /\ cache \in HashState
    /\ pc \in [Runners -> {"idle", "plan", "data", "model", "hash", "files",
                           "dataset", "check", "rename", "launch", "wait"}]
    /\ stage \in [Runners -> {"plan", "launch"}]
    /\ args \in [Runners -> Invocations]
    /\ todo \in [Runners -> Seq(Experiments)]
    /\ kept \in [Runners -> Seq(Experiments)]
    /\ found \in [Runners -> [Experiments -> Nat]]
    /\ available \in [Runners -> BOOLEAN]
    /\ ident \in [Runners -> Identity]
    /\ hashing \in [Runners -> HashState]
    /\ memo \in [Runners -> Nat]
    /\ failed \in [Runners -> BOOLEAN]
    /\ rc \in [Runners -> {0, 1}]
    /\ proc \in [Experiments -> {"none", "forked", "running", "succeeded", "failed"}]
    /\ command \in [Experiments -> Invocations]
    /\ at \in [Experiments -> Nat]
    /\ from \in [Experiments -> Nat]
    /\ input \in [Experiments -> Identity]
    /\ starts \in Nat
    /\ serial \in [Runners -> Nat]
    /\ drift \in [Experiments -> SUBSET Parts]
    /\ launched \subseteq [experiment: Experiments, batch: Nat, identity: Identity]
    /\ undone \in BOOLEAN

\* Whatever was changed, undone by hand or resumed in between, everything
\* ever trained in one directory was launched under one identity: no actor
\* or optimizer state is continued with another model, configuration or
\* data set (validate_or_create_manifest, RA 1166).
OneIdentityPerDirectory ==
    \A k, l \in launched :
        k.experiment = l.experiment => k.identity = l.identity

\* The experiments one batch trains are comparable: all of them are launched
\* under the same model, configuration and data, although identities are
\* built one after another, hours apart, and each is compared with the
\* manifest of its own directory only (execute, RA 1639).  It takes a change
\* and its undoing between two launches to get around that.
BatchUsesOneConfiguration ==
    \A k, l \in launched :
        k.batch = l.batch /\ ~undone => k.identity = l.identity

\* A training process has read what its manifest records, but for the parts
\* changed after the launch identity read them (RA 1763): a cached model
\* hash, a shared one, or a hash taken during a change never stands for
\* another content.
TrainedAsRecorded ==
    \A e \in Experiments : proc[e] = "running" =>
        \A p \in Parts \ drift[e] : input[e][p] = manifest[e][p]

\* Whatever a training process has produced has a manifest beside it, so
\* that the refusal of a directory without one (RA 1204) never meets the
\* runner's own work, a temporary file of a killed one aside.
ManifestPrecedesArtifacts ==
    \A e \in Experiments :
        logs[e] \/ begun[e] \/ saved[e] > 0 \/ Alive(e) => manifest[e] # NoIdentity

\* A batch that returns 0 leaves every selected experiment at its target and
\* recorded under the switches and model that were asked for, whatever was
\* skipped, resumed or taken over from an earlier batch (RA 1834).
SuccessMeansComplete ==
    [][\A r \in Runners :
          (Active(r) /\ pc'[r] = "idle" /\ rc'[r] = 0 /\ ~Dry(r)) =>
              \A e \in Elems(args[r].select) :
                  /\ saved'[e] >= args[r].target
                  /\ manifest'[e].request = args[r].request]_vars

\* "--dry-run: print the exact plan and commands without creating or
\* changing files": also not the model hash cache, a manifest or the data.
DryRunTouchesNothing ==
    [][\A r \in Runners :
          (Active(r) /\ Dry(r) /\ (pc'[r] # pc[r] \/ todo'[r] # todo[r])) =>
              UNCHANGED <<disk, dataset>>]_vars

\* For each experiment, batches, kills and resumptions in either mode keep
\* the promise of the checkpoint store: a process starts from the tracked
\* step or does not start, and the tracked step only moves forward.
Experiment(e) ==
    INSTANCE ResumableTraining WITH
        durable <- [step |-> saved[e], save |-> saved[e]],
        running <- proc[e] = "running", at <- at[e], from <- from[e]

ExperimentsAreResumable ==
    /\ \A e \in Experiments : Experiment(e)!Init
    /\ [][\A e \in Experiments :
            Experiment(e)!Next \/ UNCHANGED Experiment(e)!vars]_vars

=============================================================================
