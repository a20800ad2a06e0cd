-------------------------- MODULE AblationRunnerInv --------------------------
(***************************************************************************)
(* The inductive invariant of AblationRunner, in named parts: who holds an *)
(* experiment, what a cached hash may stand for, what an identity under    *)
(* construction may be compared with, and how far a batch has come.        *)
(***************************************************************************)
EXTENDS AblationRunner

Selected(r) == Elems(args[r].select)
Pending(r) == Elems(todo[r])
Kept(r) == Elems(kept[r])

AtExperiment ==
    {"hash", "files", "dataset", "check", "rename", "launch", "wait"}

OnceOnly(q) == \A i, j \in 1..Len(q) : q[i] = q[j] => i = j

\* What each point of a batch says of the lists, the stage and the manifest.
Shape == \A r \in Runners :
    /\ ~Active(r) => stage[r] = "plan" /\ todo[r] = <<>> /\ kept[r] = <<>>
    /\ pc[r] \in AtExperiment => todo[r] # <<>>
    /\ pc[r] \in {"plan", "data", "rename"} => stage[r] = "plan"
    /\ pc[r] = "rename" => ~Dry(r)
    /\ pc[r] \in {"launch", "wait"} => stage[r] = "launch"
    /\ stage[r] = "launch" => kept[r] = <<>> /\ ~Dry(r)
    /\ Active(r) => Pending(r) \cup Kept(r) \subseteq Selected(r)
    /\ OnceOnly(todo[r]) /\ OnceOnly(kept[r]) /\ Pending(r) \cap Kept(r) = {}

\* No two runners, and no process left by a killed one, are on an experiment.
Exclusive ==
    /\ \A r, q \in Runners :
          Active(r) /\ Active(q) /\ r # q => Selected(r) \cap Selected(q) = {}
    /\ \A r \in Runners : Active(r) =>
          \A e \in Selected(r) : Alive(e) => pc[r] = "wait" /\ e = Current(r)

\* The identity under construction and the manifest it is written to or was
\* compared with; the directory of a manifest not yet there is untouched.
Identified ==
    /\ \A r \in Runners :
          /\ pc[r] \in {"dataset", "check", "rename", "launch"} =>
                ident[r].request = args[r].request
          /\ pc[r] = "rename" => manifest[Current(r)] = NoIdentity
          /\ pc[r] = "launch" => manifest[Current(r)] = ident[r]
    /\ \A l \in launched :
          manifest[l.experiment] = l.identity /\ l.identity # NoIdentity
    /\ ManifestPrecedesArtifacts

\* A hash, cached or just taken, stands for the model it was taken of, and
\* while the metadata is what it was the model is, too.
HashesSound ==
    /\ cache.meta <= stamp
    /\ cache.meta = stamp => cache.content = model
    /\ \A r \in Runners :
          /\ hashing[r].meta <= stamp
          /\ hashing[r].meta = stamp => hashing[r].content = model

World(p) == CASE p = "model" -> model [] p = "files" -> files [] p = "data" -> dataset

\* The parts of the launch identity that have been read.
PartsRead(r) ==
    CASE pc[r] = "files" -> {"model"}
      [] pc[r] = "dataset" -> {"model", "files"}
      [] pc[r] \in {"check", "launch"} -> {"model", "files", "data"}
      [] OTHER -> {}

\* From reading a part to the process's start, drift tells whether the part
\* is still what was read.
DriftKnown ==
    /\ \A r \in Runners : stage[r] = "launch" =>
          \A p \in PartsRead(r) :
              p \notin drift[Current(r)] => ident[r][p] = World(p)
    /\ \A e \in Experiments : proc[e] = "forked" =>
          /\ command[e].request = manifest[e].request
          /\ \A p \in {"model", "files", "data"} \ drift[e] :
                manifest[e][p] = World(p)
    /\ TrainedAsRecorded

\* Nothing that was ever read is ahead of the world, as long as no content
\* has come back.
AtMostWorld(id) == id.model <= model /\ id.files <= files /\ id.data <= dataset

BehindWorld == ~undone =>
    /\ \A e \in Experiments : AtMostWorld(manifest[e])
    /\ \A r \in Runners : AtMostWorld(ident[r]) /\ memo[r] <= model

\* Batches are numbered, and only a batch that launches has launched.
Numbered ==
    /\ \A l \in launched : l.batch <= starts
    /\ \A r \in Runners : serial[r] <= starts
    /\ \A r, q \in Runners :
          Active(r) /\ Active(q) /\ serial[r] = serial[q] => r = q
    /\ \A r \in Runners : Active(r) /\ stage[r] = "plan" =>
          \A l \in launched : l.batch # serial[r]

\* An experiment a batch keeps has a manifest that records what was asked for.
Requested == \A r \in Runners :
    /\ (stage[r] = "plan" /\ pc[r] \notin {"idle", "plan"} /\ ~Dry(r)) =>
          \A e \in Kept(r) : manifest[e].request = args[r].request
    /\ stage[r] = "launch" =>
          \A e \in Pending(r) : manifest[e].request = args[r].request

\* In the pass that launches, the manifests still to go are at most what has
\* been read for this launch, and at most, while no content has come back,
\* what the batch has launched before; what is read is at least that.
OneConfiguration ==
    /\ \A r \in Runners : stage[r] = "launch" =>
          /\ \A l \in launched : l.batch = serial[r] =>
                l.identity.request = args[r].request
          /\ ~undone =>
                /\ \A p \in PartsRead(r), e \in Pending(r) :
                      manifest[e][p] <= ident[r][p]
                /\ \A l \in launched : l.batch = serial[r] =>
                      /\ \A p \in PartsRead(r) : l.identity[p] <= ident[r][p]
                      /\ \A e \in Pending(r), p \in {"model", "files", "data"} :
                            manifest[e][p] <= l.identity[p]
    /\ BatchUsesOneConfiguration

\* An experiment that left the lists of a batch without a failure is done.
Done(r, e) ==
    /\ saved[e] >= args[r].target
    /\ manifest[e].request = args[r].request

Accounted ==
    /\ \A r \in Runners :
          /\ \A e \in Experiments : found[r][e] <= saved[e]
          /\ (Active(r) /\ ~failed[r] /\ ~Dry(r)) =>
                \A e \in Selected(r) \ (Pending(r) \cup Kept(r)) : Done(r, e)
          /\ pc[r] = "wait" =>
                /\ proc[Current(r)] # "none" /\ manifest[Current(r)] # NoIdentity
                /\ Alive(Current(r)) => command[Current(r)].target = args[r].target
                /\ proc[Current(r)] = "succeeded" =>
                      saved[Current(r)] >= args[r].target

\* Saving begins with an entry in checkpoints/; a process that is to start
\* over finds nothing saved.
Fresh ==
    /\ \A e \in Experiments :
          /\ saved[e] > 0 => begun[e]
          /\ proc[e] # "running" => at[e] = 0 /\ from[e] = 0
          /\ proc[e] = "forked" /\ command[e].mode = "disable" => saved[e] = 0
    /\ \A r \in Runners : Active(r) /\ args[r].mode = "disable" =>
          \A e \in Kept(r) \cup IF pc[r] = "plan" THEN {} ELSE Pending(r) :
              begun[e] => pc[r] = "wait" /\ e = Current(r)

IInv ==
    /\ TypeOK /\ Shape /\ Exclusive /\ Identified /\ HashesSound /\ DriftKnown
    /\ BehindWorld /\ Numbered /\ Requested /\ OneConfiguration /\ Accounted /\ Fresh

=============================================================================
