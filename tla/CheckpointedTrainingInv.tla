---------------------- MODULE CheckpointedTrainingInv ----------------------
(***************************************************************************)
(* The inductive invariant behind the safety of CheckpointedTraining, for  *)
(* runs whose saves all fall on one schedule.                              *)
(***************************************************************************)
EXTENDS CheckpointedTraining

\* The saves every launch of this run agrees on.
Scheduled(s) == s % SaveFreq = 0 \/ s \in Targets

(***************************************************************************)
(* What the operator has to respect: not a limit of one checkpoint, no     *)
(* deadline-driven saves, and either one target or targets that are all    *)
(* multiples of the save frequency.                                        *)
(***************************************************************************)
OneSchedule ==
    /\ KeepMax # 1
    /\ EsiSaves = FALSE
    /\ \A t, u \in Targets : t = u \/ (t % SaveFreq = 0 /\ u % SaveFreq = 0)

\* Between P (exclusive) and s (inclusive) nothing was due.
NothingDue(s) == \A m \in Steps : m > published.step /\ m <= s => ~Scheduled(m)

Late == {"shards", "register", "trim", "weights", "config", "marker", "data",
         "truncate", "track"}

\* The tracker against the latest snapshot it was completed with.
PointerInv ==
    /\ tracker > 0 => tracker = published.step
    /\ tracker = NoTracker => published.step = 0
    /\ (tracker = EmptyTracker /\ Running) => proc = "track"
    /\ published.step = 0 => published.save = 0
    /\ published.save <= save
    /\ published.step > 0 => published.save > 0

\* Everything in checkpoint n was written by save v.
Whole(n, v) ==
    /\ n \in folder
    /\ n \in actor
    /\ \A f \in ActorFiles : file[n][f] = v
    /\ \A f \in HashedFiles : marker[n][f] = v
    /\ data[n].save = v

WholeInv == published.step > 0 => Whole(published.step, published.save)

\* A directory beyond the published step can only be that of the next save.
BeyondInv ==
    \A n \in actor : n > published.step => Scheduled(n) /\ NothingDue(n - 1)

\* Where the process stands on the schedule.
ScheduleInv ==
    /\ Running => target \in Targets /\ step <= target /\ published.step <= step
    /\ proc = "train" => NothingDue(step)
    /\ proc \in Saving => /\ step > published.step
                          /\ Scheduled(step)
                          /\ NothingDue(step - 1)
    /\ proc \in Saving \ {"rotate"} => published.save < save

Ascending(q) == \A i, j \in 1..Len(q) : i < j => q[i] < q[j]

EndsWith(q, n) == Len(q) > 0 /\ q[Len(q)] = n

\* The rotation's list of old checkpoints ends with the published one, which
\* is therefore never among those queued for removal.
HistoryInv ==
    /\ Ascending(history)
    /\ proc \in {"train", "rotate"} /\ history # <<>> =>
          published.step > 0 /\ EndsWith(history, published.step)
    /\ proc \in {"evict", "shards", "register"} =>
          /\ published.step > 0 => EndsWith(history, published.step)
          /\ published.step = 0 => history = <<>>
          /\ KeepMax > 0 => Len(history) < KeepMax
    /\ proc \in {"trim", "weights", "config", "marker", "data", "truncate", "track"} =>
          EndsWith(history, step)
    /\ proc = "evict" => \A i \in 1..Len(doomed) : doomed[i] < published.step
    /\ proc # "evict" => doomed = <<>>

\* The files this save has completed.
Written ==
    CASE proc = "shards" -> (Shards \cup {Fsdp}) \ unwritten
      [] proc \in {"register", "trim", "weights"} -> Shards \cup {Fsdp}
      [] proc = "config" -> Shards \cup {Fsdp, Weights}
      [] proc \in {"marker", "data", "truncate", "track"} -> ActorFiles
      [] OTHER -> {}

ProgressInv ==
    /\ proc \in Late => step \in folder /\ step \in actor
    /\ \A f \in Written : file[step][f] = save
    /\ proc \in {"data", "truncate", "track"} => \A f \in HashedFiles : marker[step][f] = save
    /\ proc \in {"truncate", "track"} => data[step].save = save

\* A process that is gone left nothing in memory.
RestInv == ~Running => step = 0 /\ history = <<>> /\ loaded = FreshState

\* The position in the data agrees with the step count, in memory and in
\* every data.pt a launch would restore; this needs no schedule.
LoaderInv ==
    /\ step = epoch * BatchesPerEpoch + consumed
    /\ \A n \in Steps :
          data[n].save \notin {Missing, Torn} /\ ~EpochBoundary(n) =>
             data[n].consumed = n % BatchesPerEpoch

Entries(q) == {q[i] : i \in 1..Len(q)}

\* A process is at or past the published step, and past it in a save.
PositionInv ==
    /\ tracker > 0 => tracker = published.step
    /\ tracker = NoTracker => published.step = 0
    /\ Running => published.step <= step
    /\ proc \in Saving => published.step < step

\* While no removal fails half way, the rotation's list knows of every actor
\* directory but the one being filled; a process that has saved nothing yet
\* will look.
ListInv ==
    /\ proc = "down" => history = <<>>
    /\ proc = "train" /\ history # <<>> => actor \subseteq Entries(history)
    /\ proc = "rotate" /\ history # <<>> => actor \subseteq Entries(history) \cup {step}
    /\ proc = "evict" => /\ actor \subseteq Entries(history) \cup Entries(doomed) \cup {step}
                         /\ Len(history) < KeepMax
    /\ proc \in {"shards", "register"} => /\ actor \subseteq Entries(history) \cup {step}
                                          /\ Len(history) < KeepMax
    /\ proc \in {"trim", "weights", "config", "marker", "data", "truncate", "track"} =>
          actor \subseteq Entries(history) /\ Len(history) <= KeepMax
    /\ proc # "evict" => doomed = <<>>

\* The list is short enough when a step is published; a single rank makes room
\* before it makes its directory.
CountInv ==
    /\ Cardinality(PublishedActors) <= KeepMax
    /\ WorldSize = 1 => Cardinality(actor) <= KeepMax

RetentionInv ==
    /\ PositionInv
    /\ ListInv
    /\ CountInv

IInv ==
    /\ TypeOK
    /\ PointerInv
    /\ WholeInv
    /\ BeyondInv
    /\ ScheduleInv
    /\ HistoryInv
    /\ ProgressInv
    /\ RestInv

=============================================================================
