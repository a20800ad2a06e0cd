------------------------- MODULE AblationRunnerProofs -------------------------
(***************************************************************************)
(* Machine-checked proofs about AblationRunner, for every set of           *)
(* experiments, runners and command lines, any number of started batches   *)
(* and any number of changes of the world.                                 *)
(***************************************************************************)
EXTENDS AblationRunnerInv, TLAPS

(***************************************************************************)
(* Lemmas about the operators.                                             *)
(***************************************************************************)

\* The head of a list of distinct experiments is one of them and the tail
\* has the others.
LEMMA TailOf ==
  ASSUME NEW S, NEW q \in Seq(S), q # <<>>, OnceOnly(q)
  PROVE  /\ Head(q) \in S
         /\ Head(q) \in Elems(q)
         /\ Tail(q) \in Seq(S)
         /\ OnceOnly(Tail(q))
         /\ Elems(Tail(q)) = Elems(q) \ {Head(q)}
<1>1. Len(q) \in Nat /\ Len(q) >= 1 /\ Head(q) = q[1] /\ Head(q) \in S
  OBVIOUS
<1>2. /\ Tail(q) \in Seq(S) /\ Len(Tail(q)) = Len(q) - 1
      /\ \A i \in 1..Len(Tail(q)) : Tail(q)[i] = q[i + 1]
  BY <1>1
<1>3. Head(q) \in Elems(q)
  BY <1>1 DEF Elems
<1>4. OnceOnly(Tail(q))
  BY <1>1, <1>2 DEF OnceOnly
<1>5. ASSUME NEW x PROVE x \in Elems(Tail(q)) <=> x \in Elems(q) \ {Head(q)}
  <2>1. ASSUME x \in Elems(Tail(q)) PROVE x \in Elems(q) \ {Head(q)}
    <3>1. PICK i \in 1..Len(Tail(q)) : x = Tail(q)[i]
      BY <2>1 DEF Elems
    <3>2. i + 1 \in 1..Len(q) /\ x = q[i + 1] /\ i + 1 # 1 /\ 1 \in 1..Len(q)
      BY <3>1, <1>1, <1>2
    <3>3. q[i + 1] # q[1]
      BY <3>2 DEF OnceOnly
    <3>4. QED
      BY <3>2, <3>3, <1>1 DEF Elems
  <2>2. ASSUME x \in Elems(q) \ {Head(q)} PROVE x \in Elems(Tail(q))
    <3>1. PICK i \in 1..Len(q) : x = q[i] /\ i # 1
      BY <2>2, <1>1 DEF Elems
    <3>2. i - 1 \in 1..Len(Tail(q)) /\ Tail(q)[i - 1] = q[(i - 1) + 1] /\ (i - 1) + 1 = i
      BY <3>1, <1>1, <1>2
    <3>3. QED
      BY <3>1, <3>2 DEF Elems
  <2>3. QED
    BY <2>1, <2>2
<1>6. QED
  BY <1>1, <1>2, <1>3, <1>4, <1>5

\* A list grows by one element.
LEMMA AppendOf ==
  ASSUME NEW S, NEW q \in Seq(S), NEW x \in S, OnceOnly(q), x \notin Elems(q)
  PROVE  /\ Append(q, x) \in Seq(S)
         /\ OnceOnly(Append(q, x))
         /\ Elems(Append(q, x)) = Elems(q) \cup {x}
<1>1. /\ Append(q, x) \in Seq(S) /\ Len(q) \in Nat /\ Len(Append(q, x)) = Len(q) + 1
      /\ \A i \in 1..Len(q) : Append(q, x)[i] = q[i]
      /\ Append(q, x)[Len(q) + 1] = x
  OBVIOUS
<1>2. \A i \in 1..Len(q) : q[i] \in Elems(q)
  BY DEF Elems
<1>3. OnceOnly(Append(q, x))
  BY <1>1, <1>2 DEF OnceOnly
<1>4. Elems(Append(q, x)) = Elems(q) \cup {x}
  BY <1>1 DEF Elems
<1>5. QED
  BY <1>1, <1>3, <1>4

\* The empty list.
LEMMA EmptyOf ==
  \A q : q = <<>> => q \in Seq(Experiments) /\ OnceOnly(q) /\ Elems(q) = {}
  BY DEF OnceOnly, Elems

\* A command line names each of its experiments once.
LEMMA InvocationFacts ==
  ASSUME NEW inv \in Invocations
  PROVE  /\ inv \in Invocation
         /\ inv.select \in Seq(Experiments) /\ inv.select # <<>> /\ OnceOnly(inv.select)
         /\ inv.target \in Nat \ {0} /\ inv.request \in Requests
         /\ inv.mode \in {"auto", "disable"} /\ inv.data \in {"reuse", "skip", "rebuild"}
         /\ inv.dry \in BOOLEAN /\ inv.proceed \in BOOLEAN
<1>1. inv \in Invocation
  BY InvocationsAssumption
<1>2. OnceOnly(inv.select) /\ inv.select # <<>>
  BY InvocationsAssumption DEF OnceOnly
<1>3. QED
  BY <1>1, <1>2 DEF Invocation

\* A runner without a command line has one in its place.
LEMMA SomeInvocationFact == SomeInvocation \in Invocations
  BY InvocationsAssumption DEF SomeInvocation

\* An identity that holds nothing yet is one.
LEMMA NoIdentityFact == NoIdentity \in Identity
  BY DEF NoIdentity, Identity, Absent

(***************************************************************************)
(* Types.                                                                  *)
(***************************************************************************)

\* The types, by who keeps the variables.
WorldTypes ==
    /\ model \in Nat \ {0} /\ stamp \in Nat \ {0} /\ files \in Nat \ {0}
    /\ dataset \in Nat /\ edits \in Nat

DiskTypes ==
    /\ manifest \in [Experiments -> Identity]
    /\ temp \in [Experiments -> BOOLEAN]
    /\ logs \in [Experiments -> BOOLEAN]
    /\ begun \in [Experiments -> BOOLEAN]
    /\ saved \in [Experiments -> Nat]
    /\ cache \in HashState

ControlTypes ==
    /\ pc \in [Runners -> {"idle", "plan", "data", "model", "hash", "files",
                           "dataset", "check", "rename", "launch", "wait"}]
    /\ stage \in [Runners -> {"plan", "launch"}]
    /\ todo \in [Runners -> Seq(Experiments)]
    /\ kept \in [Runners -> Seq(Experiments)]
    /\ found \in [Runners -> [Experiments -> Nat]]
    /\ rc \in [Runners -> {0, 1}]

BatchTypes ==
    /\ args \in [Runners -> Invocations]
    /\ available \in [Runners -> BOOLEAN]
    /\ failed \in [Runners -> BOOLEAN]
    /\ serial \in [Runners -> Nat]

IdentTypes ==
    /\ ident \in [Runners -> Identity]
    /\ hashing \in [Runners -> HashState]
    /\ memo \in [Runners -> Nat]

ChildTypes ==
    /\ proc \in [Experiments -> {"none", "forked", "running", "succeeded", "failed"}]
    /\ command \in [Experiments -> Invocations]
    /\ at \in [Experiments -> Nat]
    /\ from \in [Experiments -> Nat]
    /\ input \in [Experiments -> Identity]

GhostTypes ==
    /\ starts \in Nat
    /\ drift \in [Experiments -> SUBSET Parts]
    /\ launched \subseteq [experiment: Experiments, batch: Nat, identity: Identity]
    /\ undone \in BOOLEAN

Types ==
    /\ WorldTypes /\ DiskTypes /\ ControlTypes /\ BatchTypes /\ IdentTypes
    /\ ChildTypes /\ GhostTypes

\* The groups together are the type invariant.
LEMMA TypesAreTypeOK == TypeOK <=> Types
  BY DEF TypeOK, Types, WorldTypes, DiskTypes, ControlTypes, BatchTypes, IdentTypes,
         ChildTypes, GhostTypes

\* What is left of a batch that ends is well typed.
LEMMA EndsTypes ==
  ASSUME Types, NEW r \in Runners, NEW code \in {0, 1}, Ends(r, code)
  PROVE  ControlTypes' /\ BatchTypes' /\ IdentTypes'
<1>1. ControlTypes'
  BY EmptyOf DEF Ends, Types, ControlTypes
<1>2. BatchTypes'
  BY SomeInvocationFact DEF Ends, Types, BatchTypes
<1>3. IdentTypes'
  BY NoIdentityFact DEF Ends, Types, IdentTypes, HashState, Absent
<1>4. QED
  BY <1>1, <1>2, <1>3

\* A runner moves on in its list within the types.
LEMMA AdvanceTypes ==
  ASSUME Types, NEW r \in Runners, todo[r] # <<>>, NEW goesOn, NEW loop \in {"plan", "model"},
         Advance(r, loop, goesOn)
  PROVE  /\ pc' \in [Runners -> {"idle", "plan", "data", "model", "hash", "files",
                           "dataset", "check", "rename", "launch", "wait"}]
         /\ todo' \in [Runners -> Seq(Experiments)]
         /\ kept' \in [Runners -> Seq(Experiments)]
<1>1. todo[r] \in Seq(Experiments) /\ kept[r] \in Seq(Experiments)
  BY DEF Types, ControlTypes
<1>2. Head(todo[r]) \in Experiments /\ Tail(todo[r]) \in Seq(Experiments)
  BY <1>1
<1>3. Append(kept[r], Head(todo[r])) \in Seq(Experiments)
  BY <1>1, <1>2
<1>4. QED
  BY <1>1, <1>2, <1>3 DEF Advance, Current, Types, ControlTypes

\* A failure stays within the types, whether the batch goes on or not.
LEMMA FailsTypes ==
  ASSUME Types, NEW r \in Runners, todo[r] # <<>>, NEW loop \in {"plan", "model"},
         Fails(r, loop)
  PROVE  ControlTypes' /\ BatchTypes' /\ IdentTypes'
<1>1. CASE Ends(r, 1)
  BY <1>1, EndsTypes
<1>2. CASE /\ Advance(r, loop, FALSE)
           /\ failed' = [failed EXCEPT ![r] = TRUE]
           /\ UNCHANGED <<stage, found, rc, args, available, serial, identVars>>
  BY <1>2, AdvanceTypes DEF Types, ControlTypes, BatchTypes, IdentTypes, identVars
<1>3. QED
  BY <1>1, <1>2 DEF Fails

\* A change of a content is noted for the launches under way.
LEMMA DriftedTypes ==
  ASSUME GhostTypes, NEW p \in Parts, Drifted(p)
  PROVE  drift' \in [Experiments -> SUBSET Parts]
  BY DEF Drifted, GhostTypes

\* The world's changes.
LEMMA EditTypes ==
  ASSUME Types, Edit
  PROVE  Types'
<1>1. WorldTypes'
  BY DEF Edit, EditModel, RecopyModel, EditFiles, EditDataset, Types, WorldTypes, Other, Absent
<1>2. drift' \in [Experiments -> SUBSET Parts]
  BY DriftedTypes DEF Edit, EditModel, RecopyModel, EditFiles, EditDataset, Types, GhostTypes, Parts
<1>3. undone' \in BOOLEAN
  BY DEF Edit, EditModel, RecopyModel, EditFiles, EditDataset, Types, GhostTypes
<1>4. GhostTypes'
  BY <1>2, <1>3 DEF Edit, Types, GhostTypes
<1>5. QED
  BY <1>1, <1>4 DEF Edit, Types, disk, runnerVars, control, batchVars, identVars, childVars,
     DiskTypes, ControlTypes, BatchTypes, IdentTypes, ChildTypes

\* The batch of a runner is started, planned, provided with data.
LEMMA PlanTypes ==
  ASSUME Types, NEW r \in Runners,
         Start(r) \/ Plan(r) \/ Planned(r) \/ UseData(r) \/ AnnounceBuild(r) \/ BuildData(r)
  PROVE  Types'
<1> USE DEF Types
<1>1. ASSUME Start(r) PROVE Types'
  <2>1. PICK inv \in Invocations :
           /\ starts' = starts + 1
           /\ serial' = [serial EXCEPT ![r] = starts + 1]
           /\ rc' = [rc EXCEPT ![r] = 0]
           /\ args' = [args EXCEPT ![r] = inv]
           /\ todo' = [todo EXCEPT ![r] = inv.select]
           /\ pc' = [pc EXCEPT ![r] = "plan"]
           /\ UNCHANGED <<worldVars, disk, stage, kept, found, failed, available,
                          identVars, childVars, drift, launched, undone>>
    BY <1>1 DEF Start
  <2>2. ControlTypes'
    BY <2>1, InvocationFacts DEF ControlTypes
  <2>3. BatchTypes' /\ GhostTypes'
    BY <2>1 DEF BatchTypes, GhostTypes
  <2>4. QED
    BY <2>1, <2>2, <2>3 DEF worldVars, disk, identVars, childVars, WorldTypes, DiskTypes,
       IdentTypes, ChildTypes
<1>2. ASSUME Plan(r) PROVE Types'
  <2>1. ControlTypes' /\ BatchTypes' /\ IdentTypes'
    <3>1. CASE /\ Advance(r, "plan", TRUE)
               /\ found' = [found EXCEPT ![r][Current(r)] =
                          IF args[r].mode = "disable" THEN 0 ELSE saved[Current(r)]]
               /\ UNCHANGED <<stage, rc, batchVars, identVars>>
      <4>1. Current(r) \in Experiments
        BY <1>2 DEF Current, Plan, ControlTypes
      <4>2. found' \in [Runners -> [Experiments -> Nat]]
        BY <3>1, <4>1 DEF ControlTypes, DiskTypes
      <4>3. QED
        BY <1>2, <3>1, <4>2, AdvanceTypes DEF Plan, ControlTypes, BatchTypes, IdentTypes, batchVars,
           identVars
    <3>2. CASE Fails(r, "plan")
      BY <1>2, <3>2, FailsTypes DEF Plan
    <3>3. QED
      BY <1>2, <3>1, <3>2 DEF Plan
  <2>2. QED
    BY <1>2, <2>1 DEF Plan, worldVars, disk, childVars, ghosts, WorldTypes, DiskTypes,
       ChildTypes, GhostTypes
<1>3. ASSUME Planned(r) PROVE Types'
  <2>1. CASE Ends(r, 0) \/ Ends(r, 1)
    BY <1>3, <2>1, EndsTypes DEF Planned, worldVars, disk, childVars, ghosts, WorldTypes,
       DiskTypes, ChildTypes, GhostTypes
  <2>2. CASE /\ pc' = [pc EXCEPT ![r] = "data"]
             /\ todo' = [todo EXCEPT ![r] = kept[r]]
             /\ kept' = [kept EXCEPT ![r] = <<>>]
             /\ UNCHANGED <<stage, found, rc, batchVars, identVars>>
    <3>1. ControlTypes'
      BY <2>2, EmptyOf DEF ControlTypes
    <3>2. QED
      BY <1>3, <2>2, <3>1 DEF Planned, worldVars, disk, childVars, ghosts, WorldTypes,
         DiskTypes, ChildTypes, GhostTypes, BatchTypes, IdentTypes, batchVars, identVars
  <2>3. QED
    BY <1>3, <2>1, <2>2 DEF Planned
<1>4. ASSUME NEW yes \in BOOLEAN, DataReady(r, yes)
      PROVE ControlTypes' /\ BatchTypes' /\ IdentTypes'
  BY <1>4 DEF DataReady, ControlTypes, BatchTypes, IdentTypes, identVars
<1>5. ASSUME UseData(r) \/ AnnounceBuild(r) PROVE Types'
  <2>1. Ends(r, 1) \/ DataReady(r, TRUE) \/ DataReady(r, FALSE)
    BY <1>5 DEF UseData, AnnounceBuild
  <2>2. ControlTypes' /\ BatchTypes' /\ IdentTypes'
    BY <2>1, <1>4, EndsTypes
  <2>3. QED
    BY <1>5, <2>2 DEF UseData, AnnounceBuild, worldVars, disk, childVars, ghosts, WorldTypes,
       DiskTypes, ChildTypes, GhostTypes
<1>6. ASSUME BuildData(r) PROVE Types'
  <2>1. Ends(r, 1) \/ DataReady(r, TRUE)
    BY <1>6 DEF BuildData
  <2>2. ControlTypes' /\ BatchTypes' /\ IdentTypes'
    BY <2>1, <1>4, EndsTypes
  <2>3. dataset' \in Nat
    <3>1. dataset' \in {dataset, Absent} \cup Other(dataset)
      BY <1>6 DEF BuildData
    <3>2. Other(dataset) \subseteq Nat
      BY DEF Other, WorldTypes, Absent
    <3>3. QED
      BY <3>1, <3>2 DEF WorldTypes, Absent
  <2>4. drift' \in [Experiments -> SUBSET Parts]
    BY <1>6, DriftedTypes DEF BuildData, GhostTypes, Parts
  <2>5. undone' \in BOOLEAN
    BY <1>6 DEF BuildData, GhostTypes
  <2>6. QED
    BY <1>6, <2>2, <2>3, <2>4, <2>5 DEF BuildData, disk, childVars, WorldTypes,
       DiskTypes, ChildTypes, GhostTypes
<1>7. QED
  BY <1>1, <1>2, <1>3, <1>5, <1>6

\* The parts of an identity.
LEMMA IdentityTypes ==
  ASSUME Types, Shape, NEW r \in Runners,
         ReadModel(r) \/ HashModel(r) \/ ReadFiles(r) \/ ReadDataset(r) \/ IdentityError(r)
  PROVE  Types'
<1> USE DEF Types
<1>0. pc[r] \in AtExperiment => todo[r] # <<>> /\ Current(r) \in Experiments
  BY DEF Shape, Current, ControlTypes
<1>1. ASSUME NEW p \in Parts, Read(r, p) PROVE drift' \in [Experiments -> SUBSET Parts]
  BY <1>1 DEF Read, GhostTypes
<1>2. ASSUME NEW c \in Nat, HasModel(r, c)
      PROVE /\ ident' \in [Runners -> Identity]
            /\ memo' \in [Runners -> Nat]
            /\ pc' = [pc EXCEPT ![r] = "files"]
  <2>1. [NoIdentity EXCEPT !.model = c] \in Identity
    BY NoIdentityFact DEF Identity
  <2>2. QED
    BY <1>2, <2>1 DEF HasModel, IdentTypes
<1>3. ASSUME ReadModel(r) PROVE Types'
  <2>1. KnownModel(r) \in Nat
    BY DEF KnownModel, IdentTypes, DiskTypes, HashState, Absent
  <2>2. IdentTypes' /\ ControlTypes'
    <3>1. CASE HasModel(r, KnownModel(r)) /\ UNCHANGED hashing
      BY <1>3, <3>1, <2>1, <1>2 DEF ReadModel, IdentTypes, ControlTypes
    <3>2. CASE /\ hashing' = [hashing EXCEPT ![r] = [meta |-> stamp, content |-> model]]
               /\ pc' = [pc EXCEPT ![r] = "hash"]
               /\ UNCHANGED <<ident, memo>>
      <4>1. [meta |-> stamp, content |-> model] \in HashState
        BY DEF WorldTypes, HashState
      <4>2. QED
        BY <1>3, <3>2, <4>1 DEF ReadModel, IdentTypes, ControlTypes
    <3>3. QED
      BY <1>3, <3>1, <3>2 DEF ReadModel
  <2>3. GhostTypes'
    BY <1>3, <1>1 DEF ReadModel, GhostTypes, Parts
  <2>4. QED
    BY <1>3, <2>2, <2>3 DEF ReadModel, worldVars, disk, batchVars, childVars, WorldTypes,
       DiskTypes, BatchTypes, ChildTypes
<1>4. ASSUME HashModel(r) PROVE Types'
  <2>1. hashing[r] \in HashState /\ hashing[r].content \in Nat
    BY DEF IdentTypes, HashState
  <2>2. /\ cache' \in HashState
        /\ ControlTypes' /\ BatchTypes' /\ IdentTypes'
    <3>1. CASE /\ HasModel(r, hashing[r].content)
               /\ cache' = Stored(r)
               /\ hashing' = [hashing EXCEPT ![r] = [meta |-> Absent, content |-> Absent]]
               /\ UNCHANGED <<stage, todo, kept, found, rc, batchVars>>
      <4>1. [meta |-> Absent, content |-> Absent] \in HashState
        BY DEF HashState, Absent
      <4>2. cache' \in HashState
        BY <3>1, <2>1 DEF Stored, DiskTypes
      <4>3. QED
        BY <3>1, <4>1, <4>2, <2>1, <1>2 DEF ControlTypes, BatchTypes, IdentTypes, batchVars
    <3>2. CASE Fails(r, "model") /\ UNCHANGED cache
      BY <1>4, <3>2, <1>0, FailsTypes DEF HashModel, AtExperiment, DiskTypes
    <3>3. QED
      BY <1>4, <3>1, <3>2 DEF HashModel
  <2>3. QED
    BY <1>4, <2>2 DEF HashModel, worldVars, childVars, ghosts, WorldTypes,
       DiskTypes, ChildTypes, GhostTypes
<1>5. ASSUME ReadFiles(r) PROVE Types'
  <2>1. ident' \in [Runners -> Identity]
    <3>1. args[r].request \in Requests
      BY InvocationFacts DEF BatchTypes
    <3>2. [ident[r] EXCEPT !.files = files, !.request = args[r].request] \in Identity
      BY <3>1 DEF IdentTypes, WorldTypes, Identity
    <3>3. ident' = [ident EXCEPT ![r] =
                      [ident[r] EXCEPT !.files = files, !.request = args[r].request]]
      BY <1>5 DEF ReadFiles, IdentTypes, Identity
    <3>4. QED
      BY <3>2, <3>3 DEF IdentTypes
  <2>2. GhostTypes'
    BY <1>5, <1>1 DEF ReadFiles, GhostTypes, Parts
  <2>3. QED
    BY <1>5, <2>1, <2>2 DEF ReadFiles, worldVars, disk, batchVars, childVars, WorldTypes,
       DiskTypes, BatchTypes, ChildTypes, ControlTypes, IdentTypes
<1>6. ASSUME ReadDataset(r) PROVE Types'
  <2>1. ident' \in [Runners -> Identity]
    BY <1>6 DEF ReadDataset, IdentTypes, WorldTypes, Identity
  <2>2. GhostTypes'
    BY <1>6, <1>1 DEF ReadDataset, GhostTypes, Parts
  <2>3. QED
    BY <1>6, <2>1, <2>2 DEF ReadDataset, worldVars, disk, batchVars, childVars, WorldTypes,
       DiskTypes, BatchTypes, ChildTypes, ControlTypes, IdentTypes
<1>7. ASSUME IdentityError(r) PROVE Types'
  BY <1>7, <1>0, FailsTypes DEF IdentityError, AtExperiment, worldVars, disk, childVars,
     ghosts, WorldTypes, DiskTypes, ChildTypes, GhostTypes
<1>8. QED
  BY <1>3, <1>4, <1>5, <1>6, <1>7

\* Manifests, processes and the ends of a batch.
LEMMA CourseTypes ==
  ASSUME Types, Shape, NEW r \in Runners,
         \/ Check(r) \/ Rename(r) \/ Validated(r) \/ Launch(r) \/ Reap(r) \/ Launched(r)
         \/ Interrupt(r) \/ Kill(r)
  PROVE  Types'
<1> USE DEF Types
<1>0. pc[r] \in AtExperiment => todo[r] # <<>> /\ Current(r) \in Experiments
  BY DEF Shape, Current, ControlTypes
<1>1. ASSUME Accept(r), todo[r] # <<>>, UNCHANGED <<stage, found, rc>> PROVE ControlTypes'
  <2>1. CASE stage[r] = "launch"
    BY <1>1, <2>1 DEF Accept, ControlTypes
  <2>2. CASE stage[r] # "launch"
    BY <1>1, <2>2, AdvanceTypes DEF Accept, ControlTypes
  <2>3. QED
    BY <2>1, <2>2
<1>2. ASSUME UNCHANGED <<batchVars, identVars>> PROVE BatchTypes' /\ IdentTypes'
  BY <1>2 DEF batchVars, identVars, BatchTypes, IdentTypes
<1>3. ASSUME Check(r) PROVE Types'
  <2>1. todo[r] # <<>> /\ Current(r) \in Experiments
    BY <1>3, <1>0 DEF Check, AtExperiment
  <2>2. temp' \in [Experiments -> BOOLEAN]
    BY <1>3, <2>1 DEF Check, DiskTypes
  <2>3. ControlTypes' /\ BatchTypes' /\ IdentTypes'
    <3>1. CASE Accept(r) /\ UNCHANGED <<stage, found, rc, batchVars, identVars>>
      BY <3>1, <2>1, <1>1, <1>2
    <3>2. CASE Fails(r, "model")
      BY <3>2, <2>1, FailsTypes
    <3>3. CASE /\ pc' = [pc EXCEPT ![r] = "rename"]
               /\ UNCHANGED <<stage, todo, kept, found, rc, batchVars, identVars>>
      BY <3>3, <1>2 DEF ControlTypes
    <3>4. QED
      BY <1>3, <3>1, <3>2, <3>3 DEF Check
  <2>4. QED
    BY <1>3, <2>2, <2>3 DEF Check, worldVars, childVars, ghosts, WorldTypes, DiskTypes,
       ChildTypes, GhostTypes
<1>4. ASSUME Rename(r) PROVE Types'
  <2>1. todo[r] # <<>> /\ Current(r) \in Experiments
    BY <1>4, <1>0 DEF Rename, AtExperiment
  <2>2. manifest' \in [Experiments -> Identity] /\ temp' \in [Experiments -> BOOLEAN]
    BY <1>4, <2>1 DEF Rename, DiskTypes, IdentTypes
  <2>3. ControlTypes' /\ BatchTypes' /\ IdentTypes'
    BY <1>4, <2>1, <1>1, <1>2 DEF Rename
  <2>4. QED
    BY <1>4, <2>2, <2>3 DEF Rename, worldVars, childVars, ghosts, WorldTypes, DiskTypes,
       ChildTypes, GhostTypes
<1>5. ASSUME Validated(r) \/ Launched(r) PROVE Types'
  <2>1. ControlTypes' /\ BatchTypes' /\ IdentTypes'
    <3>1. CASE Ends(r, 0) \/ Ends(r, 1)
      BY <3>1, EndsTypes
    <3>2. CASE /\ stage' = [stage EXCEPT ![r] = "launch"]
               /\ todo' = [todo EXCEPT ![r] = kept[r]]
               /\ kept' = [kept EXCEPT ![r] = <<>>]
               /\ UNCHANGED <<pc, found, rc, batchVars, identVars>>
      BY <3>2, <1>2, EmptyOf DEF ControlTypes
    <3>3. QED
      BY <1>5, <3>1, <3>2 DEF Validated, Launched
  <2>2. QED
    BY <1>5, <2>1 DEF Validated, Launched, worldVars, disk, childVars, ghosts, WorldTypes,
       DiskTypes, ChildTypes, GhostTypes
<1>6. ASSUME Launch(r) PROVE Types'
  <2>1. todo[r] # <<>> /\ Current(r) \in Experiments
    BY <1>6, <1>0 DEF Launch, AtExperiment
  <2>2. logs' \in [Experiments -> BOOLEAN]
    BY <1>6, <2>1 DEF Launch, DiskTypes
  <2>3. ControlTypes' /\ BatchTypes' /\ IdentTypes'
    <3>1. CASE /\ pc' = [pc EXCEPT ![r] = "wait"]
               /\ UNCHANGED <<stage, todo, kept, found, rc, batchVars, identVars>>
      BY <3>1, <1>2 DEF ControlTypes
    <3>2. CASE Fails(r, "model")
      BY <3>2, <2>1, FailsTypes
    <3>3. QED
      BY <1>6, <3>1, <3>2 DEF Launch
  <2>4. /\ proc' \in [Experiments -> {"none", "forked", "running", "succeeded", "failed"}]
        /\ command' \in [Experiments -> Invocations]
    BY <1>6, <2>1 DEF Launch, ChildTypes, BatchTypes
  <2>5. launched' \subseteq [experiment: Experiments, batch: Nat, identity: Identity]
    <3>1. [experiment |-> Current(r), batch |-> serial[r], identity |-> ident[r]]
             \in [experiment: Experiments, batch: Nat, identity: Identity]
      BY <2>1 DEF BatchTypes, IdentTypes
    <3>2. QED
      BY <1>6, <3>1 DEF Launch, GhostTypes
  <2>6. QED
    BY <1>6, <2>2, <2>3, <2>4, <2>5 DEF Launch, worldVars, WorldTypes, DiskTypes,
       ChildTypes, GhostTypes
<1>7. ASSUME Reap(r) PROVE Types'
  <2>1. todo[r] # <<>> /\ Current(r) \in Experiments
    BY <1>7, <1>0 DEF Reap, AtExperiment
  <2>2. ControlTypes' /\ BatchTypes' /\ IdentTypes'
    <3>1. CASE Advance(r, "model", FALSE) /\ UNCHANGED <<stage, found, rc, batchVars, identVars>>
      BY <3>1, <2>1, <1>2, AdvanceTypes DEF ControlTypes
    <3>2. CASE Fails(r, "model")
      BY <3>2, <2>1, FailsTypes
    <3>3. QED
      BY <1>7, <3>1, <3>2 DEF Reap
  <2>3. proc' \in [Experiments -> {"none", "forked", "running", "succeeded", "failed"}]
    BY <1>7, <2>1 DEF Reap, ChildTypes
  <2>4. QED
    BY <1>7, <2>2, <2>3 DEF Reap, worldVars, disk, ghosts, WorldTypes, DiskTypes,
       ChildTypes, GhostTypes
<1>8. ASSUME Kill(r) PROVE Types'
  BY <1>8, EndsTypes DEF Kill, worldVars, disk, childVars, ghosts, WorldTypes, DiskTypes,
     ChildTypes, GhostTypes
<1>9. ASSUME Interrupt(r) PROVE Types'
  <2>1. ControlTypes' /\ BatchTypes' /\ IdentTypes'
    BY <1>9, EndsTypes DEF Interrupt
  <2>2. temp' \in [Experiments -> BOOLEAN]
    BY <1>9, <1>0 DEF Interrupt, DiskTypes, AtExperiment
  <2>3. ChildTypes' /\ drift' \in [Experiments -> SUBSET Parts]
    <3>1. CASE NotRunning(Current(r)) /\ pc[r] = "wait"
      BY <3>1, <1>0, SomeInvocationFact, NoIdentityFact DEF NotRunning, ChildTypes, GhostTypes,
         AtExperiment
    <3>2. CASE UNCHANGED <<childVars, drift>>
      BY <3>2 DEF childVars, ChildTypes, GhostTypes
    <3>3. QED
      BY <1>9, <3>1, <3>2 DEF Interrupt
  <2>4. QED
    BY <1>9, <2>1, <2>2, <2>3 DEF Interrupt, worldVars, WorldTypes, DiskTypes, GhostTypes
<1>10. QED
  BY <1>3, <1>4, <1>5, <1>6, <1>7, <1>8, <1>9

\* The training processes.
LEMMA TrainingTypes ==
  ASSUME Types, NEW e \in Experiments, TrainingStep(e) \/ Die(e)
  PROVE  Types'
<1> USE DEF Types
<1>1. ASSUME NEW status \in {"succeeded", "failed"}, Exit(e, status) PROVE Types'
  <2>1. ChildTypes'
    BY <1>1, SomeInvocationFact, NoIdentityFact DEF Exit, ChildTypes
  <2>2. GhostTypes'
    BY <1>1 DEF Exit, GhostTypes
  <2>3. QED
    BY <1>1, <2>1, <2>2 DEF Exit, worldVars, disk, runnerVars, control, batchVars, identVars,
       WorldTypes, DiskTypes, ControlTypes, BatchTypes, IdentTypes
<1>2. ASSUME Load(e) PROVE Types'
  <2>1. [request |-> command[e].request, model |-> model, files |-> files, data |-> dataset]
          \in Identity
    BY InvocationFacts DEF ChildTypes, WorldTypes, Identity
  <2>2. at' \in [Experiments -> Nat]
    BY <1>2 DEF Load, ChildTypes, DiskTypes
  <2>3. ChildTypes'
    BY <1>2, <2>1, <2>2 DEF Load, ChildTypes
  <2>4. QED
    BY <1>2, <2>3 DEF Load, worldVars, disk, runnerVars, control, batchVars, identVars, ghosts,
       WorldTypes, DiskTypes, ControlTypes, BatchTypes, IdentTypes, GhostTypes
<1>3. ASSUME Train(e) \/ BeginSave(e) \/ EndSave(e) PROVE Types'
  <2>1. ChildTypes'
    <3>1. CASE Train(e)
      BY <3>1 DEF Train, ChildTypes
    <3>2. CASE UNCHANGED childVars
      BY <3>2 DEF ChildTypes, childVars
    <3>3. QED
      BY <1>3, <3>1, <3>2 DEF BeginSave, EndSave
  <2>2. DiskTypes'
    <3>1. CASE Train(e)
      BY <3>1 DEF Train, DiskTypes, disk
    <3>2. CASE BeginSave(e)
      BY <3>2 DEF BeginSave, DiskTypes
    <3>3. CASE EndSave(e)
      BY <3>3 DEF EndSave, DiskTypes, ChildTypes
    <3>4. QED
      BY <1>3, <3>1, <3>2, <3>3
  <2>3. QED
    BY <1>3, <2>1, <2>2 DEF Train, BeginSave, EndSave, worldVars, runnerVars, control, batchVars,
       identVars, ghosts, WorldTypes, ControlTypes, BatchTypes, IdentTypes, GhostTypes
<1>4. QED
  BY <1>1, <1>2, <1>3 DEF TrainingStep, Die, Succeed

(***************************************************************************)
(* Shape and Exclusive: the lists, the stage and who is on an experiment.  *)
(***************************************************************************)

\* What a runner does.
RunnerAction(r) == Start(r) \/ RunnerStep(r) \/ Interrupt(r) \/ Kill(r)

\* A runner that is not at work keeps all it has.
Unmoved(q) ==
    /\ pc'[q] = pc[q] /\ stage'[q] = stage[q] /\ todo'[q] = todo[q] /\ kept'[q] = kept[q]
    /\ found'[q] = found[q] /\ rc'[q] = rc[q] /\ args'[q] = args[q]
    /\ available'[q] = available[q] /\ failed'[q] = failed[q] /\ serial'[q] = serial[q]
    /\ ident'[q] = ident[q] /\ hashing'[q] = hashing[q] /\ memo'[q] = memo[q]

\* The invariant of the lists, for one runner.
ShapeOf(r) ==
    /\ ~Active(r) => stage[r] = "plan" /\ todo[r] = <<>> /\ kept[r] = <<>>
    /\ pc[r] \in AtExperiment => todo[r] # <<>>
    /\ pc[r] \in {"plan", "data", "rename"} => stage[r] = "plan"
    /\ pc[r] = "rename" => ~Dry(r)
    /\ pc[r] \in {"launch", "wait"} => stage[r] = "launch"
    /\ stage[r] = "launch" => kept[r] = <<>> /\ ~Dry(r)
    /\ Active(r) => Pending(r) \cup Kept(r) \subseteq Selected(r)
    /\ OnceOnly(todo[r]) /\ OnceOnly(kept[r]) /\ Pending(r) \cap Kept(r) = {}

\* The invariant is that of every runner.
LEMMA ShapeByRunner == Shape <=> \A r \in Runners : ShapeOf(r)
  BY DEF Shape, ShapeOf

\* A runner's end, failure or advance moves no other.
LEMMA CourseUnmoved ==
  ASSUME Types, NEW r \in Runners, NEW q \in Runners, q # r
  PROVE  /\ \A code : Ends(r, code) => Unmoved(q)
         /\ \A loop : Fails(r, loop) => Unmoved(q)
         /\ \A loop, goesOn : Advance(r, loop, goesOn) =>
               pc'[q] = pc[q] /\ todo'[q] = todo[q] /\ kept'[q] = kept[q]
<1>1. ASSUME NEW code, Ends(r, code) PROVE Unmoved(q)
  BY <1>1 DEF Ends, Unmoved, Types, ControlTypes, BatchTypes, IdentTypes
<1>2. ASSUME NEW loop, NEW goesOn, Advance(r, loop, goesOn)
      PROVE pc'[q] = pc[q] /\ todo'[q] = todo[q] /\ kept'[q] = kept[q]
  BY <1>2 DEF Advance, Types, ControlTypes
<1>3. ASSUME NEW loop, Fails(r, loop) PROVE Unmoved(q)
  <2>1. CASE Ends(r, 1)
    BY <2>1, <1>1
  <2>2. CASE /\ Advance(r, loop, FALSE)
             /\ failed' = [failed EXCEPT ![r] = TRUE]
             /\ UNCHANGED <<stage, found, rc, args, available, serial, identVars>>
    BY <2>2, <1>2 DEF Unmoved, identVars, Types, BatchTypes
  <2>3. QED
    BY <1>3, <2>1, <2>2 DEF Fails
<1>4. QED
  BY <1>1, <1>2, <1>3

\* No runner moves another.
LEMMA OthersUnmoved ==
  ASSUME Types, NEW r \in Runners, NEW q \in Runners, q # r, RunnerAction(r)
  PROVE  Unmoved(q)
<1> USE CourseUnmoved
<1> USE DEF batchVars, identVars
<1>1. ASSUME Start(r) PROVE Unmoved(q)
  BY <1>1 DEF Start, Unmoved, Types, ControlTypes, BatchTypes
<1>2. ASSUME Plan(r) PROVE Unmoved(q)
  BY <1>2 DEF Plan, Unmoved, Types, ControlTypes
<1>3. ASSUME Planned(r) PROVE Unmoved(q)
  BY <1>3 DEF Planned, Unmoved, Types, ControlTypes
<1>4. ASSUME NEW yes, DataReady(r, yes) PROVE Unmoved(q)
  BY <1>4 DEF DataReady, Unmoved, Types, ControlTypes, BatchTypes
<1>5. ASSUME UseData(r) \/ AnnounceBuild(r) \/ BuildData(r) PROVE Unmoved(q)
  BY <1>5, <1>4 DEF UseData, AnnounceBuild, BuildData
<1>6. ASSUME NEW c, HasModel(r, c) PROVE ident'[q] = ident[q] /\ memo'[q] = memo[q] /\ pc'[q] = pc[q]
  BY <1>6 DEF HasModel, Types, IdentTypes, ControlTypes
<1>7. ASSUME ReadModel(r) PROVE Unmoved(q)
  BY <1>7, <1>6 DEF ReadModel, Unmoved, Types, IdentTypes, ControlTypes
<1>8. ASSUME HashModel(r) PROVE Unmoved(q)
  BY <1>8, <1>6 DEF HashModel, Unmoved, Types, IdentTypes, ControlTypes
<1>9. ASSUME ReadFiles(r) \/ ReadDataset(r) PROVE Unmoved(q)
  BY <1>9 DEF ReadFiles, ReadDataset, Unmoved, Types, IdentTypes, ControlTypes
<1>10. ASSUME Accept(r), UNCHANGED <<stage, found, rc, batchVars, identVars>> PROVE Unmoved(q)
  BY <1>10 DEF Accept, Unmoved, Types, ControlTypes
<1>11. ASSUME Check(r) PROVE Unmoved(q)
  <2>1. CASE pc' = [pc EXCEPT ![r] = "rename"]
             /\ UNCHANGED <<stage, todo, kept, found, rc, batchVars, identVars>>
    BY <2>1 DEF Unmoved, Types, ControlTypes
  <2>2. QED
    BY <1>11, <1>10, <2>1 DEF Check
<1>12. ASSUME Rename(r) \/ IdentityError(r) PROVE Unmoved(q)
  BY <1>12, <1>10 DEF Rename, IdentityError
<1>13. ASSUME Validated(r) \/ Launched(r) PROVE Unmoved(q)
  BY <1>13 DEF Validated, Launched, Unmoved, Types, ControlTypes
<1>14. ASSUME Launch(r) \/ Reap(r) PROVE Unmoved(q)
  BY <1>14 DEF Launch, Reap, Unmoved, Types, ControlTypes
<1>15. QED
  BY <1>1, <1>2, <1>3, <1>5, <1>7, <1>8, <1>9, <1>11, <1>12, <1>13, <1>14
     DEF RunnerAction, RunnerStep, Interrupt, Kill

\* The world and the training processes move no runner.
LEMMA RunnersUnmoved ==
  ASSUME Edit \/ \E e \in Experiments : TrainingStep(e) \/ Die(e)
  PROVE  UNCHANGED runnerVars
  BY DEF Edit, TrainingStep, Load, Train, BeginSave, EndSave, Succeed, Die, Exit

\* One experiment less to go, and perhaps one more kept.
LEMMA AdvanceFacts ==
  ASSUME Types, NEW r \in Runners, ShapeOf(r), todo[r] # <<>>, NEW loop, NEW goesOn,
         Advance(r, loop, goesOn)
  PROVE  /\ pc'[r] = loop
         /\ Current(r) \in Experiments /\ Current(r) \in Pending(r) /\ Current(r) \notin Kept(r)
         /\ Pending(r)' = Pending(r) \ {Current(r)} /\ OnceOnly(todo'[r])
         /\ Kept(r)' = IF goesOn THEN Kept(r) \cup {Current(r)} ELSE Kept(r)
         /\ OnceOnly(kept'[r])
         /\ ~goesOn => kept'[r] = kept[r]
<1>1. todo[r] \in Seq(Experiments) /\ kept[r] \in Seq(Experiments)
  BY DEF Types, ControlTypes
<1>2. OnceOnly(todo[r]) /\ OnceOnly(kept[r]) /\ Pending(r) \cap Kept(r) = {}
  BY DEF ShapeOf
<1>3. /\ pc'[r] = loop /\ todo'[r] = Tail(todo[r])
      /\ kept'[r] = IF goesOn THEN Append(kept[r], Current(r)) ELSE kept[r]
  BY DEF Advance, Types, ControlTypes
<1>4. /\ Current(r) \in Experiments /\ Current(r) \in Pending(r)
      /\ Pending(r)' = Pending(r) \ {Current(r)} /\ OnceOnly(todo'[r])
  BY <1>1, <1>2, <1>3, TailOf DEF Current, Pending
<1>5. Current(r) \notin Kept(r)
  BY <1>2, <1>4
<1>6. /\ Kept(r)' = IF goesOn THEN Kept(r) \cup {Current(r)} ELSE Kept(r)
      /\ OnceOnly(kept'[r])
  <2>1. CASE goesOn
    BY <2>1, <1>1, <1>2, <1>3, <1>4, <1>5, AppendOf DEF Kept
  <2>2. CASE ~goesOn
    BY <2>2, <1>2, <1>3 DEF Kept
  <2>3. QED
    BY <2>1, <2>2
<1>7. QED
  BY <1>3, <1>4, <1>5, <1>6

\* A runner at the end of its batch.
LEMMA EndsShape ==
  ASSUME Types, NEW r \in Runners, NEW code, Ends(r, code)
  PROVE  /\ ShapeOf(r)' /\ ~Active(r)' /\ Pending(r)' = {} /\ Kept(r)' = {}
         /\ stage'[r] = "plan" /\ pc'[r] = "idle"
<1>1. /\ pc'[r] = "idle" /\ stage'[r] = "plan" /\ todo'[r] = <<>> /\ kept'[r] = <<>>
  BY DEF Ends, Types, ControlTypes
<1>2. Pending(r)' = {} /\ Kept(r)' = {} /\ OnceOnly(todo'[r]) /\ OnceOnly(kept'[r])
  BY <1>1, EmptyOf DEF Pending, Kept
<1>3. QED
  BY <1>1, <1>2 DEF ShapeOf, Active, AtExperiment

\* A runner that goes on with the next experiment.
LEMMA AdvanceShape ==
  ASSUME Types, NEW r \in Runners, ShapeOf(r), Active(r), todo[r] # <<>>, NEW goesOn,
         NEW loop \in {"plan", "model"}, Advance(r, loop, goesOn),
         stage'[r] = stage[r], args'[r] = args[r],
         loop = "plan" => stage[r] = "plan",
         goesOn => stage[r] = "plan"
  PROVE  ShapeOf(r)'
<1>1. /\ pc'[r] = loop /\ OnceOnly(todo'[r]) /\ OnceOnly(kept'[r])
      /\ Current(r) \in Pending(r)
      /\ Pending(r)' = Pending(r) \ {Current(r)}
      /\ Kept(r)' \subseteq Kept(r) \cup {Current(r)}
      /\ stage[r] = "launch" => kept'[r] = kept[r]
  BY AdvanceFacts
<1>2. Selected(r)' = Selected(r) /\ Dry(r)' = Dry(r)
  BY DEF Selected, Dry
<1>3. QED
  BY <1>1, <1>2 DEF ShapeOf, Active, AtExperiment

\* A runner after a failure.
LEMMA FailsShape ==
  ASSUME Types, NEW r \in Runners, ShapeOf(r), Active(r), todo[r] # <<>>,
         NEW loop \in {"plan", "model"}, Fails(r, loop),
         loop = "plan" => stage[r] = "plan"
  PROVE  ShapeOf(r)'
<1>1. CASE Ends(r, 1)
  BY <1>1, EndsShape
<1>2. CASE Advance(r, loop, FALSE) /\ UNCHANGED <<stage, args>>
  BY <1>2, AdvanceShape
<1>3. QED
  BY <1>1, <1>2 DEF Fails

\* A runner that stays where it is in its lists.
LEMMA StaysShape ==
  ASSUME Types, NEW r \in Runners, ShapeOf(r), Active(r),
         stage'[r] = stage[r], args'[r] = args[r], todo'[r] = todo[r], kept'[r] = kept[r],
         pc'[r] # "idle",
         pc'[r] \in AtExperiment => todo[r] # <<>>,
         pc'[r] \in {"plan", "data", "rename"} => stage[r] = "plan",
         pc'[r] = "rename" => ~Dry(r),
         pc'[r] \in {"launch", "wait"} => stage[r] = "launch"
  PROVE  ShapeOf(r)'
<1>1. /\ Selected(r)' = Selected(r) /\ Dry(r)' = Dry(r)
      /\ Pending(r)' = Pending(r) /\ Kept(r)' = Kept(r)
  BY DEF Selected, Dry, Pending, Kept
<1>2. QED
  BY <1>1 DEF ShapeOf, Active

\* A list becomes the next pass's.
LEMMA SwitchShape ==
  ASSUME Types, NEW r \in Runners, ShapeOf(r), Active(r), todo[r] = <<>>,
         args'[r] = args[r], todo'[r] = kept[r], kept'[r] = <<>>,
         \/ pc'[r] = "data" /\ stage'[r] = "plan"
         \/ pc'[r] = "model" /\ stage'[r] = "launch" /\ ~Dry(r)
  PROVE  ShapeOf(r)' /\ Pending(r)' = Kept(r) /\ Kept(r)' = {}
<1>1. /\ Selected(r)' = Selected(r) /\ Dry(r)' = Dry(r)
      /\ Pending(r)' = Kept(r) /\ Kept(r)' = {}
      /\ OnceOnly(kept'[r])
  BY EmptyOf DEF Selected, Dry, Pending, Kept
<1>2. QED
  BY <1>1 DEF ShapeOf, Active, AtExperiment

\* Every step of a runner keeps its shape.
LEMMA ShapeOfStep ==
  ASSUME Types, NEW r \in Runners, ShapeOf(r), RunnerAction(r)
  PROVE  ShapeOf(r)'
<1> USE DEF Types, ControlTypes, BatchTypes, batchVars
<1>0. pc[r] \in AtExperiment => todo[r] # <<>>
  BY DEF ShapeOf
<1>1. ASSUME Start(r) PROVE ShapeOf(r)'
  <2>1. PICK inv \in Invocations :
           /\ args' = [args EXCEPT ![r] = inv] /\ todo' = [todo EXCEPT ![r] = inv.select]
           /\ pc' = [pc EXCEPT ![r] = "plan"] /\ UNCHANGED <<stage, kept>> /\ ~Active(r)
    BY <1>1 DEF Start
  <2>2. /\ args'[r] = inv /\ todo'[r] = inv.select /\ pc'[r] = "plan"
        /\ stage'[r] = "plan" /\ kept'[r] = <<>>
    BY <2>1 DEF ShapeOf
  <2>3. OnceOnly(todo'[r]) /\ OnceOnly(kept'[r]) /\ Kept(r)' = {} /\ Pending(r)' = Selected(r)'
    BY <2>2, EmptyOf, InvocationFacts DEF Kept, Pending, Selected
  <2>4. QED
    BY <2>2, <2>3 DEF ShapeOf, Active, AtExperiment
<1>2. ASSUME Plan(r) PROVE ShapeOf(r)'
  <2>1. Active(r) /\ stage[r] = "plan"
    BY <1>2 DEF Plan, Active, ShapeOf
  <2>2. CASE Fails(r, "plan")
    BY <1>2, <2>1, <2>2, FailsShape DEF Plan
  <2>3. CASE Advance(r, "plan", TRUE) /\ UNCHANGED <<stage, batchVars>>
    BY <1>2, <2>1, <2>3, AdvanceShape DEF Plan
  <2>4. QED
    BY <1>2, <2>2, <2>3 DEF Plan
<1>3. ASSUME Planned(r) PROVE ShapeOf(r)'
  <2>1. CASE Ends(r, 0) \/ Ends(r, 1)
    BY <2>1, EndsShape
  <2>2. CASE /\ pc' = [pc EXCEPT ![r] = "data"]
             /\ todo' = [todo EXCEPT ![r] = kept[r]]
             /\ kept' = [kept EXCEPT ![r] = <<>>]
             /\ UNCHANGED <<stage, found, rc, batchVars, identVars>>
    <3>1. Active(r) /\ stage[r] = "plan" /\ todo[r] = <<>>
      BY <1>3 DEF Planned, Active, ShapeOf
    <3>2. QED
      BY <2>2, <3>1, SwitchShape
  <2>3. QED
    BY <1>3, <2>1, <2>2 DEF Planned
<1>4. ASSUME NEW yes, DataReady(r, yes), pc[r] = "data" PROVE ShapeOf(r)'
  <2>1. Active(r) /\ pc'[r] = "model"
    BY <1>4 DEF DataReady, Active
  <2>2. QED
    BY <1>4, <2>1, StaysShape DEF DataReady, AtExperiment
<1>5. ASSUME UseData(r) \/ AnnounceBuild(r) \/ BuildData(r) PROVE ShapeOf(r)'
  BY <1>5, <1>4, EndsShape DEF UseData, AnnounceBuild, BuildData
<1>6. ASSUME ReadModel(r) PROVE ShapeOf(r)'
  <2>1. Active(r) /\ pc'[r] \in {"files", "hash"} /\ todo[r] # <<>>
    BY <1>6 DEF ReadModel, HasModel, Active
  <2>2. QED
    BY <1>6, <2>1, StaysShape DEF ReadModel, AtExperiment
<1>7. ASSUME HashModel(r) PROVE ShapeOf(r)'
  <2>1. Active(r) /\ todo[r] # <<>>
    BY <1>7, <1>0 DEF HashModel, Active, AtExperiment
  <2>2. CASE Fails(r, "model")
    BY <2>1, <2>2, FailsShape
  <2>3. CASE HasModel(r, hashing[r].content) /\ UNCHANGED <<stage, todo, kept, found, rc, batchVars>>
    <3>1. pc'[r] = "files"
      BY <2>3 DEF HasModel
    <3>2. QED
      BY <2>1, <2>3, <3>1, StaysShape
  <2>4. QED
    BY <1>7, <2>2, <2>3 DEF HashModel
<1>8. ASSUME ReadFiles(r) \/ ReadDataset(r) PROVE ShapeOf(r)'
  <2>1. Active(r) /\ pc'[r] \in {"dataset", "check"} /\ todo[r] # <<>>
    BY <1>8, <1>0 DEF ReadFiles, ReadDataset, Active, AtExperiment
  <2>2. QED
    BY <1>8, <2>1, StaysShape DEF ReadFiles, ReadDataset
<1>9. ASSUME IdentityError(r) PROVE ShapeOf(r)'
  BY <1>9, <1>0, FailsShape DEF IdentityError, Active, AtExperiment
<1>10. ASSUME Accept(r), UNCHANGED <<stage, found, rc, batchVars, identVars>>,
              Active(r), todo[r] # <<>>
       PROVE  ShapeOf(r)'
  <2>1. CASE stage[r] = "launch"
    <3>1. pc'[r] = "launch"
      BY <1>10, <2>1 DEF Accept
    <3>2. QED
      BY <1>10, <2>1, <3>1, StaysShape DEF Accept
  <2>2. CASE stage[r] = "plan"
    BY <1>10, <2>2, AdvanceShape DEF Accept
  <2>3. QED
    BY <2>1, <2>2
<1>11. ASSUME Check(r) PROVE ShapeOf(r)'
  <2>1. Active(r) /\ todo[r] # <<>>
    BY <1>11, <1>0 DEF Check, Active, AtExperiment
  <2>2. CASE Fails(r, "model")
    BY <2>1, <2>2, FailsShape
  <2>3. CASE /\ pc' = [pc EXCEPT ![r] = "rename"] /\ ~Unverifiable(r, Current(r)) /\ ~Dry(r)
             /\ UNCHANGED <<stage, todo, kept, found, rc, batchVars, identVars>>
    <3>1. pc'[r] = "rename" /\ stage[r] = "plan"
      BY <2>3 DEF Unverifiable
    <3>2. QED
      BY <2>1, <2>3, <3>1, StaysShape
  <2>4. CASE Accept(r) /\ UNCHANGED <<stage, found, rc, batchVars, identVars>>
    BY <2>1, <2>4, <1>10
  <2>5. QED
    BY <1>11, <2>2, <2>3, <2>4 DEF Check
<1>12. ASSUME Rename(r) PROVE ShapeOf(r)'
  BY <1>12, <1>0, <1>10 DEF Rename, Active, AtExperiment
<1>13. ASSUME Validated(r) PROVE ShapeOf(r)'
  <2>1. CASE Ends(r, 0) \/ Ends(r, 1)
    BY <2>1, EndsShape
  <2>2. CASE /\ ~Dry(r)
             /\ stage' = [stage EXCEPT ![r] = "launch"]
             /\ todo' = [todo EXCEPT ![r] = kept[r]]
             /\ kept' = [kept EXCEPT ![r] = <<>>]
             /\ UNCHANGED <<pc, found, rc, batchVars, identVars>>
    BY <1>13, <2>2, SwitchShape DEF Validated, Active
  <2>3. QED
    BY <1>13, <2>1, <2>2 DEF Validated
<1>14. ASSUME Launch(r) PROVE ShapeOf(r)'
  <2>1. Active(r) /\ todo[r] # <<>> /\ stage[r] = "launch"
    BY <1>14, <1>0 DEF Launch, Active, AtExperiment, ShapeOf
  <2>2. CASE Fails(r, "model")
    BY <2>1, <2>2, FailsShape
  <2>3. CASE /\ pc' = [pc EXCEPT ![r] = "wait"]
             /\ UNCHANGED <<stage, todo, kept, found, rc, batchVars, identVars>>
    BY <2>1, <2>3, StaysShape
  <2>4. QED
    BY <1>14, <2>2, <2>3 DEF Launch
<1>15. ASSUME Reap(r) PROVE ShapeOf(r)'
  <2>1. Active(r) /\ todo[r] # <<>>
    BY <1>15, <1>0 DEF Reap, Active, AtExperiment
  <2>2. CASE Fails(r, "model")
    BY <2>1, <2>2, FailsShape
  <2>3. CASE Advance(r, "model", FALSE) /\ UNCHANGED <<stage, found, rc, batchVars, identVars>>
    BY <2>1, <2>3, AdvanceShape
  <2>4. QED
    BY <1>15, <2>2, <2>3 DEF Reap
<1>16. ASSUME Launched(r) \/ Interrupt(r) \/ Kill(r) PROVE ShapeOf(r)'
  BY <1>16, EndsShape DEF Launched, Interrupt, Kill
<1>17. QED
  BY <1>1, <1>2, <1>3, <1>5, <1>6, <1>7, <1>8, <1>9, <1>11, <1>12, <1>13, <1>14, <1>15, <1>16
     DEF RunnerAction, RunnerStep

\* Types and Shape are kept by every step.
LEMMA ShapeStep ==
  ASSUME Types, Shape, [Next]_vars
  PROVE  Types' /\ Shape'
<1>1. ASSUME NEW r \in Runners, RunnerAction(r) PROVE Types' /\ Shape'
  <2>1. Types'
    BY <1>1, PlanTypes, IdentityTypes, CourseTypes DEF RunnerAction, RunnerStep
  <2>2. ASSUME NEW q \in Runners PROVE ShapeOf(q)'
    <3>1. CASE q = r
      BY <1>1, <3>1, ShapeOfStep, ShapeByRunner
    <3>2. CASE q # r
      <4>1. ShapeOf(q) /\ Unmoved(q)
        BY <1>1, <3>2, OthersUnmoved, ShapeByRunner
      <4>2. QED
        BY <4>1 DEF Unmoved, ShapeOf, Active, Dry, Pending, Kept, Selected, AtExperiment
    <3>3. QED
      BY <3>1, <3>2
  <2>3. QED
    BY <2>1, <2>2 DEF Shape, ShapeOf
<1>2. ASSUME UNCHANGED runnerVars PROVE Shape'
  BY <1>2 DEF runnerVars, control, batchVars, Shape, Active, Dry, Pending, Kept, Selected,
     AtExperiment
<1>3. ASSUME Edit \/ \E e \in Experiments : TrainingStep(e) \/ Die(e) PROVE Types' /\ Shape'
  BY <1>3, <1>2, EditTypes, TrainingTypes, RunnersUnmoved
<1>4. ASSUME UNCHANGED vars PROVE Types' /\ Shape'
  <2>1. Types'
    BY <1>4 DEF vars, worldVars, disk, runnerVars, control, batchVars, identVars, childVars,
       ghosts, Types, WorldTypes, DiskTypes, ControlTypes, BatchTypes, IdentTypes, ChildTypes,
       GhostTypes
  <2>2. QED
    BY <1>4, <2>1, <1>2 DEF vars
<1>5. QED
  BY <1>1, <1>3, <1>4 DEF Next, RunnerAction

\* A batch that goes on keeps its command line and number; the processes only
\* change when one is launched or has ended.
LEMMA StepFacts ==
  ASSUME Types, NEW r \in Runners, RunnerStep(r)
  PROVE  /\ Active(r)
         /\ \/ \E code \in {0, 1} : Ends(r, code)
            \/ Active(r)' /\ UNCHANGED <<args, serial>>
         /\ pc[r] \in {"launch", "wait"} \/ UNCHANGED <<childVars, launched>>
<1> USE DEF Types, ControlTypes, batchVars
<1>1. ASSUME NEW loop \in {"plan", "model"}, Fails(r, loop)
      PROVE  Ends(r, 1) \/ (Active(r)' /\ UNCHANGED <<args, serial>>)
  BY <1>1 DEF Fails, Advance, Active
<1>2. CASE Plan(r)
  BY <1>2, <1>1 DEF Plan, Advance, Active, ghosts
<1>3. CASE Planned(r)
  BY <1>3 DEF Planned, Active, ghosts
<1>4. CASE UseData(r) \/ AnnounceBuild(r) \/ BuildData(r)
  BY <1>4 DEF UseData, AnnounceBuild, BuildData, DataReady, Active, ghosts
<1>5. CASE ReadModel(r) \/ HashModel(r)
  BY <1>5, <1>1 DEF ReadModel, HashModel, HasModel, Active, ghosts
<1>6. CASE ReadFiles(r) \/ ReadDataset(r) \/ IdentityError(r)
  BY <1>6, <1>1 DEF ReadFiles, ReadDataset, IdentityError, Active, ghosts
<1>7. CASE Check(r)
  BY <1>7, <1>1 DEF Check, Accept, Advance, Active, ghosts
<1>8. CASE Rename(r) \/ Validated(r) \/ Launched(r)
  BY <1>8 DEF Rename, Accept, Advance, Validated, Launched, Active, ghosts
<1>9. CASE Launch(r)
  BY <1>9, <1>1 DEF Launch, Active
<1>10. CASE Reap(r)
  BY <1>10, <1>1 DEF Reap, Advance, Active
<1>11. QED
  BY <1>2, <1>3, <1>4, <1>5, <1>6, <1>7, <1>8, <1>9, <1>10 DEF RunnerStep

\* A process that is alive after a step was alive before, or has been launched.
LEMMA AliveFacts ==
  ASSUME Types, Shape, [Next]_vars, NEW e \in Experiments, Alive(e)'
  PROVE  \/ Alive(e)
         \/ \E r \in Runners : /\ Launch(r) /\ e = Current(r) /\ pc'[r] = "wait"
                              /\ UNCHANGED <<todo, args>>
<1> USE DEF Types, ChildTypes, Alive
<1>1. ASSUME UNCHANGED proc PROVE Alive(e)
  BY <1>1
<1>2. ASSUME NEW x \in Experiments, TrainingStep(x) \/ Die(x) PROVE Alive(e)
  BY <1>2 DEF TrainingStep, Die, Load, Train, BeginSave, EndSave, Succeed, Exit, childVars
<1>3. ASSUME NEW r \in Runners, RunnerAction(r)
      PROVE  Alive(e) \/ (Launch(r) /\ e = Current(r) /\ pc'[r] = "wait" /\ UNCHANGED <<todo, args>>)
  <2>1. CASE Launch(r)
    BY <2>1 DEF Launch, batchVars, ControlTypes
  <2>2. CASE Reap(r)
    BY <2>2 DEF Reap
  <2>3. CASE Interrupt(r)
    BY <2>3 DEF Interrupt, NotRunning, childVars
  <2>4. CASE Start(r) \/ Kill(r)
    BY <2>4 DEF Start, Kill, childVars
  <2>5. CASE RunnerStep(r) /\ ~Launch(r) /\ ~Reap(r)
    <3>1. UNCHANGED childVars
      BY <2>5 DEF RunnerStep, Plan, Planned, UseData, AnnounceBuild, BuildData, ReadModel, HashModel,
         ReadFiles, ReadDataset, IdentityError, Check, Rename, Validated, Launched
    <3>2. QED
      BY <3>1 DEF childVars
  <2>6. QED
    BY <1>3, <2>1, <2>2, <2>3, <2>4, <2>5 DEF RunnerAction
<1>4. QED
  BY <1>1, <1>2, <1>3 DEF Next, RunnerAction, Edit, vars, childVars

\* A runner is on the experiment it handles and on those it has yet to handle.
LEMMA CurrentFacts ==
  ASSUME Types, Shape, NEW r \in Runners, todo[r] # <<>>
  PROVE  /\ Active(r) /\ Current(r) \in Experiments
         /\ Current(r) \in Pending(r) /\ Current(r) \in Selected(r)
<1>1. todo[r] \in Seq(Experiments) /\ OnceOnly(todo[r]) /\ Active(r)
  BY DEF Types, ControlTypes, Shape
<1>2. Current(r) \in Experiments /\ Current(r) \in Pending(r)
  BY <1>1, TailOf DEF Current, Pending
<1>3. QED
  BY <1>1, <1>2 DEF Shape

\* The experiments of a command line are experiments.
LEMMA SelectedFacts ==
  ASSUME Types, NEW r \in Runners
  PROVE  Selected(r) \subseteq Experiments
<1>1. args[r].select \in Seq(Experiments)
  BY InvocationFacts DEF Types, BatchTypes
<1>2. \A i \in 1..Len(args[r].select) : args[r].select[i] \in Experiments
  BY <1>1
<1>3. QED
  BY <1>2 DEF Selected, Elems

\* Who is at work after a step was at work before with the same command line,
\* or has just been started undisturbed.
LEMMA ActiveFacts ==
  ASSUME Types, Shape, [Next]_vars, NEW r \in Runners, Active(r)'
  PROVE  \/ Active(r) /\ args'[r] = args[r] /\ serial'[r] = serial[r]
         \/ /\ Start(r) /\ ~Active(r) /\ UNCHANGED <<childVars, launched>>
            /\ Undisturbed(args'[r])
            /\ serial'[r] = starts + 1 /\ starts' = starts + 1
<1> USE DEF Types, BatchTypes
<1>1. CASE UNCHANGED runnerVars
  BY <1>1 DEF runnerVars, control, batchVars, Active
<1>2. ASSUME NEW q \in Runners, RunnerAction(q), q # r
      PROVE  Active(r) /\ args'[r] = args[r] /\ serial'[r] = serial[r]
  BY <1>2, OthersUnmoved DEF Unmoved, Active
<1>3. ASSUME RunnerStep(r) PROVE Active(r) /\ args'[r] = args[r] /\ serial'[r] = serial[r]
  BY <1>3, StepFacts, EndsShape
<1>4. ASSUME Interrupt(r) \/ Kill(r) PROVE FALSE
  BY <1>4, EndsShape DEF Interrupt, Kill
<1>5. ASSUME Start(r)
      PROVE  /\ ~Active(r) /\ UNCHANGED <<childVars, launched>>
             /\ Undisturbed(args'[r])
             /\ serial'[r] = starts + 1 /\ starts' = starts + 1
  BY <1>5 DEF Start
<1>6. QED
  BY <1>1, <1>2, <1>3, <1>4, <1>5, RunnersUnmoved DEF Next, RunnerAction, vars

\* No step puts two on one experiment.
LEMMA ExclusiveStep ==
  ASSUME Types, Shape, Exclusive, [Next]_vars
  PROVE  Exclusive'
<1>0. Types' /\ Shape'
  BY ShapeStep
<1>1. ASSUME NEW r \in Runners, NEW q \in Runners, Active(r)', Active(q)', r # q,
             Start(r)
      PROVE  (Selected(r) \cap Selected(q) = {})'
  <2>1. Undisturbed(args'[r])
    BY <1>1 DEF Start, Types, BatchTypes
  <2>2. Active(q) /\ args'[q] = args[q]
    BY <1>1, OthersUnmoved DEF RunnerAction, Unmoved, Active
  <2>3. \A e \in Elems(args'[r].select) : e \notin Elems(args[q].select)
    BY <2>1, <2>2 DEF Undisturbed
  <2>4. QED
    BY <2>2, <2>3 DEF Selected
<1>2. ASSUME NEW r \in Runners, NEW q \in Runners, Active(r)', Active(q)', r # q
      PROVE  (Selected(r) \cap Selected(q) = {})'
  <2>1. CASE Start(r)
    BY <1>1, <1>2, <2>1
  <2>2. CASE Start(q)
    BY <1>1, <1>2, <2>2
  <2>3. CASE ~Start(r) /\ ~Start(q)
    <3>1. Active(r) /\ args'[r] = args[r] /\ Active(q) /\ args'[q] = args[q]
      BY <1>2, <2>3, ActiveFacts
    <3>2. QED
      BY <1>2, <3>1 DEF Exclusive, Selected
  <2>4. QED
    BY <2>1, <2>2, <2>3
<1>3. ASSUME NEW r \in Runners, Active(r)', NEW e \in Selected(r)', Alive(e)'
      PROVE  (pc[r] = "wait" /\ e = Current(r))'
  <2>1. e \in Experiments
    <3>1. args'[r] \in Invocations
      BY <1>0 DEF Types, BatchTypes
    <3>2. args'[r].select \in Seq(Experiments)
      BY <3>1, InvocationFacts
    <3>3. \A i \in 1..Len(args'[r].select) : args'[r].select[i] \in Experiments
      BY <3>2
    <3>4. QED
      BY <1>3, <3>3 DEF Selected, Elems
  <2>2. CASE Start(r)
    <3>1. Alive(e)
      BY <1>3, <2>2 DEF Start, childVars, Alive
    <3>2. Undisturbed(args'[r])
      BY <2>2 DEF Start, Types, BatchTypes
    <3>3. QED
      BY <1>3, <3>1, <3>2 DEF Undisturbed, Selected
  <2>3. CASE ~Start(r)
    <3>1. Active(r) /\ Selected(r)' = Selected(r)
      BY <1>3, <2>3, ActiveFacts DEF Selected
    <3>2. CASE Alive(e)
      <4>1. pc[r] = "wait" /\ e = Current(r)
        BY <1>3, <3>1, <3>2 DEF Exclusive
      <4>2. pc'[r] = "wait" /\ todo'[r] = todo[r]
        <5>1. CASE UNCHANGED runnerVars
          BY <5>1, <4>1 DEF runnerVars, control
        <5>2. ASSUME NEW q \in Runners, RunnerAction(q), q # r
              PROVE pc'[r] = "wait" /\ todo'[r] = todo[r]
          BY <5>2, <4>1, OthersUnmoved DEF Unmoved
        <5>3. ASSUME RunnerAction(r) PROVE FALSE
          <6>1. CASE Reap(r)
            BY <6>1, <3>2, <4>1 DEF Reap
          <6>2. CASE Interrupt(r) \/ Kill(r)
            BY <6>2, <1>3, EndsShape DEF Interrupt, Kill
          <6>3. QED
            BY <5>3, <6>1, <6>2, <4>1, <2>3 DEF RunnerAction, RunnerStep, Plan, Planned, UseData, AnnounceBuild,
               BuildData, ReadModel, HashModel, ReadFiles, ReadDataset, IdentityError, Check,
               Rename, Validated, Launch, Launched
        <5>4. QED
          BY <5>1, <5>2, <5>3, RunnersUnmoved DEF Next, RunnerAction, vars
      <4>3. QED
        BY <4>1, <4>2 DEF Current
    <3>3. CASE ~Alive(e)
      <4>1. PICK q \in Runners : /\ Launch(q) /\ e = Current(q) /\ pc'[q] = "wait"
                                /\ UNCHANGED <<todo, args>>
        BY <1>3, <2>1, <3>3, AliveFacts
      <4>2. Active(q) /\ e \in Selected(q)
        <5>1. todo[q] # <<>>
          BY <4>1 DEF Launch, Shape, AtExperiment
        <5>2. QED
          BY <5>1, <4>1, CurrentFacts
      <4>3. q = r
        BY <4>2, <3>1, <1>3 DEF Exclusive
      <4>4. QED
        BY <4>1, <4>3 DEF Current
    <3>4. QED
      BY <3>2, <3>3
  <2>4. QED
    BY <2>2, <2>3
<1>4. QED
  BY <1>2, <1>3 DEF Exclusive

(***************************************************************************)
(* Identified: identities and manifests.                                   *)
(***************************************************************************)

\* From where a runner comes to each of its points.
LEMMA Arrivals ==
  ASSUME Types, Shape, NEW r \in Runners, RunnerStep(r)
  PROVE  /\ pc'[r] = "hash" => ReadModel(r)
         /\ pc'[r] = "files" => ReadModel(r) \/ HashModel(r)
         /\ pc'[r] = "dataset" => ReadFiles(r)
         /\ pc'[r] = "check" => ReadFiles(r) \/ ReadDataset(r)
         /\ pc'[r] = "rename" => Check(r)
         /\ pc'[r] = "launch" => Check(r) /\ stage[r] = "launch"
         /\ pc'[r] = "wait" => Launch(r)
         /\ pc'[r] = "plan" => Plan(r)
         /\ pc'[r] = "data" => Planned(r)
<1> USE DEF Types, ControlTypes
<1>0. ASSUME NEW code, Ends(r, code) PROVE pc'[r] = "idle"
  BY <1>0 DEF Ends
<1>1. ASSUME NEW loop \in {"plan", "model"}, NEW goesOn, Advance(r, loop, goesOn)
      PROVE pc'[r] = loop
  BY <1>1 DEF Advance
<1>2. ASSUME NEW loop \in {"plan", "model"}, Fails(r, loop) PROVE pc'[r] \in {loop, "idle"}
  BY <1>2, <1>0, <1>1 DEF Fails
<1>3. ASSUME Accept(r) PROVE pc'[r] = "model" \/ (pc'[r] = "launch" /\ stage[r] = "launch")
  BY <1>3, <1>1 DEF Accept
<1>4. CASE Plan(r)
  BY <1>4, <1>1, <1>2 DEF Plan
<1>5. CASE Planned(r)
  BY <1>5, <1>0 DEF Planned
<1>6. CASE UseData(r) \/ AnnounceBuild(r) \/ BuildData(r)
  <2>1. pc'[r] \in {"model", "idle"}
    BY <1>6, <1>0 DEF UseData, AnnounceBuild, BuildData, DataReady
  <2>2. QED
    BY <2>1
<1>7. CASE ReadModel(r)
  BY <1>7 DEF ReadModel, HasModel
<1>8. CASE HashModel(r)
  <2>1. pc'[r] \in {"model", "idle", "files"}
    BY <1>8, <1>2 DEF HashModel, HasModel
  <2>2. QED
    BY <1>8, <2>1
<1>9. CASE ReadFiles(r)
  <2>1. pc'[r] \in {"dataset", "check"}
    BY <1>9 DEF ReadFiles
  <2>2. QED
    BY <1>9, <2>1
<1>10. CASE ReadDataset(r)
  <2>1. pc'[r] = "check"
    BY <1>10 DEF ReadDataset
  <2>2. QED
    BY <1>10, <2>1
<1>11. CASE IdentityError(r)
  BY <1>11, <1>2 DEF IdentityError
<1>12. CASE Check(r)
  <2>1. pc'[r] \in {"rename", "idle", "model"} \/ (pc'[r] = "launch" /\ stage[r] = "launch")
    BY <1>12, <1>2, <1>3 DEF Check
  <2>2. QED
    BY <1>12, <2>1
<1>13. CASE Rename(r)
  <2>1. stage[r] = "plan"
    BY <1>13 DEF Rename, Shape
  <2>2. QED
    BY <1>13, <2>1, <1>3 DEF Rename
<1>14. CASE Validated(r) \/ Launched(r)
  BY <1>14, <1>0 DEF Validated, Launched
<1>15. CASE Launch(r)
  <2>1. pc'[r] \in {"wait", "idle", "model"}
    BY <1>15, <1>2 DEF Launch
  <2>2. QED
    BY <1>15, <2>1
<1>16. CASE Reap(r)
  BY <1>16, <1>1, <1>2 DEF Reap
<1>17. QED
  BY <1>4, <1>5, <1>6, <1>7, <1>8, <1>9, <1>10, <1>11, <1>12, <1>13, <1>14, <1>15, <1>16
     DEF RunnerStep

\* A point within a batch is reached by a step of it, or not left.
LEMMA AtPoint ==
  ASSUME Types, Shape, [Next]_vars, NEW r \in Runners, pc'[r] \notin {"idle", "plan"}
  PROVE  Unmoved(r) \/ RunnerStep(r)
<1>1. CASE UNCHANGED runnerVars
  BY <1>1 DEF runnerVars, control, batchVars, identVars, Unmoved
<1>2. ASSUME NEW q \in Runners, RunnerAction(q), q # r PROVE Unmoved(r)
  BY <1>2, OthersUnmoved
<1>3. ASSUME Start(r) \/ Interrupt(r) \/ Kill(r) PROVE FALSE
  BY <1>3, EndsShape DEF Start, Interrupt, Kill, Types, ControlTypes
<1>4. QED
  BY <1>1, <1>2, <1>3, RunnersUnmoved DEF Next, RunnerAction, vars

\* The request of an identity that has one.
LEMMA RequestFacts ==
  ASSUME Types, NEW r \in Runners, ident[r].request = args[r].request
  PROVE  ident[r] # NoIdentity /\ ident[r].request \in Requests
<1>1. args[r].request \in Requests
  BY InvocationFacts DEF Types, BatchTypes
<1>2. QED
  BY <1>1, RequestsAssumption DEF NoIdentity

\* A manifest only changes when it is written to a directory that has none.
LEMMA ManifestFacts ==
  ASSUME Types, Shape, Identified, [Next]_vars, NEW e \in Experiments
  PROVE  \/ manifest'[e] = manifest[e]
         \/ /\ manifest[e] = NoIdentity
            /\ manifest'[e] # NoIdentity
            /\ \E r \in Runners : Rename(r) /\ e = Current(r) /\ manifest'[e] = ident[r]
<1> USE DEF disk
<1>1. ASSUME NEW r \in Runners, Rename(r)
      PROVE  \/ manifest'[e] = manifest[e]
             \/ /\ manifest[e] = NoIdentity
                /\ manifest'[e] # NoIdentity
                /\ e = Current(r) /\ manifest'[e] = ident[r]
  <2>1. manifest' = [manifest EXCEPT ![Current(r)] = ident[r]]
    BY <1>1 DEF Rename
  <2>2. manifest[Current(r)] = NoIdentity /\ ident[r].request = args[r].request
    BY <1>1 DEF Rename, Identified
  <2>3. ident[r] # NoIdentity
    BY <2>2, RequestFacts
  <2>4. QED
    BY <2>1, <2>2, <2>3 DEF Types, DiskTypes
<1>2. ASSUME NEW r \in Runners, RunnerStep(r), ~Rename(r) PROVE UNCHANGED manifest
  <2>1. CASE Plan(r) \/ Planned(r) \/ UseData(r) \/ AnnounceBuild(r) \/ BuildData(r)
    BY <2>1 DEF Plan, Planned, UseData, AnnounceBuild, BuildData
  <2>2. CASE ReadModel(r) \/ HashModel(r) \/ ReadFiles(r) \/ ReadDataset(r) \/ IdentityError(r)
    BY <2>2 DEF ReadModel, HashModel, ReadFiles, ReadDataset, IdentityError
  <2>3. CASE Check(r) \/ Validated(r) \/ Launch(r) \/ Reap(r) \/ Launched(r)
    BY <2>3 DEF Check, Validated, Launch, Reap, Launched
  <2>4. QED
    BY <1>2, <2>1, <2>2, <2>3 DEF RunnerStep
<1>3. ASSUME NEW r \in Runners, Start(r) \/ Interrupt(r) \/ Kill(r) PROVE UNCHANGED manifest
  BY <1>3 DEF Start, Interrupt, Kill
<1>4. ASSUME Edit \/ UNCHANGED vars \/ \E x \in Experiments : TrainingStep(x) \/ Die(x)
      PROVE UNCHANGED manifest
  BY <1>4 DEF Edit, vars, TrainingStep, Die, Load, Train, BeginSave, EndSave, Succeed, Exit
<1>5. QED
  BY <1>1, <1>2, <1>3, <1>4 DEF Next

\* What has been launched before, or is being launched.
LEMMA LaunchedFacts ==
  ASSUME Types, Shape, [Next]_vars, NEW l \in launched'
  PROVE  \/ l \in launched
         \/ \E r \in Runners :
               /\ Launch(r) /\ pc'[r] = "wait" /\ UNCHANGED <<stage, todo, kept, batchVars, identVars>>
               /\ l = [experiment |-> Current(r), batch |-> serial[r], identity |-> ident[r]]
<1>1. ASSUME NEW r \in Runners, Launch(r)
      PROVE  \/ l \in launched
             \/ /\ pc'[r] = "wait" /\ UNCHANGED <<stage, todo, kept, batchVars, identVars>>
                /\ l = [experiment |-> Current(r), batch |-> serial[r], identity |-> ident[r]]
  BY <1>1 DEF Launch, Types, ControlTypes
<1>2. ASSUME NEW r \in Runners, RunnerStep(r), ~Launch(r) PROVE UNCHANGED launched
  <2>1. CASE Reap(r)
    BY <2>1 DEF Reap, ghosts
  <2>2. CASE ~Reap(r)
    <3>1. pc[r] \notin {"launch", "wait"}
      BY <1>2, <2>2 DEF RunnerStep, Plan, Planned, UseData, AnnounceBuild,
         BuildData, ReadModel, HashModel, ReadFiles, ReadDataset, IdentityError, Check,
         Rename, Validated, Launched
    <3>2. QED
      BY <1>2, <3>1, StepFacts
  <2>3. QED
    BY <2>1, <2>2
<1>3. ASSUME NEW r \in Runners, Start(r) \/ Interrupt(r) \/ Kill(r) PROVE UNCHANGED launched
  BY <1>3 DEF Start, Interrupt, Kill, ghosts
<1>4. ASSUME Edit \/ UNCHANGED vars \/ \E x \in Experiments : TrainingStep(x) \/ Die(x)
      PROVE UNCHANGED launched
  BY <1>4 DEF Edit, vars, ghosts, TrainingStep, Die, Load, Train, BeginSave, EndSave, Succeed, Exit
<1>5. QED
  BY <1>1, <1>2, <1>3, <1>4 DEF Next

\* What a directory holds was there, or comes of a process or its launch.
LEMMA ArtifactFacts ==
  ASSUME Types, Shape, [Next]_vars, NEW e \in Experiments,
         logs'[e] \/ begun'[e] \/ saved'[e] > 0
  PROVE  \/ logs[e] \/ begun[e] \/ saved[e] > 0 \/ Alive(e)
         \/ \E r \in Runners : Launch(r) /\ e = Current(r)
<1> USE DEF disk, Types, DiskTypes
<1>1. ASSUME UNCHANGED <<logs, begun, saved>> PROVE logs[e] \/ begun[e] \/ saved[e] > 0
  BY <1>1
<1>2. ASSUME NEW r \in Runners, Launch(r)
      PROVE  logs[e] \/ begun[e] \/ saved[e] > 0 \/ e = Current(r)
  BY <1>2 DEF Launch
<1>3. ASSUME NEW r \in Runners, RunnerStep(r), ~Launch(r) PROVE UNCHANGED <<logs, begun, saved>>
  <2>1. CASE Plan(r) \/ Planned(r) \/ UseData(r) \/ AnnounceBuild(r) \/ BuildData(r)
    BY <2>1 DEF Plan, Planned, UseData, AnnounceBuild, BuildData
  <2>2. CASE ReadModel(r) \/ HashModel(r) \/ ReadFiles(r) \/ ReadDataset(r) \/ IdentityError(r)
    BY <2>2 DEF ReadModel, HashModel, ReadFiles, ReadDataset, IdentityError
  <2>3. CASE Check(r) \/ Validated(r) \/ Rename(r) \/ Reap(r) \/ Launched(r)
    BY <2>3 DEF Check, Validated, Rename, Reap, Launched
  <2>4. QED
    BY <1>3, <2>1, <2>2, <2>3 DEF RunnerStep
<1>4. ASSUME NEW r \in Runners, Start(r) \/ Interrupt(r) \/ Kill(r)
      PROVE UNCHANGED <<logs, begun, saved>>
  BY <1>4 DEF Start, Interrupt, Kill
<1>5. ASSUME Edit \/ UNCHANGED vars PROVE UNCHANGED <<logs, begun, saved>>
  BY <1>5 DEF Edit, vars
<1>6. ASSUME NEW x \in Experiments, TrainingStep(x) \/ Die(x)
      PROVE  logs[e] \/ begun[e] \/ saved[e] > 0 \/ Alive(e)
  <2>1. CASE Load(x) \/ Train(x) \/ Succeed(x) \/ Die(x)
    BY <2>1, <1>1 DEF Load, Train, Succeed, Die, Exit
  <2>2. CASE BeginSave(x) \/ EndSave(x)
    BY <2>2, <1>1 DEF BeginSave, EndSave, Alive
  <2>3. QED
    BY <1>6, <2>1, <2>2 DEF TrainingStep
<1>7. QED
  BY <1>1, <1>2, <1>3, <1>4, <1>5, <1>6 DEF Next

\* Identities stay what they are compared with and recorded as.
LEMMA IdentifiedStep ==
  ASSUME Types, Shape, Exclusive, Identified, [Next]_vars
  PROVE  Identified'
<1>1. ASSUME NEW r \in Runners, pc'[r] \in {"dataset", "check", "rename", "launch"}
      PROVE  ident'[r].request = args'[r].request
  <2>1. CASE Unmoved(r)
    BY <1>1, <2>1 DEF Unmoved, Identified
  <2>2. CASE RunnerStep(r)
    <3>1. args'[r] = args[r]
      BY <1>1, <2>2, StepFacts, EndsShape
    <3>2. CASE ReadFiles(r)
      BY <3>1, <3>2 DEF ReadFiles, Types, IdentTypes, Identity
    <3>3. CASE ReadDataset(r)
      BY <3>1, <3>3 DEF ReadDataset, Types, IdentTypes, Identity, Identified
    <3>4. CASE Check(r)
      <4>1. pc[r] = "check"
        BY <3>4 DEF Check
      <4>2. CASE \E code : Ends(r, code)
        BY <1>1, <4>2, EndsShape
      <4>3. CASE UNCHANGED ident
        BY <3>1, <4>1, <4>3 DEF Identified
      <4>4. QED
        BY <3>4, <4>2, <4>3 DEF Check, Fails, identVars
    <3>5. QED
      BY <1>1, <2>2, <3>2, <3>3, <3>4, Arrivals
  <2>3. QED
    BY <1>1, <2>1, <2>2, AtPoint
<1>2. ASSUME NEW r \in Runners, pc'[r] = "rename"
      PROVE  (manifest[Current(r)] = NoIdentity)'
  <2>1. CASE Unmoved(r)
    <3>1. /\ manifest[Current(r)] = NoIdentity /\ Current(r)' = Current(r) /\ todo[r] # <<>>
          /\ pc[r] = "rename"
      BY <1>2, <2>1 DEF Unmoved, Identified, Current, Shape, AtExperiment
    <3>2. Active(r) /\ Current(r) \in Selected(r) /\ Current(r) \in Experiments
      BY <3>1, CurrentFacts
    <3>3. ASSUME NEW q \in Runners, Rename(q), Current(q) = Current(r) PROVE FALSE
      <4>1. todo[q] # <<>>
        BY <3>3 DEF Rename, Shape, AtExperiment
      <4>2. q = r
        BY <3>2, <3>3, <4>1, CurrentFacts DEF Exclusive
      <4>3. RunnerStep(r)
        BY <3>3, <4>2 DEF RunnerStep
      <4>4. Check(r)
        BY <1>2, <4>3, Arrivals
      <4>5. QED
        BY <3>1, <4>4 DEF Check
    <3>4. QED
      BY <3>1, <3>2, <3>3, ManifestFacts
  <2>2. CASE RunnerStep(r)
    <3>1. Check(r)
      BY <1>2, <2>2, Arrivals
    <3>2. /\ manifest[Current(r)] = NoIdentity /\ UNCHANGED <<manifest, todo>>
      <4>1. ~Accept(r) /\ ~Fails(r, "model")
        <5>1. stage[r] = "launch" \/ stage[r] = "plan"
          BY DEF Types, ControlTypes
        <5>2. ASSUME Ends(r, 1) PROVE FALSE
          BY <1>2, <5>2, EndsShape
        <5>3. ASSUME NEW goesOn, Advance(r, "model", goesOn) PROVE FALSE
          BY <1>2, <5>3 DEF Advance, Types, ControlTypes
        <5>4. QED
          BY <1>2, <5>1, <5>2, <5>3 DEF Accept, Fails, Types, ControlTypes
      <4>2. QED
        BY <3>1, <4>1 DEF Check
    <3>3. QED
      BY <3>2 DEF Current
  <2>3. QED
    BY <1>2, <2>1, <2>2, AtPoint
<1>3. ASSUME NEW r \in Runners, pc'[r] = "launch"
      PROVE  (manifest[Current(r)] = ident[r])'
  <2>1. CASE Unmoved(r)
    <3>1. /\ manifest[Current(r)] = ident[r] /\ Current(r)' = Current(r) /\ todo[r] # <<>>
          /\ ident'[r] = ident[r] /\ ident[r].request = args[r].request
      BY <1>3, <2>1 DEF Unmoved, Identified, Current, Shape, AtExperiment
    <3>2. Current(r) \in Experiments /\ ident[r] # NoIdentity
      BY <3>1, CurrentFacts, RequestFacts
    <3>3. QED
      BY <3>1, <3>2, ManifestFacts
  <2>2. CASE RunnerStep(r)
    <3>1. Check(r) /\ stage[r] = "launch"
      BY <1>3, <2>2, Arrivals
    <3>2. ~Fails(r, "model")
      <4>1. ASSUME Ends(r, 1) PROVE FALSE
        BY <1>3, <4>1, EndsShape
      <4>2. QED
        BY <1>3, <4>1 DEF Fails, Advance, Types, ControlTypes
    <3>3. Matches(r, Current(r)) /\ UNCHANGED <<manifest, todo, identVars>>
      BY <3>1, <3>2 DEF Check, Unverifiable, Accept
    <3>4. QED
      BY <3>1, <3>3 DEF Matches, View, WithData, identVars, Current
  <2>3. QED
    BY <1>3, <2>1, <2>2, AtPoint
<1>4. ASSUME NEW r \in Runners, Launch(r)
      PROVE  /\ Current(r) \in Experiments
             /\ manifest[Current(r)] = ident[r] /\ ident[r] # NoIdentity
             /\ manifest'[Current(r)] = ident[r]
  <2>1. /\ manifest[Current(r)] = ident[r] /\ ident[r].request = args[r].request
        /\ todo[r] # <<>> /\ UNCHANGED manifest
    BY <1>4 DEF Launch, Identified, Shape, AtExperiment
  <2>2. QED
    BY <2>1, RequestFacts, CurrentFacts
<1>5. ASSUME NEW l \in launched'
      PROVE  manifest'[l.experiment] = l.identity /\ l.identity # NoIdentity
  <2>1. CASE l \in launched
    <3>1. l.experiment \in Experiments
      BY <2>1 DEF Types, GhostTypes
    <3>2. QED
      BY <2>1, <3>1, ManifestFacts DEF Identified
  <2>2. CASE l \notin launched
    BY <1>5, <2>2, <1>4, LaunchedFacts
  <2>3. QED
    BY <2>1, <2>2
<1>6. ASSUME NEW e \in Experiments, (logs[e] \/ begun[e] \/ saved[e] > 0 \/ Alive(e))'
      PROVE  manifest'[e] # NoIdentity
  <2>1. \/ logs[e] \/ begun[e] \/ saved[e] > 0 \/ Alive(e)
        \/ \E r \in Runners : Launch(r) /\ e = Current(r)
    BY <1>6, ArtifactFacts, AliveFacts
  <2>2. CASE logs[e] \/ begun[e] \/ saved[e] > 0 \/ Alive(e)
    <3>1. manifest[e] # NoIdentity
      BY <2>2 DEF Identified, ManifestPrecedesArtifacts
    <3>2. QED
      BY <3>1, ManifestFacts
  <2>3. QED
    BY <2>1, <2>2, <1>4
<1>7. QED
  BY <1>1, <1>2, <1>3, <1>5, <1>6 DEF Identified, ManifestPrecedesArtifacts

(***************************************************************************)
(* HashesSound and DriftKnown: what was read, and what the world is.       *)
(***************************************************************************)

\* The steps that read a part of the world.
Reads(r) == ReadModel(r) \/ ReadFiles(r) \/ ReadDataset(r)

Changing == {"model", "files", "data"}

\* A content does not change without a note for every launch under way, and
\* the model not without new metadata.
LEMMA WorldFacts ==
  ASSUME Types, [Next]_vars
  PROVE  /\ \A p \in Changing : World(p)' = World(p) \/ Drifted(p)
         /\ \/ stamp' = stamp /\ model' = model
            \/ stamp' = stamp + 1
<1>1. ASSUME UNCHANGED worldVars
      PROVE  /\ \A p \in Changing : World(p)' = World(p)
             /\ stamp' = stamp /\ model' = model
  BY <1>1 DEF worldVars, World, Changing
<1>2. ASSUME Edit
      PROVE  /\ \A p \in Changing : World(p)' = World(p) \/ Drifted(p)
             /\ \/ stamp' = stamp /\ model' = model
                \/ stamp' = stamp + 1
  BY <1>2 DEF Edit, EditModel, RecopyModel, EditFiles, EditDataset, World, Changing
<1>3. ASSUME NEW r \in Runners, BuildData(r)
      PROVE  /\ \A p \in Changing : World(p)' = World(p) \/ Drifted(p)
             /\ stamp' = stamp /\ model' = model
  BY <1>3 DEF BuildData, World, Changing
<1>4. ASSUME NEW r \in Runners, RunnerStep(r), ~BuildData(r) PROVE UNCHANGED worldVars
  <2>1. CASE Plan(r) \/ Planned(r) \/ UseData(r) \/ AnnounceBuild(r)
    BY <2>1 DEF Plan, Planned, UseData, AnnounceBuild
  <2>2. CASE ReadModel(r) \/ HashModel(r) \/ ReadFiles(r) \/ ReadDataset(r) \/ IdentityError(r)
    BY <2>2 DEF ReadModel, HashModel, ReadFiles, ReadDataset, IdentityError
  <2>3. CASE Check(r) \/ Rename(r) \/ Validated(r) \/ Launch(r) \/ Reap(r) \/ Launched(r)
    BY <2>3 DEF Check, Rename, Validated, Launch, Reap, Launched
  <2>4. QED
    BY <1>4, <2>1, <2>2, <2>3 DEF RunnerStep
<1>5. ASSUME NEW r \in Runners, Start(r) \/ Interrupt(r) \/ Kill(r) PROVE UNCHANGED worldVars
  BY <1>5 DEF Start, Interrupt, Kill
<1>6. ASSUME UNCHANGED vars \/ \E x \in Experiments : TrainingStep(x) \/ Die(x)
      PROVE UNCHANGED worldVars
  BY <1>6 DEF vars, TrainingStep, Die, Load, Train, BeginSave, EndSave, Succeed, Exit
<1>7. QED
  BY <1>1, <1>2, <1>3, <1>4, <1>5, <1>6 DEF Next

\* The notes about an experiment are dropped part by part when its launch
\* reads the world, and altogether when its process ends.
LEMMA DriftFacts ==
  ASSUME Types, Shape, [Next]_vars, NEW e \in Experiments
  PROVE  \/ drift[e] \subseteq drift'[e]
         \/ \E r \in Runners : Reads(r) /\ stage[r] = "launch" /\ e = Current(r)
         \/ Alive(e) /\ ~Alive(e)'
         \/ \E r \in Runners : /\ Interrupt(r) /\ pc[r] = "wait" /\ e = Current(r)
                              /\ ~Alive(e)'
<1> USE DEF Types, GhostTypes, ChildTypes
<1>1. ASSUME UNCHANGED drift PROVE drift[e] \subseteq drift'[e]
  BY <1>1
<1>2. ASSUME NEW p, Drifted(p) PROVE drift[e] \subseteq drift'[e]
  BY <1>2 DEF Drifted
<1>3. ASSUME Edit PROVE drift[e] \subseteq drift'[e]
  BY <1>3, <1>2 DEF Edit, EditModel, RecopyModel, EditFiles, EditDataset
<1>4. ASSUME NEW r \in Runners, RunnerStep(r), ~Reads(r) PROVE drift[e] \subseteq drift'[e]
  <2>1. CASE Plan(r) \/ Planned(r) \/ UseData(r) \/ AnnounceBuild(r) \/ BuildData(r)
    BY <2>1, <1>1, <1>2 DEF Plan, Planned, UseData, AnnounceBuild, BuildData, ghosts
  <2>2. CASE HashModel(r) \/ IdentityError(r) \/ Check(r) \/ Rename(r)
    BY <2>2, <1>1 DEF HashModel, IdentityError, Check, Rename, ghosts
  <2>3. CASE Validated(r) \/ Launch(r) \/ Reap(r) \/ Launched(r)
    BY <2>3, <1>1 DEF Validated, Launch, Reap, Launched, ghosts
  <2>4. QED
    BY <1>4, <2>1, <2>2, <2>3 DEF RunnerStep, Reads
<1>5. ASSUME NEW r \in Runners, Reads(r)
      PROVE  drift[e] \subseteq drift'[e] \/ (stage[r] = "launch" /\ e = Current(r))
  BY <1>5 DEF Reads, ReadModel, ReadFiles, ReadDataset, Read
<1>6. ASSUME NEW r \in Runners, Start(r) \/ Kill(r) PROVE drift[e] \subseteq drift'[e]
  BY <1>6, <1>1 DEF Start, Kill, ghosts
<1>7. ASSUME NEW r \in Runners, Interrupt(r)
      PROVE  drift[e] \subseteq drift'[e] \/ (pc[r] = "wait" /\ e = Current(r) /\ ~Alive(e)')
  BY <1>7, <1>1 DEF Interrupt, NotRunning, Alive
<1>8. ASSUME NEW x \in Experiments, TrainingStep(x) \/ Die(x)
      PROVE  drift[e] \subseteq drift'[e] \/ (Alive(e) /\ ~Alive(e)')
  <2>1. CASE Load(x) \/ Train(x) \/ BeginSave(x) \/ EndSave(x)
    BY <2>1, <1>1 DEF Load, Train, BeginSave, EndSave, ghosts
  <2>2. CASE Succeed(x) \/ Die(x)
    BY <2>2 DEF Succeed, Die, Exit, Alive
  <2>3. QED
    BY <1>8, <2>1, <2>2 DEF TrainingStep
<1>9. QED
  BY <1>1, <1>3, <1>4, <1>5, <1>6, <1>7, <1>8 DEF Next, RunnerStep, Reads, vars, ghosts

\* Hashes in memory and in the cache stay true to the model.
LEMMA HashesStep ==
  ASSUME Types, Shape, HashesSound, [Next]_vars
  PROVE  HashesSound'
<1> USE DEF Types, WorldTypes, DiskTypes, IdentTypes, HashState
<1>1. ASSUME NEW h \in HashState, h.meta <= stamp, h.meta = stamp => h.content = model
      PROVE  h.meta <= stamp' /\ (h.meta = stamp' => h.content = model')
  <2>1. (stamp' = stamp /\ model' = model) \/ stamp' = stamp + 1
    BY WorldFacts
  <2>2. QED
    BY <1>1, <2>1
<1>2. Types'
  BY ShapeStep
<1>3. ASSUME NEW r \in Runners
      PROVE  /\ hashing'[r].meta <= stamp'
             /\ hashing'[r].meta = stamp' => hashing'[r].content = model'
  <2>1. CASE hashing'[r] = hashing[r]
    BY <2>1, <1>1 DEF HashesSound
  <2>2. CASE hashing'[r] = [meta |-> Absent, content |-> Absent]
    BY <2>2, <1>2 DEF Absent
  <2>3. CASE ReadModel(r) /\ hashing' = [hashing EXCEPT ![r] = [meta |-> stamp, content |-> model]]
    BY <2>3, <1>1 DEF ReadModel, worldVars
  <2>4. ASSUME NEW q \in Runners, RunnerAction(q), q # r PROVE hashing'[r] = hashing[r]
    BY <2>4, OthersUnmoved DEF Unmoved
  <2>5. ASSUME NEW code, Ends(r, code) PROVE hashing'[r] = [meta |-> Absent, content |-> Absent]
    BY <2>5 DEF Ends
  <2>6. ASSUME NEW loop, Fails(r, loop)
        PROVE hashing'[r] \in {hashing[r], [meta |-> Absent, content |-> Absent]}
    BY <2>6, <2>5 DEF Fails, identVars
  <2>7. ASSUME RunnerAction(r)
        PROVE  \/ hashing'[r] \in {hashing[r], [meta |-> Absent, content |-> Absent]}
               \/ /\ ReadModel(r)
                  /\ hashing' = [hashing EXCEPT ![r] = [meta |-> stamp, content |-> model]]
    <3>1. CASE Start(r) \/ Plan(r) \/ Planned(r) \/ UseData(r) \/ AnnounceBuild(r) \/ BuildData(r)
      BY <3>1, <2>5, <2>6 DEF Start, Plan, Planned, UseData, AnnounceBuild, BuildData, DataReady, identVars
    <3>2. CASE ReadModel(r) \/ HashModel(r) \/ ReadFiles(r) \/ ReadDataset(r) \/ IdentityError(r)
      BY <3>2, <2>6 DEF ReadModel, HashModel, ReadFiles, ReadDataset, IdentityError, identVars
    <3>3. CASE Check(r) \/ Rename(r) \/ Validated(r) \/ Launch(r) \/ Reap(r) \/ Launched(r)
      BY <3>3, <2>5, <2>6 DEF Check, Rename, Validated, Launch, Reap, Launched, identVars
    <3>4. CASE Interrupt(r) \/ Kill(r)
      BY <3>4, <2>5 DEF Interrupt, Kill
    <3>5. QED
      BY <2>7, <3>1, <3>2, <3>3, <3>4 DEF RunnerAction, RunnerStep
  <2>8. ASSUME UNCHANGED runnerVars PROVE hashing'[r] = hashing[r]
    BY <2>8 DEF runnerVars, identVars
  <2>9. QED
    BY <2>1, <2>2, <2>3, <2>4, <2>7, <2>8, RunnersUnmoved DEF Next, RunnerAction, vars
<1>4. cache'.meta <= stamp' /\ (cache'.meta = stamp' => cache'.content = model')
  <2>1. CASE cache' = cache
    BY <2>1, <1>1 DEF HashesSound
  <2>2. ASSUME NEW r \in Runners, HashModel(r) PROVE cache' \in {cache, hashing[r]}
    BY <2>2 DEF HashModel, Stored
  <2>3. ASSUME NEW r \in Runners, cache' = hashing[r]
        PROVE cache'.meta <= stamp' /\ (cache'.meta = stamp' => cache'.content = model')
    BY <2>3, <1>1 DEF HashesSound
  <2>4. ASSUME NEW r \in Runners, RunnerAction(r), ~HashModel(r) PROVE cache' = cache
    <3>1. CASE Start(r) \/ Plan(r) \/ Planned(r) \/ UseData(r) \/ AnnounceBuild(r) \/ BuildData(r)
      BY <3>1 DEF Start, Plan, Planned, UseData, AnnounceBuild, BuildData, disk
    <3>2. CASE ReadModel(r) \/ ReadFiles(r) \/ ReadDataset(r) \/ IdentityError(r)
      BY <3>2 DEF ReadModel, ReadFiles, ReadDataset, IdentityError, disk
    <3>3. CASE Check(r) \/ Rename(r) \/ Validated(r) \/ Launch(r) \/ Reap(r) \/ Launched(r)
      BY <3>3 DEF Check, Rename, Validated, Launch, Reap, Launched, disk
    <3>4. CASE Interrupt(r) \/ Kill(r)
      BY <3>4 DEF Interrupt, Kill, disk
    <3>5. QED
      BY <2>4, <3>1, <3>2, <3>3, <3>4 DEF RunnerAction, RunnerStep
  <2>5. ASSUME Edit \/ UNCHANGED vars \/ \E x \in Experiments : TrainingStep(x) \/ Die(x)
        PROVE cache' = cache
    BY <2>5 DEF Edit, vars, disk, TrainingStep, Die, Load, Train, BeginSave, EndSave, Succeed, Exit
  <2>6. QED
    BY <2>1, <2>2, <2>3, <2>4, <2>5 DEF Next, RunnerAction
<1>5. QED
  BY <1>3, <1>4 DEF HashesSound

\* What reading does to the identity under construction and the notes, in a
\* pass that launches.
LEMMA ReadFacts ==
  ASSUME Types, Shape, HashesSound, NEW r \in Runners, stage[r] = "launch", RunnerStep(r),
         NEW p \in PartsRead(r)'
  PROVE  /\ stage'[r] = "launch"
         /\ p \in Changing
         /\ todo'[r] = todo[r] /\ args'[r] = args[r] /\ UNCHANGED worldVars
         /\ pc[r] # "wait" /\ todo[r] # <<>>
         /\ \/ /\ ident'[r][p] = World(p)
               /\ p \in drift'[Current(r)] => p \in drift[Current(r)]
               /\ p \notin PartsRead(r) => Reads(r) \/ HashModel(r)
            \/ /\ ident'[r][p] = ident[r][p]
               /\ p \in PartsRead(r)
               /\ p \in drift[Current(r)] => p \in drift'[Current(r)]
<1> USE DEF Types, ControlTypes, IdentTypes, Identity
<1>0. pc'[r] \in {"files", "dataset", "check", "launch"}
  BY DEF PartsRead
<1>1. Current(r) \in Experiments \/ todo[r] = <<>>
  BY DEF Current
<1>2. CASE ReadModel(r)
  <2>1. pc'[r] = "files" /\ PartsRead(r)' = {"model"}
    BY <1>0, <1>2 DEF ReadModel, HasModel, PartsRead
  <2>2. HasModel(r, KnownModel(r)) /\ KnownModel(r) # Absent
    BY <2>1, <1>2 DEF ReadModel
  <2>3. KnownModel(r) = model
    BY <2>2 DEF KnownModel, HashesSound
  <2>4. ident'[r].model = model
    BY <2>2, <2>3 DEF HasModel, NoIdentity
  <2>5. drift'[Current(r)] = drift[Current(r)] \ {"model"}
    BY <1>1, <1>2 DEF ReadModel, Read, GhostTypes
  <2>6. QED
    BY <1>2, <2>1, <2>4, <2>5 DEF ReadModel, World, Changing, batchVars, Reads
<1>3. CASE HashModel(r)
  <2>1. ~Fails(r, "model")
    <3>1. \A code : ~Ends(r, code)
      BY <1>0, EndsShape
    <3>2. QED
      BY <1>0, <3>1 DEF Fails, Advance
  <2>2. HasModel(r, hashing[r].content) /\ hashing[r].meta = stamp /\ UNCHANGED <<stage, todo, batchVars>>
    BY <1>3, <2>1 DEF HashModel
  <2>3. hashing[r].content = model
    BY <2>2 DEF HashesSound
  <2>4. ident'[r].model = model /\ pc'[r] = "files"
    BY <2>2, <2>3 DEF HasModel, NoIdentity
  <2>5. PartsRead(r)' = {"model"}
    BY <2>4 DEF PartsRead
  <2>6. todo[r] # <<>>
    BY <1>3 DEF HashModel, Shape, AtExperiment
  <2>7. QED
    BY <1>3, <2>2, <2>4, <2>5, <2>6 DEF HashModel, World, Changing, batchVars, ghosts
<1>4. CASE ReadFiles(r)
  <2>1. /\ pc'[r] = "dataset" /\ PartsRead(r)' = {"model", "files"}
        /\ PartsRead(r) = {"model"}
    BY <1>4 DEF ReadFiles, PartsRead, WithData
  <2>2. ident'[r].files = files /\ ident'[r].model = ident[r].model
    BY <1>4 DEF ReadFiles
  <2>3. todo[r] # <<>>
    BY <1>4 DEF ReadFiles, Shape, AtExperiment
  <2>4. drift'[Current(r)] = drift[Current(r)] \ {"files"}
    BY <1>1, <1>4, <2>3 DEF ReadFiles, Read, GhostTypes
  <2>5. QED
    BY <1>4, <2>1, <2>2, <2>3, <2>4 DEF ReadFiles, World, Changing, batchVars, Reads
<1>5. CASE ReadDataset(r)
  <2>1. /\ pc'[r] = "check" /\ PartsRead(r)' = {"model", "files", "data"}
        /\ PartsRead(r) = {"model", "files"}
    BY <1>5 DEF ReadDataset, PartsRead
  <2>2. ident'[r].data = dataset /\ ident'[r].model = ident[r].model /\ ident'[r].files = ident[r].files
    BY <1>5 DEF ReadDataset
  <2>3. todo[r] # <<>>
    BY <1>5 DEF ReadDataset, Shape, AtExperiment
  <2>4. drift'[Current(r)] = drift[Current(r)] \ {"data"}
    BY <1>1, <1>5, <2>3 DEF ReadDataset, Read, GhostTypes
  <2>5. QED
    BY <1>5, <2>1, <2>2, <2>3, <2>4 DEF ReadDataset, World, Changing, batchVars, Reads
<1>6. CASE Check(r)
  <2>1. ~Fails(r, "model")
    <3>1. \A code : ~Ends(r, code)
      BY <1>0, EndsShape
    <3>2. QED
      BY <1>0, <3>1 DEF Fails, Advance
  <2>2. pc'[r] = "launch" /\ UNCHANGED <<stage, todo, batchVars, identVars>>
    BY <1>0, <1>6, <2>1 DEF Check, Accept, Unverifiable
  <2>3. PartsRead(r)' = PartsRead(r) /\ PartsRead(r) = Changing
    BY <1>6, <2>2 DEF PartsRead, Check, Changing
  <2>4. todo[r] # <<>>
    BY <1>6 DEF Check, Shape, AtExperiment
  <2>5. QED
    BY <1>6, <2>2, <2>3, <2>4 DEF Check, batchVars, identVars, ghosts
<1>7. QED
  BY <1>0, <1>2, <1>3, <1>4, <1>5, <1>6, Arrivals

\* Nothing disturbs the notes about an experiment a runner is launching, but
\* the reads of that runner.
LEMMA LaunchUndisturbed ==
  ASSUME Types, Shape, Exclusive, [Next]_vars, NEW r \in Runners, todo[r] # <<>>,
         pc[r] # "wait", Unmoved(r)
  PROVE  drift[Current(r)] \subseteq drift'[Current(r)]
<1>1. Active(r) /\ Current(r) \in Selected(r) /\ Current(r) \in Experiments
  BY CurrentFacts
<1>2. ~Alive(Current(r))
  BY <1>1 DEF Exclusive
<1>3. ASSUME NEW q \in Runners, todo[q] # <<>>, Current(q) = Current(r) PROVE q = r
  BY <1>1, <1>3, CurrentFacts DEF Exclusive
<1>4. ASSUME NEW q \in Runners, Reads(q), Current(q) = Current(r) PROVE FALSE
  <2>1. todo[q] # <<>>
    BY <1>4 DEF Reads, ReadModel, ReadFiles, ReadDataset, Shape, AtExperiment
  <2>2. q = r
    BY <1>3, <1>4, <2>1
  <2>3. pc'[r] # pc[r]
    BY <1>4, <2>2 DEF Reads, ReadModel, ReadFiles, ReadDataset, HasModel, Types, ControlTypes
  <2>4. QED
    BY <2>3 DEF Unmoved
<1>5. ASSUME NEW q \in Runners, pc[q] = "wait", Current(q) = Current(r) PROVE FALSE
  <2>1. todo[q] # <<>>
    BY <1>5 DEF Shape, AtExperiment
  <2>2. QED
    BY <1>3, <1>5, <2>1
<1>6. QED
  BY <1>1, <1>2, <1>4, <1>5, DriftFacts

\* The manifest of a directory that has one stays.
LEMMA ManifestStays ==
  ASSUME Types, Shape, Identified, [Next]_vars, NEW e \in Experiments, manifest[e] # NoIdentity
  PROVE  manifest'[e] = manifest[e]
  BY ManifestFacts

\* Nobody reads for, or waits for, an experiment whose process is alive, but
\* the runner that waits for it.
LEMMA AliveUndisturbed ==
  ASSUME Types, Shape, Exclusive, [Next]_vars, NEW e \in Experiments, Alive(e), Alive(e)'
  PROVE  drift[e] \subseteq drift'[e]
<1>1. ASSUME NEW q \in Runners, Reads(q), Current(q) = e PROVE FALSE
  <2>1. todo[q] # <<>> /\ pc[q] # "wait"
    BY <1>1 DEF Reads, ReadModel, ReadFiles, ReadDataset, Shape, AtExperiment
  <2>2. QED
    BY <1>1, <2>1, CurrentFacts DEF Exclusive
<1>2. QED
  BY <1>1, DriftFacts

\* A process that is forked or running after a step was so before, has just
\* loaded, or has just been launched.
LEMMA ProcessFacts ==
  ASSUME Types, Shape, [Next]_vars, NEW e \in Experiments, Alive(e)'
  PROVE  \/ /\ Alive(e) /\ proc'[e] = proc[e] /\ command'[e] = command[e] /\ input'[e] = input[e]
         \/ Load(e)
         \/ \E r \in Runners : Launch(r) /\ e = Current(r) /\ proc'[e] = "forked" /\ command'[e] = args[r]
<1> USE DEF Types, ChildTypes, Alive
<1>1. ASSUME UNCHANGED childVars
      PROVE Alive(e) /\ proc'[e] = proc[e] /\ command'[e] = command[e] /\ input'[e] = input[e]
  BY <1>1 DEF childVars
<1>2. ASSUME NEW x \in Experiments, TrainingStep(x) \/ Die(x)
      PROVE  \/ Alive(e) /\ proc'[e] = proc[e] /\ command'[e] = command[e] /\ input'[e] = input[e]
             \/ Load(e)
  <2>1. CASE x # e
    BY <1>2, <2>1 DEF TrainingStep, Die, Load, Train, BeginSave, EndSave, Succeed, Exit, childVars
  <2>2. CASE x = e
    BY <1>2, <2>2 DEF TrainingStep, Die, Load, Train, BeginSave, EndSave, Succeed, Exit, childVars
  <2>3. QED
    BY <2>1, <2>2
<1>3. ASSUME NEW r \in Runners, Launch(r)
      PROVE  \/ Alive(e) /\ proc'[e] = proc[e] /\ command'[e] = command[e] /\ input'[e] = input[e]
             \/ e = Current(r) /\ proc'[e] = "forked" /\ command'[e] = args[r]
  BY <1>3 DEF Launch
<1>4. ASSUME NEW r \in Runners, Reap(r)
      PROVE  Alive(e) /\ proc'[e] = proc[e] /\ command'[e] = command[e] /\ input'[e] = input[e]
  BY <1>4 DEF Reap
<1>5. ASSUME NEW r \in Runners, Interrupt(r)
      PROVE  Alive(e) /\ proc'[e] = proc[e] /\ command'[e] = command[e] /\ input'[e] = input[e]
  BY <1>5, <1>1 DEF Interrupt, NotRunning
<1>6. ASSUME NEW r \in Runners, RunnerStep(r), ~Launch(r), ~Reap(r) PROVE UNCHANGED childVars
  BY <1>6 DEF RunnerStep, Plan, Planned, UseData, AnnounceBuild, BuildData, ReadModel, HashModel,
     ReadFiles, ReadDataset, IdentityError, Check, Rename, Validated, Launched
<1>7. QED
  BY <1>1, <1>2, <1>3, <1>4, <1>5, <1>6 DEF Next, Start, Kill, Edit, vars

\* What has been read is what the world is, or is noted.
LEMMA DriftStep ==
  ASSUME Types, Shape, Exclusive, Identified, HashesSound, DriftKnown, [Next]_vars
  PROVE  DriftKnown'
<1>0. Types' /\ Shape'
  BY ShapeStep
<1>1. ASSUME NEW r \in Runners, stage'[r] = "launch", NEW p \in PartsRead(r)',
             p \notin (drift[Current(r)])'
      PROVE  (ident[r][p] = World(p))'
  <2>1. pc'[r] \in {"files", "dataset", "check", "launch"} /\ p \in Changing
    BY DEF PartsRead, Changing
  <2>2. CASE Unmoved(r)
    <3>1. /\ stage[r] = "launch" /\ p \in PartsRead(r) /\ ident'[r] = ident[r]
          /\ Current(r)' = Current(r) /\ todo[r] # <<>> /\ pc[r] # "wait" /\ Active(r)
      BY <1>1, <2>1, <2>2 DEF Unmoved, PartsRead, Current, Shape, AtExperiment, Active
    <3>2. drift[Current(r)] \subseteq drift'[Current(r)]
      BY <2>2, <3>1, LaunchUndisturbed
    <3>3. ident[r][p] = World(p)
      BY <1>1, <3>1, <3>2 DEF DriftKnown
    <3>4. Current(r) \in Launching /\ Current(r) \in Experiments
      BY <3>1, CurrentFacts DEF Launching
    <3>5. ~Drifted(p)
      BY <1>1, <3>1, <3>4 DEF Drifted
    <3>6. QED
      BY <2>1, <3>1, <3>3, <3>5, WorldFacts
  <2>3. CASE RunnerStep(r)
    <3>1. stage[r] = "launch"
      <4>1. CASE Validated(r)
        <5>1. pc[r] = "model" /\ (pc'[r] = pc[r] \/ \E code : Ends(r, code))
          BY <4>1 DEF Validated
        <5>2. QED
          BY <2>1, <5>1, EndsShape
      <4>2. CASE ~Validated(r)
        BY <1>1, <2>1, <2>3, <4>2, Arrivals DEF ReadModel, HashModel, HasModel, Fails, Advance, Ends, ReadFiles,
           ReadDataset, Types, ControlTypes
      <4>3. QED
        BY <4>1, <4>2
    <3>2. /\ todo'[r] = todo[r] /\ UNCHANGED worldVars
          /\ \/ ident'[r][p] = World(p)
             \/ /\ ident'[r][p] = ident[r][p]
                /\ p \in PartsRead(r)
                /\ p \in drift[Current(r)] => p \in drift'[Current(r)]
      BY <2>3, <3>1, ReadFacts
    <3>3. World(p)' = World(p) /\ Current(r)' = Current(r)
      BY <3>2 DEF worldVars, World, Current
    <3>4. CASE ident'[r][p] = World(p)
      BY <3>3, <3>4
    <3>5. CASE /\ ident'[r][p] = ident[r][p]
               /\ p \in PartsRead(r)
               /\ p \in drift[Current(r)] => p \in drift'[Current(r)]
      BY <1>1, <3>1, <3>3, <3>5 DEF DriftKnown
    <3>6. QED
      BY <3>2, <3>4, <3>5
  <2>4. QED
    BY <2>1, <2>2, <2>3, AtPoint
<1>2. ASSUME NEW e \in Experiments, Alive(e)
      PROVE  manifest[e] # NoIdentity /\ manifest'[e] = manifest[e]
  BY <1>2, ManifestStays DEF Identified, ManifestPrecedesArtifacts
<1>3. ASSUME NEW r \in Runners, Launch(r)
      PROVE  /\ manifest[Current(r)] = ident[r] /\ ident[r].request = args[r].request
             /\ stage[r] = "launch" /\ PartsRead(r) = Changing
             /\ UNCHANGED <<worldVars, manifest, drift>>
  BY <1>3 DEF Launch, Identified, Shape, PartsRead, Changing
<1>4. ASSUME NEW e \in Experiments, proc'[e] = "forked"
      PROVE  /\ command'[e].request = manifest'[e].request
             /\ \A p \in Changing \ drift'[e] : manifest'[e][p] = World(p)'
  <2>1. Alive(e)'
    BY <1>4 DEF Alive
  <2>2. ~Load(e)
    BY <1>4 DEF Load, Types, ChildTypes
  <2>3. CASE /\ Alive(e) /\ proc'[e] = proc[e] /\ command'[e] = command[e]
    <3>1. proc[e] = "forked" /\ e \in Launching
      BY <1>4, <2>3 DEF Launching
    <3>2. drift[e] \subseteq drift'[e]
      BY <2>1, <2>3, AliveUndisturbed
    <3>3. \A p \in Changing \ drift'[e] : manifest[e][p] = World(p) /\ ~Drifted(p)
      BY <3>1, <3>2 DEF DriftKnown, Changing, Drifted
    <3>4. manifest'[e] = manifest[e] /\ command[e].request = manifest[e].request
      BY <1>2, <2>3, <3>1 DEF DriftKnown
    <3>5. QED
      BY <2>3, <3>3, <3>4, WorldFacts
  <2>4. CASE \E r \in Runners : Launch(r) /\ e = Current(r) /\ proc'[e] = "forked" /\ command'[e] = args[r]
    <3>1. PICK r \in Runners : Launch(r) /\ e = Current(r) /\ command'[e] = args[r]
      BY <2>4
    <3>2. \A p \in Changing \ drift[e] : ident[r][p] = World(p)
      BY <1>3, <3>1 DEF DriftKnown
    <3>3. \A p \in Changing : World(p)' = World(p)
      BY <1>3, <3>1 DEF World, Changing, worldVars
    <3>4. QED
      BY <1>3, <3>1, <3>2, <3>3
  <2>5. QED
    BY <2>1, <2>2, <2>3, <2>4, ProcessFacts
<1>5. ASSUME NEW e \in Experiments, proc'[e] = "running", NEW p \in Parts \ drift'[e]
      PROVE  input'[e][p] = manifest'[e][p]
  <2>1. Alive(e)'
    BY <1>5 DEF Alive
  <2>2. CASE /\ Alive(e) /\ proc'[e] = proc[e] /\ input'[e] = input[e]
    <3>1. drift[e] \subseteq drift'[e]
      BY <2>1, <2>2, AliveUndisturbed
    <3>2. input[e][p] = manifest[e][p]
      BY <1>5, <2>2, <3>1 DEF DriftKnown, TrainedAsRecorded
    <3>3. QED
      BY <1>2, <2>2, <3>2
  <2>3. CASE Load(e)
    <3>1. /\ proc[e] = "forked" /\ UNCHANGED <<worldVars, manifest, drift>>
          /\ input'[e] = [request |-> command[e].request, model |-> model,
                          files |-> files, data |-> dataset]
      BY <2>3 DEF Load, disk, ghosts, Types, ChildTypes
    <3>2. /\ command[e].request = manifest[e].request
          /\ \A q \in Changing \ drift[e] : manifest[e][q] = World(q)
      BY <3>1 DEF DriftKnown, Changing
    <3>3. QED
      BY <1>5, <3>1, <3>2 DEF Parts, Changing, World
  <2>4. QED
    BY <1>5, <2>1, <2>2, <2>3, ProcessFacts
<1>6. QED
  BY <1>1, <1>4, <1>5 DEF DriftKnown, TrainedAsRecorded, Changing

(***************************************************************************)
(* The course of a batch, for the invariants about its lists.              *)
(***************************************************************************)

\* The lists stay, and with them the stage.
Stays(r) == UNCHANGED <<todo, kept, stage, failed>>

\* The experiment at hand leaves the lists.
Drops(r) ==
    /\ Pending(r)' = Pending(r) \ {Current(r)} /\ Kept(r)' = Kept(r)
    /\ UNCHANGED stage

\* The experiment at hand goes on to the next pass.
Keeps(r) ==
    /\ Pending(r)' = Pending(r) \ {Current(r)} /\ Kept(r)' = Kept(r) \cup {Current(r)}
    /\ UNCHANGED <<stage, failed>>

\* The manifest of the experiment at hand is right, or is being made so.
Verified(r) ==
    \/ Check(r) /\ (Matches(r, Current(r)) \/ Dry(r)) /\ UNCHANGED manifest
    \/ Rename(r)

\* The next pass begins.
Switches(r) ==
    /\ Pending(r) = {} /\ Pending(r)' = Kept(r) /\ Kept(r)' = {}
    /\ UNCHANGED <<manifest, failed>>

\* What a step that leaves the batch at work does to its lists, and why.
LEMMA ListFacts ==
  ASSUME Types, Shape, NEW r \in Runners, RunnerStep(r), Active(r)'
  PROVE  \/ Stays(r)
         \/ todo[r] # <<>> /\ Drops(r) /\ failed'[r] = TRUE
         \/ /\ todo[r] # <<>> /\ Drops(r) /\ UNCHANGED failed
            /\ \/ Reap(r) /\ proc[Current(r)] = "succeeded"
               \/ Verified(r) /\ stage[r] = "plan" /\ found[r][Current(r)] >= args[r].target
         \/ /\ todo[r] # <<>> /\ Keeps(r) /\ stage[r] = "plan"
            /\ \/ Plan(r) /\ Plannable(r, Current(r)) /\ pc'[r] = "plan"
               \/ Verified(r)
         \/ Planned(r) /\ Switches(r) /\ pc'[r] = "data" /\ stage'[r] = "plan"
         \/ /\ Validated(r) /\ Switches(r) /\ pc'[r] = "model" /\ stage'[r] = "launch"
            /\ ~Dry(r)
<1> USE DEF Types, ControlTypes, BatchTypes, batchVars
<1>0. ShapeOf(r) /\ (pc[r] \in AtExperiment => todo[r] # <<>>)
  BY ShapeByRunner DEF ShapeOf
<1>1. \A code : ~Ends(r, code)
  BY EndsShape
<1>2. ASSUME NEW loop \in {"plan", "model"}, todo[r] # <<>>, Fails(r, loop)
      PROVE  Drops(r) /\ failed'[r] = TRUE
  <2>1. Advance(r, loop, FALSE) /\ failed'[r] = TRUE /\ UNCHANGED stage
    BY <1>1, <1>2 DEF Fails
  <2>2. QED
    BY <1>0, <1>2, <2>1, AdvanceFacts DEF Drops
<1>3. ASSUME Accept(r), todo[r] # <<>>, UNCHANGED <<stage, found, rc, batchVars, identVars>>
      PROVE  \/ Stays(r)
             \/ stage[r] = "plan" /\ Drops(r) /\ found[r][Current(r)] >= args[r].target
             \/ stage[r] = "plan" /\ Keeps(r)
  <2>1. CASE stage[r] = "launch"
    BY <1>3, <2>1 DEF Accept, Stays
  <2>2. CASE stage[r] = "plan"
    <3>1. CASE found[r][Current(r)] < args[r].target
      <4>1. Advance(r, "model", TRUE)
        BY <1>3, <2>2, <3>1 DEF Accept, Advance
      <4>2. QED
        BY <1>0, <1>3, <2>2, <4>1, AdvanceFacts DEF Keeps
    <3>2. CASE ~(found[r][Current(r)] < args[r].target)
      <4>1. Advance(r, "model", FALSE)
        BY <1>3, <2>2, <3>2 DEF Accept, Advance
      <4>2. Drops(r) /\ Current(r) \in Experiments
        BY <1>0, <1>3, <2>2, <4>1, AdvanceFacts DEF Drops
      <4>3. found[r][Current(r)] \in Nat /\ args[r].target \in Nat
        BY <4>2, InvocationFacts
      <4>4. QED
        BY <2>2, <3>2, <4>2, <4>3
    <3>3. QED
      BY <3>1, <3>2
  <2>3. QED
    BY <2>1, <2>2
<1>4. CASE Plan(r)
  <2>1. stage[r] = "plan" /\ todo[r] # <<>>
    BY <1>4 DEF Plan, Shape
  <2>2. CASE Fails(r, "plan")
    BY <2>1, <2>2, <1>2
  <2>3. CASE Plannable(r, Current(r)) /\ Advance(r, "plan", TRUE) /\ UNCHANGED <<stage, batchVars>>
    BY <1>0, <1>4, <2>1, <2>3, AdvanceFacts DEF Keeps
  <2>4. QED
    BY <1>4, <2>2, <2>3 DEF Plan
<1>5. CASE Planned(r) \/ Validated(r)
  <2>1. /\ todo'[r] = kept[r] /\ kept'[r] = <<>> /\ todo[r] = <<>> /\ UNCHANGED <<failed, manifest>>
        /\ \/ Planned(r) /\ pc'[r] = "data" /\ stage'[r] = stage[r] /\ pc[r] = "plan"
           \/ Validated(r) /\ pc'[r] = "model" /\ stage'[r] = "launch" /\ ~Dry(r)
    BY <1>1, <1>5 DEF Planned, Validated, disk
  <2>2. Pending(r) = {} /\ Pending(r)' = Kept(r) /\ Kept(r)' = {}
    BY <2>1, EmptyOf DEF Pending, Kept
  <2>3. QED
    BY <2>1, <2>2 DEF Switches, Shape
<1>6. CASE UseData(r) \/ AnnounceBuild(r) \/ BuildData(r)
  BY <1>1, <1>6 DEF UseData, AnnounceBuild, BuildData, DataReady, Stays
<1>7. CASE ReadModel(r) \/ ReadFiles(r) \/ ReadDataset(r)
  BY <1>7 DEF ReadModel, ReadFiles, ReadDataset, Stays
<1>8. CASE HashModel(r)
  BY <1>0, <1>2, <1>8 DEF HashModel, Stays, AtExperiment
<1>9. CASE IdentityError(r)
  BY <1>0, <1>2, <1>9 DEF IdentityError, AtExperiment
<1>10. CASE Check(r)
  <2>0. todo[r] # <<>> /\ UNCHANGED manifest
    BY <1>0, <1>10 DEF Check, AtExperiment
  <2>1. CASE Fails(r, "model")
    BY <2>0, <2>1, <1>2
  <2>2. CASE /\ Accept(r) /\ UNCHANGED <<stage, found, rc, batchVars, identVars>>
             /\ Matches(r, Current(r)) \/ Dry(r)
    BY <1>10, <2>0, <2>2, <1>3 DEF Verified
  <2>3. CASE UNCHANGED <<stage, todo, kept, found, rc, batchVars, identVars>>
    BY <2>3 DEF Stays
  <2>4. QED
    BY <1>10, <2>1, <2>2, <2>3 DEF Check
<1>11. CASE Rename(r)
  BY <1>0, <1>3, <1>11 DEF Rename, AtExperiment, Verified
<1>12. CASE Launch(r)
  BY <1>0, <1>2, <1>12 DEF Launch, AtExperiment, Stays
<1>13. CASE Reap(r)
  <2>0. todo[r] # <<>>
    BY <1>0, <1>13 DEF Reap, AtExperiment
  <2>1. CASE Fails(r, "model")
    BY <2>0, <2>1, <1>2
  <2>2. CASE /\ proc[Current(r)] = "succeeded" /\ Advance(r, "model", FALSE)
             /\ UNCHANGED <<stage, found, rc, batchVars, identVars>>
    BY <1>0, <1>13, <2>0, <2>2, AdvanceFacts DEF Drops
  <2>3. QED
    BY <1>13, <2>1, <2>2 DEF Reap
<1>14. CASE Launched(r)
  BY <1>1, <1>14 DEF Launched
<1>15. QED
  BY <1>4, <1>5, <1>6, <1>7, <1>8, <1>9, <1>10, <1>11, <1>12, <1>13, <1>14 DEF RunnerStep

\* What a batch keeps stays recorded as it was asked for.
LEMMA RequestedStep ==
  ASSUME Types, Shape, Exclusive, Identified, Requested, [Next]_vars
  PROVE  Requested'
<1> USE DEF Types, BatchTypes
<1>0. Types' /\ Shape'
  BY ShapeStep
<1>1. ASSUME NEW r \in Runners, NEW e \in Experiments, manifest[e].request = args[r].request
      PROVE  manifest'[e] = manifest[e]
  <2>1. manifest[e] # NoIdentity
    BY <1>1, InvocationFacts, RequestsAssumption DEF NoIdentity
  <2>2. QED
    BY <2>1, ManifestStays
<1>2. ASSUME NEW r \in Runners, NEW q \in Seq(Experiments) PROVE Elems(q) \subseteq Experiments
  <2>1. \A i \in 1..Len(q) : q[i] \in Experiments
    BY <1>2
  <2>2. QED
    BY <2>1 DEF Elems
<1>3. ASSUME NEW r \in Runners PROVE Pending(r) \subseteq Experiments /\ Kept(r) \subseteq Experiments
  BY <1>2 DEF Pending, Kept, ControlTypes
<1>4. ASSUME NEW r \in Runners, Verified(r), RunnerStep(r), ~Dry(r)
      PROVE  manifest'[Current(r)].request = args[r].request
  <2>1. CASE Check(r) /\ Matches(r, Current(r)) /\ UNCHANGED manifest
    BY <2>1 DEF Check, Matches, View, Identified, IdentTypes, DiskTypes, Identity
  <2>2. CASE Rename(r)
    <3>1. todo[r] # <<>> /\ ident[r].request = args[r].request
      BY <2>2 DEF Rename, Identified, Shape, AtExperiment
    <3>2. Current(r) \in Experiments
      BY <3>1, CurrentFacts
    <3>3. QED
      BY <2>2, <3>1, <3>2 DEF Rename, DiskTypes
  <2>3. QED
    BY <1>4, <2>1, <2>2 DEF Verified
<1>5. ASSUME NEW r \in Runners, stage'[r] = "plan", pc'[r] \notin {"idle", "plan"}, ~Dry(r)',
             NEW e \in Kept(r)'
      PROVE  manifest'[e].request = args'[r].request
  <2>1. CASE Unmoved(r)
    BY <1>1, <1>3, <1>5, <2>1 DEF Unmoved, Kept, Dry, Requested
  <2>2. CASE RunnerStep(r)
    <3>1. Active(r)' /\ args'[r] = args[r] /\ ~Dry(r)
      BY <1>5, <2>2, StepFacts, EndsShape DEF Active, Dry
    <3>2. CASE Stays(r)
      <4>1. stage[r] = "plan" /\ e \in Kept(r)
        BY <1>5, <3>2 DEF Stays, Kept
      <4>2. pc[r] \notin {"idle", "plan"}
        <5>1. pc[r] # "plan"
          BY <1>5, <2>2, <3>2, EndsShape, CurrentFacts DEF RunnerStep, Plan, Planned, Stays, UseData, AnnounceBuild,
             BuildData, ReadModel, HashModel, ReadFiles, ReadDataset, IdentityError, Check,
             Rename, Validated, Launch, Reap, Launched, Fails, Advance, ControlTypes
        <5>2. QED
          BY <2>2, <5>1, StepFacts DEF Active
      <4>3. QED
        BY <1>1, <1>3, <3>1, <4>1, <4>2 DEF Requested
    <3>3. CASE Drops(r) /\ todo[r] # <<>>
      <4>1. stage[r] = "plan" /\ e \in Kept(r)
        BY <1>5, <3>3 DEF Drops
      <4>2. pc[r] \notin {"idle", "plan"}
        <5>1. ~Plan(r)
          BY <1>5, EndsShape DEF Plan, Fails, Advance, ControlTypes
        <5>2. ~Planned(r)
          BY <3>3 DEF Planned
        <5>3. pc[r] # "plan"
          BY <2>2, <5>1, <5>2 DEF RunnerStep, UseData, AnnounceBuild,
             BuildData, ReadModel, HashModel, ReadFiles, ReadDataset, IdentityError, Check,
             Rename, Validated, Launch, Reap, Launched
        <5>4. QED
          BY <2>2, <5>3, StepFacts DEF Active
      <4>3. QED
        BY <1>1, <1>3, <3>1, <4>1, <4>2 DEF Requested
    <3>4. CASE Keeps(r) /\ stage[r] = "plan" /\ Verified(r)
      <4>1. CASE e = Current(r)
        BY <1>4, <2>2, <3>1, <3>4, <4>1
      <4>2. CASE e # Current(r)
        <5>1. e \in Kept(r)
          BY <1>5, <3>4, <4>2 DEF Keeps
        <5>2. pc[r] \notin {"idle", "plan"}
          BY <3>4 DEF Verified, Check, Rename
        <5>3. QED
          BY <1>1, <1>3, <3>1, <3>4, <5>1, <5>2 DEF Requested
      <4>3. QED
        BY <4>1, <4>2
    <3>5. CASE Switches(r)
      BY <1>5, <3>5 DEF Switches
    <3>6. QED
      BY <1>5, <2>2, <3>1, <3>2, <3>3, <3>4, <3>5, ListFacts
  <2>3. QED
    BY <1>5, <2>1, <2>2, AtPoint
<1>6. ASSUME NEW r \in Runners, stage'[r] = "launch", NEW e \in Pending(r)'
      PROVE  manifest'[e].request = args'[r].request
  <2>0. Active(r)' /\ pc'[r] \notin {"idle", "plan"}
    BY <1>0, <1>6 DEF Shape, Active
  <2>1. CASE Unmoved(r)
    BY <1>1, <1>3, <1>6, <2>1 DEF Unmoved, Pending, Requested
  <2>2. CASE RunnerStep(r)
    <3>1. args'[r] = args[r]
      BY <2>0, <2>2, StepFacts, EndsShape
    <3>2. CASE Stays(r) \/ Drops(r)
      <4>1. stage[r] = "launch" /\ e \in Pending(r)
        BY <1>6, <3>2 DEF Stays, Drops, Pending
      <4>2. QED
        BY <1>1, <1>3, <3>1, <4>1 DEF Requested
    <3>3. CASE Keeps(r) /\ stage[r] = "plan"
      BY <1>6, <3>3 DEF Keeps
    <3>4. CASE Validated(r) /\ Switches(r) /\ ~Dry(r)
      <4>1. e \in Kept(r) /\ stage[r] = "plan" /\ pc[r] = "model"
        BY <1>6, <3>4 DEF Validated, Switches
      <4>2. QED
        BY <1>1, <1>3, <3>1, <3>4, <4>1 DEF Requested
    <3>5. QED
      BY <1>6, <2>0, <2>2, <3>2, <3>3, <3>4, ListFacts
  <2>3. QED
    BY <2>0, <2>1, <2>2, AtPoint
<1>7. QED
  BY <1>5, <1>6 DEF Requested

(***************************************************************************)
(* BehindWorld, Numbered and OneConfiguration: one batch, one world.       *)
(***************************************************************************)

\* As long as no content comes back, contents only move on.
LEMMA WorldMovesOn ==
  ASSUME Types, [Next]_vars, ~undone'
  PROVE  ~undone /\ model <= model' /\ files <= files' /\ dataset <= dataset'
<1> USE DEF Types, WorldTypes, GhostTypes
<1>1. CASE UNCHANGED <<worldVars, undone>>
  BY <1>1 DEF worldVars
<1>2. CASE Edit
  <2>1. CASE EditModel
    <3>1. ~undone /\ ~(model' < model) /\ UNCHANGED <<files, dataset>>
      BY <2>1, Zenon DEF EditModel
    <3>2. model' \in Nat
      BY <2>1 DEF EditModel, Other, Absent
    <3>3. QED
      BY <3>1, <3>2
  <2>2. CASE RecopyModel
    BY <2>2 DEF RecopyModel
  <2>3. CASE EditFiles
    <3>1. ~undone /\ ~(files' < files) /\ UNCHANGED <<model, dataset>>
      BY <2>3, Zenon DEF EditFiles
    <3>2. files' \in Nat
      BY <2>3 DEF EditFiles, Other, Absent
    <3>3. QED
      BY <3>1, <3>2
  <2>4. CASE EditDataset
    <3>1. ~undone /\ ~(dataset' < dataset) /\ UNCHANGED <<model, files>>
      BY <2>4, Zenon DEF EditDataset
    <3>2. dataset' \in Nat
      BY <2>4 DEF EditDataset, Other, Absent
    <3>3. QED
      BY <3>1, <3>2
  <2>5. QED
    BY <1>2, <2>1, <2>2, <2>3, <2>4 DEF Edit
<1>3. ASSUME NEW r \in Runners, BuildData(r)
      PROVE  ~undone /\ model <= model' /\ files <= files' /\ dataset <= dataset'
  <2>1. dataset' \in Nat
    BY <1>3, PlanTypes
  <2>2. ~undone /\ ~(dataset' < dataset) /\ UNCHANGED <<model, files>>
    BY <1>3, Zenon DEF BuildData
  <2>3. QED
    BY <2>1, <2>2
<1>4. ASSUME NEW r \in Runners, RunnerStep(r), ~BuildData(r) PROVE UNCHANGED <<worldVars, undone>>
  <2>1. CASE Plan(r) \/ Planned(r) \/ UseData(r) \/ AnnounceBuild(r)
    BY <2>1 DEF Plan, Planned, UseData, AnnounceBuild, ghosts
  <2>2. CASE ReadModel(r) \/ HashModel(r) \/ ReadFiles(r) \/ ReadDataset(r) \/ IdentityError(r)
    BY <2>2 DEF ReadModel, HashModel, ReadFiles, ReadDataset, IdentityError, ghosts
  <2>3. CASE Check(r) \/ Rename(r) \/ Validated(r) \/ Launch(r) \/ Reap(r) \/ Launched(r)
    BY <2>3 DEF Check, Rename, Validated, Launch, Reap, Launched, ghosts
  <2>4. QED
    BY <1>4, <2>1, <2>2, <2>3 DEF RunnerStep
<1>5. ASSUME NEW r \in Runners, Start(r) \/ Interrupt(r) \/ Kill(r)
      PROVE UNCHANGED <<worldVars, undone>>
  BY <1>5 DEF Start, Interrupt, Kill, ghosts
<1>6. ASSUME UNCHANGED vars \/ \E x \in Experiments : TrainingStep(x) \/ Die(x)
      PROVE UNCHANGED <<worldVars, undone>>
  BY <1>6 DEF vars, ghosts, TrainingStep, Die, Load, Train, BeginSave, EndSave, Succeed, Exit
<1>7. QED
  BY <1>1, <1>2, <1>3, <1>4, <1>5, <1>6 DEF Next

\* The identity a step of a runner leaves was read of the world, now or before.
LEMMA IdentFacts ==
  ASSUME Types, Shape, HashesSound, NEW r \in Runners, RunnerStep(r),
         AtMostWorld(ident[r]), memo[r] <= model
  PROVE  AtMostWorld(ident'[r]) /\ memo'[r] <= model
<1> USE DEF Types, WorldTypes, IdentTypes, Identity
<1>1. AtMostWorld(NoIdentity)
  BY DEF AtMostWorld, NoIdentity, Absent
<1>2. ASSUME NEW code, Ends(r, code) PROVE AtMostWorld(ident'[r]) /\ memo'[r] <= model
  BY <1>1, <1>2 DEF Ends, Absent
<1>3. ASSUME NEW loop, Fails(r, loop) PROVE AtMostWorld(ident'[r]) /\ memo'[r] <= model
  BY <1>2, <1>3 DEF Fails, identVars
<1>4. ASSUME UNCHANGED <<ident, memo>> PROVE AtMostWorld(ident'[r]) /\ memo'[r] <= model
  BY <1>4
<1>5. ASSUME NEW c \in Nat, c <= model, HasModel(r, c)
      PROVE AtMostWorld(ident'[r]) /\ memo'[r] <= model
  <2>1. ident'[r] = [NoIdentity EXCEPT !.model = c] /\ memo'[r] \in {c, memo[r]}
    BY <1>5 DEF HasModel
  <2>2. QED
    BY <1>5, <2>1 DEF AtMostWorld, NoIdentity, Absent
<1>6. CASE ReadModel(r)
  <2>1. ASSUME KnownModel(r) # Absent PROVE KnownModel(r) \in Nat /\ KnownModel(r) <= model
    BY <2>1 DEF KnownModel, HashesSound
  <2>2. QED
    BY <1>4, <1>5, <1>6, <2>1 DEF ReadModel
<1>7. CASE HashModel(r)
  BY <1>3, <1>5, <1>7 DEF HashModel, HashesSound
<1>8. CASE ReadFiles(r)
  <2>1. /\ ident'[r].files = files /\ ident'[r].model = ident[r].model
        /\ ident'[r].data = ident[r].data /\ UNCHANGED memo
    BY <1>8 DEF ReadFiles
  <2>2. QED
    BY <2>1 DEF AtMostWorld
<1>9. CASE ReadDataset(r)
  <2>1. /\ ident'[r].data = dataset /\ ident'[r].model = ident[r].model
        /\ ident'[r].files = ident[r].files /\ UNCHANGED memo
    BY <1>9 DEF ReadDataset
  <2>2. QED
    BY <2>1 DEF AtMostWorld
<1>10. CASE Plan(r) \/ Planned(r) \/ UseData(r) \/ AnnounceBuild(r) \/ BuildData(r)
  BY <1>2, <1>3, <1>4, <1>10 DEF Plan, Planned, UseData, AnnounceBuild, BuildData, DataReady, identVars
<1>11. CASE IdentityError(r) \/ Check(r) \/ Rename(r) \/ Validated(r) \/ Launch(r) \/ Reap(r) \/ Launched(r)
  BY <1>2, <1>3, <1>4, <1>11 DEF IdentityError, Check, Rename, Validated, Launch, Reap, Launched, identVars
<1>12. QED
  BY <1>6, <1>7, <1>8, <1>9, <1>10, <1>11 DEF RunnerStep

\* Nothing read runs ahead of the world.
LEMMA BehindStep ==
  ASSUME Types, Shape, Identified, HashesSound, BehindWorld, [Next]_vars
  PROVE  BehindWorld'
<1> USE DEF Types, WorldTypes, IdentTypes, Identity, DiskTypes
<1>0. SUFFICES ASSUME ~undone'
               PROVE  /\ \A e \in Experiments : AtMostWorld(manifest[e])'
                      /\ \A r \in Runners : AtMostWorld(ident[r])' /\ memo'[r] <= model'
  BY DEF BehindWorld
<1>1. ~undone /\ model <= model' /\ files <= files' /\ dataset <= dataset'
  BY <1>0, WorldMovesOn
<1>2. Types'
  BY ShapeStep
<1>3. ASSUME NEW id \in Identity, AtMostWorld(id) PROVE AtMostWorld(id)'
  BY <1>1, <1>2, <1>3 DEF AtMostWorld
<1>4. ASSUME NEW e \in Experiments PROVE AtMostWorld(manifest[e])'
  <2>1. manifest'[e] = manifest[e] \/ \E r \in Runners : manifest'[e] = ident[r]
    BY ManifestFacts
  <2>2. AtMostWorld(manifest[e]) /\ \A r \in Runners : AtMostWorld(ident[r])
    BY <1>1 DEF BehindWorld
  <2>3. AtMostWorld(manifest'[e]) /\ manifest'[e] \in Identity
    BY <2>1, <2>2
  <2>4. QED
    BY <1>1, <1>2, <2>3 DEF AtMostWorld
<1>5. ASSUME NEW r \in Runners PROVE AtMostWorld(ident[r])' /\ memo'[r] <= model'
  <2>1. AtMostWorld(ident[r]) /\ memo[r] <= model
    BY <1>1 DEF BehindWorld
  <2>2. ASSUME UNCHANGED runnerVars PROVE ident'[r] = ident[r] /\ memo'[r] = memo[r]
    BY <2>2 DEF runnerVars, identVars
  <2>3. ASSUME NEW q \in Runners, RunnerAction(q), q # r
        PROVE  ident'[r] = ident[r] /\ memo'[r] = memo[r]
    BY <2>3, OthersUnmoved DEF Unmoved
  <2>4. ASSUME Start(r) PROVE ident'[r] = ident[r] /\ memo'[r] = memo[r]
    BY <2>4 DEF Start, identVars
  <2>5. ASSUME Interrupt(r) \/ Kill(r) PROVE ident'[r] = NoIdentity /\ memo'[r] = 0
    BY <2>5 DEF Interrupt, Kill, Ends, Absent
  <2>6. AtMostWorld(NoIdentity)
    BY DEF AtMostWorld, NoIdentity, Absent
  <2>7. AtMostWorld(ident'[r]) /\ memo'[r] <= model
    <3>1. CASE RunnerStep(r)
      BY <2>1, <3>1, IdentFacts
    <3>2. CASE ident'[r] = ident[r] /\ memo'[r] = memo[r]
      BY <2>1, <3>2
    <3>3. CASE ident'[r] = NoIdentity /\ memo'[r] = 0
      BY <2>6, <3>3
    <3>4. QED
      BY <2>2, <2>3, <2>4, <2>5, <3>1, <3>2, <3>3, RunnersUnmoved DEF Next, RunnerAction, vars
  <2>8. ident'[r] \in Identity /\ memo'[r] \in Nat
    BY <1>2
  <2>9. QED
    BY <1>1, <1>2, <2>7, <2>8 DEF AtMostWorld
<1>6. QED
  BY <1>4, <1>5

\* The number of started batches.
LEMMA StartsFacts ==
  ASSUME Types, [Next]_vars
  PROVE  starts' \in Nat /\ starts <= starts'
<1> USE DEF Types, GhostTypes, ghosts
<1>1. ASSUME NEW r \in Runners, RunnerStep(r) PROVE starts' = starts
  BY <1>1 DEF RunnerStep, Plan, Planned, UseData, AnnounceBuild, BuildData, ReadModel, HashModel,
     ReadFiles, ReadDataset, IdentityError, Check, Rename, Validated, Launch, Reap, Launched
<1>2. ASSUME NEW r \in Runners, Interrupt(r) \/ Kill(r) PROVE starts' = starts
  BY <1>2 DEF Interrupt, Kill
<1>3. ASSUME Edit \/ UNCHANGED vars \/ \E x \in Experiments : TrainingStep(x) \/ Die(x)
      PROVE starts' = starts
  BY <1>3 DEF Edit, vars, TrainingStep, Die, Load, Train, BeginSave, EndSave, Succeed, Exit
<1>4. ASSUME NEW r \in Runners, Start(r) PROVE starts' = starts + 1
  BY <1>4 DEF Start
<1>5. QED
  BY <1>1, <1>2, <1>3, <1>4 DEF Next

\* A runner that is through has no number.
LEMMA SerialFacts ==
  ASSUME Types, Shape, [Next]_vars, NEW r \in Runners
  PROVE  \/ serial'[r] = serial[r]
         \/ serial'[r] = 0
         \/ Start(r) /\ serial'[r] = starts + 1 /\ starts' = starts + 1
<1> USE DEF Types, BatchTypes
<1>1. ASSUME UNCHANGED runnerVars PROVE serial'[r] = serial[r]
  BY <1>1 DEF runnerVars, batchVars
<1>2. ASSUME NEW q \in Runners, RunnerAction(q), q # r PROVE serial'[r] = serial[r]
  BY <1>2, OthersUnmoved DEF Unmoved
<1>3. ASSUME RunnerStep(r) PROVE serial'[r] = serial[r] \/ serial'[r] = 0
  BY <1>3, StepFacts DEF Ends
<1>4. ASSUME Interrupt(r) \/ Kill(r) PROVE serial'[r] = 0
  BY <1>4 DEF Interrupt, Kill, Ends
<1>5. ASSUME Start(r) PROVE serial'[r] = starts + 1 /\ starts' = starts + 1
  BY <1>5 DEF Start
<1>6. QED
  BY <1>1, <1>2, <1>3, <1>4, <1>5, RunnersUnmoved DEF Next, RunnerAction, vars

\* Batches keep their numbers to themselves.
LEMMA NumberedStep ==
  ASSUME Types, Shape, Numbered, [Next]_vars
  PROVE  Numbered'
<1> USE DEF Types, BatchTypes, GhostTypes
<1>0. starts' \in Nat /\ starts <= starts' /\ Types' /\ Shape'
  BY StartsFacts, ShapeStep
<1>1. ASSUME NEW l \in launched'
      PROVE  l.batch <= starts'
  <2>1. CASE l \in launched
    <3>1. l.batch <= starts /\ l.batch \in Nat
      BY <2>1 DEF Numbered
    <3>2. QED
      BY <1>0, <3>1
  <2>2. CASE \E r \in Runners : l.batch = serial[r]
    <3>1. l.batch <= starts /\ l.batch \in Nat
      BY <2>2 DEF Numbered
    <3>2. QED
      BY <1>0, <3>1
  <2>3. QED
    BY <2>1, <2>2, LaunchedFacts
<1>2. ASSUME NEW r \in Runners PROVE serial'[r] <= starts'
  <2>1. serial[r] <= starts /\ serial[r] \in Nat
    BY DEF Numbered
  <2>2. QED
    BY <1>0, <2>1, SerialFacts
<1>3. ASSUME NEW r \in Runners, NEW q \in Runners, Active(r)', Active(q)', serial'[r] = serial'[q]
      PROVE  r = q
  <2>1. \A x \in Runners : serial[x] <= starts /\ serial[x] \in Nat
    BY DEF Numbered
  <2>2. \A x \in Runners : Active(x)' =>
           \/ Active(x) /\ serial'[x] = serial[x]
           \/ Start(x) /\ serial'[x] = starts + 1
    BY ActiveFacts
  <2>3. ASSUME Start(r), q # r PROVE Active(q) /\ serial'[q] = serial[q]
    BY <1>3, <2>3, OthersUnmoved DEF RunnerAction, Unmoved, Active
  <2>4. ASSUME Start(q), q # r PROVE Active(r) /\ serial'[r] = serial[r]
    BY <1>3, <2>4, OthersUnmoved DEF RunnerAction, Unmoved, Active
  <2>5. QED
    BY <1>3, <2>1, <2>2, <2>3, <2>4 DEF Numbered
<1>4. ASSUME NEW r \in Runners, Active(r)', stage'[r] = "plan", NEW l \in launched',
             l.batch = serial'[r]
      PROVE  FALSE
  <2>1. CASE Start(r)
    <3>1. UNCHANGED launched /\ serial'[r] = starts + 1
      BY <2>1 DEF Start
    <3>2. l.batch <= starts /\ l.batch \in Nat
      BY <1>4, <3>1 DEF Numbered
    <3>3. QED
      BY <1>4, <3>1, <3>2
  <2>2. CASE ~Start(r)
    <3>1. Active(r) /\ serial'[r] = serial[r]
      BY <1>4, <2>2, ActiveFacts
    <3>2. stage[r] = "plan"
      <4>1. ASSUME RunnerStep(r) PROVE stage[r] = "plan"
        BY <1>4, <4>1, ListFacts DEF Stays, Drops, Keeps, Planned, Shape
      <4>2. ASSUME UNCHANGED runnerVars PROVE stage[r] = "plan"
        BY <1>4, <4>2 DEF runnerVars, control
      <4>3. ASSUME NEW q \in Runners, RunnerAction(q), q # r PROVE stage[r] = "plan"
        BY <1>4, <4>3, OthersUnmoved DEF Unmoved
      <4>4. ASSUME Interrupt(r) \/ Kill(r) PROVE FALSE
        BY <1>4, <4>4, EndsShape DEF Interrupt, Kill
      <4>5. QED
        BY <2>2, <4>1, <4>2, <4>3, <4>4, RunnersUnmoved DEF Next, RunnerAction, vars
    <3>3. l \notin launched
      BY <1>4, <3>1, <3>2 DEF Numbered
    <3>4. PICK q \in Runners : /\ Launch(q) /\ pc'[q] = "wait"
                              /\ l = [experiment |-> Current(q), batch |-> serial[q],
                                       identity |-> ident[q]]
      BY <1>4, <3>3, LaunchedFacts
    <3>5. Active(q) /\ stage[q] = "launch"
      BY <3>4 DEF Launch, Active, Shape
    <3>6. q = r
      BY <1>4, <3>1, <3>4, <3>5 DEF Numbered
    <3>7. QED
      BY <3>2, <3>5, <3>6
  <2>3. QED
    BY <2>1, <2>2
<1>5. QED
  BY <1>1, <1>2, <1>3, <1>4 DEF Numbered

\* In a pass that launches, the list only gets shorter; the pass begins with
\* nothing read.
LEMMA LaunchPass ==
  ASSUME Types, Shape, [Next]_vars, NEW r \in Runners, stage'[r] = "launch"
  PROVE  /\ Active(r) /\ args'[r] = args[r] /\ serial'[r] = serial[r]
         /\ \/ stage[r] = "launch" /\ Pending(r)' \subseteq Pending(r)
            \/ stage[r] = "plan" /\ PartsRead(r)' = {}
         /\ Unmoved(r) \/ RunnerStep(r)
<1>0. Active(r)' /\ pc'[r] \notin {"idle", "plan"}
  BY ShapeStep DEF Shape, Active
<1>1. Unmoved(r) \/ RunnerStep(r)
  BY <1>0, AtPoint
<1>2. ~Start(r)
  BY <1>0 DEF Start, Types, ControlTypes
<1>3. Active(r) /\ args'[r] = args[r] /\ serial'[r] = serial[r]
  BY <1>0, <1>2, ActiveFacts
<1>4. CASE Unmoved(r)
  BY <1>1, <1>3, <1>4 DEF Unmoved, Pending
<1>5. CASE RunnerStep(r)
  <2>1. CASE Stays(r) \/ Drops(r)
    BY <1>1, <1>3, <2>1 DEF Stays, Drops, Pending
  <2>2. CASE Validated(r) /\ pc'[r] = "model"
    BY <1>1, <1>3, <2>2 DEF Validated, PartsRead
  <2>3. CASE Keeps(r) /\ stage[r] = "plan"
    BY <2>3 DEF Keeps
  <2>4. CASE stage'[r] = "plan"
    BY <2>4
  <2>5. QED
    BY <1>0, <1>5, <2>1, <2>2, <2>3, <2>4, ListFacts
<1>6. QED
  BY <1>1, <1>4, <1>5

\* A batch's launches agree, as long as no content comes back.
LEMMA OneConfigurationStep ==
  ASSUME Types, Shape, Exclusive, Identified, HashesSound, BehindWorld, Numbered, Requested,
         OneConfiguration, [Next]_vars
  PROVE  OneConfiguration'
<1> USE DEF Types, GhostTypes, BatchTypes, IdentTypes, DiskTypes
<1>0. Types' /\ Shape'
  BY ShapeStep
<1>1. ASSUME NEW r \in Runners PROVE Pending(r) \subseteq Experiments
  <2>1. \A i \in 1..Len(todo[r]) : todo[r][i] \in Experiments
    BY DEF ControlTypes
  <2>2. QED
    BY <2>1 DEF Pending, Elems
<1>2. ASSUME NEW r \in Runners, stage[r] = "launch", NEW e \in Pending(r)
      PROVE  manifest'[e] = manifest[e] /\ e \in Experiments
  <2>1. manifest[e].request = args[r].request /\ e \in Experiments
    BY <1>1, <1>2 DEF Requested
  <2>2. manifest[e] # NoIdentity
    BY <2>1, InvocationFacts, RequestsAssumption DEF NoIdentity
  <2>3. QED
    BY <2>1, <2>2, ManifestStays
<1>3. ASSUME NEW r \in Runners, Active(r), NEW l \in launched', l.batch = serial[r]
      PROVE  \/ l \in launched
             \/ /\ Launch(r) /\ pc'[r] = "wait" /\ UNCHANGED <<todo, identVars>>
                /\ l.identity = ident[r] /\ l.experiment = Current(r)
  <2>1. ASSUME NEW q \in Runners, Launch(q), l.batch = serial[q] PROVE q = r
    BY <1>3, <2>1 DEF Numbered, Launch, Active
  <2>2. QED
    BY <1>3, <2>1, LaunchedFacts
<1>4. ASSUME NEW r \in Runners, Launch(r)
      PROVE  /\ stage[r] = "launch" /\ PartsRead(r) = Changing /\ todo[r] # <<>> /\ Active(r)
             /\ ident[r].request = args[r].request /\ ident[r] = manifest[Current(r)]
             /\ Current(r) \in Pending(r)
  <2>1. todo[r] # <<>>
    BY <1>4 DEF Launch, Shape, AtExperiment
  <2>2. QED
    BY <1>4, <2>1, CurrentFacts DEF Launch, Shape, PartsRead, Changing, Active, Identified
<1>5. ASSUME NEW r \in Runners, stage'[r] = "launch", NEW l \in launched', l.batch = serial'[r]
      PROVE  l.identity.request = args'[r].request
  <2>1. Active(r) /\ args'[r] = args[r] /\ serial'[r] = serial[r]
    BY <1>5, LaunchPass
  <2>2. CASE l \in launched
    BY <1>5, <2>1, <2>2, LaunchPass DEF Numbered, OneConfiguration
  <2>3. CASE l.identity = ident[r] /\ Launch(r)
    BY <1>4, <2>1, <2>3
  <2>4. QED
    BY <1>3, <1>5, <2>1, <2>2, <2>3
<1>6. ASSUME NEW r \in Runners, stage'[r] = "launch", ~undone', NEW p \in PartsRead(r)'
      PROVE  /\ stage[r] = "launch" /\ Pending(r)' \subseteq Pending(r) /\ ~undone
             /\ p \in Changing
             /\ \/ /\ ident'[r][p] = World(p) /\ ~Launch(r)
                \/ ident'[r][p] = ident[r][p] /\ p \in PartsRead(r) /\ ~Launch(r)
  <2>1. /\ stage[r] = "launch" /\ Pending(r)' \subseteq Pending(r)
        /\ Unmoved(r) \/ RunnerStep(r)
    BY <1>6, LaunchPass
  <2>2. ~undone /\ p \in Changing
    BY <1>6, WorldMovesOn DEF PartsRead, Changing
  <2>3. ~Launch(r)
    <3>1. pc'[r] \in {"files", "dataset", "check", "launch"}
      BY <1>6 DEF PartsRead
    <3>2. ASSUME Launch(r) PROVE FALSE
      <4>1. CASE Fails(r, "model")
        BY <3>1, <4>1, EndsShape DEF Fails, Advance, ControlTypes
      <4>2. CASE pc' = [pc EXCEPT ![r] = "wait"]
        BY <3>1, <4>2 DEF ControlTypes
      <4>3. QED
        BY <3>2, <4>1, <4>2 DEF Launch
    <3>3. QED
      BY <3>2
  <2>4. CASE Unmoved(r)
    BY <1>6, <2>1, <2>2, <2>3, <2>4 DEF Unmoved, PartsRead
  <2>5. CASE RunnerStep(r)
    BY <1>6, <2>1, <2>2, <2>3, <2>5, ReadFacts
  <2>6. QED
    BY <2>1, <2>4, <2>5
<1>7. ASSUME NEW e \in Experiments, NEW p \in Changing, ~undone
      PROVE  manifest[e][p] <= World(p)
  BY <1>7 DEF BehindWorld, AtMostWorld, World, Changing
<1>8. ASSUME NEW r \in Runners, stage'[r] = "launch", ~undone', NEW p \in PartsRead(r)',
             NEW e \in Pending(r)'
      PROVE  manifest'[e][p] <= ident'[r][p]
  <2>1. /\ stage[r] = "launch" /\ e \in Pending(r) /\ ~undone /\ p \in Changing
        /\ \/ ident'[r][p] = World(p)
           \/ ident'[r][p] = ident[r][p] /\ p \in PartsRead(r)
    BY <1>6, <1>8
  <2>2. manifest'[e] = manifest[e] /\ e \in Experiments
    BY <1>2, <2>1
  <2>3. CASE ident'[r][p] = World(p)
    BY <1>7, <2>1, <2>2, <2>3
  <2>4. CASE ident'[r][p] = ident[r][p] /\ p \in PartsRead(r)
    BY <2>1, <2>2, <2>4 DEF OneConfiguration
  <2>5. QED
    BY <2>1, <2>3, <2>4
<1>9. ASSUME NEW r \in Runners, stage'[r] = "launch", ~undone', NEW p \in PartsRead(r)',
             NEW l \in launched', l.batch = serial'[r]
      PROVE  l.identity[p] <= ident'[r][p]
  <2>1. /\ stage[r] = "launch" /\ ~undone /\ p \in Changing /\ ~Launch(r)
        /\ \/ ident'[r][p] = World(p)
           \/ ident'[r][p] = ident[r][p] /\ p \in PartsRead(r)
    BY <1>6, <1>9
  <2>2. Active(r) /\ serial'[r] = serial[r]
    BY <1>9, LaunchPass
  <2>3. l \in launched /\ l.batch = serial[r]
    BY <1>3, <1>9, <2>1, <2>2
  <2>4. manifest[l.experiment] = l.identity /\ l.experiment \in Experiments
    BY <2>3 DEF Identified
  <2>5. CASE ident'[r][p] = World(p)
    BY <1>7, <2>1, <2>4, <2>5
  <2>6. CASE ident'[r][p] = ident[r][p] /\ p \in PartsRead(r)
    BY <2>1, <2>3, <2>6 DEF OneConfiguration
  <2>7. QED
    BY <2>1, <2>5, <2>6
<1>10. ASSUME NEW r \in Runners, stage'[r] = "launch", ~undone',
              NEW l \in launched', l.batch = serial'[r],
              NEW e \in Pending(r)', NEW p \in Changing
       PROVE  manifest'[e][p] <= l.identity[p]
  <2>1. Active(r) /\ serial'[r] = serial[r] /\ ~undone
    BY <1>10, LaunchPass, WorldMovesOn
  <2>2. stage[r] = "launch" /\ e \in Pending(r)
    <3>1. CASE stage[r] = "plan"
      <4>1. l \notin launched
        BY <1>10, <2>1, <3>1 DEF Numbered
      <4>2. QED
        BY <1>3, <1>4, <1>10, <2>1, <3>1, <4>1
    <3>2. QED
      BY <1>10, <3>1, LaunchPass
  <2>3. manifest'[e] = manifest[e]
    BY <1>2, <2>2
  <2>4. CASE l \in launched
    BY <1>10, <2>1, <2>2, <2>3, <2>4 DEF OneConfiguration, Changing
  <2>5. CASE Launch(r) /\ l.identity = ident[r]
    BY <1>4, <1>10, <2>1, <2>2, <2>3, <2>5 DEF OneConfiguration
  <2>6. QED
    BY <1>3, <1>10, <2>1, <2>4, <2>5
<1>11. ASSUME ~undone, NEW r \in Runners, Launch(r), NEW k \in launched, k.batch = serial[r]
       PROVE  k.identity = ident[r]
  <2>1. k.identity.request = ident[r].request
    BY <1>4, <1>11 DEF OneConfiguration
  <2>2. \A p \in Changing : k.identity[p] <= ident[r][p] /\ ident[r][p] <= k.identity[p]
    BY <1>4, <1>11 DEF OneConfiguration, Changing
  <2>3. k.identity \in Identity /\ ident[r] \in Identity
    BY <1>11
  <2>4. \A p \in Changing : k.identity[p] \in Nat /\ ident[r][p] \in Nat
    BY <2>3 DEF Changing, Identity
  <2>5. \A p \in Changing : k.identity[p] = ident[r][p]
    BY <2>2, <2>4
  <2>6. QED
    BY <2>1, <2>3, <2>5 DEF Changing, Identity
<1>12. ASSUME ~undone', NEW k \in launched', NEW l \in launched', k.batch = l.batch
       PROVE  k.identity = l.identity
  <2>1. ~undone
    BY <1>12, WorldMovesOn
  <2>2. CASE k \in launched /\ l \in launched
    BY <1>12, <2>1, <2>2 DEF OneConfiguration, BatchUsesOneConfiguration
  <2>3. ASSUME NEW r \in Runners, Launch(r), NEW m \in {k, l}, m.batch = serial[r]
        PROVE  m.identity = ident[r]
    <3>1. CASE m \in launched
      BY <1>11, <2>1, <2>3, <3>1
    <3>2. CASE m \notin launched
      BY <1>3, <1>4, <1>12, <2>3, <3>2
    <3>3. QED
      BY <3>1, <3>2
  <2>4. CASE k \notin launched
    <3>1. PICK r \in Runners : Launch(r) /\ k.batch = serial[r]
      BY <1>12, <2>4, LaunchedFacts
    <3>2. QED
      BY <1>12, <2>3, <3>1
  <2>5. CASE l \notin launched
    <3>1. PICK r \in Runners : Launch(r) /\ l.batch = serial[r]
      BY <1>12, <2>5, LaunchedFacts
    <3>2. QED
      BY <1>12, <2>3, <3>1
  <2>6. QED
    BY <2>2, <2>4, <2>5
<1>13. QED
  BY <1>5, <1>8, <1>9, <1>10, <1>12 DEF OneConfiguration, BatchUsesOneConfiguration, Changing

(***************************************************************************)
(* Accounted and Fresh: what a batch has done, and from where.             *)
(***************************************************************************)

\* Checkpoints only come from processes, and only move on.
LEMMA SavedFacts ==
  ASSUME Types, [Next]_vars, NEW e \in Experiments
  PROVE  /\ saved'[e] \in Nat /\ saved[e] <= saved'[e]
         /\ saved'[e] = saved[e] \/ EndSave(e)
         /\ begun'[e] => begun[e] \/ BeginSave(e)
         /\ begun[e] => begun'[e]
<1> USE DEF Types, DiskTypes, ChildTypes, disk
<1>1. ASSUME UNCHANGED <<saved, begun>>
      PROVE  /\ saved'[e] \in Nat /\ saved[e] <= saved'[e] /\ saved'[e] = saved[e]
             /\ begun'[e] <=> begun[e]
  BY <1>1
<1>2. ASSUME NEW r \in Runners, RunnerStep(r) PROVE UNCHANGED <<saved, begun>>
  <2>1. CASE Plan(r) \/ Planned(r) \/ UseData(r) \/ AnnounceBuild(r) \/ BuildData(r)
    BY <2>1 DEF Plan, Planned, UseData, AnnounceBuild, BuildData
  <2>2. CASE ReadModel(r) \/ HashModel(r) \/ ReadFiles(r) \/ ReadDataset(r) \/ IdentityError(r)
    BY <2>2 DEF ReadModel, HashModel, ReadFiles, ReadDataset, IdentityError
  <2>3. CASE Check(r) \/ Rename(r) \/ Validated(r) \/ Launch(r) \/ Reap(r) \/ Launched(r)
    BY <2>3 DEF Check, Rename, Validated, Launch, Reap, Launched
  <2>4. QED
    BY <1>2, <2>1, <2>2, <2>3 DEF RunnerStep
<1>3. ASSUME NEW r \in Runners, Start(r) \/ Interrupt(r) \/ Kill(r) PROVE UNCHANGED <<saved, begun>>
  BY <1>3 DEF Start, Interrupt, Kill
<1>4. ASSUME Edit \/ UNCHANGED vars PROVE UNCHANGED <<saved, begun>>
  BY <1>4 DEF Edit, vars
<1>5. ASSUME NEW x \in Experiments, Load(x) \/ Train(x) \/ Succeed(x) \/ Die(x)
      PROVE UNCHANGED <<saved, begun>>
  BY <1>5 DEF Load, Train, Succeed, Die, Exit
<1>6. ASSUME NEW x \in Experiments, BeginSave(x)
      PROVE  /\ UNCHANGED saved
             /\ begun'[e] => begun[e] \/ x = e
             /\ begun[e] => begun'[e]
  BY <1>6 DEF BeginSave
<1>7. ASSUME NEW x \in Experiments, EndSave(x)
      PROVE  /\ saved'[e] \in Nat /\ saved[e] <= saved'[e]
             /\ saved'[e] = saved[e] \/ x = e
             /\ UNCHANGED begun
  BY <1>7 DEF EndSave
<1>8. CASE \E x \in Experiments : BeginSave(x)
  BY <1>6, <1>8
<1>9. CASE \E x \in Experiments : EndSave(x)
  <2>1. PICK x \in Experiments : EndSave(x)
    BY <1>9
  <2>2. begun' = begun
    BY <1>7, <2>1
  <2>3. (begun'[e] => begun[e]) /\ (begun[e] => begun'[e])
    BY <2>2
  <2>4. saved'[e] \in Nat /\ saved[e] <= saved'[e] /\ (saved'[e] = saved[e] \/ EndSave(e))
    BY <1>7, <2>1
  <2>5. QED
    BY <2>3, <2>4
<1>10. CASE UNCHANGED <<saved, begun>>
  BY <1>1, <1>10
<1>11. QED
  BY <1>2, <1>3, <1>4, <1>5, <1>8, <1>9, <1>10 DEF Next, TrainingStep

\* What a runner has found is in the checkpoint directory.
LEMMA FoundFacts ==
  ASSUME Types, [Next]_vars, NEW r \in Runners, NEW e \in Experiments
  PROVE  found'[r][e] \in {found[r][e], 0, saved[e]}
<1> USE DEF Types, ControlTypes
<1>1. ASSUME UNCHANGED runnerVars PROVE found'[r][e] = found[r][e]
  BY <1>1 DEF runnerVars, control
<1>2. ASSUME NEW q \in Runners, RunnerAction(q), q # r PROVE found'[r][e] = found[r][e]
  BY <1>2, OthersUnmoved DEF Unmoved
<1>3. ASSUME NEW code, Ends(r, code) PROVE found'[r][e] = 0
  BY <1>3 DEF Ends
<1>4. ASSUME NEW loop, Fails(r, loop) PROVE found'[r][e] \in {found[r][e], 0}
  BY <1>3, <1>4 DEF Fails
<1>5. ASSUME RunnerAction(r) PROVE found'[r][e] \in {found[r][e], 0, saved[e]}
  <2>1. CASE Plan(r)
    <3>1. CASE found' = [found EXCEPT ![r][Current(r)] =
                          IF args[r].mode = "disable" THEN 0 ELSE saved[Current(r)]]
      BY <3>1
    <3>2. QED
      BY <1>4, <2>1, <3>1 DEF Plan
  <2>2. CASE Start(r) \/ Planned(r) \/ UseData(r) \/ AnnounceBuild(r) \/ BuildData(r)
    BY <2>2, <1>3, <1>4 DEF Start, Planned, UseData, AnnounceBuild, BuildData, DataReady
  <2>3. CASE ReadModel(r) \/ HashModel(r) \/ ReadFiles(r) \/ ReadDataset(r) \/ IdentityError(r)
    BY <2>3, <1>4 DEF ReadModel, HashModel, ReadFiles, ReadDataset, IdentityError
  <2>4. CASE Check(r) \/ Rename(r) \/ Validated(r)
    BY <2>4, <1>3, <1>4 DEF Check, Rename, Validated
  <2>5. CASE Launch(r) \/ Reap(r) \/ Launched(r) \/ Interrupt(r) \/ Kill(r)
    BY <2>5, <1>3, <1>4 DEF Launch, Reap, Launched, Interrupt, Kill
  <2>6. QED
    BY <1>5, <2>1, <2>2, <2>3, <2>4, <2>5 DEF RunnerAction, RunnerStep
<1>6. QED
  BY <1>1, <1>2, <1>5, RunnersUnmoved DEF Next, RunnerAction, vars

\* The status of a process changes by its own steps, by its launch, and when
\* its runner waits for it.
LEMMA StatusFacts ==
  ASSUME Types, Shape, [Next]_vars, NEW e \in Experiments
  PROVE  \/ proc'[e] = proc[e] /\ command'[e] = command[e]
         \/ proc[e] = "forked" /\ proc'[e] = "running" /\ command'[e] = command[e]
         \/ Succeed(e) /\ proc'[e] = "succeeded"
         \/ Alive(e) /\ proc'[e] = "failed"
         \/ \E r \in Runners : /\ Launch(r) /\ e = Current(r) /\ pc'[r] = "wait"
                              /\ proc'[e] = "forked" /\ command'[e] = args[r]
         \/ \E r \in Runners : /\ Reap(r) \/ (Interrupt(r) /\ pc[r] = "wait")
                              /\ e = Current(r) /\ proc'[e] = "none"
<1> USE DEF Types, ChildTypes
<1>1. ASSUME UNCHANGED childVars PROVE proc'[e] = proc[e] /\ command'[e] = command[e]
  BY <1>1 DEF childVars
<1>2. ASSUME NEW x \in Experiments, TrainingStep(x) \/ Die(x)
      PROVE  \/ proc'[e] = proc[e] /\ command'[e] = command[e]
             \/ proc[e] = "forked" /\ proc'[e] = "running" /\ command'[e] = command[e]
             \/ Succeed(e) /\ proc'[e] = "succeeded"
             \/ Alive(e) /\ proc'[e] = "failed"
  <2>1. CASE Load(x) \/ Train(x) \/ BeginSave(x) \/ EndSave(x)
    BY <2>1, <1>1 DEF Load, Train, BeginSave, EndSave
  <2>2. CASE Succeed(x) \/ Die(x)
    BY <2>2 DEF Succeed, Die, Exit
  <2>3. QED
    BY <1>2, <2>1, <2>2 DEF TrainingStep
<1>3. ASSUME NEW r \in Runners, Launch(r)
      PROVE  \/ proc'[e] = proc[e] /\ command'[e] = command[e]
             \/ /\ e = Current(r) /\ pc'[r] = "wait" /\ proc'[e] = "forked"
                /\ command'[e] = args[r]
  BY <1>3 DEF Launch, ControlTypes
<1>4. ASSUME NEW r \in Runners, Reap(r)
      PROVE  \/ proc'[e] = proc[e] /\ command'[e] = command[e]
             \/ e = Current(r) /\ proc'[e] = "none"
  BY <1>4 DEF Reap
<1>5. ASSUME NEW r \in Runners, Interrupt(r)
      PROVE  \/ proc'[e] = proc[e] /\ command'[e] = command[e]
             \/ e = Current(r) /\ pc[r] = "wait" /\ proc'[e] = "none"
  BY <1>5, <1>1 DEF Interrupt, NotRunning
<1>6. ASSUME NEW r \in Runners, RunnerStep(r), ~Launch(r), ~Reap(r) PROVE UNCHANGED childVars
  BY <1>6 DEF RunnerStep, Plan, Planned, UseData, AnnounceBuild, BuildData, ReadModel, HashModel,
     ReadFiles, ReadDataset, IdentityError, Check, Rename, Validated, Launched
<1>7. QED
  BY <1>1, <1>2, <1>3, <1>4, <1>5, <1>6 DEF Next, Start, Kill, Edit, vars

\* Steps for the experiment a runner waits for are its own.
LEMMA WaitFacts ==
  ASSUME Types, Shape, Exclusive, NEW r \in Runners, todo[r] # <<>>,
         NEW q \in Runners, todo[q] # <<>>, Current(q) = Current(r)
  PROVE  q = r
  BY CurrentFacts DEF Exclusive

\* An experiment that is done stays done.
LEMMA DoneStays ==
  ASSUME Types, Shape, Identified, [Next]_vars, NEW r \in Runners, NEW e \in Experiments,
         Done(r, e), args'[r] = args[r]
  PROVE  Done(r, e)'
<1>1. args[r].request \in Requests /\ args[r].target \in Nat
  BY InvocationFacts DEF Types, BatchTypes
<1>2. manifest[e] # NoIdentity
  BY <1>1, RequestsAssumption DEF Done, NoIdentity
<1>3. manifest'[e] = manifest[e] /\ saved'[e] \in Nat /\ saved[e] <= saved'[e] /\ saved[e] \in Nat
  BY <1>2, ManifestStays, SavedFacts DEF Types, DiskTypes
<1>4. QED
  BY <1>1, <1>3 DEF Done

\* Every experiment of a batch is to be handled, kept, done, or has failed.
LEMMA AccountedStep ==
  ASSUME Types, Shape, Exclusive, Identified, Requested, Accounted, [Next]_vars
  PROVE  Accounted'
<1> USE DEF Types, BatchTypes
<1>0. Types' /\ Shape'
  BY ShapeStep
<1>1. ASSUME NEW r \in Runners, NEW e \in Experiments PROVE found'[r][e] <= saved'[e]
  <2>1. saved'[e] \in Nat /\ saved[e] <= saved'[e] /\ saved[e] \in Nat
    BY SavedFacts DEF DiskTypes
  <2>2. found[r][e] <= saved[e] /\ found[r][e] \in Nat
    BY DEF Accounted, ControlTypes
  <2>3. found'[r][e] \in {found[r][e], 0, saved[e]}
    BY FoundFacts
  <2>4. QED
    BY <2>1, <2>2, <2>3
<1>2. ASSUME NEW r \in Runners, NEW e \in Experiments, Verified(r), e = Current(r),
             RunnerStep(r), stage[r] = "plan",
             found[r][e] >= args[r].target, ~Dry(r), args'[r] = args[r]
      PROVE  Done(r, e)'
  <2>1. found[r][e] <= saved[e] /\ found[r][e] \in Nat /\ saved[e] \in Nat
    BY DEF Accounted, ControlTypes, DiskTypes
  <2>2. args[r].target \in Nat /\ args[r].request \in Requests
    BY InvocationFacts
  <2>3. saved'[e] >= args[r].target
    BY <1>2, <2>1, <2>2, SavedFacts
  <2>4. manifest'[e].request = args[r].request
    <3>1. CASE Check(r) /\ Matches(r, e) /\ UNCHANGED manifest
      BY <1>2, <3>1 DEF Check, Matches, View, Identified, IdentTypes, DiskTypes, Identity
    <3>2. CASE Rename(r)
      BY <1>2, <3>2 DEF Rename, Identified, DiskTypes
    <3>3. QED
      BY <1>2, <3>1, <3>2 DEF Verified
  <2>5. QED
    BY <1>2, <2>3, <2>4 DEF Done
<1>3. ASSUME NEW r \in Runners, Active(r)', ~failed'[r], ~Dry(r)',
             NEW e \in Selected(r)', e \notin Pending(r)', e \notin Kept(r)'
      PROVE  Done(r, e)'
  <2>1. CASE Start(r)
    <3>1. Pending(r)' = Selected(r)'
      BY <2>1 DEF Start, Pending, Selected, ControlTypes
    <3>2. QED
      BY <1>3, <3>1
  <2>2. CASE ~Start(r)
    <3>1. Active(r) /\ args'[r] = args[r] /\ ~Dry(r) /\ e \in Selected(r)
      BY <1>3, <2>2, ActiveFacts DEF Dry, Selected
    <3>2. e \in Experiments
      BY <3>1, SelectedFacts
    <3>3. ASSUME ~failed[r], e \notin Pending(r), e \notin Kept(r) PROVE Done(r, e)'
      BY <3>1, <3>2, <3>3, DoneStays DEF Accounted
    <3>4. CASE Unmoved(r)
      BY <1>3, <3>3, <3>4 DEF Unmoved, Pending, Kept
    <3>5. CASE RunnerStep(r)
      <4>1. CASE Stays(r)
        BY <1>3, <3>3, <4>1 DEF Stays, Pending, Kept
      <4>2. CASE failed'[r] = TRUE
        BY <1>3, <4>2
      <4>3. CASE /\ todo[r] # <<>> /\ Drops(r) /\ UNCHANGED failed
                 /\ \/ Reap(r) /\ proc[Current(r)] = "succeeded"
                    \/ Verified(r) /\ stage[r] = "plan" /\ found[r][Current(r)] >= args[r].target
        <5>1. CASE e # Current(r)
          BY <1>3, <3>3, <4>3, <5>1 DEF Drops
        <5>2. CASE e = Current(r) /\ Reap(r) /\ proc[Current(r)] = "succeeded"
          <6>1. saved[e] >= args[r].target
            BY <5>2 DEF Reap, Accounted
          <6>2. manifest[e].request = args[r].request
            BY <4>3, <5>2, CurrentFacts DEF Reap, Shape, Requested
          <6>3. QED
            BY <3>1, <3>2, <6>1, <6>2, DoneStays DEF Done
        <5>3. CASE /\ e = Current(r) /\ Verified(r) /\ stage[r] = "plan"
                   /\ found[r][Current(r)] >= args[r].target
          BY <1>2, <3>1, <3>2, <3>5, <5>3
        <5>4. QED
          BY <4>3, <5>1, <5>2, <5>3
      <4>4. CASE Keeps(r)
        BY <1>3, <3>3, <4>4 DEF Keeps
      <4>5. CASE Switches(r)
        BY <1>3, <3>3, <4>5 DEF Switches
      <4>6. QED
        BY <1>3, <3>5, <4>1, <4>2, <4>3, <4>4, <4>5, ListFacts
    <3>6. ASSUME Interrupt(r) \/ Kill(r) PROVE FALSE
      BY <1>3, <3>6, EndsShape DEF Interrupt, Kill
    <3>7. ASSUME UNCHANGED runnerVars PROVE Unmoved(r)
      BY <3>7 DEF runnerVars, control, batchVars, identVars, Unmoved
    <3>8. QED
      BY <2>2, <3>4, <3>5, <3>6, <3>7, OthersUnmoved, RunnersUnmoved DEF Next, RunnerAction, vars
  <2>3. QED
    BY <2>1, <2>2
<1>4. ASSUME NEW r \in Runners, pc'[r] = "wait"
      PROVE  /\ proc'[Current(r)'] # "none" /\ manifest'[Current(r)'] # NoIdentity
             /\ Alive(Current(r))' => command'[Current(r)'].target = args'[r].target
             /\ proc'[Current(r)'] = "succeeded" => saved'[Current(r)'] >= args'[r].target
  <2> DEFINE e == Current(r)
  <2>1. CASE Unmoved(r)
    <3>1. /\ pc[r] = "wait" /\ todo'[r] = todo[r] /\ todo[r] # <<>> /\ args'[r] = args[r]
          /\ Current(r)' = e
      BY <1>4, <2>1 DEF Unmoved, Shape, AtExperiment, Current
    <3>2. e \in Experiments
      BY <3>1, CurrentFacts
    <3>3. /\ proc[e] # "none" /\ manifest[e] # NoIdentity
          /\ Alive(e) => command[e].target = args[r].target
          /\ proc[e] = "succeeded" => saved[e] >= args[r].target
      BY <3>1 DEF Accounted
    <3>4. ASSUME NEW q \in Runners, e = Current(q), pc[q] \in {"launch", "wait"}
          PROVE  q = r
      BY <3>1, <3>4, WaitFacts DEF Shape, AtExperiment
    <3>5. ASSUME NEW q \in Runners, Launch(q), e = Current(q) PROVE FALSE
      BY <3>1, <3>4, <3>5 DEF Launch
    <3>6. ASSUME NEW q \in Runners, Reap(q) \/ (Interrupt(q) /\ pc[q] = "wait"), e = Current(q)
          PROVE  FALSE
      <4>1. q = r
        BY <3>4, <3>6 DEF Reap
      <4>2. ~Interrupt(r)
        BY <1>4, EndsShape DEF Interrupt
      <4>3. RunnerStep(r) /\ ~Launch(r)
        BY <3>1, <3>6, <4>1, <4>2 DEF RunnerStep, Launch
      <4>4. QED
        BY <1>4, <4>3, Arrivals
    <3>7. saved'[e] \in Nat /\ saved[e] <= saved'[e] /\ saved[e] \in Nat /\ args[r].target \in Nat
      BY <3>2, SavedFacts, InvocationFacts DEF DiskTypes
    <3>8. manifest'[e] # NoIdentity
      BY <3>2, <3>3, ManifestStays
    <3>9. /\ proc'[e] # "none"
          /\ proc'[e] \in {"forked", "running"} => command'[e].target = args[r].target
          /\ proc'[e] = "succeeded" => saved'[e] >= args[r].target
      <4>1. CASE proc'[e] = proc[e] /\ command'[e] = command[e]
        BY <3>3, <3>7, <4>1 DEF Alive
      <4>2. CASE proc[e] = "forked" /\ proc'[e] = "running" /\ command'[e] = command[e]
        BY <3>3, <4>2 DEF Alive
      <4>3. CASE Succeed(e) /\ proc'[e] = "succeeded"
        <5>1. command[e].target = args[r].target /\ at[e] >= command[e].target /\ saved[e] = at[e]
          BY <3>3, <4>3 DEF Succeed, Alive
        <5>2. QED
          BY <3>7, <4>3, <5>1 DEF Alive
      <4>4. CASE Alive(e) /\ proc'[e] = "failed"
        BY <4>4 DEF Alive
      <4>5. QED
        BY <3>2, <3>5, <3>6, <4>1, <4>2, <4>3, <4>4, StatusFacts
    <3>10. QED
      BY <3>1, <3>8, <3>9 DEF Alive
  <2>2. CASE RunnerStep(r)
    <3>1. Launch(r)
      BY <1>4, <2>2, Arrivals
    <3>2. todo[r] # <<>> /\ Current(r) \in Experiments
      BY <3>1, CurrentFacts DEF Launch, Shape, AtExperiment
    <3>3. ~Fails(r, "model")
      BY <1>4, EndsShape DEF Fails, Advance, ControlTypes
    <3>4. /\ proc' = [proc EXCEPT ![e] = "forked"]
          /\ command' = [command EXCEPT ![e] = args[r]]
          /\ UNCHANGED <<todo, args, manifest>>
      BY <3>1, <3>3 DEF Launch, batchVars
    <3>5. Current(r)' = e /\ proc'[e] = "forked" /\ command'[e] = args[r]
      BY <3>2, <3>4 DEF Current, ChildTypes
    <3>6. manifest[e] # NoIdentity
      BY <3>1, RequestFacts DEF Launch, Identified
    <3>7. QED
      BY <3>4, <3>5, <3>6 DEF Alive
  <2>3. QED
    BY <1>4, <2>1, <2>2, AtPoint
<1>5. QED
  BY <1>1, <1>3, <1>4 DEF Accounted

\* The process's counters are zero while none runs.
LEMMA CountersFacts ==
  ASSUME Types, Shape, [Next]_vars, NEW e \in Experiments, proc'[e] # "running"
  PROVE  \/ proc[e] # "running" /\ at'[e] = at[e] /\ from'[e] = from[e]
         \/ at'[e] = 0 /\ from'[e] = 0
         \/ proc[e] = "running" /\ \E r \in Runners : (Launch(r) \/ Reap(r)) /\ e = Current(r)
<1> USE DEF Types, ChildTypes
<1>1. ASSUME UNCHANGED childVars PROVE proc[e] # "running" /\ at'[e] = at[e] /\ from'[e] = from[e]
  BY <1>1 DEF childVars
<1>2. ASSUME NEW x \in Experiments, TrainingStep(x) \/ Die(x)
      PROVE  \/ proc[e] # "running" /\ at'[e] = at[e] /\ from'[e] = from[e]
             \/ at'[e] = 0 /\ from'[e] = 0
  <2>1. CASE x = e
    BY <1>1, <1>2, <2>1 DEF TrainingStep, Die, Load, Train, BeginSave, EndSave, Succeed, Exit
  <2>2. CASE x # e
    BY <1>1, <1>2, <2>2 DEF TrainingStep, Die, Load, Train, BeginSave, EndSave, Succeed, Exit
  <2>3. QED
    BY <2>1, <2>2
<1>3. ASSUME NEW r \in Runners, Launch(r) \/ Reap(r)
      PROVE  \/ proc[e] # "running" /\ at'[e] = at[e] /\ from'[e] = from[e]
             \/ proc[e] = "running" /\ e = Current(r)
  BY <1>3 DEF Launch, Reap
<1>4. ASSUME NEW r \in Runners, Interrupt(r)
      PROVE  \/ proc[e] # "running" /\ at'[e] = at[e] /\ from'[e] = from[e]
             \/ at'[e] = 0 /\ from'[e] = 0
  BY <1>1, <1>4 DEF Interrupt, NotRunning
<1>5. ASSUME NEW r \in Runners, RunnerStep(r), ~Launch(r), ~Reap(r) PROVE UNCHANGED childVars
  BY <1>5 DEF RunnerStep, Plan, Planned, UseData, AnnounceBuild, BuildData, ReadModel, HashModel,
     ReadFiles, ReadDataset, IdentityError, Check, Rename, Validated, Launched
<1>6. QED
  BY <1>1, <1>2, <1>3, <1>4, <1>5 DEF Next, Start, Kill, Edit, vars

\* A process that is to start over finds nothing saved.
LEMMA FreshStep ==
  ASSUME Types, Shape, Exclusive, Fresh, [Next]_vars
  PROVE  Fresh'
<1> USE DEF Types, BatchTypes
<1>0. Types' /\ Shape'
  BY ShapeStep
<1>1. ASSUME NEW e \in Experiments, saved'[e] > 0 PROVE begun'[e]
  <2>1. CASE EndSave(e)
    BY <2>1, SavedFacts DEF EndSave
  <2>2. CASE saved'[e] = saved[e]
    BY <1>1, <2>2, SavedFacts DEF Fresh
  <2>3. QED
    BY <2>1, <2>2, SavedFacts
<1>2. ASSUME NEW r \in Runners, Launch(r) \/ Reap(r)
      PROVE  proc[Current(r)] # "running" /\ Current(r) \in Experiments /\ todo[r] # <<>>
  <2>1. todo[r] # <<>>
    BY <1>2 DEF Launch, Reap, Shape, AtExperiment
  <2>2. CASE Launch(r)
    BY <2>1, <2>2, CurrentFacts DEF Launch, Exclusive, Alive
  <2>3. CASE Reap(r)
    BY <2>1, <2>3, CurrentFacts DEF Reap, Alive
  <2>4. QED
    BY <1>2, <2>2, <2>3, <2>1
<1>3. ASSUME NEW e \in Experiments, proc'[e] # "running" PROVE at'[e] = 0 /\ from'[e] = 0
  BY <1>2, <1>3, CountersFacts DEF Fresh
<1>4. ASSUME NEW e \in Experiments, proc'[e] = "forked", command'[e].mode = "disable"
      PROVE  saved'[e] = 0
  <2>1. ~EndSave(e)
    BY <1>4 DEF EndSave, childVars
  <2>2. saved'[e] = saved[e]
    BY <2>1, SavedFacts
  <2>3. CASE proc'[e] = proc[e] /\ command'[e] = command[e]
    BY <1>4, <2>2, <2>3 DEF Fresh
  <2>4. CASE \E r \in Runners : Launch(r) /\ e = Current(r) /\ command'[e] = args[r]
    <3>1. PICK r \in Runners : Launch(r) /\ e = Current(r) /\ command'[e] = args[r]
      BY <2>4
    <3>2. pc[r] = "launch" /\ e \in Pending(r) /\ Active(r) /\ args[r].mode = "disable"
      BY <1>2, <1>4, <3>1, CurrentFacts DEF Launch
    <3>3. ~begun[e]
      BY <3>2 DEF Fresh
    <3>4. QED
      BY <2>2, <3>3 DEF Fresh, DiskTypes
  <2>5. QED
    BY <1>4, <2>3, <2>4, StatusFacts
<1>5. ASSUME NEW r \in Runners, Active(r)', args'[r].mode = "disable",
             NEW e \in Kept(r)' \cup (IF pc'[r] = "plan" THEN {} ELSE Pending(r)'),
             begun'[e]
      PROVE  pc'[r] = "wait" /\ e = Current(r)'
  <2>0. e \in Selected(r)' /\ e \in Kept(r)' \cup Pending(r)'
    BY <1>0, <1>5 DEF Shape
  <2>1. CASE Start(r)
    BY <1>5, <2>1, EmptyOf DEF Start, Shape, Kept, ControlTypes
  <2>2. CASE ~Start(r)
    <3>1. Active(r) /\ args'[r] = args[r] /\ e \in Selected(r)
      BY <1>5, <2>0, <2>2, ActiveFacts DEF Selected
    <3>2. e \in Experiments
      BY <3>1, SelectedFacts
    <3>3. CASE BeginSave(e)
      <4>1. pc[r] = "wait" /\ e = Current(r)
        BY <3>1, <3>3 DEF BeginSave, Alive, Exclusive
      <4>2. UNCHANGED <<pc, todo>>
        BY <3>3 DEF BeginSave, runnerVars, control
      <4>3. QED
        BY <4>1, <4>2 DEF Current
    <3>4. CASE begun[e]
      <4>1. ASSUME e \in Kept(r) \cup (IF pc[r] = "plan" THEN {} ELSE Pending(r))
            PROVE  pc[r] = "wait" /\ e = Current(r)
        <5>1. args[r].mode = "disable"
          BY <1>5, <3>1
        <5>2. \A x \in Kept(r) \cup IF pc[r] = "plan" THEN {} ELSE Pending(r) :
                 begun[x] => pc[r] = "wait" /\ x = Current(r)
          BY <3>1, <5>1 DEF Fresh
        <5>3. QED
          BY <3>4, <4>1, <5>2
      <4>2. CASE Unmoved(r)
        BY <1>5, <4>1, <4>2 DEF Unmoved, Kept, Pending, Current
      <4>3. CASE RunnerStep(r)
        <5>1. ASSUME pc[r] = "wait" PROVE Reap(r)
          BY <4>3, <5>1 DEF RunnerStep, Plan, Planned, UseData, AnnounceBuild, BuildData,
             ReadModel, HashModel, ReadFiles, ReadDataset, IdentityError, Check, Rename, Validated,
             Launch, Launched
        <5>2. CASE Stays(r)
          <6>1. pc[r] # "plan"
            <7>1. ASSUME pc[r] = "plan" PROVE FALSE
              <8>1. Plan(r) \/ Planned(r)
                BY <4>3, <7>1 DEF RunnerStep, UseData, AnnounceBuild, BuildData,
                   ReadModel, HashModel, ReadFiles, ReadDataset, IdentityError, Check, Rename,
                   Validated, Launch, Launched, Reap
              <8>2. CASE Plan(r)
                <9>1. todo[r] # <<>> /\ todo'[r] = Tail(todo[r])
                  BY <1>5, <8>2, EndsShape DEF Plan, Fails, Advance, ControlTypes
                <9>2. todo[r] \in Seq(Experiments) /\ OnceOnly(todo[r])
                  BY DEF ControlTypes, Shape
                <9>3. QED
                  BY <5>2, <9>1, <9>2, TailOf DEF Stays
              <8>3. CASE Planned(r)
                <9>1. kept[r] # <<>> /\ todo'[r] = kept[r] /\ todo[r] = <<>>
                  BY <1>5, <8>3, EndsShape DEF Planned, ControlTypes
                <9>2. QED
                  BY <5>2, <9>1 DEF Stays
              <8>4. QED
                BY <8>1, <8>2, <8>3
            <7>2. QED
              BY <7>1
          <6>2. pc[r] = "wait"
            BY <2>0, <4>1, <5>2, <6>1 DEF Stays, Kept, Pending
          <6>3. todo'[r] = Tail(todo[r]) /\ todo[r] # <<>>
            BY <1>5, <5>1, <6>2, EndsShape DEF Reap, Fails, Advance, ControlTypes, Shape, AtExperiment
          <6>4. todo[r] \in Seq(Experiments) /\ OnceOnly(todo[r])
            BY DEF ControlTypes, Shape
          <6>5. QED
            BY <5>2, <6>3, <6>4, TailOf DEF Stays
        <5>3. CASE todo[r] # <<>> /\ Drops(r)
          <6>1. e # Current(r)
            BY <2>0, <5>3, CurrentFacts DEF Drops, Shape
          <6>2. pc[r] = "plan" /\ e \notin Kept(r)
            BY <2>0, <4>1, <5>3, <6>1 DEF Drops
          <6>3. Plan(r) \/ Planned(r)
            BY <4>3, <6>2 DEF RunnerStep, UseData, AnnounceBuild, BuildData,
               ReadModel, HashModel, ReadFiles, ReadDataset, IdentityError, Check, Rename,
               Validated, Launch, Launched, Reap
          <6>4. pc'[r] = "plan"
            BY <1>5, <5>3, <6>3, EndsShape DEF Plan, Planned, Fails, Advance, ControlTypes
          <6>5. QED
            BY <1>5, <5>3, <6>2, <6>4 DEF Drops
        <5>4. CASE Keeps(r) /\ Plan(r) /\ Plannable(r, Current(r)) /\ pc'[r] = "plan"
          <6>1. ~begun[Current(r)] /\ pc[r] = "plan"
            BY <3>1, <5>4, <1>5 DEF Plannable, Plan
          <6>2. QED
            BY <1>5, <3>4, <4>1, <5>4, <6>1 DEF Keeps
        <5>5. CASE todo[r] # <<>> /\ Keeps(r) /\ Verified(r)
          <6>1. pc[r] \in {"check", "rename"} /\ Current(r) \in Pending(r)
            BY <5>5, CurrentFacts DEF Verified, Check, Rename
          <6>2. e \in Kept(r) \cup Pending(r)
            BY <2>0, <5>5, <6>1 DEF Keeps
          <6>3. QED
            BY <4>1, <6>1, <6>2
        <5>6. CASE Switches(r)
          <6>1. pc[r] # "wait"
            BY <5>1, <5>6, EmptyOf, CurrentFacts DEF Reap, Switches, Shape, AtExperiment
          <6>2. QED
            BY <2>0, <4>1, <5>6, <6>1 DEF Switches
        <5>7. QED
          BY <1>5, <4>3, <5>2, <5>3, <5>4, <5>5, <5>6, ListFacts
      <4>4. ASSUME Interrupt(r) \/ Kill(r) PROVE FALSE
        BY <1>5, <4>4, EndsShape DEF Interrupt, Kill
      <4>5. ASSUME UNCHANGED runnerVars PROVE Unmoved(r)
        BY <4>5 DEF runnerVars, control, batchVars, identVars, Unmoved
      <4>6. QED
        BY <2>2, <4>2, <4>3, <4>4, <4>5, OthersUnmoved, RunnersUnmoved
           DEF Next, RunnerAction, vars
    <3>5. QED
      BY <1>5, <3>2, <3>3, <3>4, SavedFacts
  <2>3. QED
    BY <2>1, <2>2
<1>6. QED
  BY <1>1, <1>3, <1>4, <1>5 DEF Fresh

(***************************************************************************)
(* The inductive invariant.                                                *)
(***************************************************************************)

\* Before anything has been started nothing is launched, kept or running.
LEMMA InitInvariant ==
  ASSUME Init
  PROVE  IInv
<1>1. TypeOK
  <2>1. WorldTypes /\ DiskTypes
    BY NoIdentityFact DEF Init, WorldTypes, DiskTypes, HashState, Absent
  <2>2. ControlTypes
    BY EmptyOf DEF Init, ControlTypes
  <2>3. BatchTypes
    BY SomeInvocationFact DEF Init, BatchTypes
  <2>4. IdentTypes
    BY NoIdentityFact DEF Init, IdentTypes, HashState, Absent
  <2>5. ChildTypes
    BY SomeInvocationFact, NoIdentityFact DEF Init, ChildTypes
  <2>6. GhostTypes
    BY DEF Init, GhostTypes
  <2>7. QED
    BY <2>1, <2>2, <2>3, <2>4, <2>5, <2>6, TypesAreTypeOK DEF Types
<1>2. /\ \A r \in Runners : pc[r] = "idle" /\ stage[r] = "plan" /\ todo[r] = <<>>
                            /\ kept[r] = <<>> /\ ident[r] = NoIdentity /\ memo[r] = 0
                            /\ serial[r] = 0 /\ hashing[r] = [meta |-> 0, content |-> 0]
                            /\ found[r] = [e \in Experiments |-> 0]
      /\ \A e \in Experiments : manifest[e] = NoIdentity /\ ~temp[e] /\ ~logs[e]
                            /\ ~begun[e] /\ saved[e] = 0 /\ proc[e] = "none"
                            /\ at[e] = 0 /\ from[e] = 0
      /\ launched = {} /\ stamp = 1 /\ model = 1 /\ files = 1 /\ dataset \in {0, 1}
      /\ cache = [meta |-> 0, content |-> 0] /\ starts = 0
  BY DEF Init, Absent
<1>3. \A r \in Runners : ~Active(r) /\ Pending(r) = {} /\ Kept(r) = {}
  BY <1>2, EmptyOf DEF Active, Pending, Kept
<1>4. \A e \in Experiments : ~Alive(e)
  BY <1>2 DEF Alive
<1>5. Shape
  BY <1>2, <1>3, EmptyOf DEF Shape, Active, AtExperiment
<1>6. Exclusive
  BY <1>3, <1>4 DEF Exclusive
<1>7. Identified
  BY <1>2, <1>4 DEF Identified, ManifestPrecedesArtifacts
<1>8. HashesSound
  BY <1>2 DEF HashesSound
<1>9. DriftKnown
  BY <1>2 DEF DriftKnown, TrainedAsRecorded
<1>10. BehindWorld
  BY <1>2 DEF BehindWorld, AtMostWorld, NoIdentity, Absent
<1>11. Numbered
  BY <1>2, <1>3 DEF Numbered
<1>12. Requested
  BY <1>2 DEF Requested
<1>13. OneConfiguration
  BY <1>2 DEF OneConfiguration, BatchUsesOneConfiguration
<1>14. Accounted
  BY <1>2, <1>3 DEF Accounted
<1>15. Fresh
  BY <1>2, <1>3 DEF Fresh
<1>16. QED
  BY <1>1, <1>5, <1>6, <1>7, <1>8, <1>9, <1>10, <1>11, <1>12, <1>13, <1>14, <1>15 DEF IInv

\* Every step of the runners, their processes and the world keeps it.
LEMMA StepInvariant ==
  ASSUME IInv, [Next]_vars
  PROVE  IInv'
<1>1. /\ Types /\ Shape /\ Exclusive /\ Identified /\ HashesSound /\ DriftKnown
      /\ BehindWorld /\ Numbered /\ Requested /\ OneConfiguration /\ Accounted /\ Fresh
  BY TypesAreTypeOK DEF IInv
<1>2. Types' /\ Shape'
  BY <1>1, ShapeStep
<1>3. TypeOK'
  BY <1>2 DEF TypeOK, Types, WorldTypes, DiskTypes, ControlTypes, BatchTypes, IdentTypes,
     ChildTypes, GhostTypes
<1>4. Exclusive' /\ Identified' /\ HashesSound'
  BY <1>1, ExclusiveStep, IdentifiedStep, HashesStep
<1>5. DriftKnown' /\ BehindWorld' /\ Numbered'
  BY <1>1, DriftStep, BehindStep, NumberedStep
<1>6. Requested' /\ OneConfiguration'
  BY <1>1, RequestedStep, OneConfigurationStep
<1>7. Accounted' /\ Fresh'
  BY <1>1, AccountedStep, FreshStep
<1>8. QED
  BY <1>2, <1>3, <1>4, <1>5, <1>6, <1>7 DEF IInv

\* The inductive invariant holds in every reachable state, whoever edits,
\* undoes, interrupts or kills (run_ablation_matrix.py, execute).
THEOREM Invariant == Spec => []IInv
<1>1. Init => IInv
  BY InitInvariant
<1>2. IInv /\ [Next]_vars => IInv'
  BY StepInvariant
<1>3. QED
  BY <1>1, <1>2, PTL DEF Spec

(***************************************************************************)
(* What it implies.                                                        *)
(***************************************************************************)

\* Every variable of the runners, the directories and the processes keeps
\* to its type.
THEOREM TypeCorrect == Spec => []TypeOK
<1>1. IInv => TypeOK
  BY DEF IInv
<1>2. QED
  BY <1>1, Invariant, PTL

\* Everything ever trained in one directory was launched under one identity:
\* the launch compares with the manifest, and the manifest never changes.
THEOREM OneIdentity == Spec => []OneIdentityPerDirectory
<1>1. IInv => OneIdentityPerDirectory
  BY DEF IInv, Identified, OneIdentityPerDirectory
<1>2. QED
  BY <1>1, Invariant, PTL

\* While no content comes back, all that one batch launches is launched
\* under one model, configuration and data set.
THEOREM OneConfigurationPerBatch == Spec => []BatchUsesOneConfiguration
<1>1. IInv => BatchUsesOneConfiguration
  BY DEF IInv, OneConfiguration
<1>2. QED
  BY <1>1, Invariant, PTL

\* A training process has read what its manifest records, the parts changed
\* since the launch identity read them aside.
THEOREM RecordsAreTrue == Spec => []TrainedAsRecorded
<1>1. IInv => TrainedAsRecorded
  BY DEF IInv, DriftKnown
<1>2. QED
  BY <1>1, Invariant, PTL

\* Logs, checkpoints and live processes are found beside a manifest only.
THEOREM ManifestFirst == Spec => []ManifestPrecedesArtifacts
<1>1. IInv => ManifestPrecedesArtifacts
  BY DEF IInv, Identified
<1>2. QED
  BY <1>1, Invariant, PTL

\* A step that is no action of one runner leaves that runner alone.
LEMMA RunnerMoves ==
  ASSUME Types, [Next]_vars, NEW r \in Runners, Active(r)
  PROVE  Unmoved(r) \/ RunnerStep(r) \/ Interrupt(r) \/ Kill(r)
<1>1. ASSUME UNCHANGED runnerVars PROVE Unmoved(r)
  BY <1>1 DEF runnerVars, control, batchVars, identVars, Unmoved
<1>2. ~Start(r)
  BY DEF Start
<1>3. QED
  BY <1>1, <1>2, OthersUnmoved, RunnersUnmoved DEF Next, RunnerAction, vars

\* A batch that returns 0 leaves every selected experiment at its target,
\* recorded under the switches and the model asked for: what left its lists
\* without a failure is done, and what is done stays done.
THEOREM SuccessIsComplete == Spec => SuccessMeansComplete
<1>1. ASSUME IInv, [Next]_vars, NEW r \in Runners,
             Active(r), pc'[r] = "idle", rc'[r] = 0, ~Dry(r),
             NEW e \in Elems(args[r].select)
      PROVE  saved'[e] >= args[r].target /\ manifest'[e].request = args[r].request
  <2>1. Types /\ Shape /\ Accounted /\ ControlTypes /\ BatchTypes
    BY <1>1, TypesAreTypeOK DEF IInv, Types
  <2>2. RunnerStep(r) \/ Interrupt(r) \/ Kill(r)
    BY <1>1, <2>1, RunnerMoves DEF Unmoved, Active
  <2>3. ~Ends(r, 1)
    BY <1>1, <2>1 DEF Ends, ControlTypes
  <2>4. ASSUME NEW loop \in {"plan", "model"} PROVE ~Fails(r, loop)
    BY <1>1, <2>1, <2>3 DEF Fails, Advance, ControlTypes
  <2>5. CASE Planned(r)
    <3>1. todo[r] = <<>> /\ kept[r] = <<>> /\ ~failed[r] /\ UNCHANGED disk
      BY <1>1, <2>1, <2>3, <2>5 DEF Planned, ControlTypes
    <3>2. QED
      BY <1>1, <2>1, <3>1, EmptyOf DEF Accounted, Done, Selected, Pending, Kept, disk
  <2>6. CASE Launched(r)
    <3>1. todo[r] = <<>> /\ kept[r] = <<>> /\ ~failed[r] /\ UNCHANGED disk
      BY <1>1, <2>1, <2>3, <2>6 DEF Launched, Shape
    <3>2. QED
      BY <1>1, <2>1, <3>1, EmptyOf DEF Accounted, Done, Selected, Pending, Kept, disk
  <2>7. ~Interrupt(r) /\ ~Kill(r)
    BY <2>3 DEF Interrupt, Kill
  <2>8. ~Plan(r)
    BY <1>1, <2>1, <2>4 DEF Plan, Advance, ControlTypes
  <2>9. ~UseData(r) /\ ~AnnounceBuild(r) /\ ~BuildData(r)
    BY <1>1, <2>1, <2>3 DEF UseData, AnnounceBuild, BuildData, DataReady, ControlTypes
  <2>10. ~ReadModel(r) /\ ~HashModel(r)
    BY <1>1, <2>1, <2>4 DEF ReadModel, HashModel, HasModel, ControlTypes
  <2>11. ~ReadFiles(r) /\ ~ReadDataset(r) /\ ~IdentityError(r)
    BY <1>1, <2>1, <2>4 DEF ReadFiles, ReadDataset, IdentityError, ControlTypes
  <2>12. ~Check(r) /\ ~Rename(r)
    BY <1>1, <2>1, <2>4 DEF Check, Rename, Accept, Advance, ControlTypes
  <2>13. ~Validated(r)
    BY <1>1, <2>1 DEF Validated, Active
  <2>14. ~Launch(r) /\ ~Reap(r)
    BY <1>1, <2>1, <2>4 DEF Launch, Reap, Advance, ControlTypes
  <2>15. QED
    BY <2>2, <2>5, <2>6, <2>7, <2>8, <2>9, <2>10, <2>11, <2>12, <2>13, <2>14 DEF RunnerStep
<1>2. IInv /\ [Next]_vars =>
        [\A r \in Runners :
          (Active(r) /\ pc'[r] = "idle" /\ rc'[r] = 0 /\ ~Dry(r)) =>
              \A e \in Elems(args[r].select) :
                  /\ saved'[e] >= args[r].target
                  /\ manifest'[e].request = args[r].request]_vars
  BY <1>1
<1>3. QED
  BY <1>2, Invariant, PTL DEF Spec, SuccessMeansComplete

\* A dry run changes no manifest, log, checkpoint, cache or data file.
THEOREM DryRunsAreDry == Spec => DryRunTouchesNothing
<1>1. ASSUME IInv, [Next]_vars, NEW r \in Runners,
             Active(r), Dry(r), pc'[r] # pc[r] \/ todo'[r] # todo[r]
      PROVE  UNCHANGED <<disk, dataset>>
  <2>1. Types /\ Shape
    BY <1>1, TypesAreTypeOK DEF IInv
  <2>2. RunnerStep(r) \/ Interrupt(r) \/ Kill(r)
    BY <1>1, <2>1, RunnerMoves DEF Unmoved
  <2>3. pc[r] # "rename" /\ stage[r] # "launch" /\ pc[r] # "launch"
    BY <1>1, <2>1 DEF Shape
  <2>4. ~BuildData(r) /\ ~Rename(r) /\ ~Launch(r)
    BY <1>1, <2>3 DEF BuildData, Rename, Launch, Dry
  <2>5. CASE HashModel(r)
    BY <1>1, <2>5 DEF HashModel, Stored, disk, worldVars
  <2>6. CASE Check(r)
    BY <1>1, <2>6 DEF Check, disk, worldVars
  <2>7. CASE Interrupt(r)
    BY <2>3, <2>7 DEF Interrupt, disk, worldVars
  <2>8. CASE Plan(r) \/ Planned(r) \/ UseData(r) \/ AnnounceBuild(r) \/ Kill(r)
    BY <2>8 DEF Plan, Planned, UseData, AnnounceBuild, Kill, worldVars
  <2>9. CASE ReadModel(r) \/ ReadFiles(r) \/ ReadDataset(r) \/ IdentityError(r)
    BY <2>9 DEF ReadModel, ReadFiles, ReadDataset, IdentityError, worldVars
  <2>10. CASE Validated(r) \/ Reap(r) \/ Launched(r)
    BY <2>10 DEF Validated, Reap, Launched, worldVars
  <2>11. QED
    BY <2>2, <2>4, <2>5, <2>6, <2>7, <2>8, <2>9, <2>10 DEF RunnerStep
<1>2. IInv /\ [Next]_vars =>
        [\A r \in Runners :
          (Active(r) /\ Dry(r) /\ (pc'[r] # pc[r] \/ todo'[r] # todo[r])) =>
              UNCHANGED <<disk, dataset>>]_vars
  BY <1>1
<1>3. QED
  BY <1>2, Invariant, PTL DEF Spec, DryRunTouchesNothing

\* Whatever batches do to an experiment, its process starts from the tracked
\* step or does not start, and the tracked step only moves forward: the
\* runner implements ResumableTraining for each experiment.
THEOREM RunnerResumes == Spec => ExperimentsAreResumable
<1>1. ASSUME Init, NEW e \in Experiments PROVE Experiment(e)!Init
  BY <1>1 DEF Init, Experiment!Init
<1>2. ASSUME IInv, [Next]_vars, NEW e \in Experiments
      PROVE  Experiment(e)!Next \/ UNCHANGED Experiment(e)!vars
  <2>1. Types /\ Shape /\ Exclusive /\ Fresh /\ ChildTypes /\ DiskTypes
    BY <1>2, TypesAreTypeOK DEF IInv, Types
  <2>2. CASE Load(e)
    <3>1. at'[e] = saved[e] /\ from'[e] = saved[e]
      <4>1. command[e].mode = "auto" \/ saved[e] = 0
        BY <2>1, <2>2, InvocationFacts DEF Load, Fresh, ChildTypes
      <4>2. QED
        BY <2>1, <2>2, <4>1 DEF Load, ChildTypes
    <3>2. proc[e] # "running" /\ proc'[e] = "running" /\ saved'[e] = saved[e]
      BY <2>1, <2>2 DEF Load, ChildTypes, disk
    <3>3. QED
      BY <3>1, <3>2 DEF Experiment!Next, Experiment!Start
  <2>3. CASE Train(e)
    BY <2>1, <2>3 DEF Train, ChildTypes, disk, Experiment!Next, Experiment!Train
  <2>4. CASE EndSave(e)
    <3>1. /\ saved'[e] = at[e] /\ at[e] > saved[e] /\ saved[e] \in Nat /\ at[e] \in Nat
          /\ proc[e] = "running" /\ UNCHANGED <<proc, at, from>>
      BY <2>1, <2>4 DEF EndSave, ChildTypes, DiskTypes, childVars
    <3>2. QED
      BY <3>1 DEF Experiment!Next, Experiment!Publish
  <2>5. CASE \E status \in {"succeeded", "failed"} : Exit(e, status) /\ Alive(e)
    BY <2>1, <2>5 DEF Exit, Alive, Fresh, ChildTypes, disk, Experiment!Next, Experiment!Stop,
       Experiment!vars
  <2>6. CASE \E r \in Runners : Interrupt(r) /\ pc[r] = "wait" /\ e = Current(r)
    <3>1. /\ proc'[e] = "none" /\ at'[e] = 0 /\ from'[e] = 0 /\ saved'[e] = saved[e]
      BY <2>1, <2>6 DEF Interrupt, NotRunning, ChildTypes
    <3>2. proc[e] # "running" => at[e] = 0 /\ from[e] = 0
      BY <2>1 DEF Fresh
    <3>3. QED
      BY <3>1, <3>2 DEF Experiment!Next, Experiment!Stop, Experiment!vars
  <2>7. CASE \E r \in Runners : (Launch(r) \/ Reap(r)) /\ e = Current(r)
    <3>1. PICK r \in Runners : (Launch(r) \/ Reap(r)) /\ e = Current(r)
      BY <2>7
    <3>2. todo[r] # <<>> /\ pc[r] \in {"launch", "wait"}
      BY <2>1, <3>1 DEF Launch, Reap, Shape, AtExperiment
    <3>3. ~Alive(e)
      BY <2>1, <3>1, <3>2, CurrentFacts DEF Launch, Reap, Exclusive
    <3>4. proc'[e] # "running" /\ UNCHANGED <<saved, at, from>>
      BY <2>1, <3>1, <3>3 DEF Launch, Reap, Alive, ChildTypes, disk
    <3>5. QED
      BY <3>3, <3>4 DEF Alive, Experiment!vars
  <2>8. CASE UNCHANGED <<proc[e], at[e], from[e], saved[e]>>
    BY <2>8 DEF Experiment!vars
  <2>9. QED
    <3>1. CASE Edit \/ UNCHANGED vars
      BY <2>8, <3>1 DEF Edit, vars, disk, childVars
    <3>2. ASSUME NEW r \in Runners, RunnerAction(r) PROVE Experiment(e)!Next \/ UNCHANGED Experiment(e)!vars
      <4>1. CASE Launch(r) \/ Reap(r)
        <5>1. CASE e = Current(r)
          BY <4>1, <5>1, <2>7
        <5>2. CASE e # Current(r)
          <6>1. UNCHANGED <<proc[e], at[e], from[e], saved[e]>>
            BY <2>1, <4>1, <5>2 DEF Launch, Reap, ChildTypes, disk
          <6>2. QED
            BY <6>1, <2>8
        <5>3. QED
          BY <5>1, <5>2
      <4>2. CASE Interrupt(r)
        <5>1. CASE pc[r] = "wait" /\ e = Current(r)
          BY <4>2, <5>1, <2>6
        <5>2. CASE ~(pc[r] = "wait" /\ e = Current(r))
          <6>1. UNCHANGED <<proc[e], at[e], from[e], saved[e]>>
            BY <2>1, <4>2, <5>2 DEF Interrupt, NotRunning, ChildTypes, childVars
          <6>2. QED
            BY <6>1, <2>8
        <5>3. QED
          BY <5>1, <5>2
      <4>3. CASE Start(r) \/ Kill(r) \/ Plan(r) \/ Planned(r) \/ UseData(r) \/ AnnounceBuild(r) \/ BuildData(r)
        <5>1. UNCHANGED <<proc, at, from, saved>>
          BY <4>3 DEF Start, Kill, Plan, Planned, UseData, AnnounceBuild, BuildData, disk, childVars
        <5>2. QED
          BY <5>1, <2>8
      <4>4. CASE \/ ReadModel(r) \/ HashModel(r) \/ ReadFiles(r) \/ ReadDataset(r) \/ IdentityError(r)
                 \/ Check(r) \/ Rename(r) \/ Validated(r) \/ Launched(r)
        <5>1. UNCHANGED <<proc, at, from, saved>>
          BY <4>4 DEF ReadModel, HashModel, ReadFiles, ReadDataset, IdentityError, Check, Rename,
             Validated, Launched, disk, childVars
        <5>2. QED
          BY <5>1, <2>8
      <4>5. QED
        BY <3>2, <4>1, <4>2, <4>3, <4>4 DEF RunnerAction, RunnerStep
    <3>3. ASSUME NEW x \in Experiments, TrainingStep(x) \/ Die(x)
          PROVE  Experiment(e)!Next \/ UNCHANGED Experiment(e)!vars
      <4>1. CASE x # e
        <5>1. UNCHANGED <<proc[e], at[e], from[e], saved[e]>>
          BY <2>1, <3>3, <4>1 DEF TrainingStep, Load, Train, BeginSave, EndSave, Succeed, Die, Exit,
             ChildTypes, DiskTypes, disk, childVars
        <5>2. QED
          BY <5>1, <2>8
      <4>2. CASE x = e
        <5>1. CASE BeginSave(e)
          BY <5>1, <2>8 DEF BeginSave, childVars
        <5>2. CASE Succeed(e) \/ Die(e)
          BY <5>2, <2>5 DEF Succeed, Die, Alive
        <5>3. QED
          BY <3>3, <4>2, <5>1, <5>2, <2>2, <2>3, <2>4 DEF TrainingStep
      <4>3. QED
        BY <4>1, <4>2
    <3>4. QED
      BY <1>2, <3>1, <3>2, <3>3 DEF Next, RunnerAction
<1>3. Init => \A e \in Experiments : Experiment(e)!Init
  BY <1>1
<1>4. IInv /\ [Next]_vars =>
        [\A e \in Experiments :
            Experiment(e)!Next \/ UNCHANGED Experiment(e)!vars]_vars
  BY <1>2
<1>5. QED
  BY <1>3, <1>4, Invariant, PTL DEF Spec, ExperimentsAreResumable

=============================================================================
