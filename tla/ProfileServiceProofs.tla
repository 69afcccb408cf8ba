------------------------ MODULE ProfileServiceProofs ------------------------
(***************************************************************************)
(* The service, for every set of ids, every configuration another program  *)
(* may write and any number of mutations, reloads and tasks: profile       *)
(* generations; sessions and the connections behind them; the fence a      *)
(* mutation publishes and the session secrets it removes.                  *)
(***************************************************************************)
EXTENDS ProfileService, FiniteSetTheorems, TLAPS

\* Every generation handed out so far is below the next one.
GenerationsBelowNext ==
    /\ nextGen \in Nat \ {0}
    /\ gens \in [Ids -> Nat] /\ tombs \in [Ids -> Nat]
    /\ \A i \in Ids : gens[i] < nextGen /\ tombs[i] < nextGen

GenInv == GenerationsBelowNext /\ GenerationsFresh

Below(ids, i) == Cardinality({j \in ids : j < i})

\* Ranks in a finite set of ids: allocate_profile_generation in a loop gives each
\* id of the set a number of its own, below the number of ids.
LEMMA RanksDiffer ==
    ASSUME NEW ids \in SUBSET Ids
    PROVE  /\ Cardinality(ids) \in Nat
           /\ \A i \in ids : Below(ids, i) \in Nat /\ Below(ids, i) < Cardinality(ids)
           /\ \A i, j \in ids : i # j => Below(ids, i) # Below(ids, j)
<1>1. IsFiniteSet(ids)
  BY IdsAssumption, FS_Subset
<1>2. \A i \in ids : IsFiniteSet({j \in ids : j < i})
  BY <1>1, FS_Subset
<1>3. Cardinality(ids) \in Nat /\ \A i \in ids : Below(ids, i) \in Nat
  BY <1>1, <1>2, FS_CardinalityType DEF Below
<1>4. ASSUME NEW i \in ids PROVE Below(ids, i) < Cardinality(ids)
  <2>1. {j \in ids : j < i} \subseteq ids /\ i \notin {j \in ids : j < i}
    BY IdsAssumption
  <2>2. Below(ids, i) <= Cardinality(ids) /\ Below(ids, i) # Cardinality(ids)
    BY <1>1, <2>1, FS_Subset DEF Below
  <2> QED
    BY <1>3, <2>2
<1>5. ASSUME NEW i \in ids, NEW j \in ids, i < j PROVE Below(ids, i) # Below(ids, j)
  <2> i \in Nat /\ j \in Nat /\ \A k \in ids : k \in Nat
    BY IdsAssumption
  <2>0. \A k \in ids : k < i => k < j
    BY <1>5
  <2>1. {k \in ids : k < i} \subseteq {k \in ids : k < j}
    BY <2>0
  <2>2. i \in {k \in ids : k < j} /\ i \notin {k \in ids : k < i}
    BY <1>5
  <2> QED
    BY <1>2, <2>1, <2>2, FS_Subset DEF Below
<1> QED
  BY <1>3, <1>4, <1>5, IdsAssumption

\* Fresh numbers are new, differ, and are below the counter after the step.
LEMMA FreshIsNew ==
    ASSUME GenerationsBelowNext, NEW ids \in SUBSET Ids
    PROVE  /\ nextGen + Cardinality(ids) \in Nat \ {0}
           /\ nextGen <= nextGen + Cardinality(ids)
           /\ \A i \in ids : /\ Fresh(ids, i) \in Nat /\ Fresh(ids, i) >= nextGen
                             /\ Fresh(ids, i) < nextGen + Cardinality(ids)
           /\ \A i, j \in ids : i # j => Fresh(ids, i) # Fresh(ids, j)
<1>1. nextGen \in Nat \ {0}
  BY DEF GenerationsBelowNext
<1>2. \A i \in ids : Fresh(ids, i) = nextGen + Below(ids, i)
  BY DEF Fresh, Below
<1>3. /\ Cardinality(ids) \in Nat
      /\ \A i \in ids : Below(ids, i) \in Nat /\ Below(ids, i) < Cardinality(ids)
      /\ \A i, j \in ids : i # j => Below(ids, i) # Below(ids, j)
  BY RanksDiffer
<1> QED
  BY <1>1, <1>2, <1>3

LEMMA GenerationsInit == Init => GenInv
<1> SUFFICES ASSUME Init PROVE GenInv
  OBVIOUS
<1> DEFINE ids == {i \in Ids : InitialProfiles[i] # NoProfile}
<1>1. ids \in SUBSET Ids
  OBVIOUS
<1>2. \A i \in Ids : {j \in Ids : j < i /\ InitialProfiles[j] # NoProfile} = {j \in ids : j < i}
  OBVIOUS
<1>3. /\ gens = [i \in Ids |-> IF i \in ids THEN 1 + Below(ids, i) ELSE 0]
      /\ nextGen = 1 + Cardinality(ids)
      /\ tombs = [i \in Ids |-> 0]
  BY <1>2 DEF Init, Below
<1>4. /\ Cardinality(ids) \in Nat
      /\ \A i \in ids : Below(ids, i) \in Nat /\ Below(ids, i) < Cardinality(ids)
      /\ \A i, j \in ids : i # j => Below(ids, i) # Below(ids, j)
  BY <1>1, RanksDiffer
<1> HIDE DEF ids
<1>5. GenerationsBelowNext
  BY <1>3, <1>4 DEF GenerationsBelowNext
<1>6. GenerationsFresh
  BY <1>1, <1>3, <1>4 DEF GenerationsFresh
<1> QED
  BY <1>5, <1>6 DEF GenInv

\* The steps that leave the generations alone.
Steady == UNCHANGED <<profiles, gens, tombs, nextGen>>

LEMMA SteadySteps ==
    ASSUME [Next]_vars, ~FenceAll, ~Publish
    PROVE  Steady
<1> USE DEF Steady, observedVars
<1>1. CASE UNCHANGED vars
  BY <1>1 DEF vars
<1>2. ASSUME NEW t \in Tasks, TaskStep(t) PROVE Steady
  BY <1>2 DEF TaskStep, Acquire, Credential, Connect, Install, CloseDisplaced, Operate, Observe,
              EvictLease, Completed, Interrupt, CancelTargets, Disconnect, Reconnect, TaskFrame
<1>3. ASSUME NEW t \in Tasks, NEW id \in Ids,
             StartWork(t, id) \/ \E kind \in {"disconnect", "reconnect"} : Capture(t, kind, id)
      PROVE  Steady
  BY <1>3 DEF StartWork, Capture
<1>4. ASSUME NEW id \in Ids, StoreSecret(id) PROVE Steady
  BY <1>4 DEF StoreSecret
<1>5. ASSUME NEW kind, NEW id, NEW p, NEW update, Begin(kind, id, p, update) PROVE Steady
  BY <1>5 DEF Begin
<1>6. CASE Reload \/ EditDisk \/ Shutdown
  BY <1>6 DEF Reload, EditDisk, Shutdown
<1>7. CASE MutationStep
  BY <1>7 DEF MutationStep, Write, Snapshot, Complete, Resolve, EvictTargets, ClearSecrets
<1> QED
  BY <1>1, <1>2, <1>3, <1>4, <1>5, <1>6, <1>7 DEF Next

\* What FenceAll and Publish do to the generations: some ids get fresh ones,
\* others a fresh tombstone, and the rest keep theirs or have none.
LEMMA RenewingSteps ==
    ASSUME GenInv, FenceAll \/ Publish
    PROVE  \E renewed, removed \in SUBSET Ids :
             /\ \A i \in Ids : i \in renewed => i \notin removed
             /\ nextGen' = nextGen + Cardinality(renewed \cup removed)
             /\ gens' \in [Ids -> Nat] /\ tombs' \in [Ids -> Nat]
             /\ \A i \in renewed : gens'[i] = Fresh(renewed \cup removed, i)
             /\ \A i \in Ids \ renewed :
                  gens'[i] = 0 \/ (gens'[i] = gens[i] /\ profiles'[i] = profiles[i] /\ i \notin removed)
             /\ \A i \in removed : tombs'[i] = Fresh(renewed \cup removed, i)
             /\ \A i \in Ids \ removed : tombs'[i] = tombs[i]
<1> USE DEF GenInv
<1>1. CASE FenceAll
  <2> DEFINE live == {i \in Ids : gens[i] # 0}
  <2>1. /\ gens' = [i \in Ids |-> IF i \in live THEN Fresh(live, i) ELSE 0]
        /\ nextGen' = nextGen + Cardinality(live) /\ UNCHANGED tombs
    BY <1>1 DEF FenceAll
  <2>2. live \in SUBSET Ids /\ live \cup {} = live
    OBVIOUS
  <2>3. \A i \in live : Fresh(live, i) \in Nat
    BY <2>2, FreshIsNew
  <2> HIDE DEF live
  <2>4. gens' \in [Ids -> Nat] /\ tombs' \in [Ids -> Nat]
    BY <2>1, <2>3 DEF GenerationsBelowNext
  <2> live \in SUBSET Ids
    BY <2>2
  <2> WITNESS live \in SUBSET Ids, {} \in SUBSET Ids
  <2> QED
    BY <2>1, <2>2, <2>4
<1>2. CASE Publish
  <2> DEFINE all == Renewed \cup Removed
  <2>1. /\ profiles' = loaded
        /\ gens' = [i \in Ids |-> IF i \in Renewed THEN Fresh(all, i)
                                  ELSE IF loaded[i] = NoProfile THEN 0 ELSE gens[i]]
        /\ tombs' = [i \in Ids |-> IF i \in Removed THEN Fresh(all, i) ELSE tombs[i]]
        /\ nextGen' = nextGen + Cardinality(all)
    BY <1>2 DEF Publish
  <2>2. Renewed \in SUBSET Ids /\ Removed \in SUBSET Ids
    BY DEF Renewed, Removed
  <2>3. \A i \in Ids : /\ i \in Renewed => i \notin Removed
                       /\ i \notin Renewed /\ loaded[i] # NoProfile =>
                             loaded[i] = profiles[i] /\ i \notin Removed
    BY DEF Renewed, Removed
  <2>4. \A i \in all : Fresh(all, i) \in Nat
    BY <2>2, FreshIsNew
  <2>5. gens' \in [Ids -> Nat] /\ tombs' \in [Ids -> Nat]
    BY <2>1, <2>4 DEF GenerationsBelowNext
  <2> Renewed \in SUBSET Ids /\ Removed \in SUBSET Ids
    BY <2>2
  <2> WITNESS Renewed \in SUBSET Ids, Removed \in SUBSET Ids
  <2> QED
    BY <2>1, <2>3, <2>5
<1> QED
  BY <1>1, <1>2

LEMMA GenerationsStep == GenInv /\ [Next]_vars => GenInv'
<1> SUFFICES ASSUME GenInv, [Next]_vars PROVE GenInv'
  OBVIOUS
<1>1. CASE ~FenceAll /\ ~Publish
  BY <1>1, SteadySteps DEF Steady, GenInv, GenerationsBelowNext, GenerationsFresh
<1>2. CASE FenceAll \/ Publish
  <2>1. PICK renewed \in SUBSET Ids, removed \in SUBSET Ids :
             /\ \A i \in Ids : i \in renewed => i \notin removed
             /\ nextGen' = nextGen + Cardinality(renewed \cup removed)
             /\ gens' \in [Ids -> Nat] /\ tombs' \in [Ids -> Nat]
             /\ \A i \in renewed : gens'[i] = Fresh(renewed \cup removed, i)
             /\ \A i \in Ids \ renewed :
                  gens'[i] = 0 \/ (gens'[i] = gens[i] /\ profiles'[i] = profiles[i] /\ i \notin removed)
             /\ \A i \in removed : tombs'[i] = Fresh(renewed \cup removed, i)
             /\ \A i \in Ids \ removed : tombs'[i] = tombs[i]
    BY <1>2, RenewingSteps
  <2> DEFINE all == renewed \cup removed
  <2>2. all \in SUBSET Ids /\ GenerationsBelowNext /\ GenerationsFresh
    BY DEF GenInv
  <2>3. /\ nextGen + Cardinality(all) \in Nat \ {0}
        /\ nextGen <= nextGen + Cardinality(all)
        /\ \A i \in all : /\ Fresh(all, i) \in Nat /\ Fresh(all, i) >= nextGen
                          /\ Fresh(all, i) < nextGen + Cardinality(all)
        /\ \A i, j \in all : i # j => Fresh(all, i) # Fresh(all, j)
    BY <2>2, FreshIsNew
  <2> DEFINE bound == nextGen + Cardinality(all)
             num(i) == Fresh(all, i)
  <2>4. nextGen' = bound
    BY <2>1
  <2>5. \A i \in renewed : gens'[i] = num(i)
    BY <2>1
  <2>6. \A i \in removed : tombs'[i] = num(i)
    BY <2>1
  <2>7. \A i \in Ids : i \in renewed \/ i \in removed <=> i \in all
    OBVIOUS
  <2>8. /\ bound \in Nat \ {0} /\ nextGen <= bound
        /\ \A i \in all : num(i) \in Nat /\ num(i) >= nextGen /\ num(i) < bound
        /\ \A i, j \in all : i # j => num(i) # num(j)
    BY <2>3
  <2> HIDE DEF bound, num, all
  <2>9. GenerationsBelowNext'
    BY <2>1, <2>2, <2>4, <2>5, <2>6, <2>7, <2>8 DEF GenerationsBelowNext
  <2>10. GenerationsFresh'
    <3> SUFFICES ASSUME NEW i \in Ids, gens'[i] # 0
                 PROVE  /\ gens'[i] > tombs'[i]
                        /\ \A j \in Ids \ {i} : gens'[i] # gens'[j] /\ gens'[i] # tombs'[j]
      BY DEF GenerationsFresh
    <3>1. CASE i \in renewed
      <4>1. gens'[i] = num(i) /\ num(i) >= nextGen /\ num(i) \in Nat /\ i \in all
        BY <2>5, <2>7, <2>8, <3>1
      <4>2. tombs'[i] = tombs[i]
        BY <2>1, <3>1
      <4> QED
        BY <2>1, <2>2, <2>5, <2>6, <2>7, <2>8, <4>1, <4>2 DEF GenerationsBelowNext
    <3>2. CASE i \notin renewed
      <4>1. gens'[i] = gens[i] /\ i \notin removed
        BY <2>1, <3>2
      <4>2. tombs'[i] = tombs[i] /\ gens[i] # 0
        BY <2>1, <4>1
      <4> QED
        BY <2>1, <2>2, <2>5, <2>6, <2>7, <2>8, <4>1, <4>2
           DEF GenerationsBelowNext, GenerationsFresh
    <3> QED
      BY <3>1, <3>2
  <2> QED
    BY <2>9, <2>10 DEF GenInv
<1> QED
  BY <1>1, <1>2

\* No two profiles ever share a generation, and a profile created again is newer
\* than its deletion (allocate_profile_generation, reconcile_after_mutation,
\* replace_loaded_config, enter_config_uncertain_deferred).
THEOREM GenerationsAreFresh == Spec => []GenerationsFresh
<1>1. GenInv => GenerationsFresh
  BY DEF GenInv
<1> QED
  BY <1>1, GenerationsInit, GenerationsStep, PTL DEF Spec

\* While a generation stays, the published profile does: whoever edits the file
\* and whichever mutation publishes it.
THEOREM GenerationIsOneProfile == Spec => GenerationPinsProfile
<1> DEFINE Pins == \A i \in Ids : gens[i] # 0 =>
                     \/ gens'[i] = gens[i] /\ profiles'[i] = profiles[i]
                     \/ gens'[i] = 0
                     \/ \A j \in Ids : gens'[i] > gens[j]
<1>1. GenInv /\ [Next]_vars => [Pins]_vars
  <2> SUFFICES ASSUME GenInv, [Next]_vars PROVE Pins
    OBVIOUS
  <2>1. CASE ~FenceAll /\ ~Publish
    BY <2>1, SteadySteps DEF Steady
  <2>2. CASE FenceAll \/ Publish
    <3>1. PICK renewed \in SUBSET Ids, removed \in SUBSET Ids :
             /\ \A i \in renewed : gens'[i] = Fresh(renewed \cup removed, i)
             /\ \A i \in Ids \ renewed :
                  gens'[i] = 0 \/ (gens'[i] = gens[i] /\ profiles'[i] = profiles[i] /\ i \notin removed)
      BY <2>2, RenewingSteps
    <3>2. \A i \in renewed : gens'[i] \in Nat /\ gens'[i] >= nextGen
      <4>1. renewed \cup removed \in SUBSET Ids /\ GenerationsBelowNext
        BY DEF GenInv
      <4> QED
        BY <3>1, <4>1, FreshIsNew
    <3> QED
      BY <3>1, <3>2 DEF GenInv, GenerationsBelowNext
  <2> QED
    BY <2>1, <2>2
<1> QED
  BY <1>1, GenerationsInit, GenerationsStep, PTL DEF Spec, GenerationPinsProfile


-----------------------------------------------------------------------------
(* Types: the parts of TypeOK, with what each record is made of.           *)

Counters == nextSession \in Nat \ {0} /\ nextSecret \in Nat \ {0}

ConfigTyped == profiles \in Configs /\ disk \in Configs \cup {Unreadable} /\ loaded \in Configs

KnownTyped == known \in [Ids -> Nat] /\ \A i \in Ids : known[i] < nextGen

FlagsTyped ==
    /\ uncertain \in BOOLEAN /\ hadActive \in BOOLEAN /\ down \in BOOLEAN
    /\ mpc \in MutationSteps /\ waiters \subseteq Tasks

CacheTyped == sessions \in [Ids -> Sessions] /\ snap \in [Ids -> Sessions]

SecretsTyped == secrets \in [Ids -> 0..(nextSecret - 1)] /\ revoked \subseteq 0..(nextSecret - 1)

Answers == {"none", "ok", "failed", "broken", "panic", "stale", "credential", "cancelled", "closed"}
TaskRecords ==
    [pc : TaskSteps, kind : {"work", "disconnect", "reconnect"}, id : Ids \cup {0},
     gen : 0..(nextGen - 1), cancel : BOOLEAN, lease : Sessions, old : 0..(nextSession - 1),
     captured : 0..(nextSession - 1), targets : SUBSET Tasks, plan : {"none", "Ready", "Wait"},
     result : Answers]

\* The steps at which a task holds the profile it connects with, or a lease.
Holding == {"credential", "connecting", "install", "displacing", "operate", "observe", "evict"}

\* A task is of one profile and one generation of it, and so is its lease.
WellFormed(t, r) ==
    /\ r.pc = "idle" => r = NoTask
    /\ r.pc # "idle" => r.id \in Ids /\ r.gen # 0
    /\ t \notin r.targets
    /\ r.lease.pgen = 0 \/ r.lease.pgen = r.gen
    /\ r.pc \in Holding => r.lease.pgen # 0

TasksTyped == task \in [Tasks -> TaskRecords] /\ \A t \in Tasks : WellFormed(t, task[t])

Jobs == [kind : {"none", "Reload", "Create", "Update", "Delete"}, id : Ids \cup {0},
         profile : Profiles \cup {NoProfile}, secret : SecretUpdates, eligible : BOOLEAN]

\* A mutation of a profile names it; between mutations there is no job.
JobTyped ==
    /\ job \in Jobs
    /\ job.kind \in {"Create", "Update", "Delete"} => job.id \in Ids
    /\ job.kind \in {"Create", "Update"} => job.profile \in Profiles
    /\ mpc = "write" => job.kind \in {"Create", "Update", "Delete"}
    /\ mpc = "idle" => job = NoJob

Fences == [previous : Sessions, pgen : 0..(nextGen - 1), fp : Fingerprints, eligible : BOOLEAN]
Targets == [id : Ids, pgen : 0..(nextGen - 1), session : Sessions, clear : BOOLEAN]

\* The clean-up a mutation plans when it publishes.
Unpublished == {"idle", "write", "fence", "snapshot", "publish"}
PlanTyped ==
    /\ fence \in Fences /\ targets \subseteq Targets
    /\ fence # NoFence => job.kind = "Update" /\ fence.previous # NoSession
    /\ mpc \in Unpublished => targets = {} /\ fence = NoFence

Counted == /\ mutations \in Nat /\ starts \in Nat /\ edits \in Nat
           /\ mutations <= MaxMutations /\ starts <= MaxTasks /\ edits <= MaxEdits

Typed ==
    /\ GenInv /\ Counters /\ ConfigTyped /\ KnownTyped /\ FlagsTyped /\ CacheTyped
    /\ SecretsTyped /\ TasksTyped /\ JobTyped /\ PlanTyped /\ Counted

\* Generations, sessions and secrets are numbered upwards.
LEMMA CountersGrow ==
    ASSUME GenInv, Counters, [Next]_vars
    PROVE  /\ nextGen \in Nat \ {0} /\ nextGen' \in Nat \ {0} /\ nextGen <= nextGen'
           /\ Counters' /\ nextSession <= nextSession' /\ nextSecret <= nextSecret'
<1>1. nextGen \in Nat \ {0} /\ nextGen' \in Nat \ {0}
  BY GenerationsStep DEF GenInv, GenerationsBelowNext
<1>2. nextGen <= nextGen'
  <2>1. CASE ~FenceAll /\ ~Publish
    BY <1>1, <2>1, SteadySteps DEF Steady
  <2>2. CASE FenceAll \/ Publish
    <3>1. PICK renewed \in SUBSET Ids, removed \in SUBSET Ids :
             nextGen' = nextGen + Cardinality(renewed \cup removed)
      BY <2>2, RenewingSteps
    <3>2. renewed \cup removed \in SUBSET Ids /\ GenerationsBelowNext
      BY DEF GenInv
    <3> QED
      BY <3>1, <3>2, FreshIsNew
  <2> QED
    BY <2>1, <2>2
<1>3. nextSession' = nextSession \/ nextSession' = nextSession + 1
  <2> USE DEF cacheVars
  <2>1. CASE UNCHANGED vars
    BY <2>1 DEF vars
  <2>2. ASSUME NEW t \in Tasks, TaskStep(t) PROVE nextSession' \in {nextSession, nextSession + 1}
    BY <2>2 DEF TaskStep, Acquire, Credential, Connect, Install, CloseDisplaced, Operate, Observe,
                EvictLease, Completed, Interrupt, CancelTargets, Disconnect, Reconnect
  <2>3. ASSUME NEW t \in Tasks, NEW id \in Ids,
               StartWork(t, id) \/ \E kind \in {"disconnect", "reconnect"} : Capture(t, kind, id)
        PROVE  nextSession' = nextSession
    BY <2>3 DEF StartWork, Capture
  <2>4. ASSUME NEW id \in Ids, StoreSecret(id) PROVE nextSession' = nextSession
    BY <2>4 DEF StoreSecret
  <2>5. ASSUME NEW kind, NEW id, NEW p, NEW update, Begin(kind, id, p, update)
        PROVE  nextSession' = nextSession
    BY <2>5 DEF Begin
  <2>6. CASE Reload \/ EditDisk \/ Shutdown
    BY <2>6 DEF Reload, EditDisk, Shutdown
  <2>7. CASE MutationStep
    BY <2>7 DEF MutationStep, Write, FenceAll, Snapshot, Publish, Complete, Resolve, EvictTargets,
                ClearSecrets
  <2> QED
    BY <2>1, <2>2, <2>3, <2>4, <2>5, <2>6, <2>7 DEF Next
<1>4. nextSecret' = nextSecret \/ nextSecret' = nextSecret + 1
  <2> USE DEF secretVars
  <2>1. CASE UNCHANGED vars
    BY <2>1 DEF vars
  <2>2. ASSUME NEW t \in Tasks, TaskStep(t) PROVE nextSecret' = nextSecret
    BY <2>2 DEF TaskStep, Acquire, Credential, Connect, Install, CloseDisplaced, Operate, Observe,
                EvictLease, Completed, Interrupt, CancelTargets, Disconnect, Reconnect, TaskFrame
  <2>3. ASSUME NEW t \in Tasks, NEW id \in Ids,
               StartWork(t, id) \/ \E kind \in {"disconnect", "reconnect"} : Capture(t, kind, id)
        PROVE  nextSecret' = nextSecret
    BY <2>3 DEF StartWork, Capture
  <2>4. ASSUME NEW id \in Ids, StoreSecret(id) PROVE nextSecret' = nextSecret + 1
    BY <2>4 DEF StoreSecret
  <2>5. ASSUME NEW kind, NEW id, NEW p, NEW update, Begin(kind, id, p, update)
        PROVE  nextSecret' = nextSecret
    BY <2>5 DEF Begin
  <2>6. CASE Reload \/ EditDisk \/ Shutdown
    BY <2>6 DEF Reload, EditDisk, Shutdown
  <2>7. CASE MutationStep
    BY <2>7 DEF MutationStep, Write, FenceAll, Snapshot, Publish, Complete, Resolve, EvictTargets,
                ClearSecrets
  <2> QED
    BY <2>1, <2>2, <2>3, <2>4, <2>5, <2>6, <2>7 DEF Next
<1> QED
  BY <1>1, <1>2, <1>3, <1>4 DEF Counters

\* So a record that was well typed stays so.
LEMMA TypesGrow ==
    ASSUME GenInv, Counters, [Next]_vars
    PROVE  /\ NoSession \in Sessions /\ NoTask \in TaskRecords
           /\ Sessions \subseteq Sessions' /\ TaskRecords \subseteq TaskRecords'
           /\ Fences \subseteq Fences' /\ Targets \subseteq Targets' /\ NoFence \in Fences
           /\ 0..(nextGen - 1) \subseteq 0..(nextGen' - 1)
           /\ 0..(nextSecret - 1) \subseteq 0..(nextSecret' - 1)
<1>1. /\ nextGen \in Nat \ {0} /\ nextGen' \in Nat \ {0} /\ nextGen <= nextGen'
      /\ nextSession \in Nat \ {0} /\ nextSession' \in Nat \ {0} /\ nextSession <= nextSession'
      /\ nextSecret \in Nat \ {0} /\ nextSecret' \in Nat \ {0} /\ nextSecret <= nextSecret'
  BY CountersGrow DEF Counters
<1>2. /\ 0..(nextGen - 1) \subseteq 0..(nextGen' - 1)
      /\ 0..(nextSession - 1) \subseteq 0..(nextSession' - 1)
      /\ 0..(nextSecret - 1) \subseteq 0..(nextSecret' - 1)
  <2>1. ASSUME NEW m \in Nat \ {0}, NEW n \in Nat \ {0}, m <= n PROVE 0..(m - 1) \subseteq 0..(n - 1)
    BY <2>1
  <2> QED
    BY <1>1, <2>1
<1>3. 0 \in 0..(nextGen - 1) /\ 0 \in 0..(nextSession - 1) /\ 0 \in 0..(nextSecret - 1)
  BY <1>1
<1>4. Fingerprint(NoProfile) \in Fingerprints
  BY DEF Fingerprints
<1>5. NoSession \in Sessions
  BY <1>3, <1>4 DEF NoSession, Sessions
<1>6. Sessions \subseteq Sessions'
  BY <1>2 DEF Sessions
<1>7. NoTask \in TaskRecords
  BY <1>3, <1>5 DEF NoTask, TaskRecords, TaskSteps, Answers
<1>8. NoFence \in Fences
  BY <1>3, <1>4, <1>5 DEF NoFence, Fences
<1>9. TaskRecords \subseteq TaskRecords'
  BY <1>2, <1>6 DEF TaskRecords
<1>10. Fences \subseteq Fences' /\ Targets \subseteq Targets'
  BY <1>2, <1>6 DEF Fences, Targets
<1> QED
  BY <1>2, <1>5, <1>6, <1>7, <1>8, <1>9, <1>10

\* What a step does not touch keeps its type.
LEMMA Kept ==
    ASSUME Typed, [Next]_vars
    PROVE  /\ UNCHANGED known => KnownTyped'
           /\ UNCHANGED <<sessions, snap>> => CacheTyped'
           /\ UNCHANGED <<secrets, revoked>> => SecretsTyped'
           /\ UNCHANGED task => TasksTyped'
           /\ UNCHANGED <<fence, targets, mpc, job>> => PlanTyped'
<1>1. /\ Sessions \subseteq Sessions' /\ TaskRecords \subseteq TaskRecords'
      /\ Fences \subseteq Fences' /\ Targets \subseteq Targets'
      /\ 0..(nextSecret - 1) \subseteq 0..(nextSecret' - 1)
  BY TypesGrow DEF Typed
<1>2. nextGen \in Nat /\ nextGen' \in Nat /\ nextGen <= nextGen'
  BY CountersGrow DEF Typed
<1>3. UNCHANGED known => KnownTyped'
  BY <1>2 DEF Typed, KnownTyped
<1>4. UNCHANGED <<sessions, snap>> => CacheTyped'
  BY <1>1 DEF Typed, CacheTyped
<1>5. UNCHANGED <<secrets, revoked>> => SecretsTyped'
  BY <1>1 DEF Typed, SecretsTyped
<1>6. UNCHANGED task => TasksTyped'
  BY <1>1 DEF Typed, TasksTyped
<1>7. UNCHANGED <<fence, targets, mpc, job>> => PlanTyped'
  BY <1>1 DEF Typed, PlanTyped
<1> QED
  BY <1>3, <1>4, <1>5, <1>6, <1>7

LEMMA TypedInit == Init => Typed
<1> SUFFICES ASSUME Init PROVE Typed
  OBVIOUS
<1>1. GenInv
  BY GenerationsInit
<1>2. Counters /\ FlagsTyped
  <2>1. uncertain = FALSE /\ hadActive = FALSE /\ down = FALSE
    BY DEF Init
  <2>2. /\ nextSession = 1 /\ nextSecret = 1 /\ mpc = "idle" /\ waiters = {}
    BY DEF Init
  <2>3. Counters
    BY <2>2 DEF Counters
  <2>4. mpc \in MutationSteps
    BY <2>2 DEF MutationSteps
  <2> QED
    BY <2>1, <2>2, <2>3, <2>4 DEF FlagsTyped
<1>3. ConfigTyped
  BY ProfilesAssumption DEF Init, ConfigTyped
<1>4. KnownTyped
  <2>1. known = gens
    BY DEF Init
  <2> QED
    BY <1>1, <2>1 DEF KnownTyped, GenInv, GenerationsBelowNext
<1>5. NoSession \in Sessions /\ NoFence \in Fences /\ NoTask \in TaskRecords
  <2>2. nextGen \in Nat \ {0} /\ nextSession \in Nat \ {0} /\ nextSecret \in Nat \ {0}
    BY <1>1, <1>2 DEF GenInv, GenerationsBelowNext, Counters
  <2>3. 0 \in 0..(nextGen - 1) /\ 0 \in 0..(nextSession - 1) /\ 0 \in 0..(nextSecret - 1)
    BY <2>2
  <2>4. Fingerprint(NoProfile) \in Fingerprints
    BY DEF Fingerprints
  <2>5. NoSession \in Sessions
    BY <2>3, <2>4 DEF NoSession, Sessions
  <2> QED
    BY <2>3, <2>4, <2>5 DEF NoFence, Fences, NoTask, TaskRecords, TaskSteps, Answers
<1>6. CacheTyped
  BY <1>5 DEF Init, CacheTyped
<1>7. SecretsTyped
  BY DEF Init, SecretsTyped
<1>8. TasksTyped
  BY <1>5 DEF Init, TasksTyped, WellFormed, NoTask, NoSession, Holding
<1>9. JobTyped
  BY DEF Init, JobTyped, Jobs, NoJob, SecretUpdates
<1>10. PlanTyped
  BY <1>5 DEF Init, PlanTyped
<1>11. Counted
  BY BoundsAssumption DEF Init, Counted
<1> QED
  BY <1>1, <1>2, <1>3, <1>4, <1>6, <1>7, <1>8, <1>9, <1>10, <1>11 DEF Typed

\* The end of a task leaves a well-formed record.
LEMMA FinishTyped ==
    ASSUME Typed, NEW t \in Tasks, task[t].pc # "idle", NEW r \in Answers, Finish(t, r),
           UNCHANGED <<nextGen, nextSession, nextSecret>>
    PROVE  TasksTyped'
<1>1. task \in [Tasks -> TaskRecords] /\ \A u \in Tasks : WellFormed(u, task[u])
  BY DEF Typed, TasksTyped
<1>2. NoTask.targets = {} /\ 0 \in 0..(nextSession - 1)
  BY DEF NoTask, Typed, Counters
<1> DEFINE done == [NoTask EXCEPT !.pc = "finished", !.result = r,
                      !.kind = task[t].kind, !.id = task[t].id, !.gen = task[t].gen,
                      !.cancel = task[t].cancel, !.lease = task[t].lease]
<1>3. done \in TaskRecords
  BY <1>1, <1>2 DEF TaskRecords, NoTask, TaskSteps
<1>4. WellFormed(t, done)
  BY <1>1, <1>2 DEF WellFormed, TaskRecords, NoTask, Holding
<1>5. task' = [task EXCEPT ![t] = done]
  BY DEF Finish
<1> HIDE DEF done
<1>6. TaskRecords' = TaskRecords
  BY DEF TaskRecords, Sessions
<1> QED
  BY <1>1, <1>3, <1>4, <1>5, <1>6 DEF TasksTyped

\* A task's record replaced by a well-formed one.
LEMMA PutTyped ==
    ASSUME Typed, NEW t \in Tasks, NEW r \in TaskRecords, WellFormed(t, r),
           task' = [task EXCEPT ![t] = r], UNCHANGED <<nextGen, nextSession, nextSecret>>
    PROVE  TasksTyped'
<1>1. task \in [Tasks -> TaskRecords] /\ \A u \in Tasks : WellFormed(u, task[u])
  BY DEF Typed, TasksTyped
<1>2. TaskRecords' = TaskRecords
  BY DEF TaskRecords, Sessions
<1> QED
  BY <1>1, <1>2 DEF TasksTyped

LEMMA EvictTyped ==
    ASSUME Typed, [Next]_vars, NEW identities, EvictExact(identities), UNCHANGED snap
    PROVE  /\ CacheTyped'
           /\ \A i \in Ids : sessions'[i] = sessions[i] \/ sessions'[i] = NoSession
<1>1. NoSession \in Sessions' /\ Sessions \subseteq Sessions'
  BY TypesGrow DEF Typed
<1>2. sessions \in [Ids -> Sessions] /\ snap \in [Ids -> Sessions]
  BY DEF Typed, CacheTyped
<1>3. /\ sessions' \in [Ids -> Sessions']
      /\ \A i \in Ids : sessions'[i] = sessions[i] \/ sessions'[i] = NoSession
  BY <1>1, <1>2 DEF EvictExact
<1> QED
  BY <1>1, <1>2, <1>3 DEF CacheTyped

\* The steps of a task and the session cache.
LEMMA TaskStepTyped ==
    ASSUME Typed, [Next]_vars, NEW t \in Tasks, TaskStep(t)
    PROVE  TasksTyped' /\ CacheTyped'
<1> DEFINE id == task[t].id
           gen == task[t].gen
           lease == task[t].lease
           me == task[t]
<1>1. /\ task \in [Tasks -> TaskRecords] /\ \A u \in Tasks : WellFormed(u, task[u])
      /\ me \in TaskRecords /\ WellFormed(t, me)
  BY DEF Typed, TasksTyped
<1>2. /\ sessions \in [Ids -> Sessions] /\ snap \in [Ids -> Sessions]
  BY DEF Typed, CacheTyped
<1>3. /\ NoSession \in Sessions /\ NoTask \in TaskRecords
      /\ Sessions \subseteq Sessions' /\ TaskRecords \subseteq TaskRecords'
  BY TypesGrow DEF Typed
<1>4. TaskFrame => UNCHANGED <<nextGen, nextSecret, snap>>
  BY DEF TaskFrame, observedVars, secretVars, mutationVars
<1>5. UNCHANGED <<sessions, snap>> => CacheTyped'
  BY Kept
<1>6. /\ nextGen \in Nat \ {0} /\ nextSession \in Nat \ {0} /\ nextSecret \in Nat \ {0}
      /\ 0 \in 0..(nextGen - 1) /\ 0 \in 0..(nextSession - 1) /\ 0 \in 0..(nextSecret - 1)
  BY DEF Typed, GenInv, GenerationsBelowNext, Counters
<1>7. /\ profiles \in Configs
      /\ \A p \in Profiles \cup {NoProfile} : Fingerprint(p) \in Fingerprints
  BY DEF Typed, ConfigTyped, Fingerprints
<1>8. CASE Acquire(t)
  <2>1. me.pc = "acquire" /\ UNCHANGED <<sessions, snap, nextGen, nextSession, nextSecret>>
    BY <1>4, <1>8 DEF Acquire, cacheVars
  <2>2. id \in Ids /\ gen \in 0..(nextGen - 1) /\ gen # 0
    BY <1>1, <2>1 DEF WellFormed, TaskRecords
  <2>3. CASE Finish(t, "stale")
    BY <1>5, <2>1, <2>3, FinishTyped DEF Answers
  <2>4. CASE CacheHit(id, gen) /\ task' = [task EXCEPT ![t].pc = "operate", ![t].lease = sessions[id]]
    <3> DEFINE r == [me EXCEPT !.pc = "operate", !.lease = sessions[id]]
    <3>1. task' = [task EXCEPT ![t] = r]
      BY <1>1, <2>4 DEF TaskRecords
    <3>2. r \in TaskRecords
      BY <1>1, <1>2, <2>2 DEF TaskRecords, TaskSteps
    <3>3. sessions[id].pgen = gen
      BY <2>4 DEF CacheHit
    <3>4. WellFormed(t, r)
      BY <1>1, <2>1, <2>2, <3>3 DEF TaskRecords, WellFormed, Holding
    <3> QED
      BY <1>5, <2>1, <3>1, <3>2, <3>4, PutTyped
  <2>5. CASE task' = [task EXCEPT ![t].pc = "credential",
                        ![t].lease = [NoSession EXCEPT !.pgen = gen, !.fp = Fingerprint(profiles[id])]]
    <3> DEFINE s == [NoSession EXCEPT !.pgen = gen, !.fp = Fingerprint(profiles[id])]
               r == [me EXCEPT !.pc = "credential", !.lease = s]
    <3>1. Fingerprint(profiles[id]) \in Fingerprints
      BY <1>7, <2>2 DEF Configs
    <3>2. s \in Sessions /\ s.pgen = gen
      BY <1>3, <1>6, <2>2, <3>1 DEF Sessions, NoSession
    <3> HIDE DEF s
    <3>3. task' = [task EXCEPT ![t] = r]
      BY <1>1, <2>5 DEF TaskRecords, s
    <3>4. r \in TaskRecords
      BY <1>1, <3>2 DEF TaskRecords, TaskSteps
    <3>5. WellFormed(t, r)
      BY <1>1, <2>1, <2>2, <3>2 DEF TaskRecords, WellFormed, Holding
    <3> QED
      BY <1>5, <2>1, <3>3, <3>4, <3>5, PutTyped
  <2> QED
    BY <1>8, <2>3, <2>4, <2>5 DEF Acquire
<1>9. CASE Credential(t)
  <2>1. me.pc = "credential" /\ UNCHANGED <<sessions, snap, nextGen, nextSecret>>
    BY <1>4, <1>9 DEF Credential
  <2>2. id \in Ids /\ gen \in 0..(nextGen - 1) /\ gen # 0 /\ lease \in Sessions /\ lease.pgen = gen
    BY <1>1, <2>1 DEF WellFormed, TaskRecords, Holding
  <2>3. CASE Finish(t, "credential") /\ UNCHANGED nextSession
    BY <1>5, <2>1, <2>3, FinishTyped DEF Answers
  <2>4. ASSUME NEW secret \in 0..(nextSecret - 1), nextSession' = nextSession + 1,
               task' = [task EXCEPT ![t].pc = "connecting", ![t].lease.sgen = nextSession,
                                    ![t].lease.secret = secret]
        PROVE  TasksTyped'
    <3> DEFINE s == [lease EXCEPT !.sgen = nextSession, !.secret = secret]
               r == [me EXCEPT !.pc = "connecting", !.lease = s]
    <3>1. nextSession \in 0..(nextSession' - 1)
      BY <1>6, <2>4
    <3>2. s \in Sessions' /\ s.pgen = gen
      BY <2>1, <2>2, <3>1, <1>3 DEF Sessions
    <3> HIDE DEF s
    <3>3. task' = [task EXCEPT ![t] = r]
      BY <1>1, <2>2, <2>4 DEF TaskRecords, Sessions, s
    <3>4. r \in TaskRecords'
      BY <1>1, <1>3, <3>2 DEF TaskRecords, TaskSteps
    <3>5. WellFormed(t, r)
      BY <1>1, <2>1, <2>2, <3>2 DEF TaskRecords, WellFormed, Holding
    <3> QED
      BY <1>1, <1>3, <3>3, <3>4, <3>5 DEF TasksTyped
  <2>5. secrets[id] \in 0..(nextSecret - 1)
    BY <2>2 DEF Typed, SecretsTyped
  <2> QED
    BY <1>5, <1>6, <1>9, <2>1, <2>3, <2>4, <2>5 DEF Credential
<1>10. CASE Connect(t)
  <2>1. me.pc = "connecting" /\ UNCHANGED <<sessions, snap, nextGen, nextSession, nextSecret>>
    BY <1>4, <1>10 DEF Connect, cacheVars
  <2>2. CASE Finish(t, "failed") \/ Finish(t, "stale")
    BY <1>5, <2>1, <2>2, FinishTyped DEF Answers
  <2>3. CASE task' = [task EXCEPT ![t].pc = "install"]
    <3> DEFINE r == [me EXCEPT !.pc = "install"]
    <3>1. task' = [task EXCEPT ![t] = r] /\ r \in TaskRecords
      BY <1>1, <2>3 DEF TaskRecords, TaskSteps
    <3>2. WellFormed(t, r)
      BY <1>1, <2>1 DEF TaskRecords, WellFormed, Holding
    <3> QED
      BY <1>5, <2>1, <3>1, <3>2, PutTyped
  <2> QED
    BY <1>10, <2>2, <2>3 DEF Connect
<1>11. CASE Install(t)
  <2>1. me.pc = "install" /\ UNCHANGED <<snap, nextGen, nextSession, nextSecret>>
    BY <1>4, <1>11 DEF Install
  <2>2. id \in Ids /\ gen # 0 /\ lease \in Sessions /\ lease.pgen = gen
    BY <1>1, <2>1 DEF WellFormed, TaskRecords, Holding
  <2>3. CASE Finish(t, "stale") /\ UNCHANGED sessions
    BY <1>5, <2>1, <2>3, FinishTyped DEF Answers
  <2>4. CASE /\ CacheHit(id, lease.pgen) /\ UNCHANGED sessions
             /\ task' = [task EXCEPT ![t].pc = "operate", ![t].lease = sessions[id]]
    <3> DEFINE r == [me EXCEPT !.pc = "operate", !.lease = sessions[id]]
    <3>1. task' = [task EXCEPT ![t] = r]
      BY <1>1, <2>4 DEF TaskRecords
    <3>2. r \in TaskRecords
      BY <1>1, <1>2, <2>2 DEF TaskRecords, TaskSteps
    <3>3. sessions[id].pgen = gen
      BY <2>2, <2>4 DEF CacheHit
    <3>4. WellFormed(t, r)
      BY <1>1, <2>1, <2>2, <3>3 DEF TaskRecords, WellFormed, Holding
    <3> QED
      BY <1>5, <2>1, <2>4, <3>1, <3>2, <3>4, PutTyped
  <2>5. CASE /\ sessions' = [sessions EXCEPT ![id] = lease]
             /\ task' = [task EXCEPT
                            ![t].pc = IF sessions[id] = NoSession THEN "operate" ELSE "displacing",
                            ![t].old = sessions[id].sgen]
    <3> DEFINE next == IF sessions[id] = NoSession THEN "operate" ELSE "displacing"
               r == [me EXCEPT !.pc = next, !.old = sessions[id].sgen]
    <3>1. sessions[id].sgen \in 0..(nextSession - 1) /\ next \in {"operate", "displacing"}
      BY <1>2, <2>2 DEF Sessions
    <3> HIDE DEF next
    <3>2. task' = [task EXCEPT ![t] = r]
      BY <1>1, <2>5 DEF TaskRecords, next
    <3>3. r \in TaskRecords
      BY <1>1, <3>1 DEF TaskRecords, TaskSteps
    <3>4. WellFormed(t, r)
      BY <1>1, <2>1, <2>2, <3>1 DEF TaskRecords, WellFormed, Holding
    <3>5. CacheTyped'
      BY <1>2, <1>3, <2>1, <2>2, <2>5 DEF CacheTyped
    <3> QED
      BY <2>1, <3>2, <3>3, <3>4, <3>5, PutTyped
  <2> QED
    BY <1>11, <2>3, <2>4, <2>5 DEF Install
<1>12. CASE CloseDisplaced(t)
  <2>1. me.pc = "displacing" /\ UNCHANGED <<sessions, snap, nextGen, nextSession, nextSecret>>
    BY <1>4, <1>12 DEF CloseDisplaced, cacheVars
  <2> DEFINE r == [me EXCEPT !.pc = "operate", !.old = 0]
  <2>2. task' = [task EXCEPT ![t] = r] /\ r \in TaskRecords
    BY <1>1, <1>6, <1>12 DEF CloseDisplaced, TaskRecords, TaskSteps
  <2>3. WellFormed(t, r)
    BY <1>1, <2>1 DEF TaskRecords, WellFormed, Holding
  <2> QED
    BY <1>5, <2>1, <2>2, <2>3, PutTyped
<1>13. ASSUME NEW next \in {"observe", "evict"}, NEW answer \in Answers, me.pc \in {"operate", "observe"},
              task' = [task EXCEPT ![t].pc = next, ![t].result = answer],
              UNCHANGED <<nextGen, nextSession, nextSecret>>
       PROVE  TasksTyped'
  <2> DEFINE r == [me EXCEPT !.pc = next, !.result = answer]
  <2>1. task' = [task EXCEPT ![t] = r] /\ r \in TaskRecords
    BY <1>1, <1>13 DEF TaskRecords, TaskSteps
  <2>2. WellFormed(t, r)
    BY <1>1, <1>13 DEF TaskRecords, WellFormed, Holding
  <2> QED
    BY <1>13, <2>1, <2>2, PutTyped
<1>14. CASE Operate(t)
  <2>1. me.pc = "operate" /\ UNCHANGED <<sessions, snap, nextGen, nextSession, nextSecret>>
    BY <1>4, <1>14 DEF Operate, cacheVars
  <2> QED
    BY <1>5, <1>13, <1>14, <2>1 DEF Operate, Answers
<1>15. CASE Observe(t)
  <2>1. me.pc = "observe" /\ UNCHANGED <<sessions, snap, nextGen, nextSession, nextSecret>>
    BY <1>4, <1>15 DEF Observe, cacheVars
  <2>2. me.result \in Answers
    BY <1>1 DEF TaskRecords
  <2>3. CASE Finish(t, me.result)
    BY <1>5, <2>1, <2>2, <2>3, FinishTyped
  <2>4. ASSUME NEW answer \in {"failed", "stale"},
               task' = [task EXCEPT ![t].pc = "evict", ![t].result = answer]
        PROVE  TasksTyped'
    BY <1>13, <2>1, <2>4 DEF Answers
  <2> QED
    BY <1>5, <1>15, <2>1, <2>3, <2>4 DEF Observe
<1>16. CASE EvictLease(t)
  <2>1. me.pc = "evict" /\ UNCHANGED <<snap, nextGen, nextSession, nextSecret>>
    BY <1>4, <1>16 DEF EvictLease
  <2>2. me.result \in Answers
    BY <1>1 DEF TaskRecords
  <2>3. TasksTyped'
    BY <1>16, <2>1, <2>2, FinishTyped DEF EvictLease
  <2>4. CacheTyped'
    BY <1>16, <2>1, EvictTyped DEF EvictLease
  <2> QED
    BY <2>3, <2>4
<1>17. CASE Completed(t)
  <2>1. UNCHANGED <<sessions, snap, nextGen, nextSession, nextSecret>>
    BY <1>17 DEF Completed, cacheVars, secretVars, observedVars
  <2>2. TaskRecords' = TaskRecords
    BY <2>1 DEF TaskRecords, Sessions
  <2>3. WellFormed(t, NoTask)
    BY DEF WellFormed, NoTask, NoSession, Holding
  <2>4. ASSUME NEW u \in Tasks
        PROVE  LET r == [task[u] EXCEPT !.targets = @ \ {t}] IN r \in TaskRecords /\ WellFormed(u, r)
    <3>1. task[u] \in TaskRecords /\ WellFormed(u, task[u])
      BY <1>1
    <3>2. [task[u] EXCEPT !.targets = @ \ {t}] \in TaskRecords
      BY <3>1 DEF TaskRecords
    <3>3. CASE task[u].pc = "idle"
      <4>1. task[u] = NoTask
        BY <3>1, <3>3 DEF WellFormed
      <4>2. NoTask.targets \ {t} = NoTask.targets
        BY DEF NoTask
      <4>3. [NoTask EXCEPT !.targets = NoTask.targets] = NoTask
        BY DEF NoTask
      <4>4. [task[u] EXCEPT !.targets = @ \ {t}] = NoTask
        BY <4>1, <4>2, <4>3
      <4> QED
        BY <3>1, <3>2, <4>1, <4>4
    <3>4. CASE task[u].pc # "idle"
      BY <3>1, <3>2, <3>4 DEF TaskRecords, WellFormed
    <3> QED
      BY <3>3, <3>4
  <2>5. task' = [u \in Tasks |-> IF u = t THEN NoTask ELSE [task[u] EXCEPT !.targets = @ \ {t}]]
    BY <1>17 DEF Completed
  <2>6. TasksTyped'
    BY <1>3, <2>2, <2>3, <2>4, <2>5 DEF TasksTyped
  <2> QED
    BY <1>5, <2>1, <2>6
<1>18. CASE Interrupt(t)
  <2>1. UNCHANGED <<sessions, snap, nextGen, nextSession, nextSecret>> /\ me.pc # "idle"
    BY <1>4, <1>18 DEF Interrupt, cacheVars
  <2>2. CASE Finish(t, "cancelled")
    BY <1>5, <2>1, <2>2, FinishTyped DEF Answers
  <2>3. CASE me.pc = "operate" /\ task' = [task EXCEPT ![t].pc = "evict", ![t].result = "cancelled"]
    BY <1>5, <1>13, <2>1, <2>3 DEF Answers
  <2> QED
    BY <1>18, <2>2, <2>3 DEF Interrupt
<1>19. CASE CancelTargets(t)
  <2>1. /\ UNCHANGED <<sessions, snap, nextGen, nextSession, nextSecret>>
        /\ me.pc = "captured"
    BY <1>4, <1>19 DEF CancelTargets, cacheVars
  <2>2. TaskRecords' = TaskRecords
    BY <2>1 DEF TaskRecords, Sessions
  <2>3. WellFormed(t, NoTask)
    BY DEF WellFormed, NoTask, NoSession, Holding
  <2> DEFINE others == {u \in Tasks \ {t} : Registered(u) /\ task[u].id = task[t].id}
             cancelled == {u \in others : task[u].gen = task[t].gen}
             busy == task[t].kind = "reconnect" /\ cancelled = {} /\ \E u \in others : OwnsProfile(u)
             plan == IF cancelled = {} THEN "Ready" ELSE "Wait"
             waiting == [me EXCEPT !.pc = "waitTargets", !.targets = cancelled, !.plan = plan]
  <2>4. cancelled \in SUBSET Tasks /\ t \notin cancelled /\ plan \in {"Ready", "Wait"}
        /\ \A u \in cancelled : task[u].pc # "idle"
    BY DEF Registered
  <2>5. task' = [u \in Tasks |->
              CASE u = t /\ busy -> NoTask
                [] u = t /\ ~busy -> waiting
                [] u # t -> [task[u] EXCEPT !.cancel = @ \/ u \in cancelled]]
    BY <1>19 DEF CancelTargets
  <2> HIDE DEF cancelled, busy, plan
  <2>6. waiting \in TaskRecords /\ WellFormed(t, waiting)
    <3>1. waiting \in TaskRecords
      BY <1>1, <2>4 DEF TaskRecords, TaskSteps
    <3> QED
      BY <1>1, <2>1, <2>4, <3>1 DEF TaskRecords, WellFormed, Holding
  <2> HIDE DEF waiting
  <2>7. ASSUME NEW u \in Tasks, u # t
        PROVE  LET r == [task[u] EXCEPT !.cancel = @ \/ u \in cancelled]
               IN  r \in TaskRecords /\ WellFormed(u, r)
    <3>1. task[u] \in TaskRecords /\ WellFormed(u, task[u])
      BY <1>1
    <3>2. CASE u \in cancelled
      <4>1. (task[u].cancel \/ u \in cancelled) = TRUE
        BY <3>2
      <4>2. [task[u] EXCEPT !.cancel = TRUE] \in TaskRecords
        BY <3>1 DEF TaskRecords
      <4>3. WellFormed(u, [task[u] EXCEPT !.cancel = TRUE])
        BY <2>4, <3>1, <3>2 DEF TaskRecords, WellFormed
      <4> QED
        BY <3>2, <4>1, <4>2, <4>3
    <3>3. CASE u \notin cancelled
      <4>1. task[u].cancel \in BOOLEAN
        BY <3>1 DEF TaskRecords
      <4>2. (task[u].cancel \/ u \in cancelled) = task[u].cancel
        BY <3>3, <4>1
      <4>3. [task[u] EXCEPT !.cancel = task[u].cancel] = task[u]
        BY <3>1 DEF TaskRecords
      <4> QED
        BY <3>1, <4>2, <4>3
    <3> QED
      BY <3>2, <3>3
  <2>8. \A u \in Tasks : task'[u] \in TaskRecords /\ WellFormed(u, task'[u])
    BY <1>3, <2>3, <2>5, <2>6, <2>7
  <2>9. TasksTyped'
    BY <2>2, <2>5, <2>8 DEF TasksTyped
  <2> QED
    BY <1>5, <2>1, <2>9
<1>20. CASE Disconnect(t)
  <2>1. UNCHANGED <<snap, nextGen, nextSession, nextSecret>> /\ me.pc # "idle"
    BY <1>4, <1>20 DEF Disconnect
  <2>2. TasksTyped'
    BY <1>20, <2>1, FinishTyped DEF Disconnect, Answers
  <2>3. CacheTyped'
    BY <1>5, <1>20, <2>1, EvictTyped DEF Disconnect
  <2> QED
    BY <2>2, <2>3
<1>21. CASE Reconnect(t)
  <2>1. UNCHANGED <<snap, nextGen, nextSession, nextSecret>> /\ me.pc = "waitTargets"
    BY <1>4, <1>21 DEF Reconnect
  <2>2. CASE Finish(t, "cancelled") /\ UNCHANGED sessions
    BY <1>5, <2>1, <2>2, FinishTyped DEF Answers
  <2>3. CASE /\ EvictExact({<<task[t].id, task[t].gen, task[t].captured>>})
             /\ task' = [task EXCEPT ![t].pc = "acquire"]
    <3> DEFINE r == [me EXCEPT !.pc = "acquire"]
    <3>1. task' = [task EXCEPT ![t] = r] /\ r \in TaskRecords
      BY <1>1, <2>3 DEF TaskRecords, TaskSteps
    <3>2. WellFormed(t, r)
      BY <1>1, <2>1 DEF TaskRecords, WellFormed, Holding
    <3>3. CacheTyped'
      BY <2>1, <2>3, EvictTyped
    <3> QED
      BY <2>1, <3>1, <3>2, <3>3, PutTyped
  <2> QED
    BY <1>21, <2>2, <2>3 DEF Reconnect
<1> QED
  BY <1>8, <1>9, <1>10, <1>11, <1>12, <1>14, <1>15, <1>16, <1>17, <1>18, <1>19, <1>20, <1>21
     DEF TaskStep

\* The records of a mutation: what it is about, and what it will clean up.
MutationTyped == ConfigTyped /\ KnownTyped /\ FlagsTyped /\ SecretsTyped /\ JobTyped /\ PlanTyped /\ Counted

LEMMA TaskStepFrame ==
    ASSUME Typed, [Next]_vars, NEW t \in Tasks, TaskStep(t)
    PROVE  MutationTyped'
<1>1. /\ UNCHANGED <<observedVars, disk, secretVars, known, bounds>>
      /\ UNCHANGED <<mpc, job, loaded, snap, targets, fence, hadActive>>
      /\ waiters' \subseteq waiters
  BY DEF TaskStep, Acquire, Credential, Connect, Install, CloseDisplaced, Operate, Observe, EvictLease,
         Completed, Interrupt, CancelTargets, Disconnect, Reconnect, TaskFrame, mutationVars
<1>2. ConfigTyped'
  BY <1>1 DEF Typed, ConfigTyped, observedVars
<1>3. KnownTyped' /\ SecretsTyped' /\ PlanTyped'
  BY <1>1, Kept DEF secretVars
<1>4. FlagsTyped'
  BY <1>1 DEF Typed, FlagsTyped, observedVars, bounds
<1>5. JobTyped'
  BY <1>1 DEF Typed, JobTyped
<1>6. Counted'
  BY <1>1 DEF Typed, Counted, bounds
<1> QED
  BY <1>2, <1>3, <1>4, <1>5, <1>6 DEF MutationTyped

LEMMA StartTyped ==
    ASSUME Typed, [Next]_vars, NEW t \in Tasks, NEW id \in Ids,
           StartWork(t, id) \/ \E kind \in {"disconnect", "reconnect"} : Capture(t, kind, id)
    PROVE  TasksTyped' /\ CacheTyped' /\ MutationTyped'
<1>1. /\ UNCHANGED <<observedVars, disk, cacheVars, secretVars, mutationVars, known, open, mutations, edits, down>>
      /\ starts' = starts + 1 /\ starts < MaxTasks /\ known[id] # 0
  BY DEF StartWork, Capture
<1>2. UNCHANGED <<nextGen, nextSession, nextSecret>>
  BY <1>1 DEF observedVars, cacheVars, secretVars
<1>3. ConfigTyped'
  BY <1>1 DEF Typed, ConfigTyped, observedVars, mutationVars
<1>4. KnownTyped' /\ SecretsTyped' /\ PlanTyped' /\ CacheTyped'
  BY <1>1, Kept DEF secretVars, mutationVars, cacheVars
<1>5. FlagsTyped'
  BY <1>1 DEF Typed, FlagsTyped, observedVars, mutationVars
<1>6. JobTyped'
  BY <1>1 DEF Typed, JobTyped, mutationVars
<1>7. Counted'
  BY <1>1, BoundsAssumption DEF Typed, Counted
<1>8. /\ known[id] \in 0..(nextGen - 1) /\ NoTask \in TaskRecords /\ NoSession \in Sessions
      /\ 0 \in 0..(nextSession - 1)
  BY TypesGrow DEF Typed, KnownTyped, GenInv, GenerationsBelowNext, Counters
<1>9. CASE StartWork(t, id)
  <2> DEFINE r == [NoTask EXCEPT !.pc = "acquire", !.id = id, !.gen = known[id]]
  <2>1. r \in TaskRecords
    BY <1>8 DEF NoTask, TaskRecords, TaskSteps
  <2>2. WellFormed(t, r)
    BY <1>1 DEF NoTask, WellFormed, Holding, NoSession
  <2>3. task' = [task EXCEPT ![t] = r]
    BY <1>9 DEF StartWork
  <2>4. TasksTyped'
    BY <1>2, <2>1, <2>2, <2>3, PutTyped
  <2> QED
    BY <1>3, <1>4, <1>5, <1>6, <1>7, <2>4 DEF MutationTyped
<1>10. ASSUME NEW kind \in {"disconnect", "reconnect"}, Capture(t, kind, id)
       PROVE  TasksTyped'
  <2> DEFINE captured == IF sessions[id].pgen = known[id] THEN sessions[id].sgen ELSE 0
             r == [NoTask EXCEPT !.pc = "captured", !.kind = kind, !.id = id, !.gen = known[id],
                     !.captured = captured]
  <2>1. captured \in 0..(nextSession - 1)
    BY <1>8 DEF Typed, CacheTyped, Sessions
  <2> HIDE DEF captured
  <2>2. r \in TaskRecords
    BY <1>8, <2>1 DEF NoTask, TaskRecords, TaskSteps
  <2>3. WellFormed(t, r)
    BY <1>1 DEF NoTask, WellFormed, Holding, NoSession
  <2>4. task' = [task EXCEPT ![t] = r]
    BY <1>10 DEF Capture, captured
  <2> QED
    BY <1>2, <2>2, <2>3, <2>4, PutTyped
<1> QED
  BY <1>3, <1>4, <1>5, <1>6, <1>7, <1>9, <1>10 DEF MutationTyped

LEMMA SmallStepsTyped ==
    ASSUME Typed, [Next]_vars, EditDisk \/ Shutdown \/ \E id \in Ids : StoreSecret(id)
    PROVE  TasksTyped' /\ CacheTyped' /\ MutationTyped'
<1>1. UNCHANGED <<observedVars, mutationVars, task, known, starts>>
  BY DEF EditDisk, Shutdown, StoreSecret
<1>2. KnownTyped' /\ PlanTyped' /\ TasksTyped'
  BY <1>1, Kept DEF mutationVars
<1>3. JobTyped'
  BY <1>1 DEF Typed, JobTyped, mutationVars
<1>4. ConfigTyped'
  <2>1. disk' \in EditedProfiles \/ disk' = disk
    BY DEF EditDisk, Shutdown, StoreSecret
  <2> QED
    BY <1>1, <2>1, ProfilesAssumption DEF Typed, ConfigTyped, observedVars, mutationVars
<1>5. FlagsTyped'
  <2>1. down' = TRUE \/ down' = down
    BY DEF EditDisk, Shutdown, StoreSecret
  <2> QED
    BY <1>1, <2>1 DEF Typed, FlagsTyped, observedVars, mutationVars
<1>6. Counted'
  <2>1. /\ mutations' = mutations \/ (mutations < MaxMutations /\ mutations' = mutations + 1)
        /\ edits' = edits \/ (edits < MaxEdits /\ edits' = edits + 1)
    BY DEF EditDisk, Shutdown, StoreSecret
  <2> QED
    BY <1>1, <2>1, BoundsAssumption DEF Typed, Counted
<1>7. CacheTyped'
  <2>1. NoSession \in Sessions /\ Sessions \subseteq Sessions' /\ snap' = snap
    BY <1>1, TypesGrow DEF Typed, mutationVars
  <2>2. sessions' = sessions \/ sessions' = [i \in Ids |-> NoSession]
    BY DEF EditDisk, Shutdown, StoreSecret, cacheVars
  <2> QED
    BY <2>1, <2>2 DEF Typed, CacheTyped
<1>8. SecretsTyped'
  <2>1. nextSecret \in Nat \ {0} /\ 0..(nextSecret - 1) \subseteq 0..(nextSecret' - 1)
    BY TypesGrow DEF Typed, Counters
  <2>2. /\ revoked' = revoked
        /\ \/ secrets' = secrets
           \/ secrets' = [i \in Ids |-> 0]
           \/ \E id \in Ids : secrets' = [secrets EXCEPT ![id] = nextSecret] /\ nextSecret' = nextSecret + 1
    BY DEF EditDisk, Shutdown, StoreSecret, secretVars
  <2>3. 0 \in 0..(nextSecret' - 1)
    BY <2>1
  <2>4. nextSecret' = nextSecret + 1 => nextSecret \in 0..(nextSecret' - 1)
    BY <2>1
  <2> QED
    BY <2>1, <2>2, <2>3, <2>4 DEF Typed, SecretsTyped
<1> QED
  BY <1>2, <1>3, <1>4, <1>5, <1>6, <1>7, <1>8 DEF MutationTyped

\* A mutation or reload begins.
LEMMA BeginTyped ==
    ASSUME Typed, [Next]_vars,
           \/ Reload
           \/ \E id \in Ids : Begin("Delete", id, NoProfile, "Clear")
           \/ \E id \in Ids, kind \in {"Create", "Update"}, p \in Profiles, update \in SecretUpdates :
                Begin(kind, id, p, update)
    PROVE  TasksTyped' /\ CacheTyped' /\ MutationTyped'
<1>1. /\ UNCHANGED <<profiles, gens, tombs, nextGen, disk, cacheVars, secretVars, snap, targets, fence,
                     waiters, hadActive, task, known, open, starts, edits, down>>
      /\ mpc = "idle" /\ mutations < MaxMutations /\ mutations' = mutations + 1
  BY DEF Reload, Begin, observedVars
<1>2. KnownTyped' /\ TasksTyped' /\ CacheTyped' /\ SecretsTyped'
  BY <1>1, Kept DEF cacheVars, secretVars
<1>3. Counted'
  BY <1>1, BoundsAssumption DEF Typed, Counted
<1>4. CASE Reload
  <2>1. /\ job' = [NoJob EXCEPT !.kind = "Reload"] /\ mpc' \in {"snapshot", "fence"}
        /\ uncertain' = uncertain \/ uncertain' = TRUE
        /\ loaded' = loaded \/ (disk # Unreadable /\ loaded' = disk)
    BY <1>4 DEF Reload
  <2>2. ConfigTyped'
    BY <1>1, <2>1 DEF Typed, ConfigTyped
  <2>3. FlagsTyped'
    BY <1>1, <2>1 DEF Typed, FlagsTyped, MutationSteps
  <2>4. JobTyped'
    BY <2>1 DEF JobTyped, Jobs, NoJob, SecretUpdates
  <2>5. PlanTyped'
    BY <1>1, <2>1, TypesGrow DEF Typed, PlanTyped, Unpublished
  <2> QED
    BY <1>2, <1>3, <2>2, <2>3, <2>4, <2>5 DEF MutationTyped
<1>5. ASSUME NEW id \in Ids, NEW kind \in {"Create", "Update", "Delete"}, NEW p \in Profiles \cup {NoProfile},
             NEW update \in SecretUpdates, kind # "Delete" => p \in Profiles, Begin(kind, id, p, update)
      PROVE  MutationTyped'
  <2>1. /\ mpc' = "write" /\ UNCHANGED <<uncertain, loaded>>
        /\ \E eligible \in BOOLEAN :
             job' = [kind |-> kind, id |-> id, profile |-> p, secret |-> update, eligible |-> eligible]
    BY <1>5 DEF Begin, observedVars
  <2>2. ConfigTyped'
    BY <1>1, <2>1 DEF Typed, ConfigTyped
  <2>3. FlagsTyped'
    BY <1>1, <2>1 DEF Typed, FlagsTyped, MutationSteps
  <2>4. JobTyped'
    BY <1>5, <2>1 DEF JobTyped, Jobs
  <2>5. PlanTyped'
    BY <1>1, <2>1, TypesGrow DEF Typed, PlanTyped, Unpublished
  <2> QED
    BY <1>3, <1>2, <2>2, <2>3, <2>4, <2>5 DEF MutationTyped
<1>6. "Clear" \in SecretUpdates
  BY DEF SecretUpdates
<1> QED
  BY <1>2, <1>4, <1>5, <1>6

LEMMA WriteTyped ==
    ASSUME Typed, [Next]_vars, Write
    PROVE  TasksTyped' /\ CacheTyped' /\ MutationTyped'
<1>1. /\ UNCHANGED <<profiles, gens, tombs, nextGen, cacheVars, secretVars, snap, targets, fence,
                     waiters, hadActive, task, known, open, mutations, starts, down>>
      /\ mpc = "write"
  BY DEF Write
<1>2. KnownTyped' /\ TasksTyped' /\ CacheTyped' /\ SecretsTyped'
  BY <1>1, Kept DEF cacheVars, secretVars
<1>3. /\ \/ mpc' = "idle" /\ job' = NoJob
         \/ mpc' \in {"snapshot", "fence"} /\ job' = job
      /\ uncertain' = uncertain \/ uncertain' = TRUE
  BY DEF Write
<1>4. /\ edits' = edits \/ (edits < MaxEdits /\ edits' = edits + 1)
      /\ disk' = disk \/ (WriteAllowed /\ disk' = Written) \/ disk' \in EditedProfiles
      /\ loaded' = loaded \/ (disk' # Unreadable /\ loaded' = disk')
  <2>1. CASE UNCHANGED <<disk, loaded, uncertain, edits>>
    BY <2>1
  <2>2. ASSUME WriteAllowed,
               NEW seen \in {Written} \cup (IF edits < MaxEdits THEN EditedProfiles ELSE {}),
               NEW observed \in BOOLEAN, disk' = seen,
               edits' = IF seen = Written THEN edits ELSE edits + 1,
               IF observed /\ seen # Unreadable /\ seen[job.id] = Written[job.id]
               THEN mpc' = "snapshot" /\ loaded' = seen /\ UNCHANGED uncertain
               ELSE mpc' = "fence" /\ uncertain' = TRUE /\ UNCHANGED loaded
        PROVE  /\ edits' = edits \/ (edits < MaxEdits /\ edits' = edits + 1)
               /\ disk' = Written \/ disk' \in EditedProfiles
               /\ loaded' = loaded \/ (disk' # Unreadable /\ loaded' = disk')
    BY <2>2
  <2> QED
    BY <2>1, <2>2 DEF Write
<1>5. WriteAllowed => Written \in Configs
  <2>1. job.id \in Ids /\ job.profile \in Profiles \cup {NoProfile}
    BY <1>1 DEF Typed, JobTyped, Jobs
  <2>2. WriteAllowed => disk \in Configs
    BY DEF WriteAllowed, Typed, ConfigTyped
  <2> QED
    BY <2>1, <2>2 DEF Written, Configs
<1>6. ConfigTyped'
  BY <1>1, <1>4, <1>5, ProfilesAssumption DEF Typed, ConfigTyped
<1>7. Counted'
  BY <1>1, <1>4, BoundsAssumption DEF Typed, Counted
<1>8. FlagsTyped'
  BY <1>1, <1>3 DEF Typed, FlagsTyped, MutationSteps
<1>9. JobTyped'
  <2>1. CASE mpc' = "idle" /\ job' = NoJob
    BY <2>1 DEF JobTyped, Jobs, NoJob, SecretUpdates
  <2>2. CASE mpc' \in {"snapshot", "fence"} /\ job' = job
    BY <2>2 DEF Typed, JobTyped
  <2> QED
    BY <1>3, <2>1, <2>2
<1>10. PlanTyped'
  <2>1. fence' = NoFence /\ targets' = {}
    BY <1>1 DEF Typed, PlanTyped, Unpublished
  <2>2. NoFence \in Fences'
    BY TypesGrow DEF Typed
  <2> QED
    BY <2>1, <2>2 DEF PlanTyped
<1> QED
  BY <1>2, <1>6, <1>7, <1>8, <1>9, <1>10 DEF MutationTyped

\* FenceAll and Publish plan the clean-up of what they outdate.
LEMMA PublishTyped ==
    ASSUME Typed, [Next]_vars, FenceAll \/ Publish
    PROVE  TasksTyped' /\ CacheTyped' /\ MutationTyped'
<1>1. /\ UNCHANGED <<disk, cacheVars, secretVars, job, loaded, snap, waiters, hadActive, task>>
      /\ MutationFrame /\ mpc' = "completed" /\ mpc \in {"fence", "publish"}
      /\ profiles' = profiles \/ profiles' = loaded
      /\ uncertain' = uncertain \/ uncertain' = FALSE
  BY DEF FenceAll, Publish
<1>2. KnownTyped' /\ TasksTyped' /\ CacheTyped' /\ SecretsTyped'
  BY <1>1, Kept DEF cacheVars, secretVars, MutationFrame
<1>3. Counted'
  BY <1>1 DEF Typed, Counted, MutationFrame
<1>4. ConfigTyped'
  BY <1>1 DEF Typed, ConfigTyped
<1>5. FlagsTyped'
  BY <1>1 DEF Typed, FlagsTyped, MutationSteps, MutationFrame
<1>6. JobTyped'
  BY <1>1 DEF Typed, JobTyped
<1>7. /\ sessions \in [Ids -> Sessions'] /\ snap \in [Ids -> Sessions'] /\ NoSession \in Sessions'
      /\ NoFence \in Fences'
  BY TypesGrow DEF Typed, CacheTyped
<1>8. \A i \in Ids : gens[i] \in 0..(nextGen' - 1) /\ gens'[i] \in 0..(nextGen' - 1)
  <2>1. GenerationsBelowNext /\ GenerationsBelowNext'
    BY GenerationsStep DEF Typed, GenInv
  <2>2. nextGen \in Nat /\ nextGen' \in Nat /\ nextGen <= nextGen'
    BY CountersGrow DEF Typed
  <2> QED
    BY <2>1, <2>2 DEF GenerationsBelowNext
<1>9. targets' \subseteq Targets'
  <2>1. \A g \in targets' : \E i \in Ids, c \in BOOLEAN : \E s \in {sessions[i], snap[i], NoSession} :
           g = [id |-> i, pgen |-> gens[i], session |-> s, clear |-> c]
    <3>1. CASE FenceAll
      BY <3>1 DEF FenceAll
    <3>2. CASE Publish
      BY <3>2 DEF Publish, Outdated
    <3> QED
      BY <3>1, <3>2
  <2>2. \A i \in Ids : sessions[i] \in Sessions' /\ snap[i] \in Sessions'
    BY <1>7
  <2> QED
    BY <1>7, <1>8, <2>1, <2>2 DEF Targets
<1>10. fence' \in Fences' /\ (fence' # NoFence => job.kind = "Update" /\ fence'.previous # NoSession)
  <2>1. CASE FenceAll
    BY <1>7, <2>1 DEF FenceAll
  <2>2. CASE Publish /\ fence' # NoFence
    <3>1. /\ job.kind = "Update" /\ job.id \in Outdated /\ snap[job.id] # NoSession
          /\ fence' = [previous |-> snap[job.id], pgen |-> gens'[job.id],
                        fp |-> Fingerprint(loaded[job.id]), eligible |-> job.eligible]
      BY <2>2 DEF Publish
    <3>2. job.id \in Ids /\ job.eligible \in BOOLEAN
      BY <3>1 DEF Typed, JobTyped, Jobs
    <3>3. Fingerprint(loaded[job.id]) \in Fingerprints
      BY <3>2 DEF Typed, ConfigTyped, Configs, Fingerprints
    <3> QED
      BY <1>7, <1>8, <3>1, <3>2, <3>3 DEF Fences
  <2>3. CASE fence' = NoFence
    BY <1>7, <2>3
  <2> QED
    BY <2>1, <2>2, <2>3
<1>11. PlanTyped'
  BY <1>1, <1>9, <1>10 DEF PlanTyped, Unpublished
<1> QED
  BY <1>2, <1>3, <1>4, <1>5, <1>6, <1>11 DEF MutationTyped

\* The rest of a mutation: the snapshot, the join, and the clean-up.
LEMMA CleanupTyped ==
    ASSUME Typed, [Next]_vars,
           Snapshot \/ Complete \/ Resolve \/ EvictTargets \/ ClearSecrets
    PROVE  TasksTyped' /\ CacheTyped' /\ MutationTyped'
<1>1. /\ UNCHANGED <<observedVars, disk, nextSession, loaded, mutations, starts, edits, down>>
      /\ mpc # "idle" /\ mpc' \in MutationSteps
  BY DEF Snapshot, Complete, Resolve, EvictTargets, ClearSecrets, MutationFrame, cacheVars, MutationSteps
<1>2. Counted' /\ ConfigTyped'
  BY <1>1 DEF Typed, Counted, ConfigTyped, observedVars
<1>3. NoSession \in Sessions' /\ Sessions \subseteq Sessions' /\ NoFence \in Fences'
  BY TypesGrow DEF Typed
<1>4. CASE Snapshot
  <2>1. /\ UNCHANGED <<secretVars, known, task, job, targets, fence, waiters, hadActive, sessions>>
        /\ mpc = "snapshot" /\ mpc' = "publish" /\ snap' = sessions
    BY <1>4 DEF Snapshot, MutationFrame, cacheVars
  <2>2. KnownTyped' /\ TasksTyped' /\ SecretsTyped'
    BY <2>1, Kept DEF secretVars
  <2>3. CacheTyped'
    BY <1>3, <2>1 DEF Typed, CacheTyped
  <2>4. JobTyped'
    BY <2>1 DEF Typed, JobTyped
  <2>5. PlanTyped'
    <3>1. fence' = NoFence /\ targets' = {}
      BY <2>1 DEF Typed, PlanTyped, Unpublished
    <3> QED
      BY <1>3, <3>1 DEF PlanTyped
  <2>6. FlagsTyped'
    BY <1>1, <2>1 DEF Typed, FlagsTyped, observedVars
  <2> QED
    BY <1>2, <2>2, <2>3, <2>4, <2>5, <2>6 DEF MutationTyped
<1>5. CASE Complete
  <2>1. /\ UNCHANGED <<secretVars, known, job, targets, fence, snap, sessions, nextGen, nextSession, nextSecret>>
        /\ mpc = "completed" /\ mpc' = "resolve" /\ hadActive' \in BOOLEAN
    BY <1>5 DEF Complete, MutationFrame, cacheVars, secretVars, observedVars
  <2>2. PICK fenced \in SUBSET Tasks :
          /\ waiters' = fenced /\ \A t \in fenced : task[t].pc # "idle"
          /\ task' = [t \in Tasks |-> IF t \in fenced THEN [task[t] EXCEPT !.cancel = TRUE] ELSE task[t]]
    BY <1>5 DEF Complete, Registered
  <2>3. KnownTyped' /\ CacheTyped' /\ SecretsTyped'
    BY <2>1, Kept DEF secretVars
  <2>4. JobTyped'
    BY <2>1 DEF Typed, JobTyped
  <2>5. PlanTyped'
    BY <2>1, TypesGrow DEF Typed, PlanTyped, Unpublished
  <2>6. FlagsTyped'
    BY <1>1, <2>1, <2>2 DEF Typed, FlagsTyped, observedVars
  <2>7. TasksTyped'
    <3>1. task \in [Tasks -> TaskRecords] /\ \A u \in Tasks : WellFormed(u, task[u])
      BY DEF Typed, TasksTyped
    <3>2. TaskRecords' = TaskRecords
      BY <2>1 DEF TaskRecords, Sessions
    <3>3. ASSUME NEW t \in fenced
          PROVE  LET r == [task[t] EXCEPT !.cancel = TRUE] IN r \in TaskRecords /\ WellFormed(t, r)
      <4>1. task[t] \in TaskRecords /\ WellFormed(t, task[t]) /\ task[t].pc # "idle"
        BY <2>2, <3>1
      <4> QED
        BY <4>1 DEF TaskRecords, WellFormed
    <3> QED
      BY <2>2, <3>1, <3>2, <3>3 DEF TasksTyped
  <2> QED
    BY <1>2, <2>3, <2>4, <2>5, <2>6, <2>7 DEF MutationTyped
<1>6. CASE Resolve \/ EvictTargets
  <2>1. /\ UNCHANGED <<secretVars, known, job, targets, fence, snap, task, waiters, hadActive>>
        /\ mpc \in {"resolve", "evict"} /\ mpc' \in {"evict", "secrets"}
    BY <1>6 DEF Resolve, EvictTargets, MutationFrame
  <2>2. KnownTyped' /\ TasksTyped' /\ SecretsTyped'
    BY <2>1, Kept DEF secretVars
  <2>3. JobTyped'
    BY <2>1 DEF Typed, JobTyped
  <2>4. PlanTyped'
    BY <2>1, TypesGrow DEF Typed, PlanTyped, Unpublished
  <2>5. FlagsTyped'
    BY <1>1, <2>1 DEF Typed, FlagsTyped, observedVars
  <2>6. CacheTyped'
    <3>1. CASE UNCHANGED sessions
      BY <2>1, <3>1, Kept
    <3>2. ASSUME NEW identities, EvictExact(identities) PROVE CacheTyped'
      BY <2>1, <3>2, EvictTyped
    <3>3. CASE fence # NoFence /\ sessions' = [sessions EXCEPT ![job.id].pgen = fence.pgen]
      <4>1. job.id \in Ids /\ fence.pgen \in 0..(nextGen - 1)
        BY <3>3 DEF Typed, JobTyped, PlanTyped, Fences
      <4>2. sessions \in [Ids -> Sessions] /\ snap \in [Ids -> Sessions]
        BY DEF Typed, CacheTyped
      <4>3. [sessions[job.id] EXCEPT !.pgen = fence.pgen] \in Sessions
        BY <4>1, <4>2 DEF Sessions
      <4>4. sessions' = [sessions EXCEPT ![job.id] = [sessions[job.id] EXCEPT !.pgen = fence.pgen]]
        BY <3>3
      <4>5. sessions' \in [Ids -> Sessions]
        BY <4>1, <4>2, <4>3, <4>4
      <4> QED
        BY <1>3, <2>1, <4>2, <4>5 DEF CacheTyped
    <3> QED
      BY <1>6, <3>1, <3>2, <3>3 DEF Resolve, EvictTargets
  <2> QED
    BY <1>2, <2>2, <2>3, <2>4, <2>5, <2>6 DEF MutationTyped
<1>7. CASE ClearSecrets
  <2>1. /\ UNCHANGED <<sessions, task, waiters>> /\ snap' = [i \in Ids |-> NoSession]
        /\ mpc = "secrets" /\ mpc' = "idle" /\ job' = NoJob /\ targets' = {} /\ fence' = NoFence
        /\ hadActive' = FALSE
    BY <1>7 DEF ClearSecrets, cacheVars
  <2>2. TasksTyped'
    BY <2>1, Kept
  <2>3. CacheTyped'
    BY <1>3, <2>1 DEF Typed, CacheTyped
  <2>4. JobTyped'
    BY <2>1 DEF JobTyped, Jobs, NoJob, SecretUpdates
  <2>5. PlanTyped'
    BY <1>3, <2>1 DEF PlanTyped
  <2>6. FlagsTyped'
    BY <1>1, <2>1 DEF Typed, FlagsTyped, observedVars
  <2>7. KnownTyped'
    <3>1. known' = [i \in Ids |-> IF uncertain THEN known[i]
                      ELSE IF job.kind = "Reload" \/ i = job.id THEN gens[i] ELSE known[i]]
      BY <1>7 DEF ClearSecrets
    <3> QED
      BY <1>1, <3>1 DEF Typed, KnownTyped, GenInv, GenerationsBelowNext, observedVars
  <2>8. SecretsTyped'
    <3>1. /\ secrets' = NextSecrets
          /\ nextSecret' = IF job.secret = "Replace" THEN nextSecret + 1 ELSE nextSecret
          /\ revoked' = revoked \cup {secrets[i] : i \in {j \in Ids : NextSecrets[j] # secrets[j]}}
      BY <1>7 DEF ClearSecrets
    <3>2. nextSecret \in Nat \ {0} /\ 0..(nextSecret - 1) \subseteq 0..(nextSecret' - 1)
      BY TypesGrow DEF Typed, Counters
    <3>3. 0 \in 0..(nextSecret' - 1) /\ (job.secret = "Replace" => nextSecret \in 0..(nextSecret' - 1))
      BY <3>1, <3>2
    <3>4. secrets \in [Ids -> 0..(nextSecret - 1)] /\ revoked \subseteq 0..(nextSecret - 1)
      BY DEF Typed, SecretsTyped
    <3>5. secrets' \in [Ids -> 0..(nextSecret' - 1)]
      BY <3>1, <3>2, <3>3, <3>4 DEF NextSecrets
    <3>6. revoked' \subseteq 0..(nextSecret' - 1)
      BY <3>1, <3>2, <3>4
    <3> QED
      BY <3>5, <3>6 DEF SecretsTyped
  <2> QED
    BY <1>2, <2>2, <2>3, <2>4, <2>5, <2>6, <2>7, <2>8 DEF MutationTyped
<1> QED
  BY <1>4, <1>5, <1>6, <1>7

LEMMA TypedStep == Typed /\ [Next]_vars => Typed'
<1> SUFFICES ASSUME Typed, [Next]_vars PROVE Typed'
  OBVIOUS
<1>1. GenInv' /\ Counters'
  BY GenerationsStep, CountersGrow DEF Typed
<1>2. TasksTyped' /\ CacheTyped' /\ MutationTyped'
  <2>1. CASE UNCHANGED vars
    <3> USE <2>1 DEF vars, observedVars, cacheVars, secretVars, mutationVars, bounds
    <3>1. KnownTyped' /\ CacheTyped' /\ SecretsTyped' /\ TasksTyped' /\ PlanTyped'
      BY Kept
    <3>2. ConfigTyped' /\ FlagsTyped' /\ JobTyped' /\ Counted'
      BY DEF Typed, ConfigTyped, FlagsTyped, JobTyped, Counted
    <3> QED
      BY <3>1, <3>2 DEF MutationTyped
  <2>2. ASSUME NEW t \in Tasks, TaskStep(t) PROVE TasksTyped' /\ CacheTyped' /\ MutationTyped'
    BY <2>2, TaskStepTyped, TaskStepFrame
  <2>3. ASSUME NEW t \in Tasks, NEW id \in Ids,
               StartWork(t, id) \/ \E kind \in {"disconnect", "reconnect"} : Capture(t, kind, id)
        PROVE  TasksTyped' /\ CacheTyped' /\ MutationTyped'
    BY <2>3, StartTyped
  <2>4. CASE EditDisk \/ Shutdown \/ \E id \in Ids : StoreSecret(id)
    BY <2>4, SmallStepsTyped
  <2>5. CASE \/ Reload
             \/ \E id \in Ids : Begin("Delete", id, NoProfile, "Clear")
             \/ \E id \in Ids, kind \in {"Create", "Update"}, p \in Profiles, update \in SecretUpdates :
                  Begin(kind, id, p, update)
    BY <2>5, BeginTyped
  <2>6. CASE MutationStep
    BY <2>6, WriteTyped, PublishTyped, CleanupTyped DEF MutationStep
  <2> QED
    BY <2>1, <2>2, <2>3, <2>4, <2>5, <2>6 DEF Next
<1> QED
  BY <1>1, <1>2 DEF Typed, MutationTyped

-----------------------------------------------------------------------------
(* Every open connection has one owner.                                    *)

\* The connections in the cache, those a task has opened and not installed yet,
\* and those a task has taken out of the cache to close them.
Cached == {sessions[i].sgen : i \in {j \in Ids : sessions[j] # NoSession}}
Arrived == {task[t].lease.sgen : t \in {u \in Tasks : task[u].pc = "install"}}
Leaving == {task[t].old : t \in {u \in Tasks : task[u].pc = "displacing"}}

HandlesOwned == open = Cached \cup Arrived \cup Leaving

\* A task that has numbered its connection and not installed it yet.
Opening(t) == task[t].pc \in {"connecting", "install"}
Displacing(t) == task[t].pc = "displacing"

\* No two owners have the same connection: what one of them closes, no other
\* counts on.
CacheOwns ==
    /\ \A i \in Ids : sessions[i] # NoSession => sessions[i].sgen # 0
    /\ \A i, j \in Ids : i # j /\ sessions[i] # NoSession => sessions[i].sgen # sessions[j].sgen
OpeningOwns ==
    \A t \in Tasks : Opening(t) =>
        /\ task[t].lease.sgen # 0
        /\ \A i \in Ids : sessions[i].sgen # task[t].lease.sgen
        /\ \A u \in Tasks : u # t /\ Opening(u) => task[u].lease.sgen # task[t].lease.sgen
        /\ \A u \in Tasks : Displacing(u) => task[u].old # task[t].lease.sgen
DisplacingOwns ==
    \A t \in Tasks : Displacing(t) =>
        /\ task[t].old # 0
        /\ \A i \in Ids : sessions[i].sgen # task[t].old
        /\ \A u \in Tasks : u # t /\ Displacing(u) => task[u].old # task[t].old
OneOwner == CacheOwns /\ OpeningOwns /\ DisplacingOwns

\* After shutdown_runtime nothing runs and nothing is cached.
AtRest ==
    down => /\ mpc = "idle" /\ \A t \in Tasks : task[t].pc = "idle"
            /\ \A i \in Ids : sessions[i] = NoSession

HandleInv == HandlesOwned /\ OneOwner /\ AtRest

\* A step of a task leaves the other tasks where they are; only the cancel flag
\* and the list of tasks to wait for may change.
SameOwner(u) ==
    /\ task'[u].pc = task[u].pc /\ task'[u].lease = task[u].lease /\ task'[u].old = task[u].old
    /\ task'[u].id = task[u].id /\ task'[u].gen = task[u].gen

LEMMA OthersKept ==
    ASSUME Typed, NEW t \in Tasks, TaskStep(t), NEW u \in Tasks \ {t}
    PROVE  SameOwner(u)
<1>1. task \in [Tasks -> TaskRecords] /\ task[u] \in TaskRecords /\ task[t] \in TaskRecords
  BY DEF Typed, TasksTyped
<1>3. CASE Completed(t)
  BY <1>1, <1>3 DEF SameOwner, Completed, TaskRecords
<1>4. CASE CancelTargets(t)
  <2>1. \E c : task'[u] = [task[u] EXCEPT !.cancel = c]
    BY <1>4 DEF CancelTargets
  <2> QED
    BY <1>1, <2>1 DEF SameOwner, TaskRecords
<1>5. CASE \/ Acquire(t) \/ Credential(t) \/ Connect(t) \/ Install(t) \/ CloseDisplaced(t) \/ Operate(t)
           \/ Observe(t) \/ EvictLease(t) \/ Interrupt(t) \/ Disconnect(t) \/ Reconnect(t)
  <2>1. task'[u] = task[u]
    BY <1>1, <1>5 DEF Acquire, Credential, Connect, Install, CloseDisplaced, Operate, Observe, EvictLease,
                      Interrupt, Disconnect, Reconnect, Finish
  <2> QED
    BY <2>1 DEF SameOwner
<1> QED
  BY <1>3, <1>4, <1>5 DEF TaskStep

\* A step that opens nothing: every owner keeps its connection or gives it up, and
\* what is given up is closed and belongs to no other.
Keeps(u, closed) ==
    /\ SameOwner(u)
    /\ task[u].pc = "install" => task[u].lease.sgen \notin closed
    /\ task[u].pc = "displacing" => task[u].old \notin closed
GivesUp(u, closed) ==
    /\ task'[u].pc \notin {"connecting", "install", "displacing"}
    /\ task[u].pc = "install" => task[u].lease.sgen \in closed
    /\ task[u].pc = "displacing" => task[u].old \in closed
CacheKeeps(i, closed) ==
    /\ sessions[i] # NoSession /\ sessions'[i] # NoSession
    /\ sessions'[i].sgen = sessions[i].sgen /\ sessions[i].sgen \notin closed
CacheGivesUp(i, closed) ==
    sessions'[i] = NoSession /\ (sessions[i] = NoSession \/ sessions[i].sgen \in closed)

LEMMA ClosingKeepsOwners ==
    ASSUME OneOwner, HandlesOwned, NEW closed, open' = open \ closed,
           \A i \in Ids : CacheKeeps(i, closed) \/ CacheGivesUp(i, closed),
           \A u \in Tasks : Keeps(u, closed) \/ GivesUp(u, closed)
    PROVE  OneOwner' /\ HandlesOwned'
<1> USE DEF Opening, Displacing
<1>0. NoSession.sgen = 0
  BY DEF NoSession
<1>1. \A i \in Ids : /\ sessions'[i] # NoSession => sessions[i] # NoSession
                     /\ sessions'[i] # NoSession => sessions'[i].sgen = sessions[i].sgen
                     /\ sessions'[i] = NoSession => sessions'[i].sgen = 0
  BY <1>0 DEF CacheKeeps, CacheGivesUp
<1>2. \A u \in Tasks : /\ Opening(u)' => Opening(u) /\ task'[u].lease = task[u].lease
                       /\ Displacing(u)' => Displacing(u) /\ task'[u].old = task[u].old
  BY DEF Keeps, GivesUp, SameOwner, Opening, Displacing
<1>3. CacheOwns'
  <2>1. ASSUME NEW i \in Ids, sessions'[i] # NoSession
        PROVE  /\ sessions'[i].sgen # 0
               /\ \A j \in Ids \ {i} : sessions'[i].sgen # sessions'[j].sgen
    <3>1. CacheOwns
      BY DEF OneOwner
    <3>2. sessions[i] # NoSession /\ sessions'[i].sgen = sessions[i].sgen
      BY <1>1, <2>1
    <3>3. sessions[i].sgen # 0
      BY <3>1, <3>2 DEF CacheOwns
    <3>4. ASSUME NEW j \in Ids \ {i} PROVE sessions'[i].sgen # sessions'[j].sgen
      <4>1. CASE sessions'[j] = NoSession
        BY <1>1, <3>2, <3>3, <4>1
      <4>2. CASE sessions'[j] # NoSession
        BY <1>1, <3>1, <3>2, <4>2 DEF CacheOwns
      <4> QED
        BY <4>1, <4>2
    <3> QED
      BY <3>2, <3>3, <3>4
  <2> QED
    BY <2>1 DEF CacheOwns
<1>4. OpeningOwns'
  <2> SUFFICES ASSUME NEW t \in Tasks, Opening(t)'
               PROVE  /\ task'[t].lease.sgen # 0
                      /\ \A i \in Ids : sessions'[i].sgen # task'[t].lease.sgen
                      /\ \A u \in Tasks : u # t /\ Opening(u)' => task'[u].lease.sgen # task'[t].lease.sgen
                      /\ \A u \in Tasks : Displacing(u)' => task'[u].old # task'[t].lease.sgen
    BY DEF OpeningOwns
  <2>1. Opening(t) /\ task'[t].lease = task[t].lease
    BY <1>2
  <2>2. task[t].lease.sgen # 0 /\ \A i \in Ids : sessions[i].sgen # task[t].lease.sgen
    BY <2>1 DEF OneOwner, OpeningOwns
  <2>3. /\ \A u \in Tasks : u # t /\ Opening(u) => task[u].lease.sgen # task[t].lease.sgen
        /\ \A u \in Tasks : Displacing(u) => task[u].old # task[t].lease.sgen
    BY <2>1 DEF OneOwner, OpeningOwns
  <2>4. \A i \in Ids : sessions'[i].sgen # task'[t].lease.sgen
    BY <1>1, <2>1, <2>2
  <2> QED
    BY <1>2, <2>1, <2>2, <2>3, <2>4
<1>5. DisplacingOwns'
  <2> SUFFICES ASSUME NEW t \in Tasks, Displacing(t)'
               PROVE  /\ task'[t].old # 0
                      /\ \A i \in Ids : sessions'[i].sgen # task'[t].old
                      /\ \A u \in Tasks : u # t /\ Displacing(u)' => task'[u].old # task'[t].old
    BY DEF DisplacingOwns
  <2>1. Displacing(t) /\ task'[t].old = task[t].old
    BY <1>2
  <2>2. task[t].old # 0 /\ \A i \in Ids : sessions[i].sgen # task[t].old
    BY <2>1 DEF OneOwner, DisplacingOwns
  <2>3. \A u \in Tasks : u # t /\ Displacing(u) => task[u].old # task[t].old
    BY <2>1 DEF OneOwner, DisplacingOwns
  <2>4. \A i \in Ids : sessions'[i].sgen # task'[t].old
    BY <1>1, <2>1, <2>2
  <2> QED
    BY <1>2, <2>1, <2>2, <2>3, <2>4
<1>6. Cached' = Cached \ closed
  <2>1. ASSUME NEW i \in Ids, sessions'[i] # NoSession PROVE sessions'[i].sgen \in Cached \ closed
    BY <2>1 DEF Cached, CacheKeeps, CacheGivesUp
  <2>2. ASSUME NEW i \in Ids, sessions[i] # NoSession, sessions[i].sgen \notin closed
        PROVE  sessions[i].sgen \in Cached'
    BY <2>2 DEF Cached, CacheKeeps, CacheGivesUp
  <2> QED
    BY <2>1, <2>2 DEF Cached
<1>7. Arrived' = Arrived \ closed
  <2>1. ASSUME NEW u \in Tasks, task'[u].pc = "install" PROVE task'[u].lease.sgen \in Arrived \ closed
    BY <2>1 DEF Arrived, Keeps, GivesUp, SameOwner
  <2>2. ASSUME NEW u \in Tasks, task[u].pc = "install", task[u].lease.sgen \notin closed
        PROVE  task[u].lease.sgen \in Arrived'
    BY <2>2 DEF Arrived, Keeps, GivesUp, SameOwner
  <2> QED
    BY <2>1, <2>2 DEF Arrived
<1>8. Leaving' = Leaving \ closed
  <2>1. ASSUME NEW u \in Tasks, task'[u].pc = "displacing" PROVE task'[u].old \in Leaving \ closed
    BY <2>1 DEF Leaving, Keeps, GivesUp, SameOwner
  <2>2. ASSUME NEW u \in Tasks, task[u].pc = "displacing", task[u].old \notin closed
        PROVE  task[u].old \in Leaving'
    BY <2>2 DEF Leaving, Keeps, GivesUp, SameOwner
  <2> QED
    BY <2>1, <2>2 DEF Leaving
<1>9. HandlesOwned'
  BY <1>6, <1>7, <1>8 DEF HandlesOwned
<1> QED
  BY <1>3, <1>4, <1>5, <1>9 DEF OneOwner

\* take_cached_session_exact and close: what leaves the cache is closed.
LEMMA EvictingKeepsOwners ==
    ASSUME Typed, OneOwner, HandlesOwned, NEW identities, EvictExact(identities),
           \A u \in Tasks : SameOwner(u) \/ (GivesUp(u, {}) /\ task[u].pc \notin {"install", "displacing"})
    PROVE  OneOwner' /\ HandlesOwned'
<1> DEFINE taken == {i \in Ids : sessions[i] # NoSession
                              /\ <<i, sessions[i].pgen, sessions[i].sgen>> \in identities}
           closed == {sessions[i].sgen : i \in taken}
<1>1. /\ sessions' = [i \in Ids |-> IF i \in taken THEN NoSession ELSE sessions[i]]
      /\ open' = open \ closed
  BY DEF EvictExact
<1>2. \A i \in Ids : i \in taken => sessions[i] # NoSession
  OBVIOUS
<1> HIDE DEF taken
<1>3. \A i \in Ids : CacheKeeps(i, closed) \/ CacheGivesUp(i, closed)
  <2> TAKE i \in Ids
  <2>1. CASE i \in taken
    BY <1>1, <2>1 DEF CacheGivesUp
  <2>2. CASE i \notin taken /\ sessions[i] = NoSession
    BY <1>1, <2>2 DEF CacheGivesUp
  <2>3. CASE i \notin taken /\ sessions[i] # NoSession
    <3>1. \A j \in taken : j \in Ids /\ j # i
      BY <2>3 DEF taken
    <3>2. sessions[i].sgen \notin closed
      BY <1>2, <2>3, <3>1 DEF OneOwner, CacheOwns
    <3> QED
      BY <1>1, <2>3, <3>2 DEF CacheKeeps, OneOwner, CacheOwns
  <2> QED
    BY <2>1, <2>2, <2>3
<1>4. \A u \in Tasks : Keeps(u, closed) \/ GivesUp(u, closed)
  <2> TAKE u \in Tasks
  <2>1. \A j \in taken : j \in Ids
    BY DEF taken
  <2>2. task[u].pc = "install" => task[u].lease.sgen \notin closed
    BY <2>1 DEF OneOwner, OpeningOwns, Opening
  <2>3. task[u].pc = "displacing" => task[u].old \notin closed
    BY <2>1 DEF OneOwner, DisplacingOwns, Displacing
  <2> HIDE DEF closed
  <2> QED
    BY <2>2, <2>3 DEF Keeps, GivesUp
<1> HIDE DEF closed
<1> QED
  BY <1>1, <1>3, <1>4, ClosingKeepsOwners

\* What Finish keeps of a task.
LEMMA Finished ==
    ASSUME Typed, NEW t \in Tasks, NEW r, Finish(t, r)
    PROVE  /\ task'[t].pc = "finished" /\ task'[t].result = r /\ task'[t].kind = task[t].kind
           /\ task'[t].id = task[t].id /\ task'[t].gen = task[t].gen /\ task'[t].lease = task[t].lease
<1>1. task \in [Tasks -> TaskRecords]
  BY DEF Typed, TasksTyped
<1> QED
  BY <1>1 DEF Finish, NoTask

\* A task connects: its connection gets a number no other has had.
LEMMA OpeningKeepsOwners ==
    ASSUME Typed, OneOwner, HandlesOwned, NEW t \in Tasks, Credential(t) \/ Connect(t), TaskStep(t)
    PROVE  OneOwner' /\ HandlesOwned'
<1> DEFINE me == task[t]
<1>1. task \in [Tasks -> TaskRecords] /\ me \in TaskRecords
  BY DEF Typed, TasksTyped
<1>2. \A u \in Tasks \ {t} : SameOwner(u)
  BY OthersKept
<1>3. UNCHANGED sessions
  BY DEF Credential, Connect, cacheVars
<1>4. CASE task'[t].pc = "finished"
  <2>1. me.pc \in {"credential", "connecting"} /\ open' = open
    BY <1>1, <1>4 DEF Credential, Connect, TaskRecords
  <2>2. \A i \in Ids : CacheKeeps(i, {}) \/ CacheGivesUp(i, {})
    BY <1>3 DEF CacheKeeps, CacheGivesUp, OneOwner, CacheOwns
  <2>3. \A u \in Tasks : Keeps(u, {}) \/ GivesUp(u, {})
    <3>1. GivesUp(t, {})
      BY <1>4, <2>1 DEF GivesUp
    <3>2. \A u \in Tasks \ {t} : Keeps(u, {})
      BY <1>2 DEF Keeps
    <3> QED
      BY <3>1, <3>2
  <2>4. open' = open \ {}
    BY <2>1
  <2> QED
    BY <2>2, <2>3, <2>4, ClosingKeepsOwners
<1>5. CASE task'[t].pc = "connecting"
  <2>1. /\ me.pc = "credential" /\ open' = open
        /\ task'[t].lease.sgen = nextSession
    BY <1>1, <1>5, Finished DEF Credential, Connect, TaskRecords, Sessions
  <2>2. /\ \A i \in Ids : sessions[i].sgen # nextSession
        /\ \A u \in Tasks : task[u].lease.sgen # nextSession /\ task[u].old # nextSession
        /\ nextSession # 0
    BY DEF Typed, CacheTyped, TasksTyped, TaskRecords, Sessions, Counters
  <2>3. CacheOwns' /\ DisplacingOwns'
    BY <1>2, <1>3, <1>5, <2>1 DEF OneOwner, CacheOwns, DisplacingOwns, Displacing, SameOwner
  <2>4. OpeningOwns'
    <3>1. \A u \in Tasks \ {t} : task'[u].pc = task[u].pc /\ task'[u].lease = task[u].lease
                                 /\ task'[u].old = task[u].old
      BY <1>2 DEF SameOwner
    <3>2. \A u \in Tasks : Opening(u)' => u = t \/ Opening(u)
      BY <3>1 DEF Opening
    <3> QED
      BY <1>3, <1>5, <2>1, <2>2, <3>1, <3>2 DEF OneOwner, OpeningOwns, Opening, Displacing
  <2>5. Cached' = Cached /\ Arrived' = Arrived /\ Leaving' = Leaving
    BY <1>2, <1>3, <1>5, <2>1 DEF Cached, Arrived, Leaving, SameOwner
  <2> QED
    BY <2>1, <2>3, <2>4, <2>5 DEF OneOwner, HandlesOwned
<1>6. CASE task'[t].pc = "install"
  <2>1. /\ me.pc = "connecting" /\ open' = open \cup {me.lease.sgen}
        /\ task'[t].lease = me.lease
    BY <1>1, <1>6, Finished DEF Credential, Connect, TaskRecords
  <2>2. CacheOwns' /\ DisplacingOwns' /\ OpeningOwns'
    <3>1. \A u \in Tasks : /\ Opening(u)' <=> Opening(u)
                           /\ Displacing(u)' <=> Displacing(u)
                           /\ task'[u].lease = task[u].lease
                           /\ Displacing(u) => task'[u].old = task[u].old
      BY <1>2, <1>6, <2>1 DEF Opening, Displacing, SameOwner
    <3> QED
      BY <1>3, <3>1 DEF OneOwner, CacheOwns, OpeningOwns, DisplacingOwns, Opening, Displacing
  <2>3. Cached' = Cached /\ Leaving' = Leaving
    BY <1>2, <1>3, <1>6, <2>1 DEF Cached, Leaving, SameOwner
  <2>4. Arrived' = Arrived \cup {me.lease.sgen}
    BY <1>2, <1>6, <2>1 DEF Arrived, SameOwner
  <2> QED
    BY <2>1, <2>2, <2>3, <2>4 DEF OneOwner, HandlesOwned
<1>7. task'[t].pc \in {"finished", "connecting", "install"}
  BY <1>1, Finished DEF Credential, Connect, TaskRecords
<1> QED
  BY <1>4, <1>5, <1>6, <1>7

\* The connection a task alone owns.
Held(t) == IF task[t].pc = "install" THEN {task[t].lease.sgen}
           ELSE IF task[t].pc = "displacing" THEN {task[t].old} ELSE {}

\* A task closes what it holds, if anything, and the cache is left alone.
LEMMA ReleasingKeepsOwners ==
    ASSUME OneOwner, HandlesOwned, NEW t \in Tasks, UNCHANGED sessions,
           \A u \in Tasks \ {t} : SameOwner(u),
           task'[t].pc \notin {"connecting", "install", "displacing"}, open' = open \ Held(t)
    PROVE  OneOwner' /\ HandlesOwned'
<1>1. \A i \in Ids : CacheKeeps(i, Held(t)) \/ CacheGivesUp(i, Held(t))
  <2> TAKE i \in Ids
  <2>1. sessions[i].sgen \notin Held(t)
    BY DEF Held, OneOwner, OpeningOwns, DisplacingOwns, Opening, Displacing
  <2> QED
    BY <2>1 DEF CacheKeeps, CacheGivesUp, OneOwner, CacheOwns
<1>2. GivesUp(t, Held(t))
  BY DEF GivesUp, Held
<1>3. \A u \in Tasks \ {t} : Keeps(u, Held(t))
  <2> TAKE u \in Tasks \ {t}
  <2>1. task[u].pc = "install" => task[u].lease.sgen \notin Held(t)
    BY DEF Held, OneOwner, OpeningOwns, DisplacingOwns, Opening, Displacing
  <2>2. task[u].pc = "displacing" => task[u].old \notin Held(t)
    BY DEF Held, OneOwner, OpeningOwns, DisplacingOwns, Opening, Displacing
  <2> QED
    BY <2>1, <2>2 DEF Keeps
<1> QED
  BY <1>1, <1>2, <1>3, ClosingKeepsOwners

\* The installation of a session: what was cached is displaced.
LEMMA InstallKeepsOwners ==
    ASSUME Typed, OneOwner, HandlesOwned, NEW t \in Tasks, Install(t), TaskStep(t)
    PROVE  OneOwner' /\ HandlesOwned'
<1> DEFINE me == task[t]
           id == me.id
<1>1. /\ task \in [Tasks -> TaskRecords] /\ me \in TaskRecords /\ sessions \in [Ids -> Sessions]
      /\ me.pc = "install" /\ id \in Ids /\ me.lease.pgen # 0
  BY DEF Typed, TasksTyped, CacheTyped, Install, WellFormed, Holding
<1>2. \A u \in Tasks \ {t} : SameOwner(u)
  BY OthersKept
<1>3. Held(t) = {me.lease.sgen}
  BY <1>1 DEF Held
<1>4. CASE Finish(t, "stale") /\ open' = open \ {me.lease.sgen} /\ UNCHANGED sessions
  BY <1>2, <1>3, <1>4, Finished, ReleasingKeepsOwners
<1>5. CASE /\ task' = [task EXCEPT ![t].pc = "operate", ![t].lease = sessions[id]]
           /\ open' = open \ {me.lease.sgen} /\ UNCHANGED sessions
  <2>1. task'[t].pc = "operate"
    BY <1>1, <1>5 DEF TaskRecords
  <2> QED
    BY <1>2, <1>3, <1>5, <2>1, ReleasingKeepsOwners
<1>6. CASE /\ sessions' = [sessions EXCEPT ![id] = me.lease]
           /\ task' = [task EXCEPT ![t].pc = IF sessions[id] = NoSession THEN "operate" ELSE "displacing",
                                   ![t].old = sessions[id].sgen]
           /\ UNCHANGED open
  <2>1. /\ task'[t].old = sessions[id].sgen /\ task'[t].lease = me.lease
        /\ sessions[id] = NoSession => task'[t].pc = "operate"
        /\ sessions[id] # NoSession => task'[t].pc = "displacing"
    BY <1>1, <1>6 DEF TaskRecords
  <2>2. sessions'[id] = me.lease /\ \A i \in Ids \ {id} : sessions'[i] = sessions[i]
    BY <1>1, <1>6
  <2>3. me.lease # NoSession /\ me.lease.sgen # 0 /\ NoSession.sgen = 0
    BY <1>1 DEF OneOwner, OpeningOwns, Opening, NoSession
  <2>4. /\ \A i \in Ids : sessions[i].sgen # me.lease.sgen
        /\ \A u \in Tasks \ {t} : Opening(u) => task[u].lease.sgen # me.lease.sgen
        /\ \A u \in Tasks : Displacing(u) => task[u].old # me.lease.sgen
    BY <1>1 DEF OneOwner, OpeningOwns, Opening
  <2>5. \A u \in Tasks \ {t} : /\ task'[u].pc = task[u].pc /\ task'[u].old = task[u].old
                               /\ task'[u].lease = task[u].lease
    BY <1>2 DEF SameOwner
  <2>6. CacheOwns'
    BY <1>1, <2>2, <2>3, <2>4 DEF OneOwner, CacheOwns
  <2>7. OpeningOwns'
    <3> SUFFICES ASSUME NEW u \in Tasks, Opening(u)'
                 PROVE  /\ task'[u].lease.sgen # 0
                        /\ \A i \in Ids : sessions'[i].sgen # task'[u].lease.sgen
                        /\ \A v \in Tasks : v # u /\ Opening(v)' => task'[v].lease.sgen # task'[u].lease.sgen
                        /\ \A v \in Tasks : Displacing(v)' => task'[v].old # task'[u].lease.sgen
      BY DEF OpeningOwns
    <3>1. u # t /\ Opening(u) /\ task'[u].lease = task[u].lease
      BY <2>1, <2>5 DEF Opening
    <3>2. /\ task[u].lease.sgen # 0 /\ \A i \in Ids : sessions[i].sgen # task[u].lease.sgen
          /\ \A v \in Tasks : v # u /\ Opening(v) => task[v].lease.sgen # task[u].lease.sgen
          /\ \A v \in Tasks : Displacing(v) => task[v].old # task[u].lease.sgen
      BY <3>1 DEF OneOwner, OpeningOwns
    <3>3. \A i \in Ids : sessions'[i].sgen # task[u].lease.sgen
      BY <2>2, <2>4, <3>1, <3>2
    <3>4. \A v \in Tasks : v # u /\ Opening(v)' => task'[v].lease.sgen # task[u].lease.sgen
      BY <2>1, <2>5, <3>2 DEF Opening
    <3>5. \A v \in Tasks : Displacing(v)' => task'[v].old # task[u].lease.sgen
      BY <1>1, <2>1, <2>5, <3>2 DEF Displacing
    <3> QED
      BY <3>1, <3>2, <3>3, <3>4, <3>5
  <2>8. DisplacingOwns'
    <3> SUFFICES ASSUME NEW u \in Tasks, Displacing(u)'
                 PROVE  /\ task'[u].old # 0
                        /\ \A i \in Ids : sessions'[i].sgen # task'[u].old
                        /\ \A v \in Tasks : v # u /\ Displacing(v)' => task'[v].old # task'[u].old
      BY DEF DisplacingOwns
    <3>1. CASE u = t
      <4>1. sessions[id] # NoSession /\ task'[u].old = sessions[id].sgen /\ sessions[id].sgen # 0
        BY <1>1, <2>1, <3>1 DEF Displacing, OneOwner, CacheOwns
      <4>2. \A i \in Ids : sessions'[i].sgen # sessions[id].sgen
        BY <1>1, <2>2, <2>4, <4>1 DEF OneOwner, CacheOwns
      <4>3. \A v \in Tasks \ {t} : Displacing(v)' => task'[v].old # sessions[id].sgen
        BY <1>1, <2>5 DEF OneOwner, DisplacingOwns, Displacing
      <4> QED
        BY <3>1, <4>1, <4>2, <4>3
    <3>2. CASE u # t
      <4>1. Displacing(u) /\ task'[u].old = task[u].old
        BY <2>5, <3>2 DEF Displacing
      <4>2. /\ task[u].old # 0 /\ \A i \in Ids : sessions[i].sgen # task[u].old
            /\ \A v \in Tasks : v # u /\ Displacing(v) => task[v].old # task[u].old
        BY <4>1 DEF OneOwner, DisplacingOwns
      <4>3. \A i \in Ids : sessions'[i].sgen # task[u].old
        BY <2>2, <2>4, <4>1, <4>2
      <4>4. \A v \in Tasks : v # u /\ Displacing(v)' => task'[v].old # task[u].old
        BY <1>1, <2>1, <2>5, <4>2 DEF Displacing
      <4> QED
        BY <4>1, <4>2, <4>3, <4>4
    <3> QED
      BY <3>1, <3>2
  <2>9. HandlesOwned'
    <3>1. CASE sessions[id] = NoSession
      <4>1. Cached' = Cached \cup {me.lease.sgen}
        BY <1>1, <2>2, <2>3, <3>1 DEF Cached
      <4>2. Arrived = Arrived' \cup {me.lease.sgen} /\ Leaving' = Leaving
        BY <1>1, <2>1, <2>5, <3>1 DEF Arrived, Leaving
      <4> QED
        BY <1>6, <4>1, <4>2 DEF HandlesOwned
    <3>2. CASE sessions[id] # NoSession
      <4>1. Cached' \cup {sessions[id].sgen} = Cached \cup {me.lease.sgen}
        <5>1. sessions'[id] # NoSession /\ sessions'[id].sgen = me.lease.sgen
          BY <2>2, <2>3
        <5>2. Cached \subseteq Cached' \cup {sessions[id].sgen}
          BY <1>1, <2>2 DEF Cached
        <5>3. Cached' \subseteq Cached \cup {me.lease.sgen}
          BY <1>1, <2>2, <5>1 DEF Cached
        <5>4. sessions[id].sgen \in Cached /\ me.lease.sgen \in Cached'
          BY <1>1, <3>2, <5>1 DEF Cached
        <5> QED
          BY <5>2, <5>3, <5>4
      <4>2. Arrived = Arrived' \cup {me.lease.sgen}
        BY <1>1, <2>1, <2>5, <3>2 DEF Arrived
      <4>3. Leaving' = Leaving \cup {sessions[id].sgen}
        BY <1>1, <2>1, <2>5, <3>2 DEF Leaving
      <4> QED
        BY <1>6, <4>1, <4>2, <4>3 DEF HandlesOwned
    <3> QED
      BY <3>1, <3>2
  <2> QED
    BY <2>6, <2>7, <2>8, <2>9 DEF OneOwner
<1> QED
  BY <1>4, <1>5, <1>6 DEF Install

\* A control that has cancelled the profile's tasks waits for them, or was busy.
LEMMA ControlWaits ==
    ASSUME Typed, NEW t \in Tasks, CancelTargets(t)
    PROVE  \/ task'[t] = NoTask
           \/ /\ task'[t].pc = "waitTargets" /\ task'[t].lease = task[t].lease
              /\ task'[t].id = task[t].id /\ task'[t].gen = task[t].gen
<1> DEFINE others == {u \in Tasks \ {t} : Registered(u) /\ task[u].id = task[t].id}
           cancelled == {u \in others : task[u].gen = task[t].gen}
           busy == task[t].kind = "reconnect" /\ cancelled = {} /\ \E u \in others : OwnsProfile(u)
           plan == IF cancelled = {} THEN "Ready" ELSE "Wait"
           waiting == [task[t] EXCEPT !.pc = "waitTargets", !.targets = cancelled, !.plan = plan]
<1>1. task' = [u \in Tasks |->
            CASE u = t /\ busy -> NoTask
              [] u = t /\ ~busy -> waiting
              [] u # t -> [task[u] EXCEPT !.cancel = @ \/ u \in cancelled]]
  BY DEF CancelTargets
<1> HIDE DEF cancelled, busy, plan
<1>2. task[t] \in TaskRecords
  BY DEF Typed, TasksTyped
<1>3. /\ waiting.pc = "waitTargets" /\ waiting.lease = task[t].lease
      /\ waiting.id = task[t].id /\ waiting.gen = task[t].gen
  BY <1>2 DEF TaskRecords
<1> HIDE DEF waiting
<1>4. task'[t] = NoTask \/ task'[t] = waiting
  BY <1>1
<1> QED
  BY <1>3, <1>4

LEMMA TaskStepHandles ==
    ASSUME Typed, OneOwner, HandlesOwned, NEW t \in Tasks, TaskStep(t)
    PROVE  OneOwner' /\ HandlesOwned'
<1> DEFINE me == task[t]
<1>1. task \in [Tasks -> TaskRecords] /\ me \in TaskRecords
  BY DEF Typed, TasksTyped
<1>2. \A u \in Tasks \ {t} : SameOwner(u)
  BY OthersKept
<1>3. open \ {} = open
  OBVIOUS
<1>4. \A r : Finish(t, r) => task'[t].pc = "finished"
  BY Finished
<1>5. CASE Acquire(t) \/ Operate(t) \/ Observe(t) \/ Completed(t) \/ CancelTargets(t)
  <2>1. UNCHANGED <<sessions, open>>
    BY <1>5 DEF Acquire, Operate, Observe, Completed, CancelTargets, cacheVars
  <2>2. me.pc \in {"acquire", "operate", "observe", "finished", "captured"}
    BY <1>5 DEF Acquire, Operate, Observe, Completed, CancelTargets
  <2>3. Held(t) = {}
    BY <2>2 DEF Held
  <2>4. task'[t].pc \notin {"connecting", "install", "displacing"}
    <3>1. CASE Acquire(t) \/ Operate(t) \/ Observe(t)
      BY <1>1, <1>4, <3>1 DEF Acquire, Operate, Observe, TaskRecords
    <3>2. CASE Completed(t)
      BY <3>2 DEF Completed, NoTask
    <3>3. CASE CancelTargets(t)
      BY <3>3, ControlWaits DEF NoTask
    <3> QED
      BY <1>5, <3>1, <3>2, <3>3
  <2> QED
    BY <1>2, <1>3, <2>1, <2>3, <2>4, ReleasingKeepsOwners
<1>6. CASE CloseDisplaced(t)
  <2>1. me.pc = "displacing" /\ open' = open \ {me.old} /\ UNCHANGED sessions
    BY <1>6 DEF CloseDisplaced, cacheVars
  <2>2. Held(t) = {me.old}
    BY <2>1 DEF Held
  <2>3. task'[t].pc = "operate"
    BY <1>1, <1>6 DEF CloseDisplaced, TaskRecords
  <2> QED
    BY <1>2, <2>1, <2>2, <2>3, ReleasingKeepsOwners
<1>7. CASE Interrupt(t)
  <2>1. UNCHANGED sessions
    BY <1>7 DEF Interrupt, cacheVars
  <2>2. open' = open \ Held(t)
    BY <1>3, <1>7 DEF Interrupt, Held
  <2>3. task'[t].pc \in {"finished", "evict"}
    BY <1>1, <1>4, <1>7 DEF Interrupt, TaskRecords
  <2> QED
    BY <1>2, <2>1, <2>2, <2>3, ReleasingKeepsOwners
<1>8. CASE EvictLease(t) \/ Disconnect(t) \/ Reconnect(t)
  <2>1. me.pc \in {"evict", "waitTargets"} /\ task'[t].pc \in {"finished", "acquire"}
    BY <1>1, <1>4, <1>8 DEF EvictLease, Disconnect, Reconnect, TaskRecords
  <2>2. CASE UNCHANGED <<sessions, open>>
    <3>1. Held(t) = {}
      BY <2>1 DEF Held
    <3> QED
      BY <1>2, <1>3, <2>1, <2>2, <3>1, ReleasingKeepsOwners
  <2>3. ASSUME NEW identities, EvictExact(identities)
        PROVE  OneOwner' /\ HandlesOwned'
    <3>1. \A u \in Tasks : SameOwner(u) \/ (GivesUp(u, {}) /\ task[u].pc \notin {"install", "displacing"})
      BY <1>2, <2>1 DEF GivesUp
    <3> QED
      BY <2>3, <3>1, EvictingKeepsOwners
  <2> QED
    BY <1>8, <2>2, <2>3 DEF EvictLease, Disconnect, Reconnect
<1> QED
  BY <1>5, <1>6, <1>7, <1>8, OpeningKeepsOwners, InstallKeepsOwners DEF TaskStep

\* What is done to the tasks and to the cache outside the tasks.
LEMMA OtherStepHandles ==
    ASSUME Typed, OneOwner, HandlesOwned, [Next]_vars, \A t \in Tasks : ~TaskStep(t)
    PROVE  OneOwner' /\ HandlesOwned'
<1>1. task \in [Tasks -> TaskRecords] /\ sessions \in [Ids -> Sessions]
  BY DEF Typed, TasksTyped, CacheTyped
<1>2. CASE UNCHANGED <<sessions, open, task>>
  <2>1. CacheOwns' /\ OpeningOwns' /\ DisplacingOwns'
    BY <1>2 DEF OneOwner, CacheOwns, OpeningOwns, DisplacingOwns, Opening, Displacing
  <2>2. HandlesOwned'
    BY <1>2 DEF HandlesOwned, Cached, Arrived, Leaving
  <2> QED
    BY <2>1, <2>2 DEF OneOwner
<1>3. ASSUME NEW t \in Tasks, NEW id \in Ids,
             StartWork(t, id) \/ \E kind \in {"disconnect", "reconnect"} : Capture(t, kind, id)
      PROVE  OneOwner' /\ HandlesOwned'
  <2>1. /\ task[t].pc = "idle" /\ UNCHANGED <<sessions, open>>
        /\ \A u \in Tasks \ {t} : task'[u] = task[u]
    BY <1>1, <1>3 DEF StartWork, Capture, cacheVars, Registered
  <2>2. task'[t].pc \in {"acquire", "captured"}
    <3>1. CASE StartWork(t, id)
      <4>1. task'[t] = [NoTask EXCEPT !.pc = "acquire", !.id = id, !.gen = known[id]]
        BY <1>1, <3>1 DEF StartWork
      <4> QED
        BY <4>1 DEF NoTask
    <3>2. ASSUME NEW kind, Capture(t, kind, id) PROVE task'[t].pc = "captured"
      <4>1. PICK captured : task'[t] = [NoTask EXCEPT !.pc = "captured", !.kind = kind, !.id = id,
                                                     !.gen = known[id], !.captured = captured]
        BY <1>1, <3>2 DEF Capture
      <4> QED
        BY <4>1 DEF NoTask
    <3> QED
      BY <1>3, <3>1, <3>2
  <2>3. Held(t) = {} /\ open \ {} = open
    BY <2>1 DEF Held
  <2>4. \A u \in Tasks \ {t} : SameOwner(u)
    BY <2>1 DEF SameOwner
  <2> QED
    BY <2>1, <2>2, <2>3, <2>4, ReleasingKeepsOwners
<1>4. CASE Complete
  <2>1. UNCHANGED <<sessions, open>>
    BY <1>4 DEF Complete, cacheVars
  <2>2. \A u \in Tasks : task'[u] = task[u] \/ task'[u] = [task[u] EXCEPT !.cancel = TRUE]
    BY <1>4 DEF Complete
  <2>3. \A u \in Tasks : SameOwner(u)
    <3> TAKE u \in Tasks
    <3>1. task[u] \in TaskRecords
      BY <1>1
    <3>2. task'[u] = task[u] \/ task'[u] = [task[u] EXCEPT !.cancel = TRUE]
      BY <2>2
    <3> QED
      BY <3>1, <3>2 DEF SameOwner, TaskRecords
  <2>4. \A i \in Ids : CacheKeeps(i, {}) \/ CacheGivesUp(i, {})
    BY <2>1 DEF CacheKeeps, CacheGivesUp, OneOwner, CacheOwns
  <2>5. \A u \in Tasks : Keeps(u, {})
    BY <2>3 DEF Keeps
  <2>6. open' = open \ {}
    BY <2>1
  <2> QED
    BY <2>4, <2>5, <2>6, ClosingKeepsOwners
<1>5. CASE Resolve \/ EvictTargets
  <2>1. UNCHANGED task
    BY <1>5 DEF Resolve, EvictTargets
  <2>2. \A u \in Tasks : SameOwner(u)
    BY <2>1 DEF SameOwner
  <2>3. ASSUME NEW identities, EvictExact(identities)
        PROVE  OneOwner' /\ HandlesOwned'
    BY <2>2, <2>3, EvictingKeepsOwners
  <2>4. CASE /\ fence # NoFence /\ sessions[job.id] = fence.previous /\ UNCHANGED open
             /\ sessions' = [sessions EXCEPT ![job.id].pgen = fence.pgen]
    <3>1. job.id \in Ids /\ sessions[job.id] # NoSession
      BY <2>4 DEF Typed, JobTyped, PlanTyped
    <3>2. /\ sessions'[job.id].sgen = sessions[job.id].sgen
          /\ \A i \in Ids \ {job.id} : sessions'[i] = sessions[i]
      BY <1>1, <2>4, <3>1 DEF Sessions
    <3>3. sessions[job.id].sgen # 0 /\ NoSession.sgen = 0
      BY <3>1 DEF OneOwner, CacheOwns, NoSession
    <3>5. \A i \in Ids : CacheKeeps(i, {}) \/ CacheGivesUp(i, {})
      BY <3>1, <3>2, <3>3 DEF CacheKeeps, CacheGivesUp, OneOwner, CacheOwns
    <3>6. \A u \in Tasks : Keeps(u, {})
      BY <2>2 DEF Keeps
    <3>7. open' = open \ {}
      BY <2>4
    <3> QED
      BY <3>5, <3>6, <3>7, ClosingKeepsOwners
  <2>5. CASE UNCHANGED <<sessions, open>>
    BY <1>2, <2>1, <2>5
  <2>6. CASE Resolve
    <3>1. \/ UNCHANGED <<sessions, open>>
          \/ /\ fence # NoFence /\ sessions[job.id] = fence.previous /\ UNCHANGED open
             /\ sessions' = [sessions EXCEPT ![job.id].pgen = fence.pgen]
          \/ EvictExact({<<job.id, fence.previous.pgen, fence.previous.sgen>>})
      BY <2>6 DEF Resolve
    <3> QED
      BY <2>3, <2>4, <2>5, <3>1
  <2>7. CASE EvictTargets
    BY <2>3, <2>7 DEF EvictTargets
  <2> QED
    BY <1>5, <2>6, <2>7
<1>6. CASE Shutdown
  <2>1. /\ UNCHANGED task /\ sessions' = [i \in Ids |-> NoSession]
        /\ open' = open \ {sessions[i].sgen : i \in Ids}
        /\ \A u \in Tasks : task[u].pc = "idle"
    BY <1>6 DEF Shutdown, Registered
  <2> DEFINE closed == {sessions[i].sgen : i \in Ids}
  <2>2. \A i \in Ids : CacheGivesUp(i, closed)
    BY <2>1 DEF CacheGivesUp
  <2>3. \A u \in Tasks : Keeps(u, closed)
    BY <2>1 DEF Keeps, SameOwner
  <2> QED
    BY <2>1, <2>2, <2>3, ClosingKeepsOwners
<1>7. CASE \/ UNCHANGED vars \/ EditDisk \/ Reload
           \/ \E id \in Ids : StoreSecret(id) \/ Begin("Delete", id, NoProfile, "Clear")
           \/ \E id \in Ids, kind \in {"Create", "Update"}, p \in Profiles, update \in SecretUpdates :
                Begin(kind, id, p, update)
           \/ Write \/ FenceAll \/ Snapshot \/ Publish \/ ClearSecrets
  <2>1. UNCHANGED <<sessions, open, task>>
    BY <1>7 DEF vars, cacheVars, EditDisk, Reload, StoreSecret, Begin, Write, FenceAll, Snapshot,
                Publish, ClearSecrets
  <2> QED
    BY <1>2, <2>1
<1> QED
  BY <1>3, <1>4, <1>5, <1>6, <1>7 DEF Next, MutationStep

LEMMA AtRestStep == AtRest /\ [Next]_vars => AtRest'
<1> SUFFICES ASSUME AtRest, [Next]_vars, down' PROVE AtRest'
  BY DEF AtRest
<1>1. CASE UNCHANGED vars
  BY <1>1 DEF AtRest, vars, mutationVars, cacheVars, bounds
<1>2. CASE Shutdown
  BY <1>2 DEF Shutdown, AtRest, mutationVars, Registered
<1>3. CASE Next /\ ~Shutdown
  <2>1. down' = down
    <3>1. ASSUME NEW t \in Tasks, TaskStep(t) PROVE down' = down
      BY <3>1 DEF TaskStep, Acquire, Credential, Connect, Install, CloseDisplaced, Operate, Observe,
                  EvictLease, Completed, Interrupt, CancelTargets, Disconnect, Reconnect, TaskFrame, bounds
    <3>2. ASSUME NEW t \in Tasks, NEW id \in Ids,
                 StartWork(t, id) \/ \E kind \in {"disconnect", "reconnect"} : Capture(t, kind, id)
          PROVE  down' = down
      BY <3>2 DEF StartWork, Capture
    <3>3. ASSUME NEW id \in Ids, StoreSecret(id) PROVE down' = down
      BY <3>3 DEF StoreSecret
    <3>4. ASSUME NEW kind, NEW id, NEW p, NEW update, Begin(kind, id, p, update) PROVE down' = down
      BY <3>4 DEF Begin
    <3>5. CASE Reload \/ EditDisk
      BY <3>5 DEF Reload, EditDisk
    <3>6. CASE MutationStep
      BY <3>6 DEF MutationStep, Write, FenceAll, Snapshot, Publish, Complete, Resolve, EvictTargets,
                  ClearSecrets, MutationFrame
    <3> QED
      BY <1>3, <3>1, <3>2, <3>3, <3>4, <3>5, <3>6 DEF Next
  <2>2. mpc = "idle" /\ \A t \in Tasks : task[t].pc = "idle"
    BY <2>1 DEF AtRest
  <2>3. \A t \in Tasks : ~TaskStep(t)
    BY ZenonT(60), <2>2 DEF TaskStep, Acquire, Credential, Connect, Install, CloseDisplaced, Operate, Observe,
                EvictLease, Completed, Interrupt, CancelTargets, Disconnect, Reconnect
  <2>4. ~MutationStep /\ ~EditDisk
    BY <2>1, <2>2 DEF MutationStep, Write, FenceAll, Snapshot, Publish, Complete, Resolve, EvictTargets,
                      ClearSecrets, EditDisk
  <2>5. ~ControllerFree
    BY <2>1 DEF ControllerFree
  <2>6. ~Reload /\ \A id \in Ids : ~StoreSecret(id) /\ \A kind, p, update : ~Begin(kind, id, p, update)
    BY ZenonT(60), <2>5 DEF Reload, StoreSecret, Begin
  <2>7. \A t \in Tasks, id \in Ids : ~StartWork(t, id) /\ \A kind : ~Capture(t, kind, id)
    BY <2>5 DEF StartWork, Capture
  <2> QED
    BY <1>3, <2>3, <2>4, <2>6, <2>7 DEF Next
<1> QED
  BY <1>1, <1>2, <1>3

LEMMA HandlesInit == Init => HandleInv
<1> SUFFICES ASSUME Init PROVE HandleInv
  OBVIOUS
<1>1. /\ sessions = [i \in Ids |-> NoSession] /\ task = [t \in Tasks |-> NoTask]
      /\ open = {} /\ down = FALSE
  BY DEF Init
<1>2. \A t \in Tasks : task[t].pc = "idle"
  BY <1>1 DEF NoTask
<1>3. OneOwner
  BY <1>1, <1>2 DEF OneOwner, CacheOwns, OpeningOwns, DisplacingOwns, Opening, Displacing
<1>4. HandlesOwned
  BY <1>1, <1>2 DEF HandlesOwned, Cached, Arrived, Leaving
<1>5. AtRest
  BY <1>1 DEF AtRest
<1> QED
  BY <1>3, <1>4, <1>5 DEF HandleInv

LEMMA HandlesStep == Typed /\ HandleInv /\ [Next]_vars => HandleInv'
<1> SUFFICES ASSUME Typed, HandleInv, [Next]_vars PROVE HandleInv'
  OBVIOUS
<1>1. OneOwner' /\ HandlesOwned'
  BY TaskStepHandles, OtherStepHandles DEF HandleInv
<1> QED
  BY <1>1, AtRestStep DEF HandleInv

LEMMA TypedIsTypeOK == Typed /\ HandleInv => TypeOK
<1> SUFFICES ASSUME Typed, HandleInv PROVE TypeOK
  OBVIOUS
<1>1. nextGen \in Nat \ {0} /\ nextSession \in Nat \ {0} /\ nextSecret \in Nat \ {0}
  BY DEF Typed, GenInv, GenerationsBelowNext, Counters
<1>2. /\ gens \in [Ids -> 0..(nextGen - 1)] /\ tombs \in [Ids -> 0..(nextGen - 1)]
      /\ known \in [Ids -> 0..(nextGen - 1)]
  BY <1>1 DEF Typed, GenInv, GenerationsBelowNext, KnownTyped
<1>3. sessions \in [Ids -> Sessions] /\ snap \in [Ids -> Sessions]
  BY DEF Typed, CacheTyped
<1>4. task \in [Tasks -> TaskRecords] /\ \A t \in Tasks : WellFormed(t, task[t])
  BY DEF Typed, TasksTyped
<1>5. open \subseteq 1..(nextSession - 1)
  <2>1. Cached \subseteq 1..(nextSession - 1)
    BY <1>1, <1>3 DEF Cached, Sessions, HandleInv, OneOwner, CacheOwns
  <2>2. Arrived \subseteq 1..(nextSession - 1)
    BY <1>1, <1>4 DEF Arrived, TaskRecords, Sessions, HandleInv, OneOwner, OpeningOwns, Opening
  <2>3. Leaving \subseteq 1..(nextSession - 1)
    BY <1>1, <1>4 DEF Leaving, TaskRecords, HandleInv, OneOwner, DisplacingOwns, Displacing
  <2> QED
    BY <2>1, <2>2, <2>3 DEF HandleInv, HandlesOwned
<1>6. \A t \in Tasks :
         /\ task[t].pc \in TaskSteps /\ task[t].lease \in Sessions
         /\ task[t].gen < nextGen /\ task[t].targets \subseteq Tasks \ {t}
  BY <1>1, <1>4 DEF TaskRecords, WellFormed
<1>7. /\ profiles \in Configs /\ disk \in Configs \cup {Unreadable} /\ loaded \in Configs
      /\ uncertain \in BOOLEAN /\ hadActive \in BOOLEAN /\ down \in BOOLEAN
      /\ secrets \in [Ids -> 0..(nextSecret - 1)] /\ revoked \subseteq 0..(nextSecret - 1)
      /\ mpc \in MutationSteps /\ waiters \subseteq Tasks
      /\ mutations <= MaxMutations /\ starts <= MaxTasks /\ edits <= MaxEdits
  BY DEF Typed, ConfigTyped, FlagsTyped, SecretsTyped, Counted
<1> QED
  BY <1>1, <1>2, <1>3, <1>5, <1>6, <1>7 DEF TypeOK

\* Every open connection is in the cache, in the hands of the task that opened it,
\* or in those of the task that displaced it: no cancellation, deadline, stale
\* install, eviction or retag leaks one, and shutdown_runtime leaves none
\* (install, take_cached_session_exact, evict_session_lease, src/service.rs).
THEOREM HandlesAreAccounted == Spec => []HandlesAccounted
<1>1. Init => Typed /\ HandleInv
  BY TypedInit, HandlesInit
<1>2. Typed /\ HandleInv /\ [Next]_vars => (Typed /\ HandleInv)'
  BY TypedStep, HandlesStep
<1>3. Typed /\ HandleInv => HandlesAccounted
  <2> SUFFICES ASSUME Typed, HandleInv PROVE HandlesAccounted
    OBVIOUS
  <2>1. TypeOK
    BY TypedIsTypeOK
  <2>2. open = Cached \cup Arrived \cup Leaving
    BY DEF HandleInv, HandlesOwned
  <2>3. down => open = {}
    <3> SUFFICES ASSUME down PROVE open = {}
      OBVIOUS
    <3>1. (\A t \in Tasks : task[t].pc = "idle") /\ \A i \in Ids : sessions[i] = NoSession
      BY DEF HandleInv, AtRest
    <3> QED
      BY <2>2, <3>1 DEF Cached, Arrived, Leaving
  <2> QED
    BY <2>1, <2>2, <2>3 DEF HandlesAccounted, Cached, Arrived, Leaving
<1> QED
  BY <1>1, <1>2, <1>3, PTL DEF Spec

-----------------------------------------------------------------------------
(* A session tagged with a profile's generation belongs to the profile as  *)
(* it is published.                                                        *)

\* The lease of a task, and the profile a deferred session may be retagged for.
LeaseMatches ==
    \A t \in Tasks :
        task[t].pc # "idle" /\ task[t].lease.pgen # 0 /\ task[t].lease.pgen = gens[task[t].id] =>
            task[t].lease.fp = Fingerprint(profiles[task[t].id])
FenceMatches == fence # NoFence => fence.fp = Fingerprint(profiles[job.id])

MatchInv == CurrentSessionMatchesProfile /\ LeaseMatches /\ FenceMatches

\* A mutation that changes a profile gives it a generation nothing has yet.
LEMMA Renumbered ==
    ASSUME GenInv, FenceAll \/ Publish, NEW i \in Ids
    PROVE  \/ gens'[i] = 0
           \/ gens'[i] \in Nat /\ gens'[i] >= nextGen
           \/ gens'[i] = gens[i] /\ profiles'[i] = profiles[i]
<1>1. PICK renewed \in SUBSET Ids, removed \in SUBSET Ids :
         /\ \A j \in renewed : gens'[j] = Fresh(renewed \cup removed, j)
         /\ \A j \in Ids \ renewed :
              gens'[j] = 0 \/ (gens'[j] = gens[j] /\ profiles'[j] = profiles[j] /\ j \notin removed)
  BY RenewingSteps
<1>2. renewed \cup removed \in SUBSET Ids /\ GenerationsBelowNext
  BY DEF GenInv
<1> DEFINE all == renewed \cup removed
<1>3. \A j \in all : Fresh(all, j) \in Nat /\ Fresh(all, j) >= nextGen
  BY <1>2, FreshIsNew
<1>4. \A j \in renewed : gens'[j] \in Nat /\ gens'[j] >= nextGen
  BY <1>1, <1>3
<1> QED
  BY <1>1, <1>4

\* So what matched before it matches after it.
LEMMA RenumberingMatches ==
    ASSUME Typed, MatchInv, [Next]_vars, FenceAll \/ Publish
    PROVE  MatchInv'
<1>1. UNCHANGED <<sessions, task, job>>
  BY DEF FenceAll, Publish, cacheVars
<1>2. nextGen \in Nat \ {0}
  BY DEF Typed, GenInv, GenerationsBelowNext
<1>3. \A i \in Ids : \/ gens'[i] = 0
                     \/ gens'[i] \in Nat /\ gens'[i] >= nextGen
                     \/ gens'[i] = gens[i] /\ profiles'[i] = profiles[i]
  BY Renumbered DEF Typed
<1>4. CurrentSessionMatchesProfile'
  <2> SUFFICES ASSUME NEW i \in Ids, gens'[i] # 0, sessions[i].pgen = gens'[i]
               PROVE  sessions[i].fp = Fingerprint(profiles'[i])
    BY <1>1 DEF CurrentSessionMatchesProfile
  <2>1. sessions[i].pgen \in 0..(nextGen - 1)
    BY DEF Typed, CacheTyped, Sessions
  <2>2. gens'[i] = gens[i] /\ profiles'[i] = profiles[i]
    BY <1>2, <1>3, <2>1
  <2> QED
    BY <2>2 DEF MatchInv, CurrentSessionMatchesProfile
<1>5. LeaseMatches'
  <2> SUFFICES ASSUME NEW t \in Tasks, task[t].pc # "idle", task[t].lease.pgen # 0,
                      task[t].lease.pgen = gens'[task[t].id]
               PROVE  task[t].lease.fp = Fingerprint(profiles'[task[t].id])
    BY <1>1 DEF LeaseMatches
  <2>1. task[t].lease.pgen \in 0..(nextGen - 1) /\ task[t].id \in Ids
    BY DEF Typed, TasksTyped, TaskRecords, Sessions, WellFormed
  <2>2. gens'[task[t].id] = gens[task[t].id] /\ profiles'[task[t].id] = profiles[task[t].id]
    BY <1>2, <1>3, <2>1
  <2> QED
    BY <2>2 DEF MatchInv, LeaseMatches
<1>6. FenceMatches'
  <2>1. CASE FenceAll
    BY <2>1 DEF FenceAll, FenceMatches
  <2>2. CASE Publish
    BY <1>1, <2>2 DEF Publish, FenceMatches, NoFence
  <2> QED
    BY <2>1, <2>2
<1> QED
  BY <1>4, <1>5, <1>6 DEF MatchInv

LEMMA TaskStepMatches ==
    ASSUME Typed, MatchInv, [Next]_vars, NEW t \in Tasks, TaskStep(t)
    PROVE  MatchInv'
<1> DEFINE me == task[t]
           id == me.id
<1>1. task \in [Tasks -> TaskRecords] /\ me \in TaskRecords /\ WellFormed(t, me)
  BY DEF Typed, TasksTyped
<1>2. sessions \in [Ids -> Sessions]
  BY DEF Typed, CacheTyped
<1>3. UNCHANGED <<profiles, gens, fence, job>>
  BY DEF TaskStep, Acquire, Credential, Connect, Install, CloseDisplaced, Operate, Observe, EvictLease,
         Completed, Interrupt, CancelTargets, Disconnect, Reconnect, TaskFrame, observedVars, mutationVars
<1>4. FenceMatches'
  BY <1>3 DEF MatchInv, FenceMatches
<1>5. \A u \in Tasks \ {t} : SameOwner(u)
  BY OthersKept
<1>6. NoSession.pgen = 0
  BY DEF NoSession
<1>7. CurrentSessionMatchesProfile'
  <2>1. CASE UNCHANGED sessions
    BY <1>3, <2>1 DEF MatchInv, CurrentSessionMatchesProfile
  <2>2. ASSUME NEW identities, EvictExact(identities) PROVE CurrentSessionMatchesProfile'
    <3>1. \A i \in Ids : sessions'[i] = sessions[i] \/ sessions'[i] = NoSession
      BY <2>2 DEF EvictExact
    <3> QED
      BY <1>3, <1>6, <3>1 DEF MatchInv, CurrentSessionMatchesProfile
  <2>3. CASE Install(t)
    <3>1. id \in Ids
      BY <1>1, <2>3 DEF Install, WellFormed
    <3>2. \/ UNCHANGED sessions
          \/ sessions' = [sessions EXCEPT ![id] = me.lease] /\ Fingerprint(profiles[id]) = me.lease.fp
      BY <2>3 DEF Install
    <3> QED
      BY <1>2, <1>3, <2>1, <3>1, <3>2 DEF MatchInv, CurrentSessionMatchesProfile
  <2> QED
    BY <2>1, <2>2, <2>3
       DEF TaskStep, Acquire, Credential, Connect, CloseDisplaced, Operate, Observe, EvictLease,
           Completed, Interrupt, CancelTargets, Disconnect, Reconnect, cacheVars
<1>8. \/ task'[t].pc = "idle"
      \/ /\ task'[t].id = id /\ id \in Ids
         /\ \/ me.pc # "idle" /\ task'[t].lease.pgen = me.lease.pgen /\ task'[t].lease.fp = me.lease.fp
            \/ task'[t].lease.fp = Fingerprint(profiles[id])
  <2> USE <1>1
  <2>1. ASSUME NEW r, Finish(t, r), me.pc # "idle"
        PROVE  task'[t].id = id /\ id \in Ids /\ task'[t].lease = me.lease
    BY <2>1, Finished DEF WellFormed
  <2>2. CASE Acquire(t)
    <3>1. me.pc # "idle" /\ id \in Ids
      BY <2>2 DEF Acquire, WellFormed
    <3>2. CASE CacheHit(id, me.gen) /\ task' = [task EXCEPT ![t].pc = "operate", ![t].lease = sessions[id]]
      BY <3>1, <3>2 DEF CacheHit, TaskRecords
    <3>3. CASE task' = [task EXCEPT ![t].pc = "credential",
                         ![t].lease = [NoSession EXCEPT !.pgen = me.gen, !.fp = Fingerprint(profiles[id])]]
      BY <3>1, <3>3 DEF TaskRecords, NoSession
    <3> QED
      BY <2>1, <2>2, <3>1, <3>2, <3>3 DEF Acquire
  <2>3. CASE Credential(t)
    <3>1. me.pc # "idle" /\ id \in Ids
      BY <2>3 DEF Credential, WellFormed
    <3>2. ASSUME NEW secret, task' = [task EXCEPT ![t].pc = "connecting", ![t].lease.sgen = nextSession,
                                                  ![t].lease.secret = secret]
          PROVE  task'[t].id = id /\ task'[t].lease.pgen = me.lease.pgen /\ task'[t].lease.fp = me.lease.fp
      BY <3>2 DEF TaskRecords, Sessions
    <3> QED
      BY <2>1, <2>3, <3>1, <3>2 DEF Credential
  <2>4. CASE Install(t)
    <3>1. me.pc # "idle" /\ id \in Ids
      BY <2>4 DEF Install, WellFormed
    <3>2. CASE /\ CacheHit(id, me.lease.pgen)
               /\ task' = [task EXCEPT ![t].pc = "operate", ![t].lease = sessions[id]]
      BY <3>1, <3>2 DEF CacheHit, TaskRecords
    <3>3. ASSUME NEW pc, NEW old, task' = [task EXCEPT ![t].pc = pc, ![t].old = old]
          PROVE  task'[t].id = id /\ task'[t].lease = me.lease
      BY <3>3 DEF TaskRecords
    <3> QED
      BY <2>1, <2>4, <3>1, <3>2, <3>3 DEF Install
  <2>5. CASE CancelTargets(t)
    <3>1. me.pc # "idle" /\ id \in Ids
      BY <2>5 DEF CancelTargets, WellFormed
    <3> QED
      BY <2>5, <3>1, ControlWaits DEF NoTask
  <2>6. CASE Completed(t)
    BY <2>6 DEF Completed, NoTask
  <2>7. CASE \/ Connect(t) \/ CloseDisplaced(t) \/ Operate(t) \/ Observe(t) \/ EvictLease(t) \/ Interrupt(t)
             \/ Disconnect(t) \/ Reconnect(t)
    <3>1. me.pc # "idle" /\ id \in Ids
      BY <2>7 DEF Connect, CloseDisplaced, Operate, Observe, EvictLease, Interrupt, Disconnect, Reconnect,
                  WellFormed
    <3>2. task'[t].id = id /\ task'[t].lease = me.lease
      BY <2>1, <2>7, <3>1 DEF Connect, CloseDisplaced, Operate, Observe, EvictLease, Interrupt, Disconnect,
                              Reconnect, TaskRecords
    <3> QED
      BY <3>1, <3>2
  <2> QED
    BY <2>2, <2>3, <2>4, <2>5, <2>6, <2>7 DEF TaskStep
<1>9. LeaseMatches'
  <2>1. ASSUME task'[t].pc # "idle", task'[t].lease.pgen # 0, task'[t].lease.pgen = gens[task'[t].id]
        PROVE  task'[t].lease.fp = Fingerprint(profiles[task'[t].id])
    BY <1>8, <2>1 DEF MatchInv, LeaseMatches
  <2>2. ASSUME NEW u \in Tasks \ {t}, task'[u].pc # "idle", task'[u].lease.pgen # 0,
               task'[u].lease.pgen = gens[task'[u].id]
        PROVE  task'[u].lease.fp = Fingerprint(profiles[task'[u].id])
    BY <1>5, <2>2 DEF MatchInv, LeaseMatches, SameOwner
  <2> QED
    BY <1>3, <2>1, <2>2 DEF LeaseMatches
<1> QED
  BY <1>4, <1>7, <1>9 DEF MatchInv

LEMMA OtherStepMatches ==
    ASSUME Typed, MatchInv, [Next]_vars, \A t \in Tasks : ~TaskStep(t), ~FenceAll, ~Publish
    PROVE  MatchInv'
<1>1. UNCHANGED <<profiles, gens>>
  BY SteadySteps DEF Steady
<1>2. task \in [Tasks -> TaskRecords] /\ sessions \in [Ids -> Sessions]
  BY DEF Typed, TasksTyped, CacheTyped
<1>3. NoSession.pgen = 0 /\ NoTask.lease = NoSession
  BY DEF NoSession, NoTask
<1>4. UNCHANGED sessions => CurrentSessionMatchesProfile'
  BY <1>1 DEF MatchInv, CurrentSessionMatchesProfile
<1>5. UNCHANGED task => LeaseMatches'
  BY <1>1 DEF MatchInv, LeaseMatches
<1>6. UNCHANGED <<fence, job>> \/ fence' = NoFence => FenceMatches'
  BY <1>1 DEF MatchInv, FenceMatches
<1>7. ASSUME NEW t \in Tasks, NEW id \in Ids,
             StartWork(t, id) \/ \E kind \in {"disconnect", "reconnect"} : Capture(t, kind, id)
      PROVE  MatchInv'
  <2>1. UNCHANGED <<sessions, fence, job>>
    BY <1>7 DEF StartWork, Capture, cacheVars, mutationVars
  <2>2. task'[t].lease = NoSession /\ \A u \in Tasks \ {t} : task'[u] = task[u]
    <3>1. CASE StartWork(t, id)
      <4> DEFINE r == [NoTask EXCEPT !.pc = "acquire", !.id = id, !.gen = known[id]]
      <4>1. task' = [task EXCEPT ![t] = r] /\ r.lease = NoSession
        BY <1>3, <3>1 DEF StartWork, NoTask
      <4> QED
        BY <1>2, <4>1
    <3>2. ASSUME NEW kind, Capture(t, kind, id)
          PROVE  task'[t].lease = NoSession /\ \A u \in Tasks \ {t} : task'[u] = task[u]
      <4> DEFINE captured == IF sessions[id].pgen = known[id] THEN sessions[id].sgen ELSE 0
                 r == [NoTask EXCEPT !.pc = "captured", !.kind = kind, !.id = id, !.gen = known[id],
                         !.captured = captured]
      <4>1. task' = [task EXCEPT ![t] = r]
        BY <3>2 DEF Capture
      <4> HIDE DEF captured
      <4>2. r.lease = NoSession
        BY <1>3 DEF NoTask
      <4> HIDE DEF r
      <4> QED
        BY <1>2, <4>1, <4>2
    <3> QED
      BY <1>7, <3>1, <3>2
  <2>3. LeaseMatches'
    BY <1>1, <1>3, <2>2 DEF MatchInv, LeaseMatches
  <2> QED
    BY <1>4, <1>6, <2>1, <2>3 DEF MatchInv
<1>8. CASE Complete
  <2>1. UNCHANGED <<sessions, fence, job>>
    BY <1>8 DEF Complete, cacheVars
  <2>2. \A u \in Tasks : task'[u] = task[u] \/ task'[u] = [task[u] EXCEPT !.cancel = TRUE]
    BY <1>8 DEF Complete
  <2>3. ASSUME NEW u \in Tasks
        PROVE  task'[u].pc = task[u].pc /\ task'[u].id = task[u].id /\ task'[u].lease = task[u].lease
    <3>1. task[u] \in TaskRecords
      BY <1>2
    <3>2. task'[u] = task[u] \/ task'[u] = [task[u] EXCEPT !.cancel = TRUE]
      BY <2>2
    <3> QED
      BY <3>1, <3>2 DEF TaskRecords
  <2>4. LeaseMatches'
    BY <1>1, <2>3 DEF MatchInv, LeaseMatches
  <2> QED
    BY <1>4, <1>6, <2>1, <2>4 DEF MatchInv
<1>9. CASE Resolve \/ EvictTargets
  <2>1. UNCHANGED <<task, fence, job>>
    BY <1>9 DEF Resolve, EvictTargets
  <2>2. ASSUME NEW identities, EvictExact(identities) PROVE CurrentSessionMatchesProfile'
    <3>1. \A i \in Ids : sessions'[i] = sessions[i] \/ sessions'[i] = NoSession
      BY <2>2 DEF EvictExact
    <3> QED
      BY <1>1, <1>3, <3>1 DEF MatchInv, CurrentSessionMatchesProfile
  <2>3. CASE /\ fence # NoFence /\ sessions[job.id].fp = fence.fp
             /\ sessions' = [sessions EXCEPT ![job.id].pgen = fence.pgen]
    <3>1. job.id \in Ids
      BY <2>3 DEF Typed, JobTyped, PlanTyped
    <3>2. sessions'[job.id].fp = sessions[job.id].fp /\ \A i \in Ids \ {job.id} : sessions'[i] = sessions[i]
      BY <1>2, <2>3, <3>1 DEF Sessions
    <3>3. sessions'[job.id].fp = Fingerprint(profiles[job.id])
      BY <2>3, <3>2 DEF MatchInv, FenceMatches
    <3>4. CurrentSessionMatchesProfile'
      BY <1>1, <3>2, <3>3 DEF MatchInv, CurrentSessionMatchesProfile
    <3> QED
      BY <1>5, <1>6, <2>1, <3>4 DEF MatchInv
  <2>4. CASE Resolve
    <3>1. \/ UNCHANGED sessions
          \/ /\ fence # NoFence /\ sessions[job.id].fp = fence.fp
             /\ sessions' = [sessions EXCEPT ![job.id].pgen = fence.pgen]
          \/ EvictExact({<<job.id, fence.previous.pgen, fence.previous.sgen>>})
      BY <2>4 DEF Resolve
    <3> QED
      BY <1>4, <1>5, <1>6, <2>1, <2>2, <2>3, <3>1 DEF MatchInv
  <2>5. CASE EvictTargets
    BY <1>5, <1>6, <2>1, <2>2, <2>5 DEF EvictTargets, MatchInv
  <2> QED
    BY <1>9, <2>4, <2>5
<1>10. CASE Shutdown
  <2>1. UNCHANGED <<task, fence, job>> /\ sessions' = [i \in Ids |-> NoSession]
    BY <1>10 DEF Shutdown, mutationVars
  <2>2. CurrentSessionMatchesProfile'
    BY <1>1, <1>3, <2>1 DEF CurrentSessionMatchesProfile
  <2> QED
    BY <1>5, <1>6, <2>1, <2>2 DEF MatchInv
<1>11. CASE \/ UNCHANGED vars \/ EditDisk \/ Reload
            \/ \E id \in Ids : StoreSecret(id) \/ Begin("Delete", id, NoProfile, "Clear")
            \/ \E id \in Ids, kind \in {"Create", "Update"}, p \in Profiles, update \in SecretUpdates :
                 Begin(kind, id, p, update)
            \/ Write \/ Snapshot \/ ClearSecrets
  <2>1. UNCHANGED <<sessions, task>>
    BY <1>11 DEF vars, cacheVars, EditDisk, Reload, StoreSecret, Begin, Write, Snapshot, ClearSecrets
  <2>2. UNCHANGED <<fence, job>> \/ fence' = NoFence
    <3>1. mpc \in {"idle", "write"} => fence = NoFence
      BY DEF Typed, PlanTyped, Unpublished
    <3> QED
      BY <1>11, <3>1 DEF vars, mutationVars, EditDisk, Reload, StoreSecret, Begin, Write, Snapshot, ClearSecrets
  <2> QED
    BY <1>4, <1>5, <1>6, <2>1, <2>2 DEF MatchInv
<1> QED
  BY <1>7, <1>8, <1>9, <1>10, <1>11 DEF Next, MutationStep

LEMMA MatchesInit == Init => MatchInv
<1> SUFFICES ASSUME Init PROVE MatchInv
  OBVIOUS
<1>1. /\ sessions = [i \in Ids |-> NoSession] /\ task = [t \in Tasks |-> NoTask] /\ fence = NoFence
  BY DEF Init
<1>2. NoSession.pgen = 0 /\ NoTask.pc = "idle"
  BY DEF NoSession, NoTask
<1> QED
  BY <1>1, <1>2 DEF MatchInv, CurrentSessionMatchesProfile, LeaseMatches, FenceMatches

LEMMA MatchesStep == Typed /\ MatchInv /\ [Next]_vars => MatchInv'
BY RenumberingMatches, TaskStepMatches, OtherStepMatches

\* A cached session tagged with the current generation of its profile, opened
\* with it or retagged to it, was opened with the connection fields that are
\* published now (session_for, resolve_deferred_session).
THEOREM CurrentSessionsMatch == Spec => []CurrentSessionMatchesProfile
<1>1. Init => Typed /\ MatchInv
  BY TypedInit, MatchesInit
<1>2. Typed /\ MatchInv /\ [Next]_vars => (Typed /\ MatchInv)'
  BY TypedStep, MatchesStep
<1>3. MatchInv => CurrentSessionMatchesProfile
  BY DEF MatchInv
<1> QED
  BY <1>1, <1>2, <1>3, PTL DEF Spec

\* An answer is given as successful only while the generation it was computed
\* with is current, the configuration certain, and the connection one of the
\* profile as it is published (observe_session).
THEOREM ReadyAnswersAreCurrent == Spec => ReadyIsCurrent
<1> DEFINE Ready == \A t \in Tasks :
             task[t].pc = "observe" /\ task'[t].pc = "finished" /\ task'[t].result = "ok" =>
                /\ Current(task[t].id, task[t].lease.pgen)
                /\ task[t].lease.fp = Fingerprint(profiles[task[t].id])
<1>1. Init => Typed /\ MatchInv
  BY TypedInit, MatchesInit
<1>2. Typed /\ MatchInv /\ [Next]_vars => (Typed /\ MatchInv)'
  BY TypedStep, MatchesStep
<1>3. Typed /\ MatchInv /\ [Next]_vars => [Ready]_vars
  <2> SUFFICES ASSUME Typed, MatchInv, Next, NEW t \in Tasks,
                      task[t].pc = "observe", task'[t].pc = "finished", task'[t].result = "ok"
               PROVE  /\ Current(task[t].id, task[t].lease.pgen)
                      /\ task[t].lease.fp = Fingerprint(profiles[task[t].id])
    OBVIOUS
  <2>1. task \in [Tasks -> TaskRecords] /\ task[t] \in TaskRecords /\ WellFormed(t, task[t])
    BY DEF Typed, TasksTyped
  <2>2. TaskStep(t)
    <3>1. ASSUME NEW u \in Tasks \ {t}, TaskStep(u) PROVE FALSE
      <4>1. SameOwner(t)
        BY <3>1, OthersKept
      <4> QED
        BY <4>1 DEF SameOwner
    <3>2. ASSUME NEW u \in Tasks, NEW id \in Ids,
                 StartWork(u, id) \/ \E kind \in {"disconnect", "reconnect"} : Capture(u, kind, id)
          PROVE  FALSE
      <4>1. u # t
        BY <3>2 DEF StartWork, Capture, Registered
      <4>2. task'[t] = task[t]
        BY <2>1, <3>2, <4>1 DEF StartWork, Capture
      <4> QED
        BY <4>2
    <3>3. ASSUME Complete PROVE FALSE
      <4>1. task'[t] = task[t] \/ task'[t] = [task[t] EXCEPT !.cancel = TRUE]
        BY <3>3 DEF Complete
      <4> QED
        BY <2>1, <4>1 DEF TaskRecords
    <3>4. ASSUME \/ EditDisk \/ Reload \/ Shutdown
                 \/ \E id \in Ids : StoreSecret(id) \/ Begin("Delete", id, NoProfile, "Clear")
                 \/ \E id \in Ids, kind \in {"Create", "Update"}, p \in Profiles, update \in SecretUpdates :
                      Begin(kind, id, p, update)
                 \/ Write \/ FenceAll \/ Snapshot \/ Publish \/ Resolve \/ EvictTargets \/ ClearSecrets
          PROVE  FALSE
      BY <3>4 DEF EditDisk, Reload, Shutdown, StoreSecret, Begin, Write, FenceAll, Snapshot, Publish,
                  Resolve, EvictTargets, ClearSecrets
    <3> QED
      BY <3>1, <3>2, <3>3, <3>4 DEF Next, MutationStep
  <2>3. Observe(t)
    BY <2>2 DEF TaskStep, Acquire, Credential, Connect, Install, CloseDisplaced, Operate, EvictLease,
                Completed, Interrupt, CancelTargets, Disconnect, Reconnect
  <2>4. Current(task[t].id, task[t].lease.pgen)
    BY <2>1, <2>3 DEF Observe, TaskRecords
  <2> QED
    BY <2>1, <2>4 DEF Current, MatchInv, LeaseMatches
<1> QED
  BY <1>1, <1>2, <1>3, PTL DEF Spec, ReadyIsCurrent


-----------------------------------------------------------------------------
(* Work of a fenced generation is joined or refused.                       *)

\* A profile that is published, and no other, has a generation.
PublishedHasGeneration == \A i \in Ids : profiles[i] # NoProfile <=> gens[i] # 0

\* The steps of a task that has no connection and no credential.
Refused == {"captured", "waitTargets", "acquire", "finished"}

\* The generation of a target is over; once the completion is taken, a task of
\* it is one the mutation waits for, or was started since and has nothing.
FenceHolds ==
    /\ \A g \in targets : g.pgen # 0 /\ gens[g.id] # g.pgen
    /\ mpc \in {"resolve", "evict", "secrets"} =>
         \A g \in targets, t \in Tasks : task[t].id = g.id /\ task[t].gen = g.pgen =>
           t \in waiters \/ task[t].pc \in Refused
    /\ mpc \in {"evict", "secrets"} => waiters = {}

FenceInv == PublishedHasGeneration /\ FenceHolds

\* What a step of a task keeps of it.
LEMMA OwnStep ==
    ASSUME Typed, NEW t \in Tasks, TaskStep(t)
    PROVE  /\ task[t].pc # "idle"
           /\ \/ task'[t] = NoTask
              \/ task'[t].pc # "idle" /\ task'[t].id = task[t].id /\ task'[t].gen = task[t].gen
<1> DEFINE me == task[t]
<1>1. task \in [Tasks -> TaskRecords] /\ me \in TaskRecords
  BY DEF Typed, TasksTyped
<1>2. ASSUME NEW r, Finish(t, r)
      PROVE  task'[t].pc # "idle" /\ task'[t].id = me.id /\ task'[t].gen = me.gen
  BY <1>2, Finished
<1>3. me.pc # "idle"
  BY DEF TaskStep, Acquire, Credential, Connect, Install, CloseDisplaced, Operate, Observe, EvictLease,
         Completed, Interrupt, CancelTargets, Disconnect, Reconnect
<1>4. CASE Acquire(t) \/ Connect(t) \/ Install(t) \/ CloseDisplaced(t)
  BY <1>1, <1>2, <1>3, <1>4 DEF Acquire, Connect, Install, CloseDisplaced, TaskRecords
<1>5. CASE Credential(t)
  BY <1>1, <1>2, <1>3, <1>5 DEF Credential, TaskRecords, Sessions
<1>6. CASE Operate(t) \/ Observe(t) \/ EvictLease(t) \/ Interrupt(t) \/ Disconnect(t) \/ Reconnect(t)
  BY <1>1, <1>2, <1>3, <1>6 DEF Operate, Observe, EvictLease, Interrupt, Disconnect, Reconnect, TaskRecords
<1>7. CASE Completed(t)
  BY <1>3, <1>7 DEF Completed
<1>8. CASE CancelTargets(t)
  BY <1>3, <1>8, ControlWaits
<1> QED
  BY <1>4, <1>5, <1>6, <1>7, <1>8 DEF TaskStep

\* A task of an outdated generation is refused: it gets no connection.
LEMMA RefusedStays ==
    ASSUME Typed, NEW t \in Tasks, TaskStep(t), task[t].pc \in Refused, gens[task[t].id] # task[t].gen
    PROVE  task'[t] = NoTask \/ task'[t].pc \in Refused
<1> DEFINE me == task[t]
<1>1. task \in [Tasks -> TaskRecords] /\ me \in TaskRecords
  BY DEF Typed, TasksTyped
<1>2. ASSUME NEW r, Finish(t, r) PROVE task'[t].pc \in Refused
  BY <1>2, Finished DEF Refused
<1>3. CASE Acquire(t)
  BY <1>2, <1>3 DEF Acquire, Current
<1>4. CASE Interrupt(t)
  BY <1>2, <1>4 DEF Interrupt, Refused
<1>5. CASE Completed(t)
  BY <1>5 DEF Completed
<1>6. CASE CancelTargets(t)
  BY <1>6, ControlWaits DEF Refused
<1>7. CASE Disconnect(t)
  BY <1>2, <1>7 DEF Disconnect
<1>8. CASE Reconnect(t)
  BY <1>1, <1>2, <1>8 DEF Reconnect, Refused, TaskRecords
<1> QED
  BY <1>3, <1>4, <1>5, <1>6, <1>7, <1>8
     DEF TaskStep, Refused, Credential, Connect, Install, CloseDisplaced, Operate, Observe, EvictLease

LEMMA FenceInit == Init => FenceInv
<1> SUFFICES ASSUME Init PROVE FenceInv
  OBVIOUS
<1>1. targets = {} /\ mpc = "idle"
  BY DEF Init
<1>2. PublishedHasGeneration
  <2> SUFFICES ASSUME NEW i \in Ids, profiles[i] # NoProfile PROVE gens[i] # 0
    BY DEF Init, PublishedHasGeneration
  <2> DEFINE before == {j \in Ids : j < i /\ InitialProfiles[j] # NoProfile}
  <2>1. gens[i] = 1 + Cardinality(before)
    BY DEF Init
  <2>2. IsFiniteSet(before)
    BY IdsAssumption, FS_Subset
  <2>3. Cardinality(before) \in Nat
    BY <2>2, FS_CardinalityType
  <2> HIDE DEF before
  <2> QED
    BY <2>1, <2>3
<1>3. FenceHolds
  BY <1>1 DEF FenceHolds
<1> QED
  BY <1>2, <1>3 DEF FenceInv

\* The steps of a task, and the start of one.
LEMMA TaskStepFence ==
    ASSUME Typed, FenceInv, NEW t \in Tasks, TaskStep(t)
    PROVE  FenceInv'
<1>1. UNCHANGED <<profiles, gens, targets, mpc>>
  BY DEF TaskStep, Acquire, Credential, Connect, Install, CloseDisplaced, Operate, Observe, EvictLease,
         Completed, Interrupt, CancelTargets, Disconnect, Reconnect, TaskFrame, observedVars, mutationVars
<1>2. waiters' = waiters \/ (waiters' = waiters \ {t} /\ task'[t] = NoTask)
  BY DEF TaskStep, Acquire, Credential, Connect, Install, CloseDisplaced, Operate, Observe, EvictLease,
         Completed, Interrupt, CancelTargets, Disconnect, Reconnect, TaskFrame, mutationVars
<1>3. \A u \in Tasks \ {t} : SameOwner(u)
  BY OthersKept
<1>4. NoTask.gen = 0
  BY DEF NoTask
<1>5. ASSUME NEW g \in targets, NEW u \in Tasks, mpc \in {"resolve", "evict", "secrets"},
             task'[u].id = g.id, task'[u].gen = g.pgen
      PROVE  u \in waiters' \/ task'[u].pc \in Refused
  <2>1. g.pgen # 0 /\ gens[g.id] # g.pgen
    BY DEF FenceInv, FenceHolds
  <2>2. CASE u # t
    BY <1>2, <1>3, <1>5, <2>2 DEF SameOwner, FenceInv, FenceHolds
  <2>3. CASE u = t
    <3>1. task'[t] # NoTask
      BY <1>4, <1>5, <2>1, <2>3
    <3>2. task[t].id = g.id /\ task[t].gen = g.pgen /\ waiters' = waiters
      BY <1>2, <1>5, <2>3, <3>1, OwnStep
    <3>3. t \in waiters \/ task[t].pc \in Refused
      BY <1>5, <3>2 DEF FenceInv, FenceHolds
    <3> QED
      BY <2>1, <2>3, <3>1, <3>2, <3>3, RefusedStays
  <2> QED
    BY <2>2, <2>3
<1>6. mpc \in {"evict", "secrets"} => waiters' = {}
  BY <1>2 DEF FenceInv, FenceHolds
<1> QED
  BY <1>1, <1>5, <1>6 DEF FenceInv, FenceHolds, PublishedHasGeneration

\* A task starts with no connection, of the generation the UI knows.
LEMMA Started ==
    ASSUME Typed, NEW t \in Tasks, NEW id \in Ids,
           StartWork(t, id) \/ \E kind \in {"disconnect", "reconnect"} : Capture(t, kind, id)
    PROVE  /\ task'[t].pc \in {"acquire", "captured"} /\ task'[t].id = id /\ task'[t].gen = known[id]
           /\ task'[t].lease = NoSession
           /\ \A u \in Tasks \ {t} : task'[u] = task[u]
<1>1. task \in [Tasks -> TaskRecords]
  BY DEF Typed, TasksTyped
<1>2. CASE StartWork(t, id)
  <2> DEFINE r == [NoTask EXCEPT !.pc = "acquire", !.id = id, !.gen = known[id]]
  <2>1. task' = [task EXCEPT ![t] = r]
    BY <1>2 DEF StartWork
  <2>2. r.pc = "acquire" /\ r.id = id /\ r.gen = known[id] /\ r.lease = NoSession
    BY DEF NoTask
  <2> HIDE DEF r
  <2> QED
    BY <1>1, <2>1, <2>2
<1>3. ASSUME NEW kind, Capture(t, kind, id)
      PROVE  /\ task'[t].pc = "captured" /\ task'[t].id = id /\ task'[t].gen = known[id]
             /\ task'[t].lease = NoSession /\ \A u \in Tasks \ {t} : task'[u] = task[u]
  <2> DEFINE captured == IF sessions[id].pgen = known[id] THEN sessions[id].sgen ELSE 0
             r == [NoTask EXCEPT !.pc = "captured", !.kind = kind, !.id = id, !.gen = known[id],
                     !.captured = captured]
  <2>1. task' = [task EXCEPT ![t] = r]
    BY <1>3 DEF Capture
  <2> HIDE DEF captured
  <2>2. r.pc = "captured" /\ r.id = id /\ r.gen = known[id] /\ r.lease = NoSession
    BY DEF NoTask
  <2> HIDE DEF r
  <2> QED
    BY <1>1, <2>1, <2>2
<1> QED
  BY <1>2, <1>3

LEMMA StartFence ==
    ASSUME Typed, FenceInv, NEW t \in Tasks, NEW id \in Ids,
           StartWork(t, id) \/ \E kind \in {"disconnect", "reconnect"} : Capture(t, kind, id)
    PROVE  FenceInv'
<1>1. UNCHANGED <<profiles, gens, targets, mpc, waiters>>
  BY DEF StartWork, Capture, observedVars, mutationVars
<1>2. task'[t].pc \in Refused /\ \A u \in Tasks \ {t} : task'[u] = task[u]
  BY Started DEF Refused
<1> QED
  BY <1>1, <1>2 DEF FenceInv, FenceHolds, PublishedHasGeneration

\* The publication: the targets' generations end with it.
LEMMA PublishFence ==
    ASSUME Typed, FenceInv, FenceAll \/ Publish
    PROVE  FenceInv'
<1>1. mpc' = "completed" /\ GenInv /\ GenerationsBelowNext
  BY DEF FenceAll, Publish, Typed, GenInv
<1>2. nextGen \in Nat \ {0} /\ gens \in [Ids -> Nat] /\ \A i \in Ids : gens[i] < nextGen
  BY <1>1 DEF GenerationsBelowNext
<1>3. ASSUME NEW ids \in SUBSET Ids, NEW i \in ids
      PROVE  Fresh(ids, i) \in Nat /\ Fresh(ids, i) # 0 /\ Fresh(ids, i) # gens[i]
  <2>1. Fresh(ids, i) \in Nat /\ Fresh(ids, i) >= nextGen
    BY <1>1, FreshIsNew
  <2> QED
    BY <1>2, <2>1
<1>4. CASE FenceAll
  <2> DEFINE live == {i \in Ids : gens[i] # 0}
  <2>1. /\ gens' = [i \in Ids |-> IF i \in live THEN Fresh(live, i) ELSE 0] /\ profiles' = profiles
        /\ targets' = {[id |-> i, pgen |-> gens[i], session |-> sessions[i], clear |-> TRUE] : i \in live}
    BY <1>4 DEF FenceAll
  <2>2. \A i \in live : gens'[i] # 0 /\ gens'[i] # gens[i] /\ gens[i] # 0
    BY <1>3, <2>1
  <2>3. PublishedHasGeneration'
    <3>1. \A i \in Ids : gens'[i] # 0 <=> gens[i] # 0
      BY <2>1, <2>2
    <3> QED
      BY <2>1, <3>1 DEF FenceInv, PublishedHasGeneration
  <2>4. \A g \in targets' : g.pgen # 0 /\ gens'[g.id] # g.pgen
    BY <2>1, <2>2
  <2> QED
    BY <1>1, <2>3, <2>4 DEF FenceInv, FenceHolds
<1>5. CASE Publish
  <2> DEFINE all == Renewed \cup Removed
  <2>1. /\ gens' = [i \in Ids |-> IF i \in Renewed THEN Fresh(all, i)
                                  ELSE IF loaded[i] = NoProfile THEN 0 ELSE gens[i]]
        /\ profiles' = loaded
        /\ \A g \in targets' : \E i \in Outdated : g.id = i /\ g.pgen = gens[i]
    BY <1>5 DEF Publish
  <2>2. Renewed \in SUBSET Ids /\ all \in SUBSET Ids
    BY DEF Renewed, Removed
  <2>3. \A i \in Renewed : gens'[i] # 0 /\ gens'[i] # gens[i]
    BY <1>3, <2>1, <2>2
  <2>4. \A i \in Ids : loaded[i] # NoProfile /\ i \notin Renewed => loaded[i] = profiles[i]
    BY DEF Renewed
  <2>5. PublishedHasGeneration'
    <3>1. \A i \in Renewed : i \in Ids /\ loaded[i] # NoProfile
      BY DEF Renewed
    <3>2. ASSUME NEW i \in Ids, i \notin Renewed PROVE loaded[i] # NoProfile <=> gens'[i] # 0
      BY <2>1, <2>4, <3>2 DEF FenceInv, PublishedHasGeneration
    <3> QED
      BY <2>1, <2>3, <3>1, <3>2 DEF PublishedHasGeneration
  <2>6. ASSUME NEW i \in Outdated PROVE i \in Ids /\ gens[i] # 0 /\ gens'[i] # gens[i]
    <3>1. i \in Ids /\ profiles[i] # NoProfile /\ (loaded[i] = NoProfile \/ i \in Renewed)
      BY DEF Outdated, Renewed
    <3>2. gens[i] # 0
      BY <3>1 DEF FenceInv, PublishedHasGeneration
    <3>3. CASE i \in Renewed
      BY <2>3, <3>1, <3>2, <3>3
    <3>4. CASE i \notin Renewed
      BY <2>1, <3>1, <3>2, <3>4
    <3> QED
      BY <3>3, <3>4
  <2>7. \A g \in targets' : g.pgen # 0 /\ gens'[g.id] # g.pgen
    BY <2>1, <2>6
  <2> QED
    BY <1>1, <2>5, <2>7 DEF FenceInv, FenceHolds
<1> QED
  BY <1>4, <1>5

LEMMA OtherStepFence ==
    ASSUME Typed, FenceInv, [Next]_vars, \A t \in Tasks : ~TaskStep(t), ~FenceAll, ~Publish
    PROVE  FenceInv'
<1>1. UNCHANGED <<profiles, gens>>
  BY SteadySteps DEF Steady
<1>2. PublishedHasGeneration'
  BY <1>1 DEF FenceInv, PublishedHasGeneration
<1>3. CASE UNCHANGED <<targets, mpc, waiters, task>>
  BY <1>1, <1>2, <1>3 DEF FenceInv, FenceHolds
<1>4. CASE targets' = {} /\ mpc' \notin {"evict", "secrets"}
  BY <1>2, <1>4 DEF FenceInv, FenceHolds
<1>5. CASE Complete
  <2>1. /\ targets' = targets /\ mpc' = "resolve"
        /\ \A t \in Tasks : \A g \in targets :
             task[t].pc # "idle" /\ g.id = task[t].id /\ g.pgen = task[t].gen => t \in waiters'
    BY <1>5 DEF Complete, Registered
  <2>2. ASSUME NEW t \in Tasks PROVE task'[t].id = task[t].id /\ task'[t].gen = task[t].gen
    <3>1. task[t] \in TaskRecords
      BY DEF Typed, TasksTyped
    <3>2. task'[t] = task[t] \/ task'[t] = [task[t] EXCEPT !.cancel = TRUE]
      BY <1>5 DEF Complete
    <3> QED
      BY <3>1, <3>2 DEF TaskRecords
  <2>3. \A t \in Tasks : task[t].pc = "idle" => task[t].gen = 0
    BY DEF Typed, TasksTyped, WellFormed, NoTask
  <2>4. \A g \in targets : g.pgen # 0 /\ gens'[g.id] # g.pgen
    BY <1>1 DEF FenceInv, FenceHolds
  <2> QED
    BY <1>2, <2>1, <2>2, <2>3, <2>4 DEF FenceInv, FenceHolds
<1>6. CASE Resolve \/ EvictTargets
  <2>1. /\ UNCHANGED <<targets, waiters, task>> /\ waiters = {}
        /\ mpc \in {"resolve", "evict"} /\ mpc' \in {"evict", "secrets"}
    BY <1>6 DEF Resolve, EvictTargets, FenceInv, FenceHolds
  <2> QED
    BY <1>1, <1>2, <2>1 DEF FenceInv, FenceHolds
<1>7. ASSUME NEW t \in Tasks, NEW id \in Ids,
             StartWork(t, id) \/ \E kind \in {"disconnect", "reconnect"} : Capture(t, kind, id)
      PROVE  FenceInv'
  BY <1>7, StartFence
<1>8. CASE UNCHANGED vars \/ EditDisk \/ Shutdown \/ \E id \in Ids : StoreSecret(id)
  BY <1>3, <1>8 DEF vars, mutationVars, EditDisk, Shutdown, StoreSecret
<1>9. CASE \/ Reload \/ \E id \in Ids : Begin("Delete", id, NoProfile, "Clear")
           \/ \E id \in Ids, kind \in {"Create", "Update"}, p \in Profiles, update \in SecretUpdates :
                Begin(kind, id, p, update)
           \/ Write \/ Snapshot \/ ClearSecrets
  <2>1. mpc \in Unpublished => targets = {}
    BY DEF Typed, PlanTyped
  <2>2. targets' = {} /\ mpc' \notin {"evict", "secrets"}
    BY <1>9, <2>1 DEF Reload, Begin, Write, Snapshot, ClearSecrets, Unpublished
  <2> QED
    BY <1>4, <2>2
<1> QED
  BY <1>5, <1>6, <1>7, <1>8, <1>9 DEF Next, MutationStep

LEMMA FenceStep == Typed /\ FenceInv /\ [Next]_vars => FenceInv'
BY TaskStepFence, PublishFence, OtherStepFence

\* When a mutation removes sessions and secrets, no task of a generation it
\* fenced has a connection or a credential, or may still get one: publish, then
\* cancel and join, then evict (mutation_completion_waiters, run_mutation).
THEOREM FencedWorkIsJoined == Spec => FencedWorkJoined
<1> DEFINE Joined == \A target \in targets, t \in Tasks :
             mpc = "secrets" /\ mpc' = "idle" /\ task[t].id = target.id /\ task[t].gen = target.pgen
                => task[t].pc \in {"captured", "waitTargets", "acquire", "finished"}
<1>1. Init => Typed /\ FenceInv
  BY TypedInit, FenceInit
<1>2. Typed /\ FenceInv /\ [Next]_vars => (Typed /\ FenceInv)'
  BY TypedStep, FenceStep
<1>3. FenceInv => [Joined]_vars
  BY DEF FenceInv, FenceHolds, Refused
<1> QED
  BY <1>1, <1>2, <1>3, PTL DEF Spec, FencedWorkJoined

-----------------------------------------------------------------------------
(* Secrets.                                                                *)

\* The steps of a mutation between its publication and its end.
Cleaning == {"completed", "resolve", "evict", "secrets"}

\* What a mutation knows of itself: the file it publishes shows its effect, a
\* secret is kept or replaced only for a profile that asks for one, and an edit
\* may retag a session only if it keeps the secret.
JobKnown ==
    /\ mpc # "idle" => job.kind # "none"
    /\ job.kind \in {"Create", "Update"} /\ job.secret # "Clear" => job.profile.mode = "Session"
    /\ job.kind = "Delete" => job.secret = "Clear"
    /\ job.eligible /\ job.profile.mode = "Session" => job.secret = "Keep"
CertainMutation ==
    /\ mpc = "fence" => uncertain
    /\ mpc \in {"write", "snapshot", "publish"} /\ job.kind # "Reload" => ~uncertain
EffectSeen ==
    \/ mpc \in {"snapshot", "publish"}
    \/ mpc \in Cleaning /\ ~uncertain
LoadedKnown ==
    /\ mpc \in Cleaning /\ ~uncertain => profiles = loaded
    /\ EffectSeen => /\ job.kind \in {"Create", "Update"} => loaded[job.id] = job.profile
                     /\ job.kind = "Delete" => loaded[job.id] = NoProfile
FenceKnown ==
    /\ fence # NoFence => ~uncertain /\ (fence.eligible /\ fence.fp.mode = "Session" => job.secret = "Keep")
    /\ \A g \in targets : g.clear /\ ~uncertain => ~(job.kind = "Update" /\ g.id = job.id)
MutationKnown == JobKnown /\ CertainMutation /\ LoadedKnown /\ FenceKnown

\* The profiles whose generation this mutation, or the uncertain barrier, ended.
Renewing(i) ==
    \/ uncertain
    \/ \E g \in targets : g.id = i
    \/ mpc \in Cleaning /\ Local(i)

\* The UI does not know the new generation yet, so no task is of it ...
Behind(i) ==
    known[i] # gens[i] /\ \A t \in Tasks : task[t].pc # "idle" /\ task[t].id = i => task[t].gen # gens[i]
\* ... and the only session of it is one that was retagged, with its secret.
OnlyRetagged(i) ==
    sessions[i].pgen = gens[i] =>
        /\ mpc \in {"evict", "secrets"} /\ ~uncertain /\ job.kind = "Update" /\ i = job.id
        /\ sessions[i].fp.mode = "Session" => job.secret = "Keep"
NothingCurrent ==
    \A i \in Ids : mpc # "fence" /\ Renewing(i) /\ gens[i] # 0 => Behind(i) /\ OnlyRetagged(i)

\* A secret is of one profile, in the store and in every session opened with it.
SecretOwned ==
    /\ \A i, j \in Ids : i # j /\ secrets[i] # 0 => secrets[i] # secrets[j]
    /\ \A i, j \in Ids : i # j /\ secrets[i] # 0 => sessions[j].secret # secrets[i]
    /\ \A i \in Ids, t \in Tasks :
         secrets[i] # 0 /\ task[t].lease.secret = secrets[i] => task[t].id = i
SecretNeeded ==
    /\ \A i \in Ids : sessions[i].fp.mode # "Session" => sessions[i].secret = 0
    /\ \A t \in Tasks : task[t].lease.fp.mode # "Session" => task[t].lease.secret = 0

\* Outside a mutation's clean-up a secret is of a published profile that asks for
\* it; during it, or the clean-up removes it.
SecretsPlanned ==
    /\ mpc \notin Cleaning => \A i \in Ids : secrets[i] # 0 => profiles[i].mode = "Session"
    /\ mpc \notin Cleaning /\ mpc # "fence" /\ uncertain => \A i \in Ids : secrets[i] = 0
    /\ mpc \in Cleaning /\ ~uncertain => \A i \in Ids : secrets[i] # 0 =>
         \/ profiles[i].mode = "Session" \/ profiles[i] = NoProfile \/ Local(i)
         \/ \E g \in targets : g.id = i /\ g.clear

SecretInv ==
    MutationKnown /\ NothingCurrent /\ SecretOwned /\ SecretNeeded /\ SecretsPlanned

\* What a step of a task does to the cache and to its own lease: it removes a
\* session or installs its lease, and the lease is kept, taken from the cache,
\* begun without a secret or completed with the profile's secret.
LEMMA LeaseStep ==
    ASSUME Typed, NEW t \in Tasks, TaskStep(t)
    PROVE  /\ \A i \in Ids :
                \/ sessions'[i] = sessions[i] \/ sessions'[i] = NoSession
                \/ i = task[t].id /\ sessions'[i] = task[t].lease /\ gens[i] = task[t].gen
           /\ \/ task'[t].lease = task[t].lease \/ task'[t] = NoTask
              \/ task'[t].lease = sessions[task[t].id] \/ task'[t].lease.secret = 0
              \/ /\ task'[t].lease.fp = task[t].lease.fp /\ task[t].lease.fp.mode = "Session"
                 /\ task'[t].lease.secret = secrets[task[t].id]
           /\ task[t].id \in Ids
<1> DEFINE me == task[t]
           id == me.id
<1>1. /\ task \in [Tasks -> TaskRecords] /\ me \in TaskRecords /\ WellFormed(t, me)
      /\ sessions \in [Ids -> Sessions]
  BY DEF Typed, TasksTyped, CacheTyped
<1>2. id \in Ids
  BY <1>1, OwnStep DEF WellFormed
<1>3. ASSUME NEW i \in Ids
      PROVE  \/ sessions'[i] = sessions[i] \/ sessions'[i] = NoSession
             \/ i = id /\ sessions'[i] = me.lease /\ gens[i] = me.gen
  <2>1. ASSUME NEW identities, EvictExact(identities)
        PROVE  sessions'[i] = sessions[i] \/ sessions'[i] = NoSession
    BY <2>1 DEF EvictExact
  <2>2. CASE Install(t)
    <3>1. me.lease.pgen = me.gen
      BY <1>1, <2>2 DEF Install, WellFormed, Holding
    <3>2. UNCHANGED sessions \/ (sessions' = [sessions EXCEPT ![id] = me.lease] /\ Current(id, me.lease.pgen))
      BY <2>2 DEF Install
    <3> QED
      BY <1>1, <3>1, <3>2 DEF Current
  <2> QED
    BY <2>1, <2>2
       DEF TaskStep, Acquire, Credential, Connect, CloseDisplaced, Operate, Observe, EvictLease,
           Completed, Interrupt, CancelTargets, Disconnect, Reconnect, cacheVars
<1>4. \/ task'[t].lease = me.lease \/ task'[t] = NoTask
      \/ task'[t].lease = sessions[id] \/ task'[t].lease.secret = 0
      \/ /\ task'[t].lease.fp = me.lease.fp /\ me.lease.fp.mode = "Session"
         /\ task'[t].lease.secret = secrets[id]
  <2>1. ASSUME NEW r, Finish(t, r) PROVE task'[t].lease = me.lease
    BY <2>1, Finished
  <2>2. CASE Acquire(t)
    <3>1. CASE task' = [task EXCEPT ![t].pc = "operate", ![t].lease = sessions[id]]
      BY <1>1, <3>1 DEF TaskRecords
    <3>2. CASE task' = [task EXCEPT ![t].pc = "credential",
                         ![t].lease = [NoSession EXCEPT !.pgen = me.gen, !.fp = Fingerprint(profiles[id])]]
      BY <1>1, <3>2 DEF TaskRecords, NoSession
    <3> QED
      BY <2>1, <2>2, <3>1, <3>2 DEF Acquire
  <2>3. CASE Credential(t)
    <3> DEFINE secret == IF me.lease.fp.mode = "Session" THEN secrets[id] ELSE 0
    <3>1. \/ \E r : Finish(t, r)
          \/ task' = [task EXCEPT ![t].pc = "connecting", ![t].lease.sgen = nextSession,
                                  ![t].lease.secret = secret]
      BY <2>3 DEF Credential
    <3>2. secret = 0 \/ (secret = secrets[id] /\ me.lease.fp.mode = "Session")
      OBVIOUS
    <3> HIDE DEF secret
    <3>3. CASE task' = [task EXCEPT ![t].pc = "connecting", ![t].lease.sgen = nextSession,
                                    ![t].lease.secret = secret]
      <4>1. task'[t].lease.fp = me.lease.fp /\ task'[t].lease.secret = secret
        BY <1>1, <3>3 DEF TaskRecords, Sessions
      <4> QED
        BY <3>2, <4>1
    <3> QED
      BY <2>1, <3>1, <3>3
  <2>4. CASE Install(t)
    <3>1. CASE task' = [task EXCEPT ![t].pc = "operate", ![t].lease = sessions[id]]
      BY <1>1, <3>1 DEF TaskRecords
    <3>2. ASSUME NEW pc, NEW old, task' = [task EXCEPT ![t].pc = pc, ![t].old = old]
          PROVE  task'[t].lease = me.lease
      BY <1>1, <3>2 DEF TaskRecords
    <3> QED
      BY <2>1, <2>4, <3>1, <3>2 DEF Install
  <2>5. CASE CancelTargets(t)
    BY <2>5, ControlWaits
  <2>6. CASE Completed(t)
    BY <2>6 DEF Completed
  <2>7. CASE \/ Connect(t) \/ CloseDisplaced(t) \/ Operate(t) \/ Observe(t) \/ EvictLease(t) \/ Interrupt(t)
             \/ Disconnect(t) \/ Reconnect(t)
    BY <1>1, <2>1, <2>7 DEF Connect, CloseDisplaced, Operate, Observe, EvictLease, Interrupt, Disconnect,
                            Reconnect, TaskRecords
  <2> QED
    BY <2>2, <2>3, <2>4, <2>5, <2>6, <2>7 DEF TaskStep
<1> QED
  BY <1>2, <1>3, <1>4

LEMMA TaskStepSecrets ==
    ASSUME Typed, SecretInv, NEW t \in Tasks, TaskStep(t)
    PROVE  SecretInv'
<1> DEFINE me == task[t]
           id == me.id
<1>1. /\ UNCHANGED <<profiles, gens, uncertain, known, secrets>>
      /\ UNCHANGED <<mpc, job, loaded, targets, fence>>
  BY DEF TaskStep, Acquire, Credential, Connect, Install, CloseDisplaced, Operate, Observe, EvictLease,
         Completed, Interrupt, CancelTargets, Disconnect, Reconnect, TaskFrame, observedVars, mutationVars,
         secretVars
<1>2. \A u \in Tasks \ {t} : SameOwner(u)
  BY OthersKept
<1>3. /\ me.pc # "idle"
      /\ task'[t] = NoTask \/ (task'[t].id = id /\ task'[t].gen = me.gen)
  BY OwnStep
<1>4. /\ NoSession.pgen = 0 /\ NoSession.secret = 0 /\ NoTask.pc = "idle" /\ NoTask.lease = NoSession
  BY DEF NoSession, NoTask
<1>5. /\ \A i \in Ids :
           \/ sessions'[i] = sessions[i] \/ sessions'[i] = NoSession
           \/ i = id /\ sessions'[i] = me.lease /\ gens[i] = me.gen
      /\ \/ task'[t].lease = me.lease \/ task'[t] = NoTask
         \/ task'[t].lease = sessions[id] \/ task'[t].lease.secret = 0
         \/ /\ task'[t].lease.fp = me.lease.fp /\ me.lease.fp.mode = "Session"
            /\ task'[t].lease.secret = secrets[id]
      /\ id \in Ids
  BY LeaseStep
<1> HIDE DEF me
<1>6. MutationKnown'
  BY <1>1 DEF SecretInv, MutationKnown, JobKnown, CertainMutation, LoadedKnown, EffectSeen, FenceKnown
<1>7. NothingCurrent'
  <2> SUFFICES ASSUME NEW i \in Ids, mpc' # "fence", Renewing(i)', gens'[i] # 0
               PROVE  Behind(i)' /\ OnlyRetagged(i)'
    BY DEF NothingCurrent
  <2>1. Renewing(i) /\ mpc # "fence" /\ gens[i] # 0
    BY <1>1 DEF Renewing, Local
  <2>2. Behind(i) /\ OnlyRetagged(i)
    BY <2>1 DEF SecretInv, NothingCurrent
  <2>3. \A u \in Tasks : task'[u].pc # "idle" /\ task'[u].id = i => task'[u].gen # gens[i]
    BY <1>2, <1>3, <1>4, <2>2 DEF Behind, SameOwner, me
  <2>4. sessions'[i] = sessions[i] \/ sessions'[i] = NoSession
    BY <1>3, <1>5, <2>2 DEF Behind, me
  <2>5. OnlyRetagged(i)'
    BY <1>1, <1>4, <2>1, <2>2, <2>4 DEF OnlyRetagged
  <2> QED
    BY <1>1, <2>2, <2>3, <2>5 DEF Behind
<1>8. SecretOwned'
  <2>1. \A i, j \in Ids : i # j /\ secrets[i] # 0 => sessions'[j].secret # secrets[i]
    BY <1>4, <1>5 DEF SecretInv, SecretOwned, me
  <2>2. \A i \in Ids : secrets[i] # 0 /\ task'[t].lease.secret = secrets[i] => task'[t].id = i
    BY <1>3, <1>4, <1>5 DEF SecretInv, SecretOwned, me
  <2>3. \A i \in Ids, u \in Tasks \ {t} :
          secrets[i] # 0 /\ task'[u].lease.secret = secrets[i] => task'[u].id = i
    BY <1>2 DEF SecretInv, SecretOwned, SameOwner
  <2>4. \A i, j \in Ids : i # j /\ secrets[i] # 0 => secrets[i] # secrets[j]
    BY DEF SecretInv, SecretOwned
  <2> QED
    BY <1>1, <2>1, <2>2, <2>3, <2>4 DEF SecretOwned
<1>9. SecretNeeded'
  <2>1. \A i \in Ids : sessions'[i].fp.mode # "Session" => sessions'[i].secret = 0
    BY <1>4, <1>5 DEF SecretInv, SecretNeeded, me
  <2>2. task'[t].lease.fp.mode # "Session" => task'[t].lease.secret = 0
    BY <1>4, <1>5 DEF SecretInv, SecretNeeded, me
  <2>3. \A u \in Tasks \ {t} : task'[u].lease.fp.mode # "Session" => task'[u].lease.secret = 0
    BY <1>2 DEF SecretInv, SecretNeeded, SameOwner
  <2> QED
    BY <2>1, <2>2, <2>3 DEF SecretNeeded
<1>10. SecretsPlanned'
  BY <1>1 DEF SecretInv, SecretsPlanned, Local
<1> QED
  BY <1>6, <1>7, <1>8, <1>9, <1>10 DEF SecretInv

LEMMA StartSecrets ==
    ASSUME Typed, SecretInv, NEW t \in Tasks, NEW id \in Ids,
           StartWork(t, id) \/ \E kind \in {"disconnect", "reconnect"} : Capture(t, kind, id)
    PROVE  SecretInv'
<1>1. /\ UNCHANGED <<profiles, gens, uncertain, known, secrets, sessions>>
      /\ UNCHANGED <<mpc, job, loaded, targets, fence>>
  BY DEF StartWork, Capture, observedVars, mutationVars, secretVars, cacheVars
<1>2. /\ task'[t].id = id /\ task'[t].gen = known[id] /\ task'[t].lease = NoSession
      /\ \A u \in Tasks \ {t} : task'[u] = task[u]
  BY Started
<1>3. NoSession.secret = 0
  BY DEF NoSession
<1>4. MutationKnown'
  BY <1>1 DEF SecretInv, MutationKnown, JobKnown, CertainMutation, LoadedKnown, EffectSeen, FenceKnown
<1>5. NothingCurrent'
  <2> SUFFICES ASSUME NEW i \in Ids, mpc' # "fence", Renewing(i)', gens'[i] # 0
               PROVE  Behind(i)' /\ OnlyRetagged(i)'
    BY DEF NothingCurrent
  <2>1. Renewing(i) /\ mpc # "fence" /\ gens[i] # 0
    BY <1>1 DEF Renewing, Local
  <2>2. Behind(i) /\ OnlyRetagged(i)
    BY <2>1 DEF SecretInv, NothingCurrent
  <2>3. \A u \in Tasks : task'[u].pc # "idle" /\ task'[u].id = i => task'[u].gen # gens[i]
    BY <1>2, <2>2 DEF Behind
  <2>4. OnlyRetagged(i)'
    BY <1>1, <2>2 DEF OnlyRetagged
  <2> QED
    BY <1>1, <2>2, <2>3, <2>4 DEF Behind
<1>6. SecretOwned' /\ SecretNeeded'
  BY <1>1, <1>2, <1>3 DEF SecretInv, SecretOwned, SecretNeeded
<1>7. SecretsPlanned'
  BY <1>1 DEF SecretInv, SecretsPlanned, Local
<1> QED
  BY <1>4, <1>5, <1>6, <1>7 DEF SecretInv

\* A generation that is new has no task, no session and no place in the UI yet.
LEMMA NewIsBehind ==
    ASSUME Typed, NEW i \in Ids, gens'[i] \in Nat, gens'[i] >= nextGen, UNCHANGED <<known, task, sessions>>
    PROVE  Behind(i)' /\ OnlyRetagged(i)'
<1>1. nextGen \in Nat \ {0} /\ known[i] \in Nat /\ known[i] < nextGen
  BY DEF Typed, GenInv, GenerationsBelowNext, KnownTyped
<1>2. \A t \in Tasks : task[t].gen \in 0..(nextGen - 1)
  BY DEF Typed, TasksTyped, TaskRecords
<1>3. sessions[i].pgen \in 0..(nextGen - 1)
  BY DEF Typed, CacheTyped, Sessions
<1>4. \A n \in 0..(nextGen - 1) : n # gens'[i]
  BY <1>1
<1>5. known[i] # gens'[i] /\ sessions[i].pgen # gens'[i] /\ \A t \in Tasks : task[t].gen # gens'[i]
  BY <1>1, <1>2, <1>3, <1>4
<1> QED
  BY <1>5 DEF Behind, OnlyRetagged

LEMMA FenceAllSecrets ==
    ASSUME Typed, SecretInv, FenceAll
    PROVE  SecretInv'
<1> DEFINE live == {i \in Ids : gens[i] # 0}
<1>1. /\ UNCHANGED <<profiles, uncertain, known, secrets, sessions, task, job, loaded>>
      /\ fence' = NoFence /\ mpc = "fence" /\ mpc' = "completed"
      /\ gens' = [i \in Ids |-> IF i \in live THEN Fresh(live, i) ELSE 0]
  BY DEF FenceAll, cacheVars, secretVars, MutationFrame
<1>2. uncertain /\ uncertain'
  BY <1>1 DEF SecretInv, MutationKnown, CertainMutation
<1>3. \A i \in Ids : gens'[i] # 0 => gens'[i] \in Nat /\ gens'[i] >= nextGen
  <2>1. \A i \in live : Fresh(live, i) \in Nat /\ Fresh(live, i) >= nextGen
    BY FreshIsNew DEF Typed, GenInv
  <2> QED
    BY <1>1, <2>1
<1>4. MutationKnown'
  BY <1>1, <1>2 DEF SecretInv, MutationKnown, JobKnown, CertainMutation, LoadedKnown, EffectSeen, FenceKnown
<1>5. NothingCurrent'
  BY <1>1, <1>3, NewIsBehind DEF NothingCurrent
<1>6. SecretOwned' /\ SecretNeeded'
  BY <1>1 DEF SecretInv, SecretOwned, SecretNeeded
<1>7. SecretsPlanned'
  BY <1>1, <1>2 DEF SecretsPlanned, Cleaning
<1> QED
  BY <1>4, <1>5, <1>6, <1>7 DEF SecretInv

LEMMA PublishSecrets ==
    ASSUME Typed, SecretInv, Publish
    PROVE  SecretInv'
<1> DEFINE all == Renewed \cup Removed
<1>1. /\ UNCHANGED <<known, secrets, sessions, task, job, loaded>>
      /\ mpc = "publish" /\ mpc' = "completed" /\ profiles' = loaded
      /\ gens' = [i \in Ids |-> IF i \in Renewed THEN Fresh(all, i)
                                ELSE IF loaded[i] = NoProfile THEN 0 ELSE gens[i]]
      /\ uncertain' = IF job.kind = "Reload" THEN FALSE ELSE uncertain
  BY DEF Publish, cacheVars, secretVars, MutationFrame
<1>2. /\ \A g \in targets' : g.id \in Outdated /\ (g.clear => ~Local(g.id) \/ job.kind = "Delete")
      /\ \A i \in Outdated : \E g \in targets' : g.id = i /\ (~Local(i) => g.clear)
  <2> DEFINE session(i) == IF job.kind = "Update" /\ Local(i) THEN NoSession ELSE snap[i]
             target(i) == [id |-> i, pgen |-> gens[i], session |-> session(i),
                           clear |-> ~Local(i) \/ job.kind = "Delete"]
  <2>1. targets' = {target(i) : i \in Outdated}
    BY DEF Publish
  <2>2. \A i \in Outdated : target(i).id = i /\ target(i).clear = (~Local(i) \/ job.kind = "Delete")
    OBVIOUS
  <2> HIDE DEF target
  <2> QED
    BY <2>1, <2>2
<1>3. uncertain' = FALSE
  <2>1. job.kind # "Reload" => uncertain = FALSE
    BY <1>1 DEF SecretInv, MutationKnown, CertainMutation, Typed, FlagsTyped
  <2> QED
    BY <1>1, <2>1
<1>4. /\ job.kind \in {"Create", "Update"} => loaded[job.id] = job.profile
      /\ job.kind = "Delete" => loaded[job.id] = NoProfile
  BY <1>1 DEF SecretInv, MutationKnown, LoadedKnown, EffectSeen
<1>5. MutationKnown'
  <2>1. JobKnown'
    BY <1>1 DEF SecretInv, MutationKnown, JobKnown
  <2>2. CertainMutation'
    BY <1>1 DEF CertainMutation
  <2>3. LoadedKnown'
    BY <1>1, <1>4 DEF LoadedKnown
  <2>4. FenceKnown'
    <3>1. fence' # NoFence => /\ job.kind = "Update" /\ fence'.eligible = job.eligible
                              /\ fence'.fp.mode = loaded[job.id].mode
      BY DEF Publish, Fingerprint
    <3>2. fence' # NoFence /\ fence'.eligible /\ fence'.fp.mode = "Session" => job.secret = "Keep"
      BY <1>4, <3>1 DEF SecretInv, MutationKnown, JobKnown
    <3> QED
      BY <1>1, <1>2, <1>3, <3>2 DEF FenceKnown, Local
  <2> QED
    BY <2>1, <2>2, <2>3, <2>4 DEF MutationKnown
<1>6. NothingCurrent'
  <2> SUFFICES ASSUME NEW i \in Ids, Renewing(i)', gens'[i] # 0 PROVE Behind(i)' /\ OnlyRetagged(i)'
    BY DEF NothingCurrent
  <2>1. i \in Outdated \/ Local(i)
    BY <1>1, <1>2, <1>3 DEF Renewing, Local
  <2>2. loaded[i] # NoProfile \/ i \in Renewed
    BY <1>1
  <2>3. i \in Renewed
    BY <2>1, <2>2 DEF Outdated, Renewed
  <2>4. all \in SUBSET Ids /\ i \in all /\ GenerationsBelowNext
    BY <2>3 DEF Renewed, Removed, Typed, GenInv
  <2>5. Fresh(all, i) \in Nat /\ Fresh(all, i) >= nextGen
    BY <2>4, FreshIsNew
  <2>6. gens'[i] = Fresh(all, i)
    BY <1>1, <2>3
  <2> QED
    BY <1>1, <2>5, <2>6, NewIsBehind
<1>7. SecretOwned' /\ SecretNeeded'
  BY <1>1 DEF SecretInv, SecretOwned, SecretNeeded
<1>8. SecretsPlanned'
  <2> SUFFICES ASSUME NEW i \in Ids, secrets[i] # 0, loaded[i].mode # "Session", loaded[i] # NoProfile, ~Local(i)
               PROVE  \E g \in targets' : g.id = i /\ g.clear
    BY <1>1, <1>3 DEF SecretsPlanned, Cleaning, Local
  <2>1. profiles[i].mode = "Session"
    BY <1>1 DEF SecretInv, SecretsPlanned, Cleaning
  <2>2. profiles[i] # NoProfile
    BY <2>1 DEF NoProfile
  <2>3. i \in Outdated
    BY <2>1, <2>2 DEF Outdated
  <2> QED
    BY <1>2, <2>3
<1> QED
  BY <1>5, <1>6, <1>7, <1>8 DEF SecretInv

\* A mutation begins; it has ended no generation yet.
LEMMA BeginSecrets ==
    ASSUME Typed, SecretInv, NEW kind \in {"Create", "Update", "Delete"}, NEW id \in Ids, NEW profile,
           NEW update \in SecretUpdates, kind = "Delete" => update = "Clear", Begin(kind, id, profile, update)
    PROVE  SecretInv'
<1>1. /\ UNCHANGED <<profiles, uncertain, gens, known, secrets, sessions, task, loaded, targets, fence>>
      /\ mpc = "idle" /\ mpc' = "write" /\ ~uncertain
      /\ kind # "Delete" => SecretUpdateAllowed(kind, id, profile.mode, update)
  BY DEF Begin, observedVars, cacheVars, secretVars
<1>2. targets = {} /\ fence = NoFence
  BY <1>1 DEF Typed, PlanTyped, Unpublished
<1>3. /\ job'.kind = kind /\ job'.secret = update /\ job'.profile = profile
      /\ job'.eligible /\ profile.mode = "Session" => update = "Keep"
  BY DEF Begin
<1>4. update # "Clear" => profile.mode = "Session"
  BY <1>1 DEF SecretUpdateAllowed, SecretUpdates
<1>5. MutationKnown'
  <2>1. JobKnown'
    BY <1>3, <1>4 DEF JobKnown
  <2>2. CertainMutation'
    BY <1>1 DEF CertainMutation
  <2>3. LoadedKnown' /\ FenceKnown'
    BY <1>1, <1>2 DEF LoadedKnown, EffectSeen, FenceKnown, Cleaning
  <2> QED
    BY <2>1, <2>2, <2>3 DEF MutationKnown
<1>6. NothingCurrent'
  BY <1>1, <1>2 DEF NothingCurrent, Renewing, Cleaning
<1>7. SecretOwned' /\ SecretNeeded'
  BY <1>1 DEF SecretInv, SecretOwned, SecretNeeded
<1>8. SecretsPlanned'
  BY <1>1 DEF SecretInv, SecretsPlanned, Cleaning
<1> QED
  BY <1>5, <1>6, <1>7, <1>8 DEF SecretInv

LEMMA ReloadSecrets ==
    ASSUME Typed, SecretInv, Reload
    PROVE  SecretInv'
<1>1. /\ UNCHANGED <<profiles, gens, known, secrets, sessions, task, targets, fence>> /\ mpc = "idle"
      /\ \/ mpc' = "snapshot" /\ UNCHANGED uncertain
         \/ mpc' = "fence" /\ uncertain'
  BY DEF Reload, cacheVars, secretVars
<1>2. targets = {} /\ fence = NoFence
  BY <1>1 DEF Typed, PlanTyped, Unpublished
<1>3. job'.kind = "Reload" /\ job'.eligible = FALSE
  BY DEF Reload, NoJob
<1>4. MutationKnown'
  <2>1. JobKnown'
    BY <1>3 DEF JobKnown
  <2>2. CertainMutation'
    BY <1>1, <1>3 DEF CertainMutation
  <2>3. LoadedKnown' /\ FenceKnown'
    BY <1>1, <1>2, <1>3 DEF LoadedKnown, EffectSeen, FenceKnown, Cleaning
  <2> QED
    BY <2>1, <2>2, <2>3 DEF MutationKnown
<1>5. NothingCurrent'
  <2> SUFFICES ASSUME NEW i \in Ids, mpc' # "fence", Renewing(i)', gens'[i] # 0
               PROVE  Behind(i)' /\ OnlyRetagged(i)'
    BY DEF NothingCurrent
  <2>1. mpc' = "snapshot" /\ uncertain
    BY <1>1, <1>2 DEF Renewing, Cleaning
  <2>2. Behind(i) /\ OnlyRetagged(i)
    BY <1>1, <2>1 DEF SecretInv, NothingCurrent, Renewing
  <2> QED
    BY <1>1, <2>1, <2>2 DEF Behind, OnlyRetagged
<1>6. SecretOwned' /\ SecretNeeded'
  BY <1>1 DEF SecretInv, SecretOwned, SecretNeeded
<1>7. SecretsPlanned'
  BY <1>1 DEF SecretInv, SecretsPlanned, Cleaning
<1> QED
  BY <1>4, <1>5, <1>6, <1>7 DEF SecretInv

\* The file is published only if it shows what was written.
LEMMA WriteSecrets ==
    ASSUME Typed, SecretInv, Write
    PROVE  SecretInv'
<1>1. /\ UNCHANGED <<profiles, gens, known, secrets, sessions, task, targets, fence>>
      /\ mpc = "write" /\ mpc' \in {"idle", "snapshot", "fence"}
  BY DEF Write, cacheVars, secretVars
<1>2. targets = {} /\ fence = NoFence /\ job.kind \in {"Create", "Update", "Delete"} /\ job.id \in Ids
  BY <1>1 DEF Typed, PlanTyped, Unpublished, JobTyped
<1>3. uncertain = FALSE
  BY <1>1, <1>2 DEF SecretInv, MutationKnown, CertainMutation, Typed, FlagsTyped
<1>4. /\ mpc' = "idle" => job' = NoJob
      /\ mpc' # "idle" => job' = job
      /\ mpc' = "fence" => uncertain' = TRUE
      /\ mpc' # "fence" => uncertain' = FALSE
  BY <1>3 DEF Write
<1>5. mpc' = "snapshot" => loaded'[job.id] = IF job.kind = "Delete" THEN NoProfile ELSE job.profile
  <2> DEFINE new == IF job.kind = "Delete" THEN NoProfile ELSE job.profile
  <2> SUFFICES ASSUME mpc' = "snapshot" PROVE loaded'[job.id] = new
    OBVIOUS
  <2>1. disk \in Configs
    BY DEF Write, WriteAllowed, Typed, ConfigTyped
  <2>2. loaded'[job.id] = [disk EXCEPT ![job.id] = new][job.id]
    BY DEF Write, Written
  <2> HIDE DEF new
  <2> QED
    BY <1>2, <2>1, <2>2 DEF Configs
<1>6. MutationKnown'
  <2>1. JobKnown'
    BY <1>1, <1>4 DEF SecretInv, MutationKnown, JobKnown, NoJob
  <2>2. CertainMutation'
    BY <1>1, <1>4 DEF CertainMutation
  <2>3. LoadedKnown'
    BY <1>1, <1>2, <1>4, <1>5 DEF LoadedKnown, EffectSeen, Cleaning
  <2>4. FenceKnown'
    BY <1>1, <1>2 DEF FenceKnown
  <2> QED
    BY <2>1, <2>2, <2>3, <2>4 DEF MutationKnown
<1>7. NothingCurrent'
  BY <1>1, <1>2, <1>4 DEF NothingCurrent, Renewing, Cleaning
<1>8. SecretOwned' /\ SecretNeeded'
  BY <1>1 DEF SecretInv, SecretOwned, SecretNeeded
<1>9. SecretsPlanned'
  BY <1>1, <1>4 DEF SecretInv, SecretsPlanned, Cleaning
<1> QED
  BY <1>6, <1>7, <1>8, <1>9 DEF SecretInv

\* Joining, retagging and evicting.
LEMMA CleaningSecrets ==
    ASSUME Typed, SecretInv, Snapshot \/ Complete \/ Resolve \/ EvictTargets
    PROVE  SecretInv'
<1>1. /\ UNCHANGED <<profiles, gens, uncertain, known, secrets, job, loaded, targets, fence>>
      /\ \/ mpc = "snapshot" /\ mpc' = "publish" /\ UNCHANGED sessions
         \/ mpc = "completed" /\ mpc' = "resolve" /\ UNCHANGED sessions
         \/ mpc = "resolve" /\ mpc' = "evict"
         \/ mpc = "evict" /\ mpc' = "secrets"
  BY DEF Snapshot, Complete, Resolve, EvictTargets, observedVars, cacheVars, secretVars, MutationFrame
<1>2. ASSUME NEW t \in Tasks
      PROVE  /\ task'[t].pc = task[t].pc /\ task'[t].id = task[t].id /\ task'[t].gen = task[t].gen
             /\ task'[t].lease = task[t].lease
  <2>1. task[t] \in TaskRecords
    BY DEF Typed, TasksTyped
  <2>2. task'[t] = task[t] \/ task'[t] = [task[t] EXCEPT !.cancel = TRUE]
    BY DEF Snapshot, Complete, Resolve, EvictTargets
  <2> QED
    BY <2>1, <2>2 DEF TaskRecords
<1>3. ASSUME NEW i \in Ids
      PROVE  \/ sessions'[i] = sessions[i] \/ sessions'[i] = NoSession
             \/ /\ mpc = "resolve" /\ i = job.id /\ fence # NoFence /\ fence.eligible
                /\ sessions'[i].fp = fence.fp /\ sessions'[i].fp = sessions[i].fp
                /\ sessions'[i].secret = sessions[i].secret
  <2>1. ASSUME NEW identities, EvictExact(identities)
        PROVE  sessions'[i] = sessions[i] \/ sessions'[i] = NoSession
    BY <2>1 DEF EvictExact
  <2>2. CASE Resolve
    <3>1. \/ UNCHANGED sessions \/ EvictExact({<<job.id, fence.previous.pgen, fence.previous.sgen>>})
          \/ /\ fence # NoFence /\ fence.eligible /\ sessions[job.id].fp = fence.fp
             /\ sessions' = [sessions EXCEPT ![job.id].pgen = fence.pgen]
      BY <2>2 DEF Resolve
    <3>2. CASE /\ fence # NoFence /\ fence.eligible /\ sessions[job.id].fp = fence.fp
               /\ sessions' = [sessions EXCEPT ![job.id].pgen = fence.pgen]
      <4>1. sessions \in [Ids -> Sessions] /\ mpc = "resolve"
        BY <2>2 DEF Typed, CacheTyped, Resolve
      <4>2. CASE i = job.id
        BY <3>2, <4>1, <4>2 DEF Sessions
      <4>3. CASE i # job.id
        BY <3>2, <4>1, <4>3
      <4> QED
        BY <4>2, <4>3
    <3> QED
      BY <2>1, <3>1, <3>2
  <2> QED
    BY <2>1, <2>2 DEF Snapshot, Complete, EvictTargets, cacheVars
<1>4. NoSession.pgen = 0 /\ NoSession.secret = 0
  BY DEF NoSession
<1>5. MutationKnown'
  <2>1. JobKnown'
    BY <1>1 DEF SecretInv, MutationKnown, JobKnown
  <2>2. CertainMutation'
    BY <1>1 DEF SecretInv, MutationKnown, CertainMutation
  <2>3. LoadedKnown'
    BY <1>1 DEF SecretInv, MutationKnown, LoadedKnown, EffectSeen, Cleaning
  <2>4. FenceKnown'
    BY <1>1 DEF SecretInv, MutationKnown, FenceKnown
  <2> QED
    BY <2>1, <2>2, <2>3, <2>4 DEF MutationKnown
<1>6. NothingCurrent'
  <2> SUFFICES ASSUME NEW i \in Ids, Renewing(i)', gens'[i] # 0 PROVE Behind(i)' /\ OnlyRetagged(i)'
    BY DEF NothingCurrent
  <2>1. Renewing(i) /\ mpc # "fence" /\ gens[i] # 0
    BY <1>1 DEF Renewing, Local, Cleaning
  <2>2. Behind(i) /\ OnlyRetagged(i)
    BY <2>1 DEF SecretInv, NothingCurrent
  <2>3. Behind(i)'
    BY <1>1, <1>2, <2>2 DEF Behind
  <2>4. CASE sessions'[i] = sessions[i]
    BY <1>1, <2>2, <2>3, <2>4 DEF OnlyRetagged
  <2>5. CASE sessions'[i] = NoSession
    BY <1>1, <1>4, <2>1, <2>3, <2>5 DEF OnlyRetagged
  <2>6. CASE /\ mpc = "resolve" /\ i = job.id /\ fence # NoFence /\ fence.eligible
             /\ sessions'[i].fp = fence.fp
    <3>1. /\ job.kind = "Update" /\ ~uncertain
          /\ fence.fp.mode = "Session" => job.secret = "Keep"
      BY <2>6 DEF SecretInv, MutationKnown, FenceKnown, Typed, PlanTyped
    <3> QED
      BY <1>1, <2>3, <2>6, <3>1 DEF OnlyRetagged
  <2> QED
    BY <1>3, <2>3, <2>4, <2>5, <2>6
<1>7. SecretOwned' /\ SecretNeeded'
  <2>1. \A i \in Ids : \/ sessions'[i].fp = sessions[i].fp /\ sessions'[i].secret = sessions[i].secret
                       \/ sessions'[i].secret = 0
    BY <1>3, <1>4
  <2> QED
    BY <1>1, <1>2, <2>1 DEF SecretInv, SecretOwned, SecretNeeded
<1>8. SecretsPlanned'
  BY <1>1 DEF SecretInv, SecretsPlanned, Local, Cleaning
<1> QED
  BY <1>5, <1>6, <1>7, <1>8 DEF SecretInv

\* The secrets the clean-up leaves: each is of a profile that asks for it.
LEMMA ClearSecretsSecrets ==
    ASSUME Typed, SecretInv, ClearSecrets
    PROVE  SecretInv'
<1>1. /\ UNCHANGED <<profiles, gens, uncertain, sessions, task>> /\ secrets' = NextSecrets
      /\ mpc = "secrets" /\ mpc' = "idle" /\ job' = NoJob /\ targets' = {} /\ fence' = NoFence
      /\ uncertain => \A i \in Ids : known'[i] = known[i]
  BY DEF ClearSecrets, observedVars, cacheVars
<1>2. uncertain => \A i \in Ids : secrets'[i] = 0
  BY <1>1 DEF NextSecrets
<1>3. ASSUME NEW i \in Ids, ~uncertain
      PROVE  \/ secrets'[i] = 0
             \/ secrets'[i] = nextSecret /\ i = job.id /\ job.kind \notin {"Reload", "Delete"} /\ job.secret = "Replace"
             \/ /\ secrets'[i] = secrets[i] /\ loaded[i] # NoProfile
                /\ ~ \E g \in targets : g.id = i /\ g.clear
                /\ i = job.id => job.kind \in {"Reload", "Delete"} \/ job.secret # "Clear"
  BY <1>1, <1>3 DEF NextSecrets, Local
<1>4. MutationKnown'
  <2>1. NoJob.kind = "none" /\ NoJob.eligible = FALSE
    BY DEF NoJob
  <2>2. JobKnown'
    BY <1>1, <2>1 DEF JobKnown
  <2>3. CertainMutation' /\ LoadedKnown' /\ FenceKnown'
    BY <1>1 DEF CertainMutation, LoadedKnown, EffectSeen, FenceKnown, Cleaning
  <2> QED
    BY <2>2, <2>3 DEF MutationKnown
<1>5. NothingCurrent'
  <2> SUFFICES ASSUME NEW i \in Ids, Renewing(i)', gens'[i] # 0 PROVE Behind(i)' /\ OnlyRetagged(i)'
    BY DEF NothingCurrent
  <2>1. uncertain
    BY <1>1 DEF Renewing, Cleaning
  <2>2. Behind(i) /\ OnlyRetagged(i)
    BY <1>1, <2>1 DEF SecretInv, NothingCurrent, Renewing
  <2> QED
    BY <1>1, <2>1, <2>2 DEF Behind, OnlyRetagged
<1>6. \A i \in Ids : secrets'[i] = 0 \/ secrets'[i] = secrets[i] \/ (secrets'[i] = nextSecret /\ i = job.id)
  BY <1>2, <1>3
<1>7. SecretOwned'
  <2>1. /\ \A i \in Ids : secrets[i] # nextSecret /\ sessions[i].secret # nextSecret
        /\ \A t \in Tasks : task[t].lease.secret # nextSecret
    <3>1. nextSecret \in Nat \ {0} /\ \A n \in 0..(nextSecret - 1) : n # nextSecret
      BY DEF Typed, Counters
    <3>2. /\ \A i \in Ids : secrets[i] \in 0..(nextSecret - 1) /\ sessions[i].secret \in 0..(nextSecret - 1)
          /\ \A t \in Tasks : task[t].lease.secret \in 0..(nextSecret - 1)
      BY DEF Typed, SecretsTyped, CacheTyped, TasksTyped, TaskRecords, Sessions
    <3> QED
      BY <3>1, <3>2
  <2> QED
    BY <1>1, <1>6, <2>1 DEF SecretInv, SecretOwned
<1>8. SecretNeeded'
  BY <1>1 DEF SecretInv, SecretNeeded
<1>9. SecretsPlanned'
  <2> SUFFICES ASSUME NEW i \in Ids, secrets'[i] # 0 PROVE profiles[i].mode = "Session" /\ ~uncertain
    BY <1>1, <1>2 DEF SecretsPlanned, Cleaning
  <2>1. ~uncertain /\ profiles = loaded
    BY <1>1, <1>2 DEF SecretInv, MutationKnown, LoadedKnown, Cleaning
  <2>2. /\ job.kind # "none" /\ job.kind \in {"none", "Reload", "Create", "Update", "Delete"}
        /\ job.kind \in {"Create", "Update"} /\ job.secret # "Clear" => job.profile.mode = "Session"
        /\ job.kind \in {"Create", "Update"} => loaded[job.id] = job.profile
        /\ job.kind = "Delete" => loaded[job.id] = NoProfile
    BY <1>1, <2>1 DEF SecretInv, MutationKnown, JobKnown, LoadedKnown, EffectSeen, Cleaning, Typed, JobTyped, Jobs
  <2>3. CASE i = job.id /\ job.kind \notin {"Reload", "Delete"} /\ job.secret = "Replace"
    BY <2>1, <2>2, <2>3
  <2>4. CASE /\ secrets'[i] = secrets[i] /\ loaded[i] # NoProfile
             /\ ~ \E g \in targets : g.id = i /\ g.clear
             /\ i = job.id => job.kind \in {"Reload", "Delete"} \/ job.secret # "Clear"
    <3>1. profiles[i].mode = "Session" \/ Local(i)
      BY <1>1, <2>1, <2>4 DEF SecretInv, SecretsPlanned, Cleaning
    <3> QED
      BY <2>1, <2>2, <2>4, <3>1 DEF Local
  <2> QED
    BY <1>3, <2>1, <2>3, <2>4
<1> QED
  BY <1>4, <1>5, <1>7, <1>8, <1>9 DEF SecretInv

\* A credential prompt is answered, another program edits the file, the end.
LEMMA SmallStepsSecrets ==
    ASSUME Typed, SecretInv, UNCHANGED vars \/ EditDisk \/ Shutdown \/ \E id \in Ids : StoreSecret(id)
    PROVE  SecretInv'
<1>1. /\ UNCHANGED <<profiles, gens, uncertain, known, task>>
      /\ UNCHANGED <<mpc, job, loaded, targets, fence>>
  BY DEF vars, EditDisk, Shutdown, StoreSecret, observedVars, mutationVars
<1>2. MutationKnown'
  BY <1>1 DEF SecretInv, MutationKnown, JobKnown, CertainMutation, LoadedKnown, EffectSeen, FenceKnown
<1>3. NoSession.pgen = 0 /\ NoSession.secret = 0
  BY DEF NoSession
<1>4. \A i \in Ids : sessions'[i] = sessions[i] \/ sessions'[i] = NoSession
  BY DEF vars, EditDisk, Shutdown, StoreSecret, cacheVars
<1>5. NothingCurrent'
  <2> SUFFICES ASSUME NEW i \in Ids, mpc' # "fence", Renewing(i)', gens'[i] # 0
               PROVE  Behind(i)' /\ OnlyRetagged(i)'
    BY DEF NothingCurrent
  <2>1. Renewing(i) /\ mpc # "fence" /\ gens[i] # 0
    BY <1>1 DEF Renewing, Local
  <2>2. Behind(i) /\ OnlyRetagged(i)
    BY <2>1 DEF SecretInv, NothingCurrent
  <2>3. Behind(i)'
    BY <1>1, <2>2 DEF Behind
  <2>4. OnlyRetagged(i)'
    BY <1>1, <1>3, <1>4, <2>1, <2>2 DEF OnlyRetagged
  <2> QED
    BY <2>3, <2>4
<1>6. SecretNeeded'
  BY <1>1, <1>3, <1>4 DEF SecretInv, SecretNeeded
<1>7. CASE UNCHANGED secrets
  BY <1>1, <1>2, <1>3, <1>4, <1>5, <1>6, <1>7 DEF SecretInv, SecretOwned, SecretsPlanned, Local
<1>8. CASE Shutdown
  <2>1. \A i \in Ids : secrets'[i] = 0
    BY <1>8 DEF Shutdown
  <2> QED
    BY <1>2, <1>5, <1>6, <2>1 DEF SecretInv, SecretOwned, SecretsPlanned
<1>9. ASSUME NEW id \in Ids, StoreSecret(id) PROVE SecretInv'
  <2>1. /\ secrets' = [secrets EXCEPT ![id] = nextSecret] /\ UNCHANGED sessions
        /\ mpc = "idle" /\ ~uncertain /\ profiles[id].mode = "Session"
    BY <1>9 DEF StoreSecret, cacheVars
  <2>2. secrets \in [Ids -> 0..(nextSecret - 1)] /\ nextSecret \in Nat \ {0}
    BY DEF Typed, SecretsTyped, Counters
  <2>3. secrets'[id] = nextSecret /\ \A i \in Ids \ {id} : secrets'[i] = secrets[i]
    BY <2>1, <2>2
  <2>4. /\ \A i \in Ids : secrets[i] # nextSecret /\ sessions[i].secret # nextSecret
        /\ \A t \in Tasks : task[t].lease.secret # nextSecret
    <3>1. \A n \in 0..(nextSecret - 1) : n # nextSecret
      BY <2>2
    <3>2. /\ \A i \in Ids : sessions[i].secret \in 0..(nextSecret - 1)
          /\ \A t \in Tasks : task[t].lease.secret \in 0..(nextSecret - 1)
      BY DEF Typed, CacheTyped, TasksTyped, TaskRecords, Sessions
    <3> QED
      BY <2>2, <3>1, <3>2
  <2>5. SecretOwned'
    BY <1>1, <2>1, <2>3, <2>4 DEF SecretInv, SecretOwned
  <2>6. SecretsPlanned'
    BY <1>1, <2>1, <2>3 DEF SecretInv, SecretsPlanned, Cleaning
  <2> QED
    BY <1>2, <1>5, <1>6, <2>5, <2>6 DEF SecretInv
<1> QED
  BY <1>7, <1>8, <1>9 DEF vars, secretVars, EditDisk

LEMMA SecretsInit == Init => SecretInv
<1> SUFFICES ASSUME Init PROVE SecretInv
  OBVIOUS
<1>1. /\ uncertain = FALSE /\ mpc = "idle" /\ job = NoJob /\ targets = {} /\ fence = NoFence
      /\ secrets = [i \in Ids |-> 0] /\ sessions = [i \in Ids |-> NoSession]
      /\ task = [t \in Tasks |-> NoTask]
  BY DEF Init
<1>2. /\ NoJob.kind = "none" /\ NoJob.eligible = FALSE /\ NoSession.secret = 0
      /\ NoTask.lease = NoSession
  BY DEF NoJob, NoSession, NoTask
<1>3. MutationKnown
  BY <1>1, <1>2 DEF MutationKnown, JobKnown, CertainMutation, LoadedKnown, EffectSeen, FenceKnown, Cleaning
<1>4. NothingCurrent
  BY <1>1 DEF NothingCurrent, Renewing, Cleaning
<1>5. SecretOwned /\ SecretNeeded /\ SecretsPlanned
  BY <1>1, <1>2 DEF SecretOwned, SecretNeeded, SecretsPlanned
<1> QED
  BY <1>3, <1>4, <1>5 DEF SecretInv

LEMMA SecretsStep == Typed /\ SecretInv /\ [Next]_vars => SecretInv'
<1> SUFFICES ASSUME Typed, SecretInv, [Next]_vars PROVE SecretInv'
  OBVIOUS
<1>1. ASSUME NEW id \in Ids, Begin("Delete", id, NoProfile, "Clear") PROVE SecretInv'
  BY <1>1, BeginSecrets DEF SecretUpdates
<1>2. ASSUME NEW id \in Ids, NEW kind \in {"Create", "Update"}, NEW p \in Profiles, NEW update \in SecretUpdates,
             Begin(kind, id, p, update)
      PROVE  SecretInv'
  BY <1>2, BeginSecrets
<1> QED
  BY <1>1, <1>2, TaskStepSecrets, StartSecrets, FenceAllSecrets, PublishSecrets, ReloadSecrets, WriteSecrets,
     CleaningSecrets, ClearSecretsSecrets, SmallStepsSecrets DEF Next, MutationStep

\* When the clean-up replaces or removes a secret, the sessions and leases that
\* use it are of generations that are over.
LEMMA ClearingIsSound == Typed /\ FenceInv /\ SecretInv => ClearedSecretUnused
<1> SUFFICES ASSUME Typed, FenceInv, SecretInv, mpc = "secrets",
                    NEW i \in Ids, secrets[i] # 0, NextSecrets[i] # secrets[i]
             PROVE  /\ \A j \in Ids : gens[j] # 0 /\ sessions[j].pgen = gens[j] =>
                         sessions[j].secret # secrets[i]
                    /\ \A t \in Tasks : task[t].lease.pgen # 0 /\ task[t].lease.pgen = gens[task[t].id] =>
                         task[t].lease.secret # secrets[i]
  BY DEF ClearedSecretUnused
<1>1. gens[i] # 0 => Renewing(i)
  <2>1. \/ uncertain \/ Local(i) \/ \E g \in targets : g.id = i
        \/ ~uncertain /\ loaded[i] = NoProfile
    BY DEF NextSecrets
  <2>2. ~uncertain /\ loaded[i] = NoProfile => gens[i] = 0
    BY DEF SecretInv, MutationKnown, LoadedKnown, Cleaning, FenceInv, PublishedHasGeneration
  <2> QED
    BY <2>1, <2>2 DEF Renewing, Cleaning
<1>2. gens[i] # 0 => Behind(i) /\ OnlyRetagged(i)
  BY <1>1 DEF SecretInv, NothingCurrent
<1>3. ~(~uncertain /\ job.kind = "Update" /\ i = job.id /\ job.secret = "Keep" /\ gens[i] # 0)
  <2> SUFFICES ASSUME ~uncertain, job.kind = "Update", i = job.id, job.secret = "Keep", gens[i] # 0
               PROVE  FALSE
    OBVIOUS
  <2>1. loaded[i] # NoProfile
    BY DEF SecretInv, MutationKnown, LoadedKnown, Cleaning, FenceInv, PublishedHasGeneration
  <2>2. ~ \E g \in targets : g.id = i /\ g.clear
    BY DEF SecretInv, MutationKnown, FenceKnown
  <2> QED
    BY <2>1, <2>2 DEF NextSecrets, Local
<1>4. ASSUME NEW j \in Ids, gens[j] # 0, sessions[j].pgen = gens[j] PROVE sessions[j].secret # secrets[i]
  <2>1. CASE j # i
    BY <2>1 DEF SecretInv, SecretOwned
  <2>2. CASE j = i
    <3>1. /\ ~uncertain /\ job.kind = "Update" /\ i = job.id
          /\ sessions[i].fp.mode = "Session" => job.secret = "Keep"
      BY <1>2, <1>4, <2>2 DEF OnlyRetagged
    <3>2. sessions[i].fp.mode # "Session"
      BY <1>3, <1>4, <2>2, <3>1
    <3> QED
      BY <2>2, <3>2 DEF SecretInv, SecretNeeded
  <2> QED
    BY <2>1, <2>2
<1>5. ASSUME NEW t \in Tasks, task[t].lease.pgen # 0, task[t].lease.pgen = gens[task[t].id]
      PROVE  task[t].lease.secret # secrets[i]
  <2>1. task[t].pc # "idle" /\ task[t].gen = gens[task[t].id]
    BY <1>5 DEF Typed, TasksTyped, WellFormed, NoTask, NoSession
  <2>2. task[t].id # i
    BY <1>2, <1>5, <2>1 DEF Behind
  <2> QED
    BY <2>2 DEF SecretInv, SecretOwned
<1> QED
  BY <1>4, <1>5

\* A secret that a mutation, a reload or the uncertain barrier removes or replaces
\* is used by nothing that can still be handed out or go on, and between mutations
\* a secret is kept only for a published profile that asks for one, none while the
\* configuration is uncertain (apply_deferred_cleanup, SessionSecretStore).
THEOREM SecretsAreSound == Spec => []SecretsSound
<1>1. Init => Typed /\ FenceInv /\ SecretInv
  BY TypedInit, FenceInit, SecretsInit
<1>2. Typed /\ FenceInv /\ SecretInv /\ [Next]_vars => (Typed /\ FenceInv /\ SecretInv)'
  BY TypedStep, FenceStep, SecretsStep
<1>3. Typed /\ FenceInv /\ SecretInv => SecretsSound
  <2> SUFFICES ASSUME Typed, FenceInv, SecretInv PROVE SecretsBelongToProfiles
    BY ClearingIsSound DEF SecretsSound
  <2> QED
    BY DEF SecretInv, SecretsPlanned, SecretsBelongToProfiles, Cleaning
<1> QED
  BY <1>1, <1>2, <1>3, PTL DEF Spec
=============================================================================
