--------------------------- MODULE ProfileService ---------------------------
(***************************************************************************)
(* ApplicationService of src/service.rs: the observed profiles and their   *)
(* generations, the session cache, the session secrets and the config-     *)
(* uncertain barrier, shared by one mutation at a time and by the network  *)
(* and control tasks of the controller (src/ui/runtime.rs).                *)
(*                                                                         *)
(* Every action is what runs between two awaits: in particular             *)
(* reconcile_after_mutation reads the cache under one lock and publishes   *)
(* under another, and a connection is made between the cache lookup and    *)
(* the installation.  The configuration file is the atomic variable        *)
(* "disk" (AtomicConfig); requests that a check rejects before any change  *)
(* leave no trace and are not steps of the model.                          *)
(***************************************************************************)
EXTENDS Naturals, FiniteSets

CONSTANTS Ids,       \* profile ids, naturals so that they are ordered
          Tasks,     \* slots for network and control operations
          Profiles,  \* profiles the user saves: [conn, label, mode]
          InitialProfiles, EditedProfiles,  \* configurations: [Ids -> Profile or none]
          MaxMutations, MaxTasks, MaxEdits  \* bounds

ASSUME IdsAssumption == Ids \subseteq Nat /\ IsFiniteSet(Ids)
ASSUME BoundsAssumption == MaxMutations \in Nat /\ MaxTasks \in Nat /\ MaxEdits \in Nat

Modes == {"None", "Session", "Environment"}
NoProfile == [conn |-> "none", label |-> "none", mode |-> "none"]
Configs == [Ids -> Profiles \cup {NoProfile}]
\* A file load_path or the identity check rejects.
Unreadable == [i \in Ids |-> [conn |-> "unreadable", label |-> "none", mode |-> "none"]]

ASSUME ProfilesAssumption ==
    /\ \A p \in Profiles : p.mode \in Modes
    /\ NoProfile \notin Profiles
    /\ InitialProfiles \in Configs
    /\ EditedProfiles \subseteq Configs \cup {Unreadable}

\* ConnectionFingerprint: everything but the display name.
Fingerprint(p) == [conn |-> p.conn, mode |-> p.mode]

\* A cached session.  The secret it was authenticated with is not part of it in
\* the code; the properties need it.
NoSession == [pgen |-> 0, sgen |-> 0, fp |-> Fingerprint(NoProfile), secret |-> 0]
NoTarget == [id |-> 0, pgen |-> 0, session |-> NoSession, clear |-> FALSE]

VARIABLES
    profiles, gens, tombs,       \* ObservedState; generation 0 is none
    uncertain, nextGen,
    disk,
    sessions, nextSession,       \* ServiceState.sessions
    secrets, nextSecret,         \* SessionSecretStore; 0 is none
    \* the mutation in progress
    mpc, job, loaded, snap, targets, fence, waiters, hadActive,
    \* the tasks, and the generation of each profile the UI knows
    task, known,
    \* history: open connections, and secrets a mutation removed
    open, revoked,
    mutations, starts, edits, down

observedVars == <<profiles, gens, tombs, uncertain, nextGen>>
cacheVars == <<sessions, nextSession>>
secretVars == <<secrets, nextSecret, revoked>>
mutationVars == <<mpc, job, loaded, snap, targets, fence, waiters, hadActive>>
bounds == <<mutations, starts, edits, down>>
vars == <<observedVars, disk, cacheVars, secretVars, mutationVars, task, known, open, bounds>>

NoJob == [kind |-> "none", id |-> 0, profile |-> NoProfile, secret |-> "Keep", eligible |-> FALSE]
NoTask == [pc |-> "idle", kind |-> "work", id |-> 0, gen |-> 0, cancel |-> FALSE,
           lease |-> NoSession, old |-> 0, captured |-> 0, targets |-> {}, plan |-> "none",
           result |-> "none"]
NoFence == [previous |-> NoSession, pgen |-> 0, fp |-> Fingerprint(NoProfile), eligible |-> FALSE]

Init ==
    /\ profiles = InitialProfiles
    /\ gens = [i \in Ids |-> IF InitialProfiles[i] = NoProfile THEN 0
                             ELSE 1 + Cardinality({j \in Ids : j < i /\ InitialProfiles[j] # NoProfile})]
    /\ nextGen = 1 + Cardinality({i \in Ids : InitialProfiles[i] # NoProfile})
    /\ tombs = [i \in Ids |-> 0]
    /\ uncertain = FALSE
    /\ disk = InitialProfiles
    /\ sessions = [i \in Ids |-> NoSession] /\ nextSession = 1
    /\ secrets = [i \in Ids |-> 0] /\ nextSecret = 1
    /\ mpc = "idle" /\ job = NoJob /\ loaded = InitialProfiles
    /\ snap = [i \in Ids |-> NoSession]
    /\ targets = {} /\ fence = NoFence /\ waiters = {} /\ hadActive = FALSE
    /\ task = [t \in Tasks |-> NoTask]
    /\ known = gens
    /\ open = {} /\ revoked = {}
    /\ mutations = 0 /\ starts = 0 /\ edits = 0 /\ down = FALSE

-----------------------------------------------------------------------------
(* The session cache.                                                      *)

\* The task is in the controller's registry, until its completion is handled.
Registered(t) == task[t].pc # "idle"

\* It holds its profile's permit, or is queued for it.
OwnsProfile(t) ==
    \/ task[t].pc \notin {"idle", "captured", "waitTargets", "finished"}
    \/ task[t].pc = "waitTargets" /\ task[t].kind = "reconnect"

\* handle_control holds the controller between its two halves.
ControllerFree == ~down /\ \A t \in Tasks : task[t].pc # "captured"

\* The generation is current and the configuration certain: the check of
\* session_for, of the installation and of ensure_session_observation.
Current(id, gen) == ~uncertain /\ gens[id] = gen /\ gen # 0

\* A cached session that session_for may hand out.
CacheHit(id, gen) ==
    sessions[id].pgen = gen /\ sessions[id].fp = Fingerprint(profiles[id])

\* take_cached_session_exact for each (id, pgen, sgen), and close what was taken.
EvictExact(identities) ==
    LET taken == {i \in Ids : sessions[i] # NoSession
                              /\ <<i, sessions[i].pgen, sessions[i].sgen>> \in identities}
    IN  /\ sessions' = [i \in Ids |-> IF i \in taken THEN NoSession ELSE sessions[i]]
        /\ open' = open \ {sessions[i].sgen : i \in taken}

-----------------------------------------------------------------------------
(* Tasks.                                                                  *)

\* The task sends Completed and releases its permits.
Finish(t, result) ==
    task' = [task EXCEPT ![t] = [NoTask EXCEPT !.pc = "finished", !.result = result,
                                   !.kind = task[t].kind, !.id = task[t].id, !.gen = task[t].gen,
                                   !.cancel = task[t].cancel, !.lease = task[t].lease]]

TaskFrame == UNCHANGED <<observedVars, disk, secretVars, mutationVars, known, bounds>>

\* Mutant: the terminal token is not cancelled.
CompletedSilently(t) ==
    /\ ControllerFree /\ task[t].pc = "finished"
    /\ task' = [task EXCEPT ![t] = NoTask]
    /\ UNCHANGED <<observedVars, disk, cacheVars, secretVars, mutationVars, known, open, bounds>>

\* handle_controller_message: the terminal event, and the terminal token that a
\* control or a mutation may be waiting for.
Completed(t) ==
    /\ ControllerFree /\ task[t].pc = "finished"
    /\ task' = [u \in Tasks |-> IF u = t THEN NoTask ELSE [task[u] EXCEPT !.targets = @ \ {t}]]
    /\ waiters' = waiters \ {t}
    /\ UNCHANGED <<observedVars, disk, cacheVars, secretVars, mpc, job, loaded, snap, targets,
                   fence, hadActive, known, open, bounds>>

\* start_profile_work: at most one network task per profile.
StartWork(t, id) ==
    /\ ControllerFree /\ ~Registered(t) /\ starts < MaxTasks
    /\ ~uncertain /\ known[id] # 0
    /\ \A u \in Tasks : Registered(u) => task[u].id # id
    /\ task' = [task EXCEPT ![t] =
                  [NoTask EXCEPT !.pc = "acquire", !.id = id, !.gen = known[id]]]
    /\ starts' = starts + 1
    /\ UNCHANGED <<observedVars, disk, cacheVars, secretVars, mutationVars, known, open,
                   mutations, edits, down>>

\* acquire_session_at: a lease from the cache, or the profile to connect with.
Acquire(t) ==
    LET id == task[t].id
        gen == task[t].gen
    IN  /\ task[t].pc = "acquire"
        /\ \/ ~Current(id, gen) /\ Finish(t, "stale")
           \/ /\ Current(id, gen) /\ CacheHit(id, gen)
              /\ task' = [task EXCEPT ![t].pc = "operate", ![t].lease = sessions[id]]
           \/ /\ Current(id, gen) /\ ~CacheHit(id, gen)
              /\ task' = [task EXCEPT ![t].pc = "credential",
                            ![t].lease = [NoSession EXCEPT !.pgen = gen,
                                                           !.fp = Fingerprint(profiles[id])]]
        /\ UNCHANGED <<cacheVars, open>> /\ TaskFrame

\* resolve_profile_secret and allocate_session_generation, with no lock held.
Credential(t) ==
    LET mode == task[t].lease.fp.mode
        secret == IF mode = "Session" THEN secrets[task[t].id] ELSE 0
    IN  /\ task[t].pc = "credential"
        /\ \/ /\ mode = "Environment" \/ (mode = "Session" /\ secret = 0)
              /\ Finish(t, "credential")
              /\ UNCHANGED nextSession
           \/ /\ mode = "Session" => secret # 0
              /\ task' = [task EXCEPT ![t].pc = "connecting", ![t].lease.sgen = nextSession,
                                      ![t].lease.secret = secret]
              /\ nextSession' = nextSession + 1
        /\ UNCHANGED <<sessions, open>> /\ TaskFrame

\* The driver's connect; a failure is reported as stale if the profile moved on.
Connect(t) ==
    LET current == Current(task[t].id, task[t].lease.pgen)
    IN  /\ task[t].pc = "connecting"
        /\ \/ Finish(t, IF current THEN "failed" ELSE "stale") /\ UNCHANGED open
           \/ /\ task' = [task EXCEPT ![t].pc = "install"]
              /\ open' = open \cup {task[t].lease.sgen}
        /\ UNCHANGED cacheVars /\ TaskFrame

\* Mutant: a connection that came too late is dropped from view, not closed.
InstallLeakingStale(t) ==
    LET lease == task[t].lease
        is_current == Current(task[t].id, lease.pgen)
    IN  /\ task[t].pc = "install"
        /\ \/ ~is_current /\ Finish(t, "stale") /\ UNCHANGED sessions
           \/ /\ is_current
              /\ sessions' = [sessions EXCEPT ![task[t].id] = lease]
              /\ task' = [task EXCEPT
                            ![t].pc = IF sessions[task[t].id] = NoSession THEN "operate" ELSE "displacing",
                            ![t].old = sessions[task[t].id].sgen]
        /\ UNCHANGED <<nextSession, open>> /\ TaskFrame

\* The CacheInstall decision, taken under the write lock.
Install(t) ==
    LET id == task[t].id
        lease == task[t].lease
        gen == lease.pgen
        is_current == Current(id, gen) /\ Fingerprint(profiles[id]) = lease.fp
    IN  /\ task[t].pc = "install"
        /\ \/ /\ ~is_current
              /\ Finish(t, "stale")
              /\ open' = open \ {lease.sgen}
              /\ UNCHANGED sessions
           \/ /\ is_current /\ CacheHit(id, gen)
              /\ task' = [task EXCEPT ![t].pc = "operate", ![t].lease = sessions[id]]
              /\ open' = open \ {lease.sgen}
              /\ UNCHANGED sessions
           \/ /\ is_current /\ ~CacheHit(id, gen)
              /\ sessions' = [sessions EXCEPT ![id] = lease]
              /\ task' = [task EXCEPT
                            ![t].pc = IF sessions[id] = NoSession THEN "operate" ELSE "displacing",
                            ![t].old = sessions[id].sgen]
              /\ UNCHANGED open
        /\ UNCHANGED nextSession /\ TaskFrame

\* The displaced handle is closed before the lease is returned.
CloseDisplaced(t) ==
    /\ task[t].pc = "displacing"
    /\ open' = open \ {task[t].old}
    /\ task' = [task EXCEPT ![t].pc = "operate", ![t].old = 0]
    /\ UNCHANGED cacheVars /\ TaskFrame

\* The driver's answer: SessionDisposition says whether an error evicts.  A panic
\* in the driver ends the task, and cleanup_failed_scope evicts for it.
Operate(t) ==
    /\ task[t].pc = "operate"
    /\ \/ \E result \in {"ok", "failed", "broken"} :
            task' = [task EXCEPT ![t].pc = "observe", ![t].result = result]
       \/ task' = [task EXCEPT ![t].pc = "evict", ![t].result = "panic"]
    /\ UNCHANGED <<cacheVars, open>> /\ TaskFrame

\* Mutant: the answer is reported without looking at the generation again.
ObserveUnchecked(t) ==
    /\ task[t].pc = "observe"
    /\ Finish(t, task[t].result)
    /\ UNCHANGED <<cacheVars, open>> /\ TaskFrame

\* observe_session.
Observe(t) ==
    LET current == Current(task[t].id, task[t].lease.pgen)
        result == task[t].result
    IN  /\ task[t].pc = "observe"
        /\ \/ current /\ result # "broken" /\ Finish(t, result)
           \/ /\ ~current \/ result = "broken"
              /\ task' = [task EXCEPT ![t].pc = "evict",
                            ![t].result = IF current THEN "failed" ELSE "stale"]
        /\ UNCHANGED <<cacheVars, open>> /\ TaskFrame

\* evict_session_lease.
EvictLease(t) ==
    LET lease == task[t].lease
    IN  /\ task[t].pc = "evict"
        /\ EvictExact({<<task[t].id, lease.pgen, lease.sgen>>})
        /\ Finish(t, task[t].result)
        /\ UNCHANGED nextSession /\ TaskFrame

\* Mutant: only the connection is raced against the deadline, not the operation.
InterruptConnecting(t) ==
    /\ task[t].pc \in {"acquire", "credential", "connecting"}
    /\ Finish(t, "cancelled")
    /\ UNCHANGED <<cacheVars, open>> /\ TaskFrame

\* Cancel token or deadline: the future being awaited is dropped, with the
\* connection it owns; a lease, once returned, is evicted.
Interrupt(t) ==
    /\ \/ /\ task[t].pc \in {"acquire", "credential", "connecting"}
          /\ Finish(t, "cancelled")
          /\ UNCHANGED open
       \/ /\ task[t].pc = "install"
          /\ Finish(t, "cancelled")
          /\ open' = open \ {task[t].lease.sgen}
       \/ /\ task[t].pc = "displacing"
          /\ Finish(t, "cancelled")
          /\ open' = open \ {task[t].old}
       \/ /\ task[t].pc = "operate"
          /\ task' = [task EXCEPT ![t].pc = "evict", ![t].result = "cancelled"]
          /\ UNCHANGED open
    /\ UNCHANGED cacheVars /\ TaskFrame

\* handle_control reads the session to evict ...
Capture(t, kind, id) ==
    /\ ControllerFree /\ ~Registered(t) /\ starts < MaxTasks
    /\ ~uncertain /\ known[id] # 0
    /\ kind = "reconnect" => gens[id] = known[id]
    /\ task' = [task EXCEPT ![t] =
                  [NoTask EXCEPT !.pc = "captured", !.kind = kind, !.id = id, !.gen = known[id],
                     !.captured = IF sessions[id].pgen = known[id] THEN sessions[id].sgen ELSE 0]]
    /\ starts' = starts + 1
    /\ UNCHANGED <<observedVars, disk, cacheVars, secretVars, mutationVars, known, open,
                   mutations, edits, down>>

\* ... and start_profile_control cancels the profile's tasks.  A reconnect that
\* waits for none needs the profile's permit at once.
CancelTargets(t) ==
    LET others == {u \in Tasks \ {t} : Registered(u) /\ task[u].id = task[t].id}
        cancelled == {u \in others : task[u].gen = task[t].gen}
        busy == task[t].kind = "reconnect" /\ cancelled = {} /\ \E u \in others : OwnsProfile(u)
    IN  /\ task[t].pc = "captured"
        /\ task' = [u \in Tasks |->
              CASE u = t /\ busy -> NoTask
                [] u = t /\ ~busy -> [task[t] EXCEPT !.pc = "waitTargets", !.targets = cancelled,
                                        !.plan = IF cancelled = {} THEN "Ready" ELSE "Wait"]
                [] u # t -> [task[u] EXCEPT !.cancel = @ \/ u \in cancelled]]
        /\ UNCHANGED <<cacheVars, open>> /\ TaskFrame

\* run_profile_control, once every target is terminal.
Disconnect(t) ==
    /\ task[t].pc = "waitTargets" /\ task[t].kind = "disconnect" /\ task[t].targets = {}
    /\ \/ task[t].cancel /\ Finish(t, "cancelled") /\ UNCHANGED <<sessions, open>>
       \/ ~task[t].cancel /\ gens[task[t].id] # task[t].gen /\ Finish(t, "stale")
          /\ UNCHANGED <<sessions, open>>
       \/ /\ ~task[t].cancel /\ gens[task[t].id] = task[t].gen
          /\ EvictExact({<<task[t].id, task[t].gen, task[t].captured>>})
          /\ Finish(t, "closed")
    /\ UNCHANGED nextSession /\ TaskFrame

\* acquire_reconnect_permits_after_targets: its own cancel or deadline ends a
\* reconnect that had to wait, but not before its targets are terminal.
Reconnect(t) ==
    /\ task[t].pc = "waitTargets" /\ task[t].kind = "reconnect" /\ task[t].targets = {}
    /\ \/ task[t].plan = "Wait" /\ Finish(t, "cancelled") /\ UNCHANGED <<sessions, open>>
       \/ /\ task[t].plan = "Wait" =>
               /\ ~task[t].cancel
               /\ \A u \in Tasks \ {t} :
                    task[u].id = task[t].id /\ OwnsProfile(u) => task[u].pc = "waitTargets"
          /\ EvictExact({<<task[t].id, task[t].gen, task[t].captured>>})
          /\ task' = [task EXCEPT ![t].pc = "acquire"]
    /\ UNCHANGED nextSession /\ TaskFrame

-----------------------------------------------------------------------------
(* Mutations: one at a time (the controller's mutation_active and the      *)
(* service's mutation_lane).                                               *)

MutationFrame == UNCHANGED <<known, mutations, starts, edits, down>>

\* validate_create_secret_update and validate_update_secret.
SecretUpdateAllowed(kind, id, mode, update) ==
    CASE update = "Clear" -> TRUE
      [] update = "Replace" -> mode = "Session"
      [] update = "Keep" -> /\ kind = "Update" /\ mode = "Session"
                            /\ profiles[id].mode = "Session" /\ secrets[id] # 0

\* The checks made before the write.
Begin(kind, id, profile, update) ==
    /\ ControllerFree /\ mpc = "idle" /\ mutations < MaxMutations
    /\ ~uncertain
    /\ kind \in {"Update", "Delete"} => known[id] = gens[id] /\ gens[id] # 0
    /\ kind # "Delete" => SecretUpdateAllowed(kind, id, profile.mode, update)
    /\ mpc' = "write"
    /\ job' = [kind |-> kind, id |-> id, profile |-> profile, secret |-> update,
               eligible |-> /\ kind = "Update"
                            /\ Fingerprint(profiles[id]) = Fingerprint(profile)
                            /\ profile.mode = "Session" => update = "Keep"]
    /\ mutations' = mutations + 1
    /\ UNCHANGED <<observedVars, disk, cacheVars, secretVars, loaded, snap, targets, fence,
                   waiters, hadActive, task, known, open, starts, edits, down>>

\* apply_mutation on the file: a conflict is answered with an error.
WriteAllowed ==
    /\ disk # Unreadable
    /\ job.kind = "Create" => disk[job.id] = NoProfile
    /\ job.kind \in {"Update", "Delete"} => disk[job.id] = profiles[job.id]

Written == [disk EXCEPT ![job.id] = IF job.kind = "Delete" THEN NoProfile ELSE job.profile]

\* write_config: refused, committed and observed, or committed and not observed.
\* Another program may edit the file before it is observed; an observed file
\* that does not show this mutation's effect is not trusted.
Write ==
    /\ mpc = "write"
    /\ \/ /\ mpc' = "idle" /\ job' = NoJob
          /\ UNCHANGED <<disk, loaded, uncertain, edits>>
       \/ /\ WriteAllowed
          /\ \E seen \in {Written} \cup (IF edits < MaxEdits THEN EditedProfiles ELSE {}),
                observed \in BOOLEAN :
               /\ disk' = seen /\ UNCHANGED job
               /\ edits' = IF seen = Written THEN edits ELSE edits + 1
               /\ IF observed /\ seen # Unreadable /\ seen[job.id] = Written[job.id]
                  THEN mpc' = "snapshot" /\ loaded' = seen /\ UNCHANGED uncertain
                  ELSE mpc' = "fence" /\ uncertain' = TRUE /\ UNCHANGED loaded
    /\ UNCHANGED <<profiles, gens, tombs, nextGen, cacheVars, secretVars, snap, targets,
                   fence, waiters, hadActive, task, known, open, mutations, starts, down>>

\* reload_configuration_for_runtime: the only mutation that runs while uncertain.
Reload ==
    /\ ControllerFree /\ mpc = "idle" /\ mutations < MaxMutations
    /\ mutations' = mutations + 1
    /\ job' = [NoJob EXCEPT !.kind = "Reload"]
    /\ \/ disk # Unreadable /\ mpc' = "snapshot" /\ loaded' = disk /\ UNCHANGED uncertain
       \/ mpc' = "fence" /\ uncertain' = TRUE /\ UNCHANGED loaded
    /\ UNCHANGED <<profiles, gens, tombs, nextGen, disk, cacheVars, secretVars, snap, targets,
                   fence, waiters, hadActive, task, known, open, starts, edits, down>>

\* Mutant: generations are numbered from one, as by the first load.
FreshRestarted(ids, id) == 1 + Cardinality({j \in ids : j < id})

\* allocate_profile_generation for each id of a set.
Fresh(ids, id) == nextGen + Cardinality({j \in ids : j < id})

\* enter_config_uncertain_deferred, under the write lock.
FenceAll ==
    LET live == {i \in Ids : gens[i] # 0}
    IN  /\ mpc = "fence"
        /\ targets' = {[id |-> i, pgen |-> gens[i], session |-> sessions[i], clear |-> TRUE] :
                         i \in live}
        /\ gens' = [i \in Ids |-> IF i \in live THEN Fresh(live, i) ELSE 0]
        /\ nextGen' = nextGen + Cardinality(live)
        /\ fence' = NoFence
        /\ mpc' = "completed"
        /\ UNCHANGED <<profiles, tombs, uncertain, disk, cacheVars, secretVars, job, loaded, snap,
                       waiters, hadActive, task, open>>
        /\ MutationFrame

\* reconcile_after_mutation and replace_loaded_config: the read lock ...
Snapshot ==
    /\ mpc = "snapshot"
    /\ snap' = sessions
    /\ mpc' = "publish"
    /\ UNCHANGED <<observedVars, disk, cacheVars, secretVars, job, loaded, targets, fence,
                   waiters, hadActive, task, open>>
    /\ MutationFrame

\* The profile this mutation is about, if any.
Local(i) == job.kind # "Reload" /\ i = job.id

\* Mutant: a change made by another program keeps the generation.
RenewedLocally == {i \in Ids : loaded[i] # NoProfile /\ (profiles[i] = NoProfile \/ Local(i))}

\* Profiles that keep no generation: published with a new one, or a tombstone.
Renewed == {i \in Ids : loaded[i] # NoProfile
                        /\ (loaded[i] # profiles[i] \/ Local(i))}
Removed == {i \in Ids : /\ loaded[i] = NoProfile
                        /\ IF job.kind = "Reload" THEN profiles[i] # NoProfile
                           ELSE job.kind = "Delete" /\ Local(i)}
\* Profiles whose previous generation is cleaned up.
Outdated == {i \in Ids : /\ profiles[i] # NoProfile
                         /\ loaded[i] # profiles[i] \/ (Local(i) /\ job.kind # "Create")}

\* ... and the write lock, with the session identities read before.
Publish ==
    LET deferred(i) == job.kind = "Update" /\ Local(i)
    IN  /\ mpc = "publish"
        /\ profiles' = loaded
        /\ gens' = [i \in Ids |-> IF i \in Renewed THEN Fresh(Renewed \cup Removed, i)
                                  ELSE IF loaded[i] = NoProfile THEN 0 ELSE gens[i]]
        /\ tombs' = [i \in Ids |-> IF i \in Removed THEN Fresh(Renewed \cup Removed, i)
                                   ELSE tombs[i]]
        /\ nextGen' = nextGen + Cardinality(Renewed \cup Removed)
        /\ targets' = {[id |-> i, pgen |-> gens[i],
                        session |-> IF deferred(i) THEN NoSession ELSE snap[i],
                        clear |-> ~Local(i) \/ job.kind = "Delete"] : i \in Outdated}
        /\ fence' = IF job.kind = "Update" /\ job.id \in Outdated /\ snap[job.id] # NoSession
                    THEN [previous |-> snap[job.id], pgen |-> gens'[job.id],
                          fp |-> Fingerprint(loaded[job.id]), eligible |-> job.eligible]
                    ELSE NoFence
        /\ uncertain' = IF job.kind = "Reload" THEN FALSE ELSE uncertain
        /\ mpc' = "completed"
        /\ UNCHANGED <<disk, cacheVars, secretVars, job, loaded, snap, waiters, hadActive, task, open>>
        /\ MutationFrame

\* The controller takes the completion: mutation_completion_waiters.
Complete ==
    LET fenced == {t \in Tasks : /\ Registered(t)
                                 /\ \/ uncertain
                                    \/ \E g \in targets : g.id = task[t].id /\ g.pgen = task[t].gen}
    IN  /\ mpc = "completed" /\ ControllerFree
        /\ waiters' = fenced
        /\ hadActive' = (job.kind \in {"Update", "Delete"} /\ \E t \in fenced : task[t].id = job.id)
        /\ task' = [t \in Tasks |-> IF t \in fenced THEN [task[t] EXCEPT !.cancel = TRUE] ELSE task[t]]
        /\ mpc' = "resolve"
        /\ UNCHANGED <<observedVars, disk, cacheVars, secretVars, job, loaded, snap, targets, fence, open>>
        /\ MutationFrame

\* Mutant: the completion does not wait for the cancelled tasks.
ResolveAtOnce ==
    /\ mpc = "resolve"
    /\ mpc' = "evict"
    /\ UNCHANGED <<observedVars, disk, cacheVars, secretVars, job, loaded, snap, targets, fence,
                   waiters, hadActive, task, open>>
    /\ MutationFrame

\* resolve_deferred_session: an idle session of an edit that does not touch the
\* connection is retagged, any other is evicted.
Resolve ==
    LET id == job.id
        previous == fence.previous
    IN  /\ mpc = "resolve" /\ waiters = {}
        /\ mpc' = "evict"
        /\ \/ fence = NoFence /\ UNCHANGED <<sessions, open>>
           \/ /\ fence # NoFence /\ fence.eligible /\ ~hadActive
              /\ sessions' = IF sessions[id] = previous /\ previous.fp = fence.fp
                             THEN [sessions EXCEPT ![id].pgen = fence.pgen] ELSE sessions
              /\ UNCHANGED open
           \/ /\ fence # NoFence /\ ~(fence.eligible /\ ~hadActive)
              /\ EvictExact({<<id, previous.pgen, previous.sgen>>})
        /\ UNCHANGED <<observedVars, disk, nextSession, secretVars, job, loaded, snap, targets, fence,
                       waiters, hadActive, task>>
        /\ MutationFrame

\* apply_deferred_cleanup: the exact sessions of the targets ...
EvictTargets ==
    /\ mpc = "evict"
    /\ EvictExact({<<g.id, g.session.pgen, g.session.sgen>> :
                     g \in {h \in targets : h.session # NoSession}})
    /\ mpc' = "secrets"
    /\ UNCHANGED <<observedVars, disk, nextSession, secretVars, job, loaded, snap, targets, fence,
                   waiters, hadActive, task>>
    /\ MutationFrame

\* Mutant: only this mutation's own profile is looked at.
NextSecretsLocally ==
    [i \in Ids |->
        IF Local(i) /\ job.secret = "Replace" THEN nextSecret
        ELSE IF Local(i) /\ job.secret = "Clear" THEN 0 ELSE secrets[i]]

\* The secrets of this mutation, after it.
NextSecrets ==
    IF uncertain THEN [i \in Ids |-> 0]
    ELSE [i \in Ids |->
            IF Local(i) /\ job.kind # "Delete" /\ job.secret = "Replace" THEN nextSecret
            ELSE IF \/ \E g \in targets : g.id = i /\ g.clear
                    \/ loaded[i] = NoProfile
                    \/ Local(i) /\ job.kind # "Delete" /\ job.secret = "Clear"
                 THEN 0 ELSE secrets[i]]

\* ... then the secrets; the event tells the UI the new generations.
ClearSecrets ==
    /\ mpc = "secrets"
    /\ secrets' = NextSecrets
    /\ nextSecret' = IF job.secret = "Replace" THEN nextSecret + 1 ELSE nextSecret
    /\ revoked' = revoked \cup {secrets[i] : i \in {j \in Ids : NextSecrets[j] # secrets[j]}}
    /\ known' = [i \in Ids |->
                   IF uncertain THEN known[i]
                   ELSE IF job.kind = "Reload" \/ i = job.id THEN gens[i] ELSE known[i]]
    /\ mpc' = "idle" /\ job' = NoJob /\ targets' = {} /\ fence' = NoFence /\ hadActive' = FALSE
    /\ snap' = [i \in Ids |-> NoSession]
    /\ UNCHANGED <<observedVars, disk, cacheVars, loaded, waiters, task, open,
                   mutations, starts, edits, down>>

\* store_session_credential_exact: the answer to a credential prompt.
StoreSecret(id) ==
    /\ ControllerFree /\ mpc = "idle" /\ mutations < MaxMutations
    /\ ~uncertain /\ gens[id] = known[id] /\ gens[id] # 0
    /\ profiles[id].mode = "Session"
    /\ secrets' = [secrets EXCEPT ![id] = nextSecret]
    /\ nextSecret' = nextSecret + 1
    /\ mutations' = mutations + 1
    /\ UNCHANGED <<observedVars, disk, cacheVars, revoked, mutationVars, task, known, open,
                   starts, edits, down>>

-----------------------------------------------------------------------------
(* The environment, and the end.                                           *)

EditDisk ==
    /\ ~down /\ edits < MaxEdits
    /\ edits' = edits + 1
    /\ disk' \in EditedProfiles
    /\ UNCHANGED <<observedVars, cacheVars, secretVars, mutationVars, task, known, open,
                   mutations, starts, down>>

\* shutdown_runtime, when the controller has joined every task.
Shutdown ==
    /\ ~down /\ mpc = "idle" /\ \A t \in Tasks : ~Registered(t)
    /\ down' = TRUE
    /\ sessions' = [i \in Ids |-> NoSession]
    /\ open' = open \ {sessions[i].sgen : i \in Ids}
    /\ secrets' = [i \in Ids |-> 0]
    /\ UNCHANGED <<observedVars, disk, nextSession, nextSecret, revoked, mutationVars, task, known,
                   mutations, starts, edits>>

TaskStep(t) ==
    \/ Acquire(t) \/ Credential(t) \/ Connect(t) \/ Install(t) \/ CloseDisplaced(t) \/ Operate(t) \/ Observe(t)
    \/ EvictLease(t) \/ Completed(t) \/ Interrupt(t) \/ CancelTargets(t) \/ Disconnect(t) \/ Reconnect(t)

MutationStep ==
    \/ Write \/ FenceAll \/ Snapshot \/ Publish \/ Complete \/ Resolve \/ EvictTargets
    \/ ClearSecrets

SecretUpdates == {"Keep", "Clear", "Replace"}

Next ==
    \/ \E t \in Tasks :
         \/ TaskStep(t)
         \/ \E id \in Ids : \/ StartWork(t, id)
                            \/ \E kind \in {"disconnect", "reconnect"} : Capture(t, kind, id)
    \/ \E id \in Ids :
         \/ StoreSecret(id)
         \/ Begin("Delete", id, NoProfile, "Clear")
         \/ \E kind \in {"Create", "Update"}, p \in Profiles, update \in SecretUpdates :
              Begin(kind, id, p, update)
    \/ Reload \/ MutationStep \/ EditDisk \/ Shutdown

Spec == Init /\ [][Next]_vars

\* What is awaited in a task and in a mutation returns: locks are released, the
\* configuration writer and close() return.  A driver need never answer: what is
\* fair is the deadline, or the cancellation, it is raced against.
TaskProgress(t) ==
    \/ Acquire(t) \/ Credential(t) \/ Install(t) \/ CloseDisplaced(t) \/ Observe(t) \/ EvictLease(t)
    \/ Completed(t) \/ Interrupt(t) \/ CancelTargets(t) \/ Disconnect(t) \/ Reconnect(t)

FairSpec ==
    /\ Spec
    /\ WF_vars(MutationStep)
    /\ \A t \in Tasks : WF_vars(TaskProgress(t)) /\ SF_vars(Completed(t))
-----------------------------------------------------------------------------
(* Properties.                                                             *)

Fingerprints == {Fingerprint(p) : p \in Profiles \cup {NoProfile}}
Sessions == [pgen : 0..(nextGen - 1), sgen : 0..(nextSession - 1), fp : Fingerprints,
             secret : 0..(nextSecret - 1)]
TaskSteps == {"idle", "captured", "waitTargets", "acquire", "credential", "connecting", "install",
              "displacing", "operate", "observe", "evict", "finished"}
MutationSteps == {"idle", "write", "fence", "snapshot", "publish", "completed", "resolve", "evict",
                  "secrets"}

TypeOK ==
    /\ profiles \in Configs /\ disk \in Configs \cup {Unreadable} /\ loaded \in Configs
    /\ nextGen \in Nat \ {0} /\ nextSession \in Nat \ {0} /\ nextSecret \in Nat \ {0}
    /\ gens \in [Ids -> 0..(nextGen - 1)] /\ tombs \in [Ids -> 0..(nextGen - 1)]
    /\ known \in [Ids -> 0..(nextGen - 1)]
    /\ uncertain \in BOOLEAN /\ hadActive \in BOOLEAN /\ down \in BOOLEAN
    /\ sessions \in [Ids -> Sessions] /\ snap \in [Ids -> Sessions]
    /\ open \subseteq 1..(nextSession - 1)
    /\ secrets \in [Ids -> 0..(nextSecret - 1)] /\ revoked \subseteq 0..(nextSecret - 1)
    /\ mpc \in MutationSteps /\ waiters \subseteq Tasks
    /\ \A t \in Tasks :
         /\ task[t].pc \in TaskSteps /\ task[t].lease \in Sessions
         /\ task[t].gen < nextGen /\ task[t].targets \subseteq Tasks \ {t}
    /\ mutations <= MaxMutations /\ starts <= MaxTasks /\ edits <= MaxEdits

\* allocate_profile_generation: no two profiles share a generation, and a profile
\* created again is newer than the deletion before it.
GenerationsFresh ==
    \A i \in Ids : gens[i] # 0 =>
        /\ gens[i] > tombs[i]
        /\ \A j \in Ids \ {i} : gens[i] \notin {gens[j], tombs[j]}

\* A generation stands for one profile body: as long as the generation of an id
\* stays, its profile does, whoever edits the file and whichever mutation or
\* reload publishes it; and a generation that is given up never comes back.
GenerationPinsProfile ==
    [][\A i \in Ids : gens[i] # 0 =>
         \/ gens'[i] = gens[i] /\ profiles'[i] = profiles[i]
         \/ gens'[i] = 0
         \/ \A j \in Ids : gens'[i] > gens[j]]_vars

\* session_for hands out a cached session by its profile generation: a session
\* tagged with the current one, retagged or not, was opened with the connection
\* fields that are published now.
CurrentSessionMatchesProfile ==
    \A i \in Ids : gens[i] # 0 /\ sessions[i].pgen = gens[i] =>
        sessions[i].fp = Fingerprint(profiles[i])

\* An operation is answered as successful only if, when it is, its profile's
\* generation is current, the configuration certain, and the connection it used
\* is one of the profile as it is published then (observe_session).
ReadyIsCurrent ==
    [][\A t \in Tasks :
         task[t].pc = "observe" /\ task'[t].pc = "finished" /\ task'[t].result = "ok" =>
            /\ Current(task[t].id, task[t].lease.pgen)
            /\ task[t].lease.fp = Fingerprint(profiles[task[t].id])]_vars

\* Every open connection has an owner: the cache, a task that has not installed
\* it yet, or a task that displaced it and will close it.  None is
\* leaked by a cancellation, a deadline, a stale install or an eviction, and none
\* is left when shutdown_runtime returns.
HandlesAccounted ==
    /\ TypeOK
    /\ open = {sessions[i].sgen : i \in {j \in Ids : sessions[j] # NoSession}}
               \cup {task[t].lease.sgen : t \in {u \in Tasks : task[u].pc = "install"}}
               \cup {task[t].old : t \in {u \in Tasks : task[u].pc = "displacing"}}
    /\ down => open = {}

\* "publishes the fence first, then cancels, joins and evicts": when a mutation
\* has removed sessions and secrets, no task of a generation it fenced has a
\* connection or a credential, or may still get one.  A task that was started
\* meanwhile, with the generation the UI still knew, is refused by the fence.
FencedWorkJoined ==
    [][\A target \in targets, t \in Tasks :
         mpc = "secrets" /\ mpc' = "idle" /\ task[t].id = target.id /\ task[t].gen = target.pgen
            => task[t].pc \in {"captured", "waitTargets", "acquire", "finished"}]_vars

\* Between mutations a secret is kept only for a published profile that asks for
\* one, and none while the configuration is uncertain.
SecretsBelongToProfiles ==
    mpc = "idle" =>
        \A i \in Ids : secrets[i] # 0 => profiles[i].mode = "Session" /\ ~uncertain

\* When a mutation, a reload or the uncertain barrier removes or replaces a
\* secret, nothing that can still be handed out or go on was opened with it: no
\* cached session and no lease of a current generation (resolve_deferred_session
\* retags a session only if the edit keeps its secret).
ClearedSecretUnused ==
    mpc = "secrets" =>
        \A i \in Ids : secrets[i] # 0 /\ NextSecrets[i] # secrets[i] =>
            /\ \A j \in Ids : gens[j] # 0 /\ sessions[j].pgen = gens[j] =>
                 sessions[j].secret # secrets[i]
            /\ \A t \in Tasks : task[t].lease.pgen # 0 /\ task[t].lease.pgen = gens[task[t].id] =>
                 task[t].lease.secret # secrets[i]

\* SessionSecretStore apply, retain_profiles and clear_all.
SecretsSound == ClearedSecretUnused /\ SecretsBelongToProfiles

\* A mutation ends although its completion waits for tasks it cancelled.
MutationsComplete == mpc # "idle" ~> mpc = "idle"

\* Every operation reaches its terminal event: work by its deadline, a control
\* although it waits for the tasks it cancelled and may itself be cancelled.
TasksTerminate == \A t \in Tasks : Registered(t) ~> ~Registered(t)

\* docs/usable-mvp/spec.md: "A committed delete evicts the exact cached
\* generation": nothing of a deleted profile stays cached when all is at rest.
DeletedSessionEvicted ==
    \A i \in Ids :
        mpc = "idle" /\ profiles[i] = NoProfile /\ (\A t \in Tasks : ~Registered(t))
            => sessions[i] = NoSession

\* docs/usable-mvp/spec.md: Disconnect "cancels and joins that profile's
\* operation, evicts its exact session generation": after ConnectionClosed the
\* generation it was about has no cached session.
DisconnectEvicts ==
    \A t \in Tasks :
        task[t].pc = "finished" /\ task[t].kind = "disconnect" /\ task[t].result = "closed" =>
            sessions[task[t].id].pgen # task[t].gen

\* docs/usable-mvp/trace.md: after "Connection-affecting Edit or credential
\* Replace/Clear committed", "old {profile_generation, session_generation}
\* evicted": no session that can still be handed out was opened with a secret
\* that a mutation, a reload or the uncertain barrier removed.
RevokedSecretUnused ==
    \A i \in Ids : gens[i] # 0 /\ sessions[i].pgen = gens[i] =>
        sessions[i].secret \notin revoked \ {0}

\* docs/usable-mvp/trace.md: "Once the observed config is committed, runtime
\* publishes the new profile generation as a fence, then cancels/joins
\* old-generation work": between mutations no task operates on a session of a
\* generation that is no longer published.
OldWorkJoined ==
    mpc = "idle" =>
        \A t \in Tasks : task[t].pc = "operate" => task[t].lease.pgen = gens[task[t].id]
=============================================================================
