------------------------------- MODULE Window -------------------------------
(***************************************************************************)
(* The desktop application as one system: the window (DbotterApp over      *)
(* UiModel), the port, and behind it the controller with the service.      *)
(*                                                                         *)
(* The window takes events one at a time; a frame takes some of those that *)
(* are there, then prunes, and only then does the user act.  The service   *)
(* is the one of module ProfileService at the grain of what the window can *)
(* see: a network operation gets a session in one step and answers in      *)
(* another, a mutation publishes, is joined with the work it outdated, and *)
(* answers.  Its answers are emitted in the step that makes them, as the   *)
(* controller takes completions before commands.                           *)
(*                                                                         *)
(* Left out: panics and shutdown (module Controller), global permits, and  *)
(* a full event queue.                                                     *)
(***************************************************************************)
EXTENDS DbotterApp, FiniteSets

CONSTANTS
    Endpoint,           \* Endpoint[body]: the connection fields of a profile
    Scenarios           \* bound: what a behaviour starts with and may contain

Disks == [Ids -> Bodies \cup {NoBody}]
Unreadable == [i \in Ids |-> "unreadable"]

\* A scenario: the configuration the application starts with, the buttons the user
\* presses, the contents that are saved, the number of operations, and what another
\* program may write once.
ASSUME WindowAssumption ==
    /\ IsFiniteSet(Ids)
    /\ NoBody \notin Bodies
    /\ \A s \in Scenarios :
          /\ s.disk \in Disks /\ s.writes \subseteq Disks \cup {Unreadable}
          /\ s.bodies \subseteq Bodies /\ s.operations \in Nat

VARIABLES
    model, app, port,   \* the window's world
    polling,            \* a frame is taking events
    events,             \* the event queue
    tasks,              \* registered network operations
    mutation,           \* the mutation that is active
    service,            \* ApplicationService
    disk, edited,       \* the file; has another program written it?
    scenario

window == <<model, app, polling>>
vars == <<window, port, events, tasks, mutation, service, disk, edited, scenario>>

World == [m |-> model, a |-> app, p |-> port]
Become(w) == model' = w.m /\ app' = w.a /\ port' = w.p

NoSession == [n |-> 0, gen |-> NoGen]
NoMutation == [pc |-> "none", command |-> [Command(EmptyModel, "none", NoId, NoGen) EXCEPT !.op = 0],
               profiles |-> EmptyModel.profiles, targets |-> {}, waits |-> {}, retag |-> FALSE,
               active |-> FALSE, gen |-> NoGen]

-----------------------------------------------------------------------------
(* The service's state.  Generations and sessions are numbered in the      *)
(* order they are made; bodies[g] and opened[n] are what they were made of.*)

\* allocate_profile_generation for each id of a set, in order
Fresh(ids, id) == Len(service.bodies) + 1 + Cardinality({j \in ids : j < id})

\* The generations of a set of ids are renewed; their contents are recorded.
Numbered(ids, contents) ==
    [g \in 1..(Len(service.bodies) + Cardinality(ids)) |->
        IF g <= Len(service.bodies) THEN service.bodies[g]
        ELSE contents[CHOOSE i \in ids : Fresh(ids, i) = g]]

Current(id, gen) ==
    ~service.uncertain /\ gen # NoGen /\ service.gens[id] = gen

\* needs_session_credential
Locked(id) == service.profiles[id] \in SessionBodies /\ id \notin service.secrets

\* evict_cached_session_exact of <<id, session>> pairs
Evicted(sessions, exact) ==
    [i \in Ids |-> IF <<i, sessions[i]>> \in exact THEN NoSession ELSE sessions[i]]

\* A service that has loaded this configuration
Loaded(config) ==
    LET live == {i \in Ids : config[i] # NoBody}
        number(i) == 1 + Cardinality({j \in live : j < i})
    IN  [profiles |-> config,
         gens |-> [i \in Ids |-> IF i \in live THEN number(i) ELSE NoGen],
         bodies |-> [g \in 1..Cardinality(live) |-> config[CHOOSE i \in live : number(i) = g]],
         sessions |-> [i \in Ids |-> NoSession],
         opened |-> <<>>,
         secrets |-> {}, uncertain |-> FALSE]

Init ==
    LET start == SubmitRefresh([m |-> EmptyModel, a |-> EmptyApp, p |-> EmptyPort])
    IN  /\ model = start.m /\ app = start.a /\ port = start.p
        /\ polling = FALSE
        /\ events = <<>> /\ tasks = {} /\ mutation = NoMutation
        /\ scenario \in Scenarios
        /\ disk = scenario.disk
        /\ service = Loaded(disk)
        /\ edited = FALSE

-----------------------------------------------------------------------------
(* The window                                                              *)

outside == <<edited, scenario>>
behind == <<events, tasks, mutation, service, disk, outside>>

\* One event of poll_events.
Poll ==
    /\ events # <<>>
    /\ Become(Handle(World, Head(events)))
    /\ events' = Tail(events)
    /\ polling' = TRUE
    /\ UNCHANGED <<tasks, mutation, service, disk, outside>>

\* The end of poll_events, before the window is drawn.
FinishFrame ==
    /\ polling
    /\ Become(EndFrame(World))
    /\ polling' = FALSE
    /\ UNCHANGED behind

\* A button does something.
Press(button, w) ==
    /\ button \in scenario.buttons
    /\ ~polling
    /\ model.nextOp <= scenario.operations
    /\ w # World
    /\ Become(w)
    /\ UNCHANGED <<polling, behind>>

\* profile_card offers what the connection state of a profile that is shown allows.
CardAction(id) ==
    /\ ~model.uncertain /\ model.profiles[id] # NoProfile
    /\ \/ /\ model.conn[id].is \in {"disconnected", "failed"}
          /\ Press("Connect", SubmitTest(World, id))
       \/ /\ model.conn[id].is = "credential"
          /\ Press("EnterCredential", OpenSessionPrompt(World, id))
       \/ /\ model.conn[id].is = "connected"
          /\ \/ Press("Disconnect", SubmitDisconnect(World, id))
             \/ Press("Reconnect", SubmitReconnect(World, id))
       \/ Press("Edit", OpenEditor(World, id))
       \/ Press("Delete", OpenDelete(World, id))

\* The statement editor and the explorer of a profile that is shown.
WorkAction(id) ==
    /\ model.profiles[id] # NoProfile
    /\ \/ /\ app.editor = NoEditor
          /\ \/ Press("Execute", SubmitExecute(World, id))
             \/ \E x \in model.executing : x.id = id /\ Press("CancelExecute", SubmitCancel(World, x.op))
       \/ Press("Browse", SubmitBrowse(World, id))
       \/ /\ id \in Redis /\ app.ops[id].kind = "browse"
          /\ Press("CancelBrowse", SubmitCancel(World, app.ops[id].op))

\* The profile editor; saving "and connect" is the other button.
EditorAction ==
    \/ ~model.uncertain /\ Press("Add", NewEditor(World))
    \/ /\ EditorEnabled(World)
       /\ \E body \in scenario.bodies, connect \in BOOLEAN :
            \E secret \in SecretUpdates(app.editor, body) :
                Press(IF connect THEN "SaveAndConnect" ELSE "Save",
                      SubmitSave(World, body, secret, connect))
    \/ Press("CancelEdit", CancelEditor(World))

\* The delete confirmation and the credential prompt
DialogAction ==
    \/ /\ app.confirm # NoConfirmation
       /\ \/ Press("ConfirmDelete", ConfirmDelete(World))
          \/ Press("CancelDelete", [World EXCEPT !.a.confirm = NoConfirmation])
    \/ Press("Store", SubmitPrompt(World))
    \/ Press("CancelPrompt", CancelPrompt(World))

\* A failure that is shown offers what public_error.rs derives from it: a retry but
\* after a time-out, a prompt if the credential is missing or rejected, a Reconnect
\* if the server is not reached.
Recover(f) ==
    \/ /\ f.outcome \in {"rejected", "disconnected", "preserve"}
             \cup (IF f.of = "browse" THEN {"unknown"} ELSE {})
       /\ Press("Retry", RetryRecipe(World, f.op, f.of))
    \/ f.outcome \in {"credential", "rejected"} /\ Press("RecoverCredential", RecoverCredential(World, f))
    \/ /\ f.outcome \in {"disconnected", "unknown"} /\ f.of \in {"connect", "reconnect", "browse"}
       /\ Press("Reconnect", SubmitReconnect(World, f.id))
    \/ Press("Dismiss", Dismiss(World, f))

\* The window's failure, the one in a profile's explorer, and Reload
RecoveryAction ==
    \/ app.error # NoError /\ Recover(app.error)
    \/ \E f \in model.failures : f.gen = model.profiles[f.id].gen /\ Recover(f)
    \/ Press("Reload", SubmitRefresh(World))

User ==
    \/ \E id \in Ids : CardAction(id) \/ WorkAction(id)
    \/ EditorAction \/ DialogAction \/ RecoveryAction

-----------------------------------------------------------------------------
(* Events: ServicePort::try_emit with release_for_event                    *)

Failure(c, outcome) ==
    [kind |-> "OperationFailed", op |-> c.op, of |-> c.kind, id |-> c.id, gen |-> c.gen,
     outcome |-> outcome, uncommitted |-> c.kind = "delete"]

Uncertain(op) == [kind |-> "ConfigUncertain", op |-> op]

\* What an operation answers: did it succeed, on which session (0: none), is the
\* session kept, and what a failure says of the connection.
Answer(c, ok, session, disposition, outcome) ==
    LET named(kind) == [kind |-> kind, op |-> c.op, id |-> c.id, gen |-> c.gen, session |-> session,
                        disposition |-> disposition, outcome |-> outcome, failed |-> ~ok]
    IN  CASE c.kind = "browse" -> named(IF c.id \in Redis THEN "RedisKeys" ELSE "CatalogPage")
          [] c.kind = "execute" /\ ok -> named("QueryFinished")
          [] c.kind \in {"connect", "reconnect"} /\ ok -> named("ConnectionReady")
          [] OTHER -> Failure(c, outcome)

ReleasedKeys(e) ==
    {<<"cancel", e.op>>}
        \cup (IF e.kind = "ConnectionReady" THEN {<<"reconnect", e.id, e.gen>>} ELSE {})
        \cup (IF e.kind = "ConnectionClosed" THEN {<<"disconnect", e.id, e.gen>>} ELSE {})
        \cup (IF e.kind = "OperationFailed" THEN {<<e.of, e.id, e.gen>>} ELSE {})

Emit(p, e) ==
    /\ events' = Append(events, e)
    /\ port' = [p EXCEPT !.keys = @ \ ReleasedKeys(e)]

Popped(lane) == [port EXCEPT ![lane] = Tail(@)]

-----------------------------------------------------------------------------
(* The controller takes a command: controls, then mutations, then work     *)

Task(c, pc, session, waits) ==
    [op |-> c.op, kind |-> c.kind, id |-> c.id, gen |-> c.gen, pc |-> pc,
     session |-> session, waits |-> waits, cancel |-> FALSE]

Cancelled(targets) ==
    {IF t \in targets THEN [t EXCEPT !.cancel = TRUE] ELSE t : t \in tasks}

Registered == {t.op : t \in tasks}

Cancel(c) ==
    LET targets == {t \in tasks : t.op = c.op} IN
    /\ tasks' = Cancelled(targets)
    /\ port' = [Popped("control") EXCEPT
                  !.keys = IF targets = {} /\ mutation.command.op # c.op
                           THEN @ \ {ControlKey(c)} ELSE @]
    /\ UNCHANGED events

\* A Reconnect of an old generation is refused; so is one that finds nothing of
\* its own to join and the profile's permit taken.
ReconnectRefused(c, targets) ==
    /\ c.kind = "reconnect"
    /\ \/ ~Current(c.id, c.gen)
       \/ targets = {} /\ \E t \in tasks : t.id = c.id /\ t.kind # "disconnect"

\* start_profile_control: it cancels and joins the work of its profile, and will
\* evict the session that is cached now.
StartControl(c) ==
    LET targets == {t \in tasks : t.id = c.id /\ t.gen = c.gen}
        cached == service.sessions[c.id]
    IN  IF ReconnectRefused(c, targets)
        THEN /\ Emit(Popped("control"), Failure(c, "preserve"))
             /\ UNCHANGED tasks
        ELSE /\ tasks' = Cancelled(targets) \cup
                  {Task(c, "wait", IF cached.gen = c.gen THEN cached.n ELSE 0,
                        {t.op : t \in targets})}
             /\ port' = Popped("control")
             /\ UNCHANGED events

\* handle_control
PollControl ==
    /\ port.control # <<>>
    /\ LET c == Head(port.control) IN
       \/ c.kind = "cancel" /\ Cancel(c)
       \/ /\ c.kind # "cancel" /\ service.uncertain
          /\ Emit([Popped("control") EXCEPT !.keys = @ \ {ControlKey(c)}], Uncertain(c.op))
          /\ UNCHANGED tasks
       \/ c.kind # "cancel" /\ ~service.uncertain /\ StartControl(c)
    /\ UNCHANGED <<window, mutation, service, disk, outside>>

\* start_mutation
PollMutation ==
    /\ port.control = <<>> /\ mutation = NoMutation /\ port.mutation # <<>>
    /\ LET c == Head(port.mutation) IN
       \/ /\ service.uncertain /\ c.kind # "refresh"
          /\ Emit(Popped("mutation"), Uncertain(c.op))
          /\ UNCHANGED mutation
       \/ /\ ~service.uncertain \/ c.kind = "refresh"
          /\ mutation' = [NoMutation EXCEPT !.pc = "run", !.command = c]
          /\ port' = Popped("mutation")
          /\ UNCHANGED events
    /\ UNCHANGED <<window, tasks, service, disk, outside>>

\* handle_work and start_profile_work: one network operation per profile.
PollWork ==
    /\ port.control = <<>> /\ port.work # <<>>
    /\ mutation # NoMutation \/ port.mutation = <<>>
    /\ LET c == Head(port.work)
           busy == \E t \in tasks : t.id = c.id
       IN  \/ /\ service.uncertain
              /\ Emit(Popped("work"), Uncertain(c.op))
              /\ UNCHANGED tasks
           \/ /\ ~service.uncertain /\ busy
              /\ Emit(Popped("work"), Failure(c, "preserve"))
              /\ UNCHANGED tasks
           \/ /\ ~service.uncertain /\ ~busy
              /\ tasks' = tasks \cup {Task(c, "acquire", 0, {})}
              /\ port' = Popped("work")
              /\ UNCHANGED events
    /\ UNCHANGED <<window, mutation, service, disk, outside>>

-----------------------------------------------------------------------------
(* Network operations                                                      *)

Replace(t, u) == tasks' = (tasks \ {t}) \cup {u}
Finish(t, e) == tasks' = tasks \ {t} /\ Emit(port, e)
Joined(waits) == waits \cap Registered = {}
taskFrame == <<window, mutation, disk, outside>>

\* run_profile_control of a Disconnect whose targets have ended
Disconnect(t) ==
    /\ t.kind = "disconnect" /\ Joined(t.waits)
    /\ \/ t.cancel /\ Finish(t, Failure(t, "unknown")) /\ UNCHANGED service
       \/ /\ ~t.cancel /\ ~Current(t.id, t.gen)
          /\ Finish(t, Failure(t, "preserve")) /\ UNCHANGED service
       \/ /\ ~t.cancel /\ Current(t.id, t.gen)
          /\ service' = [service EXCEPT !.sessions =
                            Evicted(@, {<<t.id, [n |-> t.session, gen |-> t.gen]>>})]
          /\ Finish(t, [kind |-> "ConnectionClosed", op |-> t.op, id |-> t.id, gen |-> t.gen,
                        post |-> IF Locked(t.id) THEN NeedsCredential ELSE Disconnected])
    /\ UNCHANGED taskFrame

\* A Reconnect whose targets have ended and which has its permits evicts, then
\* connects.  If it had targets, it is cancelled or late before that
\* (acquire_reconnect_permits_after_targets).
Reconnect(t) ==
    /\ t.kind = "reconnect" /\ t.pc = "wait" /\ Joined(t.waits)
    /\ \/ /\ t.waits = {} \/ ~t.cancel
          /\ \A u \in tasks \ {t} : u.id = t.id => u.pc = "wait"
          /\ service' = [service EXCEPT !.sessions =
                            Evicted(@, {<<t.id, [n |-> t.session, gen |-> t.gen]>>})]
          /\ Replace(t, [t EXCEPT !.pc = "acquire", !.session = 0])
          /\ UNCHANGED <<port, events>>
       \/ t.waits # {} /\ Finish(t, Failure(t, "unknown")) /\ UNCHANGED service
    /\ UNCHANGED taskFrame

\* acquire_session_at gives the cached session or opens one.
Acquire(t) ==
    LET cached == service.sessions[t.id].gen = t.gen
        n == IF cached THEN service.sessions[t.id].n ELSE Len(service.opened) + 1
    IN  /\ t.pc = "acquire" /\ ~t.cancel /\ Current(t.id, t.gen)
        /\ cached \/ ~Locked(t.id)
        /\ service' = IF cached THEN service
                      ELSE [service EXCEPT !.sessions[t.id] = [n |-> n, gen |-> t.gen],
                                           !.opened = Append(@, service.profiles[t.id])]
        /\ Replace(t, [t EXCEPT !.pc = "operate", !.session = n])
        /\ UNCHANGED <<port, events, taskFrame>>

\* No session: the generation is stale, the credential missing, the server does not
\* take the connection, or the operation is cancelled or late.
AcquireFails(t) ==
    LET current == Current(t.id, t.gen)
        cached == service.sessions[t.id].gen = t.gen
    IN  /\ t.pc = "acquire"
        /\ \E outcome \in {"unknown"}
                \cup (IF t.cancel THEN {}
                      ELSE IF ~current THEN {"preserve"}
                      ELSE IF cached THEN {}
                      ELSE IF Locked(t.id) THEN {"credential"}
                      ELSE IF service.profiles[t.id] \in SessionBodies
                      THEN {"rejected", "disconnected", "preserve"} ELSE {"disconnected", "preserve"}) :
              Finish(t, Answer(t, FALSE, 0, "none", outcome))
        /\ UNCHANGED <<service, taskFrame>>

\* The driver answers, and observe_session agrees that the profile is current.  An
\* error of a ping always evicts.
OperateEnds(t) ==
    /\ t.pc = "operate" /\ Current(t.id, t.gen)
    /\ \E ok \in BOOLEAN :
         /\ Finish(t, Answer(t, ok, t.session, "keep", "preserve"))
         /\ service' = [service EXCEPT !.sessions =
                IF ok \/ t.kind \in {"execute", "browse"} THEN @
                ELSE Evicted(@, {<<t.id, [n |-> t.session, gen |-> t.gen]>>})]
    /\ UNCHANGED taskFrame

\* The session is lost, the operation is cancelled or late, or the profile is no
\* longer current: the lease is evicted.
OperateEvicts(t) ==
    /\ t.pc = "operate"
    /\ \E outcome \in {"disconnected"} \cup (IF Current(t.id, t.gen) THEN {} ELSE {"preserve"}) :
         Finish(t, Answer(t, FALSE, t.session, "evict", outcome))
    /\ service' = [service EXCEPT !.sessions =
                      Evicted(@, {<<t.id, [n |-> t.session, gen |-> t.gen]>>})]
    /\ UNCHANGED taskFrame

-----------------------------------------------------------------------------
(* Mutations                                                               *)

mutationFrame == <<window, outside>>
job == mutation.command
Local(i) == job.kind # "refresh" /\ i = job.id

\* store_session_credential_exact
StoreSecret ==
    /\ mutation.pc = "run" /\ job.kind = "store"
    /\ LET stored == Current(job.id, job.gen) /\ service.profiles[job.id] \in SessionBodies IN
       /\ service' = IF stored THEN [service EXCEPT !.secrets = @ \cup {job.id}] ELSE service
       /\ Emit(port, [kind |-> IF stored THEN "CredentialsStored" ELSE "CredentialsStoreFailed",
                      op |-> job.op, id |-> job.id, gen |-> job.gen])
    /\ mutation' = NoMutation
    /\ UNCHANGED <<tasks, disk, mutationFrame>>

\* A mutation that is not committed; a delete says so.
Refuse ==
    /\ mutation.pc = "run" /\ job.kind \in {"create", "update", "delete"}
    /\ Emit(port, CASE job.kind = "create" -> [kind |-> "ProfileCreateFailed", op |-> job.op]
                    [] job.kind = "update" -> [kind |-> "ProfileUpdateFailed", op |-> job.op]
                    [] job.kind = "delete" -> Failure(job, "preserve"))
    /\ mutation' = NoMutation
    /\ UNCHANGED <<tasks, service, disk, mutationFrame>>

\* What the service checks before it writes, and the writer in the file.
WriteAllowed(id) ==
    /\ disk # Unreadable
    /\ job.kind = "create" => service.profiles[id] = NoBody /\ disk[id] = NoBody
    /\ job.kind # "create" => Current(id, job.gen) /\ disk[id] = service.profiles[id]
    /\ job.kind = "update" /\ job.secret = "Keep" =>
          id \in service.secrets /\ service.profiles[id] \in SessionBodies

\* Replaced by the file: renewed profiles, removed ones, and those whose
\* previous generation is cleaned up (reconcile_after_mutation).
Renewed(id, loaded) ==
    {i \in Ids : loaded[i] # NoBody
                 /\ (loaded[i] # service.profiles[i] \/ (job.kind # "refresh" /\ i = id))}
Removed(id, loaded) ==
    {i \in Ids : /\ loaded[i] = NoBody /\ service.profiles[i] # NoBody
                 /\ job.kind = "refresh" \/ (job.kind = "delete" /\ i = id)}
Outdated(id, loaded) ==
    {i \in Ids : /\ service.profiles[i] # NoBody
                 /\ \/ loaded[i] # service.profiles[i]
                    \/ job.kind \in {"update", "delete"} /\ i = id}

Target(i) == [id |-> i, gen |-> service.gens[i], session |-> service.sessions[i]]

\* The new configuration is published; the window is told when the old work is over.
Publish(id, loaded) ==
    LET fresh == Renewed(id, loaded) \cup Removed(id, loaded)
        gens == [i \in Ids |-> IF i \in Renewed(id, loaded) THEN Fresh(fresh, i)
                               ELSE IF loaded[i] = NoBody THEN NoGen ELSE service.gens[i]]
    IN  /\ service' = [service EXCEPT !.profiles = loaded, !.gens = gens,
                                      !.bodies = Numbered(fresh, loaded), !.uncertain = FALSE]
        /\ mutation' = [mutation EXCEPT
              !.pc = "published", !.command.id = id, !.gen = Fresh(fresh, id),
              !.profiles = [i \in Ids |-> IF loaded[i] = NoBody THEN NoProfile
                                          ELSE [gen |-> gens[i], body |-> loaded[i],
                                                secret |-> i \in service.secrets]],
              !.targets = {Target(i) : i \in Outdated(id, loaded)},
              !.retag = /\ job.kind = "update"
                        /\ Endpoint[service.profiles[id]] = Endpoint[loaded[id]]
                        /\ loaded[id] \in SessionBodies => job.secret = "Keep"]

\* enter_config_uncertain_deferred
EnterUncertain ==
    LET live == {i \in Ids : service.gens[i] # NoGen} IN
    /\ service' = [service EXCEPT
          !.gens = [i \in Ids |-> IF i \in live THEN Fresh(live, i) ELSE NoGen],
          !.bodies = Numbered(live, service.profiles), !.uncertain = TRUE]
    /\ mutation' = [mutation EXCEPT !.pc = "published", !.targets = {Target(i) : i \in live}]

\* The write is committed, and observed or not.
Write ==
    /\ mutation.pc = "run" /\ job.kind \in {"create", "update", "delete"}
    /\ \E id \in (IF job.kind = "create" THEN Ids ELSE {job.id}) :
         /\ WriteAllowed(id)
         /\ disk' = [disk EXCEPT ![id] = job.body]
         /\ Publish(id, disk') \/ EnterUncertain
    /\ UNCHANGED <<port, events, tasks, mutationFrame>>

\* reload_configuration_for_runtime
Reload ==
    /\ mutation.pc = "run" /\ job.kind = "refresh"
    /\ \/ disk # Unreadable /\ Publish(NoId, disk)
       \/ EnterUncertain
    /\ UNCHANGED <<port, events, tasks, disk, mutationFrame>>

\* mutation_completion_waiters
Complete ==
    LET outdated == {t \in tasks : \/ service.uncertain
                                   \/ \E g \in mutation.targets : g.id = t.id /\ g.gen = t.gen}
    IN  /\ mutation.pc = "published"
        /\ tasks' = Cancelled(outdated)
        /\ mutation' = [mutation EXCEPT !.pc = "join", !.waits = {t.op : t \in outdated},
                                        !.active = \E t \in tasks : t.id = job.id /\ t.gen = job.gen]
        /\ UNCHANGED <<port, events, service, disk, mutationFrame>>

\* resolve_deferred_session keeps the idle session of an edit that does not touch
\* the connection.
Retained ==
    \E g \in mutation.targets :
        /\ Local(g.id) /\ mutation.retag /\ ~mutation.active
        /\ g.session # NoSession /\ service.sessions[g.id] = g.session

SecretsAfter ==
    IF service.uncertain THEN {}
    ELSE {i \in service.secrets \cup (IF job.secret = "Replace" THEN {job.id} ELSE {}) :
            IF Local(i) /\ job.kind # "delete" THEN job.secret \in {"Keep", "Replace"}
            ELSE /\ service.profiles[i] # NoBody
                 /\ \A g \in mutation.targets : g.id # i}

\* finish_task_output: sessions, then secrets, then the answer.
FinishMutation ==
    LET evicted == Evicted(service.sessions, {<<g.id, g.session>> : g \in mutation.targets})
    IN  /\ mutation.pc = "join" /\ Joined(mutation.waits)
        /\ service' = [service EXCEPT
              !.secrets = SecretsAfter,
              !.sessions = [i \in Ids |->
                  IF Local(i) /\ Retained THEN [service.sessions[i] EXCEPT !.gen = service.gens[i]]
                  ELSE evicted[i]]]
        /\ Emit(port,
             CASE service.uncertain -> Uncertain(job.op)
               [] ~service.uncertain /\ job.kind = "refresh" ->
                    [kind |-> "ProfilesLoaded", op |-> job.op, profiles |-> mutation.profiles]
               [] ~service.uncertain /\ job.kind = "delete" ->
                    [kind |-> "ProfileDeleted", op |-> job.op, id |-> job.id, gen |-> mutation.gen]
               [] OTHER ->
                    [kind |-> "ProfileSaved", op |-> job.op, id |-> job.id, prev |-> job.gen,
                     gen |-> mutation.gen, retained |-> Retained])
        /\ mutation' = NoMutation
        /\ UNCHANGED <<tasks, disk, mutationFrame>>

EditDisk ==
    /\ ~edited
    /\ edited' = TRUE
    /\ disk' \in scenario.writes
    /\ UNCHANGED <<window, port, events, tasks, mutation, service, scenario>>

-----------------------------------------------------------------------------
Next ==
    \/ Poll \/ FinishFrame \/ User
    \/ PollControl \/ PollMutation \/ PollWork
    \/ \E t \in tasks : \/ Disconnect(t) \/ Reconnect(t) \/ Acquire(t) \/ AcquireFails(t)
                        \/ OperateEnds(t) \/ OperateEvicts(t)
    \/ StoreSecret \/ Refuse \/ Write \/ Reload \/ Complete \/ FinishMutation
    \/ EditDisk

Spec == Init /\ [][Next]_vars

-----------------------------------------------------------------------------
(* Properties                                                              *)

ConnectionStates ==
    {Disconnected, NeedsCredential, Failed, Closing}
        \cup {Pending(op) : op \in 1..(model.nextOp - 1)}
        \cup {Connected(n) : n \in DOMAIN service.opened}
Snapshots == [gen : DOMAIN service.bodies, body : Bodies, secret : BOOLEAN]
Operations == [op : 1..(model.nextOp - 1), gen : DOMAIN service.bodies,
               kind : {"connect", "reconnect", "disconnect", "execute", "browse", "delete"}]

\* The window's and the service's tables name profiles, operations and generations that
\* exist, and no lane of the port holds more commands than it has room for (try_submit).
TypeOK ==
    /\ model.profiles \in [Ids -> Snapshots \cup {NoProfile}]
    /\ {model.active[i] : i \in Ids} \cup {model.tombs[i] : i \in Ids}
          \subseteq DOMAIN service.bodies \cup {NoGen}
    /\ model.conn \in [Ids -> ConnectionStates]
    /\ app.ops \in [Ids -> Operations \cup {Idle}]
    /\ \A lane \in {"control", "mutation", "work"} : Len(port[lane]) <= Capacity
    /\ service.profiles \in Disks
    /\ service.gens \in [Ids -> DOMAIN service.bodies \cup {NoGen}]
    /\ service.secrets \subseteq Ids
    /\ \A t \in tasks : t.pc \in {"wait", "acquire", "operate"}
    /\ mutation.pc \in {"none", "run", "published", "join"}
    /\ disk \in Disks \cup {Unreadable}

\* The operation is queued, runs, or its answer is on the way.
Outstanding(op) ==
    \/ \E lane \in {"control", "mutation", "work"} :
          \E k \in DOMAIN port[lane] : port[lane][k].op = op
    \/ op \in Registered \cup {mutation.command.op}
    \/ \E k \in DOMAIN events : events[k].op = op

\* The card never says "connected" of a session that was opened for other
\* connection fields than those of the generation the window holds for active,
\* whatever saves, reloads and late answers it has folded.
ConnectedBelongsToActive ==
    \A i \in Ids : model.conn[i].is = "connected" =>
        /\ model.active[i] # NoGen
        /\ Endpoint[service.opened[model.conn[i].n]] = Endpoint[service.bodies[model.active[i]]]

\* An operation the window tracks, and which keeps it from starting another, will
\* still be answered: none is put back or kept after its answer was folded.  Not so a
\* control, which may be coalesced with one that is under way and then has no answer
\* of its own, and a Redis page, whose answer is ignored while a deletion is tracked
\* instead.
TrackedOperationLives ==
    \A i \in Ids :
        LET tracked == app.ops[i] IN
        /\ tracked # Idle /\ tracked.kind \notin {"disconnect", "reconnect"}
        /\ tracked.kind = "browse" => i \notin Redis
        => Outstanding(tracked.op)

\* The window will be told that the configuration is uncertain.
UncertainComing ==
    \/ service.uncertain
    \/ \E k \in DOMAIN events : events[k].kind = "ConfigUncertain" /\ Newer(model, events[k].op)

\* The workspace of an active generation that shows a statement as running waits
\* for an answer that comes; a refusal older than the last load is not folded, but
\* then that of the mutation that made the configuration uncertain is.
ExecutionsSettle ==
    \A x \in model.executing :
        x.gen = model.active[x.id] => Outstanding(x.op) \/ UncertainComing

\* So does a credential prompt that shows its secret as being stored.
PromptStoreLives == app.prompt.store # 0 => Outstanding(app.prompt.store)

\* A generation that is active is newer than every deletion of its id the window
\* was told of, so a late event of a deleted profile is never folded.
LiveAboveTombstone ==
    \A i \in Ids : model.active[i] # NoGen => model.active[i] > model.tombs[i]

Quiet ==
    /\ ~polling /\ events = <<>> /\ tasks = {} /\ mutation = NoMutation
    /\ port.control = <<>> /\ port.mutation = <<>> /\ port.work = <<>>

\* When all is answered, no other program has edited the file and the window does
\* not hold the configuration for uncertain, it agrees with the service on that and
\* on every generation, so that what the user does next is not refused as stale.
GenerationsAgree ==
    Quiet /\ ~edited /\ ~model.uncertain =>
        ~service.uncertain /\ model.active = service.gens

\* Whatever the window shows as pending is answered, with the exceptions its parts
\* name (finish_active_operation, handle_credential_terminal, fold).
PendingIsAnswered == TrackedOperationLives /\ ExecutionsSettle /\ PromptStoreLives

\* The window's generations are past what was deleted and, once all is answered and
\* unless another program has edited the file, those of the service (fold_profiles,
\* fold_deleted, accept_profiles_operation).
GenerationsSound == LiveAboveTombstone /\ GenerationsAgree

-----------------------------------------------------------------------------
(* Claims of the documents                                                 *)

\* docs/usable-mvp/trace.md: "Disconnect completed | Disconnected or Needs
\* credential": when all is answered, a card that says connected is about a
\* session that is there.
ConnectedIsCached ==
    Quiet => \A i \in Ids : model.conn[i].is = "connected" =>
                service.sessions[i].n = model.conn[i].n
=============================================================================
