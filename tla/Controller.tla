----------------------------- MODULE Controller -----------------------------
(***************************************************************************)
(* The background controller of the desktop application                    *)
(* (src/src/ui/runtime.rs) behind its command port (src/src/ui/adapter.rs).*)
(*                                                                         *)
(* A client submits commands into three bounded lanes (work, mutation,     *)
(* control) and a shutdown watch.  One controller task polls them in a     *)
(* biased loop, spawns one task per accepted command and registers it.  A  *)
(* task ends by sending Completed on an unbounded channel, by panicking,   *)
(* or by being aborted two seconds into a shutdown.  The controller        *)
(* answers every command with one terminal event and fires the entry's     *)
(* terminal token, on which later Disconnects, Reconnects and mutation     *)
(* completions wait.                                                       *)
(*                                                                         *)
(* What a task does with the database, the service or a file is one        *)
(* nondeterministic step (module ProfileService models the service).  One  *)
(* poll of the biased select is atomic: a sender that runs between two     *)
(* polls of the same pass is ordered after the pass.                       *)
(***************************************************************************)
EXTENDS Integers, Sequences, FiniteSets

CONSTANTS
    Ops,                \* operation ids; each is submitted at most once
    Kind,               \* Kind[op]: the command
    Subject,            \* Subject[op]: the profile, draft or result it names
    Generation,         \* Generation[op]: the profile generation it carries
    WorkCapacity, MutationCapacity, ControlCapacity,
    GlobalLimit,        \* GLOBAL_NETWORK_LIMIT
    ExportLimit,        \* PROCESS_EXPORT_LIMIT
    Scripts,            \* bound: the sets of operations submitted in one behaviour
    Cancellable,        \* bound: the operations the client may cancel
    MaxCancels,         \* bound: cancels of one of them that are accepted
    Fragile             \* bound: the operations whose tasks may panic

ProfileWork == {"connect", "execute"}
Mutations == {"update", "create", "refresh", "store"}
Controls == {"disconnect", "reconnect"}
Kinds == ProfileWork \cup Mutations \cup Controls \cup {"draft", "export"}

ASSUME ControllerAssumption ==
    /\ Kind \in [Ops -> Kinds]
    /\ Generation \in [Ops -> Nat]
    /\ {WorkCapacity, MutationCapacity, ControlCapacity} \subseteq Nat \ {0}
    /\ {GlobalLimit, ExportLimit} \subseteq Nat \ {0}
    /\ UNION Scripts = Ops
    /\ Cancellable \subseteq Ops /\ Fragile \subseteq Ops
    /\ MaxCancels \in Nat

Subjects == {Subject[op] : op \in Ops}

VARIABLES
    workLane, mutationLane, controlLane,
    keys,               \* control_keys: the coalescing keys in use
    stage,              \* stage[op]: what the registry entry of op runs, or "none"
    task,               \* task[op]: the spawned future
    waits,              \* waits[op]: the operations whose terminal tokens it awaits
    cancelled,          \* operations whose current cancellation token is cancelled
    terminal,           \* operations whose terminal token is cancelled
    profileQueue,       \* profileQueue[s]: holder and waiters of s's single permit
    globalQueue,        \* holders and waiters of the global network permits
    messages,           \* message_rx: <<op, what its output is>>
    mutationActive,
    uncertain,          \* ApplicationService::is_config_uncertain
    phase,
    requested,          \* shutdown_rx holds an operation id
    graceOver,          \* SHUTDOWN_ASYNC_GRACE has passed
    \* history
    status,             \* status[op]: what became of its submission
    attempts,           \* attempts[op]: terminal events attempted for it
    cancels             \* cancels[op]: cancel commands accepted for it

lanes == <<workLane, mutationLane, controlLane>>
entries == <<stage, task, waits, cancelled, terminal>>
permits == <<profileQueue, globalQueue>>
control == <<mutationActive, uncertain>>
closing == <<phase, requested, graceOver>>
history == <<status, attempts, cancels>>
vars == <<lanes, keys, entries, permits, messages, control, closing, history>>

-----------------------------------------------------------------------------
(* Scopes, keys, classes and permits                                       *)

\* The (profile id, generation) a profile-scoped entry is registered under.
Scope(op) == <<Subject[op], Generation[op]>>

ProfileScoped(op) == Kind[op] \in ProfileWork \cup Controls \cup {"update", "store"}

\* UiCommand::control_key; a command of the control lane is <<kind, op>>.
ControlKey(command) ==
    IF command[1] = "cancel" THEN command ELSE <<command[1], Scope(command[2])>>

\* TaskClass of the entry: a failure cleanup is AsyncNetwork whatever failed.
Class(op) ==
    CASE stage[op] = "cleanup" -> "AsyncNetwork"
      [] stage[op] # "cleanup" /\ Kind[op] \in Mutations -> "Mutation"
      [] stage[op] # "cleanup" /\ Kind[op] = "export" -> "Export"
      [] OTHER -> "AsyncNetwork"

Registered == {op \in Ops : stage[op] # "none"}
NetworkEntries == {op \in Registered : Class(op) = "AsyncNetwork"}

\* cancel_profile_network_waiters: the entries a control or a completion joins.
ProfileNetwork(scope) ==
    {op \in NetworkEntries : ProfileScoped(op) /\ Scope(op) = scope}

\* A fair semaphore is the queue of those who asked for it: the first `limit`
\* hold a permit, the others wait, and a permit that is dropped goes to the
\* first waiter.  try_acquire succeeds when nobody would have to wait.
Available(queue, limit) == Len(queue) < limit
Granted(op, queue, limit) ==
    \E i \in 1..Len(queue) : i <= limit /\ queue[i] = op
Without(queue, ops) ==
    LET kept[n \in 0..Len(queue)] ==
            IF n = 0 THEN <<>>
            ELSE IF queue[n] \in ops THEN kept[n - 1] ELSE Append(kept[n - 1], queue[n])
    IN  kept[Len(queue)]

\* Mutant: the profile permit is forgotten.
DropGlobalPermits(ops) ==
    /\ globalQueue' = Without(globalQueue, ops)
    /\ UNCHANGED profileQueue

\* The permits the tasks in `ops` own or wait for are dropped with them.
DropPermits(ops) ==
    /\ profileQueue' = [s \in Subjects |-> Without(profileQueue[s], ops)]
    /\ globalQueue' = Without(globalQueue, ops)

TakePermits(op) ==
    /\ profileQueue' = [profileQueue EXCEPT ![Subject[op]] = Append(@, op)]
    /\ globalQueue' = Append(globalQueue, op)

-----------------------------------------------------------------------------
(* Events: ServicePort::try_emit with release_for_event                    *)

\* The keys the terminal event of op releases.  "ready" is ConnectionReady
\* (of a Connect or of a Reconnect), "closed" ConnectionClosed, "failed" an
\* OperationFailed of op's kind, "other" every event without a key.
ReleasedKeys(op, event) ==
    {<<"cancel", op>>}
        \cup (IF event = "ready" THEN {<<"reconnect", Scope(op)>>} ELSE {})
        \cup (IF event = "closed" THEN {<<"disconnect", Scope(op)>>} ELSE {})
        \cup (IF event = "failed" /\ Kind[op] \in Controls
              THEN {<<Kind[op], Scope(op)>>} ELSE {})

\* One terminal event is attempted for every operation of `ops`.
Emit(ops, event) ==
    /\ attempts' = [op \in Ops |-> attempts[op] + IF op \in ops THEN 1 ELSE 0]
    /\ keys' = keys \ UNION {ReleasedKeys(op, event) : op \in ops}

\* An early return of a handler: the command is answered, nothing is registered.
Refuse(op, event) ==
    /\ Emit({op}, event)
    /\ UNCHANGED <<entries, permits>>

-----------------------------------------------------------------------------
(* The client: UiPort                                                      *)

Open == phase \in {"run", "unavailable"}

Sent(op) == status' = [status EXCEPT ![op] = "submitted"]
NotSent(op, why) ==
    /\ status' = [status EXCEPT ![op] = why]
    /\ UNCHANGED <<lanes, keys>>

SubmitWork(op) ==
    /\ Kind[op] \in ProfileWork \cup {"draft", "export"}
    /\ IF Open /\ Len(workLane) < WorkCapacity
       THEN /\ workLane' = Append(workLane, op)
            /\ Sent(op)
            /\ UNCHANGED <<mutationLane, controlLane, keys>>
       ELSE NotSent(op, "rejected")

SubmitMutation(op) ==
    /\ Kind[op] \in Mutations
    /\ IF Open /\ Len(mutationLane) < MutationCapacity
       THEN /\ mutationLane' = Append(mutationLane, op)
            /\ Sent(op)
            /\ UNCHANGED <<workLane, controlLane, keys>>
       ELSE NotSent(op, "rejected")

\* A control whose key is in use reports success and is not sent.
SubmitControl(op) ==
    LET command == <<Kind[op], op>> IN
    /\ Kind[op] \in Controls
    /\ \/ /\ ControlKey(command) \in keys
          /\ NotSent(op, "coalesced")
       \/ /\ ControlKey(command) \notin keys
          /\ IF Open /\ Len(controlLane) < ControlCapacity
             THEN /\ controlLane' = Append(controlLane, command)
                  /\ keys' = keys \cup {ControlKey(command)}
                  /\ Sent(op)
                  /\ UNCHANGED <<workLane, mutationLane>>
             ELSE NotSent(op, "rejected")

Submit(op) ==
    /\ status[op] = "new"
    /\ \E script \in Scripts : {op} \cup {o \in Ops : status[o] # "new"} \subseteq script
    /\ SubmitWork(op) \/ SubmitMutation(op) \/ SubmitControl(op)
    /\ UNCHANGED <<entries, permits, messages, control, closing,
                   attempts, cancels>>

\* CancelOperation of an operation the client has submitted.  A coalesced or
\* refused cancel changes nothing.
SubmitCancel(op) ==
    /\ op \in Cancellable /\ cancels[op] < MaxCancels
    /\ status[op] = "submitted"
    /\ <<"cancel", op>> \notin keys
    /\ Open
    /\ Len(controlLane) < ControlCapacity
    /\ controlLane' = Append(controlLane, <<"cancel", op>>)
    /\ keys' = keys \cup {<<"cancel", op>>}
    /\ cancels' = [cancels EXCEPT ![op] = @ + 1]
    /\ UNCHANGED <<workLane, mutationLane, entries, permits, messages, control,
                   closing, status, attempts>>

RequestShutdown ==
    /\ ~requested
    /\ requested' = TRUE
    /\ UNCHANGED <<lanes, keys, entries, permits, messages, control, phase,
                   graceOver, history>>

-----------------------------------------------------------------------------
(* The registry                                                            *)

\* commit_reservation: a task is spawned and registered with a fresh
\* cancellation token.  A mutation's completion also gets a fresh terminal
\* token; nobody ever waits for a Mutation entry, so it is still unfired.
Register(op, newStage, newTask, targets) ==
    /\ stage' = [stage EXCEPT ![op] = newStage]
    /\ task' = [task EXCEPT ![op] = newTask]
    /\ waits' = [waits EXCEPT ![op] = targets]
    /\ UNCHANGED terminal

\* Mutant: a failure is answered at once, although a cleanup was started.
FailEntriesEagerly(failed) ==
    LET over == {op \in failed : stage[op] = "cleanup"}
    IN  /\ stage' = [op \in Ops |->
                        IF op \in over THEN "none"
                        ELSE IF op \in failed THEN "cleanup" ELSE stage[op]]
        /\ task' = [op \in Ops |->
                        IF op \in over THEN "idle"
                        ELSE IF op \in failed THEN "running" ELSE task[op]]
        /\ waits' = [op \in Ops |-> IF op \in failed THEN {} ELSE waits[op]]
        /\ cancelled' = cancelled \ failed
        /\ terminal' = terminal \cup over
        /\ Emit(failed, "failed")
        /\ mutationActive' =
              (mutationActive /\ \A op \in failed : Class(op) # "Mutation")

\* The entries in `failed` ended without completing (panic or abort).  One
\* that was not a cleanup yet is replaced by a cleanup that keeps its terminal
\* token; a failed cleanup is answered with InternalFailure.
FailEntries(failed) ==
    LET over == {op \in failed : stage[op] = "cleanup"}
    IN  /\ stage' = [op \in Ops |->
                        IF op \in over THEN "none"
                        ELSE IF op \in failed THEN "cleanup" ELSE stage[op]]
        /\ task' = [op \in Ops |->
                        IF op \in over THEN "idle"
                        ELSE IF op \in failed THEN "running" ELSE task[op]]
        /\ waits' = [op \in Ops |-> IF op \in failed THEN {} ELSE waits[op]]
        /\ cancelled' = cancelled \ failed
        /\ terminal' = terminal \cup over
        /\ Emit(over, "failed")
        /\ mutationActive' =
              (mutationActive /\ \A op \in failed : Class(op) # "Mutation")

\* Mutant: the terminal token is not fired.
CompleteEntrySilently(op, event) ==
    /\ stage' = [stage EXCEPT ![op] = "none"]
    /\ task' = [task EXCEPT ![op] = "idle"]
    /\ waits' = [waits EXCEPT ![op] = {}]
    /\ cancelled' = cancelled \ {op}
    /\ Emit({op}, event)
    /\ mutationActive' = (mutationActive /\ Class(op) # "Mutation")
    /\ UNCHANGED terminal

\* The entry's task has been joined: its event is emitted, its token fired.
CompleteEntry(op, event) ==
    /\ stage' = [stage EXCEPT ![op] = "none"]
    /\ task' = [task EXCEPT ![op] = "idle"]
    /\ waits' = [waits EXCEPT ![op] = {}]
    /\ cancelled' = cancelled \ {op}
    /\ terminal' = terminal \cup {op}
    /\ Emit({op}, event)
    /\ mutationActive' = (mutationActive /\ Class(op) # "Mutation")

-----------------------------------------------------------------------------
(* The controller loop: run_controller                                     *)

Polling == phase = "run" /\ ~requested

\* handle_controller_message(Completed).  The shutdown loop checks the grace
\* period before it polls, so past it messages wait for the aborts.
HandleMessage ==
    LET op == messages[1][1]
        output == messages[1][2]
        scopes == {Scope(o) : o \in {n \in NetworkEntries : ProfileScoped(n)}}
    IN  /\ messages # <<>>
        /\ Polling \/ (phase = "closing" /\ ~(graceOver /\ NetworkEntries # {}))
        /\ messages' = Tail(messages)
        /\ \/ /\ stage[op] = "none"                     \* taken by someone else
              /\ UNCHANGED <<entries, keys, attempts, mutationActive>>
           \/ /\ stage[op] # "none" /\ task[op] = "done"
              /\ output = "output"
              /\ \E fenced \in SUBSET scopes :
                    LET targets == IF uncertain THEN NetworkEntries
                                   ELSE UNION {ProfileNetwork(s) : s \in fenced}
                    IN  /\ Register(op, "completion", "waiting", targets)
                        /\ cancelled' = (cancelled \cup targets) \ {op}
              /\ UNCHANGED <<keys, attempts, mutationActive>>
           \/ /\ stage[op] # "none" /\ task[op] = "done"
              /\ output # "output"
              /\ CompleteEntry(op, output)
        /\ UNCHANGED <<lanes, permits, uncertain, closing, status, cancels>>

\* handle_control(CancelOperation): a cancel that finds no entry only gives
\* its key back.
CancelOperation(op) ==
    /\ cancelled' = cancelled \cup ({op} \cap Registered)
    /\ keys' = IF op \in Registered THEN keys ELSE keys \ {<<"cancel", op>>}
    /\ UNCHANGED <<stage, task, waits, terminal, permits, attempts>>

\* start_profile_control: every registered network task of the scope is
\* cancelled and its terminal awaited.  A Reconnect with nothing to join needs
\* both permits at once; otherwise it queues for them behind its targets.
StartControl(op) ==
    LET targets == ProfileNetwork(Scope(op)) IN
    \/ /\ Kind[op] = "disconnect" \/ targets # {}
       /\ Register(op, "work", "waiting", targets)
       /\ cancelled' = cancelled \cup targets
       /\ UNCHANGED <<permits, keys, attempts>>
    \/ /\ Kind[op] = "reconnect" /\ targets = {}
       /\ IF /\ Available(profileQueue[Subject[op]], 1)
             /\ Available(globalQueue, GlobalLimit)
          THEN /\ Register(op, "work", "running", {})
               /\ TakePermits(op)
               /\ UNCHANGED <<cancelled, keys, attempts>>
          ELSE Refuse(op, "failed")

\* handle_control(DisconnectProfile / ReconnectProfile); a Reconnect whose
\* generation is no longer current is refused before it starts.
ProfileControl(op) ==
    \/ /\ uncertain
       /\ attempts' = [attempts EXCEPT ![op] = @ + 1]
       /\ keys' = keys \ {<<"cancel", op>>, <<Kind[op], Scope(op)>>}
       /\ UNCHANGED <<entries, permits>>
    \/ ~uncertain /\ StartControl(op)
    \/ ~uncertain /\ Kind[op] = "reconnect" /\ Refuse(op, "failed")

HandleControl ==
    LET command == Head(controlLane)
        op == command[2]
    IN  /\ Polling /\ messages = <<>> /\ controlLane # <<>>
        /\ controlLane' = Tail(controlLane)
        /\ \/ command[1] = "cancel" /\ CancelOperation(op)
           \/ command[1] # "cancel" /\ ProfileControl(op)
        /\ UNCHANGED <<workLane, mutationLane, messages, control, closing,
                       status, cancels>>

\* start_mutation: polled only while no mutation is active.
StartMutation ==
    LET op == Head(mutationLane) IN
    /\ Polling /\ messages = <<>> /\ controlLane = <<>>
    /\ ~mutationActive /\ mutationLane # <<>>
    /\ mutationLane' = Tail(mutationLane)
    /\ \/ /\ uncertain /\ Kind[op] # "refresh"
          /\ Refuse(op, "other")
          /\ UNCHANGED mutationActive
       \/ /\ ~uncertain \/ Kind[op] = "refresh"
          /\ Register(op, "work", "running", {})
          /\ mutationActive' = TRUE
          /\ UNCHANGED <<cancelled, permits, keys, attempts>>
    /\ UNCHANGED <<workLane, controlLane, messages, uncertain, closing, status,
                   cancels>>

\* Mutant: only the permits decide whether the profile is busy.
StartWorkByPermits(op) ==
    IF /\ Available(profileQueue[Subject[op]], 1)
       /\ Available(globalQueue, GlobalLimit)
    THEN /\ Register(op, "work", "running", {})
         /\ TakePermits(op)
         /\ UNCHANGED <<cancelled, keys, attempts>>
    ELSE Refuse(op, "failed")

\* start_profile_work: busy while any network entry of the profile id is
\* registered, of whatever generation, or when a permit is missing.
StartProfileWork(op) ==
    IF /\ \A o \in NetworkEntries : ProfileScoped(o) => Subject[o] # Subject[op]
       /\ Available(profileQueue[Subject[op]], 1)
       /\ Available(globalQueue, GlobalLimit)
    THEN /\ Register(op, "work", "running", {})
         /\ TakePermits(op)
         /\ UNCHANGED <<cancelled, keys, attempts>>
    ELSE Refuse(op, "failed")

\* start_draft_work: one test per draft, each with a global permit.
StartDraftWork(op) ==
    IF /\ Available(profileQueue[Subject[op]], 1)
       /\ Available(globalQueue, GlobalLimit)
    THEN /\ Register(op, "work", "running", {})
         /\ TakePermits(op)
         /\ UNCHANGED <<cancelled, keys, attempts>>
    ELSE Refuse(op, "failed")

\* start_export_work: one export per result, ExportLimit in the process; it
\* takes no network permit and ignores Config uncertain.
StartExportWork(op) ==
    LET exporting == {o \in Registered : Class(o) = "Export"} IN
    IF /\ \A o \in exporting : Subject[o] # Subject[op]
       /\ Cardinality({o \in exporting : task[o] = "running"}) < ExportLimit
    THEN /\ Register(op, "work", "running", {})
         /\ UNCHANGED <<cancelled, permits, keys, attempts>>
    ELSE Refuse(op, "failed")

\* handle_work
HandleWork ==
    LET op == Head(workLane) IN
    /\ Polling /\ messages = <<>> /\ controlLane = <<>>
    /\ mutationActive \/ mutationLane = <<>>
    /\ workLane # <<>>
    /\ workLane' = Tail(workLane)
    /\ \/ Kind[op] = "export" /\ StartExportWork(op)
       \/ Kind[op] # "export" /\ uncertain /\ Refuse(op, "other")
       \/ Kind[op] = "draft" /\ ~uncertain /\ StartDraftWork(op)
       \/ Kind[op] \in ProfileWork /\ ~uncertain /\ StartProfileWork(op)
    /\ UNCHANGED <<mutationLane, controlLane, messages, control, closing,
                   status, cancels>>

\* reap_panicked_tasks, on a tick that finds every lane empty.
Reap ==
    LET panicked == {op \in Registered : task[op] = "panicked"} IN
    /\ messages = <<>>
    /\ \/ Polling /\ controlLane = <<>> /\ workLane = <<>>
                  /\ (mutationActive \/ mutationLane = <<>>)
       \/ phase = "closing" /\ ~(graceOver /\ NetworkEntries # {})
    /\ panicked # {}
    /\ FailEntries(panicked)
    /\ UNCHANGED <<lanes, permits, messages, uncertain, closing, status, cancels>>

-----------------------------------------------------------------------------
(* Shutdown: close_and_drain and finish_controller_shutdown                *)

QueuedOps ==
    {workLane[i] : i \in DOMAIN workLane}
        \cup {mutationLane[i] : i \in DOMAIN mutationLane}
        \cup {controlLane[i][2] :
                 i \in {j \in DOMAIN controlLane : controlLane[j][1] # "cancel"}}

\* The lanes are closed and drained without events; every task is cancelled.
CloseLanes ==
    /\ phase \in {"run", "unavailable"} /\ requested
    /\ phase' = "closing"
    /\ workLane' = <<>> /\ mutationLane' = <<>> /\ controlLane' = <<>>
    /\ status' = [op \in Ops |-> IF op \in QueuedOps THEN "drained" ELSE status[op]]
    /\ cancelled' = cancelled \cup Registered
    /\ UNCHANGED <<keys, stage, task, waits, terminal, permits, messages, control,
                   requested, graceOver, attempts, cancels>>

GraceExpires ==
    /\ phase = "closing" /\ ~graceOver
    /\ graceOver' = TRUE
    /\ UNCHANGED <<lanes, keys, entries, permits, messages, control, phase,
                   requested, history>>

\* Mutant: cleanups are joined, not aborted.
AbortTasksOnly ==
    LET aborted == {op \in NetworkEntries : stage[op] # "cleanup"} IN
    /\ phase = "closing" /\ graceOver
    /\ aborted # {}
    /\ FailEntries(aborted)
    /\ DropPermits(aborted)
    /\ UNCHANGED <<lanes, messages, uncertain, closing, status, cancels>>

\* Past the grace period every network entry is aborted and joined: a task
\* becomes a cleanup, and the next pass aborts the cleanups.
AbortNetwork ==
    /\ phase = "closing" /\ graceOver
    /\ NetworkEntries # {}
    /\ FailEntries(NetworkEntries)
    /\ DropPermits(NetworkEntries)
    /\ UNCHANGED <<lanes, messages, uncertain, closing, status, cancels>>

\* The registry is empty: shutdown_runtime, then RuntimeShutdown.
ShutdownRuntime ==
    /\ phase = "closing"
    /\ Registered = {}
    /\ phase' = "down"
    /\ messages' = <<>>
    /\ UNCHANGED <<lanes, keys, entries, permits, control, requested, graceOver,
                   history>>

\* run_unavailable: without a configuration every command is answered with a
\* failure.  (The answer to a cancel is an event about the configuration.)
AnswerUnavailable ==
    /\ phase = "unavailable" /\ ~requested
    /\ \/ /\ controlLane # <<>>
          /\ controlLane' = Tail(controlLane)
          /\ \/ /\ Head(controlLane)[1] = "cancel"
                /\ keys' = keys \ {Head(controlLane)}
                /\ UNCHANGED attempts
             \/ /\ Head(controlLane)[1] # "cancel"
                /\ Emit({Head(controlLane)[2]}, "failed")
          /\ UNCHANGED <<workLane, mutationLane>>
       \/ /\ controlLane = <<>> /\ mutationLane # <<>>
          /\ mutationLane' = Tail(mutationLane)
          /\ Emit({Head(mutationLane)}, "failed")
          /\ UNCHANGED <<workLane, controlLane>>
       \/ /\ controlLane = <<>> /\ mutationLane = <<>> /\ workLane # <<>>
          /\ workLane' = Tail(workLane)
          /\ Emit({Head(workLane)}, "failed")
          /\ UNCHANGED <<mutationLane, controlLane>>
    /\ UNCHANGED <<entries, permits, messages, control, closing, status, cancels>>

-----------------------------------------------------------------------------
(* The spawned tasks                                                       *)

taskUnchanged == <<lanes, keys, terminal, cancelled, mutationActive, closing, history>>

\* The last poll of a task: its permits are dropped, then Completed is sent.
Send(op, output) ==
    /\ task' = [task EXCEPT ![op] = "done"]
    /\ DropPermits({op})
    /\ messages' = Append(messages, <<op, output>>)
    /\ UNCHANGED <<stage, waits, uncertain, taskUnchanged>>

MoveTo(op, state) ==
    /\ task' = [task EXCEPT ![op] = state]
    /\ UNCHANGED <<stage, waits, messages, uncertain, taskUnchanged>>

Joined(op) == waits[op] \subseteq terminal

\* wait_for_target_terminals of a Disconnect, and the waiters of a mutation's
\* completion, which is not cancellable.
AwaitTargets(op) ==
    /\ task[op] = "waiting" /\ (Kind[op] = "disconnect" \/ stage[op] = "completion")
    /\ Joined(op)
    /\ IF stage[op] = "work" /\ op \in cancelled
       THEN Send(op, "failed")
       ELSE MoveTo(op, "running") /\ UNCHANGED permits

\* acquire_reconnect_permits_after_targets, first poll: unless it is already
\* cancelled the Reconnect joins both permit queues.
QueueReconnect(op) ==
    /\ task[op] = "waiting" /\ Kind[op] = "reconnect"
    /\ IF op \in cancelled
       THEN MoveTo(op, "draining") /\ UNCHANGED permits
       ELSE MoveTo(op, "queued") /\ TakePermits(op)

\* The joined wait is over: targets terminal and both permits granted.
GrantReconnect(op) ==
    /\ task[op] = "queued" /\ op \notin cancelled
    /\ Joined(op)
    /\ Granted(op, profileQueue[Subject[op]], 1)
    /\ Granted(op, globalQueue, GlobalLimit)
    /\ MoveTo(op, "running")
    /\ UNCHANGED permits

\* Cancelled, or the request's deadline has passed; the pinned wait keeps its
\* places in the queues while the targets are joined.
GiveUpReconnect(op) ==
    /\ task[op] = "queued"
    /\ MoveTo(op, "draining")
    /\ UNCHANGED permits

DrainReconnect(op) ==
    /\ task[op] = "draining"
    /\ Joined(op)
    /\ Send(op, "failed")

\* What the future of op may complete with.
Outputs(op) ==
    CASE stage[op] = "cleanup" -> {"failed"}
      [] stage[op] = "completion" -> {"other"}
      [] stage[op] = "work" /\ Kind[op] \in {"connect", "reconnect"} -> {"ready", "failed"}
      [] stage[op] = "work" /\ Kind[op] = "disconnect" -> {"closed", "failed"}
      [] stage[op] = "work" /\ Kind[op] \in {"update", "create", "refresh"} -> {"output"}
      [] OTHER -> {"other"}

FinishTask(op) ==
    /\ task[op] = "running"
    /\ \E output \in Outputs(op) : Send(op, output)

\* A panic: the future is dropped with its permits, nothing is sent.
PanicTask(op) ==
    /\ task[op] = "running" /\ op \in Fragile
    /\ task' = [task EXCEPT ![op] = "panicked"]
    /\ DropPermits({op})
    /\ UNCHANGED <<stage, waits, messages, uncertain, taskUnchanged>>

\* The service enters Config uncertain during a mutation; a reload leaves it.
ChangeUncertain(op) ==
    /\ task[op] = "running" /\ stage[op] = "work"
    /\ Kind[op] \in {"update", "create", "refresh"}
    /\ uncertain' \in (IF Kind[op] = "refresh" THEN {~uncertain} ELSE {TRUE})
    /\ UNCHANGED <<stage, waits, task, permits, messages, taskUnchanged>>

TaskStep(op) ==
    \/ AwaitTargets(op) \/ QueueReconnect(op) \/ GrantReconnect(op)
    \/ GiveUpReconnect(op) \/ DrainReconnect(op) \/ FinishTask(op)

-----------------------------------------------------------------------------
Init ==
    /\ workLane = <<>> /\ mutationLane = <<>> /\ controlLane = <<>>
    /\ keys = {}
    /\ stage = [op \in Ops |-> "none"]
    /\ task = [op \in Ops |-> "idle"]
    /\ waits = [op \in Ops |-> {}]
    /\ cancelled = {} /\ terminal = {}
    /\ profileQueue = [s \in Subjects |-> <<>>]
    /\ globalQueue = <<>>
    /\ messages = <<>>
    /\ mutationActive = FALSE /\ uncertain = FALSE
    /\ phase \in {"run", "unavailable"}
    /\ requested = FALSE /\ graceOver = FALSE
    /\ status = [op \in Ops |-> "new"]
    /\ attempts = [op \in Ops |-> 0]
    /\ cancels = [op \in Ops |-> 0]

ControllerStep ==
    \/ HandleMessage \/ HandleControl \/ StartMutation \/ HandleWork \/ Reap
    \/ CloseLanes \/ AbortNetwork \/ ShutdownRuntime \/ AnswerUnavailable

ClientStep ==
    \/ RequestShutdown
    \/ \E op \in Ops : Submit(op) \/ SubmitCancel(op)

Next ==
    \/ ControllerStep
    \/ GraceExpires
    \/ ClientStep
    \/ \E op \in Ops : TaskStep(op) \/ PanicTask(op) \/ ChangeUncertain(op)

Spec == Init /\ [][Next]_vars

-----------------------------------------------------------------------------
(* Properties                                                              *)

Commands == (Controls \cup {"cancel"}) \X Ops
AllKeys == {ControlKey(command) : command \in Commands}
Events == {"ready", "closed", "failed", "other", "output"}

TypeOK ==
    /\ workLane \in Seq(Ops) /\ Len(workLane) <= WorkCapacity
    /\ mutationLane \in Seq(Ops) /\ Len(mutationLane) <= MutationCapacity
    /\ controlLane \in Seq(Commands) /\ Len(controlLane) <= ControlCapacity
    /\ keys \subseteq AllKeys
    /\ stage \in [Ops -> {"none", "work", "completion", "cleanup"}]
    /\ task \in [Ops -> {"idle", "waiting", "queued", "draining", "running",
                         "done", "panicked"}]
    /\ waits \in [Ops -> SUBSET Ops]
    /\ cancelled \subseteq Ops /\ terminal \subseteq Ops
    /\ profileQueue \in [Subjects -> Seq(Ops)]
    /\ globalQueue \in Seq(Ops)
    /\ messages \in Seq(Ops \X Events)
    /\ {mutationActive, uncertain, requested, graceOver} \subseteq BOOLEAN
    /\ phase \in {"run", "unavailable", "closing", "down"}
    /\ status \in [Ops -> {"new", "submitted", "rejected", "coalesced", "drained"}]
    /\ attempts \in [Ops -> Nat]
    /\ cancels \in [Ops -> 0..MaxCancels]

Live(op) == task[op] \in {"waiting", "queued", "draining", "running"}

\* At most one terminal event is attempted for an operation, and none while it
\* is still registered, whatever mix of completion, panic, reaping, abort,
\* cleanup and late Completed message it goes through.
AnsweredOnce ==
    \A op \in Ops :
        /\ attempts[op] <= 1
        /\ stage[op] # "none" => attempts[op] = 0

\* No permit outlives its task and no profile or draft task runs without one:
\* whoever is in a permit queue is alive, and a running task of a kind that
\* needs permits has both.
PermitsAccounted ==
    /\ \A subject \in Subjects : \A i \in DOMAIN profileQueue[subject] :
          Live(profileQueue[subject][i])
    /\ \A i \in DOMAIN globalQueue : Live(globalQueue[i])
    /\ \A op \in Ops :
          /\ stage[op] = "work" /\ task[op] = "running"
          /\ Kind[op] \in ProfileWork \cup {"draft", "reconnect"}
          => /\ Granted(op, profileQueue[Subject[op]], 1)
             /\ Granted(op, globalQueue, GlobalLimit)

\* The mutation lane is closed exactly while one mutation (or its completion)
\* is registered: two never overlap and a failed one does not wedge the lane.
MutationsSerialized ==
    LET active == {op \in Registered : Class(op) = "Mutation"}
    IN  /\ Cardinality(active) <= 1
        /\ mutationActive <=> active # {}

\* While the runtime accepts commands, a coalescing key in use stands for a
\* command that is queued or registered, so no control is swallowed forever
\* by the key of a command that is gone.
KeysBacked ==
    phase \in {"run", "unavailable"} =>
        \A key \in keys :
            \/ \E i \in DOMAIN controlLane : ControlKey(controlLane[i]) = key
            \/ \E op \in Registered :
                  key \in {<<"cancel", op>>, <<Kind[op], Scope(op)>>}

\* The converse for Disconnect: an accepted Disconnect that is not yet answered
\* holds its key, so a second one for the profile is coalesced, not queued.
DisconnectsCoalesced ==
    \A op \in Ops :
        /\ Kind[op] = "disconnect" /\ phase \in {"run", "unavailable"}
        /\ status[op] = "submitted" /\ attempts[op] = 0
        => <<"disconnect", Scope(op)>> \in keys

\* The controller awaits the join handle of a completed entry inside its loop.
\* It is never the handle of a task that still runs: a Completed message meets
\* its own finished task or no entry; only past the grace period may it meet a
\* cleanup, which is aborted before the message is taken.
CompletedTasksJoinAtOnce ==
    \A i \in DOMAIN messages :
        LET op == messages[i][1] IN
        \/ stage[op] = "none"
        \/ task[op] = "done"
        \/ graceOver /\ stage[op] = "cleanup"

\* A task that awaits terminal tokens awaits only tokens that were fired or
\* whose operation is still registered: no path drops an entry silently.
TargetsSettle ==
    \A op \in Ops : Live(op) =>
        \A target \in waits[op] : target \in terminal \/ stage[target] # "none"

\* No task is detached: one that is alive is registered, and none is left when
\* the runtime reports its shutdown.
NoDetachedTask ==
    \A op \in Ops : Live(op) => stage[op] # "none" /\ phase # "down"

\* At most one task works on a profile generation at a time: a Disconnect, which
\* takes no permit, does not overlap the work it displaced or work started
\* after it.
ProfileExclusive ==
    \A a, b \in Ops :
        /\ stage[a] = "work" /\ task[a] = "running"
        /\ stage[b] = "work" /\ task[b] = "running"
        /\ {Kind[a], Kind[b]} \subseteq ProfileWork \cup Controls
        /\ Scope(a) = Scope(b)
        => a = b

\* Whatever a command took, it gives back whichever way it ends: permits,
\* coalescing keys and its task (start_profile_work, release_for_event,
\* finish_controller_shutdown).
ResourcesAccounted ==
    TypeOK /\ PermitsAccounted /\ KeysBacked /\ DisconnectsCoalesced /\ NoDetachedTask

\* A completion is joined without waiting and answered once (finish_task_output,
\* reap_panicked_tasks, finish_controller_shutdown).
AnswersSound == AnsweredOnce /\ CompletedTasksJoinAtOnce

\* Mutations exclude each other, and so does the work on one profile
\* (mutation_active, has_profile_network_for_id).
ExclusiveAccess == MutationsSerialized /\ ProfileExclusive

-----------------------------------------------------------------------------
(* Fairness and liveness                                                   *)

\* The controller and every task are scheduled by the runtime.  Nothing obliges
\* the client to act, a task to panic or the server to answer: network tasks may
\* hang for ever, mutations and exports end.
DurableStep(op) == op \notin NetworkEntries /\ TaskStep(op)
FairSpec ==
    /\ Spec
    /\ WF_vars(ControllerStep) /\ WF_vars(GraceExpires)
    /\ \A op \in Ops : WF_vars(DurableStep(op))

\* Every network request carries a deadline.
DeadlinesHold == \A op \in Ops : WF_vars(TaskStep(op))

\* Where deadlines hold, every accepted command is answered, or drained by a
\* shutdown: nothing waits for ever in a lane, for a permit, or for another
\* operation's terminal.
AcceptedSettles ==
    DeadlinesHold =>
        \A op \in Ops :
            status[op] = "submitted" ~> (attempts[op] = 1 \/ status[op] = "drained")

\* A requested shutdown completes even if every network task hangs: the grace
\* period bounds them, and whoever awaits them is released.
ShutdownCompletes == requested ~> phase = "down"

-----------------------------------------------------------------------------
(* A claim of the documents                                                *)

\* "Cancel is always routed through the dedicated control lane, stops client
\* waiting promptly": a cancel the controller takes reaches its operation
\* instead of finding it still queued in its own lane.
CancelReachesOperation ==
    [][\A op \in Ops :
          /\ HandleControl
          /\ Head(controlLane) = <<"cancel", op>>
          => op \notin QueuedOps]_vars

=============================================================================
