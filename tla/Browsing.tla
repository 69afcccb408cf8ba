------------------------------ MODULE Browsing ------------------------------
(***************************************************************************)
(* What the two resource explorers share: the operations the window        *)
(* submits for one profile (src/ui/app.rs), the tasks that run them        *)
(* (run_redis_scan, run_redis_inspect, run_catalog_browse and              *)
(* run_profile_control of src/ui/runtime.rs), the session they use, and    *)
(* the events that bring the answers back in order.                        *)
(*                                                                         *)
(* One profile generation is followed.  A visible connection state that is *)
(* neither Pending nor Connected is "Disconnected" (the code also has      *)
(* Failed, NeedsCredential and Closing).  Refused submissions (a full lane, *)
(* another operation active) only set a message and are left out.          *)
(***************************************************************************)
EXTENDS Naturals, Sequences, FiniteSetsExt

CONSTANTS MaxOperations,    \* operations a behaviour submits
          RecipeLimit,      \* RETRY_RECIPE_LIMIT
          MaxSessions

ASSUME BrowsingBoundsAssumption ==
    /\ MaxOperations \in Nat /\ RecipeLimit \in Nat \ {0} /\ MaxSessions \in Nat \ {0}

VARIABLES
    operations, \* every operation submitted, with its request and its task
    active,     \* active_operations of the profile: an operation, or 0
    conn,       \* the visible ConnectionState
    recipes,    \* RetryRecipeRegistry: the operations that can be retried
    failed,     \* per kind of browse, the failed request whose error is shown, or 0
    session,    \* the cached session of the service, or 0
    sessions,   \* sessions opened so far
    events,     \* the event lane
    cycle,      \* history: how often the explorer was started afresh
    adopted     \* history: a continuation landed in another cycle than its own

browseVars == <<operations, active, conn, recipes, failed, session, sessions, events, cycle, adopted>>

BrowseKinds == {"scan", "inspect", "page"}
Controls == {"reconnect", "disconnect"}
Outcomes == {"Preserve", "Disconnected"}   \* ConnectionFailureOutcome; Unknown folds as Disconnected
Operation == 1..Len(operations)
Kind(op) == operations[op].kind
Request(op) == operations[op].request
Disconnected == [state |-> "Disconnected", at |-> 0]
Pending(op) == [state |-> "Pending", at |-> op]
Connected(s) == [state |-> "Connected", at |-> s]
Tasks == {"queued", "waiting", "acquiring", "leased", "done"}
Running(op) == operations[op].task # "done"
Started == {op \in Operation : Running(op) /\ operations[op].task # "queued"}
Event(op, answer, at, disposition, outcome, content) ==
    [op |-> op, answer |-> answer, session |-> at, disposition |-> disposition,
     outcome |-> outcome, content |-> content]
NoContent == [none |-> TRUE]

BrowsingTypeOK ==
    /\ Len(operations) <= MaxOperations
    /\ \A op \in Operation :
        /\ Kind(op) \in BrowseKinds \cup Controls \cup {"connect"}
        /\ operations[op].task \in Tasks
        /\ operations[op].lease \in 0..MaxSessions /\ operations[op].cancelled \in BOOLEAN
    /\ active \in 0..MaxOperations
    /\ conn \in [state : {"Disconnected", "Pending", "Connected"}, at : Nat]
    /\ recipes \subseteq Operation
    /\ failed \in [BrowseKinds -> 0..MaxOperations]
    /\ session \in 0..MaxSessions /\ sessions \in 0..MaxSessions
    /\ cycle \in Nat /\ adopted \in BOOLEAN

\* The window was just opened, or the profile was connected before.
BrowsingInit ==
    /\ operations = <<>> /\ active = 0 /\ recipes = {}
    /\ failed = [k \in BrowseKinds |-> 0]
    /\ \/ session = 0 /\ sessions = 0 /\ conn = Disconnected
       \/ session = 1 /\ sessions = 1 /\ conn = Connected(1)
    /\ events = <<>>
    /\ cycle = 0 /\ adopted = FALSE

-----------------------------------------------------------------------------
\* The window submits.

\* RetryRecipeRegistry::register: the newest RecipeLimit recipes are kept.
Register(known, op) ==
    LET all == known \cup {op} IN {r \in all : Cardinality({x \in all : x > r}) < RecipeLimit}

Enqueue(kind, request) ==
    /\ Len(operations) < MaxOperations
    /\ operations' = Append(operations, [kind |-> kind, request |-> request, task |-> "queued",
                                         lease |-> 0, cancelled |-> FALSE])
    /\ active' = Len(operations) + 1

\* A browse submitted by an explorer or by a retry; known is what the registry
\* still holds (a retry has taken its own recipe).
SubmitBrowse(kind, request, known) ==
    /\ active = 0
    /\ Enqueue(kind, request)
    /\ recipes' = Register(known, Len(operations) + 1)
    /\ UNCHANGED <<conn, failed, session, sessions, events, cycle, adopted>>

\* submit_connect_exact, submit_reconnect_exact
SubmitConnect(kind) ==
    /\ kind \in {"connect", "reconnect"}
    /\ active = 0 /\ conn.state # "Pending"
    /\ Enqueue(kind, NoContent)
    /\ conn' = Pending(Len(operations) + 1)
    /\ recipes' = Register(recipes, Len(operations) + 1)
    /\ UNCHANGED <<failed, session, sessions, events, cycle, adopted>>

\* submit_disconnect: whatever operation is active is displaced.  (A second
\* Disconnect while one is active is coalesced by the port; see Controller.)
SubmitDisconnect ==
    /\ active # 0 => Kind(active) # "disconnect"
    /\ Enqueue("disconnect", NoContent)
    /\ conn' = Pending(Len(operations) + 1)
    /\ UNCHANGED <<recipes, failed, session, sessions, events, cycle, adopted>>

\* CancelOperation for the browse the explorer shows as pending.  (A cancel that
\* overtakes its operation is lost; see Controller.)
CancelBrowse(op) ==
    /\ active = op /\ Kind(op) \in BrowseKinds
    /\ Running(op) /\ operations[op].task # "queued" /\ ~operations[op].cancelled
    /\ operations' = [operations EXCEPT ![op].cancelled = TRUE]
    /\ UNCHANGED <<active, conn, recipes, failed, session, sessions, events, cycle, adopted>>

-----------------------------------------------------------------------------
\* The tasks.

Answered(op, e) ==
    /\ operations' = [operations EXCEPT ![op].task = "done"]
    /\ events' = Append(events, e)
    /\ UNCHANGED <<active, conn, recipes, failed, cycle, adopted>>

\* start_profile_work: a task with the profile's permit, or the operation is refused
\* (a task of the profile is registered, or no global permit is free).
StartNetwork(op) ==
    /\ Kind(op) \notin Controls /\ operations[op].task = "queued"
    /\ \A o \in 1..(op - 1) : operations[o].task = "queued" => Kind(o) \in Controls
    /\ UNCHANGED <<session, sessions>>
    /\ \/ Answered(op, Event(op, "failed", 0, "none", "Preserve", NoContent))
       \/ /\ Started = {}
          /\ operations' = [operations EXCEPT ![op].task = "acquiring"]
          /\ UNCHANGED <<active, conn, recipes, failed, events, cycle, adopted>>

\* Preparation and acquire_session_at: refused, cancelled or timed out before there
\* is a session, or a lease on the cached session or on a new one.
AcquireSession(op) ==
    /\ operations[op].task = "acquiring"
    /\ \/ /\ \E outcome \in Outcomes :
                Answered(op, Event(op, "failed", 0, "none", outcome, NoContent))
          /\ UNCHANGED <<session, sessions>>
       \/ /\ ~operations[op].cancelled
          /\ session = 0 => sessions < MaxSessions
          /\ sessions' = IF session = 0 THEN sessions + 1 ELSE sessions
          /\ session' = IF session = 0 THEN sessions + 1 ELSE session
          /\ operations' = [operations EXCEPT ![op].task = "leased", ![op].lease = session']
          /\ UNCHANGED <<active, conn, recipes, failed, events, cycle, adopted>>

Evict(s) == session' = IF session = s THEN 0 ELSE session

\* The driver answers with content, fails and keeps the session, or the task
\* is cancelled, times out or loses the session, which is evicted.
FinishBrowse(op, content) ==
    /\ Kind(op) \in BrowseKinds /\ operations[op].task = "leased"
    /\ UNCHANGED sessions
    /\ LET s == operations[op].lease IN
       \/ /\ ~operations[op].cancelled /\ session = s
          /\ UNCHANGED session
          /\ \/ Answered(op, Event(op, "loaded", s, "Keep", "Preserve", content))
             \/ Answered(op, Event(op, "failed", s, "Keep", "Preserve", NoContent))
       \/ /\ Evict(s)
          /\ Answered(op, Event(op, "failed", s, "Evict", "Disconnected", NoContent))

\* run_connect after its ping
FinishConnect(op) ==
    /\ Kind(op) \in {"connect", "reconnect"} /\ operations[op].task = "leased"
    /\ UNCHANGED sessions
    /\ LET s == operations[op].lease IN
       \/ /\ ~operations[op].cancelled /\ session = s
          /\ UNCHANGED session
          /\ Answered(op, Event(op, "ready", s, "Keep", "Preserve", NoContent))
       \/ /\ Evict(s)
          /\ \E outcome \in Outcomes :
                Answered(op, Event(op, "failed", s, "Evict", outcome, NoContent))

\* start_profile_control: the session to evict is read, then the profile's network
\* tasks are cancelled; the lane of controls is served in order and before the lane
\* of other work.  A Reconnect that has nothing to wait for is refused if no global
\* permit is free.
StartControl(op) ==
    /\ operations[op].task = "queued"
    /\ Kind(op) \in Controls
    /\ \A o \in 1..(op - 1) : operations[o].task = "queued" => Kind(o) \notin Controls
    /\ UNCHANGED <<session, sessions>>
    /\ \/ /\ Kind(op) = "reconnect" /\ Started = {}
          /\ Answered(op, Event(op, "failed", 0, "none", "Preserve", NoContent))
       \/ /\ operations' = [o \in Operation |->
                IF o = op THEN [operations[o] EXCEPT !.task = "waiting", !.lease = session]
                ELSE [operations[o] EXCEPT !.cancelled = @ \/ o \in Started]]
          /\ UNCHANGED <<active, conn, recipes, failed, events, cycle, adopted>>

\* run_profile_control once the cancelled tasks have answered: the session read
\* at the start is evicted; a Reconnect goes on to connect.  A control that was
\* cancelled, or a Reconnect that waited too long, evicts nothing.  An earlier command
\* that was still in the lane of other work is taken, and refused, meanwhile.
CloseSession(op) ==
    /\ operations[op].task = "waiting"
    /\ \A o \in 1..(op - 1) : ~Running(o)
    /\ UNCHANGED sessions
    /\ \/ /\ operations[op].cancelled \/ Kind(op) = "reconnect"
          /\ UNCHANGED session
          /\ Answered(op, Event(op, "failed", 0, "none", "Disconnected", NoContent))
       \/ /\ Kind(op) = "disconnect" /\ ~operations[op].cancelled /\ Evict(operations[op].lease)
          /\ Answered(op, Event(op, "closed", 0, "none", "Disconnected", NoContent))
       \/ /\ Kind(op) = "reconnect" /\ Evict(operations[op].lease)
          /\ operations' = [operations EXCEPT ![op].task = "acquiring"]
          /\ UNCHANGED <<active, conn, recipes, failed, events, cycle, adopted>>

TaskStep(op) ==
    \/ StartNetwork(op) \/ AcquireSession(op) \/ FinishConnect(op)
    \/ StartControl(op) \/ CloseSession(op)

-----------------------------------------------------------------------------
\* The window takes an event.

\* finish_active_operation
Finished(op) == IF active = op THEN 0 ELSE active
RecipesAfter(e) == IF e.answer = "failed" THEN recipes ELSE recipes \ {e.op}

\* UiModel::fold of ConnectionReady, ConnectionClosed and OperationFailed
FoldConnection(e) ==
    IF conn # Pending(e.op) THEN conn
    ELSE IF e.answer = "ready" THEN Connected(e.session) ELSE Disconnected

-----------------------------------------------------------------------------
(* The card says Connected only of the session that is cached in the       *)
(* service, or while the event that says otherwise is on its way           *)
(* (apply_redis_session_truth and fold_catalog_session against the         *)
(* evictions of the tasks).                                                *)
ConnectedIsLive ==
    conn.state = "Connected" =>
        session = conn.at \/ \E k \in DOMAIN events : events[k].op = active

(* An active operation of the profile is over some day: browsing never     *)
(* locks the connection, although Redis events of another session are      *)
(* dropped (redis_resource_event_disposition).                             *)
BrowsesSettle ==
    \A op \in 1..MaxOperations : active = op ~> active # op

(* The accumulator is "state for one weakly consistent SCAN cycle"         *)
(* (redis_browser.rs:24): no page that continues a cycle is folded into    *)
(* another one.                                                            *)
OneCycle == ~adopted

(* "Execute or browse auto-connect uses the same path and updates visible  *)
(* connection state" (docs/usable-mvp/spec.md:133): when the active browse *)
(* has loaded something over a session, the window shows that session.     *)
AutoConnectIsVisible ==
    [][\A op \in Operation :
        /\ active = op /\ active' # op /\ Kind(op) \in BrowseKinds
        /\ events # <<>> /\ Head(events).op = op /\ Head(events).answer = "loaded"
        => conn' = Connected(Head(events).session)]_browseVars
=============================================================================
