---------------------------- MODULE AtomicConfig ----------------------------
(***************************************************************************)
(* What mutate_path promises its callers in one process: the stored        *)
(* configuration behaves like a variable that each call updates in one     *)
(* atomic step, applied to the value stored at that moment, between the    *)
(* call and its answer.  An error means the step did not happen; Committed *)
(* means no power loss will take it back.                                  *)
(***************************************************************************)
EXTENDS ConfigContent

CONSTANTS Callers, Jobs, InitialContents, EditedContents

VARIABLES store,      \* the stored content and its sequence number
          survivors,  \* what the store may be after a power loss
          count,      \* updates so far
          request     \* per caller: its call

vars == <<store, survivors, count, request>>

Idle == [phase |-> "idle"]
Pending(job) == [phase |-> "pending", job |-> job]
Applied(n) == [phase |-> "applied", seq |-> n]
Answered(result) == [phase |-> "answered", result |-> result]

Init ==
    /\ \E content \in InitialContents : store = [content |-> content, seq |-> 0]
    /\ survivors = {store}
    /\ count = 0
    /\ request = [c \in Callers |-> Idle]

Call(c) ==
    /\ request[c].phase \in {"idle", "answered"}
    /\ \E job \in Jobs : request' = [request EXCEPT ![c] = Pending(job)]
    /\ UNCHANGED <<store, survivors, count>>

Put(content) ==
    /\ count' = count + 1
    /\ store' = [content |-> content, seq |-> count']
    /\ survivors' = survivors \cup {store'}

\* A mutation may take effect on this content.
Admissible(job, content) ==
    /\ Loadable(content)
    /\ ValidMutation(job.mutation)
    /\ MigrationRequired(content) => job.consent = "Confirmed"
    /\ ApplyError(job.mutation, ProfilesOf(content)) = "ok"

Update(c) ==
    /\ request[c].phase = "pending"
    /\ Admissible(request[c].job, store.content)
    /\ Put(Encoded(request[c].job.mutation, store.content))
    /\ request' = [request EXCEPT ![c] = Applied(count')]

Refuse(c) ==
    /\ request[c].phase = "pending"
    /\ request' = [request EXCEPT ![c] = Answered("error")]
    /\ UNCHANGED <<store, survivors, count>>

Answer(c) ==
    /\ request[c].phase = "applied"
    /\ \/ request' = [request EXCEPT ![c] = Answered("unknown")]
       \/ /\ \A entry \in survivors : entry.seq >= request[c].seq
          /\ request' = [request EXCEPT ![c] = Answered("committed")]
    /\ UNCHANGED <<store, survivors, count>>

Persist ==
    /\ survivors' = {store}
    /\ UNCHANGED <<store, count, request>>

Edit ==
    /\ \E content \in EditedContents : Put(content)
    /\ UNCHANGED request

Crash ==
    /\ request' = [c \in Callers |-> Idle]
    /\ \/ UNCHANGED <<store, survivors>>
       \/ store' \in survivors /\ survivors' = {store'}
    /\ UNCHANGED count

Next ==
    \/ \E c \in Callers : Call(c) \/ Update(c) \/ Refuse(c) \/ Answer(c)
    \/ Persist \/ Edit \/ Crash

Spec == Init /\ [][Next]_vars
=============================================================================
