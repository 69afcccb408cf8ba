------------------------------- MODULE UiModel -------------------------------
(***************************************************************************)
(* The model behind the window (src/src/ui/model.rs): what the screen says *)
(* of each profile, and how one service event is folded into it.           *)
(*                                                                         *)
(* A model is a record; Fold(m, e) is UiModel::fold.  A map entry that is   *)
(* missing is generation 0, NoProfile or Disconnected, which is how the    *)
(* code reads it.  Workspaces keep only their pending execution and the    *)
(* last failure of their explorer; text, results, pages, the selection and *)
(* the status line are left out.                                           *)
(***************************************************************************)
EXTENDS Naturals

CONSTANTS
    Ids,                \* profile ids; 0 is none of them
    Bodies,             \* contents of a profile
    SessionBodies       \* those whose credential mode is Session

ASSUME UiModelAssumption == Ids \subseteq Nat \ {0} /\ SessionBodies \subseteq Bodies

NoGen == 0
NoBody == "none"

\* ProfileSnapshot: generation, persisted content, has_current_session_secret.
NoProfile == [gen |-> NoGen, body |-> NoBody, secret |-> FALSE]

\* ConnectionState; n is the operation or the session generation.
Pending(op) == [is |-> "pending", n |-> op]
Connected(session) == [is |-> "connected", n |-> session]
Disconnected == [is |-> "disconnected", n |-> 0]
NeedsCredential == [is |-> "credential", n |-> 0]
Failed == [is |-> "failed", n |-> 0]
Closing == [is |-> "closing", n |-> 0]

NoRetag == <<NoGen, NoGen>>

\* UiModel::default
EmptyModel ==
    [profiles  |-> [i \in Ids |-> NoProfile],
     active    |-> [i \in Ids |-> NoGen],       \* active_generations
     tombs     |-> [i \in Ids |-> NoGen],       \* tombstones
     conn      |-> [i \in Ids |-> Disconnected],
     executing |-> {},                          \* pending_execute of each workspace
     failures  |-> {},                          \* catalog_error of each workspace, and the Redis ones
     uncertain |-> FALSE,
     lastLoad  |-> 0,                           \* last_profiles_operation
     retags    |-> [i \in Ids |-> NoRetag],
     nextOp    |-> 1]

-----------------------------------------------------------------------------
(* Is an event about the present?                                          *)

EventIsCurrent(m, id, gen) ==
    /\ ~m.uncertain
    /\ m.active[id] = gen
    /\ gen > m.tombs[id]

\* accepts_redis_event_session; session 0: the event names none.
AcceptsRedisSession(state, session) ==
    IF state.is = "connected" THEN session = state.n ELSE session = 0

Newer(m, op) == op > m.lastLoad

-----------------------------------------------------------------------------
(* Loads, saves and deletions                                              *)

\* fold_profiles.  A profile that is gone leaves its generation as tombstone;
\* a connection state survives for the same generation and content, or for a
\* generation its session was retagged to.
FoldProfiles(m, loaded) ==
    LET tombs == [i \in Ids |-> IF loaded[i].gen = NoGen /\ m.active[i] > m.tombs[i]
                                THEN m.active[i] ELSE m.tombs[i]]
        kept == [i \in Ids |-> IF loaded[i].gen > tombs[i] THEN loaded[i] ELSE NoProfile]
        same(i) == /\ m.profiles[i] # NoProfile /\ kept[i] # NoProfile
                   /\ \/ /\ m.profiles[i].gen = kept[i].gen
                         /\ m.profiles[i].body = kept[i].body
                      \/ m.retags[i] = <<m.profiles[i].gen, kept[i].gen>>
        locked(i) == kept[i].body \in SessionBodies /\ ~kept[i].secret
    IN  [m EXCEPT
            !.tombs = tombs,
            !.profiles = kept,
            !.active = [i \in Ids |-> kept[i].gen],
            !.conn = [i \in Ids |-> IF locked(i) THEN NeedsCredential
                                    ELSE IF same(i) THEN m.conn[i] ELSE Disconnected],
            !.executing = {x \in @ : x.gen = kept[x.id].gen},
            !.failures = {f \in @ : f.gen = kept[f.id].gen},
            !.retags = [i \in Ids |-> NoRetag],
            !.uncertain = FALSE]

\* ProfilesLoaded and ProfilesFailed: only of an operation newer than the last.
FoldLoaded(m, e) ==
    IF Newer(m, e.op) THEN FoldProfiles([m EXCEPT !.lastLoad = e.op], e.profiles) ELSE m

FoldLoadFailed(m, e) == IF Newer(m, e.op) THEN [m EXCEPT !.lastLoad = e.op] ELSE m

\* Mutant: a save never clears the connection state.
FoldSavedConnected(m, e) ==
    IF /\ e.gen > m.tombs[e.id]
       /\ IF e.prev # NoGen THEN m.active[e.id] \in {e.prev, e.gen}
                            ELSE m.active[e.id] <= e.gen
    THEN [m EXCEPT !.active[e.id] = e.gen,
                   !.retags[e.id] = IF e.retained THEN <<e.prev, e.gen>> ELSE NoRetag]
    ELSE m

\* ProfileSaved: the new generation is active at once; the screen keeps the
\* profile it shows until the next load.
FoldSaved(m, e) ==
    IF /\ e.gen > m.tombs[e.id]
       /\ IF e.prev # NoGen THEN m.active[e.id] \in {e.prev, e.gen}
                            ELSE m.active[e.id] <= e.gen
    THEN [m EXCEPT !.active[e.id] = e.gen,
                   !.retags[e.id] = IF e.retained THEN <<e.prev, e.gen>> ELSE NoRetag,
                   !.conn[e.id] = IF e.retained THEN @ ELSE Disconnected]
    ELSE m

\* fold_deleted; e.gen is the generation of the deletion.
FoldDeleted(m, e) ==
    IF m.active[e.id] >= e.gen THEN m
    ELSE [m EXCEPT !.tombs[e.id] = IF e.gen > @ THEN e.gen ELSE @,
                   !.active[e.id] = NoGen,
                   !.profiles[e.id] = NoProfile,
                   !.conn[e.id] = Disconnected,
                   !.executing = {x \in @ : x.id # e.id},
                   !.failures = {f \in @ : f.id # e.id}]

\* Mutant: the window takes commands for an uncertain configuration.
FoldUncertainUnmarked(m, e) ==
    IF Newer(m, e.op)
    THEN [m EXCEPT !.lastLoad = e.op,
                   !.retags = [i \in Ids |-> NoRetag],
                   !.conn = [i \in Ids |-> Disconnected], !.executing = {}]
    ELSE m

\* ConfigUncertain
FoldUncertain(m, e) ==
    IF Newer(m, e.op)
    THEN [m EXCEPT !.lastLoad = e.op, !.uncertain = TRUE,
                   !.retags = [i \in Ids |-> NoRetag],
                   !.conn = [i \in Ids |-> Disconnected], !.executing = {}]
    ELSE m

-----------------------------------------------------------------------------
(* Outcomes of operations                                                  *)

FoldStored(m, e) ==
    IF ~EventIsCurrent(m, e.id, e.gen) THEN m
    ELSE [m EXCEPT !.profiles[e.id].secret = (@ \/ m.profiles[e.id] # NoProfile),
                   !.conn[e.id] = IF @ = NeedsCredential THEN Disconnected ELSE @]

\* ConnectionReady and ConnectionClosed answer the pending state only.
FoldAnswer(m, e, state) ==
    IF EventIsCurrent(m, e.id, e.gen) /\ m.conn[e.id] = Pending(e.op)
    THEN [m EXCEPT !.conn[e.id] = state]
    ELSE m

\* QueryFinished shows the session it ran on, whatever the state was.
FoldQueryFinished(m, e) ==
    LET x == [id |-> e.id, gen |-> e.gen, op |-> e.op] IN
    IF EventIsCurrent(m, e.id, e.gen) /\ x \in m.executing
    THEN [m EXCEPT !.executing = @ \ {x}, !.conn[e.id] = Connected(e.session)]
    ELSE m

\* The state a failure leaves: ConnectionFailureOutcome.
AfterFailure(outcome, state) ==
    CASE outcome = "preserve" -> state
      [] outcome \in {"disconnected", "rejected", "unknown"} -> Disconnected
      [] outcome = "credential" -> NeedsCredential

\* What a failure makes of the connection state.  A failed attempt to connect or
\* to disconnect answers its own pending state; the outcome of any other
\* failure counts unless another operation is pending.
ConnAfterFailure(state, e) ==
    LET attempt == e.of \in {"connect", "reconnect"}
        answered == state = Pending(e.op)
        shown == CASE answered /\ attempt /\ e.outcome = "credential" -> NeedsCredential
                   [] answered /\ (attempt \/ e.of = "disconnect") -> Failed
                   [] OTHER -> state
    IN  IF attempt \/ (state.is = "pending" /\ ~answered) THEN shown
        ELSE AfterFailure(e.outcome, shown)

\* OperationFailed
FoldFailed(m, e) ==
    IF ~EventIsCurrent(m, e.id, e.gen) THEN m
    ELSE [m EXCEPT
            !.executing = IF e.of = "execute"
                          THEN @ \ {[id |-> e.id, gen |-> e.gen, op |-> e.op]} ELSE @,
            !.conn[e.id] = ConnAfterFailure(@, e)]

\* The failure an explorer shows, until a page or another failure replaces it
Explored(m, e) ==
    {f \in m.failures : <<f.id, f.gen>> # <<e.id, e.gen>>}
        \cup (IF e.failed THEN {[op |-> e.op, of |-> "browse", id |-> e.id, gen |-> e.gen,
                                 outcome |-> e.outcome]}
              ELSE {})

\* A catalog page, with fold_catalog_session: a page never overwrites a pending or closing state or
\* another session.
FoldCatalog(m, e) ==
    LET state == m.conn[e.id]
        protected == \/ state.is \in {"pending", "closing"}
                     \/ state.is = "connected" /\ state.n # e.session
    IN  IF ~EventIsCurrent(m, e.id, e.gen) THEN m
        ELSE [m EXCEPT
                !.failures = Explored(m, e),
                !.conn[e.id] = IF e.session = 0 \/ e.disposition = "none" \/ protected THEN @
                               ELSE IF e.disposition = "keep" THEN Connected(e.session)
                               ELSE Disconnected]

\* The Redis events with apply_redis_session_truth.
FoldRedis(m, e) ==
    LET state == m.conn[e.id] IN
    IF ~EventIsCurrent(m, e.id, e.gen) \/ ~AcceptsRedisSession(state, e.session) THEN m
    ELSE [m EXCEPT
            !.failures = Explored(m, e),
            !.conn[e.id] =
              CASE e.session # 0 /\ e.disposition = "keep" -> Connected(e.session)
                [] e.disposition = "evict" -> Disconnected
                [] OTHER -> AfterFailure(e.outcome, state)]

Fold(m, e) ==
    CASE e.kind = "ProfilesLoaded" -> FoldLoaded(m, e)
      [] e.kind = "ProfilesFailed" -> FoldLoadFailed(m, e)
      [] e.kind = "ProfileSaved" -> FoldSaved(m, e)
      [] e.kind = "ProfileDeleted" -> FoldDeleted(m, e)
      [] e.kind = "ConfigUncertain" -> FoldUncertain(m, e)
      [] e.kind = "CredentialsStored" -> FoldStored(m, e)
      [] e.kind = "ConnectionReady" -> FoldAnswer(m, e, Connected(e.session))
      [] e.kind = "ConnectionClosed" -> FoldAnswer(m, e, e.post)
      [] e.kind = "QueryFinished" -> FoldQueryFinished(m, e)
      [] e.kind = "OperationFailed" -> FoldFailed(m, e)
      [] e.kind = "CatalogPage" -> FoldCatalog(m, e)
      [] e.kind = "RedisKeys" -> FoldRedis(m, e)
      [] OTHER -> m
=============================================================================
