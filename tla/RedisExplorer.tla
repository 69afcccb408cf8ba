--------------------------- MODULE RedisExplorer ---------------------------
(***************************************************************************)
(* The Redis keyspace explorer: RedisExplorer (src/ui/redis_explorer.rs),  *)
(* RedisScanAccumulator, scan_keys and inspect_key                         *)
(* (src/drivers/redis_browser.rs), and the window's handling of their      *)
(* events (src/ui/app.rs, src/ui/model.rs).                                *)
(*                                                                         *)
(* The keyspace is a set of keys, each at the SCAN cursor where an         *)
(* iteration meets it.  SCAN promises only that a key that stays in the    *)
(* keyspace is returned at its cursor; any other key may come and go, and  *)
(* any key may be returned again.                                          *)
(***************************************************************************)
EXTENDS Browsing

CONSTANTS Keys,
          Stable,       \* keys that stay in the keyspace
          Oversize,     \* keys longer than MAX_REDIS_KEY_BYTES
          CursorOf,     \* where SCAN meets a key
          LastCursor,
          Filters,      \* what the filter field may hold
          EmptyFilter,  \* the filter of a fresh explorer
          Matching,     \* the keys a filter matches
          MaxKeys,      \* MAX_REDIS_KEYS
          Selectable    \* bound: the keys the user selects

ASSUME KeyspaceAssumption ==
    /\ Stable \subseteq Keys /\ Oversize \subseteq Keys
    /\ LastCursor \in Nat /\ CursorOf \in [Keys -> 0..LastCursor]
    /\ EmptyFilter \in Filters /\ Matching \in [Filters -> SUBSET Keys]
    /\ MaxKeys \in Nat /\ Selectable \subseteq Keys

VARIABLES explorer

vars == <<browseVars, explorer>>

NoKey == "none"
\* A scan request, with the cycle it was made in as history
ScanRequest(filter, cursor, restart) ==
    [filter |-> filter, cursor |-> cursor, restart |-> restart, cycle |-> cycle]
InspectRequest(key) == [key |-> key]

\* RedisScanAccumulator::new
NewScan(filter) ==
    [filter |-> filter, keys |-> {}, next |-> 0, requested |-> FALSE, truncated |-> FALSE, stale |-> FALSE]

\* RedisExplorer::default
NewExplorer ==
    [draft |-> EmptyFilter, scan |-> NewScan(EmptyFilter), pendingScan |-> 0,
     selected |-> NoKey, preview |-> NoKey, pendingInspect |-> 0, inspectStale |-> FALSE]

IsComplete(scan) == scan.requested /\ scan.next = 0

TypeOK ==
    /\ BrowsingTypeOK
    /\ explorer.draft \in Filters /\ explorer.scan.filter \in Filters
    /\ explorer.scan.keys \subseteq Keys /\ explorer.scan.next \in 0..LastCursor
    /\ explorer.pendingScan \in 0..MaxOperations /\ explorer.pendingInspect \in 0..MaxOperations
    /\ explorer.selected \in Keys \cup {NoKey} /\ explorer.preview \in Keys \cup {NoKey}
    /\ \A k \in DOMAIN explorer : k \in DOMAIN NewExplorer

Init == BrowsingInit /\ explorer = NewExplorer

-----------------------------------------------------------------------------
\* The driver.

\* Keeping at most MaxKeys of the offered keys beside those already held; which
\* ones depends on the order the server returned them in.
Retained(held, offered) ==
    LET room == MaxKeys - Cardinality(held)
        new == offered \ held
    IN IF Cardinality(new) <= room THEN {held \cup new}
       ELSE {held \cup x : x \in kSubset(room, new)}

\* scan_keys: one SCAN call, oversize keys skipped, the page capped
Pages(request) ==
    LET matching == Matching[request.filter]
        certain == {k \in matching \cap Stable : CursorOf[k] = request.cursor}
        nextCursor == IF request.cursor = LastCursor THEN 0 ELSE request.cursor + 1
    IN UNION {{[keys |-> kept, next |-> nextCursor,
                truncated |-> kept # returned] :
               kept \in Retained({}, returned \ Oversize)} :
              returned \in {certain \cup x : x \in SUBSET (matching \ certain)}}

\* inspect_key: TYPE, PTTL, the type's reads and TYPE again, all of one key; a
\* key that is gone or changes its type fails and keeps the session.
Contents(op) ==
    IF Kind(op) = "scan" THEN Pages(Request(op))
    ELSE {[key |-> Request(op).key, stale |-> FALSE]}

Finish(op) ==
    /\ Kind(op) \in {"scan", "inspect"} /\ operations[op].task = "leased"
    /\ \E content \in Contents(op) : FinishBrowse(op, content)
    /\ UNCHANGED explorer

-----------------------------------------------------------------------------
\* The explorer and its user.

EditFilter(filter) ==
    /\ filter # explorer.draft
    /\ explorer' = [explorer EXCEPT !.draft = filter]
    /\ UNCHANGED browseVars

\* The Scan intent of submit_redis_intent_for, and begin_scan
SubmitScan(request, known) ==
    /\ SubmitBrowse("scan", request, known)
    /\ explorer' = [explorer EXCEPT !.pendingScan = Len(operations) + 1]

Refresh ==
    /\ explorer.pendingScan = 0
    /\ SubmitScan(ScanRequest(explorer.draft, 0, TRUE), recipes)

\* load_more_intent
LoadMore ==
    /\ explorer.pendingScan = 0
    /\ ~IsComplete(explorer.scan) /\ explorer.scan.keys # {}
    /\ explorer.scan.filter = explorer.draft
    /\ SubmitScan(ScanRequest(explorer.scan.filter, explorer.scan.next, FALSE), recipes)

\* A click in render_keys
SelectKey(key) ==
    /\ key \in explorer.scan.keys /\ key # explorer.selected
    /\ explorer' = [explorer EXCEPT !.selected = key, !.preview = NoKey, !.inspectStale = FALSE]
    /\ UNCHANGED browseVars

\* The Inspect intent, and begin_inspect
SubmitInspect(key, known) ==
    /\ SubmitBrowse("inspect", InspectRequest(key), known)
    /\ explorer' = [explorer EXCEPT !.pendingInspect = Len(operations) + 1]

InspectSelected ==
    /\ explorer.pendingInspect = 0 /\ explorer.selected # NoKey
    /\ SubmitInspect(explorer.selected, recipes)

\* The Cancel intent of what the explorer shows as pending; an operation that is
\* no longer active is refused.
Cancel ==
    \E op \in {explorer.pendingScan, explorer.pendingInspect} \ {0} :
        CancelBrowse(op) /\ UNCHANGED explorer

\* Retry of a shown error: retry_recipe takes the recipe, then retry_redis_scan
\* or retry_redis_inspect submits it, unless another operation is active.
Retry(kind) ==
    LET op == failed[kind] IN
    /\ op \in recipes
    /\ \/ /\ active # 0
          /\ recipes' = recipes \ {op}
          /\ UNCHANGED <<operations, active, conn, failed, session, sessions, events, cycle,
                         adopted, explorer>>
       \/ kind = "scan" /\ SubmitScan(Request(op), recipes \ {op})
       \/ kind = "inspect" /\ SubmitInspect(Request(op).key, recipes \ {op})

\* RestartProfileRedisScan
RestartScan ==
    /\ failed["scan"] # 0
    /\ SubmitScan(ScanRequest(Request(failed["scan"]).filter, 0, TRUE), recipes)

\* dismiss_operation_error
Dismiss(kind) ==
    /\ failed[kind] # 0
    /\ recipes' = recipes \ {failed[kind]}
    /\ failed' = [failed EXCEPT ![kind] = 0]
    /\ UNCHANGED <<operations, active, conn, session, sessions, events, cycle, adopted, explorer>>

-----------------------------------------------------------------------------
\* The window takes a Redis event: poll_events.

\* accepts_redis_event_session
AcceptsSession(s) ==
    IF conn.state = "Connected" THEN s = conn.at ELSE s = 0

\* Mutant: an evicted session is still shown as connected.
SessionTruthKeeps(e) ==
    IF e.session # 0 THEN Connected(e.session)
    ELSE IF e.outcome = "Preserve" THEN conn ELSE Disconnected

\* apply_redis_session_truth
SessionTruth(e) ==
    IF e.disposition = "Keep" THEN Connected(e.session)
    ELSE IF e.disposition = "Evict" \/ e.outcome # "Preserve" THEN Disconnected
    ELSE conn

\* Mutant: only the first page of a cycle decides about truncation.
ApplyPageOverwrites(scan, page) ==
    {[scan EXCEPT !.requested = TRUE, !.next = page.next, !.keys = kept,
                  !.truncated = page.truncated] :
       kept \in Retained(scan.keys, page.keys)}

\* RedisScanAccumulator::apply_page
ApplyPage(scan, page) ==
    {[scan EXCEPT !.requested = TRUE, !.next = page.next, !.keys = kept,
                  !.truncated = @ \/ page.truncated \/ ~(page.keys \subseteq kept)] :
       kept \in Retained(scan.keys, page.keys)}

\* RedisExplorer::handle_event(RedisKeysLoaded)
KeysLoaded(e) ==
    IF explorer.pendingScan # e.op THEN {explorer}
    ELSE LET x == [explorer EXCEPT !.pendingScan = 0]
             restarted == [x EXCEPT !.scan = NewScan(Request(e.op).filter), !.selected = NoKey,
                                    !.preview = NoKey, !.pendingInspect = 0, !.inspectStale = FALSE]
             base == IF Request(e.op).restart THEN restarted ELSE x
         IN {[base EXCEPT !.scan = scan] : scan \in ApplyPage(base.scan, e.content)}

\* RedisKeysFailed
KeysFailed(e) ==
    IF explorer.pendingScan # e.op THEN explorer
    ELSE [explorer EXCEPT !.pendingScan = 0, !.scan.stale = TRUE]

\* RedisKeyInspected
KeyInspected(e) ==
    IF explorer.pendingInspect # e.op THEN explorer
    ELSE [explorer EXCEPT !.pendingInspect = 0, !.selected = e.content.key,
                          !.preview = e.content.key, !.inspectStale = e.content.stale]

\* RedisKeyInspectFailed
KeyInspectFailed(e) ==
    IF explorer.pendingInspect # e.op THEN explorer
    ELSE [explorer EXCEPT !.pendingInspect = 0, !.inspectStale = explorer.preview # NoKey]

ExplorerAfter(e) ==
    CASE e.answer = "loaded" /\ Kind(e.op) = "scan" -> KeysLoaded(e)
      [] e.answer = "failed" /\ Kind(e.op) = "scan" -> {KeysFailed(e)}
      [] e.answer = "loaded" /\ Kind(e.op) = "inspect" -> {KeyInspected(e)}
      [] OTHER -> {KeyInspectFailed(e)}

\* Does this page continue a cycle the explorer no longer holds?
Adopts(e) ==
    /\ e.answer = "loaded" /\ Kind(e.op) = "scan" /\ explorer.pendingScan = e.op
    /\ ~Request(e.op).restart /\ Request(e.op).cycle # cycle

\* Disposition Apply, then fold_redis_explorer_event, finish_active_operation
\* and UiModel::fold
ApplyRedisEvent(e) ==
    /\ active = e.op /\ AcceptsSession(e.session)
    /\ active' = 0
    /\ recipes' = RecipesAfter(e)
    /\ failed' = [failed EXCEPT ![Kind(e.op)] = IF e.answer = "failed" THEN e.op ELSE 0]
    /\ conn' = SessionTruth(e)
    /\ explorer' \in ExplorerAfter(e)
    /\ cycle' = IF e.answer = "loaded" /\ Kind(e.op) = "scan" /\ Request(e.op).restart
                THEN cycle + 1 ELSE cycle
    /\ adopted' = (adopted \/ Adopts(e))

\* Mutant: a stale terminal is dropped like an unknown one.
StaleTerminalIgnored(e) ==
    /\ active = e.op /\ ~AcceptsSession(e.session)
    /\ UNCHANGED <<active, recipes, conn, failed, cycle, adopted, explorer>>

\* Disposition StaleTerminal: the operation is over and its answer is dropped;
\* the explorer is not told.
StaleTerminal(e) ==
    /\ active = e.op /\ ~AcceptsSession(e.session)
    /\ active' = 0
    /\ recipes' = recipes \ {e.op}
    /\ UNCHANGED <<conn, failed, cycle, adopted, explorer>>

IgnoreRedisEvent(e) ==
    /\ active # e.op
    /\ UNCHANGED <<active, recipes, conn, failed, cycle, adopted, explorer>>

\* The events of connection work; fold_redis_explorer_event forgets the explorer
\* when the session its keys came from is gone.
ForgetsExplorer(e) ==
    /\ active = e.op
    /\ \/ e.answer \in {"ready", "closed"}
       \/ e.answer = "failed" /\ Kind(e.op) # "connect" /\ e.outcome # "Preserve"

ApplyConnectionEvent(e) ==
    /\ active' = Finished(e.op)
    /\ recipes' = RecipesAfter(e)
    /\ conn' = FoldConnection(e)
    /\ explorer' = IF ForgetsExplorer(e) THEN NewExplorer ELSE explorer
    /\ cycle' = IF ForgetsExplorer(e) THEN cycle + 1 ELSE cycle
    /\ UNCHANGED <<failed, adopted>>

PollEvent ==
    /\ events # <<>>
    /\ events' = Tail(events)
    /\ UNCHANGED <<operations, session, sessions>>
    /\ LET e == Head(events) IN
       IF Kind(e.op) \in BrowseKinds
       THEN ApplyRedisEvent(e) \/ StaleTerminal(e) \/ IgnoreRedisEvent(e)
       ELSE ApplyConnectionEvent(e)

-----------------------------------------------------------------------------
UserStep ==
    \/ \E filter \in Filters : EditFilter(filter)
    \/ Refresh \/ LoadMore \/ InspectSelected \/ Cancel \/ RestartScan
    \/ \E key \in Selectable : SelectKey(key)
    \/ \E kind \in {"scan", "inspect"} : Retry(kind) \/ Dismiss(kind)
    \/ (\E kind \in {"connect", "reconnect"} : SubmitConnect(kind)) /\ UNCHANGED explorer
    \/ SubmitDisconnect /\ UNCHANGED explorer

RuntimeStep(op) == Finish(op) \/ (TaskStep(op) /\ UNCHANGED explorer)

Next == UserStep \/ PollEvent \/ \E op \in Operation : RuntimeStep(op)

\* Tasks have timeouts and the window polls every frame.
Fairness ==
    /\ WF_vars(PollEvent)
    /\ \A op \in 1..MaxOperations : WF_vars(op \in Operation /\ RuntimeStep(op))

Spec == Init /\ [][Next]_vars /\ Fairness

-----------------------------------------------------------------------------
(* What the explorer calls complete ("cursor 0") and not truncated holds   *)
(* every key that stayed in the keyspace and matches the filter shown with *)
(* the list, whatever refreshes, retries, failures and disconnects came    *)
(* between the pages (redis_browser.rs apply_page, redis_explorer.rs       *)
(* load_more_intent and handle_event).  Cycles that a retry continued in an *)
(* explorer that had been forgotten are excepted; see OneCycle.            *)
ScanComplete ==
    LET scan == explorer.scan IN
    /\ TypeOK
    /\ ~adopted =>
        /\ scan.keys \subseteq Matching[scan.filter]
        /\ IsComplete(scan) /\ ~scan.truncated =>
              (Stable \cap Matching[scan.filter]) \ Oversize \subseteq scan.keys
=============================================================================
