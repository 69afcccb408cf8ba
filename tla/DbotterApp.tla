----------------------------- MODULE DbotterApp -----------------------------
(***************************************************************************)
(* The application behind the window (src/src/ui/app.rs): what it keeps    *)
(* besides the model, the commands it submits and what it makes of each    *)
(* event.  A world w is a record of the model w.m, the application w.a and *)
(* the port w.p; an operator takes a world and gives the next one.         *)
(*                                                                         *)
(* Left out: draft tests, exports, the explorers' pages, the selection,    *)
(* migration consent and the eviction of the oldest of 64 recipes.         *)
(***************************************************************************)
EXTENDS UiModel, Sequences

CONSTANTS
    Redis,              \* the ids of Redis profiles; the others are MySQL
    Capacity            \* places in each lane of the port

ASSUME DbotterAppAssumption == Redis \subseteq Ids /\ Capacity \in Nat \ {0}

NoId == 0
Idle == [op |-> 0, gen |-> NoGen, kind |-> "none"]      \* no active operation
NoDelete == [op |-> 0, gen |-> NoGen, prior |-> Idle, finished |-> FALSE]
NoPrompt == [id |-> NoId, gen |-> NoGen, source |-> "none", recipe |-> 0, store |-> 0]
NoError == [op |-> 0, of |-> "none", id |-> NoId, gen |-> NoGen, outcome |-> "none"]
NoConfirmation == [id |-> NoId, gen |-> NoGen]
NoEditor == [mode |-> "none", id |-> NoId, gen |-> NoGen, secret |-> FALSE,
             save |-> 0, connect |-> FALSE, uncertain |-> FALSE]
NoFollowUp == [id |-> NoId, op |-> 0]

\* DbotterApp::new, before its first refresh
EmptyApp ==
    [ops      |-> [i \in Ids |-> Idle],         \* active_operations
     deletes  |-> [i \in Ids |-> NoDelete],     \* pending_deletes
     recipes  |-> {},                           \* retry_recipes
     prompt   |-> NoPrompt,                     \* credential_prompt
     error    |-> NoError,                      \* common_error
     confirm  |-> NoConfirmation,               \* delete_confirmation
     editor   |-> NoEditor,                     \* profile_editor
     followUp |-> NoFollowUp]                   \* pending_connect_after_refresh

-----------------------------------------------------------------------------
(* The port                                                                *)

EmptyPort == [control |-> <<>>, mutation |-> <<>>, work |-> <<>>, keys |-> {}]

Lane(kind) ==
    CASE kind \in {"cancel", "disconnect", "reconnect"} -> "control"
      [] kind \in {"refresh", "create", "update", "delete", "store"} -> "mutation"
      [] OTHER -> "work"

\* A command; secret is the session-secret update of a save.
Command(m, kind, id, gen) ==
    [kind |-> kind, op |-> m.nextOp, id |-> id, gen |-> gen, body |-> NoBody, secret |-> "Clear"]

ControlKey(c) ==
    IF c.kind = "cancel" THEN <<"cancel", c.op>> ELSE <<c.kind, c.id, c.gen>>

Coalesced(p, c) == Lane(c.kind) = "control" /\ ControlKey(c) \in p.keys

\* Mutant: a lane takes one command more than it has room for.
AcceptsFull(p, c) == Coalesced(p, c) \/ Len(p[Lane(c.kind)]) <= Capacity

\* try_submit returns Ok
Accepts(p, c) == Coalesced(p, c) \/ Len(p[Lane(c.kind)]) < Capacity

\* A control whose key is taken is accepted and not sent.
Sent(p, c) ==
    IF Coalesced(p, c) THEN p
    ELSE [p EXCEPT ![Lane(c.kind)] = Append(@, c),
                   !.keys = IF Lane(c.kind) = "control" THEN @ \cup {ControlKey(c)} ELSE @]

\* The operation number is spent even if the port is busy.
TrySubmit(w, c, Accepted(_)) ==
    LET spent == [w EXCEPT !.m.nextOp = c.op + 1] IN
    IF Accepts(w.p, c) THEN Accepted([spent EXCEPT !.p = Sent(@, c)]) ELSE spent

-----------------------------------------------------------------------------
(* Retry recipes and the credential prompt                                 *)

Recipe(c) == [op |-> c.op, kind |-> c.kind, id |-> c.id, gen |-> c.gen]
Without(recipes, op) == {r \in recipes : r.op # op}
ActiveOperation(c) == [op |-> c.op, gen |-> c.gen, kind |-> c.kind]

CancelPrompt(w) ==
    IF w.a.prompt = NoPrompt THEN w
    ELSE [w EXCEPT !.a.prompt = NoPrompt, !.a.recipes = Without(@, w.a.prompt.recipe)]

\* open_credential_prompt_for
OpenPrompt(w, id, gen, source, recipe) ==
    IF /\ w.m.active[id] = gen
       /\ w.m.profiles[id].gen = gen /\ w.m.profiles[id].body \in SessionBodies
    THEN [CancelPrompt(w) EXCEPT
            !.a.prompt = [id |-> id, gen |-> gen, source |-> source, recipe |-> recipe, store |-> 0]]
    ELSE [w EXCEPT !.a.recipes = Without(@, recipe)]

\* open_session_credential_prompt
OpenSessionPrompt(w, id) ==
    LET profile == w.m.profiles[id]
        seed == Command(w.m, "connect", id, profile.gen)
    IN  IF \/ profile = NoProfile \/ w.m.active[id] # profile.gen
           \/ profile.body \notin SessionBodies
        THEN w
        ELSE OpenPrompt([w EXCEPT !.m.nextOp = @ + 1, !.a.recipes = @ \cup {Recipe(seed)}],
                        id, profile.gen, "connect", seed.op)

\* submit_credential_prompt: refused or stale, it is closed with its recipe.
SubmitPrompt(w) ==
    LET prompt == w.a.prompt
        c == Command(w.m, "store", prompt.id, prompt.gen)
    IN  IF prompt = NoPrompt \/ prompt.store # 0 THEN w
        ELSE IF w.m.uncertain \/ w.m.active[prompt.id] # prompt.gen \/ ~Accepts(w.p, c)
        THEN CancelPrompt(w)
        ELSE TrySubmit(w, c, LAMBDA v : [v EXCEPT !.a.prompt.store = c.op])

-----------------------------------------------------------------------------
(* Commands about connections                                              *)

SubmitRefresh(w) == TrySubmit(w, Command(w.m, "refresh", NoId, NoGen), LAMBDA v : v)

ConnectionBusy(w, id) == w.m.conn[id].is = "pending" \/ w.a.ops[id] # Idle

\* submit_connect_exact and submit_reconnect_exact
SubmitAttempt(w, kind, id, gen) ==
    LET c == Command(w.m, kind, id, gen) IN
    IF ConnectionBusy(w, id) THEN w
    ELSE TrySubmit(w, c, LAMBDA v :
            [v EXCEPT !.a.recipes = @ \cup {Recipe(c)},
                      !.m.conn[id] = Pending(c.op),
                      !.a.ops[id] = ActiveOperation(c)])

\* submit_test
SubmitTest(w, id) ==
    LET profile == w.m.profiles[id] IN
    CASE w.m.uncertain \/ profile = NoProfile \/ w.m.active[id] # profile.gen -> w
      [] OTHER ->
           IF /\ profile.body \in SessionBodies
              /\ ~profile.secret \/ w.m.conn[id] = NeedsCredential
           THEN OpenSessionPrompt(w, id)
           ELSE SubmitAttempt(w, "connect", id, profile.gen)

\* submit_disconnect replaces whatever operation was tracked.
SubmitDisconnect(w, id) ==
    LET c == Command(w.m, "disconnect", id, w.m.active[id]) IN
    IF w.m.uncertain \/ w.m.active[id] = NoGen THEN w
    ELSE TrySubmit(w, c, LAMBDA v : [v EXCEPT !.m.conn[id] = Pending(c.op),
                                              !.a.ops[id] = ActiveOperation(c)])

SubmitReconnect(w, id) ==
    IF w.m.uncertain \/ w.m.active[id] = NoGen THEN w
    ELSE SubmitAttempt(w, "reconnect", id, w.m.active[id])

-----------------------------------------------------------------------------
(* Executing and browsing, of the profile on screen                        *)

\* submit_editor_intent
SubmitExecute(w, id) ==
    LET gen == w.m.profiles[id].gen
        c == Command(w.m, "execute", id, gen)
    IN  IF \/ w.m.uncertain \/ w.m.active[id] # gen \/ w.a.ops[id] # Idle
           \/ \E x \in w.m.executing : x.id = id /\ x.gen = gen
        THEN w
        ELSE TrySubmit(w, c, LAMBDA v :
                [v EXCEPT !.m.executing = @ \cup {[id |-> id, gen |-> gen, op |-> c.op]},
                          !.a.ops[id] = ActiveOperation(c)])

\* A cancel of an execution or of a Redis scan; it spends no operation number.
SubmitCancel(w, op) ==
    LET c == [Command(w.m, "cancel", NoId, NoGen) EXCEPT !.op = op] IN
    IF Accepts(w.p, c) THEN [w EXCEPT !.p = Sent(@, c)] ELSE w

\* retry_catalog_request, retry_redis_scan, retry_redis_inspect
SubmitBrowseExact(w, id, gen) ==
    LET c == Command(w.m, "browse", id, gen) IN
    IF w.a.ops[id] # Idle THEN w
    ELSE TrySubmit(w, c, LAMBDA v : [v EXCEPT !.a.recipes = @ \cup {Recipe(c)},
                                              !.a.ops[id] = ActiveOperation(c)])

\* submit_mysql_explorer_intent, submit_redis_intent_for
SubmitBrowse(w, id) ==
    LET gen == w.m.profiles[id].gen IN
    IF w.m.uncertain \/ (id \in Redis /\ w.m.active[id] # gen) THEN w
    ELSE SubmitBrowseExact(w, id, gen)

\* retry_recipe: the recipe is used up, whatever comes of it.
RetryRecipe(w, op, kind) ==
    LET taken == [w EXCEPT !.a.recipes = Without(@, op)]
        current(r) == r.op = op /\ r.kind = kind /\ ~w.m.uncertain /\ w.m.active[r.id] = r.gen
    IN  IF ~\E r \in w.a.recipes : current(r) THEN taken
        ELSE LET r == CHOOSE r \in w.a.recipes : current(r) IN
             IF kind = "browse" THEN SubmitBrowseExact(taken, r.id, r.gen)
             ELSE SubmitAttempt(taken, kind, r.id, r.gen)

\* dismiss_operation_error
Dismiss(w, f) ==
    [w EXCEPT !.a.recipes = Without(@, f.op),
              !.a.error = IF @.op = f.op THEN NoError ELSE @,
              !.m.failures = {x \in @ : x.op # f.op}]

\* OpenCredentialEditor of a failure: the recipe only if it is about the same.
RecoverCredential(w, f) ==
    LET same(r) == r.op = f.op /\ r.kind = f.of /\ r.id = f.id /\ r.gen = w.m.active[f.id] IN
    IF w.m.active[f.id] = NoGen THEN w
    ELSE OpenPrompt(w, f.id, w.m.active[f.id], f.of,
                    IF \E r \in w.a.recipes : same(r) THEN f.op ELSE 0)

-----------------------------------------------------------------------------
(* Editing and deleting                                                    *)

OpenEditor(w, id) ==
    LET profile == w.m.profiles[id] IN
    [w EXCEPT !.a.editor = [NoEditor EXCEPT !.mode = "edit", !.id = id, !.gen = profile.gen,
                              !.secret = /\ profile.secret
                                         /\ profile.body \in SessionBodies]]

NewEditor(w) == [w EXCEPT !.a.editor = [NoEditor EXCEPT !.mode = "add"]]

\* actions_enabled; a draft test is never pending here
EditorEnabled(w) ==
    w.a.editor # NoEditor /\ ~w.a.editor.uncertain /\ w.a.editor.save = 0

\* session_update_for_save: what may happen to the secret of a profile saved
\* with this body.
SecretUpdates(editor, body) ==
    IF body \notin SessionBodies THEN {"Clear"}
    ELSE {"Replace", "Clear"} \cup (IF editor.secret THEN {"Keep"} ELSE {})

\* try_save_with_connect
SubmitSave(w, body, secret, connect) ==
    LET editor == w.a.editor
        kind == IF editor.mode = "add" THEN "create" ELSE "update"
        c == [Command(w.m, kind, editor.id, editor.gen) EXCEPT !.body = body, !.secret = secret]
    IN  TrySubmit(w, c, LAMBDA v : [v EXCEPT !.a.editor.save = c.op, !.a.editor.connect = connect])

\* The footer's Cancel
CancelEditor(w) ==
    IF w.a.editor.uncertain \/ w.a.editor.save = 0 THEN [w EXCEPT !.a.editor = NoEditor] ELSE w

OpenDelete(w, id) ==
    LET gen == w.m.profiles[id].gen IN
    IF w.m.uncertain \/ w.m.active[id] # gen THEN w
    ELSE [w EXCEPT !.a.confirm = [id |-> id, gen |-> gen]]

\* confirm_delete_confirmation keeps the operation it displaces.
ConfirmDelete(w) ==
    LET id == w.a.confirm.id
        c == Command(w.m, "delete", id, w.a.confirm.gen)
    IN  IF w.m.active[id] # w.a.confirm.gen THEN [w EXCEPT !.a.confirm = NoConfirmation]
        ELSE TrySubmit(w, c, LAMBDA v :
                [v EXCEPT !.a.confirm = NoConfirmation,
                          !.m.conn[id] = Closing,
                          !.a.ops[id] = ActiveOperation(c),
                          !.a.deletes[id] = [op |-> c.op, gen |-> c.gen, prior |-> w.a.ops[id],
                                             finished |-> FALSE]])

-----------------------------------------------------------------------------
(* What the application makes of an event                                  *)

Failures == {"ProfilesFailed", "ProfileCreateFailed", "ProfileUpdateFailed",
             "CredentialsStoreFailed", "OperationFailed"}

\* capture_common_error: the failure shown in the window, an execution's excepted.
\* That it offers a retry (attach_retry_recipe) is that its recipe is there.
CaptureError(w, e) ==
    CASE e.kind = "ConfigUncertain" -> [w EXCEPT !.a.error = NoError]
      [] e.kind = "OperationFailed" ->
           IF e.of = "execute" THEN w
           ELSE [w EXCEPT !.a.error =
                   [op |-> e.op, of |-> e.of, id |-> e.id, gen |-> e.gen, outcome |-> e.outcome]]
      [] e.kind \in Failures \ {"OperationFailed"} ->
           [w EXCEPT !.a.error = [NoError EXCEPT !.op = e.op]]
      [] OTHER -> w

\* Is the event the answer to the prompt's store?
AnswersPrompt(w, e) ==
    /\ e.kind \in {"CredentialsStored", "CredentialsStoreFailed", "OperationFailed"}
    /\ w.a.prompt.store # 0
    /\ w.a.prompt.store = e.op /\ w.a.prompt.id = e.id /\ w.a.prompt.gen = e.gen

\* A credential that was stored for the current generation repeats the operation.
CredentialRetries(w, e) ==
    /\ AnswersPrompt(w, e) /\ e.kind = "CredentialsStored"
    /\ ~w.m.uncertain /\ w.m.active[e.id] = e.gen
    /\ w.a.prompt.recipe # 0

\* handle_credential_terminal
HandleCredential(w, e) ==
    IF e.kind = "ConfigUncertain" THEN CancelPrompt(w)
    ELSE IF ~AnswersPrompt(w, e) THEN w
    ELSE IF CredentialRetries(w, e) THEN [w EXCEPT !.a.prompt = NoPrompt]
    ELSE CancelPrompt(w)

Terminals == {"ConnectionReady", "ConnectionClosed", "QueryFinished", "OperationFailed",
              "ProfileDeleted", "CatalogPage", "RedisKeys"}

Fails(e) ==
    e.kind = "OperationFailed" \/ (e.kind \in {"CatalogPage", "RedisKeys"} /\ e.failed)

\* Mutant: an operation that ended while its profile was being deleted is
\* put back.
FinishActiveForgetful(w, e) ==
    LET d == w.a.deletes[e.id] IN
    IF e.kind \notin Terminals THEN w
    ELSE IF e.kind = "OperationFailed" /\ e.of = "delete" /\ d.op = e.op
    THEN [w EXCEPT !.a.deletes[e.id] = NoDelete, !.a.ops[e.id] = d.prior]
    ELSE [w EXCEPT !.a.deletes[e.id] = IF e.kind = "ProfileDeleted" THEN NoDelete ELSE @,
                   !.a.ops[e.id] = IF @.op = e.op THEN Idle ELSE @,
                   !.a.recipes = IF Fails(e) THEN @ ELSE Without(@, e.op)]

\* finish_active_operation.  A deletion that certainly did not happen puts back the
\* operation it displaced, unless that has ended.
FinishActive(w, e) ==
    IF e.kind = "ConfigUncertain"
    THEN [w EXCEPT !.a.ops = EmptyApp.ops, !.a.deletes = EmptyApp.deletes, !.a.recipes = {}]
    ELSE IF e.kind \notin Terminals THEN w
    ELSE LET d == w.a.deletes[e.id]
             finished == d.finished \/ (d.prior # Idle /\ d.prior.op = e.op)
             rest == IF w.a.ops[e.id].op = e.op THEN Idle ELSE w.a.ops[e.id]
         IN  IF e.kind = "OperationFailed" /\ e.of = "delete" /\ d.op = e.op
             THEN [w EXCEPT !.a.deletes[e.id] = NoDelete,
                            !.a.ops[e.id] =
                                IF /\ e.uncommitted /\ ~finished /\ d.prior # Idle
                                   /\ w.m.active[e.id] = d.gen
                                THEN d.prior ELSE rest]
             ELSE [w EXCEPT !.a.deletes[e.id] = IF e.kind = "ProfileDeleted" THEN NoDelete
                                                ELSE IF d = NoDelete THEN d
                                                ELSE [d EXCEPT !.finished = finished],
                            !.a.ops[e.id] = rest,
                            !.a.recipes = IF Fails(e) THEN @ ELSE Without(@, e.op)]

\* redis_resource_event_disposition
RedisDisposition(w, e) ==
    LET expected == [op |-> e.op, gen |-> e.gen, kind |-> "browse"] IN
    CASE e.kind # "RedisKeys" -> "apply"
      [] e.kind = "RedisKeys" ->
           IF w.m.uncertain \/ w.m.active[e.id] # e.gen \/ w.a.ops[e.id] # expected
           THEN "ignore"
           ELSE IF AcceptsRedisSession(w.m.conn[e.id], e.session) THEN "apply" ELSE "stale"

\* ProfileEditor::handle_event
EditorTakes(w, e, kinds) ==
    /\ w.a.editor # NoEditor /\ ~w.a.editor.uncertain
    /\ w.a.editor.save # 0 /\ w.a.editor.save = e.op /\ e.kind \in kinds

\* The editor's save is done: it closes, and the profiles are loaded again.
HandleSaved(w, e) ==
    LET folded == [w EXCEPT !.m = Fold(@, e), !.a.editor = NoEditor]
        refresh == Command(folded.m, "refresh", NoId, NoGen)
        followUp == IF ~w.a.editor.connect THEN w.a.followUp
                    ELSE IF Accepts(w.p, refresh) THEN [id |-> e.id, op |-> refresh.op]
                    ELSE NoFollowUp
    IN  [TrySubmit(folded, refresh, LAMBDA v : v) EXCEPT !.a.followUp = followUp]

\* The load a save asked for, before it connects.
FollowUpAnswered(w, e) ==
    /\ e.kind \in {"ProfilesLoaded", "ProfilesFailed"}
    /\ w.a.followUp # NoFollowUp /\ w.a.followUp.op = e.op

\* The fold, then the connection a save or a stored credential asked for.
FoldAndFollow(w, e) ==
    LET folded == [w EXCEPT !.m = Fold(@, e)]
        id == w.a.followUp.id
        answered == [folded EXCEPT !.a.followUp = NoFollowUp]
    IN  IF ~FollowUpAnswered(w, e) THEN folded
        ELSE IF /\ e.kind = "ProfilesLoaded" /\ Newer(w.m, e.op)
                /\ answered.m.active[id] # NoGen
        THEN SubmitTest(answered, id)
        ELSE answered

\* One event of poll_events
Handle(w, e) ==
    LET disposition == RedisDisposition(w, e)
        prepared == FinishActive(HandleCredential(CaptureError(w, e), e), e)
    IN  CASE disposition = "ignore" -> w
          [] disposition = "stale" ->
               [FinishActive(w, e) EXCEPT !.a.recipes = Without(@, e.op)]
          [] EditorTakes(prepared, e, {"ProfileSaved"}) -> HandleSaved(prepared, e)
          [] EditorTakes(prepared, e, {"ProfileCreateFailed", "ProfileUpdateFailed"}) ->
               [prepared EXCEPT !.a.editor.save = 0]
          [] OTHER ->
               LET warned == IF e.kind = "ConfigUncertain" /\ w.a.editor # NoEditor
                             THEN [prepared EXCEPT !.a.editor.uncertain = TRUE] ELSE prepared
                   followed == FoldAndFollow(warned, e)
               IN  IF CredentialRetries(w, e)
                   THEN RetryRecipe(followed, w.a.prompt.recipe, w.a.prompt.source)
                   ELSE followed

\* The end of poll_events: what belongs to another generation is dropped.
EndFrame(w) ==
    LET current(x, i) == w.m.active[i] # NoGen /\ x.gen = w.m.active[i]
        a == [w.a EXCEPT
                !.ops = [i \in Ids |-> IF current(@[i], i) THEN @[i] ELSE Idle],
                !.deletes = [i \in Ids |-> IF current(@[i], i) THEN @[i] ELSE NoDelete],
                !.recipes = {r \in @ : current(r, r.id)},
                !.editor = IF @ = NoEditor THEN @ ELSE [@ EXCEPT !.uncertain = w.m.uncertain]]
        pruned == [w EXCEPT !.a = a]
    IN  IF a.prompt # NoPrompt /\ ~current(a.prompt, a.prompt.id) THEN CancelPrompt(pruned)
        ELSE pruned
=============================================================================
