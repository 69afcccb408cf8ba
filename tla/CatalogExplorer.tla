-------------------------- MODULE CatalogExplorer --------------------------
(***************************************************************************)
(* The MySQL catalog explorer: MySqlExplorerState (src/ui/mysql_explorer.rs), *)
(* the paging and the retained budget of src/drivers/mysql_catalog.rs, and *)
(* the window's handling of catalog events (src/ui/app.rs, src/ui/model.rs). *)
(*                                                                         *)
(* A branch is the list of schemas, the relations of a schema or the       *)
(* columns of a relation.  A node is its branch and its place in the order *)
(* the queries sort by.  Some nodes come and go between two queries.  The  *)
(* prefix field only matters when a request is made, so each request picks *)
(* one; which schemas and relations are unfolded is left out.              *)
(***************************************************************************)
EXTENDS Browsing

CONSTANTS Branches,
          Level,        \* "schemas", "relations" or "columns", of a branch
          Parent,       \* the node a branch hangs from; the root has NoNode
          Nodes,        \* the nodes, <<branch, place>>
          StableNodes,  \* those that stay in the catalog
          Prefixes, MatchingPlaces,
          PageSize,
          LevelCap,     \* MAX_CATALOG_SCHEMAS, _RELATIONS, _COLUMNS
          BranchCap,    \* MAX_CATALOG_COLUMNS_PER_RELATION
          TotalCap      \* MAX_CATALOG_UTF8_BYTES, a node counting for one

NoNode == <<"none", 0>>

ASSUME CatalogAssumption ==
    /\ Nodes \subseteq Branches \X (Nat \ {0}) /\ IsFiniteSet(Nodes) /\ StableNodes \subseteq Nodes
    /\ Level \in [Branches -> {"schemas", "relations", "columns"}]
    /\ Parent \in [Branches -> Nodes \cup {NoNode}]
    /\ MatchingPlaces \in [Prefixes -> SUBSET Nat]
    /\ PageSize \in Nat \ {0} /\ BranchCap \in Nat \ {0} /\ TotalCap \in Nat \ {0}
    /\ LevelCap \in [{"schemas", "relations", "columns"} -> Nat \ {0}]

VARIABLES tree,     \* branches
          pending,  \* the operations of pending
          retained  \* CatalogRetention::identities

catalogVars == <<browseVars, tree, pending, retained>>
explorerVars == <<tree, pending, retained>>

\* A page token: the place after which the next page starts, and the retained
\* counts of the pages before it; decode_page_token only accepts it for the
\* request it was made for.
NoToken == [after |-> 0, count |-> 0]
PageRequest(branch, prefix, token) == [branch |-> branch, prefix |-> prefix, token |-> token]
NotLoaded == [loaded |-> FALSE, nodes |-> {}, next |-> NoToken, truncated |-> FALSE,
              stale |-> FALSE, prefix |-> "none"]

CatalogTypeOK ==
    /\ BrowsingTypeOK
    /\ DOMAIN tree = Branches
    /\ \A b \in Branches : tree[b].nodes \subseteq Nodes /\ tree[b].prefix \in Prefixes \cup {"none"}
    /\ pending \subseteq Operation /\ retained \subseteq Nodes

CatalogInit ==
    /\ BrowsingInit
    /\ tree = [b \in Branches |-> NotLoaded] /\ pending = {} /\ retained = {}

-----------------------------------------------------------------------------
\* The driver: load_page.

FirstN(S, n) == {x \in S : Cardinality({y \in S : y[2] < x[2]}) < n}

\* load_schemas, load_relations, load_columns: the first rows after the token
Fetched(request, present, limit) ==
    FirstN({x \in present : /\ x[1] = request.branch /\ x[2] > request.token.after
                            /\ x[2] \in MatchingPlaces[request.prefix]}, limit)

\* CatalogRetention::can_retain for a branch whose earlier pages hold count
DriverRoom(branch, count) ==
    LET cap == Min({LevelCap[Level[branch]], TotalCap}
                   \cup (IF Level[branch] = "columns" THEN {BranchCap} ELSE {}))
    IN IF cap > count THEN cap - count ELSE 0

\* Mutant: the row that proves there is more is shown instead of asked for again.
FinishPageKeepsExtra(request, fetched) ==
    LET page == FirstN(fetched, PageSize)
        room == DriverRoom(request.branch, request.token.count)
        kept == FirstN(page, room)
        truncated == kept # page \/ (fetched # page /\ Cardinality(page) >= room)
        last == Max({x[2] : x \in fetched})
    IN [nodes |-> kept, truncated |-> truncated,
        next |-> IF fetched # page /\ ~truncated
                 THEN [after |-> last, count |-> request.token.count + Cardinality(kept)]
                 ELSE NoToken]

\* finish_page: at most PageSize rows, and a token after the last one if the
\* row fetched beyond them exists and would fit
FinishPage(request, fetched) ==
    LET page == FirstN(fetched, PageSize)
        room == DriverRoom(request.branch, request.token.count)
        kept == FirstN(page, room)
        truncated == kept # page \/ (fetched # page /\ Cardinality(page) >= room)
    IN [nodes |-> kept, truncated |-> truncated,
        next |-> IF fetched # page /\ ~truncated
                 THEN [after |-> Max({x[2] : x \in kept}),
                       count |-> request.token.count + Cardinality(kept)]
                 ELSE NoToken]

CatalogPages(request) ==
    LET volatile == {x \in Nodes \ StableNodes : x[1] = request.branch}
        answers == {Fetched(request, StableNodes \cup x, PageSize + 1) : x \in SUBSET volatile}
    IN {FinishPage(request, fetched) : fetched \in answers}

FinishCatalog(op) ==
    /\ Kind(op) = "page" /\ operations[op].task = "leased"
    /\ \E content \in CatalogPages(Request(op)) : FinishBrowse(op, content)
    /\ UNCHANGED explorerVars

-----------------------------------------------------------------------------
\* The explorer and its user.

\* submit_mysql_explorer_intent and mark_submitted
SubmitPage(request, known) ==
    /\ SubmitBrowse("page", request, known)
    /\ pending' = pending \cup {Len(operations) + 1}
    /\ UNCHANGED <<tree, retained>>

\* Refresh schemas, Show relations, Refresh relations, Show or Refresh columns
LoadBranch(branch, prefix) ==
    /\ pending = {}
    /\ Parent[branch] \in {NoNode} \cup UNION {tree[b].nodes : b \in Branches}
    /\ SubmitPage(PageRequest(branch, prefix, NoToken), recipes)

LoadMoreNodes(branch) ==
    /\ pending = {} /\ tree[branch].next # NoToken
    /\ SubmitPage(PageRequest(branch, tree[branch].prefix, tree[branch].next), recipes)

\* The Clear catalog button
Clear ==
    /\ pending = {} /\ tree # [b \in Branches |-> NotLoaded]
    /\ tree' = [b \in Branches |-> NotLoaded] /\ retained' = {}
    /\ UNCHANGED <<browseVars, pending>>

\* retry_recipe takes the recipe of the shown error; retry_catalog_request
\* submits it unless another operation is active.
RetryPage ==
    LET op == failed["page"] IN
    /\ op \in recipes
    /\ \/ /\ active # 0 /\ recipes' = recipes \ {op}
          /\ UNCHANGED <<operations, active, conn, failed, session, sessions, events, cycle, adopted>>
          /\ UNCHANGED explorerVars
       \/ SubmitPage(Request(op), recipes \ {op})

\* dismiss_operation_error
DismissPageError ==
    /\ failed["page"] # 0
    /\ recipes' = recipes \ {failed["page"]}
    /\ failed' = [failed EXCEPT !["page"] = 0]
    /\ UNCHANGED <<operations, active, conn, session, sessions, events, cycle, adopted>>
    /\ UNCHANGED explorerVars

-----------------------------------------------------------------------------
\* The window takes a catalog event: poll_events.

\* CatalogRetention::retain over all the branches of the profile
Accepted(held, nodes, branch) ==
    LET ofLevel == {x \in held : Level[x[1]] = Level[branch]}
        ofBranch == {x \in held : x[1] = branch}
        room == Min({LevelCap[Level[branch]] - Cardinality(ofLevel), TotalCap - Cardinality(held)}
                    \cup (IF Level[branch] = "columns" THEN {BranchCap - Cardinality(ofBranch)} ELSE {}))
    IN FirstN(nodes \ held, room)

\* Mutant: a refreshed branch's old nodes stay in the budget.
PageLoadedKeepsOld(e) ==
    LET request == Request(e.op)
        branch == request.branch
        append == e.op \in pending /\ request.token # NoToken
        accepted == Accepted(retained, e.content.nodes, branch)
        truncated == e.content.truncated \/ ~(e.content.nodes \subseteq retained \cup accepted)
    IN /\ retained' = retained \cup accepted
       /\ tree' = [tree EXCEPT ![branch] =
            [loaded |-> TRUE, nodes |-> (IF append THEN @.nodes ELSE {}) \cup accepted,
             truncated |-> truncated, stale |-> FALSE,
             next |-> IF truncated \/ e.op \notin pending THEN NoToken ELSE e.content.next,
             prefix |-> request.prefix]]

\* MySqlExplorerState::handle_loaded
PageLoaded(e) ==
    LET request == Request(e.op)
        branch == request.branch
        append == e.op \in pending /\ request.token # NoToken
        held == IF append THEN retained ELSE retained \ tree[branch].nodes
        accepted == Accepted(held, e.content.nodes, branch)
        truncated == e.content.truncated \/ ~(e.content.nodes \subseteq held \cup accepted)
    IN /\ retained' = held \cup accepted
       /\ tree' = [tree EXCEPT ![branch] =
            [loaded |-> TRUE, nodes |-> (IF append THEN @.nodes ELSE {}) \cup accepted,
             truncated |-> truncated, stale |-> FALSE,
             next |-> IF truncated \/ e.op \notin pending THEN NoToken ELSE e.content.next,
             prefix |-> request.prefix]]

\* handle_failed
PageFailed(e) ==
    LET branch == Request(e.op).branch IN
    /\ tree' = [tree EXCEPT ![branch].stale = @ \/ tree[branch].loaded]
    /\ UNCHANGED retained

\* fold_catalog_session
SessionAfter(e) ==
    IF \/ e.disposition = "none" \/ conn.state = "Pending"
       \/ conn.state = "Connected" /\ conn.at # e.session
    THEN conn
    ELSE IF e.disposition = "Keep" THEN Connected(e.session) ELSE Disconnected

\* finish_active_operation, fold_mysql_explorer_event and UiModel::fold
ApplyCatalogEvent(e) ==
    /\ active' = Finished(e.op)
    /\ recipes' = RecipesAfter(e)
    /\ failed' = [failed EXCEPT !["page"] = IF e.answer = "failed" THEN e.op ELSE 0]
    /\ conn' = SessionAfter(e)
    /\ pending' = pending \ {e.op}
    /\ \/ e.answer = "loaded" /\ PageLoaded(e)
       \/ e.answer = "failed" /\ PageFailed(e)
    /\ adopted' = (adopted \/ /\ e.answer = "loaded" /\ Request(e.op).token # NoToken
                              /\ ~tree[Request(e.op).branch].loaded)
    /\ UNCHANGED cycle

\* The catalog survives connection work.
ApplyConnectionWork(e) ==
    /\ active' = Finished(e.op)
    /\ recipes' = RecipesAfter(e)
    /\ conn' = FoldConnection(e)
    /\ UNCHANGED <<failed, cycle, adopted>> /\ UNCHANGED explorerVars

PollCatalogEvent ==
    /\ events # <<>>
    /\ events' = Tail(events)
    /\ UNCHANGED <<operations, session, sessions>>
    /\ LET e == Head(events) IN
       IF Kind(e.op) = "page" THEN ApplyCatalogEvent(e) ELSE ApplyConnectionWork(e)

-----------------------------------------------------------------------------
CatalogUserStep ==
    \/ \E b \in Branches : LoadMoreNodes(b) \/ \E p \in Prefixes : LoadBranch(b, p)
    \/ Clear \/ RetryPage \/ DismissPageError
    \/ (\E kind \in {"connect", "reconnect"} : SubmitConnect(kind)) /\ UNCHANGED explorerVars
    \/ SubmitDisconnect /\ UNCHANGED explorerVars

CatalogRuntimeStep(op) == FinishCatalog(op) \/ (TaskStep(op) /\ UNCHANGED explorerVars)

CatalogNext == CatalogUserStep \/ PollCatalogEvent \/ \E op \in Operation : CatalogRuntimeStep(op)

CatalogFairness ==
    /\ WF_catalogVars(PollCatalogEvent)
    /\ \A op \in 1..MaxOperations : WF_catalogVars(op \in Operation /\ CatalogRuntimeStep(op))

CatalogSpec == CatalogInit /\ [][CatalogNext]_catalogVars /\ CatalogFairness

-----------------------------------------------------------------------------
(* A branch shown without "Load more" and without a cap notice holds every *)
(* node that stayed in the catalog and matches the prefix it was loaded    *)
(* with, over page boundaries, failures, refreshes of other branches and   *)
(* the shared budget (finish_page, handle_loaded).  A retry into a branch  *)
(* that was cleared is excepted; see OneCycle.                             *)
CatalogComplete ==
    \A b \in Branches :
        tree[b].loaded /\ ~tree[b].truncated /\ tree[b].next = NoToken /\ ~adopted =>
            {x \in StableNodes : x[1] = b /\ x[2] \in MatchingPlaces[tree[b].prefix]}
                \subseteq tree[b].nodes

(* The budget is charged for exactly the nodes the branches hold, so that  *)
(* refreshing does not use it up, and no cap is passed (CatalogRetention   *)
(* retain and remove against MySqlExplorerState::branches).                *)
CatalogAccounted ==
    /\ CatalogTypeOK
    /\ retained = UNION {tree[b].nodes : b \in Branches}
    /\ Cardinality(retained) <= TotalCap
    /\ \A b \in Branches :
        /\ Cardinality({x \in retained : Level[x[1]] = Level[b]}) <= LevelCap[Level[b]]
        /\ Level[b] = "columns" => Cardinality(tree[b].nodes) <= BranchCap
=============================================================================
