---------------------------- MODULE MCExplorers ----------------------------
(***************************************************************************)
(* The explorer of one profile: the keyspace of a Redis profile or the     *)
(* catalog of a MySQL profile (explorer_contents of src/ui/app.rs looks at *)
(* the profile's driver).  Three keys at two cursors, two of them kept.    *)
(* Four schemas, two relations and two columns, two nodes to a page: the   *)
(* level cap cuts the second page of the schemas, the relations are cut in *)
(* the driver, the columns by the cap of one list of columns, and a page   *)
(* of relations or columns may no longer fit the shared budget.            *)
(***************************************************************************)
EXTENDS RedisExplorer, CatalogExplorer, TLC

CONSTANTS k1, k2, k3

VARIABLE driver

MCCursorOf == k1 :> 0 @@ k2 :> 1 @@ k3 :> 1
MCMatching == "all" :> Keys @@ "some" :> {k1, k3}

MCLevel == [b \in Branches |-> b]
MCParent == "schemas" :> NoNode @@ "relations" :> <<"schemas", 3>> @@ "columns" :> <<"relations", 1>>
MCNodes == ({"schemas"} \X (1..4)) \cup ({"relations", "columns"} \X (1..2))
MCStableNodes == MCNodes \ {<<"schemas", 2>>}
MCMatchingPlaces == "" :> 1..4 @@ "x" :> {2, 3}
MCLevelCap == "schemas" :> 3 @@ "relations" :> 1 @@ "columns" :> 2

explorersVars == <<browseVars, explorer, explorerVars, driver>>

ExplorersInit ==
    \/ /\ driver = "redis" /\ Init
       /\ tree = [b \in Branches |-> NotLoaded] /\ pending = {} /\ retained = {}
    \/ driver = "mysql" /\ CatalogInit /\ explorer = NewExplorer

ExplorersNext ==
    \/ driver = "redis" /\ Next /\ UNCHANGED <<explorerVars, driver>>
    \/ driver = "mysql" /\ CatalogNext /\ UNCHANGED <<explorer, driver>>

RunsTask(op) ==
    /\ op \in Operation
    /\ \/ driver = "redis" /\ RuntimeStep(op) /\ UNCHANGED <<explorerVars, driver>>
       \/ driver = "mysql" /\ CatalogRuntimeStep(op) /\ UNCHANGED <<explorer, driver>>

Polls ==
    \/ driver = "redis" /\ PollEvent /\ UNCHANGED <<explorerVars, driver>>
    \/ driver = "mysql" /\ PollCatalogEvent /\ UNCHANGED <<explorer, driver>>

\* Tasks have timeouts, the controller takes what is queued, and the window polls
\* every frame.
ExplorersSpec ==
    /\ ExplorersInit /\ [][ExplorersNext]_explorersVars
    /\ WF_explorersVars(Polls)
    /\ \A op \in 1..MaxOperations : WF_explorersVars(RunsTask(op))
=============================================================================
