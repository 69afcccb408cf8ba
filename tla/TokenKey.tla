------------------------------ MODULE TokenKey ------------------------------
(***************************************************************************)
(* CatalogTokenKeyStore::load_or_create of src/drivers/mysql_catalog.rs:   *)
(* the key that signs catalog page tokens lives in a side file of the      *)
(* configuration, created by the first process that needs it.  Processes   *)
(* (a window, command lines) race to create it; a process may be killed or *)
(* the machine lose power between two file system calls.                   *)
(*                                                                         *)
(* A key is the process that generated it together with how often it had   *)
(* started; tokens printed by one process are read by another, so they are *)
(* only as good as the agreement on the key.                               *)
(***************************************************************************)
EXTENDS Naturals

CONSTANTS Processes,
          MaxRestarts   \* bound on starts

VARIABLES
    keyPc,      \* per process: next step of load_or_create_token_key
    cached,     \* per process: CatalogTokenKeyStore.cached
    candidate,  \* per process: the key it generated
    keyTemp,    \* per process: its temporary file
    starts,     \* per process: how often it started
    keyFile, keySurvivors   \* the side file, and what a power loss may leave of it

keyVars == <<keyPc, cached, candidate, keyTemp, starts, keyFile, keySurvivors>>

Keys == [by : Processes, start : Nat]
NoKey == [by |-> "nobody"]
TornKey == [by |-> "torn"]
KeyFiles == Keys \cup {NoKey, TornKey}
KeySteps == {"idle", "read", "temp", "write", "sync", "rename", "directorySync",
          "rivalSync", "reread", "ready", "failed"}

KeyTypeOK ==
    /\ keyPc \in [Processes -> KeySteps]
    /\ cached \in [Processes -> Keys \cup {NoKey}]
    /\ candidate \in [Processes -> Keys \cup {NoKey}]
    /\ keyTemp \in [Processes -> {"none", "created", "written", "synced"}]
    /\ starts \in [Processes -> Nat]
    /\ keyFile \in KeyFiles /\ keySurvivors \subseteq KeyFiles

KeyInit ==
    /\ keyPc = [p \in Processes |-> "idle"]
    /\ cached = [p \in Processes |-> NoKey]
    /\ candidate = [p \in Processes |-> NoKey]
    /\ keyTemp = [p \in Processes |-> "none"]
    /\ starts = [p \in Processes |-> 0]
    /\ keyFile = NoKey /\ keySurvivors = {NoKey}

-----------------------------------------------------------------------------
keyFileVars == <<keyFile, keySurvivors>>

\* An error is not cached: the next catalog request tries again.
FailKey(p) ==
    /\ keyPc' = [keyPc EXCEPT ![p] = "failed"]
    /\ keyTemp' = [keyTemp EXCEPT ![p] = "none"]
    /\ UNCHANGED <<cached, candidate, starts, keyFileVars>>

GotoKey(p, step) == keyPc' = [keyPc EXCEPT ![p] = step]

\* load_or_create answers with this key from now on; TokenKeyTempCleanup has run.
Answer(p, key) ==
    /\ GotoKey(p, "ready")
    /\ cached' = [cached EXCEPT ![p] = key]
    /\ keyTemp' = [keyTemp EXCEPT ![p] = "none"]

\* A catalog request while no key is cached.
LoadOrCreate(p) ==
    /\ keyPc[p] \in {"idle", "failed"}
    /\ GotoKey(p, "read")
    /\ UNCHANGED <<cached, candidate, keyTemp, starts, keyFileVars>>

\* read_token_key; a file that is not exactly one key is an error.
ReadTokenKey(p) ==
    /\ keyPc[p] = "read"
    /\ \/ FailKey(p)
       \/ keyFile \in Keys /\ Answer(p, keyFile) /\ UNCHANGED <<candidate, starts, keyFileVars>>
       \/ /\ keyFile = NoKey
          /\ GotoKey(p, "temp")
          /\ candidate' = [candidate EXCEPT ![p] = [by |-> p, start |-> starts[p]]]
          /\ UNCHANGED <<cached, keyTemp, starts, keyFileVars>>

TempKeyStep(p, from, stage, to) ==
    /\ keyPc[p] = from
    /\ \/ FailKey(p)
       \/ /\ GotoKey(p, to)
          /\ keyTemp' = [keyTemp EXCEPT ![p] = stage]
          /\ UNCHANGED <<cached, candidate, starts, keyFileVars>>

CreateTokenKeyTemp(p) == TempKeyStep(p, "temp", "created", "write")
WriteKey(p) == TempKeyStep(p, "write", "written", "sync")
SyncKey(p) == TempKeyStep(p, "sync", "synced", "rename")

\* rename_token_key_no_replace: the file of a rival wins.
RenameTokenKeyNoReplace(p) ==
    /\ keyPc[p] = "rename"
    /\ \/ FailKey(p)
       \/ /\ keyFile # NoKey
          /\ GotoKey(p, "rivalSync")
          /\ UNCHANGED <<cached, candidate, keyTemp, starts, keyFileVars>>
       \/ /\ keyFile = NoKey
          /\ keyFile' = candidate[p]
          /\ keySurvivors' = keySurvivors \cup {candidate[p]}
                               \cup IF keyTemp[p] = "synced" THEN {} ELSE {TornKey}
          /\ keyTemp' = [keyTemp EXCEPT ![p] = "none"]
          /\ GotoKey(p, "directorySync")
          /\ UNCHANGED <<cached, candidate, starts>>

\* sync_token_key_directory after this process's own rename.
SyncOwnKey(p) ==
    /\ keyPc[p] = "directorySync"
    /\ \/ FailKey(p)
       \/ /\ Answer(p, candidate[p])
          /\ keySurvivors' = {keyFile}
          /\ UNCHANGED <<candidate, starts, keyFile>>

\* Mutant: the loser of the race keeps the key it generated.
SyncRivalKeepsOwn(p) ==
    /\ keyPc[p] = "rivalSync"
    /\ Answer(p, candidate[p])
    /\ keySurvivors' = {keyFile}
    /\ UNCHANGED <<candidate, starts, keyFile>>

\* ... and after a rival's.
SyncRivalKey(p) ==
    /\ keyPc[p] = "rivalSync"
    /\ \/ FailKey(p)
       \/ /\ GotoKey(p, "reread")
          /\ keySurvivors' = {keyFile}
          /\ UNCHANGED <<cached, candidate, keyTemp, starts, keyFile>>

RereadKey(p) ==
    /\ keyPc[p] = "reread"
    /\ \/ FailKey(p)
       \/ keyFile \in Keys /\ Answer(p, keyFile) /\ UNCHANGED <<candidate, starts, keyFileVars>>

-----------------------------------------------------------------------------
\* A process ends, or is killed, and starts again.
RestartProcess(p) ==
    /\ starts[p] < MaxRestarts /\ keyPc[p] # "idle"
    /\ GotoKey(p, "idle")
    /\ cached' = [cached EXCEPT ![p] = NoKey]
    /\ candidate' = [candidate EXCEPT ![p] = NoKey]
    /\ keyTemp' = [keyTemp EXCEPT ![p] = "none"]
    /\ starts' = [starts EXCEPT ![p] = @ + 1]
    /\ UNCHANGED keyFileVars

LosePower ==
    /\ \A p \in Processes : starts[p] < MaxRestarts
    /\ keyPc' = [p \in Processes |-> "idle"]
    /\ cached' = [p \in Processes |-> NoKey]
    /\ candidate' = [p \in Processes |-> NoKey]
    /\ keyTemp' = [p \in Processes |-> "none"]
    /\ starts' = [p \in Processes |-> starts[p] + 1]
    /\ keyFile' \in keySurvivors
    /\ keySurvivors' = {keyFile'}

KeyNext ==
    \/ \E p \in Processes :
        \/ LoadOrCreate(p) \/ ReadTokenKey(p)
        \/ CreateTokenKeyTemp(p) \/ WriteKey(p) \/ SyncKey(p) \/ RenameTokenKeyNoReplace(p)
        \/ SyncOwnKey(p) \/ SyncRivalKey(p) \/ RereadKey(p)
        \/ RestartProcess(p)
    \/ LosePower

KeySpec == KeyInit /\ [][KeyNext]_keyVars
-----------------------------------------------------------------------------
(* Properties.                                                             *)

\* Whoever wins the race, every process that has a key has the one on disk, so
\* that a page token one of them issued is accepted by all others; and no power
\* loss can leave half a key, which would refuse every catalog page from then on.
OneTokenKey ==
    /\ KeyTypeOK
    /\ \A p \in Processes : keyPc[p] = "ready" => cached[p] = keyFile
    /\ TornKey \notin keySurvivors
=============================================================================
