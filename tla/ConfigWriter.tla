---------------------------- MODULE ConfigWriter ----------------------------
(***************************************************************************)
(* ConfigWriter::mutate_path of src/config.rs: a load, the migration       *)
(* backup of a V1 file, the replacement of the main file by a fsynced      *)
(* temporary, and the exact-path observation, one action per file system   *)
(* call.  Every call may fail (the twelve MutationFailpoints and the plain *)
(* I/O errors); the process may be killed and the machine may lose power   *)
(* between any two of them, and another program may edit the files.        *)
(*                                                                         *)
(* The file system is external.  A directory entry that was changed and    *)
(* not yet fsynced may, after a power loss, hold any of the contents it    *)
(* had since the last directory fsync: those are the "survivors".  Each    *)
(* change of the main entry gets a sequence number, which the code does    *)
(* not have and the properties need.                                       *)
(***************************************************************************)
EXTENDS ConfigContent

CONSTANTS Writers,          \* threads that call mutate_path
          NoWriter,
          InitialContents,  \* contents of the main file at the start
          CallMutations,    \* mutations the callers submit
          EditedContents,   \* contents another program writes to the main file
          BackupContents,   \* contents another program puts at the backup path
          EditInRenameWindow, \* may it write between recheck and rename?
          MaxCalls, MaxEdits, MaxCrashes  \* bounds

ASSUME WritersAssumption == NoWriter \notin Writers
ASSUME ContentsAssumption ==
    /\ InitialContents \subseteq Contents
    /\ EditedContents \subseteq Contents
    /\ BackupContents \subseteq Contents
    /\ Torn \notin InitialContents \cup EditedContents
ASSUME MutationsAssumption == CallMutations \subseteq Mutations
ASSUME WindowAssumption == EditInRenameWindow \in BOOLEAN
ASSUME BoundsAssumption == MaxCalls \in Nat /\ MaxEdits \in Nat /\ MaxCrashes \in Nat

VARIABLES
    \* the writer's own state
    lock,       \* PROCESS_WRITER
    pc, job,    \* per thread: next step, and the mutation and consent it was given
    loaded,     \* per thread: LoadedConfig.original_bytes and fingerprint
    temp,       \* per thread: its temporary file
    outcome,    \* per thread: what mutate_path returned
    \* the file system
    main, mainSurvivors, backup, backupSurvivors,
    \* history
    seq,        \* changes of the main entry so far
    renamed,    \* per thread: sequence number of this call's rename, or 0
    answered,   \* highest sequence number answered Committed
    migrated,   \* V1 contents that a rename of the writer replaced
    calls, edits, crashes

callVars == <<pc, job, loaded, temp, outcome, renamed>>
fileVars == <<main, mainSurvivors, backup, backupSurvivors>>
history == <<seq, answered, migrated>>
bounds == <<calls, edits, crashes>>
vars == <<lock, callVars, fileVars, history, bounds>>

TempStages == {"none", "created", "written", "synced"}
NoBackup == Missing
NoJob == [mutation |-> [kind |-> "none"], consent |-> "Cancelled"]
Jobs == [mutation : CallMutations, consent : {"Confirmed", "Cancelled"}]
Entries == [content : Contents, seq : Nat]

BackupSteps == {"backupRead", "backupTemp", "backupWrite", "backupFileSync",
                "backupRename", "backupDirectorySync"}
MainSteps == {"mainTemp", "mainWrite", "mainFileSync", "recheck", "rename"}
CommittedSteps == {"directorySync", "observe"}
LockedSteps == {"load", "apply"} \cup BackupSteps \cup MainSteps \cup CommittedSteps
Steps == {"idle", "lock", "done"} \cup LockedSteps

Errors == {"Load", "InvalidProfile", "MigrationConfirmationRequired", "Io", "NotCommitted",
           "BackupConflict", "ProfileAlreadyExists", "ProfileMissing", "ExternalChange"}
CommitStates == {"Committed", "CommittedDurabilityUnknown"}
Outcomes == {"none"} \cup Errors \cup CommitStates

TypeOK ==
    /\ lock \in Writers \cup {NoWriter}
    /\ pc \in [Writers -> Steps]
    /\ job \in [Writers -> Jobs \cup {NoJob}]
    /\ loaded \in [Writers -> Contents]
    /\ temp \in [Writers -> TempStages]
    /\ outcome \in [Writers -> Outcomes]
    /\ renamed \in [Writers -> Nat]
    /\ main \in Entries
    /\ mainSurvivors \subseteq Entries
    /\ backup \in Contents
    /\ backupSurvivors \subseteq Contents
    /\ seq \in Nat /\ answered \in Nat
    /\ migrated \subseteq Contents
    /\ calls \in Nat /\ edits \in Nat /\ crashes \in Nat

Init ==
    /\ lock = NoWriter
    /\ pc = [w \in Writers |-> "idle"]
    /\ job = [w \in Writers |-> NoJob]
    /\ loaded = [w \in Writers |-> Missing]
    /\ temp = [w \in Writers |-> "none"]
    /\ outcome = [w \in Writers |-> "none"]
    /\ renamed = [w \in Writers |-> 0]
    /\ \E content \in InitialContents : main = [content |-> content, seq |-> 0]
    /\ mainSurvivors = {main}
    /\ backup = NoBackup
    /\ backupSurvivors = {NoBackup}
    /\ seq = 0 /\ answered = 0 /\ migrated = {}
    /\ calls = 0 /\ edits = 0 /\ crashes = 0

-----------------------------------------------------------------------------
(* Steps of one call.  The guard of the mutex is dropped, and TempCleanup  *)
(* has removed the temporary, when mutate_path returns.                    *)

Goto(w, step) == pc' = [pc EXCEPT ![w] = step]

\* Mutant: an early return that keeps the mutex.
ReturnLocked(w, result) ==
    /\ Goto(w, "done")
    /\ outcome' = [outcome EXCEPT ![w] = result]
    /\ temp' = [temp EXCEPT ![w] = "none"]
    /\ UNCHANGED <<lock, job, loaded, renamed>>

Return(w, result) ==
    /\ Goto(w, "done")
    /\ outcome' = [outcome EXCEPT ![w] = result]
    /\ temp' = [temp EXCEPT ![w] = "none"]
    /\ lock' = NoWriter
    /\ UNCHANGED <<job, loaded, renamed>>

Fail(w, error) == Return(w, error) /\ UNCHANGED <<fileVars, history, bounds>>

Continue(w, step) == Goto(w, step) /\ UNCHANGED <<lock, job, outcome>>

\* A step that only works on the thread's own temporary file.
TempStep(w, from, stage, to) ==
    /\ pc[w] = from
    /\ \/ Fail(w, "NotCommitted")
       \/ /\ Continue(w, to)
          /\ temp' = [temp EXCEPT ![w] = stage]
          /\ UNCHANGED <<loaded, renamed, fileVars, history, bounds>>

Invoke(w) ==
    /\ pc[w] \in {"idle", "done"} /\ calls < MaxCalls
    /\ calls' = calls + 1
    /\ \E j \in Jobs : job' = [job EXCEPT ![w] = j]
    /\ Goto(w, "lock")
    /\ outcome' = [outcome EXCEPT ![w] = "none"]
    /\ renamed' = [renamed EXCEPT ![w] = 0]
    /\ UNCHANGED <<lock, loaded, temp, fileVars, history, edits, crashes>>

Acquire(w) ==
    /\ pc[w] = "lock" /\ lock = NoWriter
    /\ lock' = w
    /\ Goto(w, "load")
    /\ UNCHANGED <<job, loaded, temp, outcome, renamed, fileVars, history, bounds>>

\* load_path, the two validations and the consent check of prepare_migration.
Load(w) ==
    /\ pc[w] = "load"
    /\ \/ Fail(w, "Load")  \* I/O error, or bytes that are no configuration
       \/ /\ Loadable(main.content) /\ ~ValidMutation(job[w].mutation)
          /\ Fail(w, "InvalidProfile")
       \/ /\ Loadable(main.content) /\ ValidMutation(job[w].mutation)
          /\ MigrationRequired(main.content) /\ job[w].consent # "Confirmed"
          /\ Fail(w, "MigrationConfirmationRequired")
       \/ /\ Loadable(main.content) /\ ValidMutation(job[w].mutation)
          /\ MigrationRequired(main.content) => job[w].consent = "Confirmed"
          /\ loaded' = [loaded EXCEPT ![w] = main.content]
          /\ Continue(w, IF MigrationRequired(main.content) THEN "backupRead" ELSE "apply")
          /\ UNCHANGED <<temp, renamed, fileVars, history, bounds>>

\* read_existing_backup: a foreign file (symlink, other mode) equals no original.
BackupRead(w) ==
    /\ pc[w] = "backupRead"
    /\ \/ Fail(w, "Io")
       \/ backup \notin {NoBackup, loaded[w]} /\ Fail(w, "BackupConflict")
       \/ /\ backup \in {NoBackup, loaded[w]}
          /\ Continue(w, IF backup = NoBackup THEN "backupTemp" ELSE "backupDirectorySync")
          /\ UNCHANGED <<loaded, temp, renamed, fileVars, history, bounds>>

BackupTempCreate(w) == TempStep(w, "backupTemp", "created", "backupWrite")
BackupWrite(w) == TempStep(w, "backupWrite", "written", "backupFileSync")
BackupFileSync(w) == TempStep(w, "backupFileSync", "synced", "backupRename")

\* What the entry of a renamed temporary may hold after a power loss.
Landed(w, content) == IF temp[w] = "synced" THEN {content} ELSE {content, Torn}

\* Mutant: a plain rename, which replaces what is at the backup path.
BackupRenameReplacing(w) ==
    /\ pc[w] = "backupRename"
    /\ backup' = loaded[w]
    /\ backupSurvivors' = backupSurvivors \cup Landed(w, loaded[w])
    /\ temp' = [temp EXCEPT ![w] = "none"]
    /\ Continue(w, "backupDirectorySync")
    /\ UNCHANGED <<loaded, renamed, main, mainSurvivors, history, bounds>>

\* rename_no_replace; a backup that appeared meanwhile must be identical.  Its
\* temporary then stays until write_backup returns.
BackupRename(w) ==
    /\ pc[w] = "backupRename"
    /\ \/ Fail(w, "NotCommitted")
       \/ backup \notin {NoBackup, loaded[w]} /\ Fail(w, "BackupConflict")
       \/ /\ backup = NoBackup
          /\ backup' = loaded[w]
          /\ backupSurvivors' = backupSurvivors \cup Landed(w, loaded[w])
          /\ temp' = [temp EXCEPT ![w] = "none"]
          /\ Continue(w, "backupDirectorySync")
          /\ UNCHANGED <<loaded, renamed, main, mainSurvivors, history, bounds>>
       \/ /\ backup # NoBackup /\ backup = loaded[w]
          /\ Continue(w, "backupDirectorySync")
          /\ UNCHANGED <<loaded, temp, renamed, fileVars, history, bounds>>

\* sync_directory: main file and backup are entries of one directory.
SyncDirectory ==
    /\ mainSurvivors' = {main}
    /\ backupSurvivors' = {backup}
    /\ UNCHANGED <<main, backup>>

\* Mutant: the migration goes on without the directory fsync.
BackupUnsynced(w) ==
    /\ pc[w] = "backupDirectorySync"
    /\ temp' = [temp EXCEPT ![w] = "none"]
    /\ Continue(w, "apply")
    /\ UNCHANGED <<loaded, renamed, fileVars, history, bounds>>

BackupDirectorySync(w) ==
    /\ pc[w] = "backupDirectorySync"
    /\ \/ Fail(w, "NotCommitted")
       \/ /\ SyncDirectory
          /\ temp' = [temp EXCEPT ![w] = "none"]
          /\ Continue(w, "apply")
          /\ UNCHANGED <<loaded, renamed, history, bounds>>

Apply(w) ==
    LET error == ApplyError(job[w].mutation, ProfilesOf(loaded[w]))
    IN  /\ pc[w] = "apply"
        /\ \/ error # "ok" /\ Fail(w, error)
           \/ /\ error = "ok"
              /\ Continue(w, "mainTemp")
              /\ UNCHANGED <<loaded, temp, renamed, fileVars, history, bounds>>

MainTempCreate(w) == TempStep(w, "mainTemp", "created", "mainWrite")
MainWrite(w) == TempStep(w, "mainWrite", "written", "mainFileSync")
\* Mutant: sync_all is forgotten.
MainFileUnsynced(w) == TempStep(w, "mainFileSync", "written", "recheck")

MainFileSync(w) == TempStep(w, "mainFileSync", "synced", "recheck")

\* Mutant: the destination is not compared with the fingerprint.
RecheckSkipped(w) ==
    /\ pc[w] = "recheck"
    /\ Continue(w, "rename")
    /\ UNCHANGED <<loaded, temp, renamed, fileVars, history, bounds>>

\* MainPreRename and the comparison of the destination with the fingerprint.
Recheck(w) ==
    /\ pc[w] = "recheck"
    /\ \/ \E error \in {"NotCommitted", "Io"} : Fail(w, error)
       \/ main.content # loaded[w] /\ Fail(w, "ExternalChange")
       \/ /\ main.content = loaded[w]
          /\ Continue(w, "rename")
          /\ UNCHANGED <<loaded, temp, renamed, fileVars, history, bounds>>

\* A new main entry, with the contents that may survive a power loss.
Replace(content, landed) ==
    /\ seq' = seq + 1
    /\ main' = [content |-> content, seq |-> seq + 1]
    /\ mainSurvivors' = mainSurvivors \cup {[content |-> c, seq |-> seq + 1] : c \in landed}

\* fs::rename, the commit point.
Rename(w) ==
    LET encoded == Encoded(job[w].mutation, loaded[w])
    IN  /\ pc[w] = "rename"
        /\ \/ Fail(w, "NotCommitted")
           \/ /\ Replace(encoded, Landed(w, encoded))
              /\ renamed' = [renamed EXCEPT ![w] = seq + 1]
              /\ migrated' = IF MigrationRequired(main.content)
                             THEN migrated \cup {main.content} ELSE migrated
              /\ temp' = [temp EXCEPT ![w] = "none"]
              /\ Continue(w, "directorySync")
              /\ UNCHANGED <<loaded, backup, backupSurvivors, answered, bounds>>

\* Mutant: a failed directory fsync is still answered Committed.
MainDirectorySyncIgnored(w) ==
    /\ pc[w] = "directorySync"
    /\ Goto(w, "observe")
    /\ outcome' = [outcome EXCEPT ![w] = "Committed"]
    /\ UNCHANGED <<lock, job, loaded, temp, renamed, fileVars, history, bounds>>

\* Mutant: a failure after the rename is reported like one before it.
MainDirectorySyncFails(w) ==
    /\ pc[w] = "directorySync"
    /\ Fail(w, "NotCommitted")

\* MainPostRename and sync_directory: a failure only costs the durability claim.
MainDirectorySync(w) ==
    /\ pc[w] = "directorySync"
    /\ Goto(w, "observe")
    /\ \/ /\ SyncDirectory
          /\ outcome' = [outcome EXCEPT ![w] = "Committed"]
       \/ /\ outcome' = [outcome EXCEPT ![w] = "CommittedDurabilityUnknown"]
          /\ UNCHANGED fileVars
    /\ UNCHANGED <<lock, job, loaded, temp, renamed, history, bounds>>

\* Mutant: a failed observation is passed on as an outcome of its own.
ObserveFailing(w) ==
    /\ pc[w] = "observe"
    /\ Return(w, "ObservationFailed")
    /\ UNCHANGED <<fileVars, history, bounds>>

\* observe_main.
Observe(w) ==
    /\ pc[w] = "observe"
    /\ \/ Return(w, "CommittedDurabilityUnknown") /\ UNCHANGED answered
       \/ /\ main.content.version = "V2"
          /\ Return(w, outcome[w])
          /\ answered' = IF outcome[w] = "Committed" /\ renamed[w] > answered
                         THEN renamed[w] ELSE answered
    /\ UNCHANGED <<fileVars, seq, migrated, bounds>>

Step(w) ==
    \/ Acquire(w) \/ Load(w)
    \/ BackupRead(w) \/ BackupTempCreate(w) \/ BackupWrite(w) \/ BackupFileSync(w)
    \/ BackupRename(w) \/ BackupDirectorySync(w)
    \/ Apply(w)
    \/ MainTempCreate(w) \/ MainWrite(w) \/ MainFileSync(w) \/ Recheck(w) \/ Rename(w)
    \/ MainDirectorySync(w) \/ Observe(w)

-----------------------------------------------------------------------------
(* The environment.                                                        *)

\* Another program replaces the main file.
EditMain ==
    /\ edits < MaxEdits
    /\ EditInRenameWindow \/ \A w \in Writers : pc[w] # "rename"
    /\ edits' = edits + 1
    /\ \E content \in EditedContents : Replace(content, {content})
    /\ UNCHANGED <<lock, callVars, backup, backupSurvivors, answered, migrated, calls, crashes>>

\* Another program puts a file at the backup path; it never changes one.
EditBackup ==
    /\ edits < MaxEdits
    /\ backup = NoBackup
    /\ edits' = edits + 1
    /\ \E content \in BackupContents :
        /\ backup' = content
        /\ backupSurvivors' = backupSurvivors \cup {content}
    /\ UNCHANGED <<lock, callVars, main, mainSurvivors, history, calls, crashes>>

\* Every call is gone; temporaries stay behind under names no new process uses.
Restart ==
    /\ crashes < MaxCrashes
    /\ crashes' = crashes + 1
    /\ lock' = NoWriter
    /\ pc' = [w \in Writers |-> "idle"]
    /\ job' = [w \in Writers |-> NoJob]
    /\ loaded' = [w \in Writers |-> Missing]
    /\ temp' = [w \in Writers |-> "none"]
    /\ outcome' = [w \in Writers |-> "none"]
    /\ renamed' = [w \in Writers |-> 0]
    /\ UNCHANGED <<history, calls, edits>>

ProcessKill == Restart /\ UNCHANGED fileVars

PowerLoss ==
    /\ Restart
    /\ main' \in mainSurvivors /\ mainSurvivors' = {main'}
    /\ backup' \in backupSurvivors /\ backupSurvivors' = {backup'}

Next ==
    \/ \E w \in Writers : Invoke(w) \/ Step(w)
    \/ EditMain \/ EditBackup \/ ProcessKill \/ PowerLoss

Spec == Init /\ [][Next]_vars

\* The call runs on a thread of its own (spawn_blocking) and every file system
\* call returns.
FairSpec == Spec /\ \A w \in Writers : WF_vars(Step(w))
-----------------------------------------------------------------------------
(* Properties.                                                             *)

\* PROCESS_WRITER serialises the calls: the thread that holds it is the only
\* one between load_path and the return, and only its call has a temporary
\* file (TempCleanup removes it on every way out).
Serialized ==
    \A w \in Writers :
        /\ pc[w] \in LockedSteps <=> lock = w
        /\ temp[w] # "none" => lock = w

\* Whatever the crash, the main file holds a whole configuration: nothing the
\* writer renames into place can be read half-written after a power loss.
NeverTorn == \A entry \in mainSurvivors : entry.content # Torn

\* A call answered Committed is never undone: no power loss, then or later,
\* brings back a main file older than the one it renamed into place.
CommittedIsDurable == \A entry \in mainSurvivors : entry.seq >= answered

\* write_main replaces a V1 file only after its exact bytes are durable at the
\* backup path: they are there after any later crash.  (Of a file edited in the
\* rename window the writer makes no claim.)
BackupHoldsOriginal ==
    \A original \in migrated : backupSurvivors = {original}

\* An error means the call never reached its commit point, an answer of either
\* commit state that it did.
OutcomeMatchesCommit ==
    \A w \in Writers : pc[w] = "done" =>
        /\ outcome[w] \in Errors => renamed[w] = 0
        /\ outcome[w] \in CommitStates => renamed[w] > 0

\* Only a power loss takes a backup away: no call overwrites the file at
\* <config>.v1.bak, whoever put it there and whenever.
BackupNeverOverwritten ==
    [][backup # NoBackup /\ backup' # backup => crashes' # crashes]_vars

\* Every call that was made returns, or dies with the process.
CallsReturn == \A w \in Writers : pc[w] = "lock" ~> pc[w] \in {"done", "idle"}
=============================================================================
