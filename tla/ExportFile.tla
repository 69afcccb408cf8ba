----------------------------- MODULE ExportFile -----------------------------
(***************************************************************************)
(* Export of a result to a file: the window's submit_result_export_to and  *)
(* handle_export_terminal (src/ui/app.rs), the worker that start_export_work *)
(* spawns (src/ui/runtime.rs), and export_result_to_file                   *)
(* (src/export_file.rs) with one action per file system call.  Every call  *)
(* may fail, the user may cancel, other programs write to the destinations, *)
(* and the machine may lose power.                                         *)
(*                                                                         *)
(* A directory entry carries the number of the change that made it, which  *)
(* stands for its FileIdentity (device, inode, size and mtime).  As in     *)
(* ConfigWriter, the survivors of a path are what a power loss may leave.  *)
(***************************************************************************)
EXTENDS Naturals

CONSTANTS Exports,      \* export operations
          Results,
          Paths,        \* destinations the user may pick
          MaxRivals,    \* changes other programs make
          MaxCrashes

ASSUME ExportAssumption == Results # {} /\ Paths # {} /\ MaxRivals \in Nat /\ MaxCrashes \in Nat

VARIABLES
    \* the window
    shown,      \* the results in the workspaces
    pending,    \* pending_export_destinations
    viewing,    \* result_view.pending_export of the workspaces
    committed,  \* committed_export_destinations: <<result, path>>
    \* export_result_to_file, per export
    target,     \* the result and the path it was submitted with
    pc, policy, confirmed, temp, cancelled, outcome,
    \* the file system
    entry, survivors, changes,
    \* history
    verified,   \* number of changes when the destination was last compared
    replaced,   \* what the export's rename replaced
    renamed,    \* number of the change the rename made, or 0
    rivals, crashes

windowVars == <<shown, pending, viewing, committed>>
jobVars == <<target, pc, policy, confirmed, temp, cancelled, outcome>>
fileVars == <<entry, survivors, changes>>
history == <<verified, replaced, renamed>>
bounds == <<rivals, crashes>>
vars == <<windowVars, jobVars, fileVars, history, bounds>>

Targets == [result : Results, path : Paths]
ResultOf(e) == target[e].result
PathOf(e) == target[e].path
Entries == [kind : {"absent", "file", "other", "torn"}, id : Nat]
Absent(id) == [kind |-> "absent", id |-> id]
PreCommit == {"validate", "temp", "encode", "sync", "cancelCheck", "verify", "rename"}
Steps == {"idle", "queued", "directorySync", "done", "told", "dead"} \cup PreCommit
\* InvalidInput stands for the six errors about the destination.
Errors == {"Busy", "InvalidInput", "Cancelled", "Encode", "NotCommitted", "Panicked"}
CommitStates == {"Exported", "CommittedDurabilityUnknown"}

TypeOK ==
    /\ shown \subseteq Results
    /\ pending \subseteq Exports /\ viewing \subseteq Exports
    /\ committed \subseteq Results \X Paths
    /\ target \in [Exports -> Targets]
    /\ pc \in [Exports -> Steps]
    /\ policy \in [Exports -> {"none", "DenyOverwrite", "ReplaceConfirmed"}]
    /\ confirmed \in [Exports -> Nat]
    /\ temp \in [Exports -> {"none", "created", "written", "synced"}]
    /\ cancelled \in [Exports -> BOOLEAN]
    /\ outcome \in [Exports -> {"none"} \cup Errors \cup CommitStates]
    /\ entry \in [Paths -> Entries]
    /\ survivors \in [Paths -> SUBSET Entries]
    /\ changes \in Nat
    /\ verified \in [Exports -> Nat]
    /\ replaced \in [Exports -> Entries]
    /\ renamed \in [Exports -> Nat]
    /\ rivals \in Nat /\ crashes \in Nat

Init ==
    /\ shown \in SUBSET Results
    /\ pending = {} /\ viewing = {} /\ committed = {}
    /\ target = [e \in Exports |-> CHOOSE t \in Targets : TRUE]
    /\ pc = [e \in Exports |-> "idle"]
    /\ policy = [e \in Exports |-> "none"]
    /\ confirmed = [e \in Exports |-> 0]
    /\ temp = [e \in Exports |-> "none"]
    /\ cancelled = [e \in Exports |-> FALSE]
    /\ outcome = [e \in Exports |-> "none"]
    /\ \E kinds \in [Paths -> {"absent", "file", "other"}] :
        entry = [p \in Paths |-> [kind |-> kinds[p], id |-> 0]]
    /\ survivors = [p \in Paths |-> {entry[p]}]
    /\ changes = 0
    /\ verified = [e \in Exports |-> 0]
    /\ replaced = [e \in Exports |-> Absent(0)]
    /\ renamed = [e \in Exports |-> 0]
    /\ rivals = 0 /\ crashes = 0

-----------------------------------------------------------------------------
(* The window.                                                             *)

\* prune_result_export_state, at the end of poll_events: a committed destination
\* is kept for a result that is shown or being exported.
Kept(destinations, visible, exporting) ==
    {d \in destinations : d[1] \in visible \/ \E e \in exporting : ResultOf(e) = d[1]}

\* submit_result_export_to and begin_result_export_state.  The policy follows
\* from what is at the path now: a regular file is confirmed by its identity;
\* anything else there, like a refusal by the command port, stops the export.
SubmitResultExportTo(e, result, path) ==
    /\ pc[e] = "idle" /\ result \in shown
    /\ \A other \in pending : ResultOf(other) # result
    /\ \/ entry[path].kind = "absent" /\ policy' = [policy EXCEPT ![e] = "DenyOverwrite"]
       \/ entry[path].kind = "file" /\ policy' = [policy EXCEPT ![e] = "ReplaceConfirmed"]
    /\ target' = [target EXCEPT ![e] = [result |-> result, path |-> path]]
    /\ confirmed' = [confirmed EXCEPT ![e] = entry[path].id]
    /\ pc' = [pc EXCEPT ![e] = "queued"]
    /\ pending' = pending \cup {e}
    /\ viewing' = viewing \cup {e}
    /\ UNCHANGED <<shown, committed, temp, cancelled, outcome, fileVars, history, bounds>>

\* The user cancels the export the result view shows.  The token of an export
\* that is still queued is not registered yet: see Controller.
CancelExport(e) ==
    /\ e \in viewing /\ pc[e] \in PreCommit \cup {"directorySync"} /\ ~cancelled[e]
    /\ cancelled' = [cancelled EXCEPT ![e] = TRUE]
    /\ UNCHANGED <<windowVars, target, pc, policy, confirmed, temp, outcome, fileVars, history, bounds>>

\* Mutant: the result of any export that ended is remembered as committed.
TerminalAlwaysCommits(e) ==
    /\ pc[e] = "done"
    /\ pc' = [pc EXCEPT ![e] = "told"]
    /\ pending' = pending \ {e}
    /\ viewing' = viewing \ {e}
    /\ committed' = Kept(committed \cup {<<ResultOf(e), PathOf(e)>>}, shown, pending')
    /\ UNCHANGED <<shown, target, policy, confirmed, temp, cancelled, outcome, fileVars, history, bounds>>

\* Mutant: a failed export stays in pending_export_destinations.
TerminalKeepsFailed(e) ==
    /\ pc[e] = "done" /\ outcome[e] \in CommitStates
    /\ pc' = [pc EXCEPT ![e] = "told"]
    /\ pending' = pending \ {e}
    /\ viewing' = viewing \ {e}
    /\ committed' = Kept(committed \cup {<<ResultOf(e), PathOf(e)>>}, shown, pending')
    /\ UNCHANGED <<shown, target, policy, confirmed, temp, cancelled, outcome, fileVars, history, bounds>>

\* handle_export_terminal on ResultExported or ResultExportFailed, then the prune.
HandleExportTerminal(e) ==
    /\ pc[e] = "done"
    /\ pc' = [pc EXCEPT ![e] = "told"]
    /\ pending' = pending \ {e}
    /\ viewing' = viewing \ {e}
    /\ committed' = Kept(IF outcome[e] \in CommitStates
                         THEN {d \in committed : d[1] # ResultOf(e)}
                                \cup {<<ResultOf(e), PathOf(e)>>}
                         ELSE committed,
                         shown, pending')
    /\ UNCHANGED <<shown, target, policy, confirmed, temp, cancelled, outcome, fileVars, history, bounds>>

\* QueryFinished: a new result replaces one that is shown and resets its view.
QueryFinished(old, r) ==
    /\ old \in shown /\ r \notin shown
    /\ \A e \in Exports : ResultOf(e) = r => pc[e] = "idle"  \* result ids are new
    /\ shown' = (shown \ {old}) \cup {r}
    /\ viewing' = {e \in viewing : ResultOf(e) # old}
    /\ committed' = Kept(committed, shown', pending)
    /\ UNCHANGED <<pending, jobVars, fileVars, history, bounds>>

-----------------------------------------------------------------------------
(* export_result_to_file.  TempCleanup removes the temporary on every way  *)
(* out before the commit, a panic included.                                *)

Fail(e, error) ==
    /\ pc' = [pc EXCEPT ![e] = "done"]
    /\ outcome' = [outcome EXCEPT ![e] = error]
    /\ temp' = [temp EXCEPT ![e] = "none"]
    /\ UNCHANGED <<windowVars, target, policy, confirmed, cancelled, fileVars, history, bounds>>

Continue(e, to) ==
    /\ pc' = [pc EXCEPT ![e] = to]
    /\ UNCHANGED <<windowVars, target, policy, confirmed, cancelled, outcome, fileVars, bounds>>

\* start_export_work: refused when the result or the process is exporting.
StartExportWork(e) ==
    /\ pc[e] = "queued"
    /\ \/ Fail(e, "Busy")
       \/ Continue(e, "validate") /\ UNCHANGED <<temp, history>>

\* validate_commit_policy.
ValidateCommitPolicy(e) ==
    /\ pc[e] = "validate"
    /\ \/ policy[e] = "DenyOverwrite" /\ entry[PathOf(e)].kind # "absent" /\ Fail(e, "InvalidInput")
       \/ policy[e] = "DenyOverwrite" /\ Fail(e, "NotCommitted")
       \/ /\ policy[e] = "DenyOverwrite" => entry[PathOf(e)].kind = "absent"
          /\ Continue(e, "temp") /\ UNCHANGED <<temp, history>>

CreatePrivateTemp(e) ==
    /\ pc[e] = "temp"
    /\ \/ Fail(e, "NotCommitted")
       \/ /\ Continue(e, "encode")
          /\ temp' = [temp EXCEPT ![e] = "created"]
          /\ UNCHANGED history

\* write_export_with_cancel polls the token before every chunk, so it may also
\* end before it sees a cancel.
WriteExport(e) ==
    /\ pc[e] = "encode"
    /\ \/ \E error \in {"Encode", "NotCommitted", "Panicked"} : Fail(e, error)
       \/ cancelled[e] /\ Fail(e, "Cancelled")
       \/ /\ Continue(e, "sync")
          /\ temp' = [temp EXCEPT ![e] = "written"]
          /\ UNCHANGED history

\* Mutant: flush without sync_all.
FlushOnly(e) ==
    /\ pc[e] = "sync"
    /\ \/ Fail(e, "NotCommitted")
       \/ Continue(e, "cancelCheck") /\ UNCHANGED <<temp, history>>

\* flush, sync_all and metadata.
SyncTemp(e) ==
    /\ pc[e] = "sync"
    /\ \/ Fail(e, "NotCommitted")
       \/ /\ Continue(e, "cancelCheck")
          /\ temp' = [temp EXCEPT ![e] = "synced"]
          /\ UNCHANGED history

\* The last look at the token, and the BeforeCommit failpoint.
CheckCancelled(e) ==
    /\ pc[e] = "cancelCheck"
    /\ \/ cancelled[e] /\ Fail(e, "Cancelled")
       \/ ~cancelled[e] /\ Fail(e, "NotCommitted")
       \/ /\ ~cancelled[e]
          /\ Continue(e, IF policy[e] = "DenyOverwrite" THEN "rename" ELSE "verify")
          /\ UNCHANGED <<temp, history>>

\* Mutant: any regular file at the destination may be replaced.
VerifyKindOnly(e) ==
    /\ pc[e] = "verify"
    /\ entry[PathOf(e)].kind = "file"
    /\ Continue(e, "rename")
    /\ verified' = [verified EXCEPT ![e] = changes]
    /\ UNCHANGED <<temp, replaced, renamed>>

\* verify_confirmed_destination: a regular file with the confirmed identity.
VerifyConfirmedDestination(e) ==
    LET same == entry[PathOf(e)] = [kind |-> "file", id |-> confirmed[e]] IN
    /\ pc[e] = "verify"
    /\ \/ ~same /\ Fail(e, "InvalidInput")
       \/ /\ same
          /\ Continue(e, "rename")
          /\ verified' = [verified EXCEPT ![e] = changes]
          /\ UNCHANGED <<temp, replaced, renamed>>

\* A new entry at a path, with the kinds it may have after a power loss.
Put(p, kind, landed) ==
    /\ changes' = changes + 1
    /\ entry' = [entry EXCEPT ![p] = [kind |-> kind, id |-> changes + 1]]
    /\ survivors' = [survivors EXCEPT ![p] =
            @ \cup {[kind |-> k, id |-> changes + 1] : k \in landed}]

\* The temporary is at the destination: the commit point.
Commit(e) ==
    /\ Put(PathOf(e), "file", IF temp[e] = "synced" THEN {"file"} ELSE {"file", "torn"})
    /\ replaced' = [replaced EXCEPT ![e] = entry[PathOf(e)]]
    /\ renamed' = [renamed EXCEPT ![e] = changes + 1]
    /\ temp' = [temp EXCEPT ![e] = "none"]
    /\ pc' = [pc EXCEPT ![e] = "directorySync"]
    /\ UNCHANGED <<windowVars, target, policy, confirmed, cancelled, outcome, verified, bounds>>

\* commit_destination: rename_no_replace, or a plain rename after the check.
CommitDestination(e) ==
    /\ pc[e] = "rename"
    /\ \/ /\ policy[e] = "DenyOverwrite" /\ entry[PathOf(e)].kind # "absent"
          /\ Fail(e, "InvalidInput")
       \/ Fail(e, "NotCommitted")
       \/ /\ \/ policy[e] = "DenyOverwrite" /\ entry[PathOf(e)].kind = "absent"
             \/ policy[e] = "ReplaceConfirmed"
          /\ Commit(e)

\* sync_directory and the three failpoints after the commit.
SyncDirectory(e) ==
    /\ pc[e] = "directorySync"
    /\ pc' = [pc EXCEPT ![e] = "done"]
    /\ \/ /\ outcome' = [outcome EXCEPT ![e] = "Exported"]
          /\ survivors' = [survivors EXCEPT ![PathOf(e)] = {entry[PathOf(e)]}]
       \/ /\ outcome' = [outcome EXCEPT ![e] = "CommittedDurabilityUnknown"]
          /\ UNCHANGED survivors
    /\ UNCHANGED <<windowVars, target, policy, confirmed, temp, cancelled, entry, changes, history, bounds>>

Step(e) ==
    \/ StartExportWork(e) \/ ValidateCommitPolicy(e) \/ CreatePrivateTemp(e) \/ WriteExport(e)
    \/ SyncTemp(e) \/ CheckCancelled(e) \/ VerifyConfirmedDestination(e) \/ CommitDestination(e)
    \/ SyncDirectory(e)

-----------------------------------------------------------------------------
(* The environment.                                                        *)

\* Another program creates, replaces or removes what is at a destination.
RivalChange(p, kind) ==
    /\ rivals < MaxRivals
    /\ rivals' = rivals + 1
    /\ kind # "absent" \/ entry[p].kind # "absent"
    /\ Put(p, kind, {kind})
    /\ UNCHANGED <<windowVars, jobVars, history, crashes>>

\* The window and every export are gone; temporaries stay under their own names.
PowerLoss ==
    /\ crashes < MaxCrashes
    /\ crashes' = crashes + 1
    /\ shown' = {}
    /\ pending' = {} /\ viewing' = {} /\ committed' = {}
    /\ pc' = [e \in Exports |-> IF pc[e] \in {"done", "told"} THEN "told" ELSE "dead"]
    /\ temp' = [e \in Exports |-> "none"]
    /\ \E left \in [Paths -> UNION {survivors[p] : p \in Paths}] :
        /\ \A p \in Paths : left[p] \in survivors[p]
        /\ entry' = left
    /\ survivors' = [p \in Paths |-> {entry'[p]}]
    /\ UNCHANGED <<target, policy, confirmed, cancelled, outcome, changes, history, rivals>>

Next ==
    \/ \E e \in Exports :
        \/ \E r \in Results, p \in Paths : SubmitResultExportTo(e, r, p)
        \/ CancelExport(e) \/ HandleExportTerminal(e) \/ Step(e)
    \/ \E old, r \in Results : QueryFinished(old, r)
    \/ \E p \in Paths, kind \in {"absent", "file", "other"} : RivalChange(p, kind)
    \/ PowerLoss

Spec == Init /\ [][Next]_vars

\* The worker is a blocking thread whose file system calls return; the window
\* drains its events every frame.
FairSpec == Spec /\ \A e \in Exports : WF_vars(Step(e) \/ HandleExportTerminal(e))
-----------------------------------------------------------------------------
(* Properties.                                                             *)

\* A rival's file is never clobbered: with DenyOverwrite the rename replaces
\* nothing, and with ReplaceConfirmed only the very file the user agreed to, or
\* one that appeared after it was compared for the last time (the race that
\* docs/usable-mvp/spec.md accepts).
RivalsKept ==
    \A e \in Exports : renamed[e] > 0 =>
        IF policy[e] = "DenyOverwrite" THEN replaced[e].kind = "absent"
        ELSE \/ replaced[e] = [kind |-> "file", id |-> confirmed[e]]
             \/ replaced[e].id > verified[e]

\* What the worker answers is what happened: an error, a cancel included, means
\* that nothing was renamed and the temporary is gone; a commit state that it was.
WorkerAnswersTrue ==
    \A e \in Exports : pc[e] \in {"done", "told"} =>
        /\ outcome[e] \in Errors => renamed[e] = 0
        /\ outcome[e] \in CommitStates => renamed[e] > 0
        /\ temp[e] = "none"

\* An export answered Exported survives every power loss whole: what a power loss
\* may leave at its path is this export or something put there after it.  No
\* destination ever holds half an export.
ExportedIsDurable ==
    \A e \in Exports, p \in Paths : \A left \in survivors[p] :
        /\ left.kind # "torn"
        /\ outcome[e] = "Exported" /\ p = PathOf(e) => left.id >= renamed[e]

\* What the window says of exports is true: the destination "Show exported file"
\* opens is one a commit of that result's export was renamed to, and an export
\* the window waits for is on its way, one per result; the result shown offers
\* to cancel exactly the export it waits for.
WindowTracksExports ==
    /\ \A d \in committed : \E e \in Exports :
        ResultOf(e) = d[1] /\ PathOf(e) = d[2] /\ renamed[e] > 0
    /\ \A e \in pending : pc[e] \notin {"idle", "told", "dead"}
    /\ \A e, other \in pending : ResultOf(e) = ResultOf(other) => e = other
    /\ viewing = {e \in pending : ResultOf(e) \in shown}

\* What the user is told of an export is what happened, from the worker's answer
\* (write_export_file) to the window's offers (handle_export_terminal).
ExportAnswersTrue == TypeOK /\ WorkerAnswersTrue /\ WindowTracksExports

\* The window never waits for ever for an export it submitted.
ExportsSettle == \A e \in Exports : e \in pending ~> e \notin pending
=============================================================================
