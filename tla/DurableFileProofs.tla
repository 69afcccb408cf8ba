------------------------- MODULE DurableFileProofs --------------------------
(***************************************************************************)
(* The two writers of single files, for any number of processes and of     *)
(* power losses: the page-token key (TokenKey), for every set of processes,*)
(* and exports to files (ExportFile), for every set of exports, results and*)
(* destinations and any changes by other programs.                         *)
(***************************************************************************)
EXTENDS TokenKey, ExportFile, TLAPS

\* The temporary of a process that is about to rename it is synced, so that what
\* is renamed survives whole.
SyncedBeforeRename ==
    \A p \in Processes :
        /\ keyPc[p] = "rename" => keyTemp[p] = "synced"
        /\ keyPc[p] \in {"temp", "write", "sync", "rename", "directorySync"} => candidate[p] \in Keys

\* Once there is a key, it stays: no process replaces it, and the only other
\* thing a power loss may leave is no key at all, before the first fsync of the
\* directory.
KeyStays ==
    /\ keyFile # TornKey /\ keyFile \in keySurvivors
    /\ keySurvivors \subseteq {keyFile, NoKey}
    /\ \A p \in Processes :
        /\ keyPc[p] = "directorySync" => keyFile = candidate[p]
        /\ keyPc[p] \in {"rivalSync", "reread", "ready"} => keyFile # NoKey
        /\ keyPc[p] = "ready" => cached[p] = keyFile

KeyInv == KeyTypeOK /\ SyncedBeforeRename /\ KeyStays

LEMMA KeyKinds == NoKey # TornKey /\ NoKey \notin Keys /\ TornKey \notin Keys
<1>1. NoKey # TornKey
  <2>1. NoKey.by = "nobody" /\ TornKey.by = "torn"
    BY DEF NoKey, TornKey
  <2> QED
    BY <2>1
<1>2. ASSUME NEW key \in Keys PROVE DOMAIN key = {"by", "start"}
  BY <1>2 DEF Keys
<1>3. DOMAIN NoKey = {"by"} /\ DOMAIN TornKey = {"by"}
  BY DEF NoKey, TornKey
<1> QED
  BY <1>1, <1>2, <1>3

LEMMA KeyInvInit == KeyInit => KeyInv
BY KeyKinds DEF KeyInit, KeyInv, KeyTypeOK, SyncedBeforeRename, KeyStays, KeyFiles, KeySteps

LEMMA KeyInvStep == KeyInv /\ [KeyNext]_keyVars => KeyInv'
<1> SUFFICES ASSUME KeyInv, [KeyNext]_keyVars PROVE KeyInv'
  OBVIOUS
<1> USE DEF KeyInv, KeyTypeOK, KeySteps
<1>1. ASSUME NEW p \in Processes, LoadOrCreate(p) PROVE KeyInv'
  BY <1>1 DEF LoadOrCreate, GotoKey, keyFileVars, SyncedBeforeRename, KeyStays
<1>2. ASSUME NEW p \in Processes, FailKey(p) PROVE KeyInv'
  BY <1>2 DEF FailKey, keyFileVars, SyncedBeforeRename, KeyStays
<1>3. ASSUME NEW p \in Processes, ReadTokenKey(p), ~FailKey(p) PROVE KeyInv'
  <2>1. CASE keyFile \in Keys /\ Answer(p, keyFile) /\ UNCHANGED <<candidate, starts, keyFileVars>>
    BY <2>1, KeyKinds DEF Answer, GotoKey, keyFileVars, SyncedBeforeRename, KeyStays
  <2>2. CASE ~(keyFile \in Keys /\ Answer(p, keyFile) /\ UNCHANGED <<candidate, starts, keyFileVars>>)
    <3>1. [by |-> p, start |-> starts[p]] \in Keys
      BY DEF Keys
    <3> QED
      BY <1>3, <2>2, <3>1 DEF ReadTokenKey, GotoKey, keyFileVars, SyncedBeforeRename, KeyStays
  <2> QED
    BY <2>1, <2>2
<1>4. ASSUME NEW p \in Processes, CreateTokenKeyTemp(p) \/ WriteKey(p) \/ SyncKey(p), ~FailKey(p)
      PROVE  KeyInv'
  BY <1>4 DEF CreateTokenKeyTemp, WriteKey, SyncKey, TempKeyStep, GotoKey, keyFileVars,
              SyncedBeforeRename, KeyStays
<1>5. ASSUME NEW p \in Processes, RenameTokenKeyNoReplace(p), ~FailKey(p) PROVE KeyInv'
  <2>1. CASE keyFile # NoKey
    BY <1>5, <2>1 DEF RenameTokenKeyNoReplace, GotoKey, keyFileVars, SyncedBeforeRename, KeyStays
  <2>2. CASE keyFile = NoKey
    BY <1>5, <2>2, KeyKinds
       DEF RenameTokenKeyNoReplace, GotoKey, SyncedBeforeRename, KeyStays, KeyFiles
  <2> QED
    BY <2>1, <2>2
<1>6. ASSUME NEW p \in Processes, SyncOwnKey(p), ~FailKey(p) PROVE KeyInv'
  BY <1>6, KeyKinds DEF SyncOwnKey, Answer, GotoKey, SyncedBeforeRename, KeyStays
<1>7. ASSUME NEW p \in Processes, SyncRivalKey(p), ~FailKey(p) PROVE KeyInv'
  BY <1>7 DEF SyncRivalKey, GotoKey, SyncedBeforeRename, KeyStays
<1>8. ASSUME NEW p \in Processes, RereadKey(p), ~FailKey(p) PROVE KeyInv'
  BY <1>8, KeyKinds DEF RereadKey, Answer, GotoKey, keyFileVars, SyncedBeforeRename, KeyStays
<1>9. ASSUME NEW p \in Processes, RestartProcess(p) PROVE KeyInv'
  BY <1>9 DEF RestartProcess, GotoKey, keyFileVars, SyncedBeforeRename, KeyStays
<1>10. CASE LosePower
  BY <1>10, KeyKinds DEF LosePower, SyncedBeforeRename, KeyStays, KeyFiles
<1>11. CASE UNCHANGED keyVars
  BY <1>11 DEF keyVars, SyncedBeforeRename, KeyStays
<1> QED
  BY <1>1, <1>2, <1>3, <1>4, <1>5, <1>6, <1>7, <1>8, <1>9, <1>10, <1>11 DEF KeyNext

\* Every process that has a page-token key has the one on disk, and no power loss
\* can leave half a key (load_or_create_token_key, rename_token_key_no_replace).
THEOREM TokenKeyIsOne == KeySpec => []OneTokenKey
<1>1. KeyInv => OneTokenKey
  BY KeyKinds DEF KeyInv, KeyStays, OneTokenKey
<1> QED
  BY <1>1, KeyInvInit, KeyInvStep, PTL DEF KeySpec


\* What a call has done so far follows from where it is.
Progress ==
    \A e \in Exports :
        /\ pc[e] \in PreCommit \cup {"idle", "queued"} => renamed[e] = 0
        /\ pc[e] = "directorySync" => renamed[e] > 0
        /\ pc[e] \notin {"done", "told"} => outcome[e] = "none"
        /\ pc[e] \in {"done", "told", "directorySync", "dead"} => temp[e] = "none"
        /\ pc[e] \in {"cancelCheck", "verify", "rename"} => temp[e] = "synced"

\* Every number in use was given out: the next change is newer than all of them.
Numbered ==
    /\ \A p \in Paths : entry[p] \in survivors[p] /\ entry[p].id <= changes
    /\ \A p \in Paths : \A left \in survivors[p] : left.id <= changes
    /\ \A e \in Exports : verified[e] <= changes /\ renamed[e] <= changes

\* What is at the destination of an export between its check and its rename, and
\* between its rename and the fsync of the directory.
Destinations ==
    \A e \in Exports :
        /\ pc[e] = "rename" /\ policy[e] # "DenyOverwrite" =>
              \/ entry[PathOf(e)] = [kind |-> "file", id |-> confirmed[e]]
              \/ entry[PathOf(e)].id > verified[e]
        /\ pc[e] = "directorySync" => entry[PathOf(e)].id >= renamed[e]

FilesInv == Progress /\ Numbered /\ Destinations /\ RivalsKept /\ ExportedIsDurable

LEMMA TypeInit == Init => TypeOK
<1> SUFFICES ASSUME Init PROVE TypeOK
  OBVIOUS
<1>1. \E t : t \in Targets
  <2>1. PICK r \in Results, p \in Paths : TRUE
    BY ExportAssumption
  <2>2. [result |-> r, path |-> p] \in Targets
    BY DEF Targets
  <2> QED
    BY <2>2
<1>2. target \in [Exports -> Targets]
  BY <1>1 DEF Init
<1>3. entry \in [Paths -> Entries]
  BY DEF Init, Entries
<1>4. survivors \in [Paths -> SUBSET Entries]
  BY <1>3 DEF Init
<1> QED
  BY <1>2, <1>3, <1>4 DEF Init, TypeOK, Steps, Absent, Entries

LEMMA TypeStep == TypeOK /\ [Next]_vars => TypeOK'
<1> SUFFICES ASSUME TypeOK, [Next]_vars PROVE TypeOK'
  OBVIOUS
<1> USE DEF TypeOK, windowVars, jobVars, fileVars, history, bounds
<1>1. ASSUME NEW e \in Exports, NEW r \in Results, NEW p \in Paths, SubmitResultExportTo(e, r, p)
      PROVE  TypeOK'
  BY <1>1 DEF SubmitResultExportTo, Targets, Steps, Entries
<1>2. ASSUME NEW e \in Exports, CancelExport(e) PROVE TypeOK'
  BY <1>2 DEF CancelExport
<1>3. ASSUME NEW e \in Exports, HandleExportTerminal(e) PROVE TypeOK'
  BY <1>3 DEF HandleExportTerminal, Kept, ResultOf, PathOf, Targets, Steps
<1>4. ASSUME NEW e \in Exports, NEW error \in Errors, Fail(e, error) PROVE TypeOK'
  BY <1>4 DEF Fail, Steps
<1>5. ASSUME NEW e \in Exports, NEW to \in Steps, Continue(e, to),
             \/ UNCHANGED temp
             \/ \E stage \in {"created", "written", "synced"} : temp' = [temp EXCEPT ![e] = stage],
             \/ UNCHANGED history
             \/ verified' = [verified EXCEPT ![e] = changes] /\ UNCHANGED <<replaced, renamed>>
      PROVE  TypeOK'
  BY <1>5 DEF Continue
<1>6. ASSUME NEW p \in Paths, NEW kind \in {"absent", "file", "other"},
             NEW landed \in SUBSET {"absent", "file", "other", "torn"}, Put(p, kind, landed)
      PROVE  /\ entry' \in [Paths -> Entries] /\ survivors' \in [Paths -> SUBSET Entries]
             /\ changes' \in Nat
  <2>1. changes + 1 \in Nat
    OBVIOUS
  <2>2. \A k \in {"absent", "file", "other", "torn"} : [kind |-> k, id |-> changes + 1] \in Entries
    BY <2>1 DEF Entries
  <2>3. {[kind |-> k, id |-> changes + 1] : k \in landed} \subseteq Entries
    BY <2>2
  <2>4. survivors[p] \cup {[kind |-> k, id |-> changes + 1] : k \in landed} \in SUBSET Entries
    BY <2>3
  <2> QED
    BY <1>6, <2>1, <2>2, <2>4 DEF Put
<1>7. ASSUME NEW e \in Exports, Commit(e) PROVE TypeOK'
  <2>1. PathOf(e) \in Paths
    BY DEF PathOf, Targets
  <2>2. /\ entry' \in [Paths -> Entries] /\ survivors' \in [Paths -> SUBSET Entries]
        /\ changes' \in Nat
    BY <1>6, <1>7, <2>1 DEF Commit
  <2>3. changes + 1 \in Nat /\ entry[PathOf(e)] \in Entries
    BY <2>1
  <2> QED
    BY <1>7, <2>1, <2>2, <2>3 DEF Commit, Steps
<1>8. ASSUME NEW e \in Exports, SyncDirectory(e) PROVE TypeOK'
  <2>1. PathOf(e) \in Paths
    BY DEF PathOf, Targets
  <2>2. {entry[PathOf(e)]} \in SUBSET Entries
    BY <2>1
  <2>3. survivors' \in [Paths -> SUBSET Entries]
    BY <1>8, <2>1, <2>2 DEF SyncDirectory
  <2> QED
    BY <1>8, <2>3 DEF SyncDirectory, Steps, CommitStates
<1>9. ASSUME NEW e \in Exports, Step(e) PROVE TypeOK'
  BY <1>4, <1>5, <1>7, <1>8, <1>9
     DEF Step, StartExportWork, ValidateCommitPolicy, CreatePrivateTemp, WriteExport, SyncTemp,
         CheckCancelled, VerifyConfirmedDestination, CommitDestination, Errors, PreCommit, Steps
<1>10. ASSUME NEW old \in Results, NEW r \in Results, QueryFinished(old, r) PROVE TypeOK'
  BY <1>10 DEF QueryFinished, Kept
<1>11. ASSUME NEW p \in Paths, NEW kind \in {"absent", "file", "other"}, RivalChange(p, kind)
       PROVE  TypeOK'
  <2>1. /\ entry' \in [Paths -> Entries] /\ survivors' \in [Paths -> SUBSET Entries]
        /\ changes' \in Nat
    BY <1>6, <1>11 DEF RivalChange
  <2> QED
    BY <1>11, <2>1 DEF RivalChange
<1>12. CASE PowerLoss
  BY <1>12 DEF PowerLoss, Steps
<1>13. CASE UNCHANGED vars
  BY <1>13 DEF vars
<1> QED
  BY <1>1, <1>2, <1>3, <1>9, <1>10, <1>11, <1>12, <1>13 DEF Next

-----------------------------------------------------------------------------
(* The worker and the files.                                               *)

LEMMA FilesInit == Init => FilesInv
<1> SUFFICES ASSUME Init PROVE FilesInv
  OBVIOUS
<1>1. TypeOK
  BY TypeInit
<1>2. \A p \in Paths : entry[p].id = 0 /\ entry[p].kind # "torn" /\ survivors[p] = {entry[p]}
  BY DEF Init
<1> QED
  BY <1>1, <1>2
     DEF Init, TypeOK, FilesInv, Progress, Numbered, Destinations, RivalsKept, ExportedIsDurable,
         PreCommit, PathOf, Targets

\* A worker's step before the commit.
LEMMA QuietSteps ==
    ASSUME TypeOK, FilesInv, NEW e \in Exports, Step(e), ~Commit(e), ~SyncDirectory(e)
    PROVE  FilesInv'
<1> USE DEF windowVars, jobVars, fileVars, history, bounds
<1>1. ASSUME NEW error \in Errors, Fail(e, error), pc[e] \in PreCommit \cup {"queued"}
      PROVE  FilesInv'
  BY <1>1 DEF Fail, FilesInv, TypeOK, Progress, Numbered, Destinations, RivalsKept,
              ExportedIsDurable, PathOf, PreCommit, Errors
<1>2. ASSUME NEW to \in PreCommit, Continue(e, to), pc[e] \in PreCommit \cup {"queued"},
             UNCHANGED history, to = "rename" => policy[e] = "DenyOverwrite",
             NEW stage \in {"none", "created", "written", "synced"},
             temp' = [temp EXCEPT ![e] = stage],
             to \in {"cancelCheck", "verify", "rename"} => stage = "synced"
      PROVE  FilesInv'
  BY <1>2 DEF Continue, FilesInv, TypeOK, Progress, Numbered, Destinations, RivalsKept,
              ExportedIsDurable, PathOf, PreCommit
<1>3. ASSUME pc[e] = "verify", Continue(e, "rename"),
             entry[PathOf(e)] = [kind |-> "file", id |-> confirmed[e]],
             verified' = [verified EXCEPT ![e] = changes], UNCHANGED <<temp, replaced, renamed>>
      PROVE  FilesInv'
  BY <1>3 DEF Continue, FilesInv, TypeOK, Progress, Numbered, Destinations, RivalsKept,
              ExportedIsDurable, PathOf, PreCommit
<1>4. UNCHANGED temp => temp' = [temp EXCEPT ![e] = temp[e]]
  BY DEF TypeOK
<1>5. ASSUME StartExportWork(e) \/ ValidateCommitPolicy(e) \/ CreatePrivateTemp(e) \/ WriteExport(e)
             \/ SyncTemp(e)
      PROVE  FilesInv'
  BY <1>1, <1>2, <1>4, <1>5
     DEF StartExportWork, ValidateCommitPolicy, CreatePrivateTemp, WriteExport, SyncTemp,
         Errors, PreCommit, TypeOK
<1>6. ASSUME CheckCancelled(e) PROVE FilesInv'
  <2>1. temp[e] = "synced"
    BY <1>6 DEF CheckCancelled, FilesInv, Progress
  <2> QED
    BY <1>1, <1>2, <1>4, <1>6, <2>1 DEF CheckCancelled, Errors, PreCommit
<1>7. ASSUME VerifyConfirmedDestination(e) PROVE FilesInv'
  BY <1>1, <1>3, <1>7 DEF VerifyConfirmedDestination, Errors, PreCommit
<1>8. ASSUME CommitDestination(e) PROVE FilesInv'
  BY <1>1, <1>8 DEF CommitDestination, Errors, PreCommit
<1> QED
  BY <1>5, <1>6, <1>7, <1>8 DEF Step

\* What a new entry does to the files, whoever puts it there.
LEMMA PutKeepsFiles ==
    ASSUME TypeOK, FilesInv, NEW p \in Paths, NEW kind \in {"absent", "file", "other"},
           Put(p, kind, {kind})
    PROVE  /\ changes' = changes + 1
           /\ entry'[p] = [kind |-> kind, id |-> changes + 1]
           /\ \A q \in Paths : q # p => entry'[q] = entry[q]
           /\ \A q \in Paths : entry'[q] \in survivors'[q] /\ entry'[q].id <= changes'
           /\ \A q \in Paths : \A left \in survivors'[q] :
                \/ left \in survivors[q]
                \/ left.kind # "torn" /\ left.id = changes + 1
<1>1. survivors'[p] = survivors[p] \cup {entry'[p]} /\ entry'[p] = [kind |-> kind, id |-> changes + 1]
  BY DEF TypeOK, Put
<1>2. \A q \in Paths : q # p => entry'[q] = entry[q] /\ survivors'[q] = survivors[q]
  BY DEF TypeOK, Put
<1>3. changes' = changes + 1 /\ changes \in Nat
  BY DEF TypeOK, Put
<1>4. \A q \in Paths : entry[q] \in survivors[q] /\ entry[q].id <= changes /\ entry[q].id \in Nat
  BY DEF FilesInv, Numbered, TypeOK, Entries
<1> QED
  BY <1>1, <1>2, <1>3, <1>4

LEMMA CommitStep ==
    ASSUME TypeOK, FilesInv, NEW e \in Exports, CommitDestination(e), Commit(e)
    PROVE  FilesInv'
<1> USE DEF windowVars, jobVars, fileVars, history, bounds
<1>1. PathOf(e) \in Paths /\ \A f \in Exports : PathOf(f) \in Paths
  BY DEF TypeOK, PathOf, Targets
<1>2. pc[e] = "rename" /\ temp[e] = "synced" /\ renamed[e] = 0
  BY DEF CommitDestination, FilesInv, Progress, PreCommit
<1>3. Put(PathOf(e), "file", {"file"})
  BY <1>2 DEF Commit
<1>4. /\ changes' = changes + 1
      /\ entry'[PathOf(e)] = [kind |-> "file", id |-> changes + 1]
      /\ \A q \in Paths : q # PathOf(e) => entry'[q] = entry[q]
      /\ \A q \in Paths : entry'[q] \in survivors'[q] /\ entry'[q].id <= changes'
      /\ \A q \in Paths : \A left \in survivors'[q] :
           \/ left \in survivors[q]
           \/ left.kind # "torn" /\ left.id = changes + 1
  BY <1>1, <1>3, PutKeepsFiles
<1>5. /\ replaced' = [replaced EXCEPT ![e] = entry[PathOf(e)]]
      /\ renamed' = [renamed EXCEPT ![e] = changes + 1]
      /\ temp' = [temp EXCEPT ![e] = "none"]
      /\ pc' = [pc EXCEPT ![e] = "directorySync"]
      /\ UNCHANGED <<target, policy, confirmed, outcome, verified>>
  BY DEF Commit
<1>6. policy[e] = "DenyOverwrite" => entry[PathOf(e)].kind = "absent"
  <2>1. \A error : Fail(e, error) => pc'[e] = "done"
    BY DEF Fail, TypeOK
  <2>2. pc'[e] = "directorySync"
    BY <1>5 DEF TypeOK
  <2> QED
    BY <2>1, <2>2 DEF CommitDestination
<1>7. \A f \in Exports : PathOf(f)' = PathOf(f)
  BY <1>5 DEF PathOf
<1>8. Progress'
  BY <1>2, <1>5 DEF FilesInv, Progress, TypeOK, PreCommit
<1>9. Numbered'
  <2>1. \A p \in Paths : \A left \in survivors'[p] : left.id <= changes'
    BY <1>4 DEF FilesInv, Numbered, TypeOK, Entries
  <2>2. \A f \in Exports : verified'[f] <= changes' /\ renamed'[f] <= changes'
    BY <1>4, <1>5 DEF FilesInv, Numbered, TypeOK
  <2> QED
    BY <1>4, <2>1, <2>2 DEF Numbered
<1>10. Destinations'
  <2> SUFFICES ASSUME NEW f \in Exports
               PROVE  /\ pc'[f] = "rename" /\ policy[f] # "DenyOverwrite" =>
                           \/ entry'[PathOf(f)] = [kind |-> "file", id |-> confirmed[f]]
                           \/ entry'[PathOf(f)].id > verified[f]
                      /\ pc'[f] = "directorySync" => entry'[PathOf(f)].id >= renamed'[f]
    BY <1>5, <1>7 DEF Destinations
  <2>1. verified[f] <= changes /\ renamed[f] <= changes /\ changes \in Nat
        /\ verified[f] \in Nat /\ renamed[f] \in Nat
    BY DEF FilesInv, Numbered, TypeOK
  <2>2. CASE f = e
    BY <1>4, <1>5, <2>1, <2>2 DEF TypeOK
  <2>3. CASE f # e
    <3>1. pc'[f] = pc[f] /\ renamed'[f] = renamed[f]
      BY <1>5, <2>3
    <3>2. CASE PathOf(f) = PathOf(e)
      BY <1>4, <2>1, <3>1, <3>2
    <3>3. CASE PathOf(f) # PathOf(e)
      BY <1>1, <1>4, <3>1, <3>3 DEF FilesInv, Destinations
    <3> QED
      BY <3>2, <3>3
  <2> QED
    BY <2>2, <2>3
<1>11. RivalsKept'
  <2> SUFFICES ASSUME NEW f \in Exports, renamed'[f] > 0
               PROVE  IF policy[f] = "DenyOverwrite" THEN replaced'[f].kind = "absent"
                      ELSE \/ replaced'[f] = [kind |-> "file", id |-> confirmed[f]]
                           \/ replaced'[f].id > verified[f]
    BY <1>5 DEF RivalsKept
  <2>1. CASE f = e
    <3>1. replaced'[f] = entry[PathOf(e)]
      BY <1>5, <2>1 DEF TypeOK
    <3> QED
      BY <1>2, <1>6, <2>1, <3>1 DEF FilesInv, Destinations
  <2>2. CASE f # e
    BY <1>5, <2>2 DEF FilesInv, RivalsKept
  <2> QED
    BY <2>1, <2>2
<1>12. ExportedIsDurable'
  <2> SUFFICES ASSUME NEW f \in Exports, NEW p \in Paths, NEW left \in survivors'[p]
               PROVE  /\ left.kind # "torn"
                      /\ outcome[f] = "Exported" /\ p = PathOf(f) => left.id >= renamed'[f]
    BY <1>5, <1>7 DEF ExportedIsDurable
  <2>1. outcome[e] = "none"
    BY <1>2 DEF FilesInv, Progress
  <2>2. renamed[f] <= changes /\ renamed[f] \in Nat /\ changes \in Nat
    BY DEF FilesInv, Numbered, TypeOK
  <2>3. outcome[f] = "Exported" => renamed'[f] = renamed[f]
    BY <1>5, <2>1
  <2>4. left \in survivors[p] \/ (left.kind # "torn" /\ left.id = changes + 1)
    BY <1>4
  <2> QED
    BY <2>2, <2>3, <2>4 DEF FilesInv, ExportedIsDurable
<1> QED
  BY <1>8, <1>9, <1>10, <1>11, <1>12 DEF FilesInv

LEMMA SyncDirectoryStep ==
    ASSUME TypeOK, FilesInv, NEW e \in Exports, SyncDirectory(e)
    PROVE  FilesInv'
<1> USE DEF windowVars, jobVars, fileVars, history, bounds
<1>1. \A f \in Exports : PathOf(f) \in Paths /\ PathOf(f)' = PathOf(f)
  BY DEF SyncDirectory, TypeOK, PathOf, Targets
<1>2. /\ pc[e] = "directorySync" /\ renamed[e] > 0 /\ outcome[e] = "none" /\ temp[e] = "none"
      /\ entry[PathOf(e)].id >= renamed[e]
  BY DEF SyncDirectory, FilesInv, Progress, Destinations
<1>3. Progress'
  BY <1>2 DEF SyncDirectory, FilesInv, Progress, TypeOK, PreCommit
<1>4. \A p \in Paths : survivors'[p] = survivors[p] \/ survivors'[p] = {entry[p]}
  BY DEF SyncDirectory, TypeOK
<1>5. Numbered'
  BY <1>4 DEF SyncDirectory, FilesInv, Numbered
<1>6. Destinations' /\ RivalsKept'
  BY <1>1 DEF SyncDirectory, FilesInv, Destinations, RivalsKept, TypeOK
<1>7. ExportedIsDurable'
  <2> SUFFICES ASSUME NEW f \in Exports, NEW p \in Paths, NEW left \in survivors'[p]
               PROVE  /\ left.kind # "torn"
                      /\ outcome'[f] = "Exported" /\ p = PathOf(f) => left.id >= renamed[f]
    BY <1>1 DEF ExportedIsDurable, SyncDirectory
  <2>1. left \in survivors[p]
    BY <1>4 DEF FilesInv, Numbered
  <2>2. left.kind # "torn" /\ (outcome[f] = "Exported" /\ p = PathOf(f) => left.id >= renamed[f])
    BY <2>1 DEF FilesInv, ExportedIsDurable
  <2>3. CASE f = e /\ outcome'[e] = "Exported"
    <3>1. survivors'[PathOf(e)] = {entry[PathOf(e)]}
      BY <1>1, <2>3 DEF SyncDirectory, TypeOK
    <3> QED
      BY <1>2, <2>2, <2>3, <3>1
  <2>4. CASE ~(f = e /\ outcome'[e] = "Exported")
    BY <2>2, <2>4 DEF SyncDirectory, TypeOK
  <2> QED
    BY <2>3, <2>4
<1> QED
  BY <1>3, <1>5, <1>6, <1>7 DEF FilesInv

LEMMA RivalStep ==
    ASSUME TypeOK, FilesInv, NEW p \in Paths, NEW kind \in {"absent", "file", "other"},
           RivalChange(p, kind)
    PROVE  FilesInv'
<1> USE DEF windowVars, jobVars, fileVars, history, bounds
<1>1. \A f \in Exports : PathOf(f) \in Paths /\ PathOf(f)' = PathOf(f)
  BY DEF RivalChange, TypeOK, PathOf, Targets
<1>2. UNCHANGED <<target, pc, policy, confirmed, temp, outcome, history>>
  BY DEF RivalChange
<1>3. /\ changes' = changes + 1
      /\ entry'[p] = [kind |-> kind, id |-> changes + 1]
      /\ \A q \in Paths : q # p => entry'[q] = entry[q]
      /\ \A q \in Paths : entry'[q] \in survivors'[q] /\ entry'[q].id <= changes'
      /\ \A q \in Paths : \A left \in survivors'[q] :
           \/ left \in survivors[q]
           \/ left.kind # "torn" /\ left.id = changes + 1
  BY PutKeepsFiles DEF RivalChange
<1>4. /\ changes \in Nat
      /\ \A f \in Exports : /\ verified[f] <= changes /\ renamed[f] <= changes
                            /\ verified[f] \in Nat /\ renamed[f] \in Nat
  BY DEF FilesInv, Numbered, TypeOK
<1>5. Progress' /\ RivalsKept'
  BY <1>2 DEF FilesInv, Progress, RivalsKept
<1>6. Numbered'
  <2>1. \A q \in Paths : \A left \in survivors'[q] : left.id <= changes'
    BY <1>3 DEF FilesInv, Numbered, TypeOK, Entries
  <2> QED
    BY <1>2, <1>3, <1>4, <2>1 DEF Numbered
<1>7. Destinations'
  BY <1>1, <1>2, <1>3, <1>4 DEF FilesInv, Destinations
<1>8. ExportedIsDurable'
  BY <1>1, <1>2, <1>3, <1>4 DEF FilesInv, ExportedIsDurable
<1> QED
  BY <1>5, <1>6, <1>7, <1>8 DEF FilesInv

LEMMA PowerLossStep ==
    ASSUME TypeOK, FilesInv, PowerLoss
    PROVE  FilesInv'
<1> USE DEF windowVars, jobVars, fileVars, history, bounds
<1>1. \A f \in Exports : PathOf(f) \in Paths /\ PathOf(f)' = PathOf(f)
  BY DEF PowerLoss, TypeOK, PathOf, Targets
<1>2. \A p \in Paths : entry'[p] \in survivors[p] /\ survivors'[p] = {entry'[p]}
  BY DEF PowerLoss
<1>3. \A f \in Exports : pc'[f] \in {"told", "dead"} /\ (pc'[f] = "told" <=> pc[f] \in {"done", "told"})
  BY DEF PowerLoss
<1>4. UNCHANGED <<target, policy, confirmed, outcome, changes, history>>
  BY DEF PowerLoss
<1>5. Progress'
  BY <1>3, <1>4 DEF PowerLoss, FilesInv, Progress, PreCommit
<1>6. Numbered'
  BY <1>2, <1>4 DEF FilesInv, Numbered
<1>7. Destinations' /\ RivalsKept'
  BY <1>3, <1>4 DEF FilesInv, Destinations, RivalsKept
<1>8. ExportedIsDurable'
  BY <1>1, <1>2, <1>4 DEF FilesInv, ExportedIsDurable
<1> QED
  BY <1>5, <1>6, <1>7, <1>8 DEF FilesInv

LEMMA FilesStep == TypeOK /\ FilesInv /\ [Next]_vars => FilesInv'
<1> SUFFICES ASSUME TypeOK, FilesInv, [Next]_vars PROVE FilesInv'
  OBVIOUS
<1> USE DEF windowVars, jobVars, fileVars, history, bounds
<1>1. ASSUME NEW e \in Exports, NEW r \in Results, NEW p \in Paths, SubmitResultExportTo(e, r, p)
      PROVE  FilesInv'
  <2>1. /\ pc[e] = "idle" /\ outcome[e] = "none" /\ renamed[e] = 0
        /\ pc' = [pc EXCEPT ![e] = "queued"] /\ UNCHANGED <<temp, outcome, fileVars, history>>
    BY <1>1 DEF SubmitResultExportTo, FilesInv, Progress
  <2>2. \A f \in Exports : f # e => /\ PathOf(f)' = PathOf(f) /\ policy'[f] = policy[f]
                                    /\ confirmed'[f] = confirmed[f] /\ pc'[f] = pc[f]
    BY <1>1 DEF SubmitResultExportTo, PathOf, TypeOK
  <2>3. pc'[e] = "queued"
    BY <2>1 DEF TypeOK
  <2>4. Progress'
    BY <2>1 DEF FilesInv, Progress, TypeOK, PreCommit
  <2>5. Numbered'
    BY <2>1 DEF FilesInv, Numbered
  <2>6. Destinations' /\ RivalsKept'
    BY <2>1, <2>2, <2>3 DEF FilesInv, Destinations, RivalsKept
  <2>7. ExportedIsDurable'
    BY <2>1, <2>2 DEF FilesInv, ExportedIsDurable
  <2> QED
    BY <2>4, <2>5, <2>6, <2>7 DEF FilesInv
<1>2. ASSUME NEW e \in Exports, CancelExport(e) PROVE FilesInv'
  BY <1>2 DEF CancelExport, FilesInv, Progress, Numbered, Destinations, RivalsKept,
              ExportedIsDurable, PathOf
<1>3. ASSUME NEW e \in Exports, HandleExportTerminal(e) PROVE FilesInv'
  BY <1>3 DEF HandleExportTerminal, FilesInv, Progress, Numbered, Destinations, RivalsKept,
              ExportedIsDurable, PathOf, PreCommit, TypeOK
<1>4. ASSUME NEW e \in Exports, Step(e) PROVE FilesInv'
  <2>1. Commit(e) => CommitDestination(e)
    <3>1. Commit(e) => pc'[e] = "directorySync" /\ renamed'[e] = changes + 1
      BY DEF Commit, TypeOK
    <3>2. SyncDirectory(e) => pc'[e] = "done"
      BY DEF SyncDirectory, TypeOK
    <3>3. \A error : Fail(e, error) => pc'[e] = "done"
      BY DEF Fail, TypeOK
    <3>4. \A to : Continue(e, to) => pc'[e] = to
      BY DEF Continue, TypeOK
    <3> QED
      BY <1>4, <3>1, <3>2, <3>3, <3>4
         DEF Step, StartExportWork, ValidateCommitPolicy, CreatePrivateTemp, WriteExport, SyncTemp,
             CheckCancelled, VerifyConfirmedDestination
  <2> QED
    BY <1>4, <2>1, QuietSteps, CommitStep, SyncDirectoryStep
<1>5. ASSUME NEW old \in Results, NEW r \in Results, QueryFinished(old, r) PROVE FilesInv'
  BY <1>5 DEF QueryFinished, FilesInv, Progress, Numbered, Destinations, RivalsKept,
              ExportedIsDurable, PathOf
<1>6. CASE UNCHANGED vars
  BY <1>6 DEF vars, FilesInv, Progress, Numbered, Destinations, RivalsKept, ExportedIsDurable, PathOf
<1> QED
  BY <1>1, <1>2, <1>3, <1>4, <1>5, <1>6, RivalStep, PowerLossStep DEF Next

-----------------------------------------------------------------------------
(* The answers.                                                            *)

LEMMA AnswersInit == Init => WorkerAnswersTrue
BY DEF Init, WorkerAnswersTrue

LEMMA AnswersStep == TypeOK /\ FilesInv /\ WorkerAnswersTrue /\ [Next]_vars => WorkerAnswersTrue'
<1> SUFFICES ASSUME TypeOK, FilesInv, WorkerAnswersTrue, [Next]_vars PROVE WorkerAnswersTrue'
  OBVIOUS
<1> USE DEF windowVars, jobVars, fileVars, history, bounds
<1>1. ASSUME NEW e \in Exports, NEW error \in Errors, Fail(e, error), pc[e] \in PreCommit \cup {"queued"}
      PROVE  WorkerAnswersTrue'
  BY <1>1 DEF Fail, WorkerAnswersTrue, FilesInv, Progress, TypeOK, Errors, CommitStates
<1>2. ASSUME NEW e \in Exports, NEW to \in PreCommit, Continue(e, to), UNCHANGED renamed,
             \A f \in Exports : f # e => temp'[f] = temp[f]
      PROVE  WorkerAnswersTrue'
  BY <1>2 DEF Continue, WorkerAnswersTrue, TypeOK, PreCommit
<1>3. ASSUME NEW e \in Exports, Commit(e) PROVE WorkerAnswersTrue'
  BY <1>3 DEF Commit, WorkerAnswersTrue, TypeOK
<1>4. ASSUME NEW e \in Exports, SyncDirectory(e) PROVE WorkerAnswersTrue'
  BY <1>4 DEF SyncDirectory, WorkerAnswersTrue, FilesInv, Progress, TypeOK, Errors, CommitStates
<1>5. ASSUME NEW e \in Exports, Step(e) PROVE WorkerAnswersTrue'
  <2>1. CASE StartExportWork(e) \/ ValidateCommitPolicy(e) \/ CreatePrivateTemp(e) \/ WriteExport(e)
             \/ SyncTemp(e)
    BY <1>1, <1>2, <2>1
       DEF StartExportWork, ValidateCommitPolicy, CreatePrivateTemp, WriteExport, SyncTemp,
           Errors, PreCommit, TypeOK
  <2>2. CASE CheckCancelled(e) \/ VerifyConfirmedDestination(e) \/ CommitDestination(e)
    BY <1>1, <1>2, <1>3, <2>2
       DEF CheckCancelled, VerifyConfirmedDestination, CommitDestination, Errors, PreCommit
  <2> QED
    BY <1>4, <1>5, <2>1, <2>2 DEF Step
<1>6. ASSUME NEW e \in Exports, NEW r \in Results, NEW p \in Paths, SubmitResultExportTo(e, r, p)
      PROVE  WorkerAnswersTrue'
  BY <1>6 DEF SubmitResultExportTo, WorkerAnswersTrue, TypeOK
<1>7. ASSUME NEW e \in Exports, CancelExport(e) \/ HandleExportTerminal(e)
      PROVE  WorkerAnswersTrue'
  BY <1>7 DEF CancelExport, HandleExportTerminal, WorkerAnswersTrue, TypeOK
<1>8. ASSUME NEW old \in Results, NEW r \in Results, QueryFinished(old, r) PROVE WorkerAnswersTrue'
  BY <1>8 DEF QueryFinished, WorkerAnswersTrue
<1>9. ASSUME NEW p \in Paths, NEW kind \in {"absent", "file", "other"}, RivalChange(p, kind)
      PROVE  WorkerAnswersTrue'
  BY <1>9 DEF RivalChange, WorkerAnswersTrue
<1>10. CASE PowerLoss
  BY <1>10 DEF PowerLoss, WorkerAnswersTrue
<1>11. CASE UNCHANGED vars
  BY <1>11 DEF vars, WorkerAnswersTrue
<1> QED
  BY <1>5, <1>6, <1>7, <1>8, <1>9, <1>10, <1>11 DEF Next

-----------------------------------------------------------------------------
(* The window.                                                             *)

LEMMA WindowInit == Init => WindowTracksExports
BY DEF Init, WindowTracksExports

\* A commit the window remembers stays one: the export keeps its target and its rename.
LEMMA CommittedKept ==
    ASSUME WindowTracksExports, committed' \subseteq committed,
           \A e \in Exports : renamed[e] > 0 => target'[e] = target[e] /\ renamed'[e] > 0
    PROVE  \A d \in committed' : \E e \in Exports :
             ResultOf(e)' = d[1] /\ PathOf(e)' = d[2] /\ renamed'[e] > 0
BY DEF WindowTracksExports, ResultOf, PathOf

LEMMA WindowStep ==
    TypeOK /\ FilesInv /\ WorkerAnswersTrue /\ WindowTracksExports /\ [Next]_vars
        => WindowTracksExports'
<1> SUFFICES ASSUME TypeOK, FilesInv, WorkerAnswersTrue, WindowTracksExports, [Next]_vars
             PROVE  WindowTracksExports'
  OBVIOUS
<1> USE DEF windowVars, jobVars, fileVars, history, bounds
<1>1. ASSUME NEW e \in Exports, NEW r \in Results, NEW p \in Paths, SubmitResultExportTo(e, r, p)
      PROVE  WindowTracksExports'
  <2>1. /\ pc[e] = "idle" /\ renamed[e] = 0 /\ e \notin pending
        /\ UNCHANGED <<shown, committed, renamed>>
        /\ pending' = pending \cup {e} /\ viewing' = viewing \cup {e} /\ r \in shown
        /\ \A other \in pending : ResultOf(other) # r
    BY <1>1 DEF SubmitResultExportTo, FilesInv, Progress, WindowTracksExports
  <2>2. /\ ResultOf(e)' = r
        /\ \A f \in Exports : f # e => target'[f] = target[f] /\ ResultOf(f)' = ResultOf(f) /\ pc'[f] = pc[f]
    BY <1>1 DEF SubmitResultExportTo, ResultOf, TypeOK
  <2>3. pc'[e] = "queued"
    BY <1>1 DEF SubmitResultExportTo, TypeOK
  <2>4. \A d \in committed' : \E f \in Exports :
           ResultOf(f)' = d[1] /\ PathOf(f)' = d[2] /\ renamed'[f] > 0
    BY <2>1, <2>2, CommittedKept
  <2> QED
    BY <2>1, <2>2, <2>3, <2>4 DEF WindowTracksExports, TypeOK
<1>2. ASSUME NEW e \in Exports, HandleExportTerminal(e) PROVE WindowTracksExports'
  <2>1. /\ pending' = pending \ {e} /\ viewing' = viewing \ {e} /\ pc' = [pc EXCEPT ![e] = "told"]
        /\ UNCHANGED <<shown, target, renamed>> /\ pc[e] = "done"
    BY <1>2 DEF HandleExportTerminal
  <2>2. \A f \in Exports : ResultOf(f)' = ResultOf(f) /\ PathOf(f)' = PathOf(f)
    BY <2>1 DEF ResultOf, PathOf
  <2>3. ASSUME NEW d \in committed'
        PROVE  d \in committed \/ (d = <<ResultOf(e), PathOf(e)>> /\ outcome[e] \in CommitStates)
    BY <1>2 DEF HandleExportTerminal, Kept
  <2>4. outcome[e] \in CommitStates => renamed[e] > 0
    BY <2>1 DEF WorkerAnswersTrue
  <2>5. \A d \in committed' : \E f \in Exports :
           ResultOf(f)' = d[1] /\ PathOf(f)' = d[2] /\ renamed'[f] > 0
    BY <2>1, <2>2, <2>3, <2>4 DEF WindowTracksExports
  <2> QED
    BY <2>1, <2>2, <2>5 DEF WindowTracksExports, TypeOK
<1>3. ASSUME NEW old \in Results, NEW r \in Results, QueryFinished(old, r)
      PROVE  WindowTracksExports'
  <2>1. /\ old \in shown /\ r \notin shown /\ shown' = (shown \ {old}) \cup {r}
        /\ viewing' = {e \in viewing : ResultOf(e) # old}
        /\ UNCHANGED <<pending, target, pc, renamed>> /\ committed' \subseteq committed
        /\ \A e \in Exports : ResultOf(e) = r => pc[e] = "idle"
    BY <1>3 DEF QueryFinished, Kept
  <2>2. \A e \in pending : ResultOf(e) # r
    BY <2>1 DEF WindowTracksExports, TypeOK
  <2>3. \A e \in Exports : ResultOf(e)' = ResultOf(e)
    BY <2>1 DEF ResultOf
  <2>4. \A d \in committed' : \E f \in Exports :
           ResultOf(f)' = d[1] /\ PathOf(f)' = d[2] /\ renamed'[f] > 0
    BY <2>1, CommittedKept
  <2> QED
    BY <2>1, <2>2, <2>3, <2>4 DEF WindowTracksExports, TypeOK
<1>4. ASSUME UNCHANGED <<shown, pending, viewing, committed, target>>,
             \A e \in Exports : /\ renamed[e] > 0 => renamed'[e] > 0
                                /\ pc'[e] \in {"idle", "told", "dead"} => pc'[e] = pc[e]
      PROVE  WindowTracksExports'
  <2>1. \A d \in committed' : \E f \in Exports :
           ResultOf(f)' = d[1] /\ PathOf(f)' = d[2] /\ renamed'[f] > 0
    BY <1>4, CommittedKept
  <2>2. \A e \in Exports : ResultOf(e)' = ResultOf(e)
    BY <1>4 DEF ResultOf
  <2> QED
    BY <1>4, <2>1, <2>2 DEF WindowTracksExports, TypeOK
<1>5. ASSUME NEW e \in Exports, CancelExport(e) \/ Step(e) PROVE WindowTracksExports'
  <2>1. CASE CancelExport(e)
    BY <1>4, <2>1 DEF CancelExport
  <2>2. ASSUME NEW error, Fail(e, error) PROVE WindowTracksExports'
    BY <1>4, <2>2 DEF Fail, TypeOK
  <2>3. ASSUME NEW to \in PreCommit, Continue(e, to), UNCHANGED renamed PROVE WindowTracksExports'
    BY <1>4, <2>3 DEF Continue, TypeOK, PreCommit
  <2>4. CASE Commit(e)
    BY <1>4, <2>4 DEF Commit, TypeOK
  <2>5. CASE SyncDirectory(e)
    BY <1>4, <2>5 DEF SyncDirectory, TypeOK
  <2> QED
    BY <1>5, <2>1, <2>2, <2>3, <2>4, <2>5
       DEF Step, StartExportWork, ValidateCommitPolicy, CreatePrivateTemp, WriteExport, SyncTemp,
           CheckCancelled, VerifyConfirmedDestination, CommitDestination, PreCommit
<1>6. ASSUME NEW p \in Paths, NEW kind \in {"absent", "file", "other"}, RivalChange(p, kind)
      PROVE  WindowTracksExports'
  BY <1>4, <1>6 DEF RivalChange
<1>7. CASE PowerLoss
  BY <1>7 DEF PowerLoss, WindowTracksExports
<1>8. CASE UNCHANGED vars
  BY <1>4, <1>8 DEF vars
<1> QED
  BY <1>1, <1>2, <1>3, <1>5, <1>6, <1>7, <1>8 DEF Next

-----------------------------------------------------------------------------
LEMMA ExportInvariant ==
    Spec => [](TypeOK /\ FilesInv /\ WorkerAnswersTrue /\ WindowTracksExports)
BY TypeInit, TypeStep, FilesInit, FilesStep, AnswersInit, AnswersStep, WindowInit, WindowStep, PTL
   DEF Spec

\* An export replaces nothing it was not told to replace, whatever other programs
\* and other exports do to its destination meanwhile (verify_confirmed_destination,
\* rename_no_replace).
THEOREM NoRivalClobbered == Spec => []RivalsKept
<1>1. FilesInv => RivalsKept
  BY DEF FilesInv
<1> QED
  BY <1>1, ExportInvariant, PTL

\* No destination ever holds half an export, and one that was answered Exported is
\* not undone by a power loss (sync_all before the rename, sync_directory after it).
THEOREM ExportedStays == Spec => []ExportedIsDurable
<1>1. FilesInv => ExportedIsDurable
  BY DEF FilesInv
<1> QED
  BY <1>1, ExportInvariant, PTL

\* What the worker answers, and what the window says of it afterwards, is what
\* happened to the file (export_result_to_file, handle_export_terminal,
\* prune_result_export_state).
THEOREM ExportAnswersAreTrue == Spec => []ExportAnswersTrue
<1>1. TypeOK /\ WorkerAnswersTrue /\ WindowTracksExports => ExportAnswersTrue
  BY DEF ExportAnswersTrue
<1> QED
  BY <1>1, ExportInvariant, PTL
=============================================================================
