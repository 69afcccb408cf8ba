------------------------- MODULE ConfigWriterProofs -------------------------
(***************************************************************************)
(* Proofs about ConfigWriter for any number of threads, profiles, contents *)
(* and calls, failures, edits and crashes; at the end, that it implements  *)
(* AtomicConfig as long as no other program writes between recheck and     *)
(* rename.                                                                 *)
(***************************************************************************)
EXTENDS ConfigWriterRefinement, TLAPS

-----------------------------------------------------------------------------
(* Facts about the contents of a configuration file                        *)

Profiles == ProfilesV1 \cup ProfilesV2 \cup {NoProfile}

\* The constant contents are contents.
LEMMA ConstantContents == Missing \in Contents /\ Torn \in Contents
BY DEF Missing, Torn, Contents, Versions, NoProfiles

\* What normalize_v1 produces are profiles again, so a loaded file's profiles
\* are well formed whatever its version.
LEMMA LoadedProfiles ==
    ASSUME NEW content \in Contents
    PROVE  ProfilesOf(content) \in [Ids -> Profiles]
<1> DEFINE profiles == content.profiles
<1>1. profiles \in [Ids -> Profiles]
  BY DEF Contents, Profiles
<1>2. ASSUME NEW i \in Ids, profiles[i] # NoProfile
      PROVE  [body |-> profiles[i].body, mode |-> NormalizeMode(profiles[i].mode)] \in Profiles
  BY <1>1, <1>2 DEF Profiles, ProfilesV1, ProfilesV2, NormalizeMode
<1>3. normalize_v1(profiles) \in [Ids -> Profiles]
  BY <1>1, <1>2 DEF normalize_v1, Profiles
<1> QED
  BY <1>1, <1>3 DEF ProfilesOf

\* The bytes a mutation encodes are a version 2 configuration, never a torn one.
LEMMA EncodedContent ==
    ASSUME NEW m \in Mutations, NEW content \in Contents
    PROVE  /\ Encoded(m, content) \in Contents
           /\ Encoded(m, content).version = "V2"
<1>1. apply_mutation(m, ProfilesOf(content)) \in [Ids -> Profiles]
  BY LoadedProfiles DEF apply_mutation, Profiles, Mutations
<1> QED
  BY <1>1 DEF Encoded, Contents, Versions, Profiles

-----------------------------------------------------------------------------
(* Type correctness                                                        *)

\* A thread that is in a call was given a job.
JobGiven == \A w \in Writers : pc[w] # "idle" => job[w] \in Jobs

TypeInv == TypeOK /\ JobGiven

LEMMA TypeInit == Init => TypeInv
BY ConstantContents, ContentsAssumption
   DEF Init, TypeInv, TypeOK, JobGiven, Steps, TempStages, Outcomes, Entries, NoBackup

\* A step of one call, or its beginning, keeps the types.
LEMMA TypeCall ==
    ASSUME TypeInv, NEW w \in Writers, Invoke(w) \/ Step(w)
    PROVE  TypeInv'
<1> USE DEF TypeInv, TypeOK, JobGiven, bounds, history, fileVars, Goto, Continue, Fail, Return
<1>0. /\ {"idle", "lock", "done", "load", "apply", "directorySync", "observe"} \subseteq Steps
      /\ BackupSteps \subseteq Steps /\ MainSteps \subseteq Steps
      /\ Errors \subseteq Outcomes /\ CommitStates \subseteq Outcomes /\ "none" \in Outcomes
  BY DEF Steps, LockedSteps, CommittedSteps, BackupSteps, MainSteps, Outcomes, Errors, CommitStates
<1>1. CASE Invoke(w)
  BY <1>0, <1>1 DEF Invoke
<1>2. CASE Acquire(w)
  BY <1>0, <1>2 DEF Acquire
<1>3. CASE Load(w)
  BY <1>0, <1>3 DEF Load, Errors, BackupSteps, TempStages, Entries
<1>4. CASE BackupRead(w)
  BY <1>0, <1>4 DEF BackupRead, Errors, BackupSteps, TempStages
<1>5. CASE BackupTempCreate(w) \/ BackupWrite(w) \/ BackupFileSync(w)
  BY <1>0, <1>5 DEF BackupTempCreate, BackupWrite, BackupFileSync, TempStep, Errors, BackupSteps, TempStages
<1>6. CASE BackupRename(w)
  BY <1>0, <1>6, ConstantContents DEF BackupRename, Landed, Errors, BackupSteps, TempStages
<1>7. CASE BackupDirectorySync(w)
  BY <1>0, <1>7 DEF BackupDirectorySync, SyncDirectory, Errors, TempStages
<1>8. CASE Apply(w)
  <2>1. ApplyError(job[w].mutation, ProfilesOf(loaded[w])) \in Errors \cup {"ok"}
    BY DEF ApplyError, Errors
  <2> QED
    BY <1>0, <1>8, <2>1 DEF Apply, MainSteps, TempStages
<1>9. CASE MainTempCreate(w) \/ MainWrite(w) \/ MainFileSync(w)
  BY <1>0, <1>9 DEF MainTempCreate, MainWrite, MainFileSync, TempStep, Errors, MainSteps, TempStages
<1>10. CASE Recheck(w)
  BY <1>0, <1>10 DEF Recheck, Errors, MainSteps, TempStages
<1>11. CASE Rename(w)
  <2> DEFINE encoded == Encoded(job[w].mutation, loaded[w])
  <2>1. job[w] \in Jobs /\ loaded[w] \in Contents
    BY <1>11 DEF Rename
  <2>2. job[w].mutation \in Mutations
    BY <2>1, MutationsAssumption DEF Jobs
  <2>3. encoded \in Contents /\ Landed(w, encoded) \subseteq Contents
    BY <2>1, <2>2, EncodedContent, ConstantContents DEF Landed
  <2>4. CASE Fail(w, "NotCommitted")
    BY <1>0, <2>1, <2>4 DEF Errors, TempStages
  <2>5. CASE ~Fail(w, "NotCommitted")
    <3> HIDE DEF encoded
    <3>1. main' \in Entries /\ seq' \in Nat /\ mainSurvivors' \subseteq Entries
      BY <1>11, <2>3, <2>5 DEF Rename, Replace, Entries, encoded
    <3>2. migrated' \subseteq Contents
      BY <1>11, <2>5 DEF Rename, Entries
    <3>3. renamed' \in [Writers -> Nat] /\ temp' \in [Writers -> TempStages]
      BY <1>11, <2>5 DEF Rename, TempStages
    <3>4. pc' \in [Writers -> Steps] /\ pc'[w] = "directorySync"
          /\ \A v \in Writers : v # w => pc'[v] = pc[v]
      BY <1>0, <1>11, <2>5 DEF Rename
    <3> QED
      BY <1>11, <2>1, <2>5, <3>1, <3>2, <3>3, <3>4 DEF Rename
  <2> QED
    BY <2>4, <2>5
<1>12. CASE MainDirectorySync(w)
  BY <1>0, <1>12 DEF MainDirectorySync, SyncDirectory, CommitStates
<1>13. CASE Observe(w)
  BY <1>0, <1>13 DEF Observe, CommitStates, TempStages
<1> QED
  BY <1>1, <1>2, <1>3, <1>4, <1>5, <1>6, <1>7, <1>8, <1>9, <1>10, <1>11, <1>12, <1>13 DEF Step

\* So does the environment.
LEMMA TypeEnvironment ==
    ASSUME TypeInv, EditMain \/ EditBackup \/ ProcessKill \/ PowerLoss
    PROVE  TypeInv'
<1> USE DEF TypeInv, TypeOK, JobGiven, bounds, history, fileVars, callVars
<1>1. CASE EditMain
  BY <1>1, ContentsAssumption DEF EditMain, Replace, Entries
<1>2. CASE EditBackup
  BY <1>2, ContentsAssumption DEF EditBackup
<1>3. CASE ProcessKill
  BY <1>3, ConstantContents DEF ProcessKill, Restart, Steps, TempStages, Outcomes
<1>4. CASE PowerLoss
  BY <1>4, ConstantContents DEF PowerLoss, Restart, Steps, TempStages, Outcomes
<1> QED
  BY <1>1, <1>2, <1>3, <1>4

LEMMA TypeStep == TypeInv /\ [Next]_vars => TypeInv'
<1> SUFFICES ASSUME TypeInv, [Next]_vars PROVE TypeInv'
  OBVIOUS
<1>1. CASE UNCHANGED vars
  BY <1>1 DEF vars, callVars, fileVars, history, bounds, TypeInv, TypeOK, JobGiven
<1> QED
  BY <1>1, TypeCall, TypeEnvironment DEF Next

\* Every variable of the writer, the file system and the history keeps its type
\* in every behaviour, whatever the constants.
THEOREM TypeCorrect == Spec => []TypeOK
<1>1. Spec => []TypeInv
  BY TypeInit, TypeStep, PTL DEF Spec
<1> QED
  BY <1>1, PTL DEF TypeInv

-----------------------------------------------------------------------------
(* Mutual exclusion                                                        *)

\* PROCESS_WRITER serialises the steps of a call.
LEMMA SerializedCall ==
    ASSUME TypeInv, Serialized, NEW w \in Writers, Invoke(w) \/ Step(w)
    PROVE  Serialized'
<1> USE WritersAssumption
    DEF TypeInv, TypeOK, Serialized, Goto, Continue, Fail, Return,
        LockedSteps, BackupSteps, MainSteps, CommittedSteps
<1>1. CASE Invoke(w)
  BY <1>1 DEF Invoke
<1>2. CASE Acquire(w)
  BY <1>2 DEF Acquire
<1>3. CASE Load(w) \/ BackupRead(w)
  BY <1>3 DEF Load, BackupRead
<1>4. CASE \/ BackupTempCreate(w) \/ BackupWrite(w) \/ BackupFileSync(w)
           \/ MainTempCreate(w) \/ MainWrite(w) \/ MainFileSync(w)
  BY <1>4 DEF BackupTempCreate, BackupWrite, BackupFileSync,
              MainTempCreate, MainWrite, MainFileSync, TempStep
<1>5. CASE BackupRename(w) \/ BackupDirectorySync(w)
  BY <1>5 DEF BackupRename, BackupDirectorySync
<1>6. CASE Apply(w) \/ Recheck(w)
  BY <1>6 DEF Apply, Recheck
<1>7. CASE Rename(w)
  BY <1>7 DEF Rename
<1>8. CASE MainDirectorySync(w) \/ Observe(w)
  BY <1>8 DEF MainDirectorySync, Observe
<1> QED
  BY <1>1, <1>2, <1>3, <1>4, <1>5, <1>6, <1>7, <1>8 DEF Step

LEMMA SerializedStep == TypeInv /\ Serialized /\ [Next]_vars => Serialized'
<1> SUFFICES ASSUME TypeInv, Serialized, [Next]_vars PROVE Serialized'
  OBVIOUS
<1>1. CASE UNCHANGED vars \/ EditMain \/ EditBackup
  BY <1>1 DEF vars, callVars, Serialized, EditMain, EditBackup
<1>2. CASE ProcessKill \/ PowerLoss
  BY <1>2, WritersAssumption
     DEF ProcessKill, PowerLoss, Restart, Serialized, LockedSteps, BackupSteps, MainSteps, CommittedSteps
<1> QED
  BY <1>1, <1>2, SerializedCall DEF Next

\* The thread that holds PROCESS_WRITER is the only one inside mutate_path, and
\* the only one with a temporary file, for any number of threads.
THEOREM MutualExclusion == Spec => []Serialized
<1>1. Init => Serialized
  BY WritersAssumption
     DEF Init, Serialized, LockedSteps, BackupSteps, MainSteps, CommittedSteps
<1> QED
  BY <1>1, TypeInit, TypeStep, SerializedStep, PTL DEF Spec

-----------------------------------------------------------------------------
(* Crash safety                                                            *)

\* What is renamed onto the main file has been fsynced.
SyncedBeforeRename ==
    \A w \in Writers : pc[w] \in {"recheck", "rename"} => temp[w] = "synced"

\* What a rename has done and the directory fsync made of it: the entry of a
\* call past its commit point is not replaced by an older one, and once the
\* fsync succeeded no older one survives.
CommitsKept ==
    /\ main \in mainSurvivors
    /\ \A entry \in mainSurvivors : answered <= entry.seq /\ entry.seq <= seq
    /\ \A w \in Writers : pc[w] \in CommittedSteps => renamed[w] <= main.seq
    /\ \A w \in Writers : pc[w] = "observe" /\ outcome[w] = "Committed" =>
            \A entry \in mainSurvivors : renamed[w] <= entry.seq

CrashInv == SyncedBeforeRename /\ NeverTorn /\ CommitsKept

LEMMA CrashInit == Init => CrashInv
BY ContentsAssumption
   DEF Init, CrashInv, SyncedBeforeRename, NeverTorn, CommitsKept, CommittedSteps

\* The steps of a call that leave the main file and the history alone and do not
\* reach the steps CrashInv speaks of.
LEMMA CrashFrame ==
    ASSUME TypeInv, CrashInv, NEW w \in Writers,
           UNCHANGED <<main, mainSurvivors, seq, answered>>,
           NEW next, pc' = [pc EXCEPT ![w] = next],
           next \notin CommittedSteps \cup {"recheck", "rename"},
           \A v \in Writers \ {w} : /\ temp'[v] = temp[v] /\ outcome'[v] = outcome[v]
                                    /\ renamed'[v] = renamed[v]
    PROVE  CrashInv'
BY DEF TypeInv, TypeOK, CrashInv, SyncedBeforeRename, NeverTorn, CommitsKept, CommittedSteps

LEMMA CrashCall ==
    ASSUME TypeInv, CrashInv, NEW w \in Writers, Invoke(w) \/ Step(w)
    PROVE  CrashInv'
<1> USE DEF TypeInv, TypeOK, Goto, Continue, fileVars, history, bounds
<1>0. ASSUME NEW error, Fail(w, error) PROVE CrashInv'
  BY <1>0, CrashFrame DEF Fail, Return, CommittedSteps
<1>1. CASE Invoke(w)
  BY <1>1, CrashFrame DEF Invoke, CommittedSteps
<1>2. CASE Acquire(w)
  BY <1>2, CrashFrame DEF Acquire, CommittedSteps
<1>3. CASE Load(w) \/ BackupRead(w) \/ Apply(w)
  BY <1>0, <1>3, CrashFrame DEF Load, BackupRead, Apply, CommittedSteps
<1>4. CASE \/ BackupTempCreate(w) \/ BackupWrite(w) \/ BackupFileSync(w)
           \/ MainTempCreate(w) \/ MainWrite(w)
  BY <1>0, <1>4, CrashFrame
     DEF BackupTempCreate, BackupWrite, BackupFileSync, MainTempCreate, MainWrite,
         TempStep, CommittedSteps
<1>5. CASE BackupRename(w)
  BY <1>0, <1>5, CrashFrame DEF BackupRename, CommittedSteps
<1>6. CASE BackupDirectorySync(w)
  <2>1. CASE SyncDirectory /\ ~Fail(w, "NotCommitted")
    BY <1>6, <2>1
       DEF BackupDirectorySync, SyncDirectory, CrashInv, SyncedBeforeRename, NeverTorn,
           CommitsKept, CommittedSteps
  <2> QED
    BY <1>0, <1>6, <2>1 DEF BackupDirectorySync
<1>7. CASE MainFileSync(w) \/ Recheck(w)
  <2>1. CASE \E error : Fail(w, error)
    BY <1>0, <2>1
  <2>2. CASE /\ ~\E error : Fail(w, error)
    BY <1>7, <2>2
       DEF MainFileSync, TempStep, Recheck, CrashInv, SyncedBeforeRename, NeverTorn,
           CommitsKept, CommittedSteps
  <2> QED
    BY <2>1, <2>2
<1>8. CASE Rename(w)
  <2> DEFINE encoded == Encoded(job[w].mutation, loaded[w])
             renamedEntry == [content |-> encoded, seq |-> seq + 1]
  <2>1. CASE Fail(w, "NotCommitted")
    BY <1>0, <2>1
  <2>2. CASE ~Fail(w, "NotCommitted")
    <3>1. encoded # Torn
      <4>1. job[w].mutation \in Mutations /\ loaded[w] \in Contents
        BY <1>8, MutationsAssumption DEF Rename, JobGiven, Jobs
      <4> QED
        BY <4>1, EncodedContent DEF Torn
    <3>2. temp[w] = "synced"
      BY <1>8 DEF Rename, CrashInv, SyncedBeforeRename
    <3> HIDE DEF encoded
    <3>3. /\ main' = renamedEntry
          /\ mainSurvivors' = mainSurvivors \cup {renamedEntry}
      BY <1>8, <2>2, <3>2 DEF Rename, Replace, Landed, encoded
    <3>4. /\ seq' = seq + 1 /\ answered' = answered
          /\ pc' = [pc EXCEPT ![w] = "directorySync"]
          /\ renamed' = [renamed EXCEPT ![w] = seq + 1]
          /\ temp' = [temp EXCEPT ![w] = "none"]
          /\ outcome' = outcome
      BY <1>8, <2>2 DEF Rename, Replace
    <3>5. SyncedBeforeRename'
      BY <3>4 DEF CrashInv, SyncedBeforeRename
    <3>6. NeverTorn'
      BY <3>1, <3>3 DEF CrashInv, NeverTorn
    <3>7. CommitsKept'
      BY <3>3, <3>4 DEF CrashInv, CommitsKept, CommittedSteps, Entries
    <3> QED
      BY <3>5, <3>6, <3>7 DEF CrashInv
  <2> QED
    BY <2>1, <2>2
<1>9. CASE MainDirectorySync(w)
  BY <1>9
     DEF MainDirectorySync, SyncDirectory, CrashInv, SyncedBeforeRename, NeverTorn,
         CommitsKept, CommittedSteps
<1>10. CASE Observe(w)
  <2>1. UNCHANGED <<main, mainSurvivors, seq, renamed>> /\ pc' = [pc EXCEPT ![w] = "done"]
    BY <1>10 DEF Observe, Return
  <2>2. \A v \in Writers : v # w => temp'[v] = temp[v] /\ outcome'[v] = outcome[v]
    BY <1>10 DEF Observe, Return
  <2>3. \A entry \in mainSurvivors : answered' <= entry.seq
    BY <1>10 DEF Observe, CrashInv, CommitsKept
  <2> QED
    BY <2>1, <2>2, <2>3 DEF CrashInv, SyncedBeforeRename, NeverTorn, CommitsKept, CommittedSteps
<1> QED
  BY <1>1, <1>2, <1>3, <1>4, <1>5, <1>6, <1>7, <1>8, <1>9, <1>10 DEF Step

LEMMA CrashStep == TypeInv /\ CrashInv /\ [Next]_vars => CrashInv'
<1> SUFFICES ASSUME TypeInv, CrashInv, [Next]_vars PROVE CrashInv'
  OBVIOUS
<1> USE DEF CrashInv, SyncedBeforeRename, NeverTorn, CommitsKept, CommittedSteps
<1>1. CASE UNCHANGED vars \/ EditBackup
  BY <1>1 DEF vars, callVars, fileVars, history, EditBackup
<1>2. CASE EditMain
  BY <1>2, ContentsAssumption DEF EditMain, Replace, callVars, TypeInv, TypeOK, Entries
<1>3. CASE ProcessKill \/ PowerLoss
  BY <1>3 DEF ProcessKill, PowerLoss, Restart, fileVars, history
<1> QED
  BY <1>1, <1>2, <1>3, CrashCall DEF Next

\* Whatever is killed, loses power or is edited, the main file is never found
\* half-written: only fsynced temporaries are renamed onto it.
THEOREM MainFileNeverTorn == Spec => []NeverTorn
<1>1. Spec => []CrashInv
  BY TypeInit, TypeStep, CrashInit, CrashStep, PTL DEF Spec
<1> QED
  BY <1>1, PTL DEF CrashInv

\* A mutation answered Committed survives every later power loss.
THEOREM CommittedStaysCommitted == Spec => []CommittedIsDurable
<1>1. Spec => []CrashInv
  BY TypeInit, TypeStep, CrashInit, CrashStep, PTL DEF Spec
<1>2. TypeInv /\ CrashInv => CommittedIsDurable
  BY DEF TypeInv, TypeOK, Entries, CrashInv, CommitsKept, CommittedIsDurable
<1> QED
  BY <1>1, <1>2, TypeInit, TypeStep, PTL DEF Spec

-----------------------------------------------------------------------------
(* The answer of a call                                                    *)

\* Between its beginning and its commit point a call has renamed nothing, and
\* after it the answer is one of the two commit states.
CommitPoint ==
    \A w \in Writers :
        /\ pc[w] \in {"lock"} \cup (LockedSteps \ CommittedSteps) => renamed[w] = 0
        /\ pc[w] \in CommittedSteps => renamed[w] > 0
        /\ pc[w] = "observe" => outcome[w] \in CommitStates

AnswerInv == CommitPoint /\ OutcomeMatchesCommit

LEMMA AnswerCall ==
    ASSUME TypeInv, AnswerInv, NEW w \in Writers, Invoke(w) \/ Step(w)
    PROVE  AnswerInv'
<1> USE DEF TypeInv, TypeOK, AnswerInv, CommitPoint, OutcomeMatchesCommit, Goto, Continue,
            LockedSteps, BackupSteps, MainSteps, CommittedSteps, Errors, CommitStates
<1>0. ASSUME NEW error \in Errors, Fail(w, error), pc[w] \in LockedSteps \ CommittedSteps
      PROVE  AnswerInv'
  BY <1>0 DEF Fail, Return
<1>1. CASE Invoke(w) \/ Acquire(w)
  BY <1>1 DEF Invoke, Acquire
<1>2. CASE Load(w) \/ BackupRead(w)
  BY <1>0, <1>2 DEF Load, BackupRead
<1>3. CASE \/ BackupTempCreate(w) \/ BackupWrite(w) \/ BackupFileSync(w)
           \/ MainTempCreate(w) \/ MainWrite(w) \/ MainFileSync(w)
  BY <1>0, <1>3 DEF BackupTempCreate, BackupWrite, BackupFileSync,
                    MainTempCreate, MainWrite, MainFileSync, TempStep
<1>4. CASE BackupRename(w) \/ BackupDirectorySync(w)
  BY <1>0, <1>4 DEF BackupRename, BackupDirectorySync
<1>5. CASE Apply(w)
  <2>1. ApplyError(job[w].mutation, ProfilesOf(loaded[w])) \in Errors \cup {"ok"}
    BY DEF ApplyError
  <2> QED
    BY <1>0, <1>5, <2>1 DEF Apply
<1>6. CASE Recheck(w)
  BY <1>0, <1>6 DEF Recheck
<1>7. CASE Rename(w)
  BY <1>0, <1>7 DEF Rename
<1>8. CASE MainDirectorySync(w)
  BY <1>8 DEF MainDirectorySync
<1>9. CASE Observe(w)
  BY <1>9 DEF Observe, Return
<1> QED
  BY <1>1, <1>2, <1>3, <1>4, <1>5, <1>6, <1>7, <1>8, <1>9 DEF Step

LEMMA AnswerStep == TypeInv /\ AnswerInv /\ [Next]_vars => AnswerInv'
<1> SUFFICES ASSUME TypeInv, AnswerInv, [Next]_vars PROVE AnswerInv'
  OBVIOUS
<1> USE DEF AnswerInv, CommitPoint, OutcomeMatchesCommit
<1>1. CASE UNCHANGED vars \/ EditMain \/ EditBackup
  BY <1>1 DEF vars, callVars, EditMain, EditBackup
<1>2. CASE ProcessKill \/ PowerLoss
  BY <1>2 DEF ProcessKill, PowerLoss, Restart, LockedSteps, BackupSteps, MainSteps, CommittedSteps
<1> QED
  BY <1>1, <1>2, AnswerCall DEF Next

\* An error answer means that nothing was renamed, a commit state that it was.
THEOREM AnswersAreTrue == Spec => []OutcomeMatchesCommit
<1>1. Init => AnswerInv
  BY DEF Init, AnswerInv, CommitPoint, OutcomeMatchesCommit,
         LockedSteps, BackupSteps, MainSteps, CommittedSteps
<1>2. AnswerInv => OutcomeMatchesCommit
  BY DEF AnswerInv
<1> QED
  BY <1>1, <1>2, TypeInit, TypeStep, AnswerStep, PTL DEF Spec

-----------------------------------------------------------------------------
(* The migration backup                                                    *)

\* How far the call that migrates has got with the backup, and what every
\* finished migration left.
BackupProgress ==
    /\ \A w \in Writers :
        /\ pc[w] \in BackupSteps => loaded[w].version = "V1"
        /\ pc[w] = "backupDirectorySync" => backup = loaded[w]
        /\ pc[w] \in {"apply"} \cup MainSteps /\ loaded[w].version = "V1" =>
               backup = loaded[w] /\ backupSurvivors = {loaded[w]}
        /\ pc[w] = "rename" => main.content = loaded[w]
    /\ \A original \in migrated :
        original.version = "V1" /\ backup = original /\ backupSurvivors = {original}

\* Steps that leave the files alone and enter no step BackupProgress speaks of.
LEMMA BackupFrame ==
    ASSUME TypeInv, BackupProgress, NEW w \in Writers,
           UNCHANGED <<loaded, main, backup, backupSurvivors, migrated>>,
           NEW next, pc' = [pc EXCEPT ![w] = next],
           \/ next \in {"idle", "lock", "load", "done"}
           \/ pc[w] \in BackupSteps /\ next \in BackupSteps \ {"backupDirectorySync"}
           \/ pc[w] \in {"apply"} \cup MainSteps /\ next \in MainSteps \ {"rename"}
    PROVE  BackupProgress'
BY DEF TypeInv, TypeOK, BackupProgress, BackupSteps, MainSteps

LEMMA BackupCall ==
    ASSUME TypeInv, Serialized, BackupProgress, NEW w \in Writers, Invoke(w) \/ Step(w)
    PROVE  BackupProgress'
<1> USE DEF TypeInv, TypeOK, Goto, Continue, fileVars, history, bounds,
            BackupSteps, MainSteps
<1>0. ASSUME NEW error, Fail(w, error) PROVE BackupProgress'
  BY <1>0, BackupFrame DEF Fail, Return
<1>1. CASE Invoke(w) \/ Acquire(w)
  BY <1>1, BackupFrame DEF Invoke, Acquire
<1>2. CASE Load(w)
  <2>1. CASE \E error : Fail(w, error)
    BY <1>0, <2>1
  <2>2. CASE ~\E error : Fail(w, error)
    BY <1>2, <2>2 DEF Load, MigrationRequired, BackupProgress
  <2> QED
    BY <2>1, <2>2
<1>3. CASE BackupRead(w)
  <2>1. CASE \E error : Fail(w, error)
    BY <1>0, <2>1
  <2>2. CASE ~\E error : Fail(w, error)
    BY <1>3, <2>2 DEF BackupRead, BackupProgress, NoBackup, Missing
  <2> QED
    BY <2>1, <2>2
<1>4. CASE \/ BackupTempCreate(w) \/ BackupWrite(w) \/ BackupFileSync(w)
           \/ MainTempCreate(w) \/ MainWrite(w) \/ MainFileSync(w)
  BY <1>0, <1>4, BackupFrame
     DEF BackupTempCreate, BackupWrite, BackupFileSync, MainTempCreate, MainWrite,
         MainFileSync, TempStep
<1>5. CASE BackupRename(w)
  <2>1. CASE \E error : Fail(w, error)
    BY <1>0, <2>1
  <2>2. CASE ~\E error : Fail(w, error)
    BY <1>5, <2>2 DEF BackupRename, BackupProgress, NoBackup, Missing
  <2> QED
    BY <2>1, <2>2
<1>6. CASE BackupDirectorySync(w)
  <2>1. CASE \E error : Fail(w, error)
    BY <1>0, <2>1
  <2>2. CASE ~\E error : Fail(w, error)
    BY <1>6, <2>2 DEF BackupDirectorySync, SyncDirectory, BackupProgress
  <2> QED
    BY <2>1, <2>2
<1>7. CASE Apply(w)
  BY <1>0, <1>7, BackupFrame DEF Apply
<1>8. CASE Recheck(w)
  <2>1. CASE \E error : Fail(w, error)
    BY <1>0, <2>1
  <2>2. CASE ~\E error : Fail(w, error)
    BY <1>8, <2>2 DEF Recheck, BackupProgress
  <2> QED
    BY <2>1, <2>2
<1>9. CASE Rename(w)
  <2>1. CASE Fail(w, "NotCommitted")
    BY <1>0, <2>1
  <2>2. CASE ~Fail(w, "NotCommitted")
    <3>1. \A v \in Writers : v # w => pc[v] # "rename"
      BY <1>9 DEF Rename, Serialized, LockedSteps
    <3>2. /\ pc[w] = "rename" /\ pc' = [pc EXCEPT ![w] = "directorySync"]
          /\ UNCHANGED <<loaded, backup, backupSurvivors>>
          /\ migrated' = IF MigrationRequired(main.content)
                         THEN migrated \cup {main.content} ELSE migrated
      BY <1>9, <2>2 DEF Rename
    <3> QED
      BY <3>1, <3>2 DEF BackupProgress, MigrationRequired
  <2> QED
    BY <2>1, <2>2
<1>10. CASE MainDirectorySync(w)
  BY <1>10 DEF MainDirectorySync, SyncDirectory, BackupProgress
<1>11. CASE Observe(w)
  BY <1>11, BackupFrame DEF Observe, Return
<1> QED
  BY <1>1, <1>2, <1>3, <1>4, <1>5, <1>6, <1>7, <1>8, <1>9, <1>10, <1>11 DEF Step

LEMMA BackupStep ==
    ASSUME ~EditInRenameWindow
    PROVE  TypeInv /\ Serialized /\ BackupProgress /\ [Next]_vars => BackupProgress'
<1> SUFFICES ASSUME TypeInv, Serialized, BackupProgress, [Next]_vars PROVE BackupProgress'
  OBVIOUS
<1> USE DEF BackupProgress, BackupSteps, MainSteps
<1>1. CASE UNCHANGED vars
  BY <1>1 DEF vars, callVars, fileVars, history
<1>2. CASE EditMain
  BY <1>2 DEF EditMain, callVars
<1>3. CASE EditBackup
  BY <1>3 DEF EditBackup, callVars, history, NoBackup, Missing
<1>4. CASE ProcessKill \/ PowerLoss
  BY <1>4 DEF ProcessKill, PowerLoss, Restart, fileVars, history
<1> QED
  BY <1>1, <1>2, <1>3, <1>4, BackupCall DEF Next

\* When no other program writes between recheck and rename (the doc comment of
\* ConfigWriter excludes it), the exact bytes of every V1 file that a rename
\* replaced are at the backup path, also after any later crash.
THEOREM MigrationKeepsOriginal ==
    ASSUME ~EditInRenameWindow
    PROVE  Spec => []BackupHoldsOriginal
<1>1. Init => Serialized /\ BackupProgress
  BY WritersAssumption
     DEF Init, Serialized, BackupProgress, LockedSteps, BackupSteps, MainSteps, CommittedSteps
<1>2. BackupProgress => BackupHoldsOriginal
  BY DEF BackupProgress, BackupHoldsOriginal
<1> QED
  BY <1>1, <1>2, TypeInit, TypeStep, SerializedStep, BackupStep, PTL DEF Spec

\* No step of a call and no edit replaces a file at the backup path: only a
\* power loss, before the directory fsync, takes one away.
THEOREM BackupNeverReplaced == Spec => BackupNeverOverwritten
<1> DEFINE Kept == backup # NoBackup /\ backup' # backup => crashes' # crashes
<1>1. ASSUME NEW w \in Writers, Invoke(w) \/ Step(w) PROVE Kept
  BY <1>1
     DEF Step, Invoke, Acquire, Load, BackupRead, BackupTempCreate, BackupWrite, BackupFileSync,
         BackupRename, BackupDirectorySync, SyncDirectory, Apply, MainTempCreate, MainWrite,
         MainFileSync, TempStep, Recheck, Rename, MainDirectorySync, Observe, Fail, fileVars
<1>2. TypeInv /\ [Next]_vars => [Kept]_vars
  <2> SUFFICES ASSUME TypeInv, Next PROVE Kept
    OBVIOUS
  <2>1. CASE EditMain \/ EditBackup \/ ProcessKill
    BY <2>1 DEF EditMain, EditBackup, ProcessKill, fileVars
  <2>2. CASE PowerLoss
    BY <2>2 DEF PowerLoss, Restart, TypeInv, TypeOK
  <2> QED
    BY <1>1, <2>1, <2>2 DEF Next
<1> QED
  BY <1>2, TypeInit, TypeStep, PTL DEF Spec, BackupNeverOverwritten


-----------------------------------------------------------------------------
(* The checks a call has passed still hold of what it loaded               *)

ChecksPassed ==
    \A w \in Writers :
        /\ pc[w] \in {"apply"} \cup BackupSteps \cup MainSteps =>
            /\ Loadable(loaded[w])
            /\ ValidMutation(job[w].mutation)
            /\ MigrationRequired(loaded[w]) => job[w].consent = "Confirmed"
        /\ pc[w] \in MainSteps => ApplyError(job[w].mutation, ProfilesOf(loaded[w])) = "ok"

LEMMA ChecksCall ==
    ASSUME TypeInv, ChecksPassed, NEW w \in Writers, Invoke(w) \/ Step(w)
    PROVE  ChecksPassed'
<1> USE DEF TypeInv, TypeOK, ChecksPassed, BackupSteps, MainSteps, Goto, Continue, Fail, Return
<1>1. CASE Invoke(w) \/ Acquire(w)
  BY <1>1 DEF Invoke, Acquire
<1>2. CASE Load(w)
  BY <1>2 DEF Load
<1>3. CASE \/ BackupTempCreate(w) \/ BackupWrite(w) \/ BackupFileSync(w)
           \/ MainTempCreate(w) \/ MainWrite(w) \/ MainFileSync(w)
  BY <1>3 DEF BackupTempCreate, BackupWrite, BackupFileSync,
              MainTempCreate, MainWrite, MainFileSync, TempStep
<1>4. CASE BackupRead(w) \/ BackupRename(w) \/ BackupDirectorySync(w)
  BY <1>4 DEF BackupRead, BackupRename, BackupDirectorySync
<1>5. CASE Apply(w)
  BY <1>5 DEF Apply
<1>6. CASE Recheck(w) \/ Rename(w)
  BY <1>6 DEF Recheck, Rename
<1>7. CASE MainDirectorySync(w) \/ Observe(w)
  BY <1>7 DEF MainDirectorySync, Observe
<1> QED
  BY <1>1, <1>2, <1>3, <1>4, <1>5, <1>6, <1>7 DEF Step

LEMMA ChecksStep == TypeInv /\ ChecksPassed /\ [Next]_vars => ChecksPassed'
<1> SUFFICES ASSUME TypeInv, ChecksPassed, [Next]_vars PROVE ChecksPassed'
  OBVIOUS
<1>1. CASE UNCHANGED vars \/ EditMain \/ EditBackup
  BY <1>1 DEF vars, callVars, EditMain, EditBackup, ChecksPassed
<1>2. CASE ProcessKill \/ PowerLoss
  BY <1>2 DEF ProcessKill, PowerLoss, Restart, ChecksPassed, BackupSteps, MainSteps
<1> QED
  BY <1>1, <1>2, ChecksCall DEF Next

-----------------------------------------------------------------------------
(* The abstract request of a thread                                        *)

Pending(w) == [phase |-> "pending", job |-> job[w]]

LEMMA RequestCases ==
    ASSUME NEW w \in Writers
    PROVE  /\ pc[w] = "idle" => AbstractRequest(w) = [phase |-> "idle"]
           /\ pc[w] = "done" =>
                AbstractRequest(w) = [phase |-> "answered", result |-> AbstractResult(w)]
           /\ pc[w] \in CommittedSteps =>
                AbstractRequest(w) = [phase |-> "applied", seq |-> renamed[w]]
           /\ pc[w] \in {"lock"} \cup (LockedSteps \ CommittedSteps) =>
                AbstractRequest(w) = Pending(w)
BY DEF AbstractRequest, Pending, LockedSteps, CommittedSteps, BackupSteps, MainSteps

LEMMA RequestCasesNext ==
    ASSUME NEW w \in Writers
    PROVE  /\ pc'[w] = "idle" => AbstractRequest(w)' = [phase |-> "idle"]
           /\ pc'[w] = "done" =>
                AbstractRequest(w)' = [phase |-> "answered", result |-> AbstractResult(w)']
           /\ pc'[w] \in CommittedSteps =>
                AbstractRequest(w)' = [phase |-> "applied", seq |-> renamed'[w]]
           /\ pc'[w] \in {"lock"} \cup (LockedSteps \ CommittedSteps) =>
                AbstractRequest(w)' = Pending(w)'
BY DEF AbstractRequest, Pending, LockedSteps, CommittedSteps, BackupSteps, MainSteps

\* The same thread before and after a step that leaves it alone.
LEMMA RequestSame ==
    ASSUME NEW w \in Writers,
           pc'[w] = pc[w], job'[w] = job[w], outcome'[w] = outcome[w], renamed'[w] = renamed[w]
    PROVE  AbstractRequest(w)' = AbstractRequest(w)
BY DEF AbstractRequest, AbstractResult

Requests == [w \in Writers |-> AbstractRequest(w)]

\* A step of w leaves the other threads alone.
OthersSame(w) ==
    \A v \in Writers \ {w} :
        /\ pc'[v] = pc[v] /\ job'[v] = job[v]
        /\ outcome'[v] = outcome[v] /\ renamed'[v] = renamed[v]

LEMMA OneRequest ==
    ASSUME NEW w \in Writers, OthersSame(w)
    PROVE  Requests' = [Requests EXCEPT ![w] = AbstractRequest(w)']
BY RequestSame DEF OthersSame, Requests

LEMMA CallOthersSame ==
    ASSUME TypeInv, NEW w \in Writers, Invoke(w) \/ Step(w)
    PROVE  OthersSame(w)
<1> USE DEF TypeInv, TypeOK, OthersSame, Goto, Continue, Fail, Return
<1>1. CASE Invoke(w) \/ Acquire(w) \/ Load(w)
  BY <1>1 DEF Invoke, Acquire, Load
<1>2. CASE \/ BackupTempCreate(w) \/ BackupWrite(w) \/ BackupFileSync(w)
           \/ MainTempCreate(w) \/ MainWrite(w) \/ MainFileSync(w)
  BY <1>2 DEF BackupTempCreate, BackupWrite, BackupFileSync,
              MainTempCreate, MainWrite, MainFileSync, TempStep
<1>3. CASE BackupRead(w) \/ BackupRename(w) \/ BackupDirectorySync(w)
  BY <1>3 DEF BackupRead, BackupRename, BackupDirectorySync
<1>4. CASE Apply(w) \/ Recheck(w) \/ Rename(w)
  BY <1>4 DEF Apply, Recheck, Rename
<1>5. CASE MainDirectorySync(w) \/ Observe(w)
  BY <1>5 DEF MainDirectorySync, Observe
<1> QED
  BY <1>1, <1>2, <1>3, <1>4, <1>5 DEF Step

-----------------------------------------------------------------------------
(* Every step is a step of AtomicConfig, or none                           *)

Uncommitted == {"lock"} \cup (LockedSteps \ CommittedSteps)

\* A failed call is refused.
LEMMA FailRefuses ==
    ASSUME TypeInv, NEW w \in Writers, OthersSame(w), pc[w] \in Uncommitted,
           NEW error, error \notin CommitStates, Fail(w, error)
    PROVE  Atomic!Refuse(w)
<1>1. AbstractRequest(w)' = [phase |-> "answered", result |-> "error"]
  BY RequestCasesNext
     DEF Fail, Return, Goto, TypeInv, TypeOK, AbstractResult, CommitStates
<1>2. AbstractRequest(w).phase = "pending"
  BY RequestCases DEF Uncommitted, Pending
<1>3. Requests' = [Requests EXCEPT ![w] = [phase |-> "answered", result |-> "error"]]
  BY <1>1, OneRequest
<1> QED
  BY <1>2, <1>3 DEF Atomic!Refuse, Atomic!Answered, Requests, Fail, fileVars, history

\* A step before the commit point that leaves the main file alone is invisible.
LEMMA SilentStep ==
    ASSUME TypeInv, NEW w \in Writers, OthersSame(w), pc[w] \in Uncommitted,
           NEW next \in Uncommitted, Goto(w, next), job' = job,
           UNCHANGED <<main, mainSurvivors, seq>>
    PROVE  UNCHANGED Atomic!vars
<1>1. AbstractRequest(w)' = AbstractRequest(w)
  BY RequestCases, RequestCasesNext DEF Goto, TypeInv, TypeOK, Uncommitted, Pending
<1>2. Requests' = Requests
  BY <1>1, OneRequest DEF Requests
<1> QED
  BY <1>2 DEF Atomic!vars, Requests

\* A directory fsync before the commit point only makes the store durable.
LEMMA SilentSync ==
    ASSUME TypeInv, NEW w \in Writers, OthersSame(w), SyncDirectory, seq' = seq,
           AbstractRequest(w)' = AbstractRequest(w)
    PROVE  Atomic!Persist
<1>1. Requests' = Requests
  BY OneRequest DEF Requests
<1> QED
  BY <1>1 DEF Atomic!Persist, Requests, SyncDirectory

\* AtomicConfig reads and changes contents with the same functions.
LEMMA SameFunctions ==
    ASSUME NEW m, NEW content
    PROVE  /\ Atomic!ApplyError(m, Atomic!ProfilesOf(content)) = ApplyError(m, ProfilesOf(content))
           /\ Atomic!Encoded(m, content) = Encoded(m, content)
<1>1. Atomic!ProfilesOf(content) = ProfilesOf(content)
  BY DEF ProfilesOf, Atomic!ProfilesOf, normalize_v1, Atomic!normalize_v1, NoProfile, Atomic!NoProfile,
         NormalizeMode, Atomic!NormalizeMode
<1>2. ASSUME NEW profiles
      PROVE  Atomic!ApplyError(m, profiles) = ApplyError(m, profiles)
  BY DEF ApplyError, Atomic!ApplyError, NoProfile, Atomic!NoProfile
<1>3. ASSUME NEW profiles
      PROVE  Atomic!allocate_profile_id(profiles) = allocate_profile_id(profiles)
  BY DEF allocate_profile_id, Atomic!allocate_profile_id, FreeIds, Atomic!FreeIds, NoProfile, Atomic!NoProfile
<1>4. ASSUME NEW profiles
      PROVE  Atomic!apply_mutation(m, profiles) = apply_mutation(m, profiles)
  BY <1>3 DEF apply_mutation, Atomic!apply_mutation, AffectedId, Atomic!AffectedId, NoProfile, Atomic!NoProfile
<1> QED
  BY <1>1, <1>2, <1>4 DEF Encoded, Atomic!Encoded

AtomicStep == [Atomic!Next]_Atomic!vars

LEMMA AtomicCall ==
    ASSUME TypeInv, CrashInv, AnswerInv, BackupProgress, ChecksPassed,
           NEW w \in Writers, Invoke(w) \/ Step(w)
    PROVE  AtomicStep
<1>0. OthersSame(w)
  BY CallOthersSame
<1> USE DEF TypeInv, TypeOK, Goto, Continue, fileVars, history,
            Uncommitted, LockedSteps, CommittedSteps, BackupSteps, MainSteps
<1>1. Atomic!Refuse(w) \/ UNCHANGED Atomic!vars => AtomicStep
  BY DEF AtomicStep, Atomic!Next
<1>2. ASSUME pc[w] \in Uncommitted,
             \/ \E error : error \notin CommitStates /\ Fail(w, error)
             \/ /\ \E next \in Uncommitted : Goto(w, next)
                /\ UNCHANGED <<job, main, mainSurvivors, seq>>
      PROVE  AtomicStep
  BY <1>0, <1>1, <1>2, FailRefuses, SilentStep
<1>3. CASE Invoke(w)
  <2>1. PICK j \in Jobs : job' = [job EXCEPT ![w] = j]
    BY <1>3 DEF Invoke
  <2>2. AbstractRequest(w)' = [phase |-> "pending", job |-> j]
    BY <1>3, <2>1, RequestCasesNext DEF Invoke, Pending
  <2>3. AbstractRequest(w).phase \in {"idle", "answered"}
    BY <1>3, RequestCases DEF Invoke
  <2>4. Requests' = [Requests EXCEPT ![w] = [phase |-> "pending", job |-> j]]
    BY <1>0, <2>2, OneRequest
  <2>5. Atomic!Call(w)
    BY <1>3, <2>3, <2>4 DEF Invoke, Atomic!Call, Atomic!Pending, Requests
  <2> QED
    BY <2>5 DEF AtomicStep, Atomic!Next
<1>4. CASE Acquire(w)
  BY <1>2, <1>4 DEF Acquire
<1>5. CASE Load(w) \/ BackupRead(w)
  BY <1>2, <1>5 DEF Load, BackupRead, CommitStates
<1>6. CASE \/ BackupTempCreate(w) \/ BackupWrite(w) \/ BackupFileSync(w)
           \/ MainTempCreate(w) \/ MainWrite(w) \/ MainFileSync(w)
  BY <1>2, <1>6
     DEF BackupTempCreate, BackupWrite, BackupFileSync,
         MainTempCreate, MainWrite, MainFileSync, TempStep, CommitStates
<1>7. CASE BackupRename(w) \/ Recheck(w)
  BY <1>2, <1>7 DEF BackupRename, Recheck, CommitStates
<1>8. CASE BackupDirectorySync(w)
  <2>1. CASE Fail(w, "NotCommitted")
    BY <1>2, <1>8, <2>1 DEF BackupDirectorySync, CommitStates
  <2>2. CASE ~Fail(w, "NotCommitted")
    <3>1. AbstractRequest(w)' = AbstractRequest(w)
      BY <1>8, <2>2, RequestCases, RequestCasesNext DEF BackupDirectorySync, Pending
    <3>2. Atomic!Persist
      BY <1>0, <1>8, <2>2, <3>1, SilentSync DEF BackupDirectorySync
    <3> QED
      BY <3>2 DEF AtomicStep, Atomic!Next
  <2> QED
    BY <2>1, <2>2
<1>9. CASE Apply(w)
  <2>1. ApplyError(job[w].mutation, ProfilesOf(loaded[w])) \in Errors \cup {"ok"}
    BY DEF ApplyError, Errors
  <2> QED
    BY <1>2, <1>9, <2>1 DEF Apply, CommitStates, Errors
<1>10. CASE Rename(w)
  <2> DEFINE encoded == Encoded(job[w].mutation, loaded[w])
  <2>1. CASE Fail(w, "NotCommitted")
    BY <1>2, <1>10, <2>1 DEF Rename, CommitStates
  <2>2. CASE ~Fail(w, "NotCommitted")
    <3>1. AbstractRequest(w) = Pending(w)
      BY <1>10, RequestCases DEF Rename
    <3>2. AbstractRequest(w)' = [phase |-> "applied", seq |-> seq + 1]
      BY <1>10, <2>2, RequestCasesNext DEF Rename
    <3>3. Requests' = [Requests EXCEPT ![w] = [phase |-> "applied", seq |-> seq + 1]]
      BY <1>0, <3>2, OneRequest
    <3>4. main.content = loaded[w] /\ temp[w] = "synced"
      BY <1>10 DEF Rename, BackupProgress, CrashInv, SyncedBeforeRename
    <3>5. Atomic!Admissible(job[w], main.content)
      BY <1>10, <3>4, SameFunctions DEF Rename, ChecksPassed, Atomic!Admissible,
         Loadable, Atomic!Loadable, ValidMutation, Atomic!ValidMutation,
         MigrationRequired, Atomic!MigrationRequired
    <3> HIDE DEF encoded
    <3>6. /\ seq' = seq + 1
          /\ main' = [content |-> encoded, seq |-> seq + 1]
          /\ mainSurvivors' = mainSurvivors \cup {[content |-> encoded, seq |-> seq + 1]}
      BY <1>10, <2>2, <3>4 DEF Rename, Replace, Landed, encoded
    <3>7. Atomic!Update(w)
      BY <3>1, <3>3, <3>4, <3>5, <3>6, SameFunctions
         DEF Atomic!Update, Atomic!Put, Atomic!Applied, Requests, Pending, encoded
    <3> QED
      BY <3>7 DEF AtomicStep, Atomic!Next
  <2> QED
    BY <2>1, <2>2
<1>11. CASE MainDirectorySync(w)
  <2>1. AbstractRequest(w)' = AbstractRequest(w)
    BY <1>11, RequestCases, RequestCasesNext DEF MainDirectorySync
  <2>2. CASE SyncDirectory
    BY <1>0, <1>11, <2>1, <2>2, SilentSync DEF MainDirectorySync, AtomicStep, Atomic!Next
  <2>3. CASE ~SyncDirectory
    <3>1. Requests' = Requests
      BY <1>0, <2>1, OneRequest DEF Requests
    <3> QED
      BY <1>11, <2>3, <3>1 DEF MainDirectorySync, AtomicStep, Atomic!vars, Requests
  <2> QED
    BY <2>2, <2>3
<1>12. CASE Observe(w)
  <2>1. AbstractRequest(w) = [phase |-> "applied", seq |-> renamed[w]]
    BY <1>12, RequestCases DEF Observe
  <2>2. UNCHANGED <<main, mainSurvivors, seq>> /\ pc'[w] = "done"
    BY <1>12 DEF Observe, Return
  <2>3. CASE outcome'[w] = "CommittedDurabilityUnknown"
    <3>1. AbstractRequest(w)' = [phase |-> "answered", result |-> "unknown"]
      BY <2>2, <2>3, RequestCasesNext DEF AbstractResult
    <3>2. Requests' = [Requests EXCEPT ![w] = [phase |-> "answered", result |-> "unknown"]]
      BY <1>0, <3>1, OneRequest
    <3>3. Atomic!Answer(w)
      BY <2>1, <2>2, <3>2 DEF Atomic!Answer, Atomic!Answered, Requests
    <3> QED
      BY <3>3 DEF AtomicStep, Atomic!Next
  <2>4. CASE outcome'[w] = "Committed"
    <3>1. AbstractRequest(w)' = [phase |-> "answered", result |-> "committed"]
      BY <2>2, <2>4, RequestCasesNext DEF AbstractResult
    <3>2. Requests' = [Requests EXCEPT ![w] = [phase |-> "answered", result |-> "committed"]]
      BY <1>0, <3>1, OneRequest
    <3>3. outcome[w] = "Committed"
      BY <1>12, <2>4 DEF Observe, Return
    <3>4. \A entry \in mainSurvivors : entry.seq >= renamed[w]
      BY <1>12, <3>3 DEF Observe, CrashInv, CommitsKept, Entries
    <3>5. Atomic!Answer(w)
      BY <2>1, <2>2, <3>2, <3>4 DEF Atomic!Answer, Atomic!Answered, Requests
    <3> QED
      BY <3>5 DEF AtomicStep, Atomic!Next
  <2> QED
    BY <1>12, <2>3, <2>4 DEF Observe, Return, AnswerInv, CommitPoint, CommitStates
<1> QED
  BY <1>3, <1>4, <1>5, <1>6, <1>7, <1>8, <1>9, <1>10, <1>11, <1>12 DEF Step

LEMMA AtomicEnvironment ==
    ASSUME TypeInv, EditMain \/ EditBackup \/ ProcessKill \/ PowerLoss
    PROVE  AtomicStep
<1>1. CASE EditMain
  <2>1. Requests' = Requests
    BY <1>1, RequestSame DEF EditMain, callVars, Requests
  <2>2. Atomic!Edit
    BY <1>1, <2>1 DEF EditMain, Replace, Atomic!Edit, Atomic!Put, Requests
  <2> QED
    BY <2>2 DEF AtomicStep, Atomic!Next
<1>2. CASE EditBackup
  <2>1. Requests' = Requests
    BY <1>2, RequestSame DEF EditBackup, callVars, Requests
  <2> QED
    BY <1>2, <2>1 DEF EditBackup, history, AtomicStep, Atomic!vars, Requests
<1>3. CASE ProcessKill \/ PowerLoss
  <2>1. Requests' = [w \in Writers |-> [phase |-> "idle"]]
    BY <1>3, RequestCasesNext DEF ProcessKill, PowerLoss, Restart, Requests
  <2>2. Atomic!Crash
    BY <1>3, <2>1
       DEF ProcessKill, PowerLoss, Restart, fileVars, history, Atomic!Crash, Atomic!Idle, Requests
  <2> QED
    BY <2>2 DEF AtomicStep, Atomic!Next
<1> QED
  BY <1>1, <1>2, <1>3

\* mutate_path is atomic.  The inductive invariant joins mutual exclusion, crash
\* safety, the answers, the backup and the checks passed; each step is then a
\* step of AtomicConfig: the rename is Update, a failure before it Refuse, the
\* return after it Answer, a directory fsync Persist.
THEOREM WriterIsAtomic ==
    ASSUME ~EditInRenameWindow
    PROVE  Spec => IsAtomic
<1> DEFINE Inv == TypeInv /\ Serialized /\ CrashInv /\ AnswerInv /\ BackupProgress /\ ChecksPassed
<1>1. Init => Inv
  <2>1. Init => Serialized /\ AnswerInv /\ BackupProgress /\ ChecksPassed
    BY WritersAssumption
       DEF Init, Serialized, AnswerInv, CommitPoint, OutcomeMatchesCommit, BackupProgress,
           ChecksPassed, LockedSteps, BackupSteps, MainSteps, CommittedSteps
  <2> QED
    BY <2>1, TypeInit, CrashInit
<1>2. Inv /\ [Next]_vars => Inv'
  BY TypeStep, SerializedStep, CrashStep, AnswerStep, BackupStep, ChecksStep
<1>3. Init => Atomic!Init
  <2> SUFFICES ASSUME Init PROVE Atomic!Init
    OBVIOUS
  <2>1. Requests = [w \in Writers |-> [phase |-> "idle"]]
    BY RequestCases DEF Init, Requests
  <2> QED
    BY <2>1 DEF Init, Atomic!Init, Atomic!Idle, Requests
<1>4. Inv /\ [Next]_vars => [Atomic!Next]_Atomic!vars
  <2> SUFFICES ASSUME Inv, [Next]_vars PROVE AtomicStep
    BY DEF AtomicStep
  <2>1. CASE UNCHANGED vars
    <3>1. Requests' = Requests
      BY <2>1, RequestSame DEF vars, callVars, Requests
    <3> QED
      BY <2>1, <3>1 DEF vars, fileVars, history, AtomicStep, Atomic!vars, Requests
  <2> QED
    BY <2>1, AtomicCall, AtomicEnvironment DEF Next
<1> QED
  BY <1>1, <1>2, <1>3, <1>4, PTL DEF Spec, IsAtomic, Atomic!Spec
=============================================================================
