--------------------------- MODULE PublicErrors ---------------------------
(***************************************************************************)
(* What a failed operation tells the user to do: the way of an error from  *)
(* the service (src/service.rs) through the runtime's failure events       *)
(* (src/ui/runtime.rs) and the recovery table (src/public_error.rs) to the *)
(* window, which may build it once more with the retry recipe it kept      *)
(* (src/ui/app.rs).                                                        *)
(*                                                                         *)
(* An error is its variant and the code it carries.  Recovery actions are  *)
(* <<action, field>>; ids and wording are left out, and so is the order of *)
(* the buttons.  Every form field that is not named here is "Port".        *)
(***************************************************************************)
EXTENDS Naturals

Execute == {"ExecuteRead", "ExecuteMutation"}
Connects == {"ConnectProfile", "ReconnectProfile"}
Browses == {"BrowseMySql", "BrowseRedis", "InspectRedis"}
ConfigMutations == {"CreateProfile", "UpdateProfile", "DeleteProfile"}
\* The operations the window submits; the rest of OperationKind belongs to start-up
Operations ==
    Execute \cup Connects \cup Browses \cup ConfigMutations
        \cup {"ReloadConfiguration", "TestDraftConnection", "DisconnectProfile", "ExportResult"}

VARIABLES event,   \* the failure event in the window's queue, or none
          shown    \* the error the window shows, or none

vars == <<event, shown>>

Nothing == [is |-> "nothing"]

-----------------------------------------------------------------------------
\* Service errors.

E(variant) == [is |-> variant, code |-> "None"]
Coded(variant, codes) == {[is |-> variant, code |-> c] : c \in codes}

CaCodes == {"RedisTlsCaInvalidPem", "RedisTlsCaUntrustedIssuer"}
CredentialCodes == {"SessionCredential", "CredentialEnvironmentName", "Username"}

\* connection_error: a refused login becomes the credential the profile's mode uses.
ConnectionErrors(driverErrors) ==
    {E(d) : d \in driverErrors \ {"MySqlAuthentication", "RedisAuthentication"}}
        \cup (IF driverErrors \cap {"MySqlAuthentication", "RedisAuthentication"} = {} THEN {}
              ELSE Coded("ConnectionAuthenticationFailed", CredentialCodes))

\* What the drivers return, by class, while connecting and while running a statement.
\* Denied: errno 1044, 1142, 1143, 1227, 1370, 1419 (is_mysql_permission_denied);
\* Refused and Rejected: any other error the server answers with.
Broken == {"Io", "Timeout"}
ConnectFaults(driver) ==
    Broken \cup IF driver = "MySql" THEN {"MySqlAuthentication", "MySqlDatabaseDenied", "MySqlRefused"}
                ELSE {"RedisAuthentication", "RedisRefused", "RedisCaUntrusted", "RedisHostname", "Unsupported"}
DriverFaults(driver) ==
    Broken \cup IF driver = "MySql" THEN {"MySqlDenied", "MySqlRejected"} ELSE {"RedisNoPerm", "RedisRejected"}

\* get_or_connect_at and the checks before it; resolve_profile_secret
AcquireErrors(driver) ==
    {E(x) : x \in {"ProfileStale", "ConfigUncertain", "UnknownProfile", "MissingEnv",
                   "SessionCredentialRequired", "StoreUnavailable"}}
        \cup Coded("InvalidProfile", {"Port", "CredentialEnvironmentName"})
        \cup (IF driver = "Redis"
              THEN Coded("InvalidProfile", {"RedisTlsPreferredLegacy", "RedisTlsCaInvalidPem"}) ELSE {})
        \cup ConnectionErrors(ConnectFaults(driver))

ExecuteErrors ==
    Coded("InvalidRequest", {"RowLimit", "TimeoutInput", "StatementTarget", "AmbiguousSqlMode", "UnterminatedSqlToken"})
        \cup {E(x) : x \in {"LanguageMismatch", "PreparedStatementUnsupported", "Unsupported"}
                             \cup DriverFaults("MySql") \cup DriverFaults("Redis")}

DraftErrors ==
    Coded("DraftCredentialRequired", {"SessionCredential", "CredentialEnvironmentName"})
        \cup {E("InvalidSessionIntent"), E("ConfigUncertain"), E("Io"), E("Timeout")}
        \cup Coded("InvalidProfile", {"Port", "RedisTlsPreferredLegacy", "RedisTlsCaInvalidPem"})
        \cup ConnectionErrors(ConnectFaults("MySql")) \cup ConnectionErrors(ConnectFaults("Redis"))

MutationErrors ==
    {E(x) : x \in {"ConfigUncertain", "MutationLaneClosed", "ConfigTaskFailed", "ConfigExternal",
                   "Config", "PostCommitObservation", "StoreUnavailable"}}

\* The service errors an operation can end with
Raises(kind) ==
    CASE kind \in Connects -> AcquireErrors("MySql") \cup AcquireErrors("Redis")
      [] kind \in Execute -> AcquireErrors("MySql") \cup AcquireErrors("Redis") \cup ExecuteErrors
      [] kind = "BrowseMySql" ->
            AcquireErrors("MySql") \cup {E(x) : x \in DriverFaults("MySql")
                \cup {"DriverMismatch", "CatalogTokenKeyUnavailable", "InvalidCatalogRequest"}}
      [] kind = "BrowseRedis" ->
            AcquireErrors("Redis") \cup {E(x) : x \in DriverFaults("Redis") \cup {"DriverMismatch"}}
                \cup Coded("InvalidRequest", {"RedisScan"})
      [] kind = "InspectRedis" ->
            AcquireErrors("Redis") \cup {E(x) : x \in DriverFaults("Redis")
                \cup {"DriverMismatch", "RedisKeyMissing", "RedisKeyTypeChanged"}}
                \cup Coded("InvalidRequest", {"RedisScan"})
      [] kind = "TestDraftConnection" -> DraftErrors
      [] kind = "CreateProfile" ->
            MutationErrors \cup {E("ProfileIdConflict")} \cup Coded("InvalidProfile", {"Port", "SessionCredential"})
      [] kind = "UpdateProfile" ->
            MutationErrors \cup {E("ProfileStale"), E("UnknownProfile")}
                \cup Coded("InvalidProfile", {"Port", "SessionCredential"})
      [] kind = "DeleteProfile" -> MutationErrors \cup {E("ProfileStale")}
      [] kind = "DisconnectProfile" -> {E("ProfileStale"), E("ConfigUncertain")}
      [] kind = "ReloadConfiguration" -> {E("MutationLaneClosed"), E("StoreUnavailable")}
      [] kind = "ExportResult" -> {}

\* ServiceError::public_error_parts, the code
PublicCode(e) ==
    CASE e.is \in {"InvalidProfile", "InvalidRequest", "DraftCredentialRequired", "ConnectionAuthenticationFailed"} -> e.code
      [] e.is \in {"ProfileIdConflict", "ProfileStale", "PreparedStatementUnsupported"} -> e.is
      [] e.is = "MissingEnv" -> "CredentialEnvironmentName"
      [] e.is = "SessionCredentialRequired" -> "SessionCredential"
      [] e.is = "InvalidSessionIntent" -> "CredentialMode"
      [] e.is \in {"ConfigExternal", "ConfigUncertain"} -> "ConfigExternalChange"
      [] e.is = "InvalidCatalogRequest" -> "Catalog"
      [] e.is = "RedisCaUntrusted" -> "RedisTlsCaUntrustedIssuer"
      [] e.is = "RedisHostname" -> "TlsHostnameMismatch"
      [] e.is = "RedisNoPerm" -> "Username"
      [] e.is \in {"MySqlDenied", "MySqlRejected", "MySqlDatabaseDenied", "MySqlRefused"} -> "MySql"
      [] OTHER -> "None"

\* ServiceError::public_error_parts, the summary
PublicSummary(e) ==
    CASE e.is = "InvalidProfile" /\ e.code = "RedisTlsPreferredLegacy" -> "UnsupportedFeature"
      [] e.is = "InvalidProfile" /\ e.code \in CaCodes \cup {"TlsHostnameMismatch"} -> "TlsVerificationFailed"
      [] e.is \in {"ProfileStale", "ConfigExternal", "ConfigUncertain",
                   "RedisKeyMissing", "RedisKeyTypeChanged"} -> "ResourceStale"
      [] \/ e.is = "InvalidProfile" /\ e.code \notin CaCodes \cup {"TlsHostnameMismatch", "RedisTlsPreferredLegacy"}
         \/ e.is \in {"LanguageMismatch", "DriverMismatch", "InvalidRequest", "ProfileIdConflict",
                      "UnknownProfile", "InvalidCatalogRequest", "InvalidSessionIntent"} -> "InvalidInput"
      [] e.is \in {"MySqlDenied", "MySqlDatabaseDenied", "RedisNoPerm"} -> "PermissionDenied"
      [] e.is \in {"MissingEnv", "ConnectionAuthenticationFailed"} -> "AuthenticationFailed"
      [] e.is \in {"DraftCredentialRequired", "SessionCredentialRequired"} -> "CredentialRequired"
      [] e.is = "Timeout" -> "OperationTimedOut"
      [] e.is \in {"RedisCaUntrusted", "RedisHostname"} -> "TlsVerificationFailed"
      [] e.is \in {"Unsupported", "PreparedStatementUnsupported"} -> "UnsupportedFeature"
      [] e.is \in {"Io", "MySqlRejected", "RedisRejected", "MySqlRefused", "RedisRefused"} -> "NetworkUnavailable"
      [] e.is = "Config" -> "ConfigWriteNotCommitted"
      [] e.is = "PostCommitObservation" -> "CommittedDurabilityUnknown"
      [] e.is \in {"ConfigTaskFailed", "MutationLaneClosed", "CatalogTokenKeyUnavailable",
                   "StoreUnavailable"} -> "InternalFailure"

-----------------------------------------------------------------------------
\* The recovery table.  The empty set is a pair the table does not have.

Draft == [is |-> "Draft"]
Global == [is |-> "Global"]
Profile(recipe) == [is |-> "Profile", recipe |-> recipe]
Export(committed) == [is |-> "Export", committed |-> committed]

Do(action) == <<action, "">>
EditDraft(field) == <<"EditDraft", field>>
EditProfile(field) == <<"EditProfile", field>>
Dismiss == Do("DismissError")
Reload == Do("ReloadConfiguration")
RetryWith(context) == IF context.recipe THEN {Do("Retry")} ELSE {}

CredentialField(code) == IF code \in CredentialCodes THEN {code} ELSE {}
PermissionField(code) == IF code \in {"Username", "Database"} THEN {code} ELSE {}
\* draft_field and profile_field, which differ in ProfileIdConflict only
ProfileField(code) ==
    CASE code \in CredentialCodes \cup {"Port", "Database", "CredentialMode"} -> {code}
      [] code = "RedisTlsPreferredLegacy" -> {"RedisTlsMode"}
      [] code \in CaCodes -> {"RedisCaFile"}
      [] code = "TlsHostnameMismatch" -> {"Host"}
      [] OTHER -> {}
DraftField(code) == IF code = "ProfileIdConflict" THEN {"ConnectionId"} ELSE ProfileField(code)

EditDrafts(fields) == {EditDraft(f) : f \in fields}
EditProfiles(fields) == {EditProfile(f) : f \in fields}
With(actions, others) == IF actions = {} THEN {} ELSE actions \cup others

InvalidInput(kind, code) ==
    CASE kind = "ReloadConfiguration" -> {Reload}
      [] kind \in {"CreateProfile", "TestDraftConnection"} -> EditDrafts(DraftField(code))
      [] kind = "UpdateProfile" ->
            IF code \in {"ProfileStale", "ConfigExternalChange"} THEN {Reload} ELSE EditProfiles(ProfileField(code))
      [] kind = "DeleteProfile" ->
            IF code \in {"ProfileStale", "ConfigExternalChange"} THEN {Reload}
            ELSE IF code = "None" THEN {Dismiss} ELSE {}
      [] kind \in Connects -> EditProfiles(ProfileField(code))
      [] kind \in Execute ->
            IF code \in {"RowLimit", "TimeoutInput"} THEN {Do("FocusExecuteLimits")}
            ELSE IF code \in {"StatementTarget", "AmbiguousSqlMode", "UnterminatedSqlToken", "None"}
                 THEN {Do("FocusEditor")} ELSE {}
      [] kind = "BrowseMySql" /\ code = "Catalog" -> {Do("ClearCatalog")}
      [] kind = "BrowseRedis" /\ code = "RedisScan" -> {Do("RestartRedisScan")}
      [] kind \in {"BrowseMySql", "BrowseRedis"} /\ code = "None" -> {Dismiss}
      [] kind = "InspectRedis" -> {Dismiss}
      [] kind = "ExportResult" -> {Do("ChooseExportDestination")}
      [] OTHER -> {}

CredentialOperations == Connects \cup Execute \cup Browses
Idempotent == Connects \cup Browses

CredentialRequired(kind, code) ==
    IF kind = "TestDraftConnection" THEN EditDrafts(CredentialField(code))
    ELSE IF kind \in CredentialOperations THEN {Do("OpenCredentialPrompt"), EditProfile("SessionCredential")}
    ELSE {}

AuthenticationFailed(kind, code, context) ==
    IF kind = "TestDraftConnection" THEN EditDrafts(CredentialField(code))
    ELSE IF kind \notin CredentialOperations THEN {}
    ELSE With(IF code = "SessionCredential" THEN {Do("OpenCredentialPrompt")} ELSE EditProfiles(CredentialField(code)),
              IF kind \in Idempotent THEN RetryWith(context) ELSE {})

PermissionDenied(kind, code) ==
    LET field == PermissionField(code) IN
    CASE kind = "TestDraftConnection" -> With(EditDrafts(field), {Dismiss})
      [] kind \in Idempotent -> With(EditProfiles(field), {Dismiss})
      [] kind \in Execute -> IF field = {} THEN {} ELSE {Do("FocusEditor"), Dismiss}
      [] OTHER -> {}

NetworkUnavailable(kind, context) ==
    IF kind = "TestDraftConnection" THEN {EditDraft("Host"), Dismiss}
    ELSE IF kind \in CredentialOperations
         THEN {EditProfile("Host"), Do("Reconnect")} \cup (IF kind \in Idempotent THEN RetryWith(context) ELSE {})
    ELSE {}

\* Mutant: the two kinds of TLS failure point at each other's field.
TlsFieldsSwapped(kind, code) ==
    LET field == IF code \in CaCodes THEN {"Host"} ELSE IF code = "TlsHostnameMismatch" THEN {"RedisCaFile"} ELSE {}
    IN IF kind = "TestDraftConnection" THEN EditDrafts(field)
       ELSE IF kind \in CredentialOperations THEN EditProfiles(field) ELSE {}

TlsFailed(kind, code) ==
    LET field == IF code \in CaCodes THEN {"RedisCaFile"} ELSE IF code = "TlsHostnameMismatch" THEN {"Host"} ELSE {}
    IN IF kind = "TestDraftConnection" THEN EditDrafts(field)
       ELSE IF kind \in CredentialOperations THEN EditProfiles(field) ELSE {}

TimedOut(kind, context) ==
    CASE kind = "TestDraftConnection" -> {EditDraft("Host"), Dismiss}
      [] kind \in Connects -> {EditProfile("Host"), Do("Reconnect"), Dismiss}
      [] kind \in Execute -> {Do("FocusExecuteLimits"), Do("Reconnect")}
      [] kind \in Browses -> {Dismiss} \cup IF context.recipe THEN {Do("Retry")} ELSE {Do("Reconnect")}
      [] OTHER -> {}

UnsupportedFeature(kind, code) ==
    CASE kind = "TestDraftConnection" /\ code = "RedisTlsPreferredLegacy" -> {EditDraft("RedisTlsMode")}
      [] kind = "ConnectProfile" /\ code = "RedisTlsPreferredLegacy" -> {EditProfile("RedisTlsMode")}
      [] kind \in Execute /\ code = "PreparedStatementUnsupported" -> {Do("FocusEditor"), Dismiss}
      [] kind \in Browses -> {Dismiss}
      [] kind \in Execute /\ code # "PreparedStatementUnsupported" -> {Dismiss}
      [] OTHER -> {}

OperationCancelled(kind, context) ==
    CASE kind = "TestDraftConnection" -> {Dismiss}
      [] kind \in CredentialOperations -> {Do("Reconnect"), Dismiss}
      [] kind = "ExportResult" ->
            {Dismiss, Do(IF context.committed THEN "RevealExportDestination" ELSE "ChooseExportDestination")}
      [] OTHER -> {}

ResourceStale(kind, context) ==
    CASE kind \in ConfigMutations \cup {"ReloadConfiguration"} -> {Reload}
      [] kind \in Idempotent -> RetryWith(context)
      [] kind \in Execute -> {Reload, Do("FocusEditor")}
      [] OTHER -> {}

\* config_not_committed, durability_unknown, export_failed
CommitFailed(kind, summary, context) ==
    CASE kind \in ConfigMutations /\ summary # "ExportFailed" -> {Reload}
      [] kind = "ExportResult" /\ summary = "CommittedDurabilityUnknown" -> {Do("RevealExportDestination")}
      [] kind = "ExportResult" /\ summary = "ExportFailed" ->
            {Do("ChooseExportDestination")} \cup IF context.committed THEN {Do("RevealExportDestination")} ELSE {}
      [] OTHER -> {}

Internal(kind) ==
    {Do("RestartApplication"), Dismiss}
        \cup IF kind \in ConfigMutations \cup {"ReloadConfiguration"} THEN {Reload} ELSE {}

\* context_matches
ContextMatches(kind, context) ==
    context.is = CASE kind = "ReloadConfiguration" -> "Global"
                   [] kind \in {"CreateProfile", "TestDraftConnection"} -> "Draft"
                   [] kind = "ExportResult" -> "Export"
                   [] OTHER -> "Profile"

\* recovery_for_with_fact.  The window's runtime never knows which operation a busy
\* one waits for.
RecoveryFor(kind, summary, code, context) ==
    IF ~ContextMatches(kind, context) THEN {}
    ELSE CASE summary = "InvalidInput" -> InvalidInput(kind, code)
           [] summary = "CredentialRequired" -> CredentialRequired(kind, code)
           [] summary = "AuthenticationFailed" -> AuthenticationFailed(kind, code, context)
           [] summary = "PermissionDenied" -> PermissionDenied(kind, code)
           [] summary = "NetworkUnavailable" -> NetworkUnavailable(kind, context)
           [] summary = "TlsVerificationFailed" -> TlsFailed(kind, code)
           [] summary = "OperationTimedOut" -> TimedOut(kind, context)
           [] summary = "UnsupportedFeature" -> UnsupportedFeature(kind, code)
           [] summary = "OperationCancelled" -> OperationCancelled(kind, context)
           [] summary = "ResourceBusy" -> {Dismiss}
           [] summary = "ResourceStale" -> ResourceStale(kind, context)
           [] summary \in {"ConfigWriteNotCommitted", "CommittedDurabilityUnknown", "ExportFailed"} ->
                CommitFailed(kind, summary, context)
           [] summary = "InternalFailure" -> Internal(kind)

\* PublicOperationError::new_or_internal
NewOrInternal(kind, summary, code, context) ==
    LET recovery == RecoveryFor(kind, summary, code, context) IN
    IF recovery # {} THEN [is |-> "error", kind |-> kind, summary |-> summary, code |-> code, recovery |-> recovery]
    ELSE [is |-> "error", kind |-> kind, summary |-> "InternalFailure", code |-> "None",
          recovery |-> {Do("RestartApplication"), Dismiss}]

-----------------------------------------------------------------------------
\* The runtime.

\* public_global_error, public_draft_error, public_profile_error
RuntimeContext(kind) ==
    CASE kind = "ReloadConfiguration" -> Global
      [] kind \in {"CreateProfile", "TestDraftConnection"} -> Draft
      [] OTHER -> Profile(kind \in Idempotent)

Fail(kind, cause, summary, code, context) ==
    /\ event = Nothing /\ shown = Nothing
    /\ event' = [is |-> "event", kind |-> kind, cause |-> cause, summary |-> summary,
                 error |-> NewOrInternal(kind, summary, code, context)]
    /\ UNCHANGED shown

\* An operation ends with an error of the service: failed_from_service and its
\* siblings.  Catalog and delete failures keep the summary only.
ServiceFails(kind, e) ==
    LET code == IF kind \in {"BrowseMySql", "DeleteProfile"} THEN "None" ELSE PublicCode(e)
    IN e \in Raises(kind) /\ Fail(kind, e.is, PublicSummary(e), code, RuntimeContext(kind))

\* An operation is cancelled, timed out, refused or lost with its task, before any
\* answer of the service
Interrupted(kind, summary) ==
    /\ summary \in {"ResourceBusy", "InternalFailure"}
         \cup (IF kind \in CredentialOperations \cup {"TestDraftConnection"}
               THEN {"OperationCancelled", "OperationTimedOut"} ELSE {})
         \cup (IF kind = "DisconnectProfile" THEN {"OperationCancelled"} ELSE {})
    /\ kind # "ExportResult"
    /\ Fail(kind, "none", summary, "None", RuntimeContext(kind))

\* result_export_file_error_event, and the refusals of start_export_work
ExportFailures ==
    {[cause |-> "none", summary |-> s, code |-> "None", committed |-> FALSE] :
        s \in {"OperationCancelled", "ExportFailed", "ResourceBusy", "InternalFailure"}}
    \cup {[cause |-> "none", summary |-> "InvalidInput", code |-> "ExportDestination", committed |-> FALSE],
          [cause |-> "committed", summary |-> "CommittedDurabilityUnknown", code |-> "ExportDestinationCommitted",
           committed |-> TRUE]}

ExportFails(f) == Fail("ExportResult", f.cause, f.summary, f.code, Export(f.committed))

-----------------------------------------------------------------------------
\* The window.

\* The summary attach_retry_recipe starts from: the event's own, except for the
\* Redis events, which carry only the error
AttachedSummary(e) == IF e.kind \in {"BrowseRedis", "InspectRedis"} THEN e.error.summary ELSE e.summary

\* poll_events with attach_retry_recipe; the recipe may have expired
Show(registered) ==
    /\ event # Nothing
    /\ registered => event.kind \in Idempotent
    /\ shown' = IF registered
                THEN NewOrInternal(event.kind, AttachedSummary(event), event.error.code, Profile(TRUE))
                ELSE event.error
    /\ UNCHANGED event

\* dismiss_operation_error
DismissOperationError ==
    shown # Nothing /\ event' = Nothing /\ shown' = Nothing

Init == event = Nothing /\ shown = Nothing

Next ==
    \/ \E kind \in Operations : \E e \in Raises(kind) : ServiceFails(kind, e)
    \/ \E kind \in Operations :
         \E summary \in {"OperationCancelled", "OperationTimedOut", "ResourceBusy", "InternalFailure"} :
           Interrupted(kind, summary)
    \/ \E f \in ExportFailures : ExportFails(f)
    \/ shown = Nothing /\ \E registered \in BOOLEAN : Show(registered)
    \/ DismissOperationError

Spec == Init /\ [][Next]_vars

-----------------------------------------------------------------------------
Offers(action) == action \in {a[1] : a \in shown.recovery}

(* A shown recovery fits the failure, whatever it was and whether or not   *)
(* the window still had its recipe: a statement is never offered again, a  *)
(* draft's failure never leads to a saved profile, CA and host name are    *)
(* not confused, a stale, unreachable or credential-less operation has a   *)
(* way on other than restarting the application, a committed export is     *)
(* revealed, and attaching the recipe offers nothing the runtime had not   *)
(* (recovery_for_with_fact, public_profile_error, attach_retry_recipe).    *)
RecoveryFits ==
    shown # Nothing =>
        /\ shown.recovery # {}
        /\ event.kind \in Execute => ~Offers("Retry")
        /\ event.kind = "TestDraftConnection" =>
             ~\E a \in {"EditProfile", "Reconnect", "Retry", "OpenCredentialPrompt"} : Offers(a)
        /\ event.cause = "RedisCaUntrusted" => \A a \in shown.recovery : a[2] # "Host"
        /\ event.cause = "RedisHostname" => \A a \in shown.recovery : a[2] # "RedisCaFile"
        /\ event.kind \in CredentialOperations
             /\ event.summary \in {"ResourceStale", "NetworkUnavailable", "OperationTimedOut",
                                   "OperationCancelled", "CredentialRequired", "TlsVerificationFailed"} =>
             ~Offers("RestartApplication")
        /\ event.cause = "committed" => Offers("RevealExportDestination")
        /\ shown = event.error

(* What docs/usable-mvp/spec.md says of Execute: when the server answers   *)
(* and refuses a statement, for its syntax, a constraint or a privilege,   *)
(* the user is led back to the editor.                                     *)
ServerRejectionFocusesEditor ==
    shown # Nothing /\ event.kind \in Execute
      /\ event.cause \in {"MySqlDenied", "MySqlRejected", "RedisNoPerm", "RedisRejected"} =>
        Offers("FocusEditor")
=============================================================================
