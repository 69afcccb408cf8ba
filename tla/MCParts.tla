------------------------------ MODULE MCParts ------------------------------
(***************************************************************************)
(* The parts of the program that share no state with one another: exports  *)
(* (ExportFile), the page-token key (TokenKey), the text an Execute sends  *)
(* (StatementExtraction) and what a failed operation offers                *)
(* (PublicErrors).  A behaviour is about one of them.                      *)
(***************************************************************************)
EXTENDS ExportFile, TokenKey, StatementExtraction

CONSTANTS e1, e2, r1, r2, p1, a, b

VARIABLES subject, event, error

Failure == INSTANCE PublicErrors WITH shown <- error

\* Alphabets: the two string quotes, identifiers, line comments, block comments
MCAlphabets ==
    {{"a", ";", "'", "double", "backslash"},
     {"a", ";", "'", "backtick", "backslash"},
     {"a", " ", "newline", ";", "#", "-"},
     {"a", ";", "'", "/", "*", "!"}}

failureVars == <<event, error>>
partsVars == <<subject, vars, keyVars, textVars, failureVars>>

\* The alphabet and the files matter to one subject each.
PartsInit ==
    /\ subject \in {"text", "export", "key", "failure"}
    /\ Init /\ KeyInit /\ TextInit /\ Failure!Init
    /\ subject # "text" => alphabet = CHOOSE some \in Alphabets : TRUE
    /\ subject # "export" => shown = {} /\ \A p \in Paths : entry[p].kind = "absent"

PartsNext ==
    /\ UNCHANGED subject
    /\ \/ subject = "export" /\ Next /\ UNCHANGED <<keyVars, textVars, failureVars>>
       \/ subject = "key" /\ KeyNext /\ UNCHANGED <<vars, textVars, failureVars>>
       \/ subject = "text" /\ TextNext /\ UNCHANGED <<vars, keyVars, failureVars>>
       \/ subject = "failure" /\ Failure!Next /\ UNCHANGED <<vars, keyVars, textVars>>

\* The export worker is a blocking thread whose file system calls return; the
\* window drains its events every frame.
PartsSpec ==
    /\ PartsInit /\ [][PartsNext]_partsVars
    /\ \A e \in Exports : WF_vars(Step(e) \/ HandleExportTerminal(e))

(* A shown recovery fits its failure: see PublicErrors                     *)
(* (recovery_for_with_fact, attach_retry_recipe).                          *)
RecoveryFits == Failure!RecoveryFits

(* A statement the server refused leads back to the editor: see            *)
(* PublicErrors (docs/usable-mvp/spec.md, section 8).                      *)
ServerRejectionFocusesEditor == Failure!ServerRejectionFocusesEditor
=============================================================================
