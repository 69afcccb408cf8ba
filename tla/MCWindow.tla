------------------------------ MODULE MCWindow ------------------------------
(***************************************************************************)
(* Small instances of Window.  Id 1 is a MySQL database, id 2 a Redis      *)
(* server.                                                                 *)
(***************************************************************************)
EXTENDS Window, TLC

\* "prompted" and "renamed" have the same connection fields and a session
\* credential; "open" and "labelled" another server, without a credential.
MCBodies == {"open", "labelled", "prompted", "renamed"}
MCSessionBodies == {"prompted", "renamed"}
MCEndpoint == [b \in MCBodies |-> IF b \in MCSessionBodies THEN "a" ELSE "b"]

Only(id, body) == [i \in Ids |-> IF i = id THEN body ELSE NoBody]

ConnectionButtons == {"Connect", "EnterCredential", "Disconnect", "Reconnect", "Store", "CancelPrompt",
                      "Retry", "RecoverCredential", "Dismiss", "Reload"}
WorkButtons == {"Execute", "CancelExecute", "Browse", "CancelBrowse"}
EditButtons == {"Add", "Edit", "Save", "SaveAndConnect", "CancelEdit", "Delete", "ConfirmDelete",
                "CancelDelete"}

\* Every button, and another program that edits the file
EveryButton(start, edits) ==
    [disk |-> start, buttons |-> ConnectionButtons \cup WorkButtons \cup EditButtons, operations |-> 3,
     bodies |-> {"open", "renamed"}, writes |-> edits]

\* Longer histories of one connection, with saves of other connection fields
LongConnection ==
    [disk |-> Only(1, "open"),
     buttons |-> {"Connect", "Disconnect", "Execute", "CancelExecute", "Edit", "Save"},
     bodies |-> {"prompted"}, operations |-> 5, writes |-> {}]

\* The same with Reconnect, and with saves that keep the session
Reconnecting ==
    [LongConnection EXCEPT !.buttons = @ \cup {"Reconnect"}, !.bodies = @ \cup {"labelled"},
                           !.operations = 4]

\* Long enough for a statement that a Disconnect overtakes to meet a Reconnect, and
\* for another Disconnect to cancel that
Overtaken ==
    [disk |-> Only(1, "open"),
     buttons |-> {"Connect", "Disconnect", "Reconnect", "Execute", "CancelExecute"},
     bodies |-> {}, operations |-> 7, writes |-> {}]

\* Deletions that are refused while the profile is being reconnected
Refused ==
    [disk |-> Only(1, "open"), buttons |-> {"Browse", "Reconnect", "Delete", "ConfirmDelete"},
     bodies |-> {}, operations |-> 6, writes |-> {}]

\* Prompts, rejected credentials and retries while the file is reloaded
Prompting ==
    [disk |-> Only(1, "prompted"),
     buttons |-> {"Connect", "Store", "CancelPrompt", "Retry",
                  "RecoverCredential", "Browse", "Reload"},
     bodies |-> {}, operations |-> 5, writes |-> {Only(1, "renamed"), Unreadable}]

MCScenarios ==
    {EveryButton(Only(1, "prompted"), {Only(1, "open"), Unreadable}),
     EveryButton(Only(2, "open"), {Only(1, "open")}),
     LongConnection, Reconnecting, Overtaken, Refused, Prompting}

\* A result, a Disconnect and what the card says in the end
DisconnectScenarios ==
    {[disk |-> Only(1, "open"), buttons |-> {"Connect", "Disconnect", "Execute"}, bodies |-> {},
      operations |-> 4, writes |-> {}]}
=============================================================================
