----------------------- MODULE ConfigWriterRefinement -----------------------
(***************************************************************************)
(* ConfigWriter implements AtomicConfig: the linearisation point of a call *)
(* is its rename.                                                          *)
(***************************************************************************)
EXTENDS ConfigWriter

AbstractResult(w) ==
    CASE outcome[w] = "Committed" -> "committed"
      [] outcome[w] = "CommittedDurabilityUnknown" -> "unknown"
      [] OTHER -> "error"

AbstractRequest(w) ==
    CASE pc[w] = "idle" -> [phase |-> "idle"]
      [] pc[w] = "done" -> [phase |-> "answered", result |-> AbstractResult(w)]
      [] pc[w] \in CommittedSteps -> [phase |-> "applied", seq |-> renamed[w]]
      [] OTHER -> [phase |-> "pending", job |-> job[w]]

Atomic == INSTANCE AtomicConfig WITH
    Callers <- Writers,
    store <- main, survivors <- mainSurvivors, count <- seq,
    request <- [w \in Writers |-> AbstractRequest(w)]

\* mutate_path is atomic: the file changes as if each committed call updated it
\* in one step between call and answer, starting from the content of that
\* moment, an error leaves no trace in the main file, and Committed survives
\* power loss.
IsAtomic == Atomic!Spec
=============================================================================
