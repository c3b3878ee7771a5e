--------------------------- MODULE SourceContract ---------------------------
(***************************************************************************)
(* What the runtime relies on in an AcquisitionSource (receive.hpp): what  *)
(* start() and stop() may answer, and whether the source then still holds  *)
(* anything to be released.  "timeout" stands for Timeout and Stopping,    *)
(* "rejected" for a start that never touched the source.                   *)
(***************************************************************************)
VARIABLES source,   \* "idle" or "held"
          answer    \* the last call and its result

vars == <<source, answer>>

Init == source = "idle" /\ answer = <<"none", "none">>

(* A start that is rejected leaves the source as it was; one that fails may *)
(* have acquired a part.                                                    *)
Starts(r) == \/ r = "ok" /\ source = "idle" /\ source' = "held"
             \/ r = "rejected" /\ source' = source
             \/ r = "failed" /\ source' \in {source, "held"}

(* Only a source that is held reports a release, only one that is idle that *)
(* there was nothing to release.                                            *)
Stops(r) == \/ r = "ok" /\ source = "held" /\ source' = "idle"
            \/ r \in {"timeout", "failed"} /\ source' = source
            \/ r = "notRunning" /\ source = "idle" /\ source' = source

Next == \/ \E r \in {"ok", "rejected", "failed"} : Starts(r) /\ answer' = <<"start", r>>
        \/ \E r \in {"ok", "timeout", "failed", "notRunning"} : Stops(r) /\ answer' = <<"stop", r>>

Spec == Init /\ [][Next]_vars
=============================================================================
