-------------------------- MODULE MCServerLifecycle --------------------------
(* Bounds for TLC: a call, an action stream and a health probe.            *)
EXTENDS ServerLifecycle

CONSTANTS call, stream, probe

MCRequests == {call, stream, probe}

MCKind == [r \in MCRequests |-> CASE r = call -> "call"
                                  [] r = stream -> "stream"
                                  [] r = probe -> "probe"]

=============================================================================
