------------------------------ MODULE MCSignal ------------------------------
(* Small instances of Signal for TLC. *)
EXTENDS Signal

CONSTANTS t1, t2

MCNormal == [priority |-> 1, group |-> "none", once |-> FALSE]
MCHigh == [priority |-> 2, group |-> "g", once |-> FALSE]
MCOnce == [priority |-> 1, group |-> "none", once |-> TRUE]
MCGroups == {"g"}
MCPolicies == {"Continue", "Stop"}
MCContinue == {"Continue"}

\* Every operation by a single thread and by its callbacks.
MCAllOps == {"connect", "disconnect", "drop", "all", "group", "emit"}
MCSoloThreads == {t1}
MCSoloOps == [t \in Threads |-> MCAllOps]
MCSoloRequests == {MCNormal, MCHigh, MCOnce}

MCPair == {t1, t2}
\* Both threads connect and emit, one of them also disconnects.
MCPairOps == [t \in Threads |-> IF t = t1 THEN {"connect", "emit"}
                                ELSE {"connect", "disconnect", "emit"}]
MCPairRequests == {MCNormal, MCOnce}
MCNoOps == {}

=============================================================================
