-------------------------------- MODULE MCWatch --------------------------------
EXTENDS Watch

CONSTANTS p1, p2

\* A pair that changes its state, and one that the default view leaves out.
MCPairs == {p1, p2}
MCHidden == {p2}
MCStates == [k \in MCPairs |-> IF k = p1 THEN {"SHM", "UDPv4"} ELSE {"UDPv4"}]
================================================================================
