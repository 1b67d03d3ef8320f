------------------------------- MODULE MCShmScan -------------------------------
EXTENDS ShmScan

\* a is always with the tool, b never.
MCPlaces == {{"a"}, {"a", "c"}}

\* An ordinary machine, one where /dev/shm cannot be listed, and a restricted one: no procfs,
\* and the lock of a port that is not the tool's own cannot be opened.
Machine(sharing, listed) ==
  [sharing |-> sharing, listed |-> listed, procfs |-> TRUE, unreadable |-> {}]
MCMachines ==
  {Machine(sharing, listed) : sharing \in {"on", "off"}, listed \in BOOLEAN}
    \cup {[sharing |-> "off", listed |-> TRUE, procfs |-> FALSE, unreadable |-> {2}]}
================================================================================
