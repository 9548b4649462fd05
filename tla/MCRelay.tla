------------------------------ MODULE MCRelay ------------------------------
\* TLC instance of Relay.  Connections and sessions are interchangeable.
EXTENDS Relay, TLC

Interchangeable == Permutations(Conns) \cup Permutations(Sessions)
============================================================================
