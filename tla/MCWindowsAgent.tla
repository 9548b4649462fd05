--------------------------- MODULE MCWindowsAgent ---------------------------
(* Runs, connections and sessions are interchangeable.  A behaviour changes *)
(* the server once, or clicks Reconnect once.                              *)
EXTENDS WindowsAgent, TLC

OneChangeOrClick == {[starts |-> 2, clicks |-> 0], [starts |-> 1, clicks |-> 1]}
\* For one Run.
TwoClicks == {[starts |-> 1, clicks |-> 2]}

AgentSymmetry ==
    Permutations(Runs) \cup Permutations(Conns) \cup Permutations(Sessions)
=============================================================================
