---------------------------- MODULE MCPortCommit ----------------------------
(* Threads on either side of the port are interchangeable.                 *)
EXTENDS PortCommit, TLC

Symmetry == Permutations(Committer) \cup Permutations(Reader)

\* All signals with leaders that are undisturbed, and kills with anything between
\* two rounds of a leader.
Safe == {[signal |-> {"break", "suspend", "kill"}, window |-> {}],
         [signal |-> {"kill"}, window |-> {"commit", "signal"}]}

Kills == {[signal |-> {"kill"}, window |-> {}]}

\* No signals, and commits between two rounds.
Commits == {[signal |-> {}, window |-> {"commit"}]}
=============================================================================
