------------------------------- MODULE MCRaft -------------------------------
(* Raft.tla on a small cluster for TLC. *)
EXTENDS RaftImplements, TLC

\* Bound of raft_elections.  While no vote is dropped a node's task runs before its
\* next election timeout; in the rest, up to three terms and without entries, it
\* may lag behind.
ElectionBound ==
    \/ NoVoteForgotten /\ \A s \in Server : voteTasks[s] <= 1
    \/ \A s \in Server : node[s].log = << >> /\ node[s].currentTerm <= 3

\* Nodes and commands are interchangeable.
Symmetry == Permutations(Server) \cup Permutations(Command)
=============================================================================
