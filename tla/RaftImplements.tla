-------------------------- MODULE RaftImplements ----------------------------
(***************************************************************************)
(* Raft.tla implements ReplicatedLog: the decided sequence is the log of a *)
(* node with the greatest commit index, up to that index, and delivered is *)
(* what LogEntryCommitted has handed out.                                  *)
(***************************************************************************)
EXTENDS Raft

\* A node that has committed most.
FurthestCommitted ==
    CHOOSE s \in Server : \A t \in Server : node[t].commitIndex <= node[s].commitIndex

Decided == Upto(node[FurthestCommitted].log, node[FurthestCommitted].commitIndex)

Delivered == [s \in Server |-> node[s].applied]

Abstract == INSTANCE ReplicatedLog WITH decided <- Decided, delivered <- Delivered

\* The nodes of a cluster hand out one growing sequence, whatever elections,
\* delays and truncations happen in between, until a Start drops a vote.
ImplementsReplicatedLog ==
    Abstract!Init /\ [][NoVoteForgotten' => Abstract!Next]_(Abstract!vars)

=============================================================================
