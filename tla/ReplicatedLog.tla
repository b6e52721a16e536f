--------------------------- MODULE ReplicatedLog ----------------------------
(***************************************************************************)
(* What the Raft library promises its user (dotnet/Raft/README.md, "every  *)
(* node sees the same sequence"): there is one sequence of decided         *)
(* entries, it only ever grows at its end, and every node hands out a      *)
(* growing prefix of it.  One step may decide and deliver several entries, *)
(* on more than one node.                                                  *)
(***************************************************************************)
EXTENDS Naturals, Sequences

CONSTANT Server

VARIABLES
    decided,    \* the sequence of entries decided so far
    delivered   \* delivered[s]: what node s has handed to its state machine

vars == <<decided, delivered>>

\* The sequence b continues the sequence a.
Continues(b, a) == Len(a) <= Len(b) /\ SubSeq(b, 1, Len(a)) = a

Init ==
    /\ decided = <<>>
    /\ delivered = [s \in Server |-> <<>>]

Next ==
    /\ Continues(decided', decided)
    /\ DOMAIN delivered' = Server
    /\ \A s \in Server : /\ Continues(delivered'[s], delivered[s])
                         /\ Continues(decided', delivered'[s])

Spec == Init /\ [][Next]_vars

=============================================================================
