--------------------------- MODULE RaftSubmitRace ---------------------------
(***************************************************************************)
(* SubmitCommand called by several threads of one leader, as               *)
(* ConsensusProofTest and a service with many requests call it.  The entry *)
(* is built with Index = Log.Count + 1 and added to the list afterwards,   *)
(* without a lock, so another thread may add in between.                   *)
(*                                                                         *)
(* One leader of one term and one follower, both alive; an AppendEntries   *)
(* call is one step.  The follower runs the loop of AppendEntries as it    *)
(* stands, because MergeLog of RaftNode.tla presumes that indexes are      *)
(* positions, which is what is at stake.  The list itself is taken to      *)
(* survive concurrent Add calls (List<T> does not promise even that).      *)
(***************************************************************************)
EXTENDS RaftNode
LOCAL INSTANCE SequencesExt

CONSTANTS leader, follower   \* the two members of Server

VARIABLES
    node,      \* the fields of both nodes
    pending    \* pending[c]: the entry a thread has built for command c, or Nil

raceVars == <<node, pending>>

\* A leader elected in term 1 with empty logs.
LeaderNode ==
    [currentTerm |-> 1, votedFor |-> leader, log |-> <<>>, commitIndex |-> 0,
     lastApplied |-> 0, state |-> Leader, currentLeader |-> leader,
     votesReceived |-> Server, nextIndex |-> [p \in Server |-> 1],
     matchIndex |-> [p \in Server |-> 0], applied |-> <<>>]

Init ==
    /\ node = [s \in Server |-> IF s = leader THEN LeaderNode
                                ELSE [LeaderNode EXCEPT !.state = Follower]]
    /\ pending = [c \in Command |-> Nil]

Submitted(c) == \E i \in 1..Len(node[leader].log) : node[leader].log[i].command = c

\* The thread finds the node leading and builds its entry.
BuildEntry(c) ==
    /\ pending[c] = Nil /\ ~Submitted(c)
    /\ pending' = [pending EXCEPT ![c] =
                     [term |-> 1, index |-> Len(node[leader].log) + 1, command |-> c]]
    /\ UNCHANGED node

\* The thread adds it.
AddEntry(c) ==
    /\ pending[c] # Nil
    /\ node' = [node EXCEPT ![leader].log = Append(@, pending[c])]
    /\ pending' = [pending EXCEPT ![c] = Nil]

\* "if (entry.Index > Log.Count) Log.Add(entry)", entry by entry.
AddNew(log, entries) ==
    FoldLeft(LAMBDA l, e : IF e.index > Len(l) THEN Append(l, e) ELSE l, log, entries)

Receive(n, m) ==
    LET a == [n EXCEPT !.log = AddNew(@, m.entries)]
    IN  IF ~HasPrevious(n.log, m) THEN n
        ELSE IF m.leaderCommit > n.commitIndex
             THEN ApplyCommittedEntries([a EXCEPT
                      !.commitIndex = Lesser(m.leaderCommit, LastNewIndex(m))])
             ELSE a

\* A heartbeat, or the replication SubmitCommand started.
Replicate ==
    LET m == AppendRequest(leader, node[leader], follower)
    IN  node' = [node EXCEPT
            ![follower] = Receive(@, m),
            ![leader] = ProcessAppendEntriesResult(leader, @, m, 1,
                            HasPrevious(node[follower].log, m))]
        /\ UNCHANGED pending

Next ==
    \/ \E c \in Command : BuildEntry(c)
    \/ \E c \in Command : AddEntry(c)
    \/ Replicate

Spec == Init /\ [][Next]_raceVars

\* README.md:40, "every node sees the same sequence": both nodes hand out the
\* same entry at one place of the sequence.
SameSequence ==
    \A k \in 1..Lesser(Len(node[leader].applied), Len(node[follower].applied)) :
        node[leader].applied[k] = node[follower].applied[k]

=============================================================================
