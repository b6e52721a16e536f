---------------------------- MODULE RaftVoteRace ----------------------------
(***************************************************************************)
(* RequestVote called on one node by the tasks of two candidates at the    *)
(* same time.  SendRequestVoteRPCs runs on the thread pool and the method  *)
(* takes no lock, so the condition of Raft.cs:178-182 and the assignment   *)
(* of line 184 are steps of their own here, where Raft.tla has one.        *)
(*                                                                         *)
(* Every node starts an election at most once; each pair of candidate and  *)
(* peer has one call, whose request is made when the election starts.      *)
(***************************************************************************)
EXTENDS RaftNode

CONSTANT MaxTerm   \* bound on terms

VARIABLES
    node,   \* the fields of the nodes
    call    \* call[c][v]: where the call of c on v stands

raceVars == <<node, call>>

InitNode ==
    [currentTerm |-> 0, votedFor |-> Nil, log |-> <<>>, commitIndex |-> 0,
     lastApplied |-> 0, state |-> Follower, currentLeader |-> Nil,
     votesReceived |-> {}, nextIndex |-> [p \in Server |-> 1],
     matchIndex |-> [p \in Server |-> 0], applied |-> <<>>]

NoCall == [at |-> "none", term |-> 0]

Init ==
    /\ node = [s \in Server |-> InitNode]
    /\ call = [c \in Server |-> [v \in Server |-> NoCall]]

\* The election timeout elapses, and the requests are on their way.
ElectionTimeout(c) ==
    /\ node[c].state # Leader /\ node[c].currentTerm < MaxTerm
    /\ \A v \in Server : call[c][v].at = "none"
    /\ node' = [node EXCEPT ![c] = ConvertToCandidate(c, @)]
    /\ call' = [call EXCEPT ![c] = [v \in Server |->
                   IF v = c THEN NoCall
                   ELSE [at |-> "sent", term |-> node[c].currentTerm + 1]]]

\* The voter adopts the term and looks at VotedFor and its log; a refusal is
\* answered, and the answer processed, at once.
CheckVote(c, v) ==
    LET m == [VoteRequest(c, node[c], v) EXCEPT !.term = call[c][v].term]
        voter == AdoptTerm(node[v], m.term)
        granting == GrantsVote(node[v], m)
    IN  /\ call[c][v].at = "sent"
        /\ node' = [node EXCEPT
                ![v] = voter,
                ![c] = IF granting THEN @
                       ELSE ProcessRequestVoteResult(c, @, v, voter.currentTerm, FALSE)]
        /\ call' = [call EXCEPT ![c][v].at = IF granting THEN "granting" ELSE "done"]

\* It sets VotedFor, and the candidate counts the vote.
GrantVote(c, v) ==
    LET voter == [node[v] EXCEPT !.votedFor = c]
    IN  /\ call[c][v].at = "granting"
        /\ node' = [node EXCEPT ![v] = voter,
                       ![c] = ProcessRequestVoteResult(c, @, v, voter.currentTerm, TRUE)]
        /\ call' = [call EXCEPT ![c][v].at = "done"]

Next ==
    \/ \E c \in Server : ElectionTimeout(c)
    \/ \E c, v \in Server : CheckVote(c, v)
    \/ \E c, v \in Server : GrantVote(c, v)

Spec == Init /\ [][Next]_raceVars

\* README.md:90-91, "one test per safety property in section 5 of the paper:
\* Election Safety": two nodes that lead at one time do not lead one term.
OneLeaderPerTerm ==
    \A s, t \in Server :
        node[s].state = Leader /\ node[t].state = Leader
            /\ node[s].currentTerm = node[t].currentTerm => s = t

=============================================================================
