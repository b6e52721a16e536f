-------------------------------- MODULE Raft --------------------------------
(***************************************************************************)
(* The consensus library of dotnet/Raft/Raft.Client (Raft.cs): leader      *)
(* election, log replication and commitment as the C# code performs them.  *)
(*                                                                         *)
(* Three traits of the code shape the model.                               *)
(*   - An RPC is a method call on the peer object, made one Task.Delay(1)  *)
(*     after its arguments were built.  The peer's handler and the         *)
(*     processing of its result run back to back on the caller's thread:   *)
(*     requests are in flight (rpcs), replies never are.                   *)
(*   - ConvertToCandidate leaves the sending of RequestVote to Task.Run;   *)
(*     the task reads the term and the log only when it runs (voteTasks).  *)
(*   - Node objects take no lock.  This module takes the code between two  *)
(*     awaits as one step; RaftSubmitRace splits it.                       *)
(*                                                                         *)
(* Nodes of one shared registry are constructed, and each is Started once  *)
(* at some time after.  A constructed node answers its peers at once; what *)
(* is sent to a node before that is dropped.  Start makes it a follower    *)
(* without a vote, in the term it is in: a vote it has given in that term  *)
(* is forgotten.  Most properties hold while that has not happened.        *)
(*                                                                         *)
(* What LogEntryCommitted has handed out (applied), who won which term     *)
(* (elections) and the terms of forgotten votes are history.  Wall-clock   *)
(* time is abstracted: an election timeout may elapse at any moment a      *)
(* started node is not the leader.                                         *)
(***************************************************************************)
EXTENDS RaftNode, Bags

CONSTANTS
    MaxTerm,     \* bound: no election starts a term above it
    MaxLog,      \* bound: no leader appends beyond this length
    MaxInFlight  \* bound: requests in flight at once

ASSUME BoundAssumption == MaxTerm \in Nat /\ MaxLog \in Nat /\ MaxInFlight \in Nat

VARIABLES
    node,       \* the fields of each Raft object
    registry,   \* the nodes in the shared _clusterRegistry
    started,    \* the nodes whose Start has been called
    voteTasks,  \* SendRequestVoteRPCs tasks queued and not yet run, per node
    rpcs,       \* requests whose Task.Delay has not elapsed
    elections,  \* history: [term, leader, votes] of every election won
    forgotten   \* history: the terms in which a Start dropped a vote

vars == <<node, registry, started, voteTasks, rpcs, elections, forgotten>>

Election == [term : Nat, leader : Server, votes : SUBSET Server]

TypeOK ==
    /\ node \in [Server -> NodeState]
    /\ registry \subseteq Server
    /\ started \subseteq registry
    /\ voteTasks \in [Server -> Nat]
    /\ DOMAIN rpcs \subseteq RequestVoteArgs \cup AppendEntriesArgs
    /\ elections \subseteq Election
    /\ forgotten \subseteq Nat

InFlight == BagCardinality(rpcs)

-----------------------------------------------------------------------------
(* Initial state *)

\* The field initialisers and the constructor.
InitNode ==
    [currentTerm |-> 0, votedFor |-> Nil, log |-> <<>>, commitIndex |-> 0,
     lastApplied |-> 0, state |-> Follower, currentLeader |-> Nil,
     votesReceived |-> {}, nextIndex |-> [p \in Server |-> 1],
     matchIndex |-> [p \in Server |-> 0], applied |-> <<>>]

Init ==
    /\ node = [s \in Server |-> InitNode]
    /\ registry = {} /\ started = {}
    /\ voteTasks = [s \in Server |-> 0]
    /\ rpcs = EmptyBag
    /\ elections = {} /\ forgotten = {}

-----------------------------------------------------------------------------
(* Actions *)

\* The constructor puts the node into the registry: from now on it answers.
Construct(s) ==
    /\ s \notin registry
    /\ registry' = registry \cup {s}
    /\ UNCHANGED <<node, started, voteTasks, rpcs, elections, forgotten>>

\* Start: ConvertToFollower(CurrentTerm), which drops the vote of that term, and
\* the two loops.
Start(s) ==
    /\ s \in registry \ started
    /\ started' = started \cup {s}
    /\ node' = [node EXCEPT ![s] = ConvertToFollower(@, @.currentTerm)]
    /\ forgotten' = IF node[s].votedFor = Nil THEN forgotten
                    ELSE forgotten \cup {node[s].currentTerm}
    /\ UNCHANGED <<registry, voteTasks, rpcs, elections>>

\* ElectionTimeoutLoop, which Start begins, finds the timeout elapsed: start an
\* election and queue the task that asks for votes.
ElectionTimeout(s) ==
    /\ s \in started
    /\ node[s].state # Leader
    /\ node[s].currentTerm < MaxTerm
    /\ node' = [node EXCEPT ![s] = ConvertToCandidate(s, node[s])]
    /\ voteTasks' = [voteTasks EXCEPT ![s] = @ + 1]
    /\ UNCHANGED <<registry, started, rpcs, elections, forgotten>>

\* The queued task runs.  It looks at the term and the log of now, and not
\* at State: whoever the node has become, it asks for votes in its name.
SendRequestVoteRPCs(s) ==
    /\ voteTasks[s] > 0
    /\ InFlight + Cardinality(Peers(s)) <= MaxInFlight
    /\ voteTasks' = [voteTasks EXCEPT ![s] = @ - 1]
    /\ rpcs' = rpcs (+) SetToBag({VoteRequest(s, node[s], p) : p \in Peers(s)})
    /\ UNCHANGED <<node, registry, started, elections, forgotten>>

\* A client's call on a leader.  The replication it triggers is a
\* SendHeartbeats step, which ReplicateToFollowers repeats word for word.
SubmitCommand(s, command) ==
    /\ node[s].state = Leader
    /\ Len(node[s].log) < MaxLog
    /\ node' = [node EXCEPT ![s].log =
                    Append(@, [term |-> node[s].currentTerm,
                               index |-> Len(@) + 1,
                               command |-> command])]
    /\ UNCHANGED <<registry, started, voteTasks, rpcs, elections, forgotten>>

\* The heartbeat interval elapses, or the task of ConvertToLeader or
\* SubmitCommand runs: AppendEntries to every peer.
SendHeartbeats(s) ==
    /\ node[s].state = Leader
    /\ InFlight + Cardinality(Peers(s)) <= MaxInFlight
    /\ rpcs' = rpcs (+) SetToBag({AppendRequest(s, node[s], p) : p \in Peers(s)})
    /\ UNCHANGED <<node, registry, started, voteTasks, elections, forgotten>>

\* The delay of a request to a node that is not in the registry elapses.
RPCUnreachable(m) ==
    /\ m \in DOMAIN rpcs
    /\ m.to \notin registry
    /\ rpcs' = rpcs (-) SetToBag({m})
    /\ UNCHANGED <<node, registry, started, voteTasks, elections, forgotten>>

\* The peer votes, and the caller counts the vote at once.
AskVote(m) ==
    /\ LET voter  == RequestVote(node[m.to], m)
           caller == ProcessRequestVoteResult(m.from, node[m.from], m.to,
                         voter.currentTerm, GrantsVote(node[m.to], m))
       IN  /\ node' = [node EXCEPT ![m.to] = voter, ![m.from] = caller]
           /\ elections' =
                IF caller.state = Leader /\ node[m.from].state # Leader
                THEN elections \cup {[term |-> caller.currentTerm,
                                      leader |-> m.from,
                                      votes |-> caller.votesReceived]}
                ELSE elections
    /\ rpcs' = rpcs (-) SetToBag({m})
    /\ UNCHANGED <<registry, started, voteTasks, forgotten>>

\* The delay of a RequestVote elapses.
RequestVoteRPC(m) ==
    /\ m \in DOMAIN rpcs
    /\ m.type = "RequestVote"
    /\ m.to \in registry
    /\ AskVote(m)

\* The delay of an AppendEntries elapses.
AppendEntriesRPC(m) ==
    /\ m \in DOMAIN rpcs
    /\ m.type = "AppendEntries"
    /\ m.to \in registry
    /\ LET receiver == AppendEntries(node[m.to], m)
           caller   == ProcessAppendEntriesResult(m.from, node[m.from], m,
                           receiver.currentTerm, AcceptsEntries(node[m.to], m))
       IN  node' = [node EXCEPT ![m.to] = receiver, ![m.from] = caller]
    /\ rpcs' = rpcs (-) SetToBag({m})
    /\ UNCHANGED <<registry, started, voteTasks, elections, forgotten>>

Next ==
    \/ \E s \in Server : Construct(s)
    \/ \E s \in Server : Start(s)
    \/ \E s \in Server : ElectionTimeout(s)
    \/ \E s \in Server : SendRequestVoteRPCs(s)
    \/ \E s \in Server, c \in Command : SubmitCommand(s, c)
    \/ \E s \in Server : SendHeartbeats(s)
    \/ \E m \in DOMAIN rpcs : RPCUnreachable(m)
    \/ \E m \in DOMAIN rpcs : RequestVoteRPC(m)
    \/ \E m \in DOMAIN rpcs : AppendEntriesRPC(m)

Spec == Init /\ [][Next]_vars

-----------------------------------------------------------------------------
(* Safety *)

\* No Start has dropped a vote: every node was started before it gave one.
NoVoteForgotten == forgotten = {}

\* At most one node wins the election of a term, unless a Start dropped a vote
\* of that very term.  What keeps it true spans RequestVote (one vote per term),
\* the late SendRequestVoteRPCs task and the counting in
\* ProcessRequestVoteResult.
ElectionSafety ==
    \A e, f \in elections :
        e.term = f.term /\ e.term \notin forgotten => e.leader = f.leader

\* RaftSpecificationTests.cs:10, "At most one leader can be elected in a given
\* term", whenever its nodes are started.
OneLeaderPerTerm ==
    \A e, f \in elections : e.term = f.term => e.leader = f.leader

\* Two logs that hold an entry of one term at one index hold the same entries
\* up to it: the consistency check of AppendEntries and its truncation, with
\* requests delayed across terms and re-elections.  And the Index a leader
\* stored in an entry, which AppendEntries compares with places, is the entry's
\* place in every log and every request.  Like the properties below, it is said until
\* a Start drops a vote: then a second leader of one term may write over what the
\* first appended, or committed.
LogMatching ==
    NoVoteForgotten =>
      /\ \A s, t \in Server : \A i \in 1..Lesser(Len(node[s].log), Len(node[t].log)) :
            node[s].log[i].term = node[t].log[i].term
                => Upto(node[s].log, i) = Upto(node[t].log, i)
      /\ \A s \in Server : \A i \in 1..Len(node[s].log) : node[s].log[i].index = i
      /\ \A m \in DOMAIN rpcs : m.type = "AppendEntries" =>
            \A i \in 1..Len(m.entries) : m.entries[i].index = m.prevLogIndex + i

\* A leader holds whatever any node of a term no newer than its own has
\* committed: IsLogUpToDate against the own-term rule of UpdateCommitIndex.
LeaderCompleteness ==
    NoVoteForgotten =>
      \A l, s \in Server :
        node[l].state = Leader /\ node[l].currentTerm >= node[s].currentTerm
            => Upto(node[l].log, node[s].commitIndex)
                   = Upto(node[s].log, node[s].commitIndex)

\* A committed prefix is held by a majority, and still is after every later
\* truncation: no minority of logs decides what was committed.
CommittedOnMajority ==
    NoVoteForgotten =>
      \A s \in Server :
        LET k == node[s].commitIndex
        IN  IsMajority({p \in Server : /\ Len(node[p].log) >= k
                                       /\ Upto(node[p].log, k) = Upto(node[s].log, k)})

\* No two nodes hand different entries to their state machines at one place.
StateMachineSafety ==
    NoVoteForgotten =>
      \A s, t \in Server :
        \A k \in 1..Lesser(Len(node[s].applied), Len(node[t].applied)) :
            node[s].applied[k] = node[t].applied[k]

\* What a leader believes replicated on a peer of its term is there
\* ("known to be replicated on server", Raft.cs:37), however late and
\* reordered the replies arrived.
MatchIndexSound ==
    NoVoteForgotten =>
      \A l, p \in Server :
        /\ node[l].state = Leader
        /\ p # l
        /\ node[p].currentTerm = node[l].currentTerm
        => LET k == node[l].matchIndex[p]
           IN  /\ k <= Len(node[l].log) /\ k <= Len(node[p].log)
               /\ Upto(node[p].log, k) = Upto(node[l].log, k)

-----------------------------------------------------------------------------
(* Action properties *)

\* Terms only grow, and a vote, once given, stands until the term changes or the
\* Start of its voter: of all that happens to a node within a term, nothing else
\* lets it vote again.
VotesKept ==
    [][\A s \in Server :
        /\ node'[s].currentTerm >= node[s].currentTerm
        /\ node'[s].currentTerm = node[s].currentTerm /\ node[s].votedFor # Nil
               => node'[s].votedFor = node[s].votedFor \/ s \in started' \ started]_vars

\* A leader never loses or changes an entry of its log while it leads a term,
\* though AppendEntries of another node may reach it.
LeaderAppendOnly ==
    [][\A s \in Server :
        /\ NoVoteForgotten'
        /\ node[s].state = Leader
        /\ node'[s].state = Leader
        /\ node'[s].currentTerm = node[s].currentTerm
        => Upto(node'[s].log, Len(node[s].log)) = node[s].log]_vars

-----------------------------------------------------------------------------
(* Liveness *)

\* The delay of some request from s to p elapses.
Deliver(s, p) ==
    \E m \in DOMAIN rpcs :
        m.from = s /\ m.to = p
            /\ (RPCUnreachable(m) \/ RequestVoteRPC(m) \/ AppendEntriesRPC(m))

\* The thread pool runs queued tasks and elapsed delays, HeartbeatLoop never
\* ends.  SF where only the bound MaxInFlight interrupts what the code has
\* always enabled.  No fairness for elections or clients.
Fairness ==
    /\ \A s, p \in Server : WF_vars(Deliver(s, p))
    /\ \A s \in Server : SF_vars(SendRequestVoteRPCs(s))
    /\ \A s \in Server : SF_vars(SendHeartbeats(s))

FairSpec == Spec /\ Fairness

\* An entry a leader appended in its term is handed out by every node the
\* leader can reach, unless it stops leading that term: catching up through
\* StepBack, committing, and the commit index of the next heartbeat.  Or unless a
\* vote was dropped: a second leader of the term may cut what this one appended.
EventuallyApplied ==
    \A l, p \in Server : \A i \in 1..MaxLog :
        /\ node[l].state = Leader
        /\ p \in registry
        /\ i <= Len(node[l].log)
        /\ node[l].log[i].term = node[l].currentTerm
        ~> node[l].state # Leader \/ node[p].lastApplied >= i \/ ~NoVoteForgotten

=============================================================================
