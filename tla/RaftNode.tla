------------------------------ MODULE RaftNode ------------------------------
(***************************************************************************)
(* One node of dotnet/Raft/Raft.Client: the fields of a Raft object and    *)
(* its methods, each a function from the fields before the call to the     *)
(* fields after it.  Raft.tla lets the nodes of a cluster call each other. *)
(*                                                                         *)
(* An operator marked Fault is the method after it with a bug; the runs    *)
(* use it to show that a property can fail.                                *)
(***************************************************************************)
EXTENDS Naturals, FiniteSets, Sequences

CONSTANTS
    Server,      \* ClusterMembers, the same list on every node
    Command,     \* the strings clients submit
    Nil          \* the empty string of VotedFor and CurrentLeader

ASSUME ServerAssumption == IsFiniteSet(Server) /\ Server # {}
ASSUME NilAssumption == Nil \notin Server

Follower  == "Follower"
Candidate == "Candidate"
Leader    == "Leader"

LogEntry == [term : Nat, index : Nat, command : Command]

NodeState ==
    [currentTerm   : Nat,
     votedFor      : Server \cup {Nil},
     log           : Seq(LogEntry),
     commitIndex   : Nat,
     lastApplied   : Nat,
     state         : {Follower, Candidate, Leader},
     currentLeader : Server \cup {Nil},
     votesReceived : SUBSET Server,
     nextIndex     : [Server -> Nat \ {0}],
     matchIndex    : [Server -> Nat],
     applied       : Seq(LogEntry)]

RequestVoteArgs ==
    [type : {"RequestVote"}, from : Server, to : Server, term : Nat,
     lastLogIndex : Nat, lastLogTerm : Nat]

AppendEntriesArgs ==
    [type : {"AppendEntries"}, from : Server, to : Server, term : Nat,
     prevLogIndex : Nat, prevLogTerm : Nat, entries : Seq(LogEntry),
     leaderCommit : Nat]

-----------------------------------------------------------------------------
(* Helpers *)

Lesser(a, b) == IF a < b THEN a ELSE b

LastTerm(log) == IF log = <<>> THEN 0 ELSE log[Len(log)].term

\* The first k entries of a log (or all of them).
Upto(log, k) == SubSeq(log, 1, Lesser(k, Len(log)))

\* votes > ClusterMembers.Count / 2, an integer division.
IsMajority(S) == Cardinality(S) > Cardinality(Server) \div 2

Peers(s) == Server \ {s}

-----------------------------------------------------------------------------
(* The methods of a node, as functions from its fields to its fields *)

ConvertToFollower(n, term) ==
    [n EXCEPT !.currentTerm = term, !.votedFor = Nil, !.state = Follower]

\* Fault: a request of the node's own term converts it too.
AdoptTermAlways(n, term) ==
    IF term >= n.currentTerm THEN ConvertToFollower(n, term) ELSE n

\* Every handler and result first adopts a newer term.
AdoptTerm(n, term) ==
    IF term > n.currentTerm THEN ConvertToFollower(n, term) ELSE n

ConvertToCandidate(s, n) ==
    [n EXCEPT !.state = Candidate,
              !.currentTerm = @ + 1,
              !.votedFor = s,
              !.votesReceived = {s}]

ConvertToLeader(s, n) ==
    [n EXCEPT !.state = Leader,
              !.currentLeader = s,
              !.nextIndex = [p \in Server |-> Len(n.log) + 1],
              !.matchIndex = [p \in Server |-> 0]]

IsLogUpToDate(n, lastLogIndex, lastLogTerm) ==
    \/ lastLogTerm > LastTerm(n.log)
    \/ lastLogTerm = LastTerm(n.log) /\ lastLogIndex >= Len(n.log)

\* Fault: the candidate's log is not compared.
GrantsVoteAnyLog(n, m) ==
    /\ m.term >= n.currentTerm
    /\ AdoptTerm(n, m.term).votedFor \in {Nil, m.from}

GrantsVote(n, m) ==
    /\ m.term >= n.currentTerm
    /\ AdoptTerm(n, m.term).votedFor \in {Nil, m.from}
    /\ IsLogUpToDate(n, m.lastLogIndex, m.lastLogTerm)

\* RequestVote: the voter's fields after the call.
RequestVote(n, m) ==
    LET u == AdoptTerm(n, m.term)
    IN  IF GrantsVote(n, m) THEN [u EXCEPT !.votedFor = m.from] ELSE u

\* Fault: a vote granted in an earlier term counts.
ProcessRequestVoteResultAnyTerm(s, n, voter, resultTerm, granted) ==
    IF resultTerm > n.currentTerm THEN ConvertToFollower(n, resultTerm)
    ELSE IF n.state = Candidate /\ granted
         THEN LET c == [n EXCEPT !.votesReceived = @ \cup {voter}]
              IN  IF IsMajority(c.votesReceived) THEN ConvertToLeader(s, c) ELSE c
         ELSE n

\* ProcessRequestVoteResult, for the answer of voter at resultTerm.
ProcessRequestVoteResult(s, n, voter, resultTerm, granted) ==
    IF resultTerm > n.currentTerm THEN ConvertToFollower(n, resultTerm)
    ELSE IF n.state = Candidate /\ granted /\ resultTerm = n.currentTerm
         THEN LET c == [n EXCEPT !.votesReceived = @ \cup {voter}]
              IN  IF IsMajority(c.votesReceived) THEN ConvertToLeader(s, c) ELSE c
         ELSE n

\* The while loop: every entry between LastApplied and CommitIndex is handed
\* to LogEntryCommitted; an index past the log is counted and skipped.
ApplyCommittedEntries(n) ==
    IF n.lastApplied < n.commitIndex
    THEN [n EXCEPT
            !.lastApplied = n.commitIndex,
            !.applied = @ \o SubSeq(n.log, n.lastApplied + 1,
                                    Lesser(n.commitIndex, Len(n.log)))]
    ELSE n

\* Fault: the term at prevLogIndex is not compared.
HasPreviousAnyTerm(log, m) == m.prevLogIndex <= Len(log)

\* Whether the log holds an entry of prevLogTerm at prevLogIndex.
HasPrevious(log, m) ==
    \/ m.prevLogIndex = 0
    \/ /\ m.prevLogIndex <= Len(log)
       /\ log[m.prevLogIndex].term = m.prevLogTerm

\* Fault: no RemoveRange.
MergeLogUncut(log, prev, entries) ==
    log \o SubSeq(entries, Len(log) + 1 - prev, Len(entries))

\* The log after the two loops of AppendEntries: cut at the first entry that
\* conflicts with a new one, then extended by the new entries beyond its end.
\* (Entry indexes are places, which LogMatching checks.)
MergeLog(log, prev, entries) ==
    LET Conflict(i) == prev + i <= Len(log) /\ log[prev + i].term # entries[i].term
        kept == IF \E i \in 1..Len(entries) : Conflict(i)
                THEN SubSeq(log, 1, prev +
                        (CHOOSE i \in 1..Len(entries) :
                            Conflict(i) /\ \A j \in 1..(i - 1) : ~Conflict(j)) - 1)
                ELSE log
    IN  kept \o SubSeq(entries, Len(kept) + 1 - prev, Len(entries))

AcceptsEntries(n, m) == m.term >= n.currentTerm /\ HasPrevious(n.log, m)

LastNewIndex(m) ==
    IF m.entries = <<>> THEN m.prevLogIndex ELSE m.entries[Len(m.entries)].index

\* Fault: a request of an older term is not turned away.
AppendEntriesAnyTerm(n, m) ==
    LET u == [AdoptTerm(n, m.term) EXCEPT !.currentLeader = m.from]
    IN  IF HasPrevious(n.log, m)
        THEN [u EXCEPT !.log = MergeLog(@, m.prevLogIndex, m.entries)]
        ELSE u

\* AppendEntries: the receiver's fields after the call.  A Candidate of the
\* same term stays one.
AppendEntries(n, m) ==
    IF m.term < n.currentTerm THEN n
    ELSE LET u == [AdoptTerm(n, m.term) EXCEPT !.currentLeader = m.from]
             a == [u EXCEPT !.log = MergeLog(@, m.prevLogIndex, m.entries)]
         IN  IF ~HasPrevious(n.log, m) THEN u
             ELSE IF m.leaderCommit > n.commitIndex
                  THEN ApplyCommittedEntries([a EXCEPT
                           !.commitIndex = Lesser(m.leaderCommit, LastNewIndex(m))])
                  ELSE a

\* Fault: entries of earlier terms are counted (Figure 8 of the Raft paper).
CommittableAnyTerm(s, n) ==
    {k \in (n.commitIndex + 1)..Len(n.log) :
        IsMajority({s} \cup {p \in Peers(s) : n.matchIndex[p] >= k})}

\* The indexes UpdateCommitIndex finds replicated: an entry of the leader's
\* own term that a majority, the leader counted, is known to hold.
Committable(s, n) ==
    {k \in (n.commitIndex + 1)..Len(n.log) :
        /\ n.log[k].term = n.currentTerm
        /\ IsMajority({s} \cup {p \in Peers(s) : n.matchIndex[p] >= k})}

UpdateCommitIndex(s, n) ==
    IF n.state = Leader /\ Committable(s, n) # {}
    THEN ApplyCommittedEntries([n EXCEPT
            !.commitIndex = CHOOSE k \in Committable(s, n) :
                                \A j \in Committable(s, n) : j <= k])
    ELSE n

\* Fault: the log of now is read in place of the request's entries.
RecordMatchOfNow(n, m) ==
    IF m.entries = <<>> THEN n
    ELSE [n EXCEPT !.nextIndex[m.to] = Len(n.log) + 1,
                   !.matchIndex[m.to] = Len(n.log)]

\* What a successful reply of m.to says of its log.
RecordMatch(n, m) ==
    IF m.entries = <<>> THEN n
    ELSE [n EXCEPT !.nextIndex[m.to] = LastNewIndex(m) + 1,
                   !.matchIndex[m.to] = LastNewIndex(m)]

\* Fault: no Math.Max.
StepBackUnfloored(n, m) == [n EXCEPT !.nextIndex[m.to] = @ - 1]

\* Fault: nextIndex is not decremented.
StepBackNever(n, m) == n

\* A failed reply: step back by one entry, never below the first.
StepBack(n, m) ==
    [n EXCEPT !.nextIndex[m.to] = IF @ <= 1 THEN 1 ELSE @ - 1]

\* ProcessAppendEntriesResult, for the answer of m.to at resultTerm.
ProcessAppendEntriesResult(s, n, m, resultTerm, success) ==
    IF resultTerm > n.currentTerm THEN ConvertToFollower(n, resultTerm)
    ELSE IF n.state # Leader \/ resultTerm # n.currentTerm THEN n
         ELSE IF success THEN UpdateCommitIndex(s, RecordMatch(n, m))
              ELSE StepBack(n, m)

-----------------------------------------------------------------------------
(* The requests a node sends *)

VoteRequest(s, n, p) ==
    [type |-> "RequestVote", from |-> s, to |-> p, term |-> n.currentTerm,
     lastLogIndex |-> Len(n.log), lastLogTerm |-> LastTerm(n.log)]

AppendRequest(s, n, p) ==
    LET prev == n.nextIndex[p] - 1
    IN  [type |-> "AppendEntries", from |-> s, to |-> p, term |-> n.currentTerm,
         prevLogIndex |-> prev,
         prevLogTerm |-> IF prev \in 1..Len(n.log) THEN n.log[prev].term ELSE 0,
         entries |-> SubSeq(n.log, n.nextIndex[p], Len(n.log)),
         leaderCommit |-> n.commitIndex]

=============================================================================
