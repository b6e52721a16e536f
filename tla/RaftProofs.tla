----------------------------- MODULE RaftProofs -----------------------------
(***************************************************************************)
(* What the methods of RaftNode.tla preserve, and what follows: Raft.tla   *)
(* is type correct, keeps votes and elects at most one leader per term,    *)
(* logs match, a leader never loses an entry and what it believes          *)
(* replicated is there, for every finite cluster, every bound and every    *)
(* order of the replies.                                                   *)
(*                                                                         *)
(* The election argument needs two facts of a method that turns the fields *)
(* n of a node into r: whether it Keeps the vote, and whether it is Quiet, *)
(* that is, leaves a standing candidacy as it was or ends it.  Logs and    *)
(* requests are compared as pieces of one log.                             *)
(*                                                                         *)
(* A Start may drop a vote.  What is said of votes leaves out the terms    *)
(* in which one did (VoteInv), and what is said of logs holds up to the    *)
(* first that does: every step before it is one of CalmNext (NextCalm).    *)
(***************************************************************************)
EXTENDS Raft, FiniteSetTheorems, SequenceTheorems, WellFoundedInduction, TLAPS

Standing(n) == n.state \in {Candidate, Leader}

Keeps(n, r) ==
    /\ r.currentTerm >= n.currentTerm
    /\ r.currentTerm = n.currentTerm /\ n.votedFor # Nil => r.votedFor = n.votedFor

Quiet(n, r) ==
    Standing(r) => /\ Standing(n)
                   /\ r.currentTerm = n.currentTerm
                   /\ r.votesReceived = n.votesReceived

\* The fields an election is about are untouched.
SameElection(n, r) ==
    /\ r.currentTerm = n.currentTerm
    /\ r.votedFor = n.votedFor
    /\ r.state = n.state
    /\ r.votesReceived = n.votesReceived

-----------------------------------------------------------------------------
(* Least and greatest elements, for the searches in MergeLog and            *)
(* UpdateCommitIndex                                                        *)

\* A set of naturals that is not empty has a least element.
LEMMA LeastNat ==
    ASSUME NEW T, T \subseteq Nat, T # {}
    PROVE  \E x \in T : \A y \in T : x <= y
<1>1. PICK x \in T : \A y \in T : ~(<<y, x>> \in OpToRel(<, Nat))
  BY NatLessThanWellFounded, WFMin
<1>2. \A y \in T : ~(y < x)
  BY <1>1 DEF OpToRel
<1> QED
  BY <1>2

\* A set of naturals that is bounded and not empty has a greatest element.
LEMMA GreatestNat ==
    ASSUME NEW T, NEW b \in Nat, T \subseteq 0..b, T # {}
    PROVE  \E x \in T : \A y \in T : y <= x
<1> DEFINE U == {b - x : x \in T}
<1>1. U \subseteq Nat /\ U # {}
  <2>1. \A x \in T : b - x \in Nat
    OBVIOUS
  <2>2. \A u \in U : u \in Nat
    BY <2>1, Zenon
  <2>3. PICK x \in T : TRUE
    BY Zenon
  <2>4. b - x \in U
    BY <2>3, Zenon
  <2> QED
    BY <2>2, <2>4, Zenon
<1>2. PICK u \in U : \A v \in U : u <= v
  <2> HIDE DEF U
  <2> QED BY <1>1, LeastNat
<1>3. PICK x \in T : u = b - x
  OBVIOUS
<1>4. \A y \in T : b - x <= b - y
  BY <1>2, <1>3
<1> QED
  BY <1>4

\* Two sets of voters that each hold a majority share a voter.
LEMMA MajoritiesMeet ==
    ASSUME NEW P, NEW Q, P \subseteq Server, Q \subseteq Server,
           IsMajority(P), IsMajority(Q)
    PROVE  P \cap Q # {}
<1>1. Cardinality(Server) \in Nat /\ Cardinality(P) \in Nat /\ Cardinality(Q) \in Nat
  BY ServerAssumption, FS_CardinalityType, FS_Subset
<1>2. Cardinality(P) + Cardinality(Q) > Cardinality(Server)
  BY <1>1 DEF IsMajority
<1> QED
  BY <1>2, ServerAssumption, FS_MajoritiesIntersect

-----------------------------------------------------------------------------
(* Conversions and votes *)

LEMMA AdoptTermFacts ==
    ASSUME NEW n \in NodeState, NEW t \in Nat
    PROVE  LET r == AdoptTerm(n, t)
           IN  /\ r \in NodeState
               /\ r.log = n.log
               /\ r.currentTerm >= t
               /\ t >= n.currentTerm => r.currentTerm = t
               /\ Keeps(n, r) /\ Quiet(n, r)
<1>1. CASE t > n.currentTerm
  <2> DEFINE r == [n EXCEPT !.currentTerm = t, !.votedFor = Nil, !.state = Follower]
  <2>1. AdoptTerm(n, t) = r
    BY <1>1 DEF AdoptTerm, ConvertToFollower
  <2>2. /\ r.log = n.log /\ r.currentTerm = t /\ r.state = Follower
        /\ n.currentTerm \in Nat
    BY DEF NodeState
  <2>3. r \in NodeState
    BY DEF NodeState
  <2>4. Keeps(n, r) /\ Quiet(n, r)
    BY <1>1, <2>2 DEF Keeps, Quiet, Standing, Follower, Candidate, Leader
  <2> QED
    BY <1>1, <2>1, <2>2, <2>3, <2>4
<1>2. CASE ~(t > n.currentTerm)
  <2>1. AdoptTerm(n, t) = n /\ n.currentTerm \in Nat
    BY <1>2 DEF AdoptTerm, NodeState
  <2> QED
    BY <1>2, <2>1 DEF Keeps, Quiet
<1> QED
  BY <1>1, <1>2

\* A candidate has moved to a new term and holds its own vote.
LEMMA ConvertToCandidateFacts ==
    ASSUME NEW s \in Server, NEW n \in NodeState
    PROVE  LET r == ConvertToCandidate(s, n)
           IN  /\ r \in NodeState
               /\ r.currentTerm = n.currentTerm + 1 /\ r.votedFor = s
               /\ r.votesReceived = {s}
               /\ Keeps(n, r)
<1> DEFINE term == n.currentTerm + 1
           votes == {s}
           r == [n EXCEPT !.state = Candidate, !.currentTerm = term,
                          !.votedFor = s, !.votesReceived = votes]
<1>1. n.currentTerm \in Nat /\ term \in Nat /\ votes \in SUBSET Server /\ term > n.currentTerm
  BY DEF NodeState
<1>2. ConvertToCandidate(s, n) = r
  BY DEF ConvertToCandidate
<1> HIDE DEF term, votes
<1>3. /\ r \in NodeState
      /\ r.currentTerm = term /\ r.votedFor = s /\ r.votesReceived = votes
  BY <1>1 DEF NodeState
<1> HIDE DEF r
<1>4. Keeps(n, r)
  BY <1>1, <1>3 DEF Keeps
<1> QED
  BY <1>2, <1>3, <1>4 DEF term, votes

LEMMA LastTermType ==
    ASSUME NEW log \in Seq(LogEntry)
    PROVE  LastTerm(log) \in Nat
<1>1. CASE log = <<>>
  BY <1>1 DEF LastTerm
<1>2. CASE log # <<>>
  <2>1. Len(log) \in 1..Len(log)
    BY <1>2
  <2>2. log[Len(log)] \in LogEntry
    BY <2>1
  <2> QED
    BY <1>2, <2>2 DEF LastTerm, LogEntry
<1> QED
  BY <1>1, <1>2

\* RequestVote keeps an earlier vote, and a granted vote is the voter's vote
\* in the term of the request.
LEMMA RequestVoteFacts ==
    ASSUME NEW n \in NodeState, NEW m \in RequestVoteArgs
    PROVE  LET r == RequestVote(n, m)
           IN  /\ r \in NodeState
               /\ Keeps(n, r) /\ Quiet(n, r)
               /\ GrantsVote(n, m) => r.currentTerm = m.term /\ r.votedFor = m.from
<1>1. m.term \in Nat /\ m.from \in Server
  BY DEF RequestVoteArgs
<1> DEFINE u == AdoptTerm(n, m.term)
<1>2. /\ u \in NodeState /\ Keeps(n, u) /\ Quiet(n, u)
      /\ m.term >= n.currentTerm => u.currentTerm = m.term
  BY <1>1, AdoptTermFacts, Zenon
<1> HIDE DEF u
<1>3. CASE GrantsVote(n, m)
  <2>1. RequestVote(n, m) = [u EXCEPT !.votedFor = m.from]
    BY <1>3 DEF RequestVote, u
  <2>2. u.votedFor \in {Nil, m.from} /\ m.term >= n.currentTerm
    BY <1>3 DEF GrantsVote, u
  <2> QED
    BY <1>1, <1>2, <1>3, <2>1, <2>2 DEF NodeState, Keeps, Quiet, Standing
<1>4. CASE ~GrantsVote(n, m)
  <2>1. RequestVote(n, m) = u
    BY <1>4 DEF RequestVote, u
  <2> QED
    BY <1>2, <1>4, <2>1
<1> QED
  BY <1>3, <1>4

\* A vote is counted by a standing candidate of its term only, and only a
\* majority of counted votes makes a leader.
LEMMA VoteResultFacts ==
    ASSUME NEW s \in Server, NEW n \in NodeState, NEW voter \in Server,
           NEW t \in Nat, NEW granted \in BOOLEAN
    PROVE  LET r == ProcessRequestVoteResult(s, n, voter, t, granted)
           IN  /\ r \in NodeState
               /\ Keeps(n, r)
               /\ \/ Quiet(n, r) /\ (r.state = Leader => n.state = Leader)
                  \/ /\ granted /\ t = n.currentTerm
                     /\ n.state = Candidate
                     /\ r.currentTerm = n.currentTerm
                     /\ r.votesReceived = n.votesReceived \cup {voter}
                     /\ r.state = Leader => IsMajority(r.votesReceived)
<1> DEFINE r == ProcessRequestVoteResult(s, n, voter, t, granted)
<1> SUFFICES /\ r \in NodeState
             /\ Keeps(n, r)
             /\ \/ Quiet(n, r) /\ (r.state = Leader => n.state = Leader)
                \/ /\ granted /\ t = n.currentTerm
                   /\ n.state = Candidate
                   /\ r.currentTerm = n.currentTerm
                   /\ r.votesReceived = n.votesReceived \cup {voter}
                   /\ r.state = Leader => IsMajority(r.votesReceived)
  OBVIOUS
<1>0. n.currentTerm \in Nat
  BY DEF NodeState
<1>1. CASE t > n.currentTerm
  <2>1. r = AdoptTerm(n, t)
    BY <1>1 DEF ProcessRequestVoteResult, AdoptTerm
  <2> HIDE DEF r
  <2>2. r \in NodeState /\ Keeps(n, r) /\ Quiet(n, r)
    BY <2>1, AdoptTermFacts
  <2>3. r.state = Follower
    BY <1>1, <2>1 DEF AdoptTerm, ConvertToFollower, NodeState
  <2> QED
    BY <2>2, <2>3 DEF Follower, Leader
<1>2. CASE ~(t > n.currentTerm) /\ n.state = Candidate /\ granted /\ t = n.currentTerm
  <2> DEFINE c == [n EXCEPT !.votesReceived = n.votesReceived \cup {voter}]
  <2>1. /\ c \in NodeState
        /\ c.currentTerm = n.currentTerm /\ c.votedFor = n.votedFor
        /\ c.state = n.state /\ c.log = n.log
        /\ c.votesReceived = n.votesReceived \cup {voter}
    BY DEF NodeState
  <2>2. r = IF IsMajority(c.votesReceived) THEN ConvertToLeader(s, c) ELSE c
    BY <1>2 DEF ProcessRequestVoteResult
  <2> HIDE DEF c, r
  <2>3. CASE IsMajority(c.votesReceived)
    <3>1. r = ConvertToLeader(s, c)
      BY <2>2, <2>3
    <3>2. Len(c.log) + 1 \in Nat \ {0}
      <4>1. c.log \in Seq(LogEntry)
        BY <2>1 DEF NodeState
      <4> QED
        BY <4>1
    <3>3. /\ r \in NodeState
          /\ r.currentTerm = c.currentTerm /\ r.votedFor = c.votedFor
          /\ r.votesReceived = c.votesReceived
      BY <2>1, <3>1, <3>2 DEF ConvertToLeader, NodeState
    <3> QED
      BY <1>0, <1>2, <2>1, <2>3, <3>3 DEF Keeps
  <2>4. CASE ~IsMajority(c.votesReceived)
    <3>1. r = c
      BY <2>2, <2>4
    <3> QED
      BY <1>0, <1>2, <2>1, <3>1 DEF Keeps, Candidate, Leader
  <2> QED
    BY <2>3, <2>4
<1>3. CASE ~(t > n.currentTerm) /\ ~(n.state = Candidate /\ granted /\ t = n.currentTerm)
  <2>1. r = n
    BY <1>3 DEF ProcessRequestVoteResult
  <2> QED
    BY <1>0, <2>1 DEF Keeps, Quiet
<1> QED
  BY <1>1, <1>2, <1>3

-----------------------------------------------------------------------------
(* Logs *)

\* Where two sequences of entries are cut and joined, entries remain.
LEMMA SubSeqType ==
    ASSUME NEW log \in Seq(LogEntry), NEW a \in Nat \ {0}, NEW b \in Int, b <= Len(log)
    PROVE  SubSeq(log, a, b) \in Seq(LogEntry)
<1>1. \A i \in 1..(1 + b - a) : i + a - 1 \in 1..Len(log)
  OBVIOUS
<1>2. \A i \in 1..(1 + b - a) : log[i + a - 1] \in LogEntry
  BY <1>1
<1> QED
  BY <1>2

\* The log after AppendEntries is a log again.
LEMMA MergeLogType ==
    ASSUME NEW log \in Seq(LogEntry), NEW entries \in Seq(LogEntry),
           NEW prev \in Nat, prev <= Len(log)
    PROVE  MergeLog(log, prev, entries) \in Seq(LogEntry)
<1> DEFINE Conflict(i) == prev + i <= Len(log) /\ log[prev + i].term # entries[i].term
           Least == CHOOSE i \in 1..Len(entries) :
                        Conflict(i) /\ \A j \in 1..(i - 1) : ~Conflict(j)
           kept == IF \E i \in 1..Len(entries) : Conflict(i)
                   THEN SubSeq(log, 1, prev + Least - 1) ELSE log
<1>1. kept \in Seq(LogEntry) /\ prev <= Len(kept)
  <2>1. CASE \E i \in 1..Len(entries) : Conflict(i)
    <3> DEFINE T == {i \in 1..Len(entries) : Conflict(i)}
    <3>1. T \subseteq Nat /\ T # {}
      BY <2>1
    <3>2. PICK i \in T : \A j \in T : i <= j
      <4> HIDE DEF T
      <4> QED BY <3>1, LeastNat
    <3>3. \A j \in 1..(i - 1) : j \in 1..Len(entries) /\ ~(i <= j)
      BY <3>2
    <3>4. i \in 1..Len(entries) /\ Conflict(i) /\ \A j \in 1..(i - 1) : ~Conflict(j)
      BY <3>2, <3>3
    <3> HIDE DEF Conflict
    <3>5. Least \in 1..Len(entries) /\ Conflict(Least)
      BY <3>4
    <3> HIDE DEF Least
    <3>6. prev + Least - 1 \in Nat /\ prev <= prev + Least - 1 /\ prev + Least - 1 <= Len(log)
      BY <3>5 DEF Conflict
    <3>7. /\ SubSeq(log, 1, prev + Least - 1) \in Seq(LogEntry)
          /\ Len(SubSeq(log, 1, prev + Least - 1)) = prev + Least - 1
      BY <3>6, SubSeqType
    <3> QED
      BY <2>1, <3>6, <3>7
  <2>2. CASE ~\E i \in 1..Len(entries) : Conflict(i)
    BY <2>2
  <2> QED
    BY <2>1, <2>2
<1>2. MergeLog(log, prev, entries) = kept \o SubSeq(entries, Len(kept) + 1 - prev, Len(entries))
  BY DEF MergeLog
<1> HIDE DEF kept
<1>3. Len(kept) + 1 - prev \in Nat \ {0}
  BY <1>1
<1>4. SubSeq(entries, Len(kept) + 1 - prev, Len(entries)) \in Seq(LogEntry)
  BY <1>3, SubSeqType
<1> QED
  BY <1>1, <1>2, <1>4

LEMMA ApplyCommittedFacts ==
    ASSUME NEW n \in NodeState
    PROVE  LET r == ApplyCommittedEntries(n)
           IN  r \in NodeState /\ SameElection(n, r) /\ r.log = n.log
<1> DEFINE more == SubSeq(n.log, n.lastApplied + 1, Lesser(n.commitIndex, Len(n.log)))
<1>1. CASE n.lastApplied < n.commitIndex
  <2>1. /\ n.log \in Seq(LogEntry) /\ n.applied \in Seq(LogEntry)
        /\ n.lastApplied \in Nat /\ n.commitIndex \in Nat
    BY DEF NodeState
  <2>2. /\ n.lastApplied + 1 \in Nat \ {0}
        /\ Lesser(n.commitIndex, Len(n.log)) \in Int
        /\ Lesser(n.commitIndex, Len(n.log)) <= Len(n.log)
    BY <2>1 DEF Lesser
  <2>3. more \in Seq(LogEntry)
    BY <2>1, <2>2, SubSeqType
  <2>4. n.applied \o more \in Seq(LogEntry)
    BY <2>1, <2>3
  <2>5. ApplyCommittedEntries(n) =
            [n EXCEPT !.lastApplied = n.commitIndex, !.applied = n.applied \o more]
    BY <1>1 DEF ApplyCommittedEntries
  <2> QED
    BY <2>1, <2>4, <2>5 DEF NodeState, SameElection
<1>2. CASE ~(n.lastApplied < n.commitIndex)
  BY <1>2 DEF ApplyCommittedEntries, SameElection
<1> QED
  BY <1>1, <1>2

LEMMA SameElectionFacts ==
    ASSUME NEW n \in NodeState, NEW r, SameElection(n, r)
    PROVE  Keeps(n, r) /\ Quiet(n, r)
<1>1. n.currentTerm \in Nat
  BY DEF NodeState
<1> QED
  BY <1>1 DEF SameElection, Keeps, Quiet, Standing

LEMMA LastNewIndexType ==
    ASSUME NEW m \in AppendEntriesArgs
    PROVE  LastNewIndex(m) \in Nat
<1>1. m.prevLogIndex \in Nat /\ m.entries \in Seq(LogEntry)
  BY DEF AppendEntriesArgs
<1>2. m.entries # <<>> => Len(m.entries) \in 1..Len(m.entries)
  BY <1>1
<1>3. m.entries # <<>> => m.entries[Len(m.entries)] \in LogEntry
  BY <1>1, <1>2
<1> QED
  BY <1>1, <1>3 DEF LastNewIndex, LogEntry

\* AppendEntries touches no vote and ends no candidacy of its own term.
LEMMA AppendEntriesFacts ==
    ASSUME NEW n \in NodeState, NEW m \in AppendEntriesArgs
    PROVE  LET r == AppendEntries(n, m)
           IN  r \in NodeState /\ Keeps(n, r) /\ Quiet(n, r)
<1> DEFINE r == AppendEntries(n, m)
           v == AdoptTerm(n, m.term)
           u == [v EXCEPT !.currentLeader = m.from]
           a == [u EXCEPT !.log = MergeLog(u.log, m.prevLogIndex, m.entries)]
           b == [a EXCEPT !.commitIndex = Lesser(m.leaderCommit, LastNewIndex(m))]
<1> SUFFICES r \in NodeState /\ Keeps(n, r) /\ Quiet(n, r)
  OBVIOUS
<1>0. /\ m.term \in Nat /\ m.from \in Server /\ m.prevLogIndex \in Nat
      /\ m.entries \in Seq(LogEntry) /\ m.leaderCommit \in Nat
  BY DEF AppendEntriesArgs
<1>1. CASE m.term < n.currentTerm
  <2>1. r = n
    BY <1>1 DEF AppendEntries
  <2>2. SameElection(n, n)
    BY DEF SameElection
  <2> QED
    BY <2>1, <2>2, SameElectionFacts
<1>2. CASE ~(m.term < n.currentTerm)
  <2>1. r = IF ~HasPrevious(n.log, m) THEN u
            ELSE IF m.leaderCommit > n.commitIndex THEN ApplyCommittedEntries(b) ELSE a
    BY <1>2 DEF AppendEntries
  <2>2. v \in NodeState /\ v.log = n.log /\ Keeps(n, v) /\ Quiet(n, v)
    BY <1>0, AdoptTermFacts, Zenon
  <2> HIDE DEF v
  <2>3. u \in NodeState /\ u.log = n.log /\ SameElection(v, u)
    BY <1>0, <2>2 DEF NodeState, SameElection
  <2> HIDE DEF u
  <2>4. HasPrevious(n.log, m) => a \in NodeState /\ SameElection(v, a)
    <3>1. n.log \in Seq(LogEntry)
      BY DEF NodeState
    <3>2. HasPrevious(n.log, m) => m.prevLogIndex <= Len(n.log)
      BY <1>0, <3>1 DEF HasPrevious
    <3>3. HasPrevious(n.log, m) => MergeLog(u.log, m.prevLogIndex, m.entries) \in Seq(LogEntry)
      BY <1>0, <2>3, <3>1, <3>2, MergeLogType
    <3> QED
      BY <2>3, <3>3 DEF NodeState, SameElection
  <2> HIDE DEF a
  <2>5. a \in NodeState /\ SameElection(v, a) => b \in NodeState /\ SameElection(v, b)
    <3>1. Lesser(m.leaderCommit, LastNewIndex(m)) \in Nat
      BY <1>0, LastNewIndexType DEF Lesser
    <3> QED
      BY <3>1 DEF NodeState, SameElection
  <2> HIDE DEF b
  <2>6. b \in NodeState /\ SameElection(v, b)
            => /\ ApplyCommittedEntries(b) \in NodeState
               /\ SameElection(v, ApplyCommittedEntries(b))
    BY ApplyCommittedFacts DEF SameElection
  <2>7. r \in NodeState /\ SameElection(v, r)
    <3> HIDE DEF r
    <3> QED
      BY <2>1, <2>3, <2>4, <2>5, <2>6
  <2> HIDE DEF r
  <2>8. Keeps(n, r) /\ Quiet(n, r)
    BY <2>2, <2>7 DEF SameElection, Keeps, Quiet, Standing
  <2> QED
    BY <2>7, <2>8
<1> QED
  BY <1>1, <1>2

LEMMA UpdateCommitIndexFacts ==
    ASSUME NEW s \in Server, NEW n \in NodeState
    PROVE  LET r == UpdateCommitIndex(s, n)
           IN  r \in NodeState /\ SameElection(n, r)
<1> DEFINE r == UpdateCommitIndex(s, n)
           k == CHOOSE k \in Committable(s, n) : \A j \in Committable(s, n) : j <= k
           c == [n EXCEPT !.commitIndex = k]
<1>1. CASE n.state = Leader /\ Committable(s, n) # {}
  <2>1. n.log \in Seq(LogEntry) /\ n.commitIndex \in Nat
    BY DEF NodeState
  <2>2. Committable(s, n) \subseteq 0..Len(n.log)
    BY <2>1 DEF Committable
  <2>3. Len(n.log) \in Nat
    BY <2>1
  <2>4. \E i \in Committable(s, n) : \A j \in Committable(s, n) : j <= i
    BY <1>1, <2>2, <2>3, GreatestNat
  <2>5. k \in Committable(s, n)
    BY <2>4
  <2>6. k \in Nat
    BY <2>2, <2>5
  <2>7. r = ApplyCommittedEntries(c)
    BY <1>1 DEF UpdateCommitIndex
  <2> HIDE DEF k
  <2>8. c \in NodeState /\ SameElection(n, c)
    BY <2>6 DEF NodeState, SameElection
  <2> HIDE DEF c, r
  <2> QED
    BY <2>7, <2>8, ApplyCommittedFacts DEF SameElection, r
<1>2. CASE ~(n.state = Leader /\ Committable(s, n) # {})
  BY <1>2 DEF UpdateCommitIndex, SameElection
<1> QED
  BY <1>1, <1>2

LEMMA AppendResultFacts ==
    ASSUME NEW s \in Server, NEW n \in NodeState, NEW m \in AppendEntriesArgs,
           NEW t \in Nat, NEW success \in BOOLEAN
    PROVE  LET r == ProcessAppendEntriesResult(s, n, m, t, success)
           IN  r \in NodeState /\ Keeps(n, r) /\ Quiet(n, r)
<1> DEFINE r == ProcessAppendEntriesResult(s, n, m, t, success)
<1> SUFFICES r \in NodeState /\ Keeps(n, r) /\ Quiet(n, r)
  OBVIOUS
<1>0. m.to \in Server /\ n.currentTerm \in Nat
  BY DEF AppendEntriesArgs, NodeState
<1>1. CASE t > n.currentTerm
  <2>1. r = AdoptTerm(n, t)
    BY <1>1 DEF ProcessAppendEntriesResult, AdoptTerm
  <2> HIDE DEF r
  <2> QED
    BY <2>1, AdoptTermFacts
<1>2. CASE ~(t > n.currentTerm)
  <2>1. RecordMatch(n, m) \in NodeState /\ SameElection(n, RecordMatch(n, m))
    <3>1. LastNewIndex(m) \in Nat /\ LastNewIndex(m) + 1 \in Nat \ {0}
      BY LastNewIndexType
    <3> QED
      BY <1>0, <3>1 DEF RecordMatch, NodeState, SameElection
  <2>2. StepBack(n, m) \in NodeState /\ SameElection(n, StepBack(n, m))
    <3>1. n.nextIndex[m.to] \in Nat \ {0} /\ n.nextIndex \in [Server -> Nat \ {0}]
      BY <1>0 DEF NodeState
    <3>2. (IF n.nextIndex[m.to] <= 1 THEN 1 ELSE n.nextIndex[m.to] - 1) \in Nat \ {0}
      BY <3>1
    <3> QED
      BY <1>0, <3>1, <3>2 DEF StepBack, NodeState, SameElection
  <2>3. /\ UpdateCommitIndex(s, RecordMatch(n, m)) \in NodeState
        /\ SameElection(n, UpdateCommitIndex(s, RecordMatch(n, m)))
    BY <2>1, UpdateCommitIndexFacts DEF SameElection
  <2>4. r \in NodeState /\ SameElection(n, r)
    BY <1>2, <2>2, <2>3 DEF ProcessAppendEntriesResult, SameElection
  <2> HIDE DEF r
  <2> QED
    BY <2>4, SameElectionFacts
<1> QED
  BY <1>1, <1>2

-----------------------------------------------------------------------------
(* Requests *)

LEMMA VoteRequestType ==
    ASSUME NEW s \in Server, NEW n \in NodeState, NEW p \in Peers(s)
    PROVE  VoteRequest(s, n, p) \in RequestVoteArgs
<1>1. n.log \in Seq(LogEntry) /\ n.currentTerm \in Nat
  BY DEF NodeState
<1>2. Len(n.log) \in Nat /\ LastTerm(n.log) \in Nat
  BY <1>1, LastTermType
<1> QED
  BY <1>1, <1>2 DEF VoteRequest, RequestVoteArgs, Peers

LEMMA AppendRequestType ==
    ASSUME NEW s \in Server, NEW n \in NodeState, NEW p \in Peers(s)
    PROVE  AppendRequest(s, n, p) \in AppendEntriesArgs
<1> DEFINE prev == n.nextIndex[p] - 1
           term == IF prev \in 1..Len(n.log) THEN n.log[prev].term ELSE 0
           entries == SubSeq(n.log, n.nextIndex[p], Len(n.log))
<1>1. /\ n.log \in Seq(LogEntry) /\ n.currentTerm \in Nat /\ n.commitIndex \in Nat
      /\ n.nextIndex[p] \in Nat \ {0}
  BY DEF NodeState, Peers
<1>2. prev \in Nat
  BY <1>1
<1>3. term \in Nat
  <2>1. prev \in 1..Len(n.log) => n.log[prev] \in LogEntry
    BY <1>1
  <2> QED
    BY <2>1 DEF LogEntry
<1>4. entries \in Seq(LogEntry)
  BY <1>1, SubSeqType
<1>5. AppendRequest(s, n, p) =
        [type |-> "AppendEntries", from |-> s, to |-> p, term |-> n.currentTerm,
         prevLogIndex |-> prev, prevLogTerm |-> term, entries |-> entries,
         leaderCommit |-> n.commitIndex]
  BY DEF AppendRequest
<1> HIDE DEF prev, term, entries
<1> QED
  BY <1>1, <1>2, <1>3, <1>4, <1>5 DEF AppendEntriesArgs, Peers

-----------------------------------------------------------------------------
(* The invariant *)

\* No node calls itself.
DistinctEnds == \A m \in DOMAIN rpcs : m.from # m.to

Shape == TypeOK /\ DistinctEnds

\* A node that has not been started does not stand.
Idle == \A s \in Server \ started : ~Standing(node[s])

\* A vote a candidate or leader counts is still the voter's vote, or the
\* voter has moved on to a later term, or a Start dropped a vote of this one.
VotesCounted ==
    \A c, v \in Server :
        Standing(node[c]) /\ v \in node[c].votesReceived
            => /\ node[v].currentTerm >= node[c].currentTerm
               /\ /\ node[v].currentTerm = node[c].currentTerm
                  /\ node[c].currentTerm \notin forgotten
                  => node[v].votedFor = c

\* The same of the votes that won an election, and they were a majority.
VotesWon ==
    \A e \in elections :
        /\ IsMajority(e.votes)
        /\ \A v \in e.votes :
            /\ node[v].currentTerm >= e.term
            /\ node[v].currentTerm = e.term /\ e.term \notin forgotten
                   => node[v].votedFor = e.leader

\* No vote is counted twice in a term in which none was dropped: not by two
\* nodes that stand, and not by one that stands after another has won.
CountedOnce ==
    \A c, d \in Server :
        /\ c # d /\ Standing(node[c]) /\ Standing(node[d])
        /\ node[c].currentTerm = node[d].currentTerm
        /\ node[c].currentTerm \notin forgotten
        => node[c].votesReceived \cap node[d].votesReceived = {}

WonOnce ==
    \A e \in elections, c \in Server :
        /\ Standing(node[c]) /\ node[c].currentTerm = e.term /\ c # e.leader
        /\ e.term \notin forgotten
        => e.votes \cap node[c].votesReceived = {}

VoteInv == VotesCounted /\ VotesWon /\ CountedOnce /\ WonOnce /\ ElectionSafety

IInv == Shape /\ VoteInv /\ Idle

\* What the logs rest on, which a dropped vote would take away.
CalmInv == IInv /\ NoVoteForgotten /\ OneLeaderPerTerm

-----------------------------------------------------------------------------
(* Steps that drop a vote, and the others: a step of CalmNext changes a node   *)
(* that is constructed or started in nothing.                                  *)

Forgets(s) == Start(s) /\ node[s].votedFor # Nil

Began(s) == (Construct(s) \/ Start(s)) /\ UNCHANGED <<node, forgotten>>

CalmNext ==
    \/ \E s \in Server : Began(s)
    \/ \E s \in Server : ElectionTimeout(s)
    \/ \E s \in Server : SendRequestVoteRPCs(s)
    \/ \E s \in Server, c \in Command : SubmitCommand(s, c)
    \/ \E s \in Server : SendHeartbeats(s)
    \/ \E m \in DOMAIN rpcs : RPCUnreachable(m)
    \/ \E m \in DOMAIN rpcs : RequestVoteRPC(m)
    \/ \E m \in DOMAIN rpcs : AppendEntriesRPC(m)

LEMMA CalmForgotten ==
    ASSUME [CalmNext]_vars
    PROVE  forgotten' = forgotten /\ started \subseteq started'
  BY DEF CalmNext, vars, Began, Construct, Start, ElectionTimeout, SendRequestVoteRPCs,
         SubmitCommand, SendHeartbeats, RPCUnreachable, RequestVoteRPC, AskVote,
         AppendEntriesRPC

\* Start finds a follower: without a vote it changes nothing of it.
LEMMA CalmOrForgets ==
    ASSUME Shape, Idle, [Next]_vars
    PROVE  [CalmNext]_vars \/ \E s \in Server : Forgets(s)
<1>1. ASSUME NEW s \in Server, Start(s), node[s].votedFor = Nil
      PROVE  Began(s)
  <2>1. s \in registry /\ s \notin started /\ node \in [Server -> NodeState]
    BY <1>1 DEF Start, Shape, TypeOK
  <2>2. node[s].state = Follower
    BY <2>1 DEF Idle, Standing, NodeState
  <2>3. ConvertToFollower(node[s], node[s].currentTerm) = node[s]
    BY <1>1, <2>1, <2>2 DEF ConvertToFollower, NodeState
  <2>4. node' = node
    BY <1>1, <2>1, <2>3 DEF Start
  <2>5. forgotten' = forgotten
    BY <1>1 DEF Start
  <2> QED
    BY <1>1, <2>4, <2>5 DEF Began
<1>2. ASSUME NEW s \in Server, Construct(s) PROVE Began(s)
  BY <1>2 DEF Construct, Began
<1> QED
  BY <1>1, <1>2 DEF Next, CalmNext, Forgets

\* While no vote is dropped, no step drops one.
LEMMA NextCalm ==
    ASSUME Shape, Idle, [Next]_vars, NoVoteForgotten'
    PROVE  NoVoteForgotten /\ [CalmNext]_vars
<1>1. ASSUME NEW s \in Server, Forgets(s) PROVE FALSE
  BY <1>1 DEF Forgets, Start, NoVoteForgotten
<1>2. [CalmNext]_vars
  BY <1>1, CalmOrForgets
<1> QED
  BY <1>2, CalmForgotten DEF NoVoteForgotten

-----------------------------------------------------------------------------
(* The shape of the state *)

LEMMA BagAfterSend ==
    ASSUME NEW S
    PROVE  DOMAIN (rpcs (+) SetToBag(S)) = DOMAIN rpcs \cup S
  BY DEF (+), SetToBag

LEMMA BagAfterReceive ==
    ASSUME NEW m
    PROVE  DOMAIN (rpcs (-) SetToBag({m})) \subseteq DOMAIN rpcs
  BY DEF (-), SetToBag

LEMMA InitShape == Init => Shape
<1> SUFFICES ASSUME Init PROVE Shape
  OBVIOUS
<1>1. InitNode \in NodeState
  <2>1. <<>> \in Seq(LogEntry) /\ 1 \in Nat \ {0}
    OBVIOUS
  <2> QED
    BY <2>1 DEF InitNode, NodeState, Follower
<1>2. DOMAIN rpcs = {}
  BY DEF Init, EmptyBag, SetToBag
<1> QED
  BY <1>1, <1>2 DEF Init, Shape, TypeOK, DistinctEnds

\* What one call between two nodes does to them and to the requests.
LEMMA RequestVoteStep ==
    ASSUME Shape, NEW m \in DOMAIN rpcs, RequestVoteRPC(m)
    PROVE  /\ Shape'
           /\ \A s \in Server : Keeps(node[s], node'[s])
           /\ \A s \in Server \ {m.from} : Quiet(node[s], node'[s])
           /\ \/ /\ Quiet(node[m.from], node'[m.from])
                 /\ elections' = elections
              \/ /\ m.from # m.to
                 /\ m.to \in Server /\ m.from \in Server
                 /\ GrantsVote(node[m.to], m) /\ m.term = node[m.from].currentTerm
                 /\ node[m.from].state = Candidate
                 /\ node'[m.from].currentTerm = node[m.from].currentTerm
                 /\ node'[m.to].currentTerm = node[m.from].currentTerm
                 /\ node'[m.to].votedFor = m.from
                 /\ node'[m.from].votesReceived = node[m.from].votesReceived \cup {m.to}
                 /\ \/ elections' = elections
                    \/ /\ IsMajority(node'[m.from].votesReceived)
                       /\ elections' = elections \cup
                            {[term |-> node'[m.from].currentTerm, leader |-> m.from,
                              votes |-> node'[m.from].votesReceived]}
<1> DEFINE voter   == RequestVote(node[m.to], m)
           granted == GrantsVote(node[m.to], m)
           caller  == ProcessRequestVoteResult(m.from, node[m.from], m.to,
                          voter.currentTerm, granted)
           election == [term |-> caller.currentTerm, leader |-> m.from,
                        votes |-> caller.votesReceived]
<1>1. /\ m \in RequestVoteArgs /\ m.from \in Server /\ m.to \in Server /\ m.from # m.to
      /\ node \in [Server -> NodeState]
  BY DEF Shape, TypeOK, DistinctEnds, RequestVoteRPC, RequestVoteArgs, AppendEntriesArgs
<1>2. /\ node' = [node EXCEPT ![m.to] = voter, ![m.from] = caller]
      /\ elections' = IF caller.state = Leader /\ node[m.from].state # Leader
                      THEN elections \cup {election} ELSE elections
      /\ rpcs' = rpcs (-) SetToBag({m})
      /\ voteTasks' = voteTasks /\ registry' = registry
      /\ started' = started /\ forgotten' = forgotten
  BY DEF RequestVoteRPC, AskVote
<1>3. /\ voter \in NodeState
      /\ Keeps(node[m.to], voter) /\ Quiet(node[m.to], voter)
      /\ granted => voter.currentTerm = m.term /\ voter.votedFor = m.from
  BY <1>1, RequestVoteFacts, Zenon
<1>4. voter.currentTerm \in Nat /\ granted \in BOOLEAN
  <2>1. voter.currentTerm \in Nat
    BY <1>3 DEF NodeState
  <2>2. granted \in BOOLEAN
    BY DEF GrantsVote
  <2> QED
    BY <2>1, <2>2
<1> HIDE DEF voter, granted
<1>5. /\ caller \in NodeState
      /\ Keeps(node[m.from], caller)
      /\ \/ /\ Quiet(node[m.from], caller)
            /\ caller.state = Leader => node[m.from].state = Leader
         \/ /\ granted /\ voter.currentTerm = node[m.from].currentTerm
            /\ node[m.from].state = Candidate
            /\ caller.currentTerm = node[m.from].currentTerm
            /\ caller.votesReceived = node[m.from].votesReceived \cup {m.to}
            /\ caller.state = Leader => IsMajority(caller.votesReceived)
  <2>1. node[m.from] \in NodeState
    BY <1>1
  <2> QED
    BY <1>1, <1>4, <2>1, VoteResultFacts
<1> HIDE DEF caller
<1>6. /\ node'[m.to] = voter /\ node'[m.from] = caller
      /\ \A s \in Server \ {m.to, m.from} : node'[s] = node[s]
      /\ node' \in [Server -> NodeState]
  BY <1>1, <1>2, <1>3, <1>5
<1>7. \A s \in Server : Keeps(node[s], node[s]) /\ Quiet(node[s], node[s])
  BY <1>1, SameElectionFacts DEF SameElection
<1>8. Shape'
  <2>1. DOMAIN rpcs' \subseteq DOMAIN rpcs
    BY <1>2, BagAfterReceive
  <2>2. election \in Election
    BY <1>1, <1>5 DEF Election, NodeState
  <2>3. elections' \subseteq Election
    BY <1>2, <2>2 DEF Shape, TypeOK
  <2> QED
    BY <1>2, <1>6, <2>1, <2>3 DEF Shape, TypeOK, DistinctEnds
<1>9. /\ \A s \in Server : Keeps(node[s], node'[s])
      /\ \A s \in Server \ {m.from} : Quiet(node[s], node'[s])
  BY <1>1, <1>3, <1>5, <1>6, <1>7
<1>10. CASE /\ Quiet(node[m.from], caller)
            /\ caller.state = Leader => node[m.from].state = Leader
  BY <1>2, <1>6, <1>8, <1>9, <1>10
<1>11. CASE /\ granted /\ voter.currentTerm = node[m.from].currentTerm
            /\ node[m.from].state = Candidate
            /\ caller.currentTerm = node[m.from].currentTerm
            /\ caller.votesReceived = node[m.from].votesReceived \cup {m.to}
            /\ caller.state = Leader => IsMajority(caller.votesReceived)
  BY <1>1, <1>2, <1>3, <1>6, <1>8, <1>9, <1>11 DEF granted
<1> QED
  BY <1>5, <1>10, <1>11

LEMMA AppendEntriesStep ==
    ASSUME Shape, NEW m \in DOMAIN rpcs, AppendEntriesRPC(m)
    PROVE  /\ Shape'
           /\ \A s \in Server : Keeps(node[s], node'[s]) /\ Quiet(node[s], node'[s])
           /\ elections' = elections
<1> DEFINE receiver == AppendEntries(node[m.to], m)
           success  == AcceptsEntries(node[m.to], m)
           caller   == ProcessAppendEntriesResult(m.from, node[m.from], m,
                           receiver.currentTerm, success)
<1>1. /\ m \in AppendEntriesArgs /\ m.from \in Server /\ m.to \in Server /\ m.from # m.to
      /\ node \in [Server -> NodeState]
  BY DEF Shape, TypeOK, DistinctEnds, AppendEntriesRPC, RequestVoteArgs, AppendEntriesArgs
<1>2. /\ node' = [node EXCEPT ![m.to] = receiver, ![m.from] = caller]
      /\ rpcs' = rpcs (-) SetToBag({m})
      /\ voteTasks' = voteTasks /\ registry' = registry /\ elections' = elections
      /\ started' = started /\ forgotten' = forgotten
  BY DEF AppendEntriesRPC
<1>3. receiver \in NodeState /\ Keeps(node[m.to], receiver) /\ Quiet(node[m.to], receiver)
  BY <1>1, AppendEntriesFacts, Zenon
<1>4. receiver.currentTerm \in Nat /\ success \in BOOLEAN
  <2>1. receiver.currentTerm \in Nat
    BY <1>3 DEF NodeState
  <2>2. success \in BOOLEAN
    BY DEF AcceptsEntries
  <2> QED
    BY <2>1, <2>2
<1> HIDE DEF receiver, success
<1>5. caller \in NodeState /\ Keeps(node[m.from], caller) /\ Quiet(node[m.from], caller)
  BY <1>1, <1>4, AppendResultFacts, Zenon
<1> HIDE DEF caller
<1>6. /\ node'[m.to] = receiver /\ node'[m.from] = caller
      /\ \A s \in Server \ {m.to, m.from} : node'[s] = node[s]
      /\ node' \in [Server -> NodeState]
  BY <1>1, <1>2, <1>3, <1>5
<1>7. \A s \in Server : Keeps(node[s], node[s]) /\ Quiet(node[s], node[s])
  BY <1>1, SameElectionFacts DEF SameElection
<1>8. DOMAIN rpcs' \subseteq DOMAIN rpcs
  BY <1>2, BagAfterReceive
<1>9. Shape'
  BY <1>2, <1>6, <1>8 DEF Shape, TypeOK, DistinctEnds
<1> QED
  BY <1>1, <1>2, <1>3, <1>5, <1>6, <1>7, <1>9

\* Every step of the other actions keeps every vote and starts at most the
\* candidacy of the node that acts.
LEMMA TimeoutStep ==
    ASSUME Shape, NEW c \in Server, ElectionTimeout(c)
    PROVE  /\ Shape'
           /\ \A s \in Server : Keeps(node[s], node'[s])
           /\ \A s \in Server \ {c} : Quiet(node[s], node'[s])
           /\ node'[c].currentTerm = node[c].currentTerm + 1
           /\ node'[c].votedFor = c
           /\ node'[c].votesReceived = {c}
           /\ elections' = elections
<1> DEFINE r == ConvertToCandidate(c, node[c])
<1>1. node \in [Server -> NodeState] /\ voteTasks \in [Server -> Nat]
  BY DEF Shape, TypeOK
<1>2. /\ r \in NodeState
      /\ r.currentTerm = node[c].currentTerm + 1 /\ r.votedFor = c
      /\ r.votesReceived = {c}
      /\ Keeps(node[c], r)
  BY <1>1, ConvertToCandidateFacts
<1>3. /\ node' = [node EXCEPT ![c] = r]
      /\ voteTasks' = [voteTasks EXCEPT ![c] = @ + 1]
      /\ rpcs' = rpcs /\ elections' = elections /\ registry' = registry
      /\ started' = started /\ forgotten' = forgotten
  BY DEF ElectionTimeout
<1> HIDE DEF r
<1>4. /\ node' \in [Server -> NodeState] /\ node'[c] = r
      /\ \A s \in Server \ {c} : node'[s] = node[s]
      /\ voteTasks' \in [Server -> Nat]
  BY <1>1, <1>2, <1>3
<1>5. \A s \in Server : Keeps(node[s], node[s]) /\ Quiet(node[s], node[s])
  BY <1>1, SameElectionFacts DEF SameElection
<1>6. Shape'
  BY <1>3, <1>4 DEF Shape, TypeOK, DistinctEnds
<1> QED
  BY <1>1, <1>2, <1>3, <1>4, <1>5, <1>6

LEMMA SubmitStep ==
    ASSUME Shape, NEW l \in Server, NEW command \in Command, SubmitCommand(l, command)
    PROVE  /\ Shape'
           /\ \A s \in Server : Keeps(node[s], node'[s]) /\ Quiet(node[s], node'[s])
           /\ elections' = elections
<1> DEFINE entry == [term |-> node[l].currentTerm, index |-> Len(node[l].log) + 1,
                     command |-> command]
           log == Append(node[l].log, entry)
           r == [node[l] EXCEPT !.log = log]
<1>1. node \in [Server -> NodeState] /\ node[l] \in NodeState
  BY DEF Shape, TypeOK
<1>2. node[l].log \in Seq(LogEntry) /\ node[l].currentTerm \in Nat
  BY <1>1 DEF NodeState
<1>3. entry \in LogEntry
  <2>1. Len(node[l].log) + 1 \in Nat
    BY <1>2
  <2> QED
    BY <1>2, <2>1 DEF LogEntry
<1>4. log \in Seq(LogEntry)
  <2> HIDE DEF entry
  <2> QED BY <1>2, <1>3
<1>5. /\ node' = [node EXCEPT ![l] = r]
      /\ voteTasks' = voteTasks /\ registry' = registry /\ rpcs' = rpcs /\ elections' = elections
      /\ started' = started /\ forgotten' = forgotten
  BY DEF SubmitCommand
<1> HIDE DEF log
<1>6. r \in NodeState /\ SameElection(node[l], r)
  BY <1>1, <1>4 DEF NodeState, SameElection
<1> HIDE DEF r
<1>7. /\ node' \in [Server -> NodeState]
      /\ \A s \in Server : SameElection(node[s], node'[s])
  BY <1>1, <1>5, <1>6 DEF SameElection
<1>8. \A s \in Server : Keeps(node[s], node'[s]) /\ Quiet(node[s], node'[s])
  BY <1>1, <1>7, SameElectionFacts
<1>9. Shape'
  BY <1>5, <1>7 DEF Shape, TypeOK, DistinctEnds
<1> QED
  BY <1>5, <1>8, <1>9

\* The steps that move requests only.
LEMMA RequestsStep ==
    ASSUME Shape,
           \/ \E s \in Server : Began(s)
           \/ \E s \in Server : SendRequestVoteRPCs(s)
           \/ \E s \in Server : SendHeartbeats(s)
           \/ \E m \in DOMAIN rpcs : RPCUnreachable(m)
           \/ UNCHANGED vars
    PROVE  /\ Shape'
           /\ \A s \in Server : Keeps(node[s], node'[s]) /\ Quiet(node[s], node'[s])
           /\ elections' = elections
<1>1. node \in [Server -> NodeState] /\ voteTasks \in [Server -> Nat]
  BY DEF Shape, TypeOK
<1>2. \A s \in Server : Keeps(node[s], node[s]) /\ Quiet(node[s], node[s])
  BY <1>1, SameElectionFacts DEF SameElection
<1>3. ASSUME NEW s \in Server, SendRequestVoteRPCs(s)
      PROVE  Shape' /\ node' = node /\ elections' = elections
  <2> DEFINE sent == {VoteRequest(s, node[s], p) : p \in Peers(s)}
  <2>1. DOMAIN rpcs' = DOMAIN rpcs \cup sent
    BY <1>3, BagAfterSend DEF SendRequestVoteRPCs
  <2>2. \A p \in Peers(s) : VoteRequest(s, node[s], p) \in RequestVoteArgs
    BY <1>1, VoteRequestType
  <2>3. \A m \in sent : m \in RequestVoteArgs /\ m.from # m.to
    BY <2>2 DEF VoteRequest, Peers
  <2> HIDE DEF sent
  <2>4. voteTasks' \in [Server -> Nat]
    <3>1. voteTasks[s] - 1 \in Nat
      BY <1>1, <1>3 DEF SendRequestVoteRPCs
    <3> QED
      BY <1>1, <1>3, <3>1 DEF SendRequestVoteRPCs
  <2> QED
    BY <1>3, <2>1, <2>3, <2>4 DEF SendRequestVoteRPCs, Shape, TypeOK, DistinctEnds
<1>4. ASSUME NEW s \in Server, SendHeartbeats(s)
      PROVE  Shape' /\ node' = node /\ elections' = elections
  <2> DEFINE sent == {AppendRequest(s, node[s], p) : p \in Peers(s)}
  <2>1. DOMAIN rpcs' = DOMAIN rpcs \cup sent
    BY <1>4, BagAfterSend DEF SendHeartbeats
  <2>2. \A p \in Peers(s) : AppendRequest(s, node[s], p) \in AppendEntriesArgs
    BY <1>1, AppendRequestType
  <2>3. \A m \in sent : m \in AppendEntriesArgs /\ m.from # m.to
    BY <2>2 DEF AppendRequest, Peers
  <2> HIDE DEF sent
  <2> QED
    BY <1>4, <2>1, <2>3 DEF SendHeartbeats, Shape, TypeOK, DistinctEnds
<1>5. ASSUME NEW m \in DOMAIN rpcs, RPCUnreachable(m)
      PROVE  Shape' /\ node' = node /\ elections' = elections
  <2>1. DOMAIN rpcs' \subseteq DOMAIN rpcs
    BY <1>5, BagAfterReceive DEF RPCUnreachable
  <2> QED
    BY <1>5, <2>1 DEF RPCUnreachable, Shape, TypeOK, DistinctEnds
<1>6. UNCHANGED vars => Shape' /\ node' = node /\ elections' = elections
  BY DEF vars, Shape, TypeOK, DistinctEnds
<1>7. ASSUME NEW s \in Server, Began(s)
      PROVE  Shape' /\ node' = node /\ elections' = elections
  BY <1>7 DEF Began, Construct, Start, Shape, TypeOK, DistinctEnds
<1> QED
  BY <1>2, <1>3, <1>4, <1>5, <1>6, <1>7

-----------------------------------------------------------------------------
(* Votes *)

LEMMA ShapeFacts ==
    ASSUME Shape
    PROVE  /\ \A s \in Server : /\ node[s].currentTerm \in Nat
                                /\ node[s].votesReceived \subseteq Server
           /\ \A e \in elections : e.term \in Nat /\ e.leader \in Server /\ e.votes \subseteq Server
<1>1. \A s \in Server : node[s] \in NodeState
  BY DEF Shape, TypeOK
<1>2. \A e \in elections : e \in Election
  BY DEF Shape, TypeOK
<1> QED
  BY <1>1, <1>2 DEF NodeState, Election

\* Votes that were won stay won as long as every node keeps its vote.
LEMMA VotesWonStep ==
    ASSUME Shape, Shape', VotesWon, elections' = elections, forgotten' = forgotten,
           \A s \in Server : Keeps(node[s], node'[s])
    PROVE  VotesWon'
<1>1. SUFFICES ASSUME NEW e \in elections, NEW v \in e.votes
               PROVE  /\ node'[v].currentTerm >= e.term
                      /\ node'[v].currentTerm = e.term /\ e.term \notin forgotten
                             => node'[v].votedFor = e.leader
  BY DEF VotesWon
<1>2. v \in Server /\ e.term \in Nat /\ e.leader # Nil
  BY ShapeFacts, NilAssumption
<1>3. node[v].currentTerm \in Nat /\ node'[v].currentTerm \in Nat
  <2>1. node[v].currentTerm \in Nat
    BY <1>2, ShapeFacts
  <2>2. node'[v] \in NodeState
    BY <1>2 DEF Shape, TypeOK
  <2> QED
    BY <2>1, <2>2 DEF NodeState
<1> QED
  BY <1>2, <1>3 DEF VotesWon, Keeps

\* The votes of a candidacy that stands as it did stay counted.
LEMMA VotesCountedStep ==
    ASSUME Shape, Shape', VotesCounted, forgotten' = forgotten,
           \A s \in Server : Keeps(node[s], node'[s]),
           NEW c \in Server, Quiet(node[c], node'[c]), Standing(node'[c]),
           NEW v \in node'[c].votesReceived
    PROVE  /\ v \in Server
           /\ node'[v].currentTerm >= node'[c].currentTerm
           /\ /\ node'[v].currentTerm = node'[c].currentTerm
              /\ node'[c].currentTerm \notin forgotten
              => node'[v].votedFor = c
<1>1. /\ Standing(node[c]) /\ v \in node[c].votesReceived
      /\ node'[c].currentTerm = node[c].currentTerm
  BY DEF Quiet
<1>2. v \in Server /\ node[v].currentTerm \in Nat /\ node[c].currentTerm \in Nat
  BY <1>1, ShapeFacts
<1>3. node'[v].currentTerm \in Nat
  <2>1. node'[v] \in NodeState
    BY <1>2 DEF Shape, TypeOK
  <2> QED
    BY <2>1 DEF NodeState
<1>4. c # Nil
  BY NilAssumption
<1> QED
  BY <1>1, <1>2, <1>3, <1>4 DEF VotesCounted, Keeps

\* A step in which every candidacy stands as it did or ends.
LEMMA QuietStep ==
    ASSUME Shape, Shape', VoteInv, elections' = elections, forgotten' = forgotten,
           \A s \in Server : Keeps(node[s], node'[s]) /\ Quiet(node[s], node'[s])
    PROVE  VoteInv'
<1>1. VotesWon'
  BY VotesWonStep DEF VoteInv
<1>2. VotesCounted'
  <2>1. SUFFICES ASSUME NEW c \in Server, NEW v \in Server, Standing(node'[c]),
                        v \in node'[c].votesReceived
                 PROVE  /\ node'[v].currentTerm >= node'[c].currentTerm
                        /\ /\ node'[v].currentTerm = node'[c].currentTerm
                           /\ node'[c].currentTerm \notin forgotten
                           => node'[v].votedFor = c
    BY DEF VotesCounted, Standing
  <2> QED
    BY <2>1, VotesCountedStep DEF VoteInv
<1>3. CountedOnce'
  BY DEF VoteInv, CountedOnce, Quiet, Standing
<1>4. WonOnce'
  BY DEF VoteInv, WonOnce, Quiet, Standing
<1>5. ElectionSafety'
  BY DEF VoteInv, ElectionSafety
<1> QED
  BY <1>1, <1>2, <1>3, <1>4, <1>5 DEF VoteInv

\* A node that starts a candidacy enters a term in which nobody holds its vote.
LEMMA TimeoutVotes ==
    ASSUME IInv, NEW c \in Server, ElectionTimeout(c)
    PROVE  VoteInv'
<1>1. Shape /\ VoteInv
  BY DEF IInv
<1>2. /\ Shape'
      /\ \A s \in Server : Keeps(node[s], node'[s])
      /\ \A s \in Server \ {c} : Quiet(node[s], node'[s])
      /\ node'[c].currentTerm = node[c].currentTerm + 1
      /\ node'[c].votedFor = c
      /\ node'[c].votesReceived = {c}
      /\ elections' = elections /\ forgotten' = forgotten
  BY <1>1, TimeoutStep DEF ElectionTimeout
<1>3. \A s \in Server : node[s].currentTerm \in Nat
  BY <1>1, ShapeFacts
<1>4. VotesWon'
  BY <1>1, <1>2, VotesWonStep DEF VoteInv
<1>5. VotesCounted'
  <2>1. SUFFICES ASSUME NEW d \in Server, NEW v \in Server, Standing(node'[d]),
                        v \in node'[d].votesReceived
                 PROVE  /\ node'[v].currentTerm >= node'[d].currentTerm
                        /\ /\ node'[v].currentTerm = node'[d].currentTerm
                           /\ node'[d].currentTerm \notin forgotten
                           => node'[v].votedFor = d
    BY <1>2 DEF VotesCounted, Standing
  <2>2. CASE d = c
    BY <1>2, <1>3, <2>1, <2>2
  <2>3. CASE d # c
    BY <1>1, <1>2, <2>1, <2>3, VotesCountedStep DEF VoteInv
  <2> QED
    BY <2>2, <2>3
\* No other candidacy of the new term holds c: c would have been there before.
<1>6. ASSUME NEW d \in Server, d # c, Standing(node'[d]),
             node'[d].currentTerm = node'[c].currentTerm
      PROVE  c \notin node'[d].votesReceived
  <2>1. /\ Standing(node[d]) /\ node[d].currentTerm = node[c].currentTerm + 1
        /\ node'[d].votesReceived = node[d].votesReceived
    BY <1>2, <1>6 DEF Quiet
  <2> QED
    BY <1>1, <1>3, <2>1 DEF VoteInv, VotesCounted
<1>7. CountedOnce'
  <2>1. SUFFICES ASSUME NEW a \in Server, NEW b \in Server, a # b,
                        Standing(node'[a]), Standing(node'[b]),
                        node'[a].currentTerm = node'[b].currentTerm,
                        node'[a].currentTerm \notin forgotten
                 PROVE  node'[a].votesReceived \cap node'[b].votesReceived = {}
    BY <1>2 DEF CountedOnce, Standing
  <2>2. CASE a = c
    BY <1>2, <1>6, <2>1, <2>2
  <2>3. CASE b = c
    BY <1>2, <1>6, <2>1, <2>3
  <2>4. CASE a # c /\ b # c
    BY <1>1, <1>2, <2>1, <2>4 DEF VoteInv, CountedOnce, Quiet
  <2> QED
    BY <2>2, <2>3, <2>4
<1>8. WonOnce'
  <2>1. SUFFICES ASSUME NEW e \in elections, NEW d \in Server, Standing(node'[d]),
                        node'[d].currentTerm = e.term, d # e.leader,
                        e.term \notin forgotten
                 PROVE  e.votes \cap node'[d].votesReceived = {}
    BY <1>2 DEF WonOnce, Standing
  <2>2. CASE d = c
    <3>1. e.term = node[c].currentTerm + 1
      BY <1>2, <2>1, <2>2
    <3>2. c \notin e.votes
      BY <1>1, <1>3, <3>1 DEF VoteInv, VotesWon
    <3> QED
      BY <1>2, <2>2, <3>2
  <2>3. CASE d # c
    BY <1>1, <1>2, <2>1, <2>3 DEF VoteInv, WonOnce, Quiet
  <2> QED
    BY <2>2, <2>3
<1>9. ElectionSafety'
  BY <1>1, <1>2 DEF VoteInv, ElectionSafety
<1> QED
  BY <1>4, <1>5, <1>7, <1>8, <1>9 DEF VoteInv

\* A candidate counts a vote: the voter is in the candidate's term and has
\* voted for nobody else in it, so no rival of that term holds the vote.
LEMMA CountedVotes ==
    ASSUME Shape, Shape', VoteInv, forgotten' = forgotten,
           \A s \in Server : Keeps(node[s], node'[s]),
           NEW c \in Server, NEW v \in Server,
           \A s \in Server \ {c} : Quiet(node[s], node'[s]),
           node[c].state = Candidate,
           node'[c].currentTerm = node[c].currentTerm,
           node'[v].currentTerm = node[c].currentTerm,
           node'[v].votedFor = c,
           node'[c].votesReceived = node[c].votesReceived \cup {v},
           \/ elections' = elections
           \/ /\ IsMajority(node'[c].votesReceived)
              /\ elections' = elections \cup
                    {[term |-> node'[c].currentTerm, leader |-> c,
                      votes |-> node'[c].votesReceived]}
    PROVE  VoteInv'
<1> DEFINE T == node'[c].currentTerm
           V == node'[c].votesReceived
           won == [term |-> T, leader |-> c, votes |-> V]
<1>1. /\ Standing(node[c]) /\ T \in Nat /\ V \subseteq Server /\ c # Nil
      /\ \A s \in Server : node[s].currentTerm \in Nat /\ node'[s].currentTerm \in Nat
  <2>1. \A s \in Server : node'[s] \in NodeState
    BY DEF Shape, TypeOK
  <2>2. \A s \in Server : node'[s].currentTerm \in Nat /\ node'[s].votesReceived \subseteq Server
    BY <2>1 DEF NodeState
  <2> QED
    BY <2>2, ShapeFacts, NilAssumption DEF Standing
<1>2. \A w \in V : /\ node'[w].currentTerm >= T
                   /\ node'[w].currentTerm = T /\ T \notin forgotten => node'[w].votedFor = c
  <2>1. SUFFICES ASSUME NEW w \in V
                 PROVE  /\ node'[w].currentTerm >= T
                        /\ node'[w].currentTerm = T /\ T \notin forgotten
                               => node'[w].votedFor = c
    OBVIOUS
  <2>2. CASE w = v
    BY <1>1, <2>2
  <2>3. CASE w \in node[c].votesReceived
    <3>1. w \in Server
      BY <1>1
    <3>2. /\ node[w].currentTerm >= T
          /\ node[w].currentTerm = T /\ T \notin forgotten => node[w].votedFor = c
      BY <1>1, <2>3, <3>1 DEF VoteInv, VotesCounted
    <3> QED
      BY <1>1, <3>1, <3>2 DEF Keeps
  <2> QED
    BY <2>2, <2>3
<1>3. VotesCounted'
  <2>1. SUFFICES ASSUME NEW d \in Server, NEW w \in Server, Standing(node'[d]),
                        w \in node'[d].votesReceived
                 PROVE  /\ node'[w].currentTerm >= node'[d].currentTerm
                        /\ /\ node'[w].currentTerm = node'[d].currentTerm
                           /\ node'[d].currentTerm \notin forgotten
                           => node'[w].votedFor = d
    BY DEF VotesCounted, Standing
  <2>2. CASE d = c
    BY <1>2, <2>1, <2>2
  <2>3. CASE d # c
    BY <2>1, <2>3, VotesCountedStep DEF VoteInv
  <2> QED
    BY <2>2, <2>3
<1>4. ASSUME NEW e \in elections, NEW w \in e.votes
      PROVE  /\ node'[w].currentTerm >= e.term
             /\ node'[w].currentTerm = e.term /\ e.term \notin forgotten
                    => node'[w].votedFor = e.leader
  <2>1. w \in Server /\ e.term \in Nat /\ e.leader # Nil
    BY ShapeFacts, NilAssumption
  <2> QED
    BY <1>1, <2>1 DEF VoteInv, VotesWon, Keeps
<1>5. VotesWon'
  <2>1. \A e \in elections : IsMajority(e.votes)
    BY DEF VoteInv, VotesWon
  <2>2. elections' = elections \/ (elections' = elections \cup {won} /\ IsMajority(V))
    OBVIOUS
  <2>3. won.votes = V /\ won.term = T /\ won.leader = c
    OBVIOUS
  <2> HIDE DEF won, T, V
  <2> SUFFICES ASSUME NEW e \in elections'
               PROVE  /\ IsMajority(e.votes)
                      /\ \A w \in e.votes :
                            /\ node'[w].currentTerm >= e.term
                            /\ node'[w].currentTerm = e.term /\ e.term \notin forgotten
                                   => node'[w].votedFor = e.leader
    BY DEF VotesWon, IsMajority
  <2>4. CASE e \in elections
    BY <1>4, <2>1, <2>4
  <2>5. CASE e = won /\ IsMajority(V)
    BY <1>2, <2>3, <2>5
  <2> QED
    BY <2>2, <2>4, <2>5
<1>6. ASSUME NEW d \in Server, d # c, Standing(node'[d]), node'[d].currentTerm = T,
             T \notin forgotten
      PROVE  V \cap node'[d].votesReceived = {}
  <2>1. v \notin node'[d].votesReceived
    BY <1>3, <1>6 DEF VotesCounted, Standing
  <2>2. node[c].votesReceived \cap node'[d].votesReceived = {}
    BY <1>1, <1>6 DEF VoteInv, CountedOnce, Quiet
  <2> QED
    BY <2>1, <2>2
<1>7. CountedOnce'
  <2>1. SUFFICES ASSUME NEW a \in Server, NEW b \in Server, a # b,
                        Standing(node'[a]), Standing(node'[b]),
                        node'[a].currentTerm = node'[b].currentTerm,
                        node'[a].currentTerm \notin forgotten
                 PROVE  node'[a].votesReceived \cap node'[b].votesReceived = {}
    BY DEF CountedOnce, Standing
  <2>2. CASE a = c
    BY <1>6, <2>1, <2>2
  <2>3. CASE b = c
    BY <1>6, <2>1, <2>3
  <2>4. CASE a # c /\ b # c
    BY <2>1, <2>4 DEF VoteInv, CountedOnce, Quiet
  <2> QED
    BY <2>2, <2>3, <2>4
<1>8. ASSUME NEW e \in elections, e.term = T, e.leader # c, T \notin forgotten
      PROVE  e.votes \cap V = {}
  <2>1. v \notin e.votes
    BY <1>4, <1>8
  <2>2. e.votes \cap node[c].votesReceived = {}
    BY <1>1, <1>8 DEF VoteInv, WonOnce
  <2> QED
    BY <2>1, <2>2
<1>9. WonOnce'
  <2>1. ASSUME NEW e \in elections, NEW d \in Server, Standing(node'[d]),
               node'[d].currentTerm = e.term, d # e.leader, e.term \notin forgotten
        PROVE  e.votes \cap node'[d].votesReceived = {}
    <3>1. CASE d = c
      BY <1>8, <2>1, <3>1
    <3>2. CASE d # c
      BY <2>1, <3>2 DEF VoteInv, WonOnce, Quiet
    <3> QED
      BY <3>1, <3>2
  <2>2. elections' = elections \/ elections' = elections \cup {won}
    OBVIOUS
  <2>3. ASSUME NEW d \in Server, Standing(node'[d]), node'[d].currentTerm = won.term,
               d # won.leader, won.term \notin forgotten
        PROVE  won.votes \cap node'[d].votesReceived = {}
    BY <1>6, <2>3
  <2> HIDE DEF won
  <2> QED
    BY <2>1, <2>2, <2>3 DEF WonOnce, Standing
<1>10. ElectionSafety'
  <2>1. CASE elections' = elections
    BY <2>1 DEF VoteInv, ElectionSafety
  <2>2. CASE IsMajority(V) /\ elections' = elections \cup {won}
    <3>1. ASSUME NEW e \in elections, e.term = T, T \notin forgotten
          PROVE  e.leader = c
      <4>1. IsMajority(e.votes) /\ e.votes \subseteq Server
        BY ShapeFacts DEF VoteInv, VotesWon
      <4>2. e.votes \cap V # {}
        BY <1>1, <2>2, <4>1, MajoritiesMeet
      <4> QED
        BY <1>8, <3>1, <4>2
    <3>2. \A e, f \in elections :
              e.term = f.term /\ e.term \notin forgotten => e.leader = f.leader
      BY DEF VoteInv, ElectionSafety
    <3>3. won.term = T /\ won.leader = c
      OBVIOUS
    <3> HIDE DEF won, T, V
    <3> QED
      BY <2>2, <3>1, <3>2, <3>3 DEF ElectionSafety
  <2> QED
    BY <2>1, <2>2
<1> QED
  BY <1>3, <1>5, <1>7, <1>9, <1>10 DEF VoteInv

-----------------------------------------------------------------------------
(* Theorems *)

LEMMA InitIInv == Init => IInv
<1> SUFFICES ASSUME Init PROVE IInv
  OBVIOUS
<1>1. Shape
  BY InitShape
<1>2. elections = {} /\ \A s \in Server : node[s].state = Follower /\ ~Standing(node[s])
  BY DEF Init, InitNode, Standing, Follower, Candidate, Leader
<1> QED
  BY <1>1, <1>2 DEF IInv, Idle, VoteInv, VotesCounted, VotesWon, CountedOnce, WonOnce,
                    ElectionSafety

\* Any step that drops no vote keeps the shape and every vote.
LEMMA CalmShape ==
    ASSUME Shape, [CalmNext]_vars
    PROVE  Shape' /\ \A s \in Server : Keeps(node[s], node'[s])
<1>1. ASSUME NEW s \in Server, ElectionTimeout(s)
      PROVE  Shape' /\ \A q \in Server : Keeps(node[q], node'[q])
  BY <1>1, TimeoutStep
<1>2. ASSUME NEW s \in Server, NEW c \in Command, SubmitCommand(s, c)
      PROVE  Shape' /\ \A q \in Server : Keeps(node[q], node'[q])
  BY <1>2, SubmitStep
<1>3. ASSUME NEW m \in DOMAIN rpcs, RequestVoteRPC(m)
      PROVE  Shape' /\ \A q \in Server : Keeps(node[q], node'[q])
  BY <1>3, RequestVoteStep
<1>4. ASSUME NEW m \in DOMAIN rpcs, AppendEntriesRPC(m)
      PROVE  Shape' /\ \A q \in Server : Keeps(node[q], node'[q])
  BY <1>4, AppendEntriesStep
<1>5. ASSUME \/ \E s \in Server : Began(s)
             \/ \E s \in Server : SendRequestVoteRPCs(s)
             \/ \E s \in Server : SendHeartbeats(s)
             \/ \E m \in DOMAIN rpcs : RPCUnreachable(m)
             \/ UNCHANGED vars
      PROVE  Shape' /\ \A q \in Server : Keeps(node[q], node'[q])
  BY <1>5, RequestsStep
<1> QED
  BY <1>1, <1>2, <1>3, <1>4, <1>5 DEF CalmNext

\* Nobody stands whom its own timeout has not made stand, after its Start.
LEMMA CalmIdle ==
    ASSUME Shape, Idle, [CalmNext]_vars
    PROVE  Idle'
<1> SUFFICES ASSUME NEW s \in Server, s \notin started PROVE ~Standing(node'[s])
  BY CalmForgotten DEF Idle, Standing
<1>0. ~Standing(node[s])
  BY DEF Idle
<1>1. ASSUME NEW c \in Server, ElectionTimeout(c) PROVE Quiet(node[s], node'[s])
  <2>1. s # c
    BY <1>1 DEF ElectionTimeout
  <2> QED
    BY <1>1, <2>1, TimeoutStep
<1>2. ASSUME NEW c \in Server, NEW d \in Command, SubmitCommand(c, d)
      PROVE  Quiet(node[s], node'[s])
  BY <1>2, SubmitStep
<1>3. ASSUME NEW m \in DOMAIN rpcs, RequestVoteRPC(m) PROVE Quiet(node[s], node'[s])
  <2>1. s = m.from => node[m.from].state # Candidate
    BY <1>0 DEF Standing
  <2> QED
    BY <1>3, <2>1, RequestVoteStep
<1>4. ASSUME NEW m \in DOMAIN rpcs, AppendEntriesRPC(m) PROVE Quiet(node[s], node'[s])
  BY <1>4, AppendEntriesStep
<1>5. ASSUME \/ \E c \in Server : Began(c)
             \/ \E c \in Server : SendRequestVoteRPCs(c)
             \/ \E c \in Server : SendHeartbeats(c)
             \/ \E m \in DOMAIN rpcs : RPCUnreachable(m)
             \/ UNCHANGED vars
      PROVE  Quiet(node[s], node'[s])
  BY <1>5, RequestsStep
<1>6. Quiet(node[s], node'[s])
  BY <1>1, <1>2, <1>3, <1>4, <1>5 DEF CalmNext
<1> QED
  BY <1>0, <1>6 DEF Quiet

LEMMA CalmIInv == IInv /\ [CalmNext]_vars => IInv'
<1> SUFFICES ASSUME IInv, [CalmNext]_vars PROVE VoteInv'
  BY CalmShape, CalmIdle DEF IInv
<1>0. Shape /\ VoteInv /\ Shape' /\ forgotten' = forgotten
  BY CalmShape, CalmForgotten DEF IInv
<1>1. ASSUME NEW s \in Server, ElectionTimeout(s) PROVE VoteInv'
  BY <1>1, TimeoutVotes
<1>2. ASSUME NEW s \in Server, NEW c \in Command, SubmitCommand(s, c) PROVE VoteInv'
  BY <1>0, <1>2, SubmitStep, QuietStep
<1>3. ASSUME NEW m \in DOMAIN rpcs, RequestVoteRPC(m) PROVE VoteInv'
  <2>1. \A s \in Server : Keeps(node[s], node'[s])
    BY <1>0, <1>3, RequestVoteStep
  <2>2. \A s \in Server \ {m.from} : Quiet(node[s], node'[s])
    BY <1>0, <1>3, RequestVoteStep
  <2>3. CASE Quiet(node[m.from], node'[m.from]) /\ elections' = elections
    BY <1>0, <2>1, <2>2, <2>3, QuietStep
  <2>4. CASE ~(Quiet(node[m.from], node'[m.from]) /\ elections' = elections)
    BY <1>0, <1>3, <2>1, <2>2, <2>4, RequestVoteStep, CountedVotes
  <2> QED
    BY <2>3, <2>4
<1>4. ASSUME NEW m \in DOMAIN rpcs, AppendEntriesRPC(m) PROVE VoteInv'
  BY <1>0, <1>4, AppendEntriesStep, QuietStep
<1>5. ASSUME \/ \E s \in Server : Began(s)
             \/ \E s \in Server : SendRequestVoteRPCs(s)
             \/ \E s \in Server : SendHeartbeats(s)
             \/ \E m \in DOMAIN rpcs : RPCUnreachable(m)
             \/ UNCHANGED vars
      PROVE  VoteInv'
  BY <1>0, <1>5, RequestsStep, QuietStep
<1> QED
  BY <1>1, <1>2, <1>3, <1>4, <1>5 DEF CalmNext

\* A Start that drops a vote touches nobody else, and what is said of the votes of
\* that term is not said any more.
LEMMA ForgetsFacts ==
    ASSUME Shape, Idle, NEW s \in Server, Forgets(s)
    PROVE  /\ Shape' /\ elections' = elections
           /\ s \in started' /\ s \notin started /\ started \subseteq started'
           /\ ~Standing(node[s]) /\ ~Standing(node'[s])
           /\ node'[s].currentTerm = node[s].currentTerm
           /\ \A q \in Server \ {s} : node'[q] = node[q]
           /\ forgotten' = forgotten \cup {node[s].currentTerm}
<1> DEFINE r == [node[s] EXCEPT !.votedFor = Nil, !.state = Follower]
<1>1. /\ node \in [Server -> NodeState] /\ s \in registry /\ s \notin started
      /\ started' = started \cup {s} /\ registry' = registry
      /\ voteTasks' = voteTasks /\ rpcs' = rpcs /\ elections' = elections
      /\ forgotten' = forgotten \cup {node[s].currentTerm}
  BY DEF Forgets, Start, Shape, TypeOK
<1>2. /\ r \in NodeState /\ r.state = Follower /\ r.currentTerm = node[s].currentTerm
      /\ node[s].currentTerm \in Nat
  <2>1. node[s] \in NodeState
    BY <1>1
  <2>2. r \in NodeState
    BY ONLY <2>1 DEF NodeState, Follower
  <2> QED
    BY ONLY <2>1, <2>2 DEF NodeState
<1>3. ConvertToFollower(node[s], node[s].currentTerm) = r
  BY <1>1 DEF ConvertToFollower, NodeState
<1>4. node' = [node EXCEPT ![s] = r]
  BY <1>3 DEF Forgets, Start
<1> HIDE DEF r
<1>5. node' \in [Server -> NodeState] /\ node'[s] = r /\ \A q \in Server \ {s} : node'[q] = node[q]
  BY <1>1, <1>2, <1>4
<1>6. Shape'
  BY <1>1, <1>2, <1>5 DEF Shape, TypeOK, DistinctEnds
<1>7. ~Standing(node[s]) /\ ~Standing(r)
  BY <1>1, <1>2 DEF Idle, Standing, Follower, Candidate, Leader
<1> QED
  BY <1>1, <1>2, <1>5, <1>6, <1>7

LEMMA ForgetsIInv ==
    ASSUME IInv, NEW s \in Server, Forgets(s)
    PROVE  IInv'
<1>1. Shape /\ VoteInv /\ Idle
  BY DEF IInv
<1>2. /\ Shape' /\ elections' = elections
      /\ s \in started' /\ started \subseteq started'
      /\ ~Standing(node'[s])
      /\ node'[s].currentTerm = node[s].currentTerm
      /\ \A q \in Server \ {s} : node'[q] = node[q]
      /\ forgotten' = forgotten \cup {node[s].currentTerm}
  BY <1>1, ForgetsFacts
<1>3. \A q \in Server : /\ node'[q].currentTerm = node[q].currentTerm
                        /\ node'[q].currentTerm \notin forgotten' => q # s
                        /\ Standing(node'[q]) => q # s
  BY <1>2
<1>4. Idle'
  BY <1>1, <1>2 DEF Idle, Standing
<1>5. VotesCounted'
  BY <1>1, <1>2, <1>3 DEF VoteInv, VotesCounted, Standing
<1>6. VotesWon'
  <2>1. \A e \in elections : e.votes \subseteq Server
    BY <1>1, ShapeFacts
  <2> QED
    BY <1>1, <1>2, <1>3, <2>1 DEF VoteInv, VotesWon, IsMajority
<1>7. CountedOnce'
  BY <1>1, <1>2, <1>3 DEF VoteInv, CountedOnce, Standing
<1>8. WonOnce'
  BY <1>1, <1>2, <1>3 DEF VoteInv, WonOnce, Standing
<1>9. ElectionSafety'
  BY <1>1, <1>2 DEF VoteInv, ElectionSafety
<1> QED
  BY <1>2, <1>4, <1>5, <1>6, <1>7, <1>8, <1>9 DEF IInv, VoteInv

LEMMA NextIInv == IInv /\ [Next]_vars => IInv'
<1> SUFFICES ASSUME IInv, [Next]_vars PROVE IInv'
  OBVIOUS
<1> QED
  BY CalmOrForgets, CalmIInv, ForgetsIInv DEF IInv

\* Without a dropped vote, at most one leader per term without exception.
LEMMA CalmFacts == IInv /\ NoVoteForgotten => CalmInv
  BY DEF CalmInv, IInv, VoteInv, ElectionSafety, OneLeaderPerTerm, NoVoteForgotten

LEMMA InitCalm == Init => CalmInv
<1>1. Init => NoVoteForgotten
  BY DEF Init, NoVoteForgotten
<1> QED
  BY <1>1, InitIInv, CalmFacts

LEMMA CalmKept == CalmInv /\ [CalmNext]_vars => CalmInv'
<1> SUFFICES ASSUME CalmInv, [CalmNext]_vars PROVE CalmInv'
  OBVIOUS
<1>1. IInv' /\ NoVoteForgotten'
  BY CalmIInv, CalmForgotten DEF CalmInv, NoVoteForgotten
<1> QED
  BY <1>1 DEF CalmInv, IInv, VoteInv, ElectionSafety, OneLeaderPerTerm, NoVoteForgotten

-----------------------------------------------------------------------------
(* Theorems *)

\* Every reachable state has the declared types: terms, indexes and logs stay
\* what they are through every truncation and every step back of nextIndex.
THEOREM TypeCorrect == Spec => []TypeOK
<1>1. IInv => TypeOK
  BY DEF IInv, Shape
<1> QED
  BY <1>1, InitIInv, NextIInv, PTL DEF Spec

\* At most one node wins the election of a term in which no Start dropped a vote,
\* whatever was dropped in other terms.
THEOREM ElectionSafe == Spec => []ElectionSafety
<1>1. IInv => ElectionSafety
  BY DEF IInv, VoteInv
<1> QED
  BY <1>1, InitIInv, NextIInv, PTL DEF Spec

\* Terms never decrease, and a vote stands until its term ends or its voter is
\* started.
THEOREM VotesStand == Spec => VotesKept
<1> DEFINE Kept == \A s \in Server :
                /\ node'[s].currentTerm >= node[s].currentTerm
                /\ node'[s].currentTerm = node[s].currentTerm /\ node[s].votedFor # Nil
                       => node'[s].votedFor = node[s].votedFor \/ s \in started' \ started
<1>1. IInv /\ [CalmNext]_vars => [Kept]_vars
  BY CalmShape DEF IInv, Keeps
<1>2. ASSUME IInv, NEW s \in Server, Forgets(s)
      PROVE  Kept
  <2>1. /\ s \in started' /\ s \notin started
        /\ node'[s].currentTerm = node[s].currentTerm
        /\ \A q \in Server \ {s} : node'[q] = node[q]
    BY <1>2, ForgetsFacts DEF IInv
  <2>2. \A q \in Server : node[q].currentTerm \in Nat
    BY <1>2, ShapeFacts DEF IInv
  <2> QED
    BY <2>1, <2>2
<1> HIDE DEF Kept
<1>3. IInv /\ [Next]_vars => [Kept]_vars
  BY <1>1, <1>2, CalmOrForgets DEF IInv
<1>4. Spec => [][Kept]_vars
  BY <1>3, InitIInv, NextIInv, PTL DEF Spec
<1> QED
  BY <1>4 DEF VotesKept, Kept

-----------------------------------------------------------------------------
(* Pieces of a log: the term of the entry before the piece, and the        *)
(* entries from there on.                                                  *)

Whole(log) == [base |-> 0, term |-> 0, entries |-> log]
Sent(m) == [base |-> m.prevLogIndex, term |-> m.prevLogTerm, entries |-> m.entries]

\* The places whose entries, and those whose terms, a piece tells.
Holds(f, k) == k \in (f.base + 1)..(f.base + Len(f.entries))
EntryAt(f, k) == f.entries[k - f.base]
Knows(f, k) == k > 0 /\ (k = f.base \/ Holds(f, k))
TermAt(f, k) == IF k = f.base THEN f.term ELSE EntryAt(f, k).term

\* Where two pieces hold entries of one term, they agree on all up to there.
AgreeUpto(f, g, k) ==
    \A j \in 1..k :
        /\ Holds(f, j) /\ Holds(g, j) => EntryAt(f, j) = EntryAt(g, j)
        /\ Knows(f, j) /\ Knows(g, j) => TermAt(f, j) = TermAt(g, j)

Agree(f, g) ==
    \A k \in Nat :
        Holds(f, k) /\ Holds(g, k) /\ EntryAt(f, k).term = EntryAt(g, k).term
            => AgreeUpto(f, g, k)

-----------------------------------------------------------------------------
(* Pieces *)

LEMMA WholeFacts ==
    ASSUME NEW log \in Seq(LogEntry), NEW k \in Nat
    PROVE  /\ Holds(Whole(log), k) <=> k \in 1..Len(log)
           /\ Knows(Whole(log), k) <=> k \in 1..Len(log)
           /\ k \in 1..Len(log) => /\ EntryAt(Whole(log), k) = log[k]
                                   /\ TermAt(Whole(log), k) = log[k].term
<1> DEFINE f == Whole(log)
<1>1. f.base = 0 /\ f.entries = log /\ Len(log) \in Nat
  BY DEF Whole
<1> HIDE DEF f
<1>2. Holds(f, k) <=> k \in 1..Len(log)
  BY <1>1 DEF Holds
<1>3. Knows(f, k) <=> k \in 1..Len(log)
  BY <1>1, <1>2 DEF Knows
<1>4. k \in 1..Len(log) => EntryAt(f, k) = log[k] /\ TermAt(f, k) = EntryAt(f, k).term
  BY <1>1 DEF EntryAt, TermAt
<1> QED
  BY <1>2, <1>3, <1>4 DEF f

IsPiece(f) == f.base \in Nat /\ f.entries \in Seq(LogEntry)

LEMMA PieceFacts ==
    ASSUME NEW f, IsPiece(f), NEW k \in Nat, Holds(f, k)
    PROVE  /\ k > f.base /\ k \in Nat \ {0} /\ Knows(f, k)
           /\ TermAt(f, k) = EntryAt(f, k).term /\ EntryAt(f, k) \in LogEntry
           /\ \A i, j \in Nat : Knows(f, i) /\ i < j /\ j <= k => Holds(f, j)
<1>1. f.base \in Nat /\ Len(f.entries) \in Nat /\ f.entries \in Seq(LogEntry)
  BY DEF IsPiece
<1>2. k > f.base /\ k \in Nat \ {0} /\ Knows(f, k) /\ k # f.base
  BY <1>1 DEF Holds, Knows
<1>3. k - f.base \in 1..Len(f.entries)
  BY <1>1 DEF Holds
<1>4. TermAt(f, k) = EntryAt(f, k).term /\ EntryAt(f, k) \in LogEntry
  BY <1>1, <1>2, <1>3 DEF TermAt, EntryAt
<1>5. ASSUME NEW i \in Nat, NEW j \in Nat, Knows(f, i), i < j, j <= k
      PROVE  Holds(f, j)
  BY <1>1, <1>5 DEF Knows, Holds
<1> QED
  BY <1>2, <1>4, <1>5

LEMMA AgreeSym == ASSUME NEW f, NEW g, Agree(f, g) PROVE Agree(g, f)
  BY DEF Agree, AgreeUpto

LEMMA AgreeSelf == ASSUME NEW f PROVE Agree(f, f)
  BY DEF Agree, AgreeUpto

\* A part of a piece agrees with whatever the piece agrees with.
LEMMA PartAgrees ==
    ASSUME NEW f, NEW h, NEW g, Agree(h, g),
           \A k \in Nat : Holds(f, k) => Holds(h, k) /\ EntryAt(f, k) = EntryAt(h, k),
           \A i, j \in Nat : Holds(f, i) /\ Knows(f, j) =>
               Knows(h, j) /\ TermAt(f, j) = TermAt(h, j)
    PROVE  Agree(f, g)
<1> SUFFICES ASSUME NEW k \in Nat, Holds(f, k), Holds(g, k),
                    EntryAt(f, k).term = EntryAt(g, k).term, NEW j \in 1..k
             PROVE  /\ Holds(f, j) /\ Holds(g, j) => EntryAt(f, j) = EntryAt(g, j)
                    /\ Knows(f, j) /\ Knows(g, j) => TermAt(f, j) = TermAt(g, j)
  BY DEF Agree, AgreeUpto
<1>1. AgreeUpto(h, g, k)
  BY DEF Agree
<1>2. j \in Nat
  OBVIOUS
<1> QED
  BY <1>1, <1>2 DEF AgreeUpto

\* The log r is l up to the place c and the piece m after it.  It was
\* made where l and m know the same term before m, and l was kept only while its
\* terms were those of m.
LEMMA MergedAgrees ==
    ASSUME NEW l, NEW m, NEW r, NEW c \in Nat, NEW g,
           IsPiece(l), IsPiece(m), IsPiece(r), IsPiece(g),
           l.base = 0, r.base = 0, m.base <= c,
           \A k \in Nat : Holds(r, k) =>
               \/ k <= c /\ Holds(l, k) /\ EntryAt(r, k) = EntryAt(l, k)
               \/ k > c /\ Holds(m, k) /\ EntryAt(r, k) = EntryAt(m, k),
           \A k \in 1..c : Holds(m, k) =>
               Holds(l, k) /\ EntryAt(l, k).term = EntryAt(m, k).term,
           m.base > 0 => Holds(l, m.base) /\ EntryAt(l, m.base).term = m.term,
           Agree(l, m), Agree(l, g), Agree(m, g)
    PROVE  Agree(r, g)
<1> SUFFICES ASSUME NEW k \in Nat, Holds(r, k), Holds(g, k),
                    EntryAt(r, k).term = EntryAt(g, k).term, NEW j \in 1..k
             PROVE  /\ Holds(r, j) /\ Holds(g, j) => EntryAt(r, j) = EntryAt(g, j)
                    /\ Knows(r, j) /\ Knows(g, j) => TermAt(r, j) = TermAt(g, j)
  BY DEF Agree, AgreeUpto
<1>1. j \in Nat /\ j > 0 /\ j <= k /\ k > 0
  OBVIOUS
<1>2. Holds(r, j)
  BY <1>1 DEF Holds, IsPiece
<1>3. TermAt(r, j) = EntryAt(r, j).term
  BY <1>1, <1>2, PieceFacts
<1>4. CASE k <= c
  <2>1. Holds(l, k) /\ EntryAt(r, k) = EntryAt(l, k)
    BY <1>4
  <2>2. AgreeUpto(l, g, k)
    BY <2>1 DEF Agree
  <2>3. Holds(l, j) /\ EntryAt(r, j) = EntryAt(l, j)
    BY <1>1, <1>2, <1>4
  <2>4. TermAt(l, j) = EntryAt(l, j).term /\ Knows(l, j)
    BY <1>1, <2>3, PieceFacts
  <2> QED
    BY <1>3, <2>2, <2>3, <2>4 DEF AgreeUpto
<1>5. CASE k > c
  <2>1. Holds(m, k) /\ EntryAt(r, k) = EntryAt(m, k)
    BY <1>5
  <2>2. AgreeUpto(m, g, k)
    BY <2>1 DEF Agree
  <2>3. CASE j > c
    <3>1. Holds(m, j) /\ EntryAt(r, j) = EntryAt(m, j)
      BY <1>1, <1>2, <2>3
    <3>2. TermAt(m, j) = EntryAt(m, j).term /\ Knows(m, j)
      BY <1>1, <3>1, PieceFacts
    <3> QED
      BY <1>3, <2>2, <3>1, <3>2 DEF AgreeUpto
  <2>4. CASE j <= c
    <3>1. Holds(l, j) /\ EntryAt(r, j) = EntryAt(l, j)
      BY <1>1, <1>2, <2>4
    <3>2. TermAt(l, j) = EntryAt(l, j).term /\ Knows(l, j)
      BY <1>1, <3>1, PieceFacts
    <3>3. CASE j > m.base
      <4>1. Holds(m, j)
        BY <1>1, <2>1, <3>3 DEF Holds, IsPiece
      <4>2. EntryAt(l, j).term = EntryAt(m, j).term
        BY <2>4, <4>1
      <4>3. EntryAt(l, j) = EntryAt(m, j)
        BY <3>1, <4>1, <4>2, <1>1 DEF Agree, AgreeUpto
      <4>4. TermAt(m, j) = EntryAt(m, j).term /\ Knows(m, j)
        BY <1>1, <4>1, PieceFacts
      <4> QED
        BY <1>3, <2>2, <3>1, <4>1, <4>3, <4>4 DEF AgreeUpto
    <3>4. CASE j <= m.base
      <4>0. m.base \in Nat /\ m.base > 0 /\ m.base < k
        BY <1>1, <1>5, <3>4 DEF IsPiece
      <4>1. Holds(l, m.base) /\ EntryAt(l, m.base).term = m.term
        BY <4>0
      <4>2. Knows(m, m.base) /\ TermAt(m, m.base) = m.term
        BY <4>0 DEF Knows, TermAt
      <4>3. Knows(g, m.base) => TermAt(g, m.base) = m.term
        BY <2>2, <4>0, <4>2 DEF AgreeUpto
      <4>4. CASE Holds(g, m.base)
        <5>1. EntryAt(g, m.base).term = EntryAt(l, m.base).term
          BY <4>0, <4>1, <4>3, <4>4, PieceFacts
        <5>2. AgreeUpto(l, g, m.base)
          BY <4>0, <4>1, <4>4, <5>1 DEF Agree
        <5>3. j \in 1..m.base
          BY <1>1, <3>4, <4>0
        <5> QED
          BY <1>3, <3>1, <3>2, <5>2, <5>3 DEF AgreeUpto
      <4>5. CASE ~Holds(g, m.base)
        <5>1. Knows(g, j) => j = m.base
          <6>1. \A i, n \in Nat : Knows(g, i) /\ i < n /\ n <= k => Holds(g, n)
            BY PieceFacts
          <6> QED
            BY <1>1, <3>4, <4>0, <4>5, <6>1
        <5>2. Holds(g, j) => Knows(g, j)
          BY <1>1, PieceFacts
        <5>3. ~Holds(g, j)
          BY <4>5, <5>1, <5>2
        <5>4. Knows(g, j) => TermAt(r, j) = TermAt(g, j)
          BY <1>3, <3>1, <4>1, <4>3, <5>1
        <5> QED
          BY <5>3, <5>4
      <4> QED
        BY <4>4, <4>5
    <3> QED
      BY <1>1, <3>3, <3>4 DEF IsPiece
  <2> QED
    BY <1>1, <2>3, <2>4
<1> QED
  BY <1>4, <1>5

\* A log with one entry more agrees with what holds no entry of that term there.
LEMMA ExtendedAgrees ==
    ASSUME NEW log \in Seq(LogEntry), NEW e \in LogEntry, NEW g,
           Agree(Whole(log), g),
           Holds(g, Len(log) + 1) => EntryAt(g, Len(log) + 1).term # e.term
    PROVE  Agree(Whole(Append(log, e)), g)
<1> DEFINE r == Append(log, e)
<1>1. /\ r \in Seq(LogEntry) /\ Len(r) = Len(log) + 1 /\ r[Len(log) + 1] = e
      /\ Len(log) \in Nat
      /\ \A k \in 1..Len(log) : r[k] = log[k]
  OBVIOUS
<1> HIDE DEF r
<1> SUFFICES ASSUME NEW k \in Nat, Holds(Whole(r), k), Holds(g, k),
                    EntryAt(Whole(r), k).term = EntryAt(g, k).term, NEW j \in 1..k
             PROVE  /\ Holds(Whole(r), j) /\ Holds(g, j) => EntryAt(Whole(r), j) = EntryAt(g, j)
                    /\ Knows(Whole(r), j) /\ Knows(g, j) => TermAt(Whole(r), j) = TermAt(g, j)
  BY DEF Agree, AgreeUpto, r
<1>2. k \in 1..Len(log)
  <2>1. k \in 1..(Len(log) + 1) /\ EntryAt(Whole(r), k) = r[k]
    BY <1>1, WholeFacts
  <2>2. k # Len(log) + 1
    BY <1>1, <2>1
  <2> QED
    BY <1>1, <2>1, <2>2
<1>3. j \in 1..Len(log) /\ j \in Nat /\ j \in 1..Len(r)
  BY <1>1, <1>2
<1>4. EntryAt(Whole(r), k) = EntryAt(Whole(log), k) /\ Holds(Whole(log), k)
  BY <1>1, <1>2, WholeFacts
<1>5. AgreeUpto(Whole(log), g, k)
  BY <1>4 DEF Agree
<1>6. /\ Holds(Whole(log), j) /\ Knows(Whole(log), j)
      /\ EntryAt(Whole(log), j) = log[j] /\ TermAt(Whole(log), j) = log[j].term
      /\ EntryAt(Whole(r), j) = log[j] /\ TermAt(Whole(r), j) = log[j].term
  BY <1>1, <1>3, WholeFacts
<1> QED
  BY <1>5, <1>6 DEF AgreeUpto

\* The log after AppendEntries is the log before up to a place c, and the entries of
\* the request after it; what was kept beyond the previous entry has their terms.  It
\* is cut only where the terms differ, and holds all entries of the request.
LEMMA MergeLogShape ==
    ASSUME NEW log \in Seq(LogEntry), NEW entries \in Seq(LogEntry),
           NEW prev \in Nat, prev <= Len(log)
    PROVE  \E c \in Nat :
             /\ prev <= c /\ c <= Len(log)
             /\ \A k \in 1..Len(MergeLog(log, prev, entries)) :
                  \/ k <= c /\ MergeLog(log, prev, entries)[k] = log[k]
                  \/ /\ k > c /\ k - prev \in 1..Len(entries)
                     /\ MergeLog(log, prev, entries)[k] = entries[k - prev]
             /\ \A k \in 1..c :
                  k - prev \in 1..Len(entries) => log[k].term = entries[k - prev].term
             /\ c < Len(log) => /\ c + 1 - prev \in 1..Len(entries)
                                /\ log[c + 1].term # entries[c + 1 - prev].term
             /\ c <= Len(MergeLog(log, prev, entries))
             /\ prev + Len(entries) <= Len(MergeLog(log, prev, entries))
<1> DEFINE Conflict(i) == prev + i <= Len(log) /\ log[prev + i].term # entries[i].term
           Least == CHOOSE i \in 1..Len(entries) :
                        Conflict(i) /\ \A j \in 1..(i - 1) : ~Conflict(j)
           kept == IF \E i \in 1..Len(entries) : Conflict(i)
                   THEN SubSeq(log, 1, prev + Least - 1) ELSE log
           r == MergeLog(log, prev, entries)
<1>0. Len(log) \in Nat /\ Len(entries) \in Nat
  OBVIOUS
<1>1. /\ kept \in Seq(LogEntry) /\ prev <= Len(kept) /\ Len(kept) <= Len(log)
      /\ \A k \in 1..Len(kept) : kept[k] = log[k]
      /\ \A i \in 1..Len(entries) : prev + i <= Len(kept) => ~Conflict(i)
      /\ Len(kept) < Len(log) =>
            /\ Len(kept) + 1 - prev \in 1..Len(entries)
            /\ log[Len(kept) + 1].term # entries[Len(kept) + 1 - prev].term
  <2>1. CASE \E i \in 1..Len(entries) : Conflict(i)
    <3> DEFINE T == {i \in 1..Len(entries) : Conflict(i)}
    <3>1. T \subseteq Nat /\ T # {}
      BY <2>1
    <3>2. PICK w \in T : \A j \in T : w <= j
      <4> HIDE DEF T
      <4> QED BY <3>1, LeastNat
    <3>3. \A j \in 1..(w - 1) : j \in 1..Len(entries) /\ ~(w <= j)
      BY <3>2
    <3>4. w \in 1..Len(entries) /\ Conflict(w) /\ \A j \in 1..(w - 1) : ~Conflict(j)
      BY <3>2, <3>3
    <3> HIDE DEF Conflict
    <3>5. Least \in 1..Len(entries) /\ Conflict(Least) /\ \A j \in 1..(Least - 1) : ~Conflict(j)
      BY <3>4
    <3> HIDE DEF Least
    <3>6. prev + Least - 1 \in Nat /\ prev <= prev + Least - 1 /\ prev + Least - 1 <= Len(log)
      BY <3>5 DEF Conflict
    <3>7. /\ SubSeq(log, 1, prev + Least - 1) \in Seq(LogEntry)
          /\ Len(SubSeq(log, 1, prev + Least - 1)) = prev + Least - 1
          /\ \A k \in 1..(prev + Least - 1) : SubSeq(log, 1, prev + Least - 1)[k] = log[k]
      BY <3>6, SubSeqType
    <3>8. \A j \in 1..Len(entries) : prev + j <= prev + Least - 1 => j \in 1..(Least - 1)
      BY <3>5
    <3>9. kept = SubSeq(log, 1, prev + Least - 1)
      BY <2>1
    <3> HIDE DEF kept
    <3>10. /\ kept \in Seq(LogEntry) /\ Len(kept) = prev + Least - 1
           /\ \A k \in 1..Len(kept) : kept[k] = log[k]
      BY ONLY <3>7, <3>9
    <3>11. \A i \in 1..Len(entries) : prev + i <= Len(kept) => ~Conflict(i)
      BY ONLY <3>5, <3>8, <3>10
    <3>12. prev <= Len(kept) /\ Len(kept) <= Len(log)
      BY ONLY <3>6, <3>10
    <3>13. /\ Len(kept) + 1 - prev \in 1..Len(entries)
           /\ log[Len(kept) + 1].term # entries[Len(kept) + 1 - prev].term
      <4>1. /\ Least \in 1..Len(entries) /\ Len(kept) = prev + Least - 1
            /\ log[prev + Least].term # entries[Least].term
        BY ONLY <3>5, <3>10 DEF Conflict
      <4>2. Len(kept) + 1 = prev + Least /\ Len(kept) + 1 - prev = Least
        BY <4>1
      <4> QED
        BY ONLY <4>1, <4>2
    <3> QED
      BY ONLY <3>10, <3>11, <3>12, <3>13, Zenon
  <2>2. CASE ~\E i \in 1..Len(entries) : Conflict(i)
    BY <2>2
  <2> QED
    BY <2>1, <2>2
<1>2. r = kept \o SubSeq(entries, Len(kept) + 1 - prev, Len(entries))
  BY DEF MergeLog
<1> HIDE DEF kept, r
<1> DEFINE c == Len(kept)
           start == c + 1 - prev
           rest == SubSeq(entries, start, Len(entries))
<1>3. c \in Nat /\ start \in Nat \ {0}
  BY <1>1
<1>4. rest \in Seq(LogEntry) /\ \A i \in 1..Len(rest) : start + i - 1 \in 1..Len(entries)
                                    /\ rest[i] = entries[start + i - 1]
  <2>1. start \in Int /\ Len(entries) \in Int /\ \A i \in start..Len(entries) : entries[i] \in LogEntry
    BY <1>0, <1>3
  <2> HIDE DEF start
  <2>2. /\ rest \in Seq(LogEntry)
        /\ Len(rest) = IF start <= Len(entries) THEN Len(entries) - start + 1 ELSE 0
        /\ \A i \in 1..(Len(entries) - start + 1) : rest[i] = entries[start + i - 1]
    BY ONLY <2>1, SubSeqProperties
  <2> HIDE DEF rest
  <2>3. ASSUME NEW i \in 1..Len(rest)
        PROVE  start + i - 1 \in 1..Len(entries) /\ rest[i] = entries[start + i - 1]
    <3>1. start <= Len(entries) /\ i \in 1..(Len(entries) - start + 1)
      BY <1>0, <1>3, <2>2
    <3>2. start + i - 1 \in 1..Len(entries)
      BY <1>0, <1>3, <3>1
    <3> QED
      BY <2>2, <3>1, <3>2
  <2> QED
    BY <2>2, <2>3
<1>5. \A k \in 1..Len(r) :
        \/ k <= c /\ r[k] = log[k]
        \/ k > c /\ k - prev \in 1..Len(entries) /\ r[k] = entries[k - prev]
  <2> SUFFICES ASSUME NEW k \in 1..Len(r), ~(k <= c)
               PROVE  k - prev \in 1..Len(entries) /\ r[k] = entries[k - prev]
    <3>1. \A k \in 1..Len(r) : k <= c => r[k] = log[k]
      <4>1. \A k \in 1..c : r[k] = kept[k]
        BY <1>1, <1>2, <1>4
      <4>2. \A k \in 1..c : kept[k] = log[k]
        BY <1>1
      <4>3. ASSUME NEW k \in 1..Len(r), k <= c PROVE k \in 1..c
        BY <1>3, <4>3
      <4> HIDE DEF c
      <4> QED
        BY ONLY <4>1, <4>2, <4>3
    <3> QED
      BY <1>3, <3>1
  <2> HIDE DEF rest
  <2>1. r \in Seq(LogEntry) /\ Len(r) = c + Len(rest)
    BY <1>1, <1>2, <1>4 DEF rest
  <2>2. k - c \in 1..Len(rest) /\ r[k] = rest[k - c]
    BY <1>1, <1>2, <1>3, <1>4, <2>1 DEF rest
  <2>3. start + (k - c) - 1 = k - prev
    BY <1>3, <2>1
  <2> QED
    BY <1>4, <2>2, <2>3
<1>6. \A k \in 1..c : k - prev \in 1..Len(entries) => log[k].term = entries[k - prev].term
  <2> SUFFICES ASSUME NEW k \in 1..c, k - prev \in 1..Len(entries)
               PROVE  log[k].term = entries[k - prev].term
    OBVIOUS
  <2>1. prev + (k - prev) = k /\ k <= Len(log)
    BY <1>0, <1>1, <1>3
  <2>2. ~Conflict(k - prev)
    BY <1>1, <1>3, <2>1
  <2> QED
    BY <2>1, <2>2
<1>7. c <= Len(r) /\ prev + Len(entries) <= Len(r)
  <2>1. start \in Int /\ Len(entries) \in Int /\ \A i \in start..Len(entries) : entries[i] \in LogEntry
    BY <1>0, <1>3
  <2>2. Len(rest) = IF start <= Len(entries) THEN Len(entries) - start + 1 ELSE 0
    <3> HIDE DEF start
    <3> QED
      BY ONLY <2>1, SubSeqProperties
  <2>3. Len(r) = c + Len(rest)
    BY <1>1, <1>2, <1>4
  <2> HIDE DEF rest, c
  <2> QED
    BY <1>0, <1>1, <1>3, <2>2, <2>3 DEF c
<1>8. c < Len(log) => c + 1 - prev \in 1..Len(entries)
                      /\ log[c + 1].term # entries[c + 1 - prev].term
  BY <1>1
<1> HIDE DEF c
<1> QED
  BY <1>3, <1>5, <1>6, <1>7, <1>8, <1>1 DEF r, c

\* The log r is l up to the place c and the request q after it.
MergedAt(l, q, r, c) ==
    /\ IsPiece(l) /\ IsPiece(q) /\ IsPiece(r) /\ l.base = 0 /\ r.base = 0
    /\ q.base <= c /\ c <= Len(l.entries) /\ c <= Len(r.entries)
    /\ q.base + Len(q.entries) <= Len(r.entries)
    /\ \A k \in Nat : Holds(r, k) =>
           \/ k <= c /\ Holds(l, k) /\ EntryAt(r, k) = EntryAt(l, k)
           \/ k > c /\ Holds(q, k) /\ EntryAt(r, k) = EntryAt(q, k)
    /\ \A k \in 1..c : Holds(q, k) => Holds(l, k) /\ EntryAt(l, k).term = EntryAt(q, k).term
    /\ q.base > 0 => Holds(l, q.base) /\ EntryAt(l, q.base).term = q.term
    /\ c < Len(l.entries) => /\ Holds(q, c + 1) /\ Holds(l, c + 1)
                             /\ EntryAt(l, c + 1).term # EntryAt(q, c + 1).term

\* What AppendEntries makes of a log is that.
LEMMA MergeParts ==
    ASSUME NEW L \in Seq(LogEntry), NEW m \in AppendEntriesArgs, HasPrevious(L, m),
           NEW R, R = MergeLog(L, m.prevLogIndex, m.entries)
    PROVE  R \in Seq(LogEntry) /\ \E c \in Nat : MergedAt(Whole(L), Sent(m), Whole(R), c)
<1>l. PICK l : l = Whole(L)
  OBVIOUS
<1>q. PICK q : q = Sent(m)
  OBVIOUS
<1>r. PICK r : r = Whole(R)
  OBVIOUS
<1>1. /\ m.prevLogIndex \in Nat /\ m.entries \in Seq(LogEntry) /\ Len(m.entries) \in Nat
      /\ Len(L) \in Nat
  BY DEF AppendEntriesArgs
<1>2. /\ m.prevLogIndex <= Len(L)
      /\ m.prevLogIndex > 0 => L[m.prevLogIndex].term = m.prevLogTerm
  BY <1>1 DEF HasPrevious
<1>3. R \in Seq(LogEntry) /\ Len(R) \in Nat
  <2>1. MergeLog(L, m.prevLogIndex, m.entries) \in Seq(LogEntry)
    BY ONLY <1>1, <1>2, L \in Seq(LogEntry), MergeLogType
  <2> QED
    BY <2>1
<1>4. /\ IsPiece(l) /\ IsPiece(q) /\ IsPiece(r)
      /\ l.base = 0 /\ r.base = 0 /\ l.entries = L /\ r.entries = R
      /\ q.base = m.prevLogIndex /\ q.term = m.prevLogTerm /\ q.entries = m.entries
  BY <1>l, <1>q, <1>r, <1>1, <1>3 DEF Whole, Sent, IsPiece
<1>5. PICK c \in Nat :
         /\ m.prevLogIndex <= c /\ c <= Len(L)
         /\ \A k \in 1..Len(R) :
              \/ k <= c /\ R[k] = L[k]
              \/ k > c /\ k - m.prevLogIndex \in 1..Len(m.entries)
                 /\ R[k] = m.entries[k - m.prevLogIndex]
         /\ \A k \in 1..c : k - m.prevLogIndex \in 1..Len(m.entries)
                => L[k].term = m.entries[k - m.prevLogIndex].term
         /\ c < Len(L) => /\ c + 1 - m.prevLogIndex \in 1..Len(m.entries)
                          /\ L[c + 1].term # m.entries[c + 1 - m.prevLogIndex].term
         /\ c <= Len(R)
         /\ m.prevLogIndex + Len(m.entries) <= Len(R)
  <2>1. \E c \in Nat :
         /\ m.prevLogIndex <= c /\ c <= Len(L)
         /\ \A k \in 1..Len(MergeLog(L, m.prevLogIndex, m.entries)) :
              \/ k <= c /\ MergeLog(L, m.prevLogIndex, m.entries)[k] = L[k]
              \/ /\ k > c /\ k - m.prevLogIndex \in 1..Len(m.entries)
                 /\ MergeLog(L, m.prevLogIndex, m.entries)[k] = m.entries[k - m.prevLogIndex]
         /\ \A k \in 1..c : k - m.prevLogIndex \in 1..Len(m.entries)
                => L[k].term = m.entries[k - m.prevLogIndex].term
         /\ c < Len(L) => /\ c + 1 - m.prevLogIndex \in 1..Len(m.entries)
                          /\ L[c + 1].term # m.entries[c + 1 - m.prevLogIndex].term
         /\ c <= Len(MergeLog(L, m.prevLogIndex, m.entries))
         /\ m.prevLogIndex + Len(m.entries) <= Len(MergeLog(L, m.prevLogIndex, m.entries))
    BY ONLY <1>1, <1>2, L \in Seq(LogEntry), MergeLogShape
  <2> QED
    BY ONLY <2>1, R = MergeLog(L, m.prevLogIndex, m.entries)
<1>6. ASSUME NEW k \in Nat, k - m.prevLogIndex \in 1..Len(m.entries)
      PROVE  Holds(q, k) /\ EntryAt(q, k) = m.entries[k - m.prevLogIndex]
  BY <1>1, <1>4, <1>6 DEF Holds, EntryAt
<1>7. ASSUME NEW k \in Nat, Holds(r, k)
      PROVE  \/ k <= c /\ Holds(l, k) /\ EntryAt(r, k) = EntryAt(l, k)
             \/ k > c /\ Holds(q, k) /\ EntryAt(r, k) = EntryAt(q, k)
  <2>1. k \in 1..Len(R) /\ EntryAt(r, k) = R[k]
    BY <1>3, <1>7, <1>r, WholeFacts
  <2>2. CASE k <= c /\ R[k] = L[k]
    <3>1. k \in 1..Len(L)
      BY <1>1, <1>3, <1>5, <2>1, <2>2
    <3> QED
      BY <1>l, <2>1, <2>2, <3>1, WholeFacts
  <2>3. CASE /\ k > c /\ k - m.prevLogIndex \in 1..Len(m.entries)
             /\ R[k] = m.entries[k - m.prevLogIndex]
    BY <1>6, <2>1, <2>3
  <2> QED
    BY <1>5, <2>1, <2>2, <2>3
<1>8. ASSUME NEW k \in 1..c, Holds(q, k)
      PROVE  Holds(l, k) /\ EntryAt(l, k).term = EntryAt(q, k).term
  <2>1. k - m.prevLogIndex \in 1..Len(m.entries) /\ k \in Nat /\ k \in 1..Len(L)
    BY <1>1, <1>4, <1>5, <1>8 DEF Holds
  <2> QED
    BY <1>5, <1>6, <1>l, <2>1, WholeFacts
<1>9. q.base > 0 => Holds(l, q.base) /\ EntryAt(l, q.base).term = q.term
  <2>1. m.prevLogIndex > 0 => m.prevLogIndex \in 1..Len(L)
    BY <1>1, <1>2
  <2> QED
    BY <1>1, <1>2, <1>4, <1>l, <2>1, WholeFacts
<1>10. c < Len(L) => /\ Holds(q, c + 1) /\ Holds(l, c + 1)
                     /\ EntryAt(l, c + 1).term # EntryAt(q, c + 1).term
  <2> SUFFICES ASSUME c < Len(L)
               PROVE  /\ Holds(q, c + 1) /\ Holds(l, c + 1)
                      /\ EntryAt(l, c + 1).term # EntryAt(q, c + 1).term
    OBVIOUS
  <2>1. c + 1 \in Nat /\ c + 1 \in 1..Len(L)
    BY <1>1
  <2>2. /\ c + 1 - m.prevLogIndex \in 1..Len(m.entries)
        /\ L[c + 1].term # m.entries[c + 1 - m.prevLogIndex].term
    BY <1>5
  <2>3. Holds(q, c + 1) /\ EntryAt(q, c + 1) = m.entries[c + 1 - m.prevLogIndex]
    BY <1>1, <1>6, <2>1, <2>2, SMTT(30)
  <2>4. Holds(l, c + 1) /\ EntryAt(l, c + 1) = L[c + 1]
    BY <1>l, <2>1, WholeFacts
  <2> QED
    BY <2>2, <2>3, <2>4
<1>11. MergedAt(l, q, r, c)
  BY <1>4, <1>5, <1>7, <1>8, <1>9, <1>10 DEF MergedAt
<1> QED
  BY <1>3, <1>11, <1>l, <1>q, <1>r

-----------------------------------------------------------------------------
(* The methods of a node *)

\* A node leads or stands only as it did before.
RoleKept(n, r) ==
    r.state # Follower => r.state = n.state /\ r.currentTerm = n.currentTerm

LEMMA AdoptTermRole ==
    ASSUME NEW n \in NodeState, NEW t \in Nat
    PROVE  AdoptTerm(n, t).log = n.log /\ RoleKept(n, AdoptTerm(n, t))
  BY DEF AdoptTerm, ConvertToFollower, RoleKept, NodeState

LEMMA RequestVoteLog ==
    ASSUME NEW n \in NodeState, NEW m \in RequestVoteArgs
    PROVE  RequestVote(n, m).log = n.log /\ RoleKept(n, RequestVote(n, m))
<1> DEFINE u == AdoptTerm(n, m.term)
<1>1. u \in NodeState /\ u.log = n.log /\ RoleKept(n, u)
  BY AdoptTermFacts, AdoptTermRole DEF RequestVoteArgs
<1>2. RequestVote(n, m) = u \/ RequestVote(n, m) = [u EXCEPT !.votedFor = m.from]
  BY DEF RequestVote
<1> HIDE DEF u
<1> QED
  BY <1>1, <1>2 DEF NodeState, RoleKept

LEMMA VoteResultLog ==
    ASSUME NEW s \in Server, NEW n \in NodeState, NEW voter \in Server,
           NEW t \in Nat, NEW granted \in BOOLEAN
    PROVE  LET r == ProcessRequestVoteResult(s, n, voter, t, granted)
           IN  /\ r.log = n.log
               /\ \/ RoleKept(n, r)
                  \/ /\ n.state = Candidate /\ r.state = Leader
                     /\ r.currentTerm = n.currentTerm
<1> DEFINE r == ProcessRequestVoteResult(s, n, voter, t, granted)
           c == [n EXCEPT !.votesReceived = n.votesReceived \cup {voter}]
<1>1. CASE t > n.currentTerm
  <2>1. r = AdoptTerm(n, t)
    BY <1>1 DEF ProcessRequestVoteResult, AdoptTerm
  <2> QED
    BY <2>1, AdoptTermRole
<1>2. CASE ~(t > n.currentTerm)
  <2>1. r = n \/ r = c \/ (n.state = Candidate /\ r = ConvertToLeader(s, c))
    BY <1>2 DEF ProcessRequestVoteResult
  <2>2. c.log = n.log /\ RoleKept(n, c) /\ c.currentTerm = n.currentTerm /\ c \in NodeState
    BY DEF NodeState, RoleKept
  <2> HIDE DEF c
  <2>3. /\ ConvertToLeader(s, c).log = c.log /\ ConvertToLeader(s, c).state = Leader
        /\ ConvertToLeader(s, c).currentTerm = c.currentTerm
    BY <2>2 DEF ConvertToLeader, NodeState
  <2>4. RoleKept(n, n)
    BY DEF RoleKept
  <2> QED
    BY <2>1, <2>2, <2>3, <2>4
<1> QED
  BY <1>1, <1>2

LEMMA AppendEntriesLog ==
    ASSUME NEW n \in NodeState, NEW m \in AppendEntriesArgs
    PROVE  LET r == AppendEntries(n, m)
           IN  /\ RoleKept(n, r)
               /\ \/ r.log = n.log
                  \/ /\ r.currentTerm = m.term /\ HasPrevious(n.log, m)
                     /\ r.log = MergeLog(n.log, m.prevLogIndex, m.entries)
<1> DEFINE r == AppendEntries(n, m)
           v == AdoptTerm(n, m.term)
           u == [v EXCEPT !.currentLeader = m.from]
           a == [u EXCEPT !.log = MergeLog(u.log, m.prevLogIndex, m.entries)]
           b == [a EXCEPT !.commitIndex = Lesser(m.leaderCommit, LastNewIndex(m))]
<1>0. /\ m.term \in Nat /\ m.from \in Server /\ m.prevLogIndex \in Nat
      /\ m.entries \in Seq(LogEntry) /\ m.leaderCommit \in Nat
  BY DEF AppendEntriesArgs
<1>1. CASE m.term < n.currentTerm
  BY <1>1 DEF AppendEntries, RoleKept
<1>2. CASE ~(m.term < n.currentTerm)
  <2>1. r = IF ~HasPrevious(n.log, m) THEN u
            ELSE IF m.leaderCommit > n.commitIndex THEN ApplyCommittedEntries(b) ELSE a
    BY <1>2 DEF AppendEntries
  <2>2. v \in NodeState /\ v.log = n.log /\ RoleKept(n, v) /\ v.currentTerm = m.term
    <3>1. m.term >= n.currentTerm
      BY <1>0, <1>2 DEF NodeState
    <3> QED
      BY <1>0, <3>1, AdoptTermFacts, AdoptTermRole
  <2> HIDE DEF v
  <2>3. u \in NodeState /\ u.log = n.log /\ RoleKept(n, u) /\ u.currentTerm = m.term
    BY <1>0, <2>2 DEF NodeState, RoleKept
  <2> HIDE DEF u
  <2>4. HasPrevious(n.log, m) =>
           /\ a \in NodeState /\ a.log = MergeLog(n.log, m.prevLogIndex, m.entries)
           /\ RoleKept(n, a) /\ a.currentTerm = m.term
    <3>1. n.log \in Seq(LogEntry)
      BY DEF NodeState
    <3>2. HasPrevious(n.log, m) => m.prevLogIndex <= Len(n.log)
      BY <1>0, <3>1 DEF HasPrevious
    <3>3. HasPrevious(n.log, m) => MergeLog(u.log, m.prevLogIndex, m.entries) \in Seq(LogEntry)
      BY <1>0, <2>3, <3>1, <3>2, MergeLogType
    <3> QED
      BY <2>3, <3>3 DEF NodeState, RoleKept
  <2> HIDE DEF a
  <2>5. a \in NodeState /\ RoleKept(n, a) =>
           /\ b \in NodeState /\ b.log = a.log
           /\ RoleKept(n, b) /\ b.currentTerm = a.currentTerm
    <3>1. Lesser(m.leaderCommit, LastNewIndex(m)) \in Nat
      BY <1>0, LastNewIndexType DEF Lesser
    <3> QED
      BY <3>1 DEF NodeState, RoleKept
  <2> HIDE DEF b
  <2>6. b \in NodeState /\ RoleKept(n, b)
            => /\ ApplyCommittedEntries(b).log = b.log
               /\ ApplyCommittedEntries(b).currentTerm = b.currentTerm
               /\ RoleKept(n, ApplyCommittedEntries(b))
    BY ApplyCommittedFacts DEF SameElection, RoleKept
  <2> HIDE DEF r
  <2>7. CASE ~HasPrevious(n.log, m)
    BY <2>1, <2>3, <2>7 DEF r
  <2>8. CASE HasPrevious(n.log, m)
    BY <1>2, <2>1, <2>4, <2>5, <2>6, <2>8 DEF r
  <2> QED
    BY <2>7, <2>8
<1> QED
  BY <1>1, <1>2

LEMMA UpdateCommitLog ==
    ASSUME NEW s \in Server, NEW n \in NodeState
    PROVE  UpdateCommitIndex(s, n).log = n.log
<1> DEFINE k == CHOOSE k \in Committable(s, n) : \A j \in Committable(s, n) : j <= k
           c == [n EXCEPT !.commitIndex = k]
<1>1. CASE n.state = Leader /\ Committable(s, n) # {}
  <2>1. n.log \in Seq(LogEntry) /\ n.commitIndex \in Nat
    BY DEF NodeState
  <2>2. Committable(s, n) \subseteq 0..Len(n.log)
    BY <2>1 DEF Committable
  <2>3. Len(n.log) \in Nat
    BY <2>1
  <2>4. \E i \in Committable(s, n) : \A j \in Committable(s, n) : j <= i
    BY <1>1, <2>2, <2>3, GreatestNat
  <2>5. k \in Nat
    BY <2>2, <2>4
  <2>6. UpdateCommitIndex(s, n) = ApplyCommittedEntries(c)
    BY <1>1 DEF UpdateCommitIndex
  <2> HIDE DEF k
  <2>7. c \in NodeState /\ c.log = n.log
    BY <2>5 DEF NodeState
  <2> HIDE DEF c
  <2> QED
    BY <2>6, <2>7, ApplyCommittedFacts
<1>2. CASE ~(n.state = Leader /\ Committable(s, n) # {})
  BY <1>2 DEF UpdateCommitIndex
<1> QED
  BY <1>1, <1>2

LEMMA AppendResultLog ==
    ASSUME NEW s \in Server, NEW n \in NodeState, NEW m \in AppendEntriesArgs,
           NEW t \in Nat, NEW success \in BOOLEAN
    PROVE  LET r == ProcessAppendEntriesResult(s, n, m, t, success)
           IN  r.log = n.log /\ RoleKept(n, r)
<1> DEFINE r == ProcessAppendEntriesResult(s, n, m, t, success)
           d == RecordMatch(n, m)
<1>0. m.to \in Server /\ n.currentTerm \in Nat
  BY DEF AppendEntriesArgs, NodeState
<1>1. CASE t > n.currentTerm
  <2>1. r = AdoptTerm(n, t)
    BY <1>1 DEF ProcessAppendEntriesResult, AdoptTerm
  <2> QED
    BY <2>1, AdoptTermRole
<1>2. CASE ~(t > n.currentTerm)
  <2>1. d \in NodeState /\ SameElection(n, d) /\ d.log = n.log
    <3>1. LastNewIndex(m) \in Nat /\ LastNewIndex(m) + 1 \in Nat \ {0}
      BY LastNewIndexType
    <3> QED
      BY <1>0, <3>1 DEF RecordMatch, NodeState, SameElection
  <2> HIDE DEF d
  <2>2. UpdateCommitIndex(s, d).log = d.log /\ SameElection(d, UpdateCommitIndex(s, d))
    BY <2>1, UpdateCommitLog, UpdateCommitIndexFacts
  <2>3. StepBack(n, m).log = n.log /\ SameElection(n, StepBack(n, m))
    BY <1>0 DEF StepBack, NodeState, SameElection
  <2>4. r \in {n, UpdateCommitIndex(s, d), StepBack(n, m)}
    BY <1>2 DEF ProcessAppendEntriesResult, d
  <2> HIDE DEF r
  <2> QED
    BY <2>1, <2>2, <2>3, <2>4 DEF SameElection, RoleKept, r
<1> QED
  BY <1>1, <1>2

-----------------------------------------------------------------------------
(* The invariant *)

Appends == {m \in DOMAIN rpcs : m.type = "AppendEntries"}

Pieces == {Whole(node[s].log) : s \in Server} \cup {Sent(m) : m \in Appends}

PiecesAgree == \A f, g \in Pieces : Agree(f, g)

\* Entries know their place, and were made in a term somebody led.
PieceSound(f) ==
    \A k \in Nat : Holds(f, k) =>
        /\ EntryAt(f, k).index = k
        /\ \E e \in elections : e.term = EntryAt(f, k).term

\* Whatever was made in the term of a leader is no longer than its log.
LeaderHolds(f) ==
    \A s \in Server : \A k \in Nat :
        node[s].state = Leader /\ Holds(f, k) /\ EntryAt(f, k).term = node[s].currentTerm
            => k <= Len(node[s].log)

LeadersElected ==
    \A s \in Server : node[s].state = Leader =>
        \E e \in elections : e.term = node[s].currentTerm /\ e.leader = s

RequestsElected ==
    \A m \in Appends : \E e \in elections : e.term = m.term /\ e.leader = m.from

WonBehind == \A e \in elections : e.term <= node[e.leader].currentTerm

\* A candidate has not won the term it stands in.
CandidatesNew ==
    \A e \in elections :
        node[e.leader].state = Candidate => e.term # node[e.leader].currentTerm

Roles == LeadersElected /\ RequestsElected /\ WonBehind /\ CandidatesNew

LogInv ==
    /\ CalmInv /\ Roles
    /\ PiecesAgree
    /\ \A f \in Pieces : PieceSound(f) /\ LeaderHolds(f)

\* What the type invariant says of the states, of the pieces and of the elections.
Typed ==
    /\ \A s \in Server : /\ node[s] \in NodeState /\ node[s].log \in Seq(LogEntry)
                         /\ node[s].currentTerm \in Nat /\ Len(node[s].log) \in Nat
    /\ Appends \subseteq AppendEntriesArgs
    /\ \A m \in Appends : m.from \in Server /\ m.to \in Server /\ m.term \in Nat
    /\ \A f \in Pieces : IsPiece(f)
    /\ \A e \in elections : e.term \in Nat /\ e.leader \in Server

LEMMA PieceTypes == Shape => Typed
<1> SUFFICES ASSUME Shape PROVE Typed
  OBVIOUS
<1>1. \A s \in Server : node[s] \in NodeState
  BY DEF Shape, TypeOK
<1>2. \A s \in Server : /\ node[s].log \in Seq(LogEntry) /\ node[s].currentTerm \in Nat
                         /\ Len(node[s].log) \in Nat
  BY <1>1 DEF NodeState
<1>3. Appends \subseteq AppendEntriesArgs
  BY DEF Appends, Shape, TypeOK, RequestVoteArgs
<1>4. \A s \in Server : IsPiece(Whole(node[s].log))
  BY <1>2 DEF IsPiece, Whole
<1>5. \A m \in Appends : IsPiece(Sent(m))
  BY <1>3 DEF IsPiece, Sent, AppendEntriesArgs
<1>6. \A m \in Appends : m.from \in Server /\ m.to \in Server /\ m.term \in Nat
  BY <1>3 DEF AppendEntriesArgs
<1>7. \A e \in elections : e.term \in Nat /\ e.leader \in Server
  BY ShapeFacts
<1>8. \A f \in Pieces : IsPiece(f)
  BY <1>4, <1>5 DEF Pieces
<1> QED
  BY <1>1, <1>2, <1>3, <1>6, <1>7, <1>8 DEF Typed

LEMMA PieceTypesNext == Shape' => Typed'
  BY PieceTypes, PTL

-----------------------------------------------------------------------------
(* Roles *)

Started(s) == node'[s].state = Candidate /\ node'[s].currentTerm = node[s].currentTerm + 1

Won(s) ==
    /\ node[s].state = Candidate /\ node'[s].state = Leader
    /\ node'[s].currentTerm = node[s].currentTerm
    /\ \E e \in elections' : e.leader = s /\ e.term = node'[s].currentTerm

RolesMove ==
    /\ \A s \in Server : RoleKept(node[s], node'[s]) \/ Started(s) \/ Won(s)
    /\ elections \subseteq elections'
    /\ \A e \in elections' : e \in elections \/
          (node'[e.leader].state = Leader /\ e.term = node'[e.leader].currentTerm)
    /\ \A m \in Appends' : m \in Appends \/
          (node[m.from].state = Leader /\ m.term = node[m.from].currentTerm)

LEMMA RolesStep ==
    ASSUME Shape, Shape', Roles, RolesMove,
           \A s \in Server : Keeps(node[s], node'[s])
    PROVE  Roles'
<1> USE DEF Roles, RolesMove, RoleKept, Follower, Candidate, Leader
<1>1. LeadersElected'
  BY DEF LeadersElected, Started, Won
<1>2. RequestsElected'
  <2> SUFFICES ASSUME NEW m \in Appends'
               PROVE  \E e \in elections' : e.term = m.term /\ e.leader = m.from
    BY DEF RequestsElected
  <2>1. m.from \in Server
    BY PieceTypesNext DEF Typed
  <2> QED
    BY <2>1 DEF RequestsElected, LeadersElected
<1>3. /\ \A s \in Server : node[s].currentTerm \in Nat /\ node'[s].currentTerm \in Nat
      /\ \A e \in elections : e.term \in Nat /\ e.leader \in Server
      /\ \A e \in elections' : e.term \in Nat /\ e.leader \in Server
  BY PieceTypes, PieceTypesNext DEF Typed
<1>4. WonBehind'
  BY <1>3 DEF WonBehind, Keeps
<1>5. CandidatesNew'
  <2> SUFFICES ASSUME NEW e \in elections', node'[e.leader].state = Candidate
               PROVE  e.term # node'[e.leader].currentTerm
    BY DEF CandidatesNew
  <2>1. e \in elections /\ e.leader \in Server
    BY <1>3
  <2>2. CASE RoleKept(node[e.leader], node'[e.leader])
    BY <2>1, <2>2 DEF CandidatesNew
  <2>3. CASE Started(e.leader)
    BY <1>3, <2>1, <2>3 DEF Started, WonBehind
  <2>4. CASE Won(e.leader)
    BY <2>4 DEF Won
  <2> QED
    BY <2>1, <2>2, <2>3, <2>4
<1> QED
  BY <1>1, <1>2, <1>4, <1>5

\* Two leaders of one term are one.
LEMMA OneLeader ==
    ASSUME OneLeaderPerTerm, LeadersElected, NEW s \in Server, NEW t \in Server,
           node[s].state = Leader, node[t].state = Leader,
           node[s].currentTerm = node[t].currentTerm
    PROVE  s = t
  BY DEF OneLeaderPerTerm, LeadersElected

\* A piece stays sound, and no longer than the logs of leaders, while these do
\* not shrink.
LEMMA OldPieces ==
    ASSUME LogInv, RolesMove, Shape', OneLeaderPerTerm', NEW f \in Pieces,
           \A s \in Server : RoleKept(node[s], node'[s]) /\ node'[s].state = Leader
                => Len(node'[s].log) >= Len(node[s].log)
    PROVE  PieceSound(f)' /\ LeaderHolds(f)'
<1> USE DEF RolesMove, RoleKept, Follower, Candidate, Leader
<1>0. Shape /\ Roles /\ PieceSound(f) /\ LeaderHolds(f)
  BY DEF LogInv, CalmInv, IInv
<1>1. PieceSound(f)'
  BY <1>0 DEF PieceSound
<1>2. LeaderHolds(f)'
  <2> SUFFICES ASSUME NEW s \in Server, NEW k \in Nat, node'[s].state = Leader, Holds(f, k),
                      EntryAt(f, k).term = node'[s].currentTerm
               PROVE  k <= Len(node'[s].log)
    BY DEF LeaderHolds
  <2>1. CASE RoleKept(node[s], node'[s])
    <3>1. k <= Len(node[s].log) /\ Len(node'[s].log) >= Len(node[s].log)
      BY <1>0, <2>1 DEF LeaderHolds
    <3>2. Len(node[s].log) \in Nat /\ Len(node'[s].log) \in Nat
      BY <1>0, PieceTypes, PieceTypesNext DEF Typed
    <3> QED
      BY <3>1, <3>2
  <2>2. CASE Won(s)
    <3>1. PICK e \in elections : e.term = node'[s].currentTerm
      BY <1>0 DEF PieceSound
    <3>2. e.leader = s
      BY <2>2, <3>1 DEF Won, OneLeaderPerTerm
    <3> QED
      BY <1>0, <2>2, <3>1, <3>2 DEF Won, Roles, CandidatesNew
  <2>3. CASE Started(s)
    BY <2>3 DEF Started
  <2> QED
    BY <2>1, <2>2, <2>3
<1> QED
  BY <1>1, <1>2

-----------------------------------------------------------------------------
(* What the actions do to roles, logs and requests *)

SameLogs == \A s \in Server : node'[s].log = node[s].log

LEMMA TimeoutMove ==
    ASSUME Shape, NEW c \in Server, ElectionTimeout(c)
    PROVE  RolesMove /\ SameLogs /\ Appends' \subseteq Appends
<1> DEFINE r == ConvertToCandidate(c, node[c])
<1>1. node \in [Server -> NodeState] /\ node[c] \in NodeState
  BY DEF Shape, TypeOK
<1>2. r.state = Candidate /\ r.currentTerm = node[c].currentTerm + 1 /\ r.log = node[c].log
  BY <1>1 DEF ConvertToCandidate, NodeState
<1>3. /\ node' = [node EXCEPT ![c] = r]
      /\ rpcs' = rpcs /\ elections' = elections
  BY DEF ElectionTimeout
<1> HIDE DEF r
<1>4. node'[c] = r /\ \A s \in Server \ {c} : node'[s] = node[s]
  BY <1>1, <1>3
<1> QED
  BY <1>2, <1>3, <1>4 DEF RolesMove, SameLogs, Appends, RoleKept, Started

LEMMA VoteMove ==
    ASSUME Shape, NEW m \in DOMAIN rpcs, RequestVoteRPC(m)
    PROVE  RolesMove /\ SameLogs /\ Appends' \subseteq Appends
<1> DEFINE voter   == RequestVote(node[m.to], m)
           granted == GrantsVote(node[m.to], m)
           caller  == ProcessRequestVoteResult(m.from, node[m.from], m.to,
                          voter.currentTerm, granted)
           election == [term |-> caller.currentTerm, leader |-> m.from,
                        votes |-> caller.votesReceived]
<1>1. /\ m \in RequestVoteArgs /\ m.from \in Server /\ m.to \in Server /\ m.from # m.to
      /\ node \in [Server -> NodeState]
  BY DEF Shape, TypeOK, DistinctEnds, RequestVoteRPC, RequestVoteArgs, AppendEntriesArgs
<1>2. /\ node' = [node EXCEPT ![m.to] = voter, ![m.from] = caller]
      /\ elections' = IF caller.state = Leader /\ node[m.from].state # Leader
                      THEN elections \cup {election} ELSE elections
      /\ rpcs' = rpcs (-) SetToBag({m})
  BY DEF RequestVoteRPC, AskVote
<1>3. voter \in NodeState /\ voter.log = node[m.to].log /\ RoleKept(node[m.to], voter)
  BY <1>1, RequestVoteFacts, RequestVoteLog
<1>4. voter.currentTerm \in Nat /\ granted \in BOOLEAN
  <2>1. voter.currentTerm \in Nat
    BY <1>3 DEF NodeState
  <2>2. granted \in BOOLEAN
    BY DEF GrantsVote
  <2> QED
    BY <2>1, <2>2
<1> HIDE DEF voter, granted
<1>5. /\ caller.log = node[m.from].log
      /\ \/ RoleKept(node[m.from], caller)
         \/ /\ node[m.from].state = Candidate /\ caller.state = Leader
            /\ caller.currentTerm = node[m.from].currentTerm
  <2>1. node[m.from] \in NodeState
    BY <1>1
  <2> QED
    BY <1>1, <1>4, <2>1, VoteResultLog
<1> HIDE DEF caller
<1>6. /\ node'[m.to] = voter /\ node'[m.from] = caller
      /\ \A s \in Server \ {m.to, m.from} : node'[s] = node[s]
  BY <1>1, <1>2
<1>7. SameLogs /\ Appends' \subseteq Appends
  <2>1. DOMAIN rpcs' \subseteq DOMAIN rpcs
    BY <1>2, BagAfterReceive
  <2> QED
    BY <1>3, <1>5, <1>6, <2>1 DEF SameLogs, Appends
<1>8. \A s \in Server \ {m.from} : RoleKept(node[s], node'[s])
  BY <1>3, <1>6 DEF RoleKept
<1>9. CASE RoleKept(node[m.from], caller)
  <2>1. elections' = elections
    BY <1>2, <1>9 DEF RoleKept, Follower, Leader
  <2> QED
    BY <1>6, <1>7, <1>8, <1>9, <2>1 DEF RolesMove
<1>10. CASE /\ node[m.from].state = Candidate /\ caller.state = Leader
            /\ caller.currentTerm = node[m.from].currentTerm
  <2>1. elections' = elections \cup {election}
    BY <1>2, <1>10 DEF Candidate, Leader
  <2>2. election.leader = m.from /\ election.term = node'[m.from].currentTerm
    BY <1>6
  <2> HIDE DEF election
  <2>3. Won(m.from)
    BY <1>6, <1>10, <2>1, <2>2 DEF Won
  <2> QED
    BY <1>6, <1>7, <1>8, <1>10, <2>1, <2>2, <2>3 DEF RolesMove
<1> QED
  BY <1>5, <1>9, <1>10

LEMMA AppendMove ==
    ASSUME Shape, NEW m \in DOMAIN rpcs, AppendEntriesRPC(m)
    PROVE  /\ RolesMove /\ Appends' \subseteq Appends /\ elections' = elections
           /\ \A s \in Server : RoleKept(node[s], node'[s])
           /\ m \in Appends /\ m.from # m.to
           /\ \A s \in Server \ {m.to} : node'[s].log = node[s].log
           /\ \/ node'[m.to].log = node[m.to].log
              \/ /\ node'[m.to].currentTerm = m.term
                 /\ HasPrevious(node[m.to].log, m)
                 /\ node'[m.to].log = MergeLog(node[m.to].log, m.prevLogIndex, m.entries)
<1> DEFINE receiver == AppendEntries(node[m.to], m)
           success  == AcceptsEntries(node[m.to], m)
           caller   == ProcessAppendEntriesResult(m.from, node[m.from], m,
                           receiver.currentTerm, success)
<1>1. /\ m \in AppendEntriesArgs /\ m.from \in Server /\ m.to \in Server /\ m.from # m.to
      /\ node \in [Server -> NodeState] /\ m \in Appends
  BY DEF Shape, TypeOK, DistinctEnds, AppendEntriesRPC, RequestVoteArgs, AppendEntriesArgs, Appends
<1>2. /\ node' = [node EXCEPT ![m.to] = receiver, ![m.from] = caller]
      /\ rpcs' = rpcs (-) SetToBag({m}) /\ elections' = elections
  BY DEF AppendEntriesRPC
<1>3. /\ receiver \in NodeState /\ RoleKept(node[m.to], receiver)
      /\ \/ receiver.log = node[m.to].log
         \/ /\ receiver.currentTerm = m.term
            /\ HasPrevious(node[m.to].log, m)
            /\ receiver.log = MergeLog(node[m.to].log, m.prevLogIndex, m.entries)
  <2>1. node[m.to] \in NodeState
    BY <1>1
  <2>2. receiver \in NodeState
    BY <1>1, <2>1, AppendEntriesFacts
  <2> QED
    BY <1>1, <2>1, <2>2, AppendEntriesLog
<1>4. receiver.currentTerm \in Nat /\ success \in BOOLEAN
  <2>1. receiver.currentTerm \in Nat
    BY <1>3 DEF NodeState
  <2>2. success \in BOOLEAN
    BY DEF AcceptsEntries
  <2> QED
    BY <2>1, <2>2
<1> HIDE DEF receiver, success
<1>5. caller.log = node[m.from].log /\ RoleKept(node[m.from], caller)
  <2>1. node[m.from] \in NodeState
    BY <1>1
  <2> QED
    BY <1>1, <1>4, <2>1, AppendResultLog
<1> HIDE DEF caller
<1>6. /\ node'[m.to] = receiver /\ node'[m.from] = caller
      /\ \A s \in Server \ {m.to, m.from} : node'[s] = node[s]
  BY <1>1, <1>2
<1>7. Appends' \subseteq Appends
  <2>1. DOMAIN rpcs' \subseteq DOMAIN rpcs
    BY <1>2, BagAfterReceive
  <2> QED
    BY <2>1 DEF Appends
<1>8. \A s \in Server : RoleKept(node[s], node'[s])
  BY <1>3, <1>5, <1>6 DEF RoleKept
<1> QED
  BY <1>1, <1>2, <1>3, <1>5, <1>6, <1>7, <1>8 DEF RolesMove

LEMMA SubmitMove ==
    ASSUME Shape, NEW l \in Server, NEW command \in Command, SubmitCommand(l, command)
    PROVE  /\ RolesMove /\ Appends' = Appends /\ elections' = elections
           /\ node[l].state = Leader
           /\ \A s \in Server : /\ node'[s].state = node[s].state
                                /\ node'[s].currentTerm = node[s].currentTerm
           /\ \A s \in Server \ {l} : node'[s].log = node[s].log
           /\ \E e \in LogEntry : /\ e.term = node[l].currentTerm
                                  /\ e.index = Len(node[l].log) + 1
                                  /\ node'[l].log = Append(node[l].log, e)
<1> DEFINE entry == [term |-> node[l].currentTerm, index |-> Len(node[l].log) + 1,
                     command |-> command]
           log == Append(node[l].log, entry)
           r == [node[l] EXCEPT !.log = log]
<1>1. node \in [Server -> NodeState] /\ node[l] \in NodeState
  BY DEF Shape, TypeOK
<1>2. Len(node[l].log) \in Nat /\ node[l].currentTerm \in Nat
  BY <1>1 DEF NodeState
<1>3. entry \in LogEntry /\ entry.term = node[l].currentTerm /\ entry.index = Len(node[l].log) + 1
  BY <1>2 DEF LogEntry
<1>4. node' = [node EXCEPT ![l] = r] /\ rpcs' = rpcs /\ elections' = elections
      /\ node[l].state = Leader
  BY DEF SubmitCommand
<1> HIDE DEF entry
<1>5. r.log = log /\ r.state = node[l].state /\ r.currentTerm = node[l].currentTerm
  BY <1>1 DEF NodeState
<1> HIDE DEF r
<1>6. node'[l] = r /\ \A s \in Server \ {l} : node'[s] = node[s]
  BY <1>1, <1>4
<1>7. \A s \in Server : /\ node'[s].state = node[s].state
                        /\ node'[s].currentTerm = node[s].currentTerm
  BY <1>5, <1>6
<1> QED
  BY <1>3, <1>4, <1>5, <1>6, <1>7 DEF RolesMove, RoleKept, Appends

LEMMA SendMove ==
    ASSUME Shape, NEW l \in Server, SendHeartbeats(l)
    PROVE  /\ RolesMove /\ node' = node /\ elections' = elections
           /\ \A m \in Appends' : m \in Appends \/
                 \E p \in Peers(l) : m = AppendRequest(l, node[l], p)
<1>1. /\ node[l].state = Leader /\ node' = node /\ elections' = elections
      /\ DOMAIN rpcs' = DOMAIN rpcs \cup {AppendRequest(l, node[l], p) : p \in Peers(l)}
  BY BagAfterSend DEF SendHeartbeats
<1>2. \A m \in Appends' : m \in Appends \/ \E p \in Peers(l) : m = AppendRequest(l, node[l], p)
  BY <1>1 DEF Appends
<1>3. \A p \in Peers(l) : /\ AppendRequest(l, node[l], p).from = l
                          /\ AppendRequest(l, node[l], p).term = node[l].currentTerm
  BY DEF AppendRequest
<1> QED
  BY <1>1, <1>2, <1>3 DEF RolesMove, RoleKept

LEMMA OtherMove ==
    ASSUME Shape,
           \/ \E s \in Server : Began(s)
           \/ \E s \in Server : SendRequestVoteRPCs(s)
           \/ \E m \in DOMAIN rpcs : RPCUnreachable(m)
           \/ UNCHANGED vars
    PROVE  RolesMove /\ SameLogs /\ Appends' \subseteq Appends
<1>1. node' = node /\ elections' = elections
  BY DEF Began, Construct, Start, SendRequestVoteRPCs, RPCUnreachable, vars
<1>2. Appends' \subseteq Appends
  <2>1. ASSUME NEW s \in Server, SendRequestVoteRPCs(s) PROVE Appends' \subseteq Appends
    <3>1. DOMAIN rpcs' = DOMAIN rpcs \cup {VoteRequest(s, node[s], p) : p \in Peers(s)}
      BY <2>1, BagAfterSend DEF SendRequestVoteRPCs
    <3>2. \A p \in Peers(s) : VoteRequest(s, node[s], p).type = "RequestVote"
      BY DEF VoteRequest
    <3> QED
      BY <3>1, <3>2 DEF Appends
  <2>2. ASSUME NEW m \in DOMAIN rpcs, RPCUnreachable(m) PROVE Appends' \subseteq Appends
    BY <2>2, BagAfterReceive DEF RPCUnreachable, Appends
  <2>3. (\E s \in Server : Began(s)) \/ UNCHANGED vars => Appends' = Appends
    BY DEF Began, Construct, Start, vars, Appends
  <2> QED
    BY <2>1, <2>2, <2>3
<1> QED
  BY <1>1, <1>2 DEF RolesMove, RoleKept, SameLogs

-----------------------------------------------------------------------------
(* What the actions do to the pieces *)

\* A step after which every piece is an old one, or a new one that agrees
\* with the old ones and with the other new ones.
LEMMA PiecesStep ==
    ASSUME LogInv, CalmInv', RolesMove, NEW N,
           \A s \in Server : Keeps(node[s], node'[s]),
           \A s \in Server : RoleKept(node[s], node'[s]) /\ node'[s].state = Leader
                => Len(node'[s].log) >= Len(node[s].log),
           Pieces' \subseteq Pieces \cup N,
           \A f \in N : PieceSound(f)' /\ LeaderHolds(f)',
           \A f \in N, g \in Pieces \cup N : Agree(f, g)
    PROVE  LogInv'
<1>1. Roles'
  BY RolesStep DEF LogInv, CalmInv, IInv
<1>2. \A f \in Pieces : PieceSound(f)' /\ LeaderHolds(f)'
  BY OldPieces DEF CalmInv, IInv, VoteInv
<1>3. PiecesAgree'
  <2> SUFFICES ASSUME NEW f \in Pieces \cup N, NEW g \in Pieces \cup N PROVE Agree(f, g)
    BY DEF PiecesAgree
  <2>1. CASE f \in N
    BY <2>1
  <2>2. CASE g \in N
    BY <2>2, AgreeSym
  <2>3. CASE f \in Pieces /\ g \in Pieces
    BY <2>3 DEF LogInv, PiecesAgree
  <2> QED
    BY <2>1, <2>2, <2>3
<1> QED
  BY <1>1, <1>2, <1>3 DEF LogInv

LEMMA SameLogsStep ==
    ASSUME LogInv, CalmInv', RolesMove, SameLogs, Appends' \subseteq Appends,
           \A s \in Server : Keeps(node[s], node'[s])
    PROVE  LogInv'
<1>1. PICK N : N = {}
  OBVIOUS
<1>2. Pieces' \subseteq Pieces \cup N
  BY DEF Pieces, SameLogs
<1>3. \A s \in Server : Len(node'[s].log) >= Len(node[s].log)
  BY PieceTypes DEF Typed, SameLogs, LogInv, CalmInv, IInv
<1>4. \A f \in N : PieceSound(f)' /\ LeaderHolds(f)'
  BY <1>1
<1>5. \A f \in N, g \in Pieces \cup N : Agree(f, g)
  BY <1>1
<1> QED
  BY <1>2, <1>3, <1>4, <1>5, PiecesStep

LEMMA SubmitLogs ==
    ASSUME LogInv, CalmInv', NEW l \in Server, NEW command \in Command, SubmitCommand(l, command),
           \A s \in Server : Keeps(node[s], node'[s])
    PROVE  LogInv'
<1>0. Shape /\ Roles /\ Typed
  BY PieceTypes DEF LogInv, CalmInv, IInv
<1>1. PICK e \in LogEntry : /\ e.term = node[l].currentTerm
                            /\ e.index = Len(node[l].log) + 1
                            /\ node'[l].log = Append(node[l].log, e)
  BY <1>0, SubmitMove
<1>2. /\ RolesMove /\ Appends' = Appends /\ elections' = elections
      /\ node[l].state = Leader
      /\ \A s \in Server : /\ node'[s].state = node[s].state
                           /\ node'[s].currentTerm = node[s].currentTerm
      /\ \A s \in Server \ {l} : node'[s].log = node[s].log
  BY <1>0, SubmitMove
<1>l. PICK L : L = node[l].log
  OBVIOUS
<1>f. PICK f : f = Whole(Append(L, e))
  OBVIOUS
<1>h. PICK h : h = Whole(L)
  OBVIOUS
<1>N. PICK N : N = {f}
  OBVIOUS
<1>3. /\ L \in Seq(LogEntry) /\ Len(L) \in Nat /\ Append(L, e) \in Seq(LogEntry)
      /\ Len(Append(L, e)) = Len(L) + 1 /\ Append(L, e)[Len(L) + 1] = e
      /\ \A k \in 1..Len(L) : Append(L, e)[k] = L[k]
  <2>1. L \in Seq(LogEntry)
    BY <1>0, <1>l DEF Typed
  <2> QED
    BY <2>1
<1>4. h \in Pieces
  BY <1>l, <1>h DEF Pieces
<1>5. \A s \in Server : Len(node'[s].log) >= Len(node[s].log)
  BY <1>0, <1>1, <1>2, <1>3, <1>l DEF Typed
<1>6. Pieces' \subseteq Pieces \cup N
  BY <1>1, <1>2, <1>l, <1>f, <1>N DEF Pieces
<1>7. \A k \in Nat : Holds(f, k) =>
         \/ Holds(h, k) /\ EntryAt(f, k) = EntryAt(h, k)
         \/ k = Len(L) + 1 /\ EntryAt(f, k) = e
  <2> SUFFICES ASSUME NEW k \in Nat, Holds(f, k)
               PROVE  \/ Holds(h, k) /\ EntryAt(f, k) = EntryAt(h, k)
                      \/ k = Len(L) + 1 /\ EntryAt(f, k) = e
    OBVIOUS
  <2>1. k \in 1..(Len(L) + 1) /\ EntryAt(f, k) = Append(L, e)[k]
    BY <1>3, <1>f, WholeFacts
  <2>2. CASE k = Len(L) + 1
    BY <1>3, <2>1, <2>2
  <2>3. CASE k # Len(L) + 1
    <3>1. k \in 1..Len(L)
      BY <1>3, <2>1, <2>3
    <3> QED
      BY <1>3, <1>h, <2>1, <3>1, WholeFacts
  <2> QED
    BY <2>2, <2>3
<1>8. PieceSound(h)' /\ LeaderHolds(h)'
  <2>1. Shape' /\ OneLeaderPerTerm'
    BY DEF CalmInv, IInv, VoteInv
  <2> QED
    BY <1>2, <1>4, <1>5, <2>1, OldPieces
<1>9. PieceSound(f)'
  <2>1. \E d \in elections' : d.term = e.term
    BY <1>0, <1>1, <1>2 DEF Roles, LeadersElected
  <2> QED
    BY <1>1, <1>7, <1>8, <1>l, <2>1 DEF PieceSound
<1>10. LeaderHolds(f)'
  <2> SUFFICES ASSUME NEW s \in Server, NEW k \in Nat, node'[s].state = Leader, Holds(f, k),
                      EntryAt(f, k).term = node'[s].currentTerm
               PROVE  k <= Len(node'[s].log)
    BY DEF LeaderHolds
  <2>1. CASE Holds(h, k) /\ EntryAt(f, k) = EntryAt(h, k)
    BY <1>8, <2>1 DEF LeaderHolds
  <2>2. CASE k = Len(L) + 1 /\ EntryAt(f, k) = e
    <3>1. s = l
      BY <1>0, <1>1, <1>2, <2>2, OneLeader DEF Roles, LogInv, CalmInv, IInv, VoteInv
    <3>2. Len(node'[s].log) = Len(L) + 1
      BY <1>1, <1>3, <1>l, <3>1
    <3> QED
      BY <1>3, <2>2, <3>2
  <2> QED
    BY <1>7, <2>1, <2>2
<1>11. ASSUME NEW g \in Pieces PROVE Agree(f, g)
  <2>1. Holds(g, Len(L) + 1) => EntryAt(g, Len(L) + 1).term # e.term
    <3>1. LeaderHolds(g)
      BY DEF LogInv
    <3>2. Len(L) + 1 \in Nat /\ ~(Len(L) + 1 <= Len(L))
      BY <1>3
    <3> QED
      BY <1>1, <1>2, <1>l, <3>1, <3>2 DEF LeaderHolds
  <2>2. Agree(Whole(L), g)
    BY <1>4, <1>h DEF LogInv, PiecesAgree
  <2> QED
    BY <1>3, <1>f, <2>1, <2>2, ExtendedAgrees
<1>12. \A x \in N : PieceSound(x)' /\ LeaderHolds(x)'
  BY <1>9, <1>10, <1>N
<1>13. \A x \in N, g \in Pieces \cup N : Agree(x, g)
  BY <1>11, <1>N, AgreeSelf
<1> QED
  BY <1>2, <1>5, <1>6, <1>12, <1>13, PiecesStep

\* A request is a part of the log it was made from.
LEMMA RequestPart ==
    ASSUME NEW s \in Server, NEW n \in NodeState, NEW p \in Peers(s)
    PROVE  LET f == Sent(AppendRequest(s, n, p))
               h == Whole(n.log)
           IN  /\ \A k \in Nat : Holds(f, k) => Holds(h, k) /\ EntryAt(f, k) = EntryAt(h, k)
               /\ \A i, j \in Nat : Holds(f, i) /\ Knows(f, j) =>
                     Knows(h, j) /\ TermAt(f, j) = TermAt(h, j)
<1> DEFINE f == Sent(AppendRequest(s, n, p))
           h == Whole(n.log)
           next == n.nextIndex[p]
           prev == next - 1
           term == IF prev \in 1..Len(n.log) THEN n.log[prev].term ELSE 0
           entries == SubSeq(n.log, next, Len(n.log))
<1>1. n.log \in Seq(LogEntry) /\ Len(n.log) \in Nat /\ next \in Nat \ {0}
  BY DEF NodeState, Peers
<1>2. prev \in Nat
  BY <1>1
<1>3. f.base = prev /\ f.term = term /\ f.entries = entries
  BY DEF Sent, AppendRequest
<1>4. /\ entries \in Seq(LogEntry) /\ Len(entries) \in Nat
      /\ \A k \in 1..Len(entries) : k + prev \in 1..Len(n.log) /\ entries[k] = n.log[k + prev]
  <2>1. entries \in Seq(LogEntry)
    BY <1>1, SubSeqType
  <2>2. /\ Len(entries) = IF next <= Len(n.log) THEN Len(n.log) - next + 1 ELSE 0
        /\ \A k \in 1..(Len(n.log) - next + 1) : entries[k] = n.log[next + k - 1]
    <3>1. next \in Int /\ Len(n.log) \in Int
      BY <1>1
    <3>2. \A i \in next..Len(n.log) : n.log[i] \in LogEntry
      BY <1>1
    <3> HIDE DEF next
    <3> QED
      BY ONLY <3>1, <3>2, SubSeqProperties
  <2> HIDE DEF entries, next
  <2>3. Len(entries) \in Nat
    BY <2>1
  <2>4. ASSUME NEW k \in 1..Len(entries)
        PROVE  k + prev \in 1..Len(n.log) /\ entries[k] = n.log[k + prev]
    <3>1. next <= Len(n.log) /\ k \in 1..(Len(n.log) - next + 1)
      BY <1>1, <2>2
    <3>2. next + k - 1 = k + prev /\ k + prev \in 1..Len(n.log)
      BY <1>1, <3>1
    <3> QED
      BY <2>2, <3>1, <3>2
  <2> QED
    BY <2>1, <2>3, <2>4
<1> HIDE DEF entries, term, f, h, next
<1>5. ASSUME NEW k \in Nat, Holds(f, k)
      PROVE  /\ k \in 1..Len(n.log) /\ k > prev
             /\ Holds(h, k) /\ EntryAt(f, k) = EntryAt(h, k)
  <2>1. k - prev \in 1..Len(entries) /\ (k - prev) + prev = k /\ k > prev
    <3> HIDE DEF prev
    <3> QED
      BY <1>2, <1>3, <1>4, <1>5 DEF Holds
  <2>2. EntryAt(f, k) = n.log[k] /\ k \in 1..Len(n.log)
    BY <1>3, <1>4, <2>1 DEF EntryAt
  <2> QED
    BY <1>1, <2>1, <2>2, WholeFacts DEF h
<1>6. ASSUME NEW i \in Nat, NEW j \in Nat, Holds(f, i), Knows(f, j)
      PROVE  Knows(h, j) /\ TermAt(f, j) = TermAt(h, j)
  <2>1. CASE j = prev
    <3>1. j \in 1..Len(n.log)
      BY <1>1, <1>2, <1>5, <1>6, <2>1 DEF Knows
    <3>2. TermAt(f, j) = n.log[j].term
      BY <1>3, <2>1, <3>1 DEF TermAt, term
    <3> QED
      BY <1>1, <3>1, <3>2, WholeFacts DEF h
  <2>2. CASE j # prev
    <3>1. Holds(f, j)
      BY <1>3, <1>6, <2>2 DEF Knows
    <3>2. j \in 1..Len(n.log) /\ EntryAt(f, j) = EntryAt(h, j)
      BY <1>5, <3>1
    <3>3. TermAt(f, j) = EntryAt(f, j).term
      BY <1>3, <2>2 DEF TermAt
    <3> QED
      BY <1>1, <3>2, <3>3, WholeFacts DEF h
  <2> QED
    BY <2>1, <2>2
<1> QED
  BY <1>5, <1>6 DEF f, h

LEMMA SendLogs ==
    ASSUME LogInv, CalmInv', NEW l \in Server, SendHeartbeats(l),
           \A s \in Server : Keeps(node[s], node'[s])
    PROVE  LogInv'
<1>0. Shape /\ Typed
  BY PieceTypes DEF LogInv, CalmInv, IInv
<1>1. /\ RolesMove /\ node' = node /\ elections' = elections
      /\ \A m \in Appends' : m \in Appends \/
            \E p \in Peers(l) : m = AppendRequest(l, node[l], p)
  BY <1>0, SendMove
<1>h. PICK h : h = Whole(node[l].log)
  OBVIOUS
<1>N. PICK N : N = {Sent(AppendRequest(l, node[l], p)) : p \in Peers(l)}
  OBVIOUS
<1>2. h \in Pieces
  BY <1>h DEF Pieces
<1>3. Pieces' \subseteq Pieces \cup N
  BY <1>1, <1>N DEF Pieces
<1>4. ASSUME NEW f \in N
      PROVE  /\ \A k \in Nat : Holds(f, k) => Holds(h, k) /\ EntryAt(f, k) = EntryAt(h, k)
             /\ \A i, j \in Nat : Holds(f, i) /\ Knows(f, j) =>
                    Knows(h, j) /\ TermAt(f, j) = TermAt(h, j)
  BY <1>0, <1>h, <1>N, RequestPart DEF Typed
<1>5. \A s \in Server : Len(node'[s].log) >= Len(node[s].log)
  BY <1>0, <1>1 DEF Typed
<1>6. PieceSound(h)' /\ LeaderHolds(h)'
  <2>1. Shape' /\ OneLeaderPerTerm'
    BY DEF CalmInv, IInv, VoteInv
  <2> QED
    BY <1>1, <1>2, <1>5, <2>1, OldPieces
<1>7. \A f \in N : PieceSound(f)' /\ LeaderHolds(f)'
  BY <1>4, <1>6 DEF PieceSound, LeaderHolds
<1>8. ASSUME NEW f \in N, NEW g \in Pieces PROVE Agree(f, g)
  <2>1. Agree(h, g)
    BY <1>2 DEF LogInv, PiecesAgree
  <2> QED
    BY <1>4, <2>1, PartAgrees
<1>9. ASSUME NEW f \in N, NEW g \in N PROVE Agree(f, g)
  <2>1. Agree(h, g)
    BY <1>2, <1>8, AgreeSym
  <2> QED
    BY <1>4, <2>1, PartAgrees
<1>10. \A f \in N, g \in Pieces \cup N : Agree(f, g)
  BY <1>8, <1>9
<1> QED
  BY <1>1, <1>3, <1>5, <1>7, <1>10, PiecesStep


\* A node that leads the request's term sent it: nobody else's log is changed
\* while it leads.
LEMMA ReceiverFollows ==
    ASSUME LogInv, NEW m \in DOMAIN rpcs, AppendEntriesRPC(m),
           node'[m.to].log # node[m.to].log
    PROVE  node'[m.to].state # Leader
<1>0. Shape /\ Roles /\ OneLeaderPerTerm /\ Typed
  BY PieceTypes DEF LogInv, CalmInv, IInv, VoteInv
<1>1. /\ m \in Appends /\ m.from # m.to /\ RoleKept(node[m.to], node'[m.to])
      /\ node'[m.to].currentTerm = m.term
  <2>1. m \in Appends => m.to \in Server
    BY <1>0 DEF Typed
  <2> QED
    BY <1>0, <2>1, AppendMove
<1>2. m.to \in Server
  BY <1>0, <1>1 DEF Typed
<1> SUFFICES ASSUME node'[m.to].state = Leader PROVE FALSE
  OBVIOUS
<1>3. node[m.to].state = Leader /\ node[m.to].currentTerm = m.term
  BY <1>1 DEF RoleKept, Leader, Follower
<1>4. \E e \in elections : e.term = m.term /\ e.leader = m.to
  BY <1>0, <1>2, <1>3 DEF Roles, LeadersElected
<1>5. \E e \in elections : e.term = m.term /\ e.leader = m.from
  BY <1>0, <1>1 DEF Roles, RequestsElected
<1> QED
  BY <1>0, <1>1, <1>4, <1>5 DEF OneLeaderPerTerm

LEMMA AppendLogs ==
    ASSUME LogInv, CalmInv', NEW m \in DOMAIN rpcs, AppendEntriesRPC(m),
           \A s \in Server : Keeps(node[s], node'[s])
    PROVE  LogInv'
<1>0. Shape /\ Typed /\ Shape' /\ OneLeaderPerTerm' /\ Typed'
  BY PieceTypes, PieceTypesNext DEF LogInv, CalmInv, IInv, VoteInv
<1>1. /\ RolesMove /\ Appends' \subseteq Appends
      /\ \A s \in Server : RoleKept(node[s], node'[s])
      /\ m \in Appends
      /\ \A s \in Server \ {m.to} : node'[s].log = node[s].log
      /\ \/ node'[m.to].log = node[m.to].log
         \/ /\ HasPrevious(node[m.to].log, m)
            /\ node'[m.to].log = MergeLog(node[m.to].log, m.prevLogIndex, m.entries)
  BY <1>0, AppendMove
<1>2. CASE node'[m.to].log = node[m.to].log
  <2>1. SameLogs
    BY <1>1, <1>2 DEF SameLogs
  <2> QED
    BY <1>1, <2>1, SameLogsStep
<1>3. CASE /\ node'[m.to].log # node[m.to].log
           /\ HasPrevious(node[m.to].log, m)
           /\ node'[m.to].log = MergeLog(node[m.to].log, m.prevLogIndex, m.entries)
  <2>L. PICK L : L = node[m.to].log
    OBVIOUS
  <2>R. PICK R : R = MergeLog(L, m.prevLogIndex, m.entries)
    OBVIOUS
  <2>l. PICK l : l = Whole(L)
    OBVIOUS
  <2>q. PICK q : q = Sent(m)
    OBVIOUS
  <2>r. PICK r : r = Whole(R)
    OBVIOUS
  <2>N. PICK N : N = {r}
    OBVIOUS
  <2>1. m.to \in Server /\ L \in Seq(LogEntry) /\ m \in AppendEntriesArgs
    BY <1>0, <1>1, <2>L DEF Typed
  <2>2. l \in Pieces /\ q \in Pieces
    BY <1>1, <2>1, <2>L, <2>l, <2>q DEF Pieces
  <2>3. PICK c \in Nat : MergedAt(l, q, r, c)
    BY <1>3, <2>1, <2>L, <2>R, <2>l, <2>q, <2>r, MergeParts
  <2>4. ASSUME NEW g \in Pieces PROVE Agree(r, g)
    <3>1. IsPiece(g) /\ Agree(l, q) /\ Agree(l, g) /\ Agree(q, g)
      BY <1>0, <2>2 DEF LogInv, PiecesAgree, Typed
    <3> QED
      BY <2>3, <3>1, MergedAgrees DEF MergedAt
  <2>5. \A s \in Server : RoleKept(node[s], node'[s]) /\ node'[s].state = Leader
             => Len(node'[s].log) >= Len(node[s].log)
    <3> SUFFICES ASSUME NEW s \in Server, node'[s].state = Leader
                 PROVE  Len(node'[s].log) >= Len(node[s].log)
      OBVIOUS
    <3>1. s # m.to
      BY <1>3, ReceiverFollows
    <3> QED
      BY <1>0, <1>1, <3>1 DEF Typed
  <2>6. PieceSound(l)' /\ LeaderHolds(l)' /\ PieceSound(q)' /\ LeaderHolds(q)'
    BY <1>0, <1>1, <2>2, <2>5, OldPieces
  <2>7. PieceSound(r)' /\ LeaderHolds(r)'
    BY <2>3, <2>6 DEF MergedAt, PieceSound, LeaderHolds
  <2>8. Pieces' \subseteq Pieces \cup N
    BY <1>1, <1>3, <2>L, <2>R, <2>r, <2>N DEF Pieces
  <2>9. \A f \in N : PieceSound(f)' /\ LeaderHolds(f)'
    BY <2>7, <2>N
  <2>10. \A f \in N, g \in Pieces \cup N : Agree(f, g)
    BY <2>4, <2>N, AgreeSelf
  <2> QED
    BY <1>1, <2>5, <2>8, <2>9, <2>10, PiecesStep
<1> QED
  BY <1>1, <1>2, <1>3

-----------------------------------------------------------------------------
(* The theorems *)

LEMMA InitLogInv == Init => LogInv
<1> SUFFICES ASSUME Init PROVE LogInv
  OBVIOUS
<1>1. /\ elections = {} /\ DOMAIN rpcs = {}
      /\ \A s \in Server : node[s].state = Follower /\ node[s].log = <<>>
  BY DEF Init, InitNode, EmptyBag, SetToBag
<1>2. CalmInv
  BY InitCalm
<1>3. Roles
  BY <1>1 DEF Roles, LeadersElected, RequestsElected, WonBehind, CandidatesNew, Appends,
              Follower, Leader
<1>4. \A f \in Pieces : f = Whole(<<>>)
  BY <1>1 DEF Pieces, Appends
<1>5. PiecesAgree
  BY <1>4, AgreeSelf DEF PiecesAgree
<1>6. \A k \in Nat : ~Holds(Whole(<<>>), k)
  BY DEF Holds, Whole
<1> QED
  BY <1>2, <1>3, <1>4, <1>5, <1>6 DEF LogInv, PieceSound, LeaderHolds

LEMMA NextLogInv == LogInv /\ [CalmNext]_vars => LogInv'
<1> SUFFICES ASSUME LogInv, [CalmNext]_vars PROVE LogInv'
  OBVIOUS
<1>0. Shape /\ IInv /\ CalmInv' /\ \A s \in Server : Keeps(node[s], node'[s])
  BY CalmShape, CalmKept DEF LogInv, CalmInv, IInv
<1>1. ASSUME NEW s \in Server, ElectionTimeout(s) PROVE LogInv'
  BY <1>0, <1>1, TimeoutMove, SameLogsStep
<1>2. ASSUME NEW s \in Server, NEW c \in Command, SubmitCommand(s, c) PROVE LogInv'
  BY <1>0, <1>2, SubmitLogs
<1>3. ASSUME NEW s \in Server, SendHeartbeats(s) PROVE LogInv'
  BY <1>0, <1>3, SendLogs
<1>4. ASSUME NEW m \in DOMAIN rpcs, RequestVoteRPC(m) PROVE LogInv'
  BY <1>0, <1>4, VoteMove, SameLogsStep
<1>5. ASSUME NEW m \in DOMAIN rpcs, AppendEntriesRPC(m) PROVE LogInv'
  BY <1>0, <1>5, AppendLogs
<1>6. CASE \/ \E s \in Server : Began(s)
           \/ \E s \in Server : SendRequestVoteRPCs(s)
           \/ \E m \in DOMAIN rpcs : RPCUnreachable(m)
           \/ UNCHANGED vars
  BY <1>0, <1>6, OtherMove, SameLogsStep
<1> QED
  BY <1>1, <1>2, <1>3, <1>4, <1>5, <1>6 DEF CalmNext

\* In every run LogInv holds up to the first Start that drops a vote.
LEMMA AlwaysLogInv == Spec => [](IInv /\ (NoVoteForgotten => LogInv))
<1> DEFINE Inv == IInv /\ (NoVoteForgotten => LogInv)
<1>1. Init => Inv
  BY InitIInv, InitLogInv
<1>2. Inv /\ [Next]_vars => Inv'
  <2> SUFFICES ASSUME Inv, [Next]_vars PROVE Inv'
    OBVIOUS
  <2>1. IInv'
    BY NextIInv
  <2>2. ASSUME NoVoteForgotten' PROVE LogInv'
    BY <2>2, NextCalm, NextLogInv DEF IInv
  <2> QED
    BY <2>1, <2>2
<1> QED
  BY <1>1, <1>2, PTL DEF Spec

LEMMA SameUpto ==
    ASSUME NEW a \in Seq(LogEntry), NEW b \in Seq(LogEntry), NEW k \in Nat,
           k <= Len(a), k <= Len(b), \A j \in 1..k : a[j] = b[j]
    PROVE  Upto(a, k) = Upto(b, k)
<1>1. Upto(a, k) = SubSeq(a, 1, k) /\ Upto(b, k) = SubSeq(b, 1, k)
  BY DEF Upto, Lesser
<1>2. /\ SubSeq(a, 1, k) \in Seq(LogEntry) /\ Len(SubSeq(a, 1, k)) = k
      /\ SubSeq(b, 1, k) \in Seq(LogEntry) /\ Len(SubSeq(b, 1, k)) = k
      /\ \A j \in 1..k : SubSeq(a, 1, k)[j] = a[j] /\ SubSeq(b, 1, k)[j] = b[j]
  BY SubSeqType
<1>3. SubSeq(a, 1, k) = SubSeq(b, 1, k)
  BY <1>2, SeqEqual
<1> QED
  BY <1>1, <1>3

LEMMA WholeUpto ==
    ASSUME NEW a \in Seq(LogEntry)
    PROVE  Upto(a, Len(a)) = a
<1>1. Len(a) \in Nat /\ Upto(a, Len(a)) = SubSeq(a, 1, Len(a))
  BY DEF Upto, Lesser
<1>2. /\ SubSeq(a, 1, Len(a)) \in Seq(LogEntry) /\ Len(SubSeq(a, 1, Len(a))) = Len(a)
      /\ \A j \in 1..Len(a) : SubSeq(a, 1, Len(a))[j] = a[j]
  BY <1>1, SubSeqType
<1>3. SubSeq(a, 1, Len(a)) = a
  BY <1>2, SeqEqual
<1> QED
  BY <1>1, <1>3

\* Two logs that hold an entry of one term at one place hold the same entries up to
\* there, and every entry knows its place: AppendEntries checks the entry before the
\* new ones, cuts what conflicts, and appends (LogMatching).  Like all that follows, it
\* is said of runs up to the first Start that drops a vote.
THEOREM LogsMatch == Spec => []LogMatching
<1>1. (NoVoteForgotten => LogInv) => LogMatching
  <2> SUFFICES ASSUME LogInv PROVE LogMatching
    BY DEF LogMatching
  <2>0. Typed
    BY PieceTypes DEF LogInv, CalmInv, IInv
  <2>1. ASSUME NEW s \in Server, NEW t \in Server,
               NEW i \in 1..Lesser(Len(node[s].log), Len(node[t].log)),
               node[s].log[i].term = node[t].log[i].term
        PROVE  Upto(node[s].log, i) = Upto(node[t].log, i)
    <3> DEFINE a == node[s].log
               b == node[t].log
    <3>1. /\ a \in Seq(LogEntry) /\ b \in Seq(LogEntry) /\ Len(a) \in Nat /\ Len(b) \in Nat
          /\ Whole(a) \in Pieces /\ Whole(b) \in Pieces
      BY <2>0 DEF Typed, Pieces
    <3>2. a[i].term = b[i].term
      BY <2>1
    <3>3. i \in Nat /\ i <= Len(a) /\ i <= Len(b) /\ i \in 1..Len(a) /\ i \in 1..Len(b)
      BY <3>1 DEF Lesser
    <3>4. Agree(Whole(a), Whole(b))
      BY <3>1 DEF LogInv, PiecesAgree
    <3> HIDE DEF a, b
    <3>5. AgreeUpto(Whole(a), Whole(b), i)
      BY <3>1, <3>2, <3>3, <3>4, WholeFacts DEF Agree
    <3>6. ASSUME NEW j \in 1..i PROVE a[j] = b[j]
      <4>1. j \in Nat /\ j \in 1..Len(a) /\ j \in 1..Len(b)
        BY <3>1, <3>3
      <4> QED
        BY <3>1, <3>5, <4>1, WholeFacts DEF AgreeUpto
    <3> QED
      BY <3>1, <3>3, <3>6, SameUpto DEF a, b
  <2>2. ASSUME NEW s \in Server, NEW i \in 1..Len(node[s].log)
        PROVE  node[s].log[i].index = i
    <3>1. /\ node[s].log \in Seq(LogEntry) /\ Len(node[s].log) \in Nat
          /\ Whole(node[s].log) \in Pieces
      BY <2>0 DEF Typed, Pieces
    <3>2. i \in Nat
      BY <3>1
    <3> QED
      BY <3>1, <3>2, WholeFacts DEF LogInv, PieceSound
  <2>3. ASSUME NEW m \in DOMAIN rpcs, m.type = "AppendEntries", NEW i \in 1..Len(m.entries)
        PROVE  m.entries[i].index = m.prevLogIndex + i
    <3>1. Sent(m) \in Pieces /\ m \in AppendEntriesArgs
      BY <2>0, <2>3 DEF Typed, Pieces, Appends
    <3>2. m.prevLogIndex \in Nat /\ Len(m.entries) \in Nat /\ i \in Nat
      BY <3>1 DEF AppendEntriesArgs
    <3>3. /\ m.prevLogIndex + i \in Nat /\ (m.prevLogIndex + i) - m.prevLogIndex = i
          /\ m.prevLogIndex + i \in (m.prevLogIndex + 1)..(m.prevLogIndex + Len(m.entries))
      BY <3>2
    <3>4. /\ Holds(Sent(m), m.prevLogIndex + i)
          /\ EntryAt(Sent(m), m.prevLogIndex + i) = m.entries[i]
      BY <3>3 DEF Holds, EntryAt, Sent
    <3> QED
      BY <3>1, <3>3, <3>4 DEF LogInv, PieceSound
  <2> QED
    BY <2>1, <2>2, <2>3 DEF LogMatching
<1> QED
  BY <1>1, AlwaysLogInv, PTL

LEMMA LeaderLogs ==
    ASSUME LogInv, [CalmNext]_vars, NEW s \in Server, node'[s].state = Leader
    PROVE  \/ node'[s].log = node[s].log
           \/ \E e \in LogEntry : node'[s].log = Append(node[s].log, e)
<1>0. Shape
  BY DEF LogInv, CalmInv, IInv
<1>1. ASSUME NEW c \in Server, ElectionTimeout(c) PROVE node'[s].log = node[s].log
  BY <1>0, <1>1, TimeoutMove DEF SameLogs
<1>2. ASSUME NEW l \in Server, NEW c \in Command, SubmitCommand(l, c)
      PROVE  \/ node'[s].log = node[s].log
             \/ \E e \in LogEntry : node'[s].log = Append(node[s].log, e)
  BY <1>0, <1>2, SubmitMove
<1>3. ASSUME NEW l \in Server, SendHeartbeats(l) PROVE node'[s].log = node[s].log
  BY <1>0, <1>3, SendMove
<1>4. ASSUME NEW m \in DOMAIN rpcs, RequestVoteRPC(m) PROVE node'[s].log = node[s].log
  BY <1>0, <1>4, VoteMove DEF SameLogs
<1>5. ASSUME NEW m \in DOMAIN rpcs, AppendEntriesRPC(m) PROVE node'[s].log = node[s].log
  BY <1>0, <1>5, AppendMove, ReceiverFollows
<1>6. CASE \/ \E c \in Server : Began(c)
           \/ \E c \in Server : SendRequestVoteRPCs(c)
           \/ \E m \in DOMAIN rpcs : RPCUnreachable(m)
           \/ UNCHANGED vars
  BY <1>0, <1>6, OtherMove DEF SameLogs
<1> QED
  BY <1>1, <1>2, <1>3, <1>4, <1>5, <1>6 DEF CalmNext

\* A leader only adds to its log while it leads a term: the one request that could
\* cut it would come from another leader of that term (LeaderAppendOnly).
THEOREM LeadersAppend == Spec => LeaderAppendOnly
<1> DEFINE Only == \A s \in Server :
                /\ NoVoteForgotten'
                /\ node[s].state = Leader
                /\ node'[s].state = Leader
                /\ node'[s].currentTerm = node[s].currentTerm
                => Upto(node'[s].log, Len(node[s].log)) = node[s].log
<1>1. IInv /\ (NoVoteForgotten => LogInv) /\ [Next]_vars => Only
  <2> SUFFICES ASSUME LogInv, [CalmNext]_vars, NEW s \in Server, node'[s].state = Leader
               PROVE  Upto(node'[s].log, Len(node[s].log)) = node[s].log
    BY NextCalm DEF IInv
  <2>0. node[s].log \in Seq(LogEntry) /\ Len(node[s].log) \in Nat
    BY PieceTypes DEF LogInv, CalmInv, IInv, Typed
  <2>1. CASE node'[s].log = node[s].log
    BY <2>0, <2>1, WholeUpto
  <2>2. ASSUME NEW e \in LogEntry, node'[s].log = Append(node[s].log, e)
        PROVE  Upto(node'[s].log, Len(node[s].log)) = node[s].log
    <3>1. PICK a : a = node[s].log
      OBVIOUS
    <3>2. /\ a \in Seq(LogEntry) /\ Len(a) \in Nat
          /\ Append(a, e) \in Seq(LogEntry) /\ Len(a) <= Len(Append(a, e))
          /\ \A j \in 1..Len(a) : Append(a, e)[j] = a[j]
      BY <2>0, <3>1
    <3>3. PICK b : b = Append(a, e)
      OBVIOUS
    <3>4. Upto(b, Len(a)) = Upto(a, Len(a))
      <4>1. PICK k : k = Len(a)
        OBVIOUS
      <4>2. /\ a \in Seq(LogEntry) /\ b \in Seq(LogEntry) /\ k \in Nat
            /\ k <= Len(b) /\ k <= Len(a) /\ \A j \in 1..k : b[j] = a[j]
        BY <3>2, <3>3, <4>1
      <4>3. Upto(b, k) = Upto(a, k)
        BY ONLY <4>2, SameUpto
      <4> QED
        BY <4>1, <4>3
    <3> QED
      BY <2>2, <3>1, <3>2, <3>3, <3>4, WholeUpto
  <2> QED
    BY <2>1, <2>2, LeaderLogs
<1>2. Only => [Only]_vars
  OBVIOUS
<1> QED
  BY <1>1, AlwaysLogInv, PTL DEF Spec, LeaderAppendOnly

-----------------------------------------------------------------------------
(* What the leader believes replicated *)

\* Two logs hold the same entries up to the place k, and have come that far.
SameTo(a, b, k) == k <= Len(a) /\ k <= Len(b) /\ \A j \in 1..k : a[j] = b[j]

Extends(a, b) == Len(a) <= Len(b) /\ \A j \in 1..Len(a) : b[j] = a[j]

\* The request m is a part of the log.
TakenFrom(m, log) ==
    /\ m.prevLogIndex + Len(m.entries) <= Len(log)
    /\ \A i \in 1..Len(m.entries) : m.entries[i] = log[m.prevLogIndex + i]
    /\ m.prevLogIndex > 0 => m.prevLogTerm = log[m.prevLogIndex].term

-----------------------------------------------------------------------------
(* Logs *)

LEMMA AgreeSame ==
    ASSUME NEW a \in Seq(LogEntry), NEW b \in Seq(LogEntry), Agree(Whole(a), Whole(b)),
           NEW k \in Nat, k <= Len(a), k <= Len(b), k > 0 => a[k].term = b[k].term
    PROVE  SameTo(a, b, k)
<1>1. SUFFICES ASSUME NEW j \in 1..k PROVE a[j] = b[j]
  BY DEF SameTo
<1>2. k \in 1..Len(a) /\ k \in 1..Len(b) /\ j \in Nat /\ j \in 1..Len(a) /\ j \in 1..Len(b) /\ k > 0
  OBVIOUS
<1>3. AgreeUpto(Whole(a), Whole(b), k)
  BY <1>2, WholeFacts DEF Agree
<1> QED
  BY <1>2, <1>3, WholeFacts DEF AgreeUpto

LEMMA SameToGrows ==
    ASSUME NEW a \in Seq(LogEntry), NEW b \in Seq(LogEntry), NEW k \in Nat, SameTo(a, b, k),
           NEW c \in Seq(LogEntry), NEW d \in Seq(LogEntry), Extends(a, c), Extends(b, d)
    PROVE  SameTo(c, d, k)
<1>1. k <= Len(c) /\ k <= Len(d)
  BY DEF SameTo, Extends
<1>2. \A j \in 1..k : j \in 1..Len(a) /\ j \in 1..Len(b)
  BY DEF SameTo
<1> QED
  BY <1>1, <1>2 DEF SameTo, Extends

LEMMA TakenFromGrows ==
    ASSUME NEW m \in AppendEntriesArgs, NEW a \in Seq(LogEntry), NEW b \in Seq(LogEntry),
           TakenFrom(m, a), Extends(a, b)
    PROVE  TakenFrom(m, b)
<1>1. m.prevLogIndex \in Nat /\ Len(m.entries) \in Nat /\ Len(a) \in Nat /\ Len(b) \in Nat
  BY DEF AppendEntriesArgs
<1>2. m.prevLogIndex + Len(m.entries) <= Len(a)
  BY DEF TakenFrom
<1>3. \A i \in 1..Len(m.entries) : m.prevLogIndex + i \in 1..Len(a)
  BY <1>1, <1>2
<1>4. m.prevLogIndex > 0 => m.prevLogIndex \in 1..Len(a)
  BY <1>1, <1>2
<1>5. m.prevLogIndex + Len(m.entries) <= Len(b)
  BY <1>1, <1>2 DEF Extends
<1> QED
  BY <1>3, <1>4, <1>5 DEF TakenFrom, Extends

\* A request of the leader neither cuts what a log has in common with the leader's...
LEMMA MergeKeepsMatch ==
    ASSUME NEW log \in Seq(LogEntry), NEW lead \in Seq(LogEntry), NEW k \in Nat,
           SameTo(log, lead, k),
           NEW entries \in Seq(LogEntry), NEW prev \in Nat, prev <= Len(log),
           prev + Len(entries) <= Len(lead),
           \A i \in 1..Len(entries) : entries[i] = lead[prev + i]
    PROVE  SameTo(MergeLog(log, prev, entries), lead, k)
<1>r. PICK r : r = MergeLog(log, prev, entries)
  OBVIOUS
<1>1. PICK c \in Nat :
         /\ c <= Len(log)
         /\ \A j \in 1..Len(r) :
              \/ j <= c /\ r[j] = log[j]
              \/ j > c /\ j - prev \in 1..Len(entries) /\ r[j] = entries[j - prev]
         /\ c < Len(log) => /\ c + 1 - prev \in 1..Len(entries)
                            /\ log[c + 1].term # entries[c + 1 - prev].term
         /\ c <= Len(r)
  <2>1. \E c \in Nat :
           /\ prev <= c /\ c <= Len(log)
           /\ \A j \in 1..Len(MergeLog(log, prev, entries)) :
                \/ j <= c /\ MergeLog(log, prev, entries)[j] = log[j]
                \/ /\ j > c /\ j - prev \in 1..Len(entries)
                   /\ MergeLog(log, prev, entries)[j] = entries[j - prev]
           /\ \A j \in 1..c :
                j - prev \in 1..Len(entries) => log[j].term = entries[j - prev].term
           /\ c < Len(log) => /\ c + 1 - prev \in 1..Len(entries)
                              /\ log[c + 1].term # entries[c + 1 - prev].term
           /\ c <= Len(MergeLog(log, prev, entries))
           /\ prev + Len(entries) <= Len(MergeLog(log, prev, entries))
    BY MergeLogShape
  <2> QED
    BY ONLY <2>1, <1>r
<1>2. Len(log) \in Nat /\ Len(r) \in Nat /\ Len(entries) \in Nat
  <2>1. r \in Seq(LogEntry)
    BY <1>r, MergeLogType
  <2> QED
    BY <2>1
<1>3. k <= Len(log) /\ k <= Len(lead) /\ \A j \in 1..k : log[j] = lead[j]
  BY DEF SameTo
<1>4. k <= c
  <2> SUFFICES ASSUME c < k PROVE FALSE
    BY <1>1
  <2>1. c + 1 - prev \in 1..Len(entries) /\ log[c + 1].term # entries[c + 1 - prev].term
    BY <1>1, <1>2, <1>3
  <2>2. c + 1 \in 1..k /\ prev + (c + 1 - prev) = c + 1
    BY <1>1
  <2>3. log[c + 1] = lead[c + 1] /\ entries[c + 1 - prev] = lead[c + 1]
    BY <1>3, <2>1, <2>2
  <2> QED
    BY <2>1, <2>3
<1>5. k <= Len(r) /\ \A j \in 1..k : j \in 1..Len(r) /\ ~(j > c)
  BY <1>1, <1>2, <1>4, SMTT(30)
<1>6. \A j \in 1..k : r[j] = log[j]
  BY <1>1, <1>5
<1> QED
  BY <1>3, <1>5, <1>6, <1>r DEF SameTo

\* ... nor leaves anything of the request out.
LEMMA MergeReaches ==
    ASSUME NEW log \in Seq(LogEntry), NEW lead \in Seq(LogEntry), Agree(Whole(log), Whole(lead)),
           NEW entries \in Seq(LogEntry), NEW prev \in Nat, prev <= Len(log),
           prev > 0 => log[prev].term = lead[prev].term,
           prev + Len(entries) <= Len(lead),
           \A i \in 1..Len(entries) : entries[i] = lead[prev + i]
    PROVE  SameTo(MergeLog(log, prev, entries), lead, prev + Len(entries))
<1>r. PICK r : r = MergeLog(log, prev, entries)
  OBVIOUS
<1>1. PICK c \in Nat :
         /\ c <= Len(log)
         /\ \A j \in 1..Len(r) :
              \/ j <= c /\ r[j] = log[j]
              \/ j > c /\ j - prev \in 1..Len(entries) /\ r[j] = entries[j - prev]
         /\ \A j \in 1..c : j - prev \in 1..Len(entries) => log[j].term = entries[j - prev].term
         /\ prev + Len(entries) <= Len(r)
  <2>1. \E c \in Nat :
           /\ prev <= c /\ c <= Len(log)
           /\ \A j \in 1..Len(MergeLog(log, prev, entries)) :
                \/ j <= c /\ MergeLog(log, prev, entries)[j] = log[j]
                \/ /\ j > c /\ j - prev \in 1..Len(entries)
                   /\ MergeLog(log, prev, entries)[j] = entries[j - prev]
           /\ \A j \in 1..c :
                j - prev \in 1..Len(entries) => log[j].term = entries[j - prev].term
           /\ c < Len(log) => /\ c + 1 - prev \in 1..Len(entries)
                              /\ log[c + 1].term # entries[c + 1 - prev].term
           /\ c <= Len(MergeLog(log, prev, entries))
           /\ prev + Len(entries) <= Len(MergeLog(log, prev, entries))
    BY MergeLogShape
  <2> QED
    BY ONLY <2>1, <1>r
<1>2. Len(log) \in Nat /\ Len(r) \in Nat /\ Len(entries) \in Nat /\ Len(lead) \in Nat
  <2>1. r \in Seq(LogEntry)
    BY <1>r, MergeLogType
  <2> QED
    BY <2>1
<1>3. SameTo(log, lead, prev)
  <2>1. prev <= Len(lead)
    BY <1>2
  <2> QED
    BY <2>1, AgreeSame
<1>4. ASSUME NEW j \in 1..(prev + Len(entries)) PROVE r[j] = lead[j]
  <2>1. j \in 1..Len(r) /\ j \in Nat /\ j <= Len(lead)
    BY <1>1, <1>2
  <2>2. ~(j <= prev) => j - prev \in 1..Len(entries) /\ prev + (j - prev) = j
    BY <1>2
  <2>3. CASE j > c
    <3>1. j - prev \in 1..Len(entries) /\ r[j] = entries[j - prev]
      BY <1>1, <2>1, <2>3
    <3>2. prev + (j - prev) = j
      BY <2>1
    <3> QED
      BY <3>1, <3>2
  <2>4. CASE j <= c /\ j <= prev
    <3>1. r[j] = log[j] /\ j \in 1..prev
      BY <1>1, <2>1, <2>4
    <3> QED
      BY <1>3, <3>1 DEF SameTo
  <2>5. CASE j <= c /\ ~(j <= prev)
    <3>1. r[j] = log[j] /\ j \in 1..c /\ j <= Len(log)
      BY <1>1, <1>2, <2>1, <2>5
    <3>2. entries[j - prev] = lead[j]
      BY <2>2, <2>5
    <3>3. log[j].term = lead[j].term
      BY <1>1, <2>2, <2>5, <3>1, <3>2
    <3>4. SameTo(log, lead, j) /\ j \in 1..j
      BY <2>1, <3>1, <3>3, AgreeSame
    <3> QED
      BY <3>1, <3>4 DEF SameTo
  <2> QED
    BY <1>1, <2>1, <2>3, <2>4, <2>5
<1>5. prev + Len(entries) <= Len(r)
  BY <1>1
<1> QED
  BY <1>4, <1>5, <1>r DEF SameTo

-----------------------------------------------------------------------------
(* The methods of a node *)

SameIndexes(n, r) == r.nextIndex = n.nextIndex /\ r.matchIndex = n.matchIndex

LEMMA AdoptTermIndexes ==
    ASSUME NEW n \in NodeState, NEW t \in Nat
    PROVE  SameIndexes(n, AdoptTerm(n, t))
  BY DEF AdoptTerm, ConvertToFollower, SameIndexes, NodeState

LEMMA ApplyCommittedIndexes ==
    ASSUME NEW n \in NodeState
    PROVE  SameIndexes(n, ApplyCommittedEntries(n))
<1> DEFINE more == n.applied \o SubSeq(n.log, n.lastApplied + 1, Lesser(n.commitIndex, Len(n.log)))
           r == [n EXCEPT !.lastApplied = n.commitIndex, !.applied = more]
<1>1. ApplyCommittedEntries(n) = r \/ ApplyCommittedEntries(n) = n
  BY DEF ApplyCommittedEntries
<1> HIDE DEF more
<1> QED
  BY <1>1 DEF SameIndexes, NodeState

LEMMA RequestVoteIndexes ==
    ASSUME NEW n \in NodeState, NEW m \in RequestVoteArgs
    PROVE  SameIndexes(n, RequestVote(n, m))
<1> DEFINE u == AdoptTerm(n, m.term)
<1>1. u \in NodeState /\ SameIndexes(n, u)
  BY AdoptTermFacts, AdoptTermIndexes DEF RequestVoteArgs
<1>2. RequestVote(n, m) = u \/ RequestVote(n, m) = [u EXCEPT !.votedFor = m.from]
  BY DEF RequestVote
<1> HIDE DEF u
<1> QED
  BY <1>1, <1>2 DEF NodeState, SameIndexes

LEMMA AppendEntriesIndexes ==
    ASSUME NEW n \in NodeState, NEW m \in AppendEntriesArgs
    PROVE  LET r == AppendEntries(n, m)
           IN  /\ SameIndexes(n, r)
               /\ IF AcceptsEntries(n, m)
                  THEN /\ r.currentTerm = m.term
                       /\ r.log = MergeLog(n.log, m.prevLogIndex, m.entries)
                  ELSE r.log = n.log
<1> DEFINE r == AppendEntries(n, m)
           v == AdoptTerm(n, m.term)
           u == [v EXCEPT !.currentLeader = m.from]
           a == [u EXCEPT !.log = MergeLog(u.log, m.prevLogIndex, m.entries)]
           b == [a EXCEPT !.commitIndex = Lesser(m.leaderCommit, LastNewIndex(m))]
<1>0. /\ m.term \in Nat /\ m.from \in Server /\ m.prevLogIndex \in Nat
      /\ m.entries \in Seq(LogEntry) /\ m.leaderCommit \in Nat /\ n.currentTerm \in Nat
  BY DEF AppendEntriesArgs, NodeState
<1>1. CASE m.term < n.currentTerm
  BY <1>0, <1>1 DEF AppendEntries, SameIndexes, AcceptsEntries
<1>2. CASE ~(m.term < n.currentTerm)
  <2>1. r = IF ~HasPrevious(n.log, m) THEN u
            ELSE IF m.leaderCommit > n.commitIndex THEN ApplyCommittedEntries(b) ELSE a
    BY <1>2 DEF AppendEntries
  <2>2. v \in NodeState /\ v.log = n.log /\ SameIndexes(n, v) /\ v.currentTerm = m.term
    <3>1. m.term >= n.currentTerm
      BY <1>0, <1>2
    <3> QED
      BY <1>0, <3>1, AdoptTermFacts, AdoptTermIndexes
  <2> HIDE DEF v
  <2>3. u \in NodeState /\ u.log = n.log /\ SameIndexes(n, u) /\ u.currentTerm = m.term
    BY <1>0, <2>2 DEF NodeState, SameIndexes
  <2> HIDE DEF u
  <2>4. HasPrevious(n.log, m) =>
           /\ a \in NodeState /\ a.log = MergeLog(n.log, m.prevLogIndex, m.entries)
           /\ SameIndexes(n, a) /\ a.currentTerm = m.term
    <3>1. n.log \in Seq(LogEntry)
      BY DEF NodeState
    <3>2. HasPrevious(n.log, m) => m.prevLogIndex <= Len(n.log)
      BY <1>0, <3>1 DEF HasPrevious
    <3>3. HasPrevious(n.log, m) => MergeLog(u.log, m.prevLogIndex, m.entries) \in Seq(LogEntry)
      BY <1>0, <2>3, <3>1, <3>2, MergeLogType
    <3> QED
      BY <2>3, <3>3 DEF NodeState, SameIndexes
  <2> HIDE DEF a
  <2>5. a \in NodeState /\ SameIndexes(n, a) =>
           /\ b \in NodeState /\ b.log = a.log
           /\ SameIndexes(n, b) /\ b.currentTerm = a.currentTerm
    <3>1. Lesser(m.leaderCommit, LastNewIndex(m)) \in Nat
      BY <1>0, LastNewIndexType DEF Lesser
    <3> QED
      BY <3>1 DEF NodeState, SameIndexes
  <2> HIDE DEF b
  <2>6. b \in NodeState /\ SameIndexes(n, b)
            => /\ ApplyCommittedEntries(b).log = b.log
               /\ ApplyCommittedEntries(b).currentTerm = b.currentTerm
               /\ SameIndexes(n, ApplyCommittedEntries(b))
    BY ApplyCommittedFacts, ApplyCommittedIndexes DEF SameElection, SameIndexes
  <2> HIDE DEF r
  <2>7. AcceptsEntries(n, m) <=> HasPrevious(n.log, m)
    BY <1>0, <1>2 DEF AcceptsEntries
  <2>8. CASE ~HasPrevious(n.log, m)
    BY <2>1, <2>3, <2>7, <2>8 DEF r
  <2>9. CASE HasPrevious(n.log, m)
    BY <2>1, <2>4, <2>5, <2>6, <2>7, <2>9 DEF r
  <2> QED
    BY <2>8, <2>9
<1> QED
  BY <1>1, <1>2

\* Whoever leads after a vote was counted led before, or starts with fresh indexes.
LEMMA VoteResultIndexes ==
    ASSUME NEW s \in Server, NEW n \in NodeState, NEW voter \in Server,
           NEW t \in Nat, NEW granted \in BOOLEAN
    PROVE  LET r == ProcessRequestVoteResult(s, n, voter, t, granted)
           IN  r.state = Leader =>
                  \/ n.state = Leader /\ SameIndexes(n, r)
                  \/ /\ n.state = Candidate
                     /\ \A p \in Server : r.nextIndex[p] = Len(n.log) + 1 /\ r.matchIndex[p] = 0
<1> DEFINE r == ProcessRequestVoteResult(s, n, voter, t, granted)
           c == [n EXCEPT !.votesReceived = n.votesReceived \cup {voter}]
<1>1. CASE t > n.currentTerm
  <2>1. r = [n EXCEPT !.currentTerm = t, !.votedFor = Nil, !.state = Follower]
    BY <1>1 DEF ProcessRequestVoteResult, ConvertToFollower
  <2>2. r.state = Follower
    BY <2>1 DEF NodeState
  <2> QED
    BY <2>2 DEF Leader, Follower
<1>2. CASE ~(t > n.currentTerm)
  <2>1. r = n \/ (n.state = Candidate /\ r = c) \/ (n.state = Candidate /\ r = ConvertToLeader(s, c))
    BY <1>2 DEF ProcessRequestVoteResult
  <2>2. c.log = n.log /\ c.state = n.state /\ c \in NodeState
    BY DEF NodeState
  <2> HIDE DEF c
  <2>3. \A p \in Server : /\ ConvertToLeader(s, c).nextIndex[p] = Len(c.log) + 1
                          /\ ConvertToLeader(s, c).matchIndex[p] = 0
    BY <2>2 DEF ConvertToLeader, NodeState
  <2> HIDE DEF r
  <2>4. r.state = Leader =>
           \/ n.state = Leader /\ SameIndexes(n, r)
           \/ /\ n.state = Candidate
              /\ \A p \in Server : r.nextIndex[p] = Len(n.log) + 1 /\ r.matchIndex[p] = 0
    BY <2>1, <2>2, <2>3 DEF SameIndexes, Candidate, Leader
  <2> QED
    BY <2>4 DEF r
<1> QED
  BY <1>1, <1>2

LEMMA UpdateCommitIndexes ==
    ASSUME NEW s \in Server, NEW n \in NodeState
    PROVE  SameIndexes(n, UpdateCommitIndex(s, n))
<1> DEFINE k == CHOOSE k \in Committable(s, n) : \A j \in Committable(s, n) : j <= k
           c == [n EXCEPT !.commitIndex = k]
<1>1. CASE n.state = Leader /\ Committable(s, n) # {}
  <2>1. n.log \in Seq(LogEntry) /\ n.commitIndex \in Nat
    BY DEF NodeState
  <2>2. Committable(s, n) \subseteq 0..Len(n.log)
    BY <2>1 DEF Committable
  <2>3. Len(n.log) \in Nat
    BY <2>1
  <2>4. \E i \in Committable(s, n) : \A j \in Committable(s, n) : j <= i
    BY <1>1, <2>2, <2>3, GreatestNat
  <2>5. k \in Nat
    BY <2>2, <2>4
  <2>6. UpdateCommitIndex(s, n) = ApplyCommittedEntries(c)
    BY <1>1 DEF UpdateCommitIndex
  <2> HIDE DEF k
  <2>7. c \in NodeState /\ SameIndexes(n, c)
    BY <2>5 DEF NodeState, SameIndexes
  <2> HIDE DEF c
  <2> QED
    BY <2>6, <2>7, ApplyCommittedIndexes DEF SameIndexes
<1>2. CASE ~(n.state = Leader /\ Committable(s, n) # {})
  BY <1>2 DEF UpdateCommitIndex, SameIndexes
<1> QED
  BY <1>1, <1>2

\* The indexes of one peer change, to what a request of the leader's own term reached.
LEMMA AppendResultIndexes ==
    ASSUME NEW s \in Server, NEW n \in NodeState, NEW m \in AppendEntriesArgs,
           NEW t \in Nat, NEW success \in BOOLEAN
    PROVE  LET r == ProcessAppendEntriesResult(s, n, m, t, success)
           IN  r.state = Leader =>
                  /\ n.state = Leader
                  /\ \A p \in Server \ {m.to} : /\ r.nextIndex[p] = n.nextIndex[p]
                                                /\ r.matchIndex[p] = n.matchIndex[p]
                  /\ \/ /\ r.matchIndex[m.to] = n.matchIndex[m.to]
                        /\ r.nextIndex[m.to] <= n.nextIndex[m.to]
                     \/ /\ success /\ t = n.currentTerm /\ m.entries # <<>>
                        /\ r.nextIndex[m.to] = LastNewIndex(m) + 1
                        /\ r.matchIndex[m.to] = LastNewIndex(m)
<1> DEFINE r == ProcessAppendEntriesResult(s, n, m, t, success)
           d == RecordMatch(n, m)
           b == StepBack(n, m)
           Goal(x) == /\ \A p \in Server \ {m.to} : /\ x.nextIndex[p] = n.nextIndex[p]
                                                    /\ x.matchIndex[p] = n.matchIndex[p]
                      /\ \/ /\ x.matchIndex[m.to] = n.matchIndex[m.to]
                            /\ x.nextIndex[m.to] <= n.nextIndex[m.to]
                         \/ /\ success /\ t = n.currentTerm /\ m.entries # <<>>
                            /\ x.nextIndex[m.to] = LastNewIndex(m) + 1
                            /\ x.matchIndex[m.to] = LastNewIndex(m)
<1>0. /\ m.to \in Server /\ n.currentTerm \in Nat
      /\ n.nextIndex \in [Server -> Nat \ {0}] /\ n.matchIndex \in [Server -> Nat]
      /\ n.nextIndex[m.to] \in Nat \ {0}
  BY DEF AppendEntriesArgs, NodeState
<1>1. CASE t > n.currentTerm
  <2>1. r = [n EXCEPT !.currentTerm = t, !.votedFor = Nil, !.state = Follower]
    BY <1>1 DEF ProcessAppendEntriesResult, ConvertToFollower
  <2>2. r.state = Follower
    BY <2>1 DEF NodeState
  <2> QED
    BY <2>2 DEF Leader, Follower
<1>2. CASE ~(t > n.currentTerm)
  <2>1. Goal(n)
    BY <1>0
  <2>2. d \in NodeState /\ (success /\ t = n.currentTerm => Goal(d))
    <3>1. LastNewIndex(m) \in Nat /\ LastNewIndex(m) + 1 \in Nat \ {0}
      BY LastNewIndexType
    <3>2. CASE m.entries = <<>>
      BY <2>1, <3>2 DEF RecordMatch
    <3>3. CASE m.entries # <<>>
      <4> DEFINE next == [n.nextIndex EXCEPT ![m.to] = LastNewIndex(m) + 1]
                 match == [n.matchIndex EXCEPT ![m.to] = LastNewIndex(m)]
      <4>1. /\ next \in [Server -> Nat \ {0}] /\ match \in [Server -> Nat]
            /\ next[m.to] = LastNewIndex(m) + 1 /\ match[m.to] = LastNewIndex(m)
            /\ \A p \in Server \ {m.to} : next[p] = n.nextIndex[p] /\ match[p] = n.matchIndex[p]
        BY <1>0, <3>1
      <4>2. d = [n EXCEPT !.nextIndex = next, !.matchIndex = match]
        BY <3>3 DEF RecordMatch, NodeState
      <4> HIDE DEF next, match
      <4>3. d \in NodeState /\ d.nextIndex = next /\ d.matchIndex = match
        BY <4>1, <4>2 DEF NodeState
      <4> QED
        BY <3>3, <4>1, <4>3
    <3> QED
      BY <3>2, <3>3
  <2>3. Goal(b)
    <3> DEFINE next == [n.nextIndex EXCEPT ![m.to] =
                            IF n.nextIndex[m.to] <= 1 THEN 1 ELSE n.nextIndex[m.to] - 1]
    <3>1. /\ next[m.to] <= n.nextIndex[m.to]
          /\ \A p \in Server \ {m.to} : next[p] = n.nextIndex[p]
      BY <1>0
    <3>2. b = [n EXCEPT !.nextIndex = next]
      BY DEF StepBack, NodeState
    <3> HIDE DEF next
    <3>3. b.nextIndex = next /\ b.matchIndex = n.matchIndex
      BY <3>2 DEF NodeState
    <3> QED
      BY <3>1, <3>3
  <2>4. SameIndexes(d, UpdateCommitIndex(s, d))
    BY <2>2, UpdateCommitIndexes
  <2>5. \/ r = n
        \/ n.state = Leader /\ t = n.currentTerm /\ success /\ r = UpdateCommitIndex(s, d)
        \/ n.state = Leader /\ r = b
    BY <1>2 DEF ProcessAppendEntriesResult
  <2> HIDE DEF r, d, b
  <2>6. r.state = Leader => n.state = Leader /\ Goal(r)
    BY <2>1, <2>2, <2>3, <2>4, <2>5 DEF SameIndexes
  <2> QED
    BY <2>6 DEF r
<1> QED
  BY <1>1, <1>2

-----------------------------------------------------------------------------
(* The invariant *)

NextBound ==
    \A l, p \in Server :
        node[l].state = Leader => node[l].nextIndex[p] <= Len(node[l].log) + 1

\* A request of a leader's term is a part of the log it has now.
SentHeld ==
    \A m \in Appends, l \in Server :
        node[l].state = Leader /\ m.term = node[l].currentTerm => TakenFrom(m, node[l].log)

\* A peer that has answered holds what it answered for, or has left the term.
Matched ==
    \A l, p \in Server :
        node[l].state = Leader /\ p # l =>
            \/ node[l].matchIndex[p] = 0
            \/ node[p].currentTerm > node[l].currentTerm
            \/ /\ node[p].currentTerm = node[l].currentTerm
               /\ SameTo(node[p].log, node[l].log, node[l].matchIndex[p])

MatchInv == LogInv /\ NextBound /\ SentHeld /\ Matched

LogTyped ==
    /\ Shape /\ Roles /\ OneLeaderPerTerm /\ Typed
    /\ \A l, p \in Server : /\ node[l].nextIndex[p] \in Nat \ {0}
                            /\ node[l].matchIndex[p] \in Nat

LEMMA LogTypes == LogInv => LogTyped
<1> SUFFICES ASSUME LogInv PROVE LogTyped
  OBVIOUS
<1>1. Shape /\ Roles /\ OneLeaderPerTerm
  BY DEF LogInv, CalmInv, IInv, VoteInv
<1>2. Typed
  BY <1>1, PieceTypes
<1>3. \A l \in Server : node[l] \in NodeState
  BY <1>2 DEF Typed
<1> QED
  BY <1>1, <1>2, <1>3 DEF NodeState, LogTyped

LEMMA LogTypesNext == LogInv' => LogTyped'
  BY LogTypes, PTL

-----------------------------------------------------------------------------
(* What the actions preserve *)

\* Whoever leads after the step led before with these indexes, or has just won.
Leads(s) ==
    node'[s].state = Leader =>
        \/ /\ node[s].state = Leader /\ node'[s].currentTerm = node[s].currentTerm
           /\ SameIndexes(node[s], node'[s])
        \/ /\ Won(s)
           /\ \A p \in Server : /\ node'[s].nextIndex[p] = Len(node[s].log) + 1
                                 /\ node'[s].matchIndex[p] = 0

\* A step that at most extends logs, and sends nothing.
LEMMA MatchKept ==
    ASSUME MatchInv, LogInv', RolesMove, Appends' \subseteq Appends,
           \A s \in Server : Extends(node[s].log, node'[s].log),
           \A s \in Server : Keeps(node[s], node'[s]),
           \A s \in Server : Leads(s)
    PROVE  MatchInv'
<1>0. /\ LogInv /\ Shape /\ Roles /\ Typed
      /\ \A l, p \in Server : /\ node[l].nextIndex[p] \in Nat \ {0}
                              /\ node[l].matchIndex[p] \in Nat
  BY LogTypes DEF MatchInv, LogTyped
<1>1. Shape' /\ Roles' /\ OneLeaderPerTerm' /\ Typed'
  BY LogTypesNext DEF LogTyped
<1>2. \A s \in Server : /\ node[s].log \in Seq(LogEntry) /\ Len(node[s].log) \in Nat
                         /\ node'[s].log \in Seq(LogEntry) /\ Len(node'[s].log) \in Nat
                         /\ Len(node'[s].log) >= Len(node[s].log)
                         /\ node[s].currentTerm \in Nat /\ node'[s].currentTerm \in Nat
                         /\ node'[s].currentTerm >= node[s].currentTerm
  BY <1>0, <1>1 DEF Typed, Extends, Keeps
<1>3. NextBound'
  <2> SUFFICES ASSUME NEW l \in Server, NEW p \in Server, node'[l].state = Leader
               PROVE  node'[l].nextIndex[p] <= Len(node'[l].log) + 1
    BY DEF NextBound
  <2>1. CASE node[l].state = Leader /\ SameIndexes(node[l], node'[l])
    <3>1. node[l].nextIndex[p] <= Len(node[l].log) + 1
      BY <2>1 DEF MatchInv, NextBound
    <3> QED
      BY <1>0, <1>2, <2>1, <3>1 DEF SameIndexes
  <2>2. CASE node'[l].nextIndex[p] = Len(node[l].log) + 1
    BY <1>2, <2>2
  <2> QED
    BY <2>1, <2>2 DEF Leads
<1>4. SentHeld'
  <2> SUFFICES ASSUME NEW m \in Appends', NEW l \in Server, node'[l].state = Leader,
                      m.term = node'[l].currentTerm
               PROVE  TakenFrom(m, node'[l].log)
    BY DEF SentHeld
  <2>1. CASE node[l].state = Leader /\ node'[l].currentTerm = node[l].currentTerm
    <3>1. TakenFrom(m, node[l].log)
      BY <2>1 DEF MatchInv, SentHeld
    <3>2. m \in AppendEntriesArgs
      BY <1>0 DEF Typed
    <3> QED
      BY <1>2, <3>1, <3>2, TakenFromGrows
  <2>2. CASE Won(l)
    <3>1. PICK e \in elections : e.term = m.term /\ e.leader = m.from
      BY <1>0 DEF Roles, RequestsElected
    <3>2. e.leader = l
      BY <1>1, <2>2, <3>1 DEF Won, RolesMove, OneLeaderPerTerm
    <3> QED
      BY <1>0, <2>2, <3>1, <3>2 DEF Won, Roles, CandidatesNew
  <2> QED
    BY <2>1, <2>2 DEF Leads
<1>5. Matched'
  <2> SUFFICES ASSUME NEW l \in Server, NEW p \in Server, node'[l].state = Leader, p # l,
                      node'[l].matchIndex[p] # 0
               PROVE  \/ node'[p].currentTerm > node'[l].currentTerm
                      \/ /\ node'[p].currentTerm = node'[l].currentTerm
                         /\ SameTo(node'[p].log, node'[l].log, node'[l].matchIndex[p])
    BY DEF Matched
  <2>1. /\ node[l].state = Leader /\ node'[l].currentTerm = node[l].currentTerm
        /\ node'[l].matchIndex[p] = node[l].matchIndex[p]
    BY DEF Leads, SameIndexes
  <2>2. CASE node[p].currentTerm > node[l].currentTerm
    BY <1>2, <2>1, <2>2
  <2>3. CASE /\ node[p].currentTerm = node[l].currentTerm
             /\ SameTo(node[p].log, node[l].log, node[l].matchIndex[p])
    <3>1. SameTo(node'[p].log, node'[l].log, node[l].matchIndex[p])
      BY <1>0, <1>2, <2>3, SameToGrows
    <3> QED
      BY <1>2, <2>1, <2>3, <3>1
  <2> QED
    BY <2>1, <2>2, <2>3 DEF MatchInv, Matched
<1> QED
  BY <1>3, <1>4, <1>5 DEF MatchInv

LEMMA SameLogsExtend ==
    ASSUME Typed, SameLogs
    PROVE  \A s \in Server : Extends(node[s].log, node'[s].log)
<1> SUFFICES ASSUME NEW s \in Server PROVE Extends(node[s].log, node'[s].log)
  OBVIOUS
<1>1. node'[s].log = node[s].log /\ Len(node[s].log) \in Nat
  BY DEF Typed, SameLogs
<1> QED
  BY <1>1 DEF Extends

LEMMA TimeoutLeads ==
    ASSUME Shape, NEW c \in Server, ElectionTimeout(c)
    PROVE  \A s \in Server : Leads(s)
<1> DEFINE r == ConvertToCandidate(c, node[c])
<1>1. node \in [Server -> NodeState] /\ node[c] \in NodeState
  BY DEF Shape, TypeOK
<1>2. r.state = Candidate
  BY <1>1 DEF ConvertToCandidate, NodeState
<1>3. node' = [node EXCEPT ![c] = r]
  BY DEF ElectionTimeout
<1> HIDE DEF r
<1>4. node'[c] = r /\ \A s \in Server \ {c} : node'[s] = node[s]
  BY <1>1, <1>3
<1> QED
  BY <1>2, <1>4 DEF Leads, SameIndexes, Candidate, Leader

LEMMA VoteLeads ==
    ASSUME Shape, NEW m \in DOMAIN rpcs, RequestVoteRPC(m)
    PROVE  \A s \in Server : Leads(s)
<1> DEFINE voter   == RequestVote(node[m.to], m)
           granted == GrantsVote(node[m.to], m)
           caller  == ProcessRequestVoteResult(m.from, node[m.from], m.to,
                          voter.currentTerm, granted)
<1>1. /\ m \in RequestVoteArgs /\ m.from \in Server /\ m.to \in Server /\ m.from # m.to
      /\ node \in [Server -> NodeState]
  BY DEF Shape, TypeOK, DistinctEnds, RequestVoteRPC, RequestVoteArgs, AppendEntriesArgs
<1>2. node' = [node EXCEPT ![m.to] = voter, ![m.from] = caller]
  BY DEF RequestVoteRPC, AskVote
<1>3. /\ voter \in NodeState /\ RoleKept(node[m.to], voter)
      /\ SameIndexes(node[m.to], voter)
  BY <1>1, RequestVoteFacts, RequestVoteLog, RequestVoteIndexes
<1>4. voter.currentTerm \in Nat /\ granted \in BOOLEAN
  <2>1. voter.currentTerm \in Nat
    BY <1>3 DEF NodeState
  <2>2. granted \in BOOLEAN
    BY DEF GrantsVote
  <2> QED
    BY <2>1, <2>2
<1> HIDE DEF voter, granted
<1>5. caller.state = Leader =>
         \/ node[m.from].state = Leader /\ SameIndexes(node[m.from], caller)
         \/ /\ node[m.from].state = Candidate
            /\ \A p \in Server : /\ caller.nextIndex[p] = Len(node[m.from].log) + 1
                                  /\ caller.matchIndex[p] = 0
  <2>1. node[m.from] \in NodeState
    BY <1>1
  <2> QED
    BY <1>1, <1>4, <2>1, VoteResultIndexes
<1> HIDE DEF caller
<1>6. /\ node'[m.to] = voter /\ node'[m.from] = caller
      /\ \A s \in Server \ {m.to, m.from} : node'[s] = node[s]
  BY <1>1, <1>2
<1>7. Leads(m.to)
  BY <1>3, <1>6 DEF Leads, RoleKept, Follower, Leader
<1>8. Leads(m.from)
  <2>1. RoleKept(node[m.from], caller) \/ Started(m.from) \/ Won(m.from)
    BY <1>1, <1>6, VoteMove DEF RolesMove
  <2> QED
    BY <1>5, <1>6, <2>1 DEF Leads, RoleKept, Started, Won, Follower, Candidate, Leader
<1>9. \A s \in Server \ {m.to, m.from} : Leads(s)
  BY <1>6 DEF Leads, SameIndexes
<1> QED
  BY <1>7, <1>8, <1>9

LEMMA SubmitLeads ==
    ASSUME Shape, NEW l \in Server, NEW command \in Command, SubmitCommand(l, command)
    PROVE  \A s \in Server : Leads(s) /\ Extends(node[s].log, node'[s].log)
<1> DEFINE entry == [term |-> node[l].currentTerm, index |-> Len(node[l].log) + 1,
                     command |-> command]
           log == Append(node[l].log, entry)
           r == [node[l] EXCEPT !.log = log]
<1>1. node \in [Server -> NodeState] /\ node[l] \in NodeState
  BY DEF Shape, TypeOK
<1>2. node' = [node EXCEPT ![l] = r]
  BY DEF SubmitCommand
<1>3. node[l].log \in Seq(LogEntry) /\ \A s \in Server : Len(node[s].log) \in Nat
  BY <1>1 DEF NodeState
<1> HIDE DEF entry
<1>4. Extends(node[l].log, log)
  BY <1>3 DEF Extends
<1> HIDE DEF log
<1>5. r.log = log /\ r.state = node[l].state /\ r.currentTerm = node[l].currentTerm
      /\ SameIndexes(node[l], r)
  BY <1>1 DEF NodeState, SameIndexes
<1> HIDE DEF r
<1>6. node'[l] = r /\ \A s \in Server \ {l} : node'[s] = node[s]
  BY <1>1, <1>2
<1>7. Leads(l) /\ Extends(node[l].log, node'[l].log)
  BY <1>4, <1>5, <1>6 DEF Leads
<1>8. \A s \in Server \ {l} : Leads(s) /\ Extends(node[s].log, node'[s].log)
  BY <1>3, <1>6 DEF Leads, SameIndexes, Extends
<1> QED
  BY <1>7, <1>8

LEMMA OtherLeads ==
    ASSUME Shape, node' = node
    PROVE  \A s \in Server : Leads(s)
  BY DEF Leads, SameIndexes

LEMMA RequestTaken ==
    ASSUME NEW s \in Server, NEW n \in NodeState, NEW p \in Peers(s),
           n.nextIndex[p] <= Len(n.log) + 1
    PROVE  TakenFrom(AppendRequest(s, n, p), n.log)
<1> DEFINE m == AppendRequest(s, n, p)
           next == n.nextIndex[p]
           prev == next - 1
           entries == SubSeq(n.log, next, Len(n.log))
<1>1. n.log \in Seq(LogEntry) /\ Len(n.log) \in Nat /\ next \in Nat \ {0}
  BY DEF NodeState, Peers
<1>2. /\ m.prevLogIndex = prev /\ m.entries = entries
      /\ m.prevLogTerm = IF prev \in 1..Len(n.log) THEN n.log[prev].term ELSE 0
  BY DEF AppendRequest
<1>3. /\ Len(entries) = IF next <= Len(n.log) THEN Len(n.log) - next + 1 ELSE 0
      /\ \A k \in 1..(Len(n.log) - next + 1) : entries[k] = n.log[next + k - 1]
  <2>1. next \in Int /\ Len(n.log) \in Int
    BY <1>1
  <2>2. \A i \in next..Len(n.log) : n.log[i] \in LogEntry
    BY <1>1
  <2> HIDE DEF next
  <2> QED
    BY ONLY <2>1, <2>2, SubSeqProperties
<1>4. next <= Len(n.log) + 1
  OBVIOUS
<1> HIDE DEF m, entries, next
<1>5. prev + Len(entries) <= Len(n.log)
  BY <1>1, <1>3, <1>4
<1>6. ASSUME NEW k \in 1..Len(entries)
      PROVE  entries[k] = n.log[prev + k]
  <2>1. next <= Len(n.log) /\ k \in 1..(Len(n.log) - next + 1)
    BY <1>1, <1>3
  <2>2. next + k - 1 = prev + k
    BY <1>1, <2>1
  <2> QED
    BY <1>3, <2>1, <2>2
<1>7. prev > 0 => prev \in 1..Len(n.log)
  BY <1>1, <1>4
<1> HIDE DEF prev
<1> QED
  BY <1>2, <1>5, <1>6, <1>7 DEF TakenFrom, m

LEMMA SendMatch ==
    ASSUME MatchInv, LogInv', NEW l \in Server, SendHeartbeats(l)
    PROVE  MatchInv'
<1>1. Shape /\ Typed /\ OneLeaderPerTerm /\ LeadersElected
  BY LogTypes DEF MatchInv, LogTyped, Roles
<1>2. /\ node' = node /\ node[l].state = Leader
      /\ \A m \in Appends' : m \in Appends \/
            \E p \in Peers(l) : m = AppendRequest(l, node[l], p)
  BY <1>1, SendMove DEF SendHeartbeats
<1>3. NextBound' /\ Matched'
  BY <1>2 DEF MatchInv, NextBound, Matched
<1>4. SentHeld'
  <2> SUFFICES ASSUME NEW m \in Appends', NEW s \in Server, node[s].state = Leader,
                      m.term = node[s].currentTerm
               PROVE  TakenFrom(m, node[s].log)
    BY <1>2 DEF SentHeld
  <2>1. CASE m \in Appends
    BY <2>1 DEF MatchInv, SentHeld
  <2>2. ASSUME NEW p \in Peers(l), m = AppendRequest(l, node[l], p)
        PROVE  TakenFrom(m, node[s].log)
    <3>1. m.term = node[l].currentTerm
      BY <2>2 DEF AppendRequest
    <3>2. s = l
      BY <1>1, <1>2, <3>1, OneLeader
    <3>3. node[l] \in NodeState /\ node[l].nextIndex[p] <= Len(node[l].log) + 1
      BY <1>1, <1>2 DEF MatchInv, NextBound, Peers, Typed
    <3> QED
      BY <2>2, <3>2, <3>3, RequestTaken
  <2> QED
    BY <1>2, <2>1, <2>2
<1> QED
  BY <1>3, <1>4 DEF MatchInv

-----------------------------------------------------------------------------
(* AppendEntries and its reply *)

LEMMA AppendParts ==
    ASSUME Shape, NEW m \in DOMAIN rpcs, AppendEntriesRPC(m)
    PROVE  /\ m \in AppendEntriesArgs /\ m.from \in Server /\ m.to \in Server /\ m.from # m.to
           /\ SameIndexes(node[m.to], node'[m.to])
           /\ IF AcceptsEntries(node[m.to], m)
              THEN /\ node'[m.to].currentTerm = m.term
                   /\ node'[m.to].log = MergeLog(node[m.to].log, m.prevLogIndex, m.entries)
              ELSE node'[m.to].log = node[m.to].log
           /\ \A s \in Server \ {m.to, m.from} : node'[s] = node[s]
           /\ node'[m.from].state = Leader =>
                /\ \A p \in Server \ {m.to} :
                      /\ node'[m.from].nextIndex[p] = node[m.from].nextIndex[p]
                      /\ node'[m.from].matchIndex[p] = node[m.from].matchIndex[p]
                /\ \/ /\ node'[m.from].matchIndex[m.to] = node[m.from].matchIndex[m.to]
                      /\ node'[m.from].nextIndex[m.to] <= node[m.from].nextIndex[m.to]
                   \/ /\ AcceptsEntries(node[m.to], m) /\ m.entries # <<>>
                      /\ node'[m.to].currentTerm = node[m.from].currentTerm
                      /\ node'[m.from].nextIndex[m.to] = LastNewIndex(m) + 1
                      /\ node'[m.from].matchIndex[m.to] = LastNewIndex(m)
<1> DEFINE receiver == AppendEntries(node[m.to], m)
           success  == AcceptsEntries(node[m.to], m)
           caller   == ProcessAppendEntriesResult(m.from, node[m.from], m,
                           receiver.currentTerm, success)
<1>1. /\ m \in AppendEntriesArgs /\ m.from \in Server /\ m.to \in Server /\ m.from # m.to
      /\ node \in [Server -> NodeState]
  BY DEF Shape, TypeOK, DistinctEnds, AppendEntriesRPC, RequestVoteArgs, AppendEntriesArgs
<1>2. node' = [node EXCEPT ![m.to] = receiver, ![m.from] = caller]
  BY DEF AppendEntriesRPC
<1>3. /\ receiver \in NodeState /\ SameIndexes(node[m.to], receiver)
      /\ IF success
         THEN /\ receiver.currentTerm = m.term
              /\ receiver.log = MergeLog(node[m.to].log, m.prevLogIndex, m.entries)
         ELSE receiver.log = node[m.to].log
  <2>1. node[m.to] \in NodeState
    BY <1>1
  <2> QED
    BY <1>1, <2>1, AppendEntriesFacts, AppendEntriesIndexes
<1>4. receiver.currentTerm \in Nat /\ success \in BOOLEAN
  <2>1. receiver.currentTerm \in Nat
    BY <1>3 DEF NodeState
  <2>2. success \in BOOLEAN
    BY DEF AcceptsEntries
  <2> QED
    BY <2>1, <2>2
<1> HIDE DEF receiver, success
<1>5. caller.state = Leader =>
         /\ \A p \in Server \ {m.to} : /\ caller.nextIndex[p] = node[m.from].nextIndex[p]
                                       /\ caller.matchIndex[p] = node[m.from].matchIndex[p]
         /\ \/ /\ caller.matchIndex[m.to] = node[m.from].matchIndex[m.to]
               /\ caller.nextIndex[m.to] <= node[m.from].nextIndex[m.to]
            \/ /\ success /\ m.entries # <<>>
               /\ receiver.currentTerm = node[m.from].currentTerm
               /\ caller.nextIndex[m.to] = LastNewIndex(m) + 1
               /\ caller.matchIndex[m.to] = LastNewIndex(m)
  <2>1. node[m.from] \in NodeState
    BY <1>1
  <2> QED
    BY <1>1, <1>4, <2>1, AppendResultIndexes
<1> HIDE DEF caller
<1>6. /\ node'[m.to] = receiver /\ node'[m.from] = caller
      /\ \A s \in Server \ {m.to, m.from} : node'[s] = node[s]
  BY <1>1, <1>2
<1> QED
  BY <1>1, <1>3, <1>5, <1>6 DEF success

\* What the reply to a request of this leader says it has reached.
LEMMA ReachedIndex ==
    ASSUME LogInv, NEW m \in AppendEntriesArgs, NEW l \in Server, m.entries # <<>>,
           TakenFrom(m, node[l].log)
    PROVE  LastNewIndex(m) = m.prevLogIndex + Len(m.entries)
<1>1. Typed
  BY LogTypes DEF LogTyped
<1>2. /\ node[l].log \in Seq(LogEntry) /\ Len(node[l].log) \in Nat
      /\ Whole(node[l].log) \in Pieces
  BY <1>1 DEF Typed, Pieces
<1>3. /\ m.prevLogIndex \in Nat /\ Len(m.entries) \in Nat /\ Len(m.entries) \in 1..Len(m.entries)
  BY DEF AppendEntriesArgs
<1>4. PICK k : k = m.prevLogIndex + Len(m.entries)
  OBVIOUS
<1>5. k \in Nat /\ k \in 1..Len(node[l].log) /\ m.entries[Len(m.entries)] = node[l].log[k]
  <2>1. /\ m.prevLogIndex + Len(m.entries) <= Len(node[l].log)
        /\ \A i \in 1..Len(m.entries) : m.entries[i] = node[l].log[m.prevLogIndex + i]
    BY DEF TakenFrom
  <2>2. k \in Nat /\ k \in 1..Len(node[l].log)
    BY <1>2, <1>3, <1>4, <2>1
  <2> QED
    BY <1>3, <1>4, <2>1, <2>2
<1>6. node[l].log[k].index = k
  BY <1>2, <1>5, WholeFacts DEF LogInv, PieceSound
<1> QED
  BY <1>4, <1>5, <1>6 DEF LastNewIndex

LEMMA AppendMatch ==
    ASSUME MatchInv, LogInv', NEW m \in DOMAIN rpcs, AppendEntriesRPC(m),
           \A s \in Server : Keeps(node[s], node'[s])
    PROVE  MatchInv'
<1>0. /\ LogInv /\ Shape /\ Typed
      /\ \A l, p \in Server : /\ node[l].nextIndex[p] \in Nat \ {0}
                              /\ node[l].matchIndex[p] \in Nat
  BY LogTypes DEF MatchInv, LogTyped
<1>1. /\ Appends' \subseteq Appends /\ m \in Appends
      /\ \A s \in Server : RoleKept(node[s], node'[s])
      /\ \A s \in Server \ {m.to} : node'[s].log = node[s].log
  BY <1>0, AppendMove
<1>2. /\ m \in AppendEntriesArgs /\ m.from \in Server /\ m.to \in Server /\ m.from # m.to
      /\ m.prevLogIndex \in Nat /\ m.entries \in Seq(LogEntry) /\ Len(m.entries) \in Nat
      /\ m.term \in Nat
  BY <1>0, AppendParts DEF AppendEntriesArgs
<1>3. \A s \in Server : /\ node[s].log \in Seq(LogEntry) /\ Len(node[s].log) \in Nat
                         /\ node[s].currentTerm \in Nat /\ node'[s].currentTerm \in Nat
                         /\ node'[s].currentTerm >= node[s].currentTerm
                         /\ Whole(node[s].log) \in Pieces
  BY <1>0, LogTypesNext DEF LogTyped, Typed, Keeps, Pieces
<1>4. ASSUME NEW l \in Server, node'[l].state = Leader
      PROVE  /\ node[l].state = Leader /\ node'[l].currentTerm = node[l].currentTerm
             /\ node'[l].log = node[l].log
  <2>1. node[l].state = Leader /\ node'[l].currentTerm = node[l].currentTerm
    BY <1>1, <1>4 DEF RoleKept, Leader, Follower
  <2>2. node'[l].log = node[l].log
    BY <1>0, <1>1, <1>4, ReceiverFollows
  <2> QED
    BY <2>1, <2>2
<1>5. ASSUME NEW l \in Server, node'[l].state = Leader, NEW p \in Server,
             l # m.from \/ p # m.to
      PROVE  /\ node'[l].nextIndex[p] = node[l].nextIndex[p]
             /\ node'[l].matchIndex[p] = node[l].matchIndex[p]
  <2>1. CASE l = m.to
    BY <1>0, <2>1, AppendParts DEF SameIndexes
  <2>2. CASE l = m.from
    BY <1>0, <1>5, <2>2, AppendParts
  <2>3. CASE l # m.to /\ l # m.from
    BY <1>0, <2>3, AppendParts
  <2> QED
    BY <2>1, <2>2, <2>3
<1>6. ASSUME NEW l \in Server, node[l].state = Leader, node[l].currentTerm = m.term
      PROVE  TakenFrom(m, node[l].log)
  BY <1>1, <1>6 DEF MatchInv, SentHeld
<1> DEFINE Recorded == /\ AcceptsEntries(node[m.to], m) /\ m.entries # <<>>
                       /\ node'[m.to].currentTerm = node[m.from].currentTerm
                       /\ node'[m.from].nextIndex[m.to] = LastNewIndex(m) + 1
                       /\ node'[m.from].matchIndex[m.to] = LastNewIndex(m)
<1>7. ASSUME node'[m.from].state = Leader, Recorded
      PROVE  /\ node[m.from].currentTerm = m.term /\ node'[m.to].currentTerm = m.term
             /\ TakenFrom(m, node[m.from].log)
             /\ LastNewIndex(m) = m.prevLogIndex + Len(m.entries)
  <2>1. node'[m.to].currentTerm = m.term
    BY <1>0, <1>7, AppendParts
  <2>2. node[m.from].currentTerm = m.term /\ node[m.from].state = Leader
    BY <1>2, <1>4, <1>7, <2>1
  <2>3. TakenFrom(m, node[m.from].log)
    BY <1>2, <1>6, <2>2
  <2> QED
    BY <1>0, <1>2, <1>7, <2>1, <2>2, <2>3, ReachedIndex
<1>8. node'[m.from].state = Leader =>
         \/ /\ node'[m.from].matchIndex[m.to] = node[m.from].matchIndex[m.to]
            /\ node'[m.from].nextIndex[m.to] <= node[m.from].nextIndex[m.to]
         \/ Recorded
  BY <1>0, AppendParts
<1> HIDE DEF Recorded
<1>9. NextBound'
  <2> SUFFICES ASSUME NEW l \in Server, NEW p \in Server, node'[l].state = Leader
               PROVE  node'[l].nextIndex[p] <= Len(node[l].log) + 1
    BY <1>4 DEF NextBound
  <2>0. node[l].nextIndex[p] <= Len(node[l].log) + 1
    BY <1>4 DEF MatchInv, NextBound
  <2>1. CASE l # m.from \/ p # m.to
    BY <1>5, <2>0, <2>1
  <2>2. CASE l = m.from /\ p = m.to /\ node'[l].nextIndex[p] <= node[l].nextIndex[p]
    <3>1. node'[l].nextIndex[p] \in Nat
      BY LogTypesNext DEF LogTyped
    <3> QED
      BY <1>0, <1>3, <2>0, <2>2, <3>1
  <2>3. CASE l = m.from /\ p = m.to /\ Recorded
    <3>1. m.prevLogIndex + Len(m.entries) <= Len(node[l].log)
      BY <1>7, <2>3 DEF TakenFrom
    <3>2. node'[l].nextIndex[p] = m.prevLogIndex + Len(m.entries) + 1
      BY <1>7, <2>3 DEF Recorded
    <3> QED
      BY <1>2, <1>3, <3>1, <3>2
  <2> QED
    BY <1>8, <2>1, <2>2, <2>3
<1>10. SentHeld'
  <2> SUFFICES ASSUME NEW x \in Appends', NEW l \in Server, node'[l].state = Leader,
                      x.term = node'[l].currentTerm
               PROVE  TakenFrom(x, node[l].log)
    BY <1>4 DEF SentHeld
  <2> QED
    BY <1>1, <1>4 DEF MatchInv, SentHeld
<1>11. ASSUME NEW l \in Server, node[l].state = Leader, node[l].currentTerm = m.term,
              AcceptsEntries(node[m.to], m)
       PROVE  /\ m.prevLogIndex <= Len(node[m.to].log)
              /\ m.prevLogIndex > 0 =>
                    node[m.to].log[m.prevLogIndex].term = node[l].log[m.prevLogIndex].term
              /\ m.prevLogIndex + Len(m.entries) <= Len(node[l].log)
              /\ \A i \in 1..Len(m.entries) : m.entries[i] = node[l].log[m.prevLogIndex + i]
  <2>1. HasPrevious(node[m.to].log, m)
    BY <1>11 DEF AcceptsEntries
  <2> QED
    BY <1>2, <1>3, <1>6, <1>11, <2>1 DEF HasPrevious, TakenFrom
<1>12. Matched'
  <2> SUFFICES ASSUME NEW l \in Server, NEW p \in Server, node'[l].state = Leader, p # l,
                      node'[l].matchIndex[p] # 0
               PROVE  \/ node'[p].currentTerm > node[l].currentTerm
                      \/ /\ node'[p].currentTerm = node[l].currentTerm
                         /\ SameTo(node'[p].log, node[l].log, node'[l].matchIndex[p])
    BY <1>4 DEF Matched
  <2>0. node[l].state = Leader
    BY <1>4
  <2>1. CASE l = m.from /\ p = m.to /\ Recorded
    <3>1. /\ node'[p].log = MergeLog(node[p].log, m.prevLogIndex, m.entries)
          /\ node'[p].currentTerm = node[l].currentTerm /\ node[l].currentTerm = m.term
          /\ node'[l].matchIndex[p] = m.prevLogIndex + Len(m.entries)
      BY <1>0, <1>7, <2>1, AppendParts DEF Recorded
    <3>2. Agree(Whole(node[p].log), Whole(node[l].log))
      BY <1>3 DEF MatchInv, LogInv, PiecesAgree
    <3>3. SameTo(MergeLog(node[p].log, m.prevLogIndex, m.entries), node[l].log,
                 m.prevLogIndex + Len(m.entries))
      <4>1. AcceptsEntries(node[m.to], m)
        BY <2>1 DEF Recorded
      <4>2. /\ m.prevLogIndex <= Len(node[p].log)
            /\ m.prevLogIndex > 0 =>
                  node[p].log[m.prevLogIndex].term = node[l].log[m.prevLogIndex].term
            /\ m.prevLogIndex + Len(m.entries) <= Len(node[l].log)
            /\ \A i \in 1..Len(m.entries) : m.entries[i] = node[l].log[m.prevLogIndex + i]
        BY <1>11, <2>0, <2>1, <3>1, <4>1
      <4>3. /\ node[p].log \in Seq(LogEntry) /\ node[l].log \in Seq(LogEntry)
            /\ m.entries \in Seq(LogEntry) /\ m.prevLogIndex \in Nat
        BY <1>2, <1>3
      <4> QED
        BY ONLY <3>2, <4>2, <4>3, MergeReaches
    <3> QED
      BY <3>1, <3>3
  <2>2. CASE node'[l].matchIndex[p] = node[l].matchIndex[p]
    <3> DEFINE k == node[l].matchIndex[p]
    <3>1. CASE node[p].currentTerm > node[l].currentTerm
      BY <1>3, <3>1
    <3>2. CASE node[p].currentTerm = node[l].currentTerm /\ SameTo(node[p].log, node[l].log, k)
      <4>1. CASE node'[p].log = node[p].log
        BY <1>3, <2>2, <3>2, <4>1
      <4>2. CASE node'[p].log # node[p].log
        <5>1. p = m.to
          BY <1>1, <4>2
        <5>2. /\ AcceptsEntries(node[p], m) /\ node'[p].currentTerm = m.term
              /\ node'[p].log = MergeLog(node[p].log, m.prevLogIndex, m.entries)
          BY <1>0, <4>2, <5>1, AppendParts
        <5>3. CASE m.term = node[l].currentTerm
          <6>1. /\ m.prevLogIndex <= Len(node[p].log)
                /\ m.prevLogIndex + Len(m.entries) <= Len(node[l].log)
                /\ \A i \in 1..Len(m.entries) : m.entries[i] = node[l].log[m.prevLogIndex + i]
            BY <1>11, <2>0, <5>1, <5>2, <5>3
          <6>2. /\ node[p].log \in Seq(LogEntry) /\ node[l].log \in Seq(LogEntry)
                /\ m.entries \in Seq(LogEntry) /\ m.prevLogIndex \in Nat /\ k \in Nat
                /\ SameTo(node[p].log, node[l].log, k)
            BY <1>0, <1>2, <1>3, <3>2
          <6>3. SameTo(MergeLog(node[p].log, m.prevLogIndex, m.entries), node[l].log, k)
            <7> HIDE DEF k
            <7> QED
              BY ONLY <6>1, <6>2, MergeKeepsMatch
          <6> QED
            BY <2>2, <5>2, <5>3, <6>3
        <5>4. CASE m.term # node[l].currentTerm
          BY <1>3, <3>2, <5>2, <5>4
        <5> QED
          BY <5>3, <5>4
      <4> QED
        BY <4>1, <4>2
    <3> QED
      BY <2>0, <2>2, <3>1, <3>2 DEF MatchInv, Matched
  <2> QED
    BY <1>5, <1>8, <2>1, <2>2
<1> QED
  BY <1>9, <1>10, <1>12 DEF MatchInv

-----------------------------------------------------------------------------
(* The theorem *)

LEMMA InitMatchInv == Init => MatchInv
<1> SUFFICES ASSUME Init PROVE MatchInv
  OBVIOUS
<1>1. \A s \in Server : node[s].state = Follower
  BY DEF Init, InitNode
<1> QED
  BY <1>1, InitLogInv DEF MatchInv, NextBound, SentHeld, Matched, Follower, Leader

LEMMA NextMatchInv == MatchInv /\ [CalmNext]_vars => MatchInv'
<1> SUFFICES ASSUME MatchInv, [CalmNext]_vars PROVE MatchInv'
  OBVIOUS
<1>0. /\ Shape /\ Typed /\ LogInv' /\ \A s \in Server : Keeps(node[s], node'[s])
  BY LogTypes, NextLogInv, CalmShape DEF MatchInv, LogTyped
<1>1. ASSUME NEW s \in Server, ElectionTimeout(s) PROVE MatchInv'
  <2>1. RolesMove /\ Appends' \subseteq Appends /\ SameLogs
    BY <1>0, <1>1, TimeoutMove
  <2> QED
    BY <1>0, <1>1, <2>1, TimeoutLeads, SameLogsExtend, MatchKept
<1>2. ASSUME NEW s \in Server, NEW c \in Command, SubmitCommand(s, c) PROVE MatchInv'
  <2>1. RolesMove /\ Appends' \subseteq Appends
    BY <1>0, <1>2, SubmitMove
  <2> QED
    BY <1>0, <1>2, <2>1, SubmitLeads, MatchKept
<1>3. ASSUME NEW s \in Server, SendHeartbeats(s) PROVE MatchInv'
  BY <1>0, <1>3, SendMatch
<1>4. ASSUME NEW m \in DOMAIN rpcs, RequestVoteRPC(m) PROVE MatchInv'
  <2>1. RolesMove /\ Appends' \subseteq Appends /\ SameLogs
    BY <1>0, <1>4, VoteMove
  <2> QED
    BY <1>0, <1>4, <2>1, VoteLeads, SameLogsExtend, MatchKept
<1>5. ASSUME NEW m \in DOMAIN rpcs, AppendEntriesRPC(m) PROVE MatchInv'
  BY <1>0, <1>5, AppendMatch
<1>6. CASE \/ \E s \in Server : Began(s)
           \/ \E s \in Server : SendRequestVoteRPCs(s)
           \/ \E m \in DOMAIN rpcs : RPCUnreachable(m)
           \/ UNCHANGED vars
  <2>1. RolesMove /\ Appends' \subseteq Appends /\ SameLogs
    BY <1>0, <1>6, OtherMove
  <2>2. node' = node
    BY <1>6 DEF Began, Construct, Start, SendRequestVoteRPCs, RPCUnreachable, vars
  <2> QED
    BY <1>0, <2>1, <2>2, OtherLeads, SameLogsExtend, MatchKept
<1> QED
  BY <1>1, <1>2, <1>3, <1>4, <1>5, <1>6 DEF CalmNext

LEMMA AlwaysMatchInv == Spec => [](IInv /\ (NoVoteForgotten => MatchInv))
<1> DEFINE Inv == IInv /\ (NoVoteForgotten => MatchInv)
<1>1. Init => Inv
  BY InitIInv, InitMatchInv
<1>2. Inv /\ [Next]_vars => Inv'
  <2> SUFFICES ASSUME Inv, [Next]_vars PROVE Inv'
    OBVIOUS
  <2>1. IInv'
    BY NextIInv
  <2>2. ASSUME NoVoteForgotten' PROVE MatchInv'
    BY <2>2, NextCalm, NextMatchInv DEF IInv
  <2> QED
    BY <2>1, <2>2
<1> QED
  BY <1>1, <1>2, PTL DEF Spec

\* However late and in whatever order replies came, a peer of a leader's term holds
\* what the leader has noted of it in matchIndex (MatchIndexSound).
THEOREM MatchesThere == Spec => []MatchIndexSound
<1>1. (NoVoteForgotten => MatchInv) => MatchIndexSound
  <2> SUFFICES ASSUME MatchInv, NEW l \in Server, NEW p \in Server,
                      node[l].state = Leader, p # l,
                      node[p].currentTerm = node[l].currentTerm
               PROVE  LET k == node[l].matchIndex[p]
                      IN  /\ k <= Len(node[l].log) /\ k <= Len(node[p].log)
                          /\ Upto(node[p].log, k) = Upto(node[l].log, k)
    BY DEF MatchIndexSound
  <2>0. /\ node[l].log \in Seq(LogEntry) /\ node[p].log \in Seq(LogEntry)
        /\ Len(node[l].log) \in Nat /\ Len(node[p].log) \in Nat
        /\ node[l].matchIndex[p] \in Nat /\ node[l].currentTerm \in Nat
    BY LogTypes DEF MatchInv, LogTyped, Typed
  <2>1. SameTo(node[p].log, node[l].log, node[l].matchIndex[p])
    <3>1. CASE node[l].matchIndex[p] = 0
      BY <2>0, <3>1 DEF SameTo
    <3>2. CASE node[l].matchIndex[p] # 0
      BY <2>0, <3>2 DEF MatchInv, Matched
    <3> QED
      BY <3>1, <3>2
  <2> QED
    BY <2>0, <2>1, SameUpto DEF SameTo
<1> QED
  BY <1>1, AlwaysMatchInv, PTL

-----------------------------------------------------------------------------
(* Terms in order *)

\* No entry of a piece is older than one before it.
Ordered(f) ==
    \A i, j \in Nat :
        Knows(f, i) /\ Holds(f, j) /\ i <= j => TermAt(f, i) <= EntryAt(f, j).term

\* The terms of a piece, the one before it included, are none above t.
Behind(f, t) == f.term <= t /\ \A k \in Nat : Holds(f, k) => EntryAt(f, k).term <= t

LogsBehind == \A s \in Server : Behind(Whole(node[s].log), node[s].currentTerm)

SentBehind == \A m \in Appends : Behind(Sent(m), m.term)

Asks == {m \in DOMAIN rpcs : m.type = "RequestVote"}

\* A request for a vote tells of the log its sender has, while the sender stands
\* in that term and nobody has won it.
VoteFresh ==
    \A m \in Asks :
        /\ m.term <= node[m.from].currentTerm
        /\ /\ node[m.from].state = Candidate
           /\ node[m.from].currentTerm = m.term
           /\ \A e \in elections : e.term # m.term
           => /\ m.lastLogIndex = Len(node[m.from].log)
              /\ m.lastLogTerm = LastTerm(node[m.from].log)

MatchBound ==
    \A l, p \in Server :
        node[l].state = Leader => node[l].matchIndex[p] <= Len(node[l].log)

OrderInv ==
    /\ MatchInv
    /\ \A f \in Pieces : Ordered(f)
    /\ LogsBehind /\ SentBehind
    /\ VoteFresh /\ MatchBound

LEMMA OrderTypes == OrderInv => LogTyped
  BY LogTypes DEF OrderInv, MatchInv

LEMMA OrderTypesNext == OrderInv' => LogTyped'
  BY OrderTypes, PTL

LEMMA MatchTypesNext == MatchInv' => LogTyped'
  BY LogTypes, PTL DEF MatchInv

\* A part of a piece is ordered like the whole.
LEMMA PartOrdered ==
    ASSUME NEW f, NEW h, Ordered(h),
           \A k \in Nat : Holds(f, k) => Holds(h, k) /\ EntryAt(f, k) = EntryAt(h, k),
           \A i, j \in Nat : Holds(f, i) /\ Knows(f, j) =>
               Knows(h, j) /\ TermAt(f, j) = TermAt(h, j)
    PROVE  Ordered(f)
  BY DEF Ordered

LEMMA MergedOrdered ==
    ASSUME NEW l, NEW q, NEW r, NEW c \in Nat, MergedAt(l, q, r, c), Ordered(l), Ordered(q)
    PROVE  Ordered(r)
<1> SUFFICES ASSUME NEW i \in Nat, NEW j \in Nat, Knows(r, i), Holds(r, j), i <= j
             PROVE  TermAt(r, i) <= EntryAt(r, j).term
  BY DEF Ordered
<1>1. /\ IsPiece(l) /\ IsPiece(q) /\ IsPiece(r) /\ l.base = 0 /\ r.base = 0 /\ q.base \in Nat
      /\ Len(l.entries) \in Nat /\ Len(q.entries) \in Nat /\ q.base <= c
  BY DEF MergedAt, IsPiece
<1>2. Holds(r, i) /\ i > 0 /\ TermAt(r, i) = EntryAt(r, i).term
  BY <1>1 DEF Knows, TermAt
<1>3. CASE j <= c
  <2>1. /\ Holds(l, j) /\ EntryAt(r, j) = EntryAt(l, j)
        /\ Holds(l, i) /\ EntryAt(r, i) = EntryAt(l, i)
    BY <1>2, <1>3 DEF MergedAt
  <2>2. Knows(l, i) /\ TermAt(l, i) = EntryAt(l, i).term
    BY <1>1, <2>1, PieceFacts
  <2> QED
    BY <1>2, <2>1, <2>2 DEF Ordered
<1>4. CASE j > c
  <2>1. Holds(q, j) /\ EntryAt(r, j) = EntryAt(q, j)
    BY <1>4 DEF MergedAt
  <2>2. CASE i > c
    <3>1. Holds(q, i) /\ EntryAt(r, i) = EntryAt(q, i)
      BY <1>2, <2>2 DEF MergedAt
    <3>2. Knows(q, i) /\ TermAt(q, i) = EntryAt(q, i).term
      BY <1>1, <3>1, PieceFacts
    <3> QED
      BY <1>2, <2>1, <3>1, <3>2 DEF Ordered
  <2>3. CASE i <= c
    <3>1. Holds(l, i) /\ EntryAt(r, i) = EntryAt(l, i)
      BY <1>2, <2>3 DEF MergedAt
    <3>2. Knows(l, i) /\ TermAt(l, i) = EntryAt(l, i).term
      BY <1>1, <3>1, PieceFacts
    <3>3. CASE i > q.base
      <4>1. Holds(q, i)
        BY <1>1, <2>1, <3>3 DEF Holds
      <4>2. EntryAt(l, i).term = EntryAt(q, i).term
        BY <1>2, <2>3, <4>1 DEF MergedAt
      <4>3. Knows(q, i) /\ TermAt(q, i) = EntryAt(q, i).term
        BY <1>1, <4>1, PieceFacts
      <4> QED
        BY <1>2, <2>1, <3>1, <4>2, <4>3 DEF Ordered
    <3>4. CASE i <= q.base
      <4>0. q.base > 0 /\ q.base <= j
        BY <1>1, <1>2, <1>4, <3>4
      <4>1. Holds(l, q.base) /\ EntryAt(l, q.base).term = q.term
        BY <4>0 DEF MergedAt
      <4>2. Knows(q, q.base) /\ TermAt(q, q.base) = q.term
        BY <4>0 DEF Knows, TermAt
      <4>3. TermAt(l, i) <= EntryAt(l, q.base).term
        BY <1>1, <3>2, <3>4, <4>1 DEF Ordered
      <4>4. q.term <= EntryAt(q, j).term
        BY <1>1, <2>1, <4>0, <4>2 DEF Ordered
      <4>5. EntryAt(l, i) \in LogEntry /\ EntryAt(l, q.base) \in LogEntry /\ EntryAt(q, j) \in LogEntry
        BY <1>1, <2>1, <3>1, <4>1, PieceFacts
      <4> QED
        BY <1>2, <2>1, <3>1, <3>2, <4>1, <4>3, <4>4, <4>5 DEF LogEntry
    <3> QED
      BY <1>1, <3>3, <3>4
  <2> QED
    BY <1>1, <2>2, <2>3
<1> QED
  BY <1>3, <1>4

\* Terms that are behind a term are behind every later one.
LEMMA BehindLater ==
    ASSUME NEW f, IsPiece(f), f.term \in Nat, NEW t \in Nat, NEW u \in Nat, t <= u, Behind(f, t)
    PROVE  Behind(f, u)
<1> SUFFICES ASSUME NEW k \in Nat, Holds(f, k) PROVE EntryAt(f, k).term <= u
  BY DEF Behind
<1>1. EntryAt(f, k).term \in Nat
  BY PieceFacts DEF LogEntry
<1> QED
  BY <1>1 DEF Behind

LEMMA MergedBehind ==
    ASSUME NEW l, NEW q, NEW r, NEW c \in Nat, MergedAt(l, q, r, c), NEW t,
           Behind(l, t), Behind(q, t), r.term = l.term
    PROVE  Behind(r, t)
  BY DEF MergedAt, Behind

-----------------------------------------------------------------------------
(* What the actions do to it *)

LEMMA AsksMove ==
    ASSUME Shape, [CalmNext]_vars, NEW m, m \in Asks', m \notin Asks
    PROVE  /\ node' = node
           /\ \E s \in Server : \E p \in Peers(s) : m = VoteRequest(s, node[s], p)
<1>0. m \in DOMAIN rpcs' /\ m.type = "RequestVote" /\ m \notin DOMAIN rpcs
  BY DEF Asks
<1>1. ASSUME NEW s \in Server, SendRequestVoteRPCs(s)
      PROVE  /\ node' = node
             /\ \E p \in Peers(s) : m = VoteRequest(s, node[s], p)
  <2>1. DOMAIN rpcs' = DOMAIN rpcs \cup {VoteRequest(s, node[s], p) : p \in Peers(s)}
    BY <1>1, BagAfterSend DEF SendRequestVoteRPCs
  <2> QED
    BY <1>0, <1>1, <2>1 DEF SendRequestVoteRPCs
<1>2. ASSUME NEW s \in Server, SendHeartbeats(s) PROVE FALSE
  <2>1. DOMAIN rpcs' = DOMAIN rpcs \cup {AppendRequest(s, node[s], p) : p \in Peers(s)}
    BY <1>2, BagAfterSend DEF SendHeartbeats
  <2>2. \A p \in Peers(s) : AppendRequest(s, node[s], p).type = "AppendEntries"
    BY DEF AppendRequest
  <2> QED
    BY <1>0, <2>1, <2>2
<1>3. ASSUME NEW d \in DOMAIN rpcs, RPCUnreachable(d) \/ RequestVoteRPC(d) \/ AppendEntriesRPC(d)
      PROVE  FALSE
  <2>1. rpcs' = rpcs (-) SetToBag({d})
    BY <1>3 DEF RPCUnreachable, RequestVoteRPC, AskVote, AppendEntriesRPC
  <2> QED
    BY <1>0, <2>1, BagAfterReceive
<1>4. ~(rpcs' = rpcs)
  BY <1>0
<1>5. ASSUME NEW s \in Server, Began(s) \/ ElectionTimeout(s)
                                \/ \E c \in Command : SubmitCommand(s, c)
      PROVE  FALSE
  BY <1>4, <1>5 DEF Began, Construct, Start, ElectionTimeout, SubmitCommand
<1>6. UNCHANGED vars => FALSE
  BY <1>4 DEF vars
<1> QED
  BY <1>1, <1>2, <1>3, <1>5, <1>6 DEF CalmNext

\* Requests for votes stay fresh while nobody's log changes that stands in a term
\* not won.
LEMMA FreshKept ==
    ASSUME OrderInv, MatchInv', [CalmNext]_vars, RolesMove,
           \A s \in Server : Keeps(node[s], node'[s]),
           \A s \in Server :
               /\ node[s].state = Candidate
               /\ node'[s].currentTerm = node[s].currentTerm
               /\ \A e \in elections : e.term # node[s].currentTerm
               => node'[s].log = node[s].log
    PROVE  VoteFresh'
<1>0. LogTyped /\ LogTyped'
  BY OrderTypes, MatchTypesNext
<1>1. SUFFICES ASSUME NEW m \in Asks'
               PROVE  /\ m.term <= node'[m.from].currentTerm
                      /\ /\ node'[m.from].state = Candidate
                         /\ node'[m.from].currentTerm = m.term
                         /\ \A e \in elections' : e.term # m.term
                         => /\ m.lastLogIndex = Len(node'[m.from].log)
                            /\ m.lastLogTerm = LastTerm(node'[m.from].log)
  BY DEF VoteFresh
<1>2. CASE m \notin Asks
  <2>0. \E s \in Server : \E p \in Peers(s) : m = VoteRequest(s, node[s], p)
    BY <1>0, <1>2, AsksMove DEF LogTyped
  <2>s. PICK s \in Server : \E p \in Peers(s) : m = VoteRequest(s, node[s], p)
    BY <2>0
  <2>1. PICK p \in Peers(s) : m = VoteRequest(s, node[s], p)
    BY <2>s
  <2>2. node' = node /\ m.from = s /\ m.term = node[s].currentTerm
        /\ m.lastLogIndex = Len(node[s].log) /\ m.lastLogTerm = LastTerm(node[s].log)
    BY <1>0, <1>2, <2>1, AsksMove DEF LogTyped, VoteRequest
  <2>3. node[s].currentTerm \in Nat
    BY <1>0 DEF LogTyped, Typed
  <2> QED
    BY <2>2, <2>3
<1>3. CASE m \in Asks
  <2>1. m.from \in Server /\ m.term \in Nat
    BY <1>0, <1>3 DEF Asks, LogTyped, Shape, TypeOK, RequestVoteArgs, AppendEntriesArgs
  <2>2. node[m.from].currentTerm \in Nat /\ node'[m.from].currentTerm \in Nat
    BY <1>0, <2>1 DEF LogTyped, Typed
  <2>3. m.term <= node[m.from].currentTerm
    BY <1>3 DEF OrderInv, VoteFresh
  <2>4. m.term <= node'[m.from].currentTerm
    BY <2>1, <2>2, <2>3 DEF Keeps
  <2>5. ASSUME node'[m.from].state = Candidate, node'[m.from].currentTerm = m.term,
               \A e \in elections' : e.term # m.term
        PROVE  /\ m.lastLogIndex = Len(node'[m.from].log)
               /\ m.lastLogTerm = LastTerm(node'[m.from].log)
    <3>1. ~Won(m.from) /\ ~Started(m.from)
      BY <2>1, <2>2, <2>3, <2>5 DEF Won, Started, Candidate, Leader
    <3>2. node[m.from].state = Candidate /\ node[m.from].currentTerm = m.term
      BY <2>1, <2>5, <3>1 DEF RolesMove, RoleKept, Candidate, Follower
    <3>3. \A e \in elections : e.term # m.term
      BY <2>5 DEF RolesMove
    <3>4. node'[m.from].log = node[m.from].log
      BY <2>1, <2>5, <3>2, <3>3
    <3>5. m.lastLogIndex = Len(node[m.from].log) /\ m.lastLogTerm = LastTerm(node[m.from].log)
      BY <1>3, <3>2, <3>3 DEF OrderInv, VoteFresh
    <3> QED
      BY <3>4, <3>5
  <2> QED
    BY <2>4, <2>5
<1> QED
  BY <1>2, <1>3

\* Leaders note no more than they hold: who is new has noted nothing.
LEMMA BoundKept ==
    ASSUME OrderInv, MatchInv', \A s \in Server : Leads(s),
           \A s \in Server : Len(node[s].log) <= Len(node'[s].log)
    PROVE  MatchBound'
<1>0. LogTyped /\ LogTyped'
  BY OrderTypes, MatchTypesNext
<1> SUFFICES ASSUME NEW l \in Server, NEW p \in Server, node'[l].state = Leader
             PROVE  node'[l].matchIndex[p] <= Len(node'[l].log)
  BY DEF MatchBound
<1>1. /\ Len(node[l].log) \in Nat /\ Len(node'[l].log) \in Nat /\ node[l].matchIndex[p] \in Nat
      /\ Len(node[l].log) <= Len(node'[l].log)
  BY <1>0 DEF LogTyped, Typed
<1>2. \/ node'[l].matchIndex[p] = 0
      \/ node[l].state = Leader /\ node'[l].matchIndex[p] = node[l].matchIndex[p]
  BY DEF Leads, SameIndexes
<1>3. node[l].state = Leader => node[l].matchIndex[p] <= Len(node[l].log)
  BY DEF OrderInv, MatchBound
<1> QED
  BY <1>1, <1>2, <1>3

\* A step that changes no log and sends nothing to append.
LEMMA SameLogsOrder ==
    ASSUME OrderInv, MatchInv', [CalmNext]_vars, RolesMove, SameLogs, Appends' \subseteq Appends,
           \A s \in Server : Keeps(node[s], node'[s]),
           \A s \in Server : Leads(s)
    PROVE  OrderInv'
<1>0. LogTyped /\ LogTyped'
  BY OrderTypes, MatchTypesNext
<1>1. \A s \in Server : /\ node'[s].log = node[s].log /\ Len(node[s].log) \in Nat
                         /\ node[s].currentTerm \in Nat /\ node'[s].currentTerm \in Nat
                         /\ node'[s].currentTerm >= node[s].currentTerm
  BY <1>0 DEF SameLogs, Keeps, LogTyped, Typed
<1>2. Pieces' \subseteq Pieces
  BY <1>1 DEF Pieces
<1>3. \A f \in Pieces' : Ordered(f)
  BY <1>2 DEF OrderInv
<1>4. LogsBehind'
  <2> SUFFICES ASSUME NEW s \in Server PROVE Behind(Whole(node[s].log), node'[s].currentTerm)
    BY <1>1 DEF LogsBehind
  <2>1. Behind(Whole(node[s].log), node[s].currentTerm) /\ Whole(node[s].log) \in Pieces
    BY DEF OrderInv, LogsBehind, Pieces
  <2>2. Whole(node[s].log).term = 0 /\ IsPiece(Whole(node[s].log))
    BY <1>0, <2>1 DEF Whole, LogTyped, Typed
  <2> QED
    BY <1>1, <2>1, <2>2, BehindLater
<1>5. SentBehind'
  BY DEF OrderInv, SentBehind
<1>6. VoteFresh'
  BY <1>1, FreshKept
<1>7. MatchBound'
  BY <1>1, BoundKept
<1> QED
  BY <1>3, <1>4, <1>5, <1>6, <1>7 DEF OrderInv

LEMMA AppendedOrder ==
    ASSUME NEW L \in Seq(LogEntry), NEW e \in LogEntry,
           Ordered(Whole(L)), Behind(Whole(L), e.term)
    PROVE  Ordered(Whole(Append(L, e))) /\ Behind(Whole(Append(L, e)), e.term)
<1>R. PICK R : R = Append(L, e)
  OBVIOUS
<1>1. /\ R \in Seq(LogEntry) /\ Len(L) \in Nat /\ Len(R) = Len(L) + 1 /\ R[Len(L) + 1] = e
      /\ \A k \in 1..Len(L) : R[k] = L[k]
      /\ e.term \in Nat
  BY <1>R DEF LogEntry
<1>2. \A k \in 1..Len(L) : L[k].term <= e.term /\ L[k] \in LogEntry
  BY WholeFacts DEF Behind
<1>3. ASSUME NEW k \in 1..Len(R) PROVE R[k].term <= e.term /\ R[k].term \in Nat
  <2>1. CASE k \in 1..Len(L)
    BY <1>1, <1>2, <2>1 DEF LogEntry
  <2>2. CASE k = Len(L) + 1
    BY <1>1, <2>2
  <2> QED
    BY <1>1, <2>1, <2>2
<1>4. Behind(Whole(R), e.term)
  <2>1. Whole(R).term = 0
    BY DEF Whole
  <2> QED
    BY <1>1, <1>3, <2>1, WholeFacts DEF Behind
<1>5. ASSUME NEW i \in Nat, NEW j \in Nat, Knows(Whole(R), i), Holds(Whole(R), j), i <= j
      PROVE  TermAt(Whole(R), i) <= EntryAt(Whole(R), j).term
  <2>1. /\ i \in 1..Len(R) /\ j \in 1..Len(R)
        /\ TermAt(Whole(R), i) = R[i].term /\ EntryAt(Whole(R), j) = R[j]
    BY <1>1, <1>5, WholeFacts
  <2>2. CASE j = Len(R)
    BY <1>1, <1>3, <2>1, <2>2
  <2>3. CASE j # Len(R)
    <3>1. i \in 1..Len(L) /\ j \in 1..Len(L)
      BY <1>1, <1>5, <2>1, <2>3
    <3>2. L[i].term <= L[j].term
      BY <1>5, <3>1, WholeFacts DEF Ordered
    <3> QED
      BY <1>1, <2>1, <3>1, <3>2
  <2> QED
    BY <2>2, <2>3
<1> QED
  BY <1>4, <1>5, <1>R DEF Ordered

LEMMA SubmitOrder ==
    ASSUME OrderInv, MatchInv', [CalmNext]_vars,
           NEW l \in Server, NEW command \in Command, SubmitCommand(l, command),
           \A s \in Server : Keeps(node[s], node'[s])
    PROVE  OrderInv'
<1>0. LogTyped /\ LogTyped' /\ Shape
  BY OrderTypes, MatchTypesNext DEF LogTyped
<1>1. /\ RolesMove /\ Appends' = Appends /\ elections' = elections
      /\ node[l].state = Leader
      /\ \A s \in Server : /\ node'[s].state = node[s].state
                           /\ node'[s].currentTerm = node[s].currentTerm
      /\ \A s \in Server \ {l} : node'[s].log = node[s].log
      /\ \E e \in LogEntry : /\ e.term = node[l].currentTerm
                             /\ e.index = Len(node[l].log) + 1
                             /\ node'[l].log = Append(node[l].log, e)
  BY <1>0, SubmitMove
<1>2. \A s \in Server : Leads(s) /\ Extends(node[s].log, node'[s].log)
  BY <1>0, SubmitLeads
<1>e. PICK e \in LogEntry : /\ e.term = node[l].currentTerm
                            /\ node'[l].log = Append(node[l].log, e)
  BY <1>1
<1>L. PICK L : L = node[l].log
  OBVIOUS
<1>r. PICK r : r = Whole(node'[l].log)
  OBVIOUS
<1>3. L \in Seq(LogEntry) /\ Whole(L) \in Pieces
  BY <1>0, <1>L DEF LogTyped, Typed, Pieces
<1>4. Ordered(Whole(L)) /\ Behind(Whole(L), e.term)
  BY <1>3, <1>e, <1>L DEF OrderInv, LogsBehind
<1>5. Ordered(r) /\ Behind(r, e.term)
  BY <1>3, <1>4, <1>e, <1>L, <1>r, AppendedOrder
<1>6. Pieces' \subseteq Pieces \cup {r}
  BY <1>1, <1>r DEF Pieces
<1>7. \A f \in Pieces' : Ordered(f)
  BY <1>5, <1>6 DEF OrderInv
<1>8. LogsBehind'
  <2> SUFFICES ASSUME NEW s \in Server PROVE Behind(Whole(node'[s].log), node'[s].currentTerm)
    BY DEF LogsBehind
  <2>1. CASE s = l
    BY <1>1, <1>5, <1>e, <1>r, <2>1
  <2>2. CASE s # l
    BY <1>1, <2>2 DEF OrderInv, LogsBehind
  <2> QED
    BY <2>1, <2>2
<1>9. SentBehind'
  BY <1>1 DEF OrderInv, SentBehind
<1>10. VoteFresh'
  <2>1. \A s \in Server : node[s].state = Candidate => node'[s].log = node[s].log
    BY <1>1 DEF Candidate, Leader
  <2> QED
    BY <1>1, <2>1, FreshKept
<1>11. MatchBound'
  BY <1>2, BoundKept DEF Extends
<1> QED
  BY <1>7, <1>8, <1>9, <1>10, <1>11 DEF OrderInv

\* A request tells nothing newer than its sender.
LEMMA RequestBehind ==
    ASSUME NEW s \in Server, NEW n \in NodeState, NEW p \in Peers(s), NEW t \in Nat,
           Behind(Whole(n.log), t)
    PROVE  Behind(Sent(AppendRequest(s, n, p)), t)
<1> DEFINE m == AppendRequest(s, n, p)
<1>1. n.log \in Seq(LogEntry) /\ Len(n.log) \in Nat
  BY DEF NodeState
<1>2. \A k \in 1..Len(n.log) : n.log[k].term <= t
  BY <1>1, WholeFacts DEF Behind
<1>3. m.prevLogTerm <= t
  BY <1>2 DEF AppendRequest
<1>4. Sent(m).term = m.prevLogTerm
  BY DEF Sent
<1>5. \A k \in Nat : Holds(Sent(m), k) => EntryAt(Sent(m), k) = EntryAt(Whole(n.log), k)
                                             /\ Holds(Whole(n.log), k)
  BY RequestPart
<1> HIDE DEF m
<1>6. Behind(Sent(m), t)
  BY <1>3, <1>4, <1>5 DEF Behind
<1> QED
  BY <1>6 DEF m

LEMMA SendOrder ==
    ASSUME OrderInv, MatchInv', [CalmNext]_vars, NEW l \in Server, SendHeartbeats(l),
           \A s \in Server : Keeps(node[s], node'[s])
    PROVE  OrderInv'
<1>0. LogTyped /\ LogTyped' /\ Shape /\ Typed
  BY OrderTypes, MatchTypesNext DEF LogTyped
<1>1. /\ RolesMove /\ node' = node /\ elections' = elections
      /\ \A m \in Appends' : m \in Appends \/
            \E p \in Peers(l) : m = AppendRequest(l, node[l], p)
  BY <1>0, SendMove
<1>h. PICK h : h = Whole(node[l].log)
  OBVIOUS
<1>2. /\ h \in Pieces /\ Ordered(h) /\ Behind(h, node[l].currentTerm)
      /\ node[l] \in NodeState /\ node[l].currentTerm \in Nat
  BY <1>0, <1>h DEF Pieces, OrderInv, LogsBehind, Typed
<1>3. ASSUME NEW p \in Peers(l)
      PROVE  /\ Ordered(Sent(AppendRequest(l, node[l], p)))
             /\ Behind(Sent(AppendRequest(l, node[l], p)), node[l].currentTerm)
             /\ AppendRequest(l, node[l], p).term = node[l].currentTerm
  <2>1. AppendRequest(l, node[l], p).term = node[l].currentTerm
    BY DEF AppendRequest
  <2>2. Ordered(Sent(AppendRequest(l, node[l], p)))
    BY <1>2, <1>h, RequestPart, PartOrdered
  <2> QED
    BY <1>2, <1>h, <2>1, <2>2, RequestBehind
<1>4. \A f \in Pieces' : Ordered(f)
  <2> SUFFICES ASSUME NEW f \in Pieces' PROVE Ordered(f)
    OBVIOUS
  <2>1. CASE f \in {Whole(node[s].log) : s \in Server}
    BY <2>1 DEF OrderInv, Pieces
  <2>2. ASSUME NEW m \in Appends', f = Sent(m) PROVE Ordered(f)
    <3>1. CASE m \in Appends
      BY <2>2, <3>1 DEF OrderInv, Pieces
    <3>2. CASE m \notin Appends
      BY <1>1, <1>3, <2>2, <3>2
    <3> QED
      BY <3>1, <3>2
  <2> QED
    BY <1>1, <2>1, <2>2 DEF Pieces
<1>5. LogsBehind'
  BY <1>1 DEF OrderInv, LogsBehind
<1>6. SentBehind'
  <2> SUFFICES ASSUME NEW m \in Appends' PROVE Behind(Sent(m), m.term)
    BY DEF SentBehind
  <2>1. CASE m \in Appends
    BY <2>1 DEF OrderInv, SentBehind
  <2>2. CASE m \notin Appends
    BY <1>1, <1>3, <2>2
  <2> QED
    BY <2>1, <2>2
<1>7. VoteFresh'
  BY <1>1, FreshKept
<1>8. MatchBound'
  BY <1>1 DEF OrderInv, MatchBound
<1> QED
  BY <1>4, <1>5, <1>6, <1>7, <1>8 DEF OrderInv

LEMMA AppendOrder ==
    ASSUME OrderInv, MatchInv', [CalmNext]_vars, NEW m \in DOMAIN rpcs, AppendEntriesRPC(m),
           \A s \in Server : Keeps(node[s], node'[s])
    PROVE  OrderInv'
<1>0. LogTyped /\ LogTyped' /\ Shape /\ Typed /\ MatchInv /\ LogInv
  BY OrderTypes, MatchTypesNext DEF LogTyped, OrderInv, MatchInv
<1>1. /\ RolesMove /\ Appends' \subseteq Appends /\ elections' = elections
      /\ \A s \in Server : RoleKept(node[s], node'[s])
      /\ m \in Appends /\ m.from # m.to
      /\ \A s \in Server \ {m.to} : node'[s].log = node[s].log
      /\ \/ node'[m.to].log = node[m.to].log
         \/ /\ node'[m.to].currentTerm = m.term
            /\ HasPrevious(node[m.to].log, m)
            /\ node'[m.to].log = MergeLog(node[m.to].log, m.prevLogIndex, m.entries)
  BY <1>0, AppendMove
<1>2. /\ m \in AppendEntriesArgs /\ m.from \in Server /\ m.to \in Server /\ m.term \in Nat
      /\ m.entries \in Seq(LogEntry)
  BY <1>0, <1>1 DEF Typed, AppendEntriesArgs
<1>3. \A s \in Server : /\ node[s].log \in Seq(LogEntry) /\ Len(node[s].log) \in Nat
                         /\ node[s].currentTerm \in Nat /\ node'[s].currentTerm \in Nat
                         /\ node'[s].currentTerm >= node[s].currentTerm
                         /\ Whole(node[s].log) \in Pieces /\ IsPiece(Whole(node[s].log))
                         /\ Whole(node[s].log).term = 0
                         /\ Behind(Whole(node[s].log), node[s].currentTerm)
  BY <1>0 DEF LogTyped, Typed, Keeps, Pieces, Whole, OrderInv, LogsBehind
<1>4. ASSUME node'[m.to].log # node[m.to].log
      PROVE  /\ Ordered(Whole(node'[m.to].log))
             /\ Behind(Whole(node'[m.to].log), node'[m.to].currentTerm)
  <2>L. PICK L : L = node[m.to].log
    OBVIOUS
  <2>R. PICK R : R = node'[m.to].log
    OBVIOUS
  <2>1. L \in Seq(LogEntry) /\ HasPrevious(L, m) /\ R = MergeLog(L, m.prevLogIndex, m.entries)
    BY <1>1, <1>2, <1>3, <1>4, <2>L, <2>R
  <2>2. PICK c \in Nat : MergedAt(Whole(L), Sent(m), Whole(R), c)
    BY <1>2, <2>1, MergeParts
  <2>3. Sent(m) \in Pieces /\ Behind(Sent(m), m.term)
    BY <1>1 DEF Pieces, OrderInv, SentBehind
  <2>4. Ordered(Whole(R))
    BY <1>2, <1>3, <2>2, <2>3, <2>L, MergedOrdered DEF OrderInv
  <2>5. node'[m.to].currentTerm = m.term
    BY <1>1, <1>4
  <2>6. Behind(Whole(L), m.term)
    BY <1>2, <1>3, <2>5, <2>L, BehindLater
  <2>7. Behind(Whole(R), m.term)
    <3>1. Whole(R).term = Whole(L).term
      BY DEF Whole
    <3> QED
      BY <2>2, <2>3, <2>6, <3>1, MergedBehind
  <2> QED
    BY <2>4, <2>5, <2>7, <2>R
<1>5. \A f \in Pieces' : Ordered(f)
  <2> SUFFICES ASSUME NEW f \in Pieces' PROVE Ordered(f)
    OBVIOUS
  <2>1. ASSUME NEW s \in Server, f = Whole(node'[s].log) PROVE Ordered(f)
    <3>1. CASE node'[s].log = node[s].log
      BY <1>3, <2>1, <3>1 DEF OrderInv
    <3>2. CASE node'[s].log # node[s].log
      <4>1. s = m.to
        BY <1>1, <3>2
      <4> QED
        BY <1>4, <2>1, <3>2, <4>1
    <3> QED
      BY <3>1, <3>2
  <2>2. ASSUME NEW x \in Appends', f = Sent(x) PROVE Ordered(f)
    BY <1>1, <2>2 DEF OrderInv, Pieces
  <2> QED
    BY <2>1, <2>2 DEF Pieces
<1>6. LogsBehind'
  <2> SUFFICES ASSUME NEW s \in Server PROVE Behind(Whole(node'[s].log), node'[s].currentTerm)
    BY DEF LogsBehind
  <2>1. CASE node'[s].log = node[s].log
    BY <1>3, <2>1, BehindLater
  <2>2. CASE node'[s].log # node[s].log
    <3>1. s = m.to
      BY <1>1, <2>2
    <3> QED
      BY <1>4, <2>2, <3>1
  <2> QED
    BY <2>1, <2>2
<1>7. SentBehind'
  BY <1>1 DEF OrderInv, SentBehind
<1>8. VoteFresh'
  <2>1. ASSUME NEW s \in Server, node[s].state = Candidate,
               node'[s].currentTerm = node[s].currentTerm,
               \A e \in elections : e.term # node[s].currentTerm
        PROVE  node'[s].log = node[s].log
    <3> SUFFICES ASSUME node'[s].log # node[s].log PROVE FALSE
      OBVIOUS
    <3>1. s = m.to
      BY <1>1, <2>1
    <3>2. node'[s].currentTerm = m.term
      BY <1>1, <2>1, <3>1
    <3>3. m.term # node[s].currentTerm
      BY <1>0, <1>1, <2>1 DEF LogTyped, Roles, RequestsElected
    <3> QED
      BY <2>1, <3>1, <3>2, <3>3
  <2> QED
    BY <1>1, <2>1, FreshKept
<1>9. MatchBound'
  <2> SUFFICES ASSUME NEW l \in Server, NEW p \in Server, node'[l].state = Leader
               PROVE  node'[l].matchIndex[p] <= Len(node'[l].log)
    BY DEF MatchBound
  <2>1. /\ node[l].state = Leader /\ node'[l].currentTerm = node[l].currentTerm
        /\ node'[l].log = node[l].log
    <3>1. node[l].state = Leader /\ node'[l].currentTerm = node[l].currentTerm
      BY <1>1 DEF RoleKept, Leader, Follower
    <3>2. node'[l].log = node[l].log
      BY <1>0, <1>1, ReceiverFollows
    <3> QED
      BY <3>1, <3>2
  <2>2. CASE node'[l].matchIndex[p] = node[l].matchIndex[p]
    BY <2>1, <2>2 DEF OrderInv, MatchBound
  <2>3. CASE node'[l].matchIndex[p] # node[l].matchIndex[p]
    <3>1. l = m.from /\ p = m.to
      BY <1>0, <2>3, AppendParts DEF SameIndexes
    <3>2. /\ node'[p].currentTerm = m.term /\ m.entries # <<>>
          /\ node'[p].currentTerm = node[l].currentTerm
          /\ node'[l].matchIndex[p] = LastNewIndex(m)
      BY <1>0, <2>3, <3>1, AppendParts
    <3>3. TakenFrom(m, node[l].log)
      BY <1>0, <1>1, <2>1, <3>2 DEF MatchInv, SentHeld
    <3>4. node'[l].matchIndex[p] = m.prevLogIndex + Len(m.entries)
      BY <1>0, <1>2, <3>2, <3>3, ReachedIndex
    <3> QED
      BY <2>1, <3>3, <3>4 DEF TakenFrom
  <2> QED
    BY <2>2, <2>3
<1> QED
  BY <1>5, <1>6, <1>7, <1>8, <1>9 DEF OrderInv

LEMMA InitOrderInv == Init => OrderInv
<1> SUFFICES ASSUME Init PROVE OrderInv
  OBVIOUS
<1>1. /\ DOMAIN rpcs = {}
      /\ \A s \in Server : /\ node[s].state = Follower /\ node[s].log = <<>>
                           /\ node[s].currentTerm = 0
  BY DEF Init, InitNode, EmptyBag, SetToBag
<1>2. \A f \in Pieces : f = Whole(<<>>)
  BY <1>1 DEF Pieces, Appends
<1>3. Whole(<<>>).term = 0 /\ \A k \in Nat : ~Holds(Whole(<<>>), k)
  BY DEF Holds, Whole
<1>4. LogsBehind
  BY <1>1, <1>3 DEF LogsBehind, Behind
<1> QED
  BY <1>1, <1>2, <1>3, <1>4, InitMatchInv
  DEF OrderInv, Ordered, SentBehind, Appends, VoteFresh, Asks, MatchBound, Leader, Follower

LEMMA NextOrderInv == OrderInv /\ [CalmNext]_vars => OrderInv'
<1> SUFFICES ASSUME OrderInv, [CalmNext]_vars PROVE OrderInv'
  OBVIOUS
<1>0. /\ Shape /\ MatchInv' /\ \A s \in Server : Keeps(node[s], node'[s])
  BY OrderTypes, NextMatchInv, CalmShape DEF OrderInv, LogTyped
<1>1. ASSUME NEW s \in Server, ElectionTimeout(s) PROVE OrderInv'
  BY <1>0, <1>1, TimeoutMove, TimeoutLeads, SameLogsOrder
<1>2. ASSUME NEW s \in Server, NEW c \in Command, SubmitCommand(s, c) PROVE OrderInv'
  BY <1>0, <1>2, SubmitOrder
<1>3. ASSUME NEW s \in Server, SendHeartbeats(s) PROVE OrderInv'
  BY <1>0, <1>3, SendOrder
<1>4. ASSUME NEW m \in DOMAIN rpcs, RequestVoteRPC(m) PROVE OrderInv'
  BY <1>0, <1>4, VoteMove, VoteLeads, SameLogsOrder
<1>5. ASSUME NEW m \in DOMAIN rpcs, AppendEntriesRPC(m) PROVE OrderInv'
  BY <1>0, <1>5, AppendOrder
<1>6. CASE \/ \E s \in Server : Began(s)
           \/ \E s \in Server : SendRequestVoteRPCs(s)
           \/ \E m \in DOMAIN rpcs : RPCUnreachable(m)
           \/ UNCHANGED vars
  <2>1. node' = node
    BY <1>6 DEF Began, Construct, Start, SendRequestVoteRPCs, RPCUnreachable, vars
  <2> QED
    BY <1>0, <1>6, <2>1, OtherMove, OtherLeads, SameLogsOrder
<1> QED
  BY <1>1, <1>2, <1>3, <1>4, <1>5, <1>6 DEF CalmNext

=============================================================================
