-------------------------- MODULE RaftCommitProofs --------------------------
(***************************************************************************)
(* What Raft.tla has committed stays committed, for every finite cluster   *)
(* and every bound, and so the cluster implements ReplicatedLog, as long   *)
(* as no Start has dropped a vote.                                         *)
(*                                                                         *)
(* A log P is pinned at a set A of nodes when these hold it and nothing    *)
(* that is up to date against it, in the sense of IsLogUpToDate, lacks it: *)
(* no other log, no request on its way, no candidate one of A voted for,   *)
(* no leader.  A step keeps P pinned unless a majority without A has left  *)
(* P's term (PinnedStep); if A is a majority there is no such majority,    *)
(* and P is Safe.  A leader pins each entry of its term at the nodes it    *)
(* counts for it (AckInv): at itself when it appends it, at a peer when    *)
(* the peer answers.  So the place UpdateCommitIndex commits is safe.      *)
(***************************************************************************)
EXTENDS RaftProofs, RaftImplements

-----------------------------------------------------------------------------
(* Prefixes no later step can remove *)

LastPlace(f) == f.base + Len(f.entries)

EndTerm(f) == IF f.entries = <<>> THEN f.term ELSE f.entries[Len(f.entries)].term

\* What IsLogUpToDate says of a piece against the log P.
Reaches(f, P) ==
    \/ EndTerm(f) > LastTerm(P)
    \/ EndTerm(f) = LastTerm(P) /\ LastPlace(f) >= Len(P)

\* A piece that is up to date against P tells the last place of P or begins after it.
Covers(f, P) ==
    Reaches(f, P) =>
        /\ LastPlace(f) >= Len(P)
        /\ IF f.base > Len(P) THEN f.term >= LastTerm(P) ELSE TermAt(f, Len(P)) = LastTerm(P)

\* A log that holds P is not cut within P for the sake of the piece.
NoCut(f, P) == \A j \in 1..Len(P) : Holds(f, j) => EntryAt(f, j) = P[j]

\* The last place and the last term of a log, read from the log as a piece.
LEMMA WholeEnd ==
    ASSUME NEW L \in Seq(LogEntry)
    PROVE  /\ LastPlace(Whole(L)) = Len(L) /\ EndTerm(Whole(L)) = LastTerm(L)
           /\ Whole(L).base = 0 /\ Whole(L).term = 0 /\ Whole(L).entries = L
           /\ IsPiece(Whole(L)) /\ Len(L) \in Nat /\ LastTerm(L) \in Nat
           /\ Len(L) > 0 => LastTerm(L) = L[Len(L)].term /\ L[Len(L)] \in LogEntry
<1>1. Len(L) \in Nat /\ LastTerm(L) \in Nat
  BY LastTermType
<1>2. Whole(L).base = 0 /\ Whole(L).term = 0 /\ Whole(L).entries = L
  BY DEF Whole
<1>3. LastPlace(Whole(L)) = Len(L) /\ EndTerm(Whole(L)) = LastTerm(L) /\ IsPiece(Whole(L))
  BY <1>1, <1>2 DEF LastPlace, EndTerm, LastTerm, IsPiece
<1>4. Len(L) > 0 => LastTerm(L) = L[Len(L)].term /\ L[Len(L)] \in LogEntry
  BY <1>1 DEF LastTerm
<1> QED
  BY <1>1, <1>2, <1>3, <1>4

\* A log that extends an extension of a log extends it.
LEMMA ExtendsTrans ==
    ASSUME NEW a \in Seq(LogEntry), NEW b \in Seq(LogEntry), NEW c \in Seq(LogEntry),
           Extends(a, b), Extends(b, c)
    PROVE  Extends(a, c)
<1>1. Len(a) \in Nat /\ Len(b) \in Nat /\ Len(c) \in Nat
  OBVIOUS
<1> QED
  BY <1>1 DEF Extends

\* A log that holds P is up to date against it, for its terms are in order.
LEMMA HoldsReaches ==
    ASSUME NEW P \in Seq(LogEntry), Len(P) > 0, NEW L \in Seq(LogEntry),
           Extends(P, L), Ordered(Whole(L))
    PROVE  Reaches(Whole(L), P) /\ LastTerm(L) >= LastTerm(P) /\ Len(L) >= Len(P)
<1>1. /\ Len(P) \in Nat /\ Len(L) \in Nat /\ Len(L) >= Len(P) /\ L[Len(P)] = P[Len(P)]
      /\ LastTerm(P) \in Nat /\ LastTerm(L) \in Nat
      /\ LastTerm(P) = P[Len(P)].term /\ LastTerm(L) = L[Len(L)].term
      /\ LastPlace(Whole(L)) = Len(L) /\ EndTerm(Whole(L)) = LastTerm(L)
  BY WholeEnd DEF Extends
<1>2. L[Len(P)].term <= L[Len(L)].term
  <2>1. Len(P) \in 1..Len(L) /\ Len(L) \in 1..Len(L)
    BY <1>1
  <2> QED
    BY <1>1, <2>1, WholeFacts DEF Ordered
<1> QED
  BY <1>1, <1>2 DEF Reaches

\* A log up to date against one that holds P is up to date against P.
LEMMA ReachesTrans ==
    ASSUME NEW P \in Seq(LogEntry), Len(P) > 0, NEW L \in Seq(LogEntry), NEW M \in Seq(LogEntry),
           Extends(P, L), Ordered(Whole(L)),
           \/ LastTerm(M) > LastTerm(L)
           \/ LastTerm(M) = LastTerm(L) /\ Len(M) >= Len(L)
    PROVE  Reaches(Whole(M), P)
<1>1. LastTerm(L) >= LastTerm(P) /\ Len(L) >= Len(P)
  BY HoldsReaches
<1>2. /\ Len(P) \in Nat /\ Len(L) \in Nat /\ Len(M) \in Nat
      /\ LastTerm(P) \in Nat /\ LastTerm(L) \in Nat /\ LastTerm(M) \in Nat
      /\ LastPlace(Whole(M)) = Len(M) /\ EndTerm(Whole(M)) = LastTerm(M)
  BY WholeEnd
<1> QED
  BY <1>1, <1>2 DEF Reaches

\* A log with the last term of P at the last place of P holds P, if the two agree.
LEMMA SameEndExtends ==
    ASSUME NEW P \in Seq(LogEntry), Len(P) > 0, NEW L \in Seq(LogEntry),
           Agree(Whole(L), Whole(P)), Len(P) <= Len(L), L[Len(P)].term = LastTerm(P)
    PROVE  Extends(P, L)
<1>1. Len(P) \in Nat /\ LastTerm(P) = P[Len(P)].term
  BY WholeEnd
<1>2. SameTo(L, P, Len(P))
  BY <1>1, AgreeSame
<1> QED
  BY <1>2 DEF SameTo, Extends

-----------------------------------------------------------------------------
(* Merging a request into a log *)

\* A merge cuts no prefix the request does not contradict.
LEMMA MergeKeeps ==
    ASSUME NEW P \in Seq(LogEntry), NEW L \in Seq(LogEntry), NEW R \in Seq(LogEntry),
           NEW q, NEW c \in Nat, MergedAt(Whole(L), q, Whole(R), c),
           Extends(P, L), NoCut(q, P)
    PROVE  Extends(P, R)
<1>1. Len(P) \in Nat /\ Len(L) \in Nat /\ Len(R) \in Nat /\ Len(P) <= Len(L)
      /\ \A j \in 1..Len(P) : L[j] = P[j]
  BY DEF Extends
<1>2. c <= Len(L) /\ c <= Len(R)
  BY DEF MergedAt, Whole
<1>3. Len(P) <= c
  <2> SUFFICES ASSUME c < Len(P) PROVE FALSE
    BY <1>1
  <2>1. c < Len(L) /\ c + 1 \in 1..Len(P) /\ c + 1 \in 1..Len(L) /\ c + 1 \in Nat
    BY <1>1
  <2>2. Holds(q, c + 1) /\ EntryAt(Whole(L), c + 1).term # EntryAt(q, c + 1).term
    BY <2>1 DEF MergedAt, Whole
  <2>3. EntryAt(q, c + 1) = P[c + 1]
    BY <2>1, <2>2 DEF NoCut
  <2>4. EntryAt(Whole(L), c + 1) = L[c + 1] /\ L[c + 1] = P[c + 1]
    BY <1>1, <2>1, WholeFacts
  <2> QED
    BY <2>2, <2>3, <2>4
<1>4. ASSUME NEW j \in 1..Len(P) PROVE R[j] = P[j]
  <2>1. j \in Nat /\ j \in 1..Len(R) /\ j \in 1..Len(L) /\ j <= c
    BY <1>1, <1>2, <1>3
  <2>2. EntryAt(Whole(R), j) = R[j] /\ EntryAt(Whole(L), j) = L[j] /\ Holds(Whole(R), j)
    BY <2>1, WholeFacts
  <2>3. EntryAt(Whole(R), j) = EntryAt(Whole(L), j)
    BY <2>1, <2>2 DEF MergedAt
  <2> QED
    BY <1>1, <2>2, <2>3
<1> QED
  BY <1>1, <1>2, <1>3, <1>4 DEF Extends

\* After a merge of a request that is up to date against P, the log holds P.
LEMMA MergeTakes ==
    ASSUME NEW P \in Seq(LogEntry), Len(P) > 0,
           NEW L \in Seq(LogEntry), NEW R \in Seq(LogEntry),
           NEW q, NEW c \in Nat, MergedAt(Whole(L), q, Whole(R), c),
           Ordered(Whole(L)), Agree(Whole(R), Whole(P)),
           Reaches(Whole(L), P) => Extends(P, L), Covers(q, P), Reaches(q, P)
    PROVE  Extends(P, R)
<1>1. /\ Len(P) \in Nat /\ Len(L) \in Nat /\ Len(R) \in Nat
      /\ LastTerm(P) \in Nat /\ LastTerm(L) \in Nat
      /\ Whole(L).entries = L /\ Whole(R).entries = R
      /\ EndTerm(Whole(L)) = LastTerm(L) /\ LastPlace(Whole(L)) = Len(L)
  BY WholeEnd
<1>2. /\ IsPiece(q) /\ q.base \in Nat /\ Len(q.entries) \in Nat
      /\ q.base <= c /\ c <= Len(L) /\ c <= Len(R)
      /\ q.base + Len(q.entries) <= Len(R)
  BY <1>1 DEF MergedAt, IsPiece
<1>3. /\ q.base + Len(q.entries) >= Len(P)
      /\ IF q.base > Len(P) THEN q.term >= LastTerm(P) ELSE TermAt(q, Len(P)) = LastTerm(P)
  BY DEF Covers, LastPlace
<1>k. PICK k : k = Len(P)
  OBVIOUS
<1>4. k \in Nat /\ k \in 1..Len(R) /\ k > 0
  BY <1>1, <1>2, <1>3, <1>k
<1>5. Holds(Whole(R), k) /\ EntryAt(Whole(R), k) = R[k]
  BY <1>4, WholeFacts
<1>6. /\ k <= c => R[k] = EntryAt(Whole(L), k) /\ Holds(Whole(L), k)
      /\ k > c => R[k] = EntryAt(q, k) /\ Holds(q, k)
  BY <1>2, <1>4, <1>5 DEF MergedAt
<1>7. CASE q.base > k
  <2>1. Holds(Whole(L), q.base) /\ EntryAt(Whole(L), q.base).term = q.term /\ q.term >= LastTerm(P)
    BY <1>2, <1>3, <1>4, <1>7, <1>k DEF MergedAt
  <2>2. q.base \in 1..Len(L) /\ Len(L) \in 1..Len(L)
    BY <1>1, <1>2, <1>4, <1>7
  <2>b. PICK b \in Nat : b = q.base
    BY <1>2
  <2>3. L[b].term <= L[Len(L)].term /\ L[b].term = q.term
    <3>1. /\ Holds(Whole(L), Len(L)) /\ EntryAt(Whole(L), Len(L)) = L[Len(L)]
          /\ Knows(Whole(L), b) /\ TermAt(Whole(L), b) = L[b].term
          /\ EntryAt(Whole(L), b) = L[b]
      BY <1>1, <2>2, <2>b, WholeFacts
    <3>2. TermAt(Whole(L), b) <= EntryAt(Whole(L), Len(L)).term
      BY <1>1, <2>2, <2>b, <3>1 DEF Ordered
    <3> QED
      BY <2>1, <2>b, <3>1, <3>2
  <2>4. LastTerm(L) = L[Len(L)].term /\ L[b].term \in Nat
    <3>1. Len(L) > 0 /\ b \in 1..Len(L)
      BY <1>1, <2>2, <2>b
    <3>2. L[b] \in LogEntry
      BY <3>1
    <3> QED
      BY <3>1, <3>2, WholeEnd DEF LogEntry
  <2>5. LastTerm(L) >= LastTerm(P) /\ Len(L) >= k
    <3>1. Len(L) >= b /\ b > k
      BY <1>1, <1>7, <2>2, <2>b
    <3>2. q.term = L[b].term /\ L[b].term >= LastTerm(P) /\ L[b].term <= LastTerm(L)
      BY <2>1, <2>3, <2>4
    <3> QED
      BY <1>1, <1>4, <2>4, <3>1, <3>2
  <2>6. Extends(P, L)
    BY <1>1, <1>k, <2>5 DEF Reaches
  <2>7. R[k] = L[k] /\ L[k] = P[k]
    <3>1. k <= c /\ k \in 1..Len(L) /\ k \in 1..Len(P)
      BY <1>1, <1>2, <1>4, <1>7, <1>k
    <3> QED
      BY <1>4, <1>6, <2>6, <3>1, WholeFacts DEF Extends
  <2>8. R[k].term = LastTerm(P)
    BY <1>1, <1>4, <1>k, <2>7, WholeEnd
  <2> QED
    BY <1>1, <1>4, <1>k, <2>8, SameEndExtends
<1>8. CASE q.base = k
  <2>1. q.term = LastTerm(P)
    BY <1>1, <1>3, <1>8, <1>k DEF TermAt
  <2>2. Holds(Whole(L), k) /\ EntryAt(Whole(L), k).term = q.term
    BY <1>4, <1>8 DEF MergedAt
  <2>3. R[k].term = LastTerm(P)
    BY <1>2, <1>6, <1>8, <2>1, <2>2
  <2> QED
    BY <1>1, <1>4, <1>k, <2>3, SameEndExtends
<1>9. CASE q.base < k
  <2>1. Holds(q, k)
    BY <1>1, <1>2, <1>3, <1>4, <1>9, <1>k DEF Holds
  <2>2. EntryAt(q, k).term = LastTerm(P)
    BY <1>1, <1>2, <1>3, <1>9, <1>k DEF TermAt
  <2>3. k <= c => EntryAt(Whole(L), k).term = EntryAt(q, k).term
    BY <1>4, <2>1 DEF MergedAt
  <2>4. R[k].term = LastTerm(P)
    BY <1>2, <1>4, <1>6, <2>2, <2>3
  <2> QED
    BY <1>1, <1>4, <1>k, <2>4, SameEndExtends
<1> QED
  BY <1>2, <1>4, <1>7, <1>8, <1>9

\* After any merge, the log holds P if it is up to date against P.
LEMMA MergeFollows ==
    ASSUME NEW P \in Seq(LogEntry), Len(P) > 0,
           NEW L \in Seq(LogEntry), NEW R \in Seq(LogEntry),
           NEW q, NEW c \in Nat, MergedAt(Whole(L), q, Whole(R), c),
           Ordered(Whole(L)), Agree(Whole(R), Whole(P)),
           Reaches(Whole(L), P) => Extends(P, L), Covers(q, P), Reaches(Whole(R), P)
    PROVE  Extends(P, R)
<1>1. /\ Len(P) \in Nat /\ Len(L) \in Nat /\ Len(R) \in Nat
      /\ Whole(L).entries = L /\ Whole(R).entries = R
      /\ EndTerm(Whole(L)) = LastTerm(L) /\ LastPlace(Whole(L)) = Len(L)
      /\ EndTerm(Whole(R)) = LastTerm(R) /\ LastPlace(Whole(R)) = Len(R)
      /\ LastTerm(P) \in Nat /\ LastTerm(R) \in Nat
  BY WholeEnd
<1>2. /\ IsPiece(q) /\ q.base \in Nat /\ Len(q.entries) \in Nat /\ q.entries \in Seq(LogEntry)
      /\ q.base <= c /\ c <= Len(L) /\ c <= Len(R)
      /\ q.base + Len(q.entries) <= Len(R)
  BY <1>1 DEF MergedAt, IsPiece
<1>n. PICK n : n = Len(R)
  OBVIOUS
<1>3. CASE n > c
  <2>1. n \in Nat /\ n \in 1..Len(R) /\ n > 0
    BY <1>1, <1>2, <1>3, <1>n
  <2>2. Holds(Whole(R), n) /\ EntryAt(Whole(R), n) = R[n]
    BY <2>1, WholeFacts
  <2>3. Holds(q, n) /\ R[n] = EntryAt(q, n)
    BY <1>3, <1>2, <2>1, <2>2 DEF MergedAt
  <2>4. n = q.base + Len(q.entries) /\ n - q.base = Len(q.entries) /\ q.entries # <<>>
    <3>1. n \in (q.base + 1)..(q.base + Len(q.entries))
      BY <2>3 DEF Holds
    <3>2. n = q.base + Len(q.entries) /\ Len(q.entries) > 0
      BY <1>2, <1>n, <2>1, <3>1
    <3>3. q.entries # <<>>
      BY <3>2
    <3> QED
      BY <1>2, <2>1, <3>2, <3>3
  <2>5. EndTerm(q) = R[n].term /\ LastPlace(q) = n
    BY <2>3, <2>4 DEF EndTerm, LastPlace, EntryAt
  <2>6. LastTerm(R) = R[n].term
    BY <1>1, <1>n, <2>1, WholeEnd
  <2>7. Reaches(q, P)
    BY <1>1, <1>n, <2>5, <2>6 DEF Reaches
  <2> QED
    BY <2>7, MergeTakes
<1>4. CASE n <= c
  <2>1. n = c /\ c = Len(L)
    <3>1. n = c
      BY <1>1, <1>2, <1>4, <1>n
    <3>2. ~Holds(q, c + 1)
      BY <1>1, <1>2, <1>n, <3>1 DEF Holds
    <3> QED
      BY <1>1, <1>2, <3>1, <3>2 DEF MergedAt
  <2>2. ASSUME NEW j \in 1..n PROVE R[j] = L[j]
    <3>1. j \in Nat /\ j <= c /\ j \in 1..Len(R) /\ j \in 1..Len(L)
      BY <1>1, <1>n, <2>1
    <3> QED
      BY <3>1, WholeFacts DEF MergedAt
  <2>3. R = L
    BY <1>1, <1>n, <2>1, <2>2, SeqEqual
  <2> QED
    BY <2>3
<1> QED
  BY <1>1, <1>2, <1>3, <1>4, <1>n

-----------------------------------------------------------------------------
(* What a step may do *)

\* How one step changes roles, logs, requests and votes.
LEMMA RolesAlways ==
    ASSUME Shape, [CalmNext]_vars
    PROVE  RolesMove
<1>1. ASSUME NEW s \in Server, ElectionTimeout(s) PROVE RolesMove
  BY <1>1, TimeoutMove
<1>2. ASSUME NEW s \in Server, NEW c \in Command, SubmitCommand(s, c) PROVE RolesMove
  BY <1>2, SubmitMove
<1>3. ASSUME NEW s \in Server, SendHeartbeats(s) PROVE RolesMove
  BY <1>3, SendMove
<1>4. ASSUME NEW m \in DOMAIN rpcs, RequestVoteRPC(m) PROVE RolesMove
  BY <1>4, VoteMove
<1>5. ASSUME NEW m \in DOMAIN rpcs, AppendEntriesRPC(m) PROVE RolesMove
  BY <1>5, AppendMove
<1>6. CASE \/ \E s \in Server : Began(s)
           \/ \E s \in Server : SendRequestVoteRPCs(s)
           \/ \E m \in DOMAIN rpcs : RPCUnreachable(m)
           \/ UNCHANGED vars
  BY <1>6, OtherMove
<1> QED
  BY <1>1, <1>2, <1>3, <1>4, <1>5, <1>6 DEF CalmNext

\* A leader has appended an entry of its term.
Appended(s) ==
    \E e \in LogEntry : /\ node[s].state = Leader /\ e.term = node[s].currentTerm
                        /\ node'[s].log = Append(node[s].log, e)

\* An AppendEntries has been merged into the log.
Merged(s) ==
    \E m \in Appends : /\ node'[s].currentTerm = m.term /\ HasPrevious(node[s].log, m)
                       /\ node'[s].log = MergeLog(node[s].log, m.prevLogIndex, m.entries)

LEMMA LogMoves ==
    ASSUME Shape, [CalmNext]_vars, NEW s \in Server
    PROVE  node'[s].log = node[s].log \/ Appended(s) \/ Merged(s)
<1>1. ASSUME NEW c \in Server, ElectionTimeout(c) PROVE node'[s].log = node[s].log
  BY <1>1, TimeoutMove DEF SameLogs
<1>2. ASSUME NEW l \in Server, NEW c \in Command, SubmitCommand(l, c)
      PROVE  node'[s].log = node[s].log \/ Appended(s)
  BY <1>2, SubmitMove DEF Appended
<1>3. ASSUME NEW l \in Server, SendHeartbeats(l) PROVE node'[s].log = node[s].log
  BY <1>3, SendMove
<1>4. ASSUME NEW m \in DOMAIN rpcs, RequestVoteRPC(m) PROVE node'[s].log = node[s].log
  BY <1>4, VoteMove DEF SameLogs
<1>5. ASSUME NEW m \in DOMAIN rpcs, AppendEntriesRPC(m)
      PROVE  node'[s].log = node[s].log \/ Merged(s)
  BY <1>5, AppendMove DEF Merged
<1>6. CASE \/ \E c \in Server : Began(c)
           \/ \E c \in Server : SendRequestVoteRPCs(c)
           \/ \E m \in DOMAIN rpcs : RPCUnreachable(m)
           \/ UNCHANGED vars
  BY <1>6, OtherMove DEF SameLogs
<1> QED
  BY <1>1, <1>2, <1>3, <1>4, <1>5, <1>6 DEF CalmNext

\* What a step sends to append, it sends for a leader as that leader is.
LEMMA SentMoves ==
    ASSUME Shape, [CalmNext]_vars, NEW m, m \in Appends', m \notin Appends
    PROVE  /\ node' = node
           /\ \E l \in Server : /\ node[l].state = Leader
                                /\ \E p \in Peers(l) : m = AppendRequest(l, node[l], p)
<1>1. ASSUME NEW c \in Server, ElectionTimeout(c) PROVE FALSE
  BY <1>1, TimeoutMove
<1>2. ASSUME NEW l \in Server, NEW c \in Command, SubmitCommand(l, c) PROVE FALSE
  BY <1>2, SubmitMove
<1>3. ASSUME NEW l \in Server, SendHeartbeats(l)
      PROVE  /\ node' = node /\ node[l].state = Leader
             /\ \E p \in Peers(l) : m = AppendRequest(l, node[l], p)
  BY <1>3, SendMove DEF SendHeartbeats
<1>4. ASSUME NEW x \in DOMAIN rpcs, RequestVoteRPC(x) PROVE FALSE
  BY <1>4, VoteMove
<1>5. ASSUME NEW x \in DOMAIN rpcs, AppendEntriesRPC(x) PROVE FALSE
  BY <1>5, AppendMove
<1>6. CASE \/ \E c \in Server : Began(c)
           \/ \E c \in Server : SendRequestVoteRPCs(c)
           \/ \E x \in DOMAIN rpcs : RPCUnreachable(x)
           \/ UNCHANGED vars
  BY <1>6, OtherMove
<1> QED
  BY <1>1, <1>2, <1>3, <1>4, <1>5, <1>6 DEF CalmNext

\* A candidate of the same term has counted one more vote.
Counted(c) ==
    /\ node[c].state = Candidate
    /\ node'[c].currentTerm = node[c].currentTerm
    /\ \E m \in Asks : /\ m.from = c /\ m.to \in Server /\ m.term = node[c].currentTerm
                       /\ GrantsVote(node[m.to], m)
                       /\ node'[c].votesReceived = node[c].votesReceived \cup {m.to}

LEMMA VoteMoves ==
    ASSUME Shape, [CalmNext]_vars, NEW c \in Server
    PROVE  \/ Quiet(node[c], node'[c])
           \/ /\ node'[c].votesReceived = {c}
              /\ node'[c].log = node[c].log
           \/ /\ Counted(c)
              /\ node'[c].log = node[c].log
<1>1. ASSUME NEW s \in Server, ElectionTimeout(s)
      PROVE  \/ Quiet(node[c], node'[c])
             \/ node'[c].votesReceived = {c} /\ node'[c].log = node[c].log
  BY <1>1, TimeoutStep, TimeoutMove DEF SameLogs
<1>2. ASSUME NEW l \in Server, NEW x \in Command, SubmitCommand(l, x)
      PROVE  Quiet(node[c], node'[c])
  BY <1>2, SubmitStep
<1>3. ASSUME NEW m \in DOMAIN rpcs, RequestVoteRPC(m)
      PROVE  \/ Quiet(node[c], node'[c])
             \/ Counted(c) /\ node'[c].log = node[c].log
  <2>1. m \in Asks /\ SameLogs
    BY <1>3, VoteMove DEF Asks, RequestVoteRPC
  <2>2. CASE c # m.from
    BY <1>3, <2>2, RequestVoteStep
  <2>3. CASE c = m.from
    <3>1. Quiet(node[c], node'[c]) \/ Counted(c)
      BY <1>3, <2>1, <2>3, RequestVoteStep DEF Counted
    <3> QED
      BY <2>1, <3>1 DEF SameLogs
  <2> QED
    BY <2>2, <2>3
<1>4. ASSUME NEW m \in DOMAIN rpcs, AppendEntriesRPC(m) PROVE Quiet(node[c], node'[c])
  BY <1>4, AppendEntriesStep
<1>5. ASSUME \/ \E s \in Server : Began(s)
             \/ \E s \in Server : SendRequestVoteRPCs(s)
             \/ \E s \in Server : SendHeartbeats(s)
             \/ \E m \in DOMAIN rpcs : RPCUnreachable(m)
             \/ UNCHANGED vars
      PROVE  Quiet(node[c], node'[c])
  BY <1>5, RequestsStep
<1> QED
  BY <1>1, <1>2, <1>3, <1>4, <1>5 DEF CalmNext

\* Who wins an election has counted a majority in this very step, and nobody has
\* won the term before.
LEMMA WinMoves ==
    ASSUME Shape, CandidatesNew, RolesMove, OneLeaderPerTerm', [CalmNext]_vars,
           NEW c \in Server, Won(c)
    PROVE  /\ IsMajority(node'[c].votesReceived)
           /\ node'[c].log = node[c].log
           /\ \A e \in elections : e.term # node'[c].currentTerm
<1>1. PICK w \in elections' : w.leader = c /\ w.term = node'[c].currentTerm
  BY DEF Won
<1>2. node[c].state = Candidate /\ node'[c].state = Leader /\ node'[c].currentTerm = node[c].currentTerm
  BY DEF Won
<1>3. ASSUME NEW e \in elections, e.term = node'[c].currentTerm PROVE FALSE
  <2>1. e.leader = c
    BY <1>1, <1>3 DEF RolesMove, OneLeaderPerTerm
  <2> QED
    BY <1>2, <1>3, <2>1 DEF CandidatesNew
<1>4. elections' # elections
  BY <1>1, <1>3
<1>5. ASSUME NEW s \in Server, ElectionTimeout(s) PROVE FALSE
  BY <1>4, <1>5, TimeoutStep
<1>6. ASSUME NEW l \in Server, NEW x \in Command, SubmitCommand(l, x) PROVE FALSE
  BY <1>4, <1>6, SubmitStep
<1>7. ASSUME NEW m \in DOMAIN rpcs, RequestVoteRPC(m)
      PROVE  IsMajority(node'[c].votesReceived) /\ node'[c].log = node[c].log
  <2>1. SameLogs
    BY <1>7, VoteMove
  <2>2. /\ IsMajority(node'[m.from].votesReceived)
        /\ elections' = elections \cup
              {[term |-> node'[m.from].currentTerm, leader |-> m.from,
                votes |-> node'[m.from].votesReceived]}
    BY <1>4, <1>7, RequestVoteStep
  <2>3. c = m.from
    BY <1>1, <1>3, <2>2
  <2> QED
    BY <2>1, <2>2, <2>3 DEF SameLogs
<1>8. ASSUME NEW m \in DOMAIN rpcs, AppendEntriesRPC(m) PROVE FALSE
  BY <1>4, <1>8, AppendEntriesStep
<1>9. ASSUME \/ \E s \in Server : Began(s)
             \/ \E s \in Server : SendRequestVoteRPCs(s)
             \/ \E s \in Server : SendHeartbeats(s)
             \/ \E m \in DOMAIN rpcs : RPCUnreachable(m)
             \/ UNCHANGED vars
      PROVE  FALSE
  BY <1>4, <1>9, RequestsStep
<1> QED
  BY <1>3, <1>5, <1>6, <1>7, <1>8, <1>9 DEF CalmNext

-----------------------------------------------------------------------------
(* Pinned prefixes *)

Elected(t) == \E e \in elections : e.term = t

HeldBy(A, P) == \A v \in A : Extends(P, node[v].log)

LeadersHold(P) ==
    \A l \in Server :
        node[l].state = Leader /\ node[l].currentTerm >= LastTerm(P) => Extends(P, node[l].log)

\* A candidate one of A has voted for holds P, if it can still win.
CandidatesHold(A, P) ==
    \A c \in Server :
        /\ node[c].state = Candidate /\ node[c].currentTerm > LastTerm(P)
        /\ ~Elected(node[c].currentTerm)
        /\ node[c].votesReceived \cap A # {}
        => Extends(P, node[c].log)

PiecesFit(P) == \A f \in Pieces : Agree(f, Whole(P))

LogsFollow(P) == \A s \in Server : Reaches(Whole(node[s].log), P) => Extends(P, node[s].log)

SentFollow(P) ==
    \A m \in Appends : /\ Covers(Sent(m), P)
                       /\ m.term >= LastTerm(P) => NoCut(Sent(m), P)

\* The nodes of A hold the log P, and no log that is up to date against P lacks it:
\* none of A gives its vote, and none of P's entries, to a leader without P.
Pinned(A, P) ==
    /\ Elected(LastTerm(P))
    /\ HeldBy(A, P) /\ LeadersHold(P) /\ CandidatesHold(A, P)
    /\ PiecesFit(P) /\ LogsFollow(P) /\ SentFollow(P)

\* A log that holds P has a node in its term or a later one.
LEMMA HolderTerm ==
    ASSUME OrderInv, NEW P \in Seq(LogEntry), Len(P) > 0, NEW s \in Server,
           Extends(P, node[s].log)
    PROVE  node[s].currentTerm >= LastTerm(P)
<1>L. PICK L : L = node[s].log
  OBVIOUS
<1>1. /\ L \in Seq(LogEntry) /\ Behind(Whole(L), node[s].currentTerm)
      /\ node[s].currentTerm \in Nat
  BY <1>L, OrderTypes DEF LogTyped, Typed, OrderInv, LogsBehind
<1>2. /\ Len(P) \in 1..Len(P) /\ Len(P) \in Nat /\ Len(P) \in 1..Len(L)
      /\ L[Len(P)] = P[Len(P)] /\ LastTerm(P) = P[Len(P)].term /\ LastTerm(P) \in Nat
  BY <1>1, <1>L, WholeEnd DEF Extends
<1>3. L[Len(P)].term <= node[s].currentTerm
  BY <1>1, <1>2, WholeFacts DEF Behind
<1> QED
  BY <1>1, <1>2, <1>3

\* No step takes P from a log that holds it.
LEMMA HolderKeeps ==
    ASSUME OrderInv, OrderInv', [CalmNext]_vars,
           NEW P \in Seq(LogEntry), Len(P) > 0, SentFollow(P),
           NEW s \in Server, Extends(P, node[s].log)
    PROVE  Extends(P, node'[s].log)
<1>0. /\ Shape /\ node[s].log \in Seq(LogEntry) /\ node'[s].log \in Seq(LogEntry)
      /\ Appends \subseteq AppendEntriesArgs
      /\ node[s].currentTerm \in Nat /\ node'[s].currentTerm \in Nat
      /\ node'[s].currentTerm >= node[s].currentTerm
      /\ LastTerm(P) \in Nat
  BY OrderTypes, OrderTypesNext, CalmShape, LastTermType DEF LogTyped, Typed, Keeps
<1>1. ASSUME NEW e \in LogEntry, node'[s].log = Append(node[s].log, e)
      PROVE  Extends(P, node'[s].log)
  <2>1. Extends(node[s].log, node'[s].log)
    BY <1>0, <1>1 DEF Extends
  <2> QED
    BY <1>0, <2>1, ExtendsTrans
<1>2. ASSUME NEW m \in Appends, node'[s].currentTerm = m.term, HasPrevious(node[s].log, m),
             node'[s].log = MergeLog(node[s].log, m.prevLogIndex, m.entries)
      PROVE  Extends(P, node'[s].log)
  <2>L. PICK L : L = node[s].log
    OBVIOUS
  <2>R. PICK R : R = node'[s].log
    OBVIOUS
  <2>1. PICK c \in Nat : MergedAt(Whole(L), Sent(m), Whole(R), c)
    BY <1>0, <1>2, <2>L, <2>R, MergeParts
  <2>2. m.term >= LastTerm(P)
    BY <1>0, <1>2, HolderTerm
  <2>3. NoCut(Sent(m), P)
    BY <2>2 DEF SentFollow
  <2> QED
    BY <1>0, <2>1, <2>3, <2>L, <2>R, MergeKeeps
<1> QED
  BY <1>0, <1>1, <1>2, LogMoves DEF Appended, Merged

\* A voter that holds P votes for logs that hold it.
LEMMA VoterChecks ==
    ASSUME OrderInv, NEW P \in Seq(LogEntry), Len(P) > 0, LogsFollow(P),
           NEW c \in Server, node[c].state = Candidate, ~Elected(node[c].currentTerm),
           NEW m \in Asks, m.from = c, m.to \in Server, m.term = node[c].currentTerm,
           GrantsVote(node[m.to], m), Extends(P, node[m.to].log)
    PROVE  Extends(P, node[c].log)
<1>L. PICK L : L = node[m.to].log
  OBVIOUS
<1>M. PICK M : M = node[c].log
  OBVIOUS
<1>1. /\ L \in Seq(LogEntry) /\ M \in Seq(LogEntry) /\ Whole(L) \in Pieces
  BY <1>L, <1>M, OrderTypes DEF LogTyped, Typed, Pieces
<1>2. Ordered(Whole(L))
  BY <1>1 DEF OrderInv
<1>3. m.lastLogIndex = Len(M) /\ m.lastLogTerm = LastTerm(M)
  BY <1>M DEF OrderInv, VoteFresh, Elected
<1>4. LastTerm(M) > LastTerm(L) \/ (LastTerm(M) = LastTerm(L) /\ Len(M) >= Len(L))
  BY <1>3, <1>L DEF GrantsVote, IsLogUpToDate
<1>5. Reaches(Whole(M), P)
  BY <1>1, <1>2, <1>4, <1>L, ReachesTrans
<1> QED
  BY <1>5, <1>M DEF LogsFollow

\* A candidate with a vote of A, of a term above that of P nobody has won, holds P.
LEMMA CandidateHolds ==
    ASSUME OrderInv, OrderInv', [CalmNext]_vars, NEW A, A \subseteq Server,
           NEW P \in Seq(LogEntry), Len(P) > 0,
           HeldBy(A, P), CandidatesHold(A, P), LogsFollow(P), SentFollow(P),
           NEW c \in Server, Standing(node'[c]), node'[c].currentTerm > LastTerm(P),
           ~Elected(node'[c].currentTerm), node'[c].votesReceived \cap A # {}
    PROVE  Extends(P, node'[c].log)
<1>0. Shape /\ LeadersElected
  BY OrderTypes DEF LogTyped, Roles
<1>1. SUFFICES Extends(P, node[c].log)
  BY HolderKeeps
<1>2. CASE Quiet(node[c], node'[c])
  <2>1. /\ Standing(node[c]) /\ node'[c].currentTerm = node[c].currentTerm
        /\ node'[c].votesReceived = node[c].votesReceived
    BY <1>2 DEF Quiet
  <2>2. node[c].state = Candidate
    BY <1>0, <2>1 DEF LeadersElected, Elected, Standing
  <2> QED
    BY <2>1, <2>2 DEF CandidatesHold
<1>3. CASE node'[c].votesReceived = {c}
  BY <1>3 DEF HeldBy
<1>4. CASE Counted(c)
  <2>1. PICK m \in Asks : /\ m.from = c /\ m.to \in Server /\ m.term = node[c].currentTerm
                          /\ GrantsVote(node[m.to], m)
                          /\ node'[c].votesReceived = node[c].votesReceived \cup {m.to}
    BY <1>4 DEF Counted
  <2>2. node[c].state = Candidate /\ node'[c].currentTerm = node[c].currentTerm
    BY <1>4 DEF Counted
  <2>3. CASE m.to \in A
    BY <2>1, <2>2, <2>3, VoterChecks DEF HeldBy
  <2>4. CASE m.to \notin A
    BY <2>1, <2>2, <2>4 DEF CandidatesHold
  <2> QED
    BY <2>3, <2>4
<1> QED
  BY <1>0, <1>2, <1>3, <1>4, VoteMoves

\* A majority without a node of A has left the term t.
Passed(A, t) ==
    \E V \in SUBSET Server : /\ IsMajority(V) /\ V \cap A = {}
                             /\ \A v \in V : node[v].currentTerm > t

\* Only votes of others than A elect a leader without P.
LEMMA LeadersHoldStep ==
    ASSUME OrderInv, OrderInv', [CalmNext]_vars, NEW A, A \subseteq Server,
           NEW P \in Seq(LogEntry), Len(P) > 0, Pinned(A, P)
    PROVE  LeadersHold(P)' \/ Passed(A, LastTerm(P))'
<1>T. PICK T : T = LastTerm(P)
  OBVIOUS
<1>0. /\ Shape /\ Shape' /\ RolesMove /\ CandidatesNew /\ OneLeaderPerTerm' /\ VotesCounted'
      /\ T \in Nat
      /\ \A s \in Server : /\ node'[s].currentTerm \in Nat
                           /\ node'[s].votesReceived \subseteq Server
  <2>1. Shape /\ Shape' /\ CandidatesNew
    BY OrderTypes, OrderTypesNext DEF LogTyped, Roles
  <2>2. \A s \in Server : node'[s] \in NodeState
    BY <2>1 DEF Shape, TypeOK
  <2>3. OneLeaderPerTerm' /\ VotesCounted'
    BY DEF OrderInv, MatchInv, LogInv, CalmInv, IInv, VoteInv
  <2> QED
    BY <2>1, <2>2, <2>3, <1>T, RolesAlways, LastTermType DEF NodeState
<1>1. SUFFICES ASSUME NEW l \in Server, node'[l].state = Leader, node'[l].currentTerm >= T,
                      ~Passed(A, T)'
               PROVE  Extends(P, node'[l].log)
  BY <1>T DEF LeadersHold
<1>2. CASE RoleKept(node[l], node'[l])
  <2>1. node[l].state = Leader /\ node[l].currentTerm = node'[l].currentTerm
    BY <1>1, <1>2 DEF RoleKept, Leader, Follower
  <2>2. Extends(P, node[l].log)
    BY <1>1, <1>T, <2>1 DEF Pinned, LeadersHold
  <2> QED
    BY <2>2, HolderKeeps DEF Pinned
<1>3. CASE Won(l)
  <2>1. /\ IsMajority(node'[l].votesReceived)
        /\ ~Elected(node'[l].currentTerm)
    BY <1>0, <1>3, WinMoves DEF Elected
  <2>2. node'[l].currentTerm > T
    BY <1>0, <1>1, <1>T, <2>1 DEF Pinned
  <2>3. \A v \in node'[l].votesReceived : node'[v].currentTerm > T
    <3> SUFFICES ASSUME NEW v \in node'[l].votesReceived PROVE node'[v].currentTerm > T
      OBVIOUS
    <3>1. v \in Server /\ node'[v].currentTerm >= node'[l].currentTerm
      BY <1>0, <1>1 DEF VotesCounted, Standing
    <3> QED
      BY <1>0, <2>2, <3>1
  <2>4. node'[l].votesReceived \cap A # {}
    BY <1>0, <1>1, <2>1, <2>3 DEF Passed
  <2> QED
    BY <1>1, <1>T, <2>1, <2>2, <2>4, CandidateHolds DEF Pinned, Standing
<1>4. CASE Started(l)
  BY <1>1, <1>4 DEF Started, Leader, Candidate
<1> QED
  BY <1>0, <1>2, <1>3, <1>4 DEF RolesMove

LEMMA CandidatesHoldStep ==
    ASSUME OrderInv, OrderInv', [CalmNext]_vars, NEW A, A \subseteq Server,
           NEW P \in Seq(LogEntry), Len(P) > 0, Pinned(A, P)
    PROVE  CandidatesHold(A, P)'
<1>0. Shape /\ RolesMove
  BY OrderTypes, RolesAlways DEF LogTyped
<1>1. SUFFICES ASSUME NEW c \in Server, node'[c].state = Candidate,
                      node'[c].currentTerm > LastTerm(P), ~Elected(node[c].currentTerm)',
                      node'[c].votesReceived \cap A # {}
               PROVE  Extends(P, node'[c].log)
  BY DEF CandidatesHold
<1>2. ~Elected(node'[c].currentTerm)
  BY <1>0, <1>1 DEF Elected, RolesMove
<1> QED
  BY <1>1, <1>2, CandidateHolds DEF Pinned, Standing

\* What a step adds to the pieces of one log agrees with P too.
LEMMA PiecesFitStep ==
    ASSUME OrderInv, OrderInv', [CalmNext]_vars, NEW A, A \subseteq Server, A # {},
           NEW P \in Seq(LogEntry), Len(P) > 0, Pinned(A, P)
    PROVE  PiecesFit(P)'
<1>g. PICK g : g = Whole(P)
  OBVIOUS
<1>0. /\ Shape /\ Typed /\ Typed' /\ LogInv /\ IsPiece(g)
      /\ \A f \in Pieces : Agree(f, g) /\ IsPiece(f)
  BY <1>g, OrderTypes, OrderTypesNext, WholeEnd
  DEF LogTyped, Typed, OrderInv, MatchInv, Pinned, PiecesFit
<1>1. SUFFICES ASSUME NEW f \in Pieces' PROVE Agree(f, g)
  BY <1>g DEF PiecesFit
<1>2. ASSUME NEW s \in Server, f = Whole(node'[s].log) PROVE Agree(f, g)
  <2>L. PICK L : L = node[s].log
    OBVIOUS
  <2>R. PICK R : R = node'[s].log
    OBVIOUS
  <2>1. L \in Seq(LogEntry) /\ Len(L) \in Nat /\ Whole(L) \in Pieces /\ Agree(Whole(L), g)
    BY <1>0, <2>L DEF Typed, Pieces
  <2>2. CASE R = L
    BY <1>2, <2>1, <2>2, <2>R
  <2>3. ASSUME NEW e \in LogEntry, node[s].state = Leader, e.term = node[s].currentTerm,
               R = Append(L, e)
        PROVE  Agree(f, g)
    <3>1. PICK v \in A : TRUE
      OBVIOUS
    <3>2. /\ v \in Server /\ Extends(P, node[v].log) /\ node[v].log \in Seq(LogEntry)
          /\ Whole(node[v].log) \in Pieces
      BY <1>0, <3>1 DEF Pinned, HeldBy, Typed, Pieces
    <3>3. ASSUME Holds(g, Len(L) + 1), EntryAt(g, Len(L) + 1).term = e.term PROVE FALSE
      <4>k. PICK k : k = Len(L) + 1
        OBVIOUS
      <4>1. k \in Nat /\ k \in 1..Len(P) /\ EntryAt(g, k) = P[k]
        BY <1>g, <2>1, <3>3, <4>k, WholeFacts
      <4>2. k \in 1..Len(node[v].log) /\ node[v].log[k] = P[k]
        BY <3>2, <4>1 DEF Extends
      <4>3. /\ Holds(Whole(node[v].log), k)
            /\ EntryAt(Whole(node[v].log), k).term = node[s].currentTerm
        BY <2>3, <3>2, <3>3, <4>1, <4>2, <4>k, WholeFacts
      <4>4. k <= Len(L)
        BY <1>0, <2>3, <2>L, <3>2, <4>1, <4>3 DEF LogInv, LeaderHolds
      <4> QED
        BY <2>1, <4>4, <4>k
    <3> QED
      BY <1>2, <2>1, <2>3, <2>R, <3>3, ExtendedAgrees
  <2>4. ASSUME NEW m \in Appends, HasPrevious(L, m),
               R = MergeLog(L, m.prevLogIndex, m.entries)
        PROVE  Agree(f, g)
    <3>1. PICK c \in Nat : MergedAt(Whole(L), Sent(m), Whole(R), c)
      BY <1>0, <2>1, <2>4, MergeParts DEF Typed
    <3>2. Sent(m) \in Pieces /\ Agree(Whole(L), Sent(m)) /\ Agree(Sent(m), g)
      BY <1>0, <2>1 DEF Pieces, LogInv, PiecesAgree
    <3>3. Agree(Whole(R), g)
      BY <1>0, <2>1, <3>1, <3>2, MergedAgrees DEF MergedAt
    <3> QED
      BY <1>2, <2>R, <3>3
  <2> QED
    BY <1>0, <2>2, <2>3, <2>4, <2>L, <2>R, LogMoves DEF Appended, Merged
<1>3. ASSUME NEW m \in Appends', f = Sent(m) PROVE Agree(f, g)
  <2>1. CASE m \in Appends
    BY <1>0, <1>3, <2>1 DEF Pieces
  <2>2. CASE m \notin Appends
    <3>1. PICK l \in Server : \E p \in Peers(l) : m = AppendRequest(l, node[l], p)
      BY <1>0, <2>2, SentMoves
    <3>2. PICK p \in Peers(l) : m = AppendRequest(l, node[l], p)
      BY <3>1
    <3>3. /\ node[l] \in NodeState /\ Whole(node[l].log) \in Pieces
          /\ Agree(Whole(node[l].log), g)
      BY <1>0 DEF Typed, Pieces
    <3> QED
      BY <1>3, <3>2, <3>3, RequestPart, PartAgrees
  <2> QED
    BY <2>1, <2>2
<1> QED
  BY <1>2, <1>3 DEF Pieces

LEMMA LogsFollowStep ==
    ASSUME OrderInv, OrderInv', [CalmNext]_vars, NEW A, A \subseteq Server, A # {},
           NEW P \in Seq(LogEntry), Len(P) > 0, Pinned(A, P)
    PROVE  LogsFollow(P)'
<1>0. /\ Shape /\ Typed /\ PiecesFit(P)'
      /\ LastTerm(P) \in Nat
  BY OrderTypes, PiecesFitStep, LastTermType DEF LogTyped
<1>1. SUFFICES ASSUME NEW s \in Server, Reaches(Whole(node'[s].log), P)
               PROVE  Extends(P, node'[s].log)
  BY DEF LogsFollow
<1>L. PICK L : L = node[s].log
  OBVIOUS
<1>R. PICK R : R = node'[s].log
  OBVIOUS
<1>2. /\ L \in Seq(LogEntry) /\ R \in Seq(LogEntry) /\ Ordered(Whole(L))
      /\ Agree(Whole(R), Whole(P)) /\ (Reaches(Whole(L), P) => Extends(P, L))
      /\ node[s].currentTerm \in Nat
  <2>1. R \in Seq(LogEntry) /\ Whole(R) \in Pieces'
    BY <1>R, OrderTypesNext DEF LogTyped, Typed, Pieces
  <2> QED
    BY <1>0, <1>L, <2>1 DEF Typed, Pieces, OrderInv, PiecesFit, Pinned, LogsFollow
<1>3. CASE R = L
  BY <1>1, <1>2, <1>3, <1>R
<1>4. ASSUME NEW e \in LogEntry, node[s].state = Leader, e.term = node[s].currentTerm,
             R = Append(L, e)
      PROVE  Extends(P, R)
  <2>1. Len(R) > 0 /\ R[Len(R)] = e
    BY <1>2, <1>4
  <2>2. EndTerm(Whole(R)) = e.term /\ e.term \in Nat
    BY <1>2, <1>4, <2>1, WholeEnd
  <2>3. node[s].currentTerm >= LastTerm(P)
    BY <1>0, <1>1, <1>4, <1>R, <2>2 DEF Reaches
  <2>4. Extends(P, node[s].log)
    BY <1>4, <2>3 DEF Pinned, LeadersHold
  <2> QED
    BY <1>R, <2>4, HolderKeeps DEF Pinned
<1>5. ASSUME NEW m \in Appends, HasPrevious(L, m),
             R = MergeLog(L, m.prevLogIndex, m.entries)
      PROVE  Extends(P, R)
  <2>1. PICK c \in Nat : MergedAt(Whole(L), Sent(m), Whole(R), c)
    BY <1>0, <1>2, <1>5, MergeParts DEF Typed
  <2>2. Covers(Sent(m), P)
    BY DEF Pinned, SentFollow
  <2> QED
    BY <1>1, <1>2, <1>R, <2>1, <2>2, MergeFollows
<1> QED
  BY <1>0, <1>3, <1>4, <1>5, <1>L, <1>R, LogMoves DEF Appended, Merged

\* A request tells the sender's log to its end.
LEMMA RequestEnd ==
    ASSUME NEW s \in Server, NEW n \in NodeState, NEW p \in Peers(s),
           n.nextIndex[p] <= Len(n.log) + 1
    PROVE  LET f == Sent(AppendRequest(s, n, p))
           IN  /\ LastPlace(f) = Len(n.log)
               /\ Len(n.log) > 0 => EndTerm(f) = LastTerm(n.log)
<1>L. PICK L : L = n.log
  OBVIOUS
<1>n. PICK i : i = n.nextIndex[p]
  OBVIOUS
<1>f. PICK f : f = Sent(AppendRequest(s, n, p))
  OBVIOUS
<1>1. L \in Seq(LogEntry) /\ Len(L) \in Nat /\ i \in Nat \ {0} /\ i <= Len(L) + 1
  BY <1>L, <1>n DEF NodeState, Peers
<1>2. /\ f.base = i - 1 /\ f.entries = SubSeq(L, i, Len(L))
      /\ f.term = IF i - 1 \in 1..Len(L) THEN L[i - 1].term ELSE 0
  BY <1>f, <1>L, <1>n DEF AppendRequest, Sent
<1>3. /\ f.entries \in Seq(LogEntry)
      /\ Len(f.entries) = Len(L) + 1 - i
      /\ \A j \in 1..(Len(L) + 1 - i) : f.entries[j] = L[i + j - 1]
  <2>1. /\ SubSeq(L, i, Len(L)) \in Seq(LogEntry)
        /\ Len(SubSeq(L, i, Len(L))) = IF i <= Len(L) THEN Len(L) - i + 1 ELSE 0
        /\ \A j \in 1..(Len(L) - i + 1) : SubSeq(L, i, Len(L))[j] = L[i + j - 1]
    <3>1. \A j \in i..Len(L) : L[j] \in LogEntry
      BY <1>1
    <3> QED
      BY <1>1, <3>1, SubSeqProperties
  <2> QED
    BY <1>1, <1>2, <2>1
<1>4. LastPlace(f) = Len(L)
  BY <1>1, <1>2, <1>3 DEF LastPlace
<1>5. Len(L) > 0 => EndTerm(f) = LastTerm(L)
  <2> SUFFICES ASSUME Len(L) > 0 PROVE EndTerm(f) = LastTerm(L)
    OBVIOUS
  <2>1. LastTerm(L) = L[Len(L)].term
    BY <1>1, WholeEnd
  <2>2. CASE i = Len(L) + 1
    <3>1. f.entries = <<>> /\ i - 1 = Len(L)
      BY <1>1, <1>3, <2>2
    <3> QED
      BY <1>1, <1>2, <2>1, <3>1 DEF EndTerm
  <2>3. CASE i <= Len(L)
    <3>1. /\ Len(f.entries) \in 1..(Len(L) + 1 - i) /\ f.entries # <<>>
          /\ i + Len(f.entries) - 1 = Len(L)
      BY <1>1, <1>3, <2>3
    <3>2. f.entries[Len(f.entries)] = L[Len(L)]
      BY <1>3, <3>1
    <3> QED
      BY <2>1, <3>1, <3>2 DEF EndTerm
  <2> QED
    BY <1>1, <2>2, <2>3
<1> QED
  BY <1>4, <1>5, <1>f, <1>L

LEMMA SentFollowStep ==
    ASSUME OrderInv, OrderInv', [CalmNext]_vars,
           NEW P \in Seq(LogEntry), Len(P) > 0, LeadersHold(P), SentFollow(P)
    PROVE  SentFollow(P)'
<1>0. /\ Shape /\ Typed /\ NextBound /\ Len(P) \in Nat /\ LastTerm(P) \in Nat
  BY OrderTypes, LastTermType DEF LogTyped, OrderInv, MatchInv
<1>1. SUFFICES ASSUME NEW m \in Appends'
               PROVE  /\ Covers(Sent(m), P)
                      /\ m.term >= LastTerm(P) => NoCut(Sent(m), P)
  BY DEF SentFollow
<1>2. CASE m \in Appends
  BY <1>2 DEF SentFollow
<1>3. CASE m \notin Appends
  <2>l. PICK l \in Server : node[l].state = Leader /\ \E p \in Peers(l) : m = AppendRequest(l, node[l], p)
    BY <1>0, <1>1, <1>3, SentMoves
  <2>p. PICK p \in Peers(l) : m = AppendRequest(l, node[l], p)
    BY <2>l
  <2>L. PICK L : L = node[l].log
    OBVIOUS
  <2>f. PICK f : f = Sent(m)
    OBVIOUS
  <2>1. /\ node[l] \in NodeState /\ L \in Seq(LogEntry) /\ Len(L) \in Nat
        /\ node[l].currentTerm \in Nat
        /\ Whole(L) \in Pieces /\ Behind(Whole(L), node[l].currentTerm)
        /\ node[l].nextIndex[p] <= Len(L) + 1
    BY <1>0, <2>l, <2>L DEF Typed, Pieces, OrderInv, LogsBehind, NextBound, Peers
  <2>2. /\ TakenFrom(m, L) /\ m.term = node[l].currentTerm
        /\ LastPlace(f) = Len(L) /\ (Len(L) > 0 => EndTerm(f) = LastTerm(L))
    BY <2>1, <2>p, <2>L, <2>f, RequestTaken, RequestEnd DEF AppendRequest
  <2>3. /\ f.base = m.prevLogIndex /\ f.term = m.prevLogTerm /\ f.entries = m.entries
        /\ f.base \in Nat /\ Len(f.entries) \in Nat
    <3>1. m \in AppendEntriesArgs
      BY <1>1, OrderTypesNext DEF LogTyped, Typed
    <3> QED
      BY <2>f, <3>1 DEF Sent, AppendEntriesArgs
  <2>4. \A j \in Nat : Holds(f, j) => j \in 1..Len(L) /\ EntryAt(f, j) = L[j]
    <3> SUFFICES ASSUME NEW j \in Nat, Holds(f, j) PROVE j \in 1..Len(L) /\ EntryAt(f, j) = L[j]
      OBVIOUS
    <3>1. j - f.base \in 1..Len(f.entries) /\ f.base + (j - f.base) = j /\ f.base + Len(f.entries) <= Len(L)
      BY <2>1, <2>2, <2>3 DEF Holds, TakenFrom
    <3>2. f.entries[j - f.base] = L[f.base + (j - f.base)]
      BY <2>2, <2>3, <3>1 DEF TakenFrom
    <3> QED
      BY <2>1, <2>3, <3>1, <3>2 DEF EntryAt
  <2>5. node[l].currentTerm >= LastTerm(P) => Extends(P, L)
    BY <2>l, <2>L DEF LeadersHold
  <2>6. ASSUME m.term >= LastTerm(P) PROVE NoCut(f, P)
    BY <1>0, <2>1, <2>2, <2>4, <2>5, <2>6 DEF NoCut, Extends
  <2>7. ASSUME Reaches(f, P)
        PROVE  /\ LastPlace(f) >= Len(P)
               /\ IF f.base > Len(P) THEN f.term >= LastTerm(P) ELSE TermAt(f, Len(P)) = LastTerm(P)
    <3>1. EndTerm(f) >= LastTerm(P) /\ EndTerm(f) <= node[l].currentTerm /\ EndTerm(f) \in Nat
      <4>1. Behind(f, node[l].currentTerm)
        BY <2>1, <2>p, <2>L, <2>f, RequestBehind
      <4>2. CASE Len(L) > 0
        <5>1. LastTerm(L) <= node[l].currentTerm /\ LastTerm(L) \in Nat
          <6>1. LastTerm(L) = L[Len(L)].term /\ Len(L) \in 1..Len(L) /\ LastTerm(L) \in Nat
            BY <2>1, <4>2, WholeEnd
          <6> QED
            BY <2>1, <6>1, WholeFacts DEF Behind
        <5> QED
          BY <1>0, <2>2, <2>7, <4>2, <5>1 DEF Reaches
      <4>3. CASE Len(L) = 0
        <5>1. f.base = 0 /\ f.entries = <<>>
          BY <2>1, <2>2, <2>3, <4>3 DEF LastPlace
        <5>2. f.term = 0
          BY <2>f, <2>p, <2>L, <4>3, <5>1 DEF AppendRequest, Sent
        <5> QED
          BY <1>0, <2>1, <2>7, <5>1, <5>2 DEF Reaches, EndTerm
      <4> QED
        BY <2>1, <4>2, <4>3
    <3>2. Extends(P, L)
      BY <1>0, <2>1, <2>5, <3>1
    <3>k. PICK k : k = Len(P)
      OBVIOUS
    <3>3. /\ k \in Nat /\ k > 0 /\ k <= Len(L) /\ k \in 1..Len(L) /\ L[k] = P[k]
          /\ L[k].term = LastTerm(P)
      BY <1>0, <2>1, <3>2, <3>k, WholeEnd DEF Extends
    <3>4. CASE f.base > k
      <4>b. PICK b : b = f.base
        OBVIOUS
      <4>1. b \in 1..Len(L) /\ b \in Nat /\ f.term = L[b].term
        BY <2>1, <2>2, <2>3, <3>3, <3>4, <4>b DEF TakenFrom
      <4>2. Ordered(Whole(L))
        BY <2>1 DEF OrderInv
      <4>3. TermAt(Whole(L), k) <= EntryAt(Whole(L), b).term
        BY <2>1, <3>3, <3>4, <4>1, <4>2, <4>b, WholeFacts DEF Ordered
      <4>4. L[k].term <= L[b].term /\ L[b] \in LogEntry
        BY <2>1, <3>3, <4>1, <4>3, WholeFacts
      <4> QED
        BY <1>0, <2>2, <3>3, <3>4, <3>k, <4>1, <4>4, <4>b DEF LogEntry
    <3>5. CASE f.base = k
      BY <2>2, <2>3, <3>3, <3>5, <3>k DEF TakenFrom, TermAt
    <3>6. CASE f.base < k
      <4>1. Holds(f, k)
        BY <2>1, <2>2, <2>3, <3>3, <3>6 DEF Holds, LastPlace
      <4> QED
        BY <2>2, <2>3, <2>4, <3>3, <3>6, <3>k, <4>1 DEF TermAt
    <3> QED
      BY <2>3, <3>3, <3>4, <3>5, <3>6
  <2> QED
    BY <2>6, <2>7, <2>f DEF Covers
<1> QED
  BY <1>2, <1>3

\* A pinned log stays pinned until a majority without A has left its term.
LEMMA PinnedStep ==
    ASSUME OrderInv, OrderInv', [CalmNext]_vars, NEW A, A \subseteq Server, A # {},
           NEW P \in Seq(LogEntry), Len(P) > 0, Pinned(A, P)
    PROVE  Pinned(A, P)' \/ Passed(A, LastTerm(P))'
<1>0. Shape /\ RolesMove
  BY OrderTypes, RolesAlways DEF LogTyped
<1>1. Elected(LastTerm(P))'
  BY <1>0 DEF Pinned, Elected, RolesMove
<1>2. HeldBy(A, P)'
  BY HolderKeeps DEF Pinned, HeldBy
<1>3. LeadersHold(P)' \/ Passed(A, LastTerm(P))'
  BY LeadersHoldStep
<1>4. CandidatesHold(A, P)' /\ PiecesFit(P)' /\ LogsFollow(P)'
  BY CandidatesHoldStep, PiecesFitStep, LogsFollowStep
<1>5. SentFollow(P)'
  BY SentFollowStep DEF Pinned
<1> QED
  BY <1>1, <1>2, <1>3, <1>4, <1>5 DEF Pinned

-----------------------------------------------------------------------------
(* What a leader counts *)

\* The nodes UpdateCommitIndex counts for the place k.
Ack(l, k) == {l} \cup {p \in Peers(l) : node[l].matchIndex[p] >= k}

\* An entry a leader wrote in its term is pinned at the nodes it counts for it, unless
\* a majority without them has left the term: then it cannot commit the entry.
AckInv ==
    \A l \in Server : \A P \in Seq(LogEntry) : \A A \in SUBSET Server :
        /\ node[l].state = Leader /\ Len(P) > 0
        /\ Extends(P, node[l].log) /\ LastTerm(P) = node[l].currentTerm
        /\ A = Ack(l, Len(P))
        => Passed(A, LastTerm(P)) \/ Pinned(A, P)

\* Nodes of P's term that hold P may join those P is pinned at, and any may leave them.
JoinersHold ==
    \A A, B \in SUBSET Server : \A P \in Seq(LogEntry) :
        /\ Pinned(A, P)
        /\ \A p \in B : p \in A \/ (node[p].currentTerm = LastTerm(P) /\ Extends(P, node[p].log))
        => Pinned(B, P)

LEMMA Joiners == CalmInv => JoinersHold
<1> SUFFICES ASSUME CalmInv, NEW A \in SUBSET Server, NEW B \in SUBSET Server,
                    NEW P \in Seq(LogEntry), Pinned(A, P),
                    \A p \in B : p \in A \/ (node[p].currentTerm = LastTerm(P)
                                             /\ Extends(P, node[p].log))
             PROVE  Pinned(B, P)
  BY DEF JoinersHold
<1>1. HeldBy(B, P)
  BY DEF Pinned, HeldBy
<1>2. CandidatesHold(B, P)
  <2> SUFFICES ASSUME NEW c \in Server, node[c].state = Candidate,
                      node[c].currentTerm > LastTerm(P), ~Elected(node[c].currentTerm),
                      NEW v \in B, v \in node[c].votesReceived
               PROVE  Extends(P, node[c].log)
    BY DEF CandidatesHold
  <2>1. node[v].currentTerm >= node[c].currentTerm
    BY DEF CalmInv, IInv, VoteInv, VotesCounted, Standing
  <2>2. node[v].currentTerm \in Nat /\ node[c].currentTerm \in Nat /\ LastTerm(P) \in Nat
    BY ShapeFacts, LastTermType DEF CalmInv, IInv
  <2>3. v \in A
    BY <2>1, <2>2
  <2> QED
    BY <2>3 DEF Pinned, CandidatesHold
<1> QED
  BY <1>1, <1>2 DEF Pinned

LEMMA JoinersNext == CalmInv' => JoinersHold'
  BY Joiners, PTL

\* Nodes of the term t may join those a majority has left.
LEMMA PassedMore ==
    ASSUME NEW A, NEW B, NEW t \in Nat, Passed(A, t)',
           \A p \in B : p \in A \/ node'[p].currentTerm = t
    PROVE  Passed(B, t)'
<1>1. PICK V \in SUBSET Server : /\ IsMajority(V) /\ V \cap A = {}
                                 /\ \A v \in V : node'[v].currentTerm > t
  BY DEF Passed, IsMajority
<1>2. V \cap B = {}
  BY <1>1
<1> QED
  BY <1>1, <1>2 DEF Passed, IsMajority

\* A majority that has left a term does not come back.
LEMMA PassedStep ==
    ASSUME Shape, [CalmNext]_vars, NEW A, NEW t \in Nat, Passed(A, t)
    PROVE  Passed(A, t)'
<1>1. PICK V \in SUBSET Server : /\ IsMajority(V) /\ V \cap A = {}
                                 /\ \A v \in V : node[v].currentTerm > t
  BY DEF Passed
<1>2. ASSUME NEW v \in V PROVE node'[v].currentTerm > t
  <2>1. /\ node[v].currentTerm \in Nat /\ node'[v].currentTerm >= node[v].currentTerm
        /\ node'[v].currentTerm \in Nat
    <3>1. v \in Server /\ Shape' /\ Keeps(node[v], node'[v])
      BY CalmShape
    <3>2. node[v] \in NodeState /\ node'[v] \in NodeState
      BY <3>1 DEF Shape, TypeOK
    <3> QED
      BY <3>1, <3>2 DEF Keeps, NodeState
  <2> QED
    BY <1>1, <2>1
<1> QED
  BY <1>1, <1>2 DEF Passed, IsMajority

-----------------------------------------------------------------------------
(* A new entry *)

\* The last entry of l's log is of l's term, and nobody else has one there or beyond.
Fresh(l, P) ==
    /\ node[l].state = Leader /\ P = node[l].log /\ Len(P) > 0
    /\ LastTerm(P) = node[l].currentTerm
    /\ \A s \in Server \ {l} : \A j \in 1..Len(node[s].log) :
           node[s].log[j].term = LastTerm(P) => j < Len(P)
    /\ \A m \in Appends : m.term = LastTerm(P) => LastPlace(Sent(m)) < Len(P)

FreshHold ==
    \A l \in Server : \A P \in Seq(LogEntry) :
        Fresh(l, P) => Passed({l}, LastTerm(P)) \/ Pinned({l}, P)

LEMMA FreshPinned == OrderInv => FreshHold
<1> SUFFICES ASSUME OrderInv, NEW l \in Server, NEW P \in Seq(LogEntry), Fresh(l, P),
                    ~Passed({l}, LastTerm(P))
             PROVE  Pinned({l}, P)
  BY DEF FreshHold
<1>W. PICK W : W = LastTerm(P)
  OBVIOUS
<1>0. /\ Shape /\ Typed /\ Roles /\ OneLeaderPerTerm /\ LogInv /\ CalmInv /\ VoteInv /\ SentHeld
      /\ W \in Nat /\ Len(P) \in Nat /\ Len(P) > 0 /\ W = node[l].currentTerm
      /\ node[l].state = Leader /\ P = node[l].log
      /\ \A s \in Server : node[s].log \in Seq(LogEntry) /\ node[s].currentTerm \in Nat
  BY <1>W, OrderTypes, LastTermType
  DEF LogTyped, Typed, OrderInv, MatchInv, LogInv, CalmInv, IInv, Fresh
<1>1. Whole(P) \in Pieces
  BY <1>0 DEF Pieces
<1>2. ASSUME NEW e \in elections PROVE e.term <= W
  <2> SUFFICES ASSUME e.term > W PROVE FALSE
    BY <1>0 DEF Typed
  <2>1. IsMajority(e.votes) /\ e.votes \subseteq Server
        /\ e.term \in Nat /\ \A v \in e.votes : node[v].currentTerm >= e.term
    BY <1>0, ShapeFacts DEF VoteInv, VotesWon
  <2>2. \A v \in e.votes : node[v].currentTerm > W
    BY <1>0, <2>1
  <2>3. l \notin e.votes
    BY <1>0, <2>2
  <2> QED
    BY <1>W, <2>1, <2>2, <2>3 DEF Passed
<1>3. Elected(W)
  BY <1>0 DEF Roles, LeadersElected, Elected
<1>4. HeldBy({l}, P)
  BY <1>0 DEF HeldBy, Extends
<1>5. LeadersHold(P)
  <2> SUFFICES ASSUME NEW s \in Server, node[s].state = Leader, node[s].currentTerm >= W
               PROVE  Extends(P, node[s].log)
    BY <1>W DEF LeadersHold
  <2>1. node[s].currentTerm <= W
    BY <1>0, <1>2 DEF Roles, LeadersElected
  <2>2. s = l
    BY <1>0, <2>1, OneLeader DEF Roles
  <2> QED
    BY <1>0, <2>2 DEF Extends
<1>6. CandidatesHold({l}, P)
  <2> SUFFICES ASSUME NEW c \in Server, node[c].state = Candidate, node[c].currentTerm > W,
                      l \in node[c].votesReceived
               PROVE  FALSE
    BY <1>W DEF CandidatesHold
  <2>1. node[l].currentTerm >= node[c].currentTerm
    BY <1>0 DEF VoteInv, VotesCounted, Standing
  <2> QED
    BY <1>0, <2>1
<1>7. PiecesFit(P)
  BY <1>0, <1>1 DEF PiecesFit, LogInv, PiecesAgree
<1>8. LogsFollow(P)
  <2> SUFFICES ASSUME NEW s \in Server, s # l, Reaches(Whole(node[s].log), P)
               PROVE  FALSE
    BY <1>0 DEF LogsFollow, Extends
  <2>L. PICK L : L = node[s].log
    OBVIOUS
  <2>1. /\ L \in Seq(LogEntry) /\ Len(L) \in Nat /\ LastTerm(L) \in Nat
        /\ \/ LastTerm(L) > W
           \/ LastTerm(L) = W /\ Len(L) >= Len(P)
    BY <1>0, <1>W, <2>L, WholeEnd DEF Reaches
  <2>2. Len(L) > 0
    BY <1>0, <2>1 DEF LastTerm
  <2>3. Len(L) \in 1..Len(L) /\ LastTerm(L) = L[Len(L)].term
    BY <2>1, <2>2, WholeEnd
  <2>4. \E e \in elections : e.term = LastTerm(L)
    <3>1. Whole(L) \in Pieces
      BY <2>L DEF Pieces
    <3>2. Holds(Whole(L), Len(L)) /\ EntryAt(Whole(L), Len(L)) = L[Len(L)]
      BY <2>1, <2>3, WholeFacts
    <3> QED
      BY <1>0, <2>1, <2>3, <3>1, <3>2 DEF LogInv, PieceSound
  <2>5. LastTerm(L) = W /\ Len(L) >= Len(P)
    BY <1>0, <1>2, <2>1, <2>4
  <2>6. Len(L) < Len(P)
    BY <1>W, <2>3, <2>5, <2>L DEF Fresh
  <2> QED
    BY <1>0, <2>1, <2>5, <2>6
<1>9. SentFollow(P)
  <2> SUFFICES ASSUME NEW m \in Appends
               PROVE  ~Reaches(Sent(m), P) /\ (m.term >= W => NoCut(Sent(m), P))
    BY <1>W DEF SentFollow, Covers
  <2>f. PICK f : f = Sent(m)
    OBVIOUS
  <2>1. /\ m \in AppendEntriesArgs /\ m.term \in Nat /\ m.term <= W
        /\ f.base \in Nat /\ f.term \in Nat /\ f.entries \in Seq(LogEntry)
        /\ f.base = m.prevLogIndex /\ f.entries = m.entries /\ Len(f.entries) \in Nat
    BY <1>0, <1>2, <2>f DEF Typed, Roles, RequestsElected, AppendEntriesArgs, Sent
  <2>2. EndTerm(f) <= m.term /\ EndTerm(f) \in Nat
    <3>1. Behind(f, m.term)
      BY <2>f DEF OrderInv, SentBehind
    <3>2. CASE f.entries = <<>>
      BY <2>1, <3>1, <3>2 DEF Behind, EndTerm
    <3>3. CASE f.entries # <<>>
      <4>n. PICK n : n = f.base + Len(f.entries)
        OBVIOUS
      <4>1. n \in Nat /\ Holds(f, n) /\ n - f.base = Len(f.entries) /\ Len(f.entries) \in 1..Len(f.entries)
        BY <2>1, <3>3, <4>n DEF Holds
      <4>2. EntryAt(f, n).term <= m.term /\ f.entries[Len(f.entries)] \in LogEntry
        BY <2>1, <3>1, <4>1 DEF Behind
      <4> QED
        BY <3>3, <4>1, <4>2 DEF EndTerm, EntryAt, LogEntry
    <3> QED
      BY <3>2, <3>3
  <2>3. ASSUME m.term = W PROVE LastPlace(f) < Len(P) /\ NoCut(f, P)
    <3>1. LastPlace(f) < Len(P)
      BY <1>W, <2>3, <2>f DEF Fresh
    <3>2. TakenFrom(m, P)
      BY <1>0, <2>3 DEF SentHeld
    <3>3. ASSUME NEW j \in 1..Len(P), Holds(f, j) PROVE EntryAt(f, j) = P[j]
      <4>1. j - f.base \in 1..Len(f.entries) /\ f.base + (j - f.base) = j
        BY <2>1, <3>3 DEF Holds
      <4> QED
        BY <2>1, <3>2, <4>1 DEF TakenFrom, EntryAt
    <3> QED
      BY <3>1, <3>3 DEF NoCut
  <2>4. ~Reaches(f, P)
    <3> SUFFICES ASSUME Reaches(f, P) PROVE FALSE
      OBVIOUS
    <3>1. EndTerm(f) >= W /\ (EndTerm(f) = W => LastPlace(f) >= Len(P))
      BY <1>0, <1>W, <2>2 DEF Reaches
    <3>2. m.term = W /\ EndTerm(f) = W
      BY <1>0, <2>1, <2>2, <3>1
    <3>3. LastPlace(f) \in Nat
      BY <2>1 DEF LastPlace
    <3> QED
      BY <1>0, <2>3, <3>1, <3>2, <3>3
  <2> QED
    BY <1>0, <2>1, <2>3, <2>4, <2>f
<1> QED
  BY <1>3, <1>4, <1>5, <1>6, <1>7, <1>8, <1>9, <1>W DEF Pinned

LEMMA FreshNext == OrderInv' => FreshHold'
  BY FreshPinned, PTL

-----------------------------------------------------------------------------
(* Every step keeps AckInv *)

\* A leader's log changes by its own SubmitCommand only.
LEMMA LeaderAppends ==
    ASSUME LogInv, [CalmNext]_vars, NEW l \in Server,
           node'[l].state = Leader, node'[l].log # node[l].log
    PROVE  \E c \in Command : SubmitCommand(l, c)
<1>0. Shape
  BY DEF LogInv, CalmInv, IInv
<1>1. \A s \in Server : ~ElectionTimeout(s)
  BY <1>0, TimeoutMove DEF SameLogs
<1>2. \A m \in DOMAIN rpcs : ~RequestVoteRPC(m)
  BY <1>0, VoteMove DEF SameLogs
<1>3. \A m \in DOMAIN rpcs : ~AppendEntriesRPC(m)
  BY <1>0, AppendMove, ReceiverFollows
<1>4. \A s \in Server : ~SendHeartbeats(s)
  BY <1>0, SendMove
<1>5. ~ \/ \E s \in Server : Began(s)
        \/ \E s \in Server : SendRequestVoteRPCs(s)
        \/ \E m \in DOMAIN rpcs : RPCUnreachable(m)
        \/ UNCHANGED vars
  BY <1>0, OtherMove DEF SameLogs
<1>6. \A s \in Server : \A c \in Command : SubmitCommand(s, c) => s = l
  BY <1>0, SubmitMove
<1> QED
  BY ONLY <1>1, <1>2, <1>3, <1>4, <1>5, <1>6, [CalmNext]_vars DEF CalmNext

\* A node that leads before and after a step leads the same term.
LEMMA LeaderStays ==
    ASSUME Shape, [CalmNext]_vars, NEW l \in Server, node[l].state = Leader, node'[l].state = Leader
    PROVE  node'[l].currentTerm = node[l].currentTerm
  BY RolesAlways DEF RolesMove, RoleKept, Started, Won, Leader, Candidate, Follower

\* It changes what it takes a peer to hold only when the peer answers in its term.
LEMMA MatchMoves ==
    ASSUME Shape, [CalmNext]_vars, NEW l \in Server, node[l].state = Leader, node'[l].state = Leader,
           NEW p \in Server
    PROVE  \/ node'[l].matchIndex[p] = node[l].matchIndex[p]
           \/ node'[p].currentTerm = node'[l].currentTerm
<1>1. CASE Leads(l)
  BY <1>1 DEF Leads, Won, SameIndexes, Leader, Candidate
<1>2. CASE \E s \in Server : ElectionTimeout(s)
  BY <1>1, <1>2, TimeoutLeads
<1>3. CASE \E m \in DOMAIN rpcs : RequestVoteRPC(m)
  BY <1>1, <1>3, VoteLeads
<1>4. CASE \E s \in Server, c \in Command : SubmitCommand(s, c)
  BY <1>1, <1>4, SubmitLeads
<1>5. CASE node' = node
  BY <1>5
<1>6. CASE \E m \in DOMAIN rpcs : AppendEntriesRPC(m)
  BY <1>6, AppendParts, LeaderStays DEF SameIndexes
<1>7. \A s \in Server : SendHeartbeats(s) => node' = node
  BY SendMove
<1>8. /\ \A s \in Server : Began(s) \/ SendRequestVoteRPCs(s) => node' = node
      /\ \A m \in DOMAIN rpcs : RPCUnreachable(m) => node' = node
      /\ UNCHANGED vars => node' = node
  BY DEF Began, Construct, Start, SendRequestVoteRPCs, RPCUnreachable, vars
<1> QED
  BY ONLY <1>2, <1>3, <1>4, <1>5, <1>6, <1>7, <1>8, [CalmNext]_vars DEF CalmNext

\* An entry that was there: who is newly counted holds it, in the leader's term.
LEMMA OldAck ==
    ASSUME OrderInv, AckInv, OrderInv', [CalmNext]_vars,
           NEW l \in Server, NEW P \in Seq(LogEntry), NEW B \in SUBSET Server,
           node[l].state = Leader, node'[l].state = Leader, Len(P) > 0,
           Extends(P, node[l].log), Extends(P, node'[l].log),
           LastTerm(P) = node'[l].currentTerm,
           B = {l} \cup {p \in Peers(l) : node'[l].matchIndex[p] >= Len(P)}
    PROVE  Passed(B, LastTerm(P))' \/ Pinned(B, P)'
<1>0. /\ Shape /\ CalmInv' /\ Len(P) \in Nat /\ LastTerm(P) \in Nat
      /\ node'[l].currentTerm = node[l].currentTerm
  BY OrderTypes, LastTermType, LeaderStays DEF LogTyped, OrderInv, MatchInv, LogInv
<1>A. PICK A : A = Ack(l, Len(P))
  OBVIOUS
<1>1. A \in SUBSET Server /\ l \in A
  BY <1>A DEF Ack, Peers
<1>2. Passed(A, LastTerm(P)) \/ Pinned(A, P)
  BY <1>0, <1>1, <1>A DEF AckInv
<1>3. Passed(A, LastTerm(P))' \/ Pinned(A, P)'
  BY <1>0, <1>1, <1>2, PassedStep, PinnedStep
<1>4. ASSUME NEW p \in B, p \notin A
      PROVE  p \in Server /\ p # l /\ node'[p].currentTerm = LastTerm(P)
  <2>1. p \in Server /\ p # l /\ node'[l].matchIndex[p] >= Len(P) /\ ~(node[l].matchIndex[p] >= Len(P))
    BY <1>1, <1>4, <1>A DEF Ack, Peers
  <2> QED
    BY <1>0, <2>1, MatchMoves
<1>5. CASE Passed(A, LastTerm(P))'
  BY <1>0, <1>4, <1>5, PassedMore
<1>6. CASE Pinned(A, P)'
  <2>1. ASSUME NEW p \in B, p \notin A PROVE Extends(P, node'[p].log)
    <3>k. PICK k : k = node'[l].matchIndex[p]
      OBVIOUS
    <3>1. p \in Server /\ p # l /\ node'[p].currentTerm = node'[l].currentTerm /\ k >= Len(P)
          /\ p \in Peers(l)
      BY <1>1, <1>4, <2>1, <3>k DEF Peers
    <3>2. /\ k \in Nat /\ node'[p].log \in Seq(LogEntry) /\ Len(node'[p].log) \in Nat
          /\ Len(node'[l].log) \in Nat /\ node'[l].currentTerm \in Nat
      BY <3>1, <3>k, OrderTypesNext DEF LogTyped, Typed
    <3>3. SameTo(node'[p].log, node'[l].log, k)
      BY <1>0, <3>1, <3>2, <3>k DEF OrderInv, MatchInv, Matched
    <3> QED
      BY <1>0, <3>1, <3>2, <3>3 DEF SameTo, Extends
  <2>2. JoinersHold'
    BY <1>0, JoinersNext
  <2>3. \A p \in B : p \in A \/ (node'[p].currentTerm = LastTerm(P) /\ Extends(P, node'[p].log))
    BY <1>4, <2>1
  <2>4. A \in SUBSET Server /\ Pinned(A, P)'
    BY <1>1, <1>6
  <2> QED
    BY <2>2, <2>3, <2>4 DEF JoinersHold
<1> QED
  BY <1>3, <1>5, <1>6

\* An entry the leader has just appended: nobody else can have it or be counted for it.
LEMMA NewAck ==
    ASSUME OrderInv, OrderInv', [CalmNext]_vars,
           NEW l \in Server, NEW P \in Seq(LogEntry), NEW B \in SUBSET Server,
           node[l].state = Leader, node'[l].state = Leader, Len(P) > 0,
           ~Extends(P, node[l].log), Extends(P, node'[l].log),
           LastTerm(P) = node'[l].currentTerm,
           B = {l} \cup {p \in Peers(l) : node'[l].matchIndex[p] >= Len(P)}
    PROVE  Passed(B, LastTerm(P))' \/ Pinned(B, P)'
<1>0. /\ Shape /\ LogInv /\ SentHeld /\ Len(P) \in Nat /\ LastTerm(P) \in Nat
      /\ node'[l].currentTerm = node[l].currentTerm
      /\ Typed /\ \A p \in Server : node[l].matchIndex[p] \in Nat
  BY OrderTypes, LastTermType, LeaderStays DEF LogTyped, OrderInv, MatchInv
<1>1. PICK c \in Command : SubmitCommand(l, c)
  BY <1>0, LeaderAppends
<1>2. /\ Appends' = Appends
      /\ \A s \in Server \ {l} : node'[s].log = node[s].log
      /\ \E e \in LogEntry : node'[l].log = Append(node[l].log, e)
  BY <1>0, <1>1, SubmitMove
<1>L. PICK L : L = node[l].log
  OBVIOUS
<1>R. PICK R : R = node'[l].log
  OBVIOUS
<1>3. L \in Seq(LogEntry) /\ Len(L) \in Nat /\ Extends(P, R) /\ ~Extends(P, L)
      /\ \E e \in LogEntry : R = Append(L, e)
  BY <1>0, <1>2, <1>L, <1>R DEF Typed
<1>4. P = R /\ Len(P) = Len(L) + 1
  BY ONLY <1>3, P \in Seq(LogEntry) DEF Extends
<1>5. B = {l}
  <2>1. SameIndexes(node[l], node'[l])
    BY <1>0, <1>1, SubmitLeads DEF Leads, Won, Leader, Candidate
  <2>2. ASSUME NEW p \in Server PROVE ~(node'[l].matchIndex[p] >= Len(P))
    <3>1. node'[l].matchIndex[p] = node[l].matchIndex[p] /\ node[l].matchIndex[p] <= Len(L)
      BY <2>1, <1>L DEF SameIndexes, OrderInv, MatchBound
    <3> QED
      BY <1>0, <1>3, <1>4, <3>1
  <2> QED
    BY <2>2 DEF Peers
<1>6. ASSUME NEW s \in Server \ {l}, NEW j \in 1..Len(node'[s].log),
             node'[s].log[j].term = LastTerm(P)
      PROVE  j < Len(P)
  <2>M. PICK M : M = node[s].log
    OBVIOUS
  <2>1. M \in Seq(LogEntry) /\ j \in 1..Len(M) /\ M[j].term = node[l].currentTerm
        /\ Whole(M) \in Pieces /\ Len(M) \in Nat /\ j \in Nat
    BY <1>0, <1>2, <1>6, <2>M DEF Typed, Pieces
  <2>2. Holds(Whole(M), j) /\ EntryAt(Whole(M), j) = M[j]
    BY <2>1, WholeFacts
  <2>3. j <= Len(L)
    BY <1>0, <1>L, <2>1, <2>2 DEF LogInv, LeaderHolds
  <2> QED
    BY <1>3, <1>4, <2>1, <2>3
<1>7. ASSUME NEW m \in Appends', m.term = LastTerm(P) PROVE LastPlace(Sent(m)) < Len(P)
  <2>1. TakenFrom(m, L) /\ m \in AppendEntriesArgs
    BY <1>0, <1>2, <1>7, <1>L DEF SentHeld, Typed
  <2>2. LastPlace(Sent(m)) <= Len(L) /\ LastPlace(Sent(m)) \in Nat
    BY <2>1 DEF TakenFrom, LastPlace, Sent, AppendEntriesArgs
  <2> QED
    BY <1>3, <1>4, <2>2
<1>8. Fresh(l, P)'
  BY <1>4, <1>6, <1>7, <1>R DEF Fresh
<1> QED
  BY <1>5, <1>8, FreshNext DEF FreshHold

LEMMA InitAckInv == Init => AckInv
  BY DEF Init, InitNode, AckInv, Leader, Follower

LEMMA NextAckInv ==
    ASSUME OrderInv, AckInv, OrderInv', [CalmNext]_vars
    PROVE  AckInv'
<1>0. Shape /\ LogTyped
  BY OrderTypes DEF LogTyped
<1> SUFFICES ASSUME NEW l \in Server, NEW P \in Seq(LogEntry), NEW B \in SUBSET Server,
                    node'[l].state = Leader, Len(P) > 0, Extends(P, node'[l].log),
                    LastTerm(P) = node'[l].currentTerm,
                    B = {l} \cup {p \in Peers(l) : node'[l].matchIndex[p] >= Len(P)}
             PROVE  Passed(B, LastTerm(P))' \/ Pinned(B, P)'
  BY DEF AckInv, Ack
<1>1. node[l].state = Leader
  <2> SUFFICES ASSUME node[l].state # Leader PROVE FALSE
    OBVIOUS
  <2>1. Won(l) /\ RolesMove
    BY <1>0, RolesAlways DEF RolesMove, RoleKept, Started, Leader, Candidate, Follower
  <2>2. OneLeaderPerTerm' /\ CandidatesNew
    BY <1>0, OrderTypesNext DEF LogTyped, Roles
  <2>3. node'[l].log = node[l].log /\ \A e \in elections : e.term # node'[l].currentTerm
    BY <1>0, <2>1, <2>2, WinMoves
  <2>L. PICK L : L = node[l].log
    OBVIOUS
  <2>4. L \in Seq(LogEntry) /\ Whole(L) \in Pieces /\ Extends(P, L) /\ Len(L) \in Nat
    BY <1>0, <2>3, <2>L DEF LogTyped, Typed, Pieces
  <2>5. Len(P) \in 1..Len(L) /\ L[Len(P)].term = LastTerm(P) /\ Len(P) \in Nat
    BY <2>4, WholeEnd DEF Extends
  <2>6. Holds(Whole(L), Len(P)) /\ EntryAt(Whole(L), Len(P)) = L[Len(P)]
    BY <2>4, <2>5, WholeFacts
  <2>7. \E e \in elections : e.term = LastTerm(P)
    BY <2>4, <2>5, <2>6 DEF OrderInv, MatchInv, LogInv, PieceSound
  <2> QED
    BY <2>3, <2>7
<1>2. CASE Extends(P, node[l].log)
  BY <1>1, <1>2, OldAck
<1>3. CASE ~Extends(P, node[l].log)
  BY <1>1, <1>3, NewAck
<1> QED
  BY <1>2, <1>3

-----------------------------------------------------------------------------
(* What the methods of a node do to what it has committed and handed out *)

SameCommit(n, r) ==
    r.commitIndex = n.commitIndex /\ r.lastApplied = n.lastApplied /\ r.applied = n.applied

\* r has committed up to k, and handed out what n had not.
Hands(n, r, k) ==
    /\ r.commitIndex = k
    /\ n.lastApplied < k =>
         /\ r.lastApplied = k
         /\ r.applied = n.applied \o SubSeq(r.log, n.lastApplied + 1, Lesser(k, Len(r.log)))

LEMMA AdoptTermCommit ==
    ASSUME NEW n \in NodeState, NEW t \in Nat
    PROVE  SameCommit(n, AdoptTerm(n, t))
  BY DEF AdoptTerm, ConvertToFollower, SameCommit, NodeState

LEMMA ApplyHands ==
    ASSUME NEW n \in NodeState, NEW k \in Nat
    PROVE  Hands(n, ApplyCommittedEntries([n EXCEPT !.commitIndex = k]), k)
<1> DEFINE c == [n EXCEPT !.commitIndex = k]
           r == ApplyCommittedEntries(c)
           more == n.applied \o SubSeq(n.log, n.lastApplied + 1, Lesser(k, Len(n.log)))
<1>1. /\ c \in NodeState /\ c.commitIndex = k /\ c.log = n.log
      /\ c.lastApplied = n.lastApplied /\ c.applied = n.applied
  BY DEF NodeState
<1> HIDE DEF c
<1>2. r = IF n.lastApplied < k THEN [c EXCEPT !.lastApplied = k, !.applied = more] ELSE c
  BY <1>1 DEF ApplyCommittedEntries
<1> HIDE DEF more, r
<1>3. CASE n.lastApplied < k
  <2>1. r.lastApplied = k /\ r.applied = more /\ r.log = n.log /\ r.commitIndex = k
    BY <1>1, <1>2, <1>3 DEF NodeState
  <2> QED
    BY <2>1 DEF Hands, r, c, more
<1>4. CASE ~(n.lastApplied < k)
  <2>1. r.commitIndex = k
    BY <1>1, <1>2, <1>4
  <2> QED
    BY <1>4, <2>1 DEF Hands, r, c
<1> QED
  BY <1>3, <1>4

LEMMA RequestVoteCommit ==
    ASSUME NEW n \in NodeState, NEW m \in RequestVoteArgs
    PROVE  SameCommit(n, RequestVote(n, m))
<1> DEFINE u == AdoptTerm(n, m.term)
<1>1. u \in NodeState /\ SameCommit(n, u)
  BY AdoptTermFacts, AdoptTermCommit DEF RequestVoteArgs
<1>2. RequestVote(n, m) = u \/ RequestVote(n, m) = [u EXCEPT !.votedFor = m.from]
  BY DEF RequestVote
<1> HIDE DEF u
<1> QED
  BY <1>1, <1>2 DEF NodeState, SameCommit

LEMMA VoteResultCommit ==
    ASSUME NEW s \in Server, NEW n \in NodeState, NEW voter \in Server,
           NEW t \in Nat, NEW granted \in BOOLEAN
    PROVE  SameCommit(n, ProcessRequestVoteResult(s, n, voter, t, granted))
<1> DEFINE r == ProcessRequestVoteResult(s, n, voter, t, granted)
           c == [n EXCEPT !.votesReceived = n.votesReceived \cup {voter}]
<1>1. CASE t > n.currentTerm
  <2>1. r = [n EXCEPT !.currentTerm = t, !.votedFor = Nil, !.state = Follower]
    BY <1>1 DEF ProcessRequestVoteResult, ConvertToFollower
  <2> QED
    BY <2>1 DEF NodeState, SameCommit
<1>2. CASE ~(t > n.currentTerm)
  <2>1. r = n \/ r = c \/ r = ConvertToLeader(s, c)
    BY <1>2 DEF ProcessRequestVoteResult
  <2>2. c \in NodeState /\ SameCommit(n, c)
    BY DEF NodeState, SameCommit
  <2> HIDE DEF c
  <2>3. SameCommit(c, ConvertToLeader(s, c))
    BY <2>2 DEF ConvertToLeader, NodeState, SameCommit
  <2> HIDE DEF r
  <2>4. SameCommit(n, r)
    BY <2>1, <2>2, <2>3 DEF SameCommit
  <2> QED
    BY <2>4 DEF r
<1> QED
  BY <1>1, <1>2

\* A request that is taken and tells of more commits it, as far as it reaches.
LEMMA AppendEntriesCommit ==
    ASSUME NEW n \in NodeState, NEW m \in AppendEntriesArgs
    PROVE  LET r == AppendEntries(n, m)
           IN  \/ SameCommit(n, r)
               \/ /\ AcceptsEntries(n, m) /\ m.leaderCommit > n.commitIndex
                  /\ Hands(n, r, Lesser(m.leaderCommit, LastNewIndex(m)))
<1> DEFINE r == AppendEntries(n, m)
           v == AdoptTerm(n, m.term)
           u == [v EXCEPT !.currentLeader = m.from]
           a == [u EXCEPT !.log = MergeLog(u.log, m.prevLogIndex, m.entries)]
           k == Lesser(m.leaderCommit, LastNewIndex(m))
           b == ApplyCommittedEntries([a EXCEPT !.commitIndex = k])
<1>0. /\ m.term \in Nat /\ m.from \in Server /\ m.prevLogIndex \in Nat
      /\ m.entries \in Seq(LogEntry) /\ m.leaderCommit \in Nat /\ n.currentTerm \in Nat
      /\ k \in Nat
  BY LastNewIndexType DEF AppendEntriesArgs, NodeState, Lesser
<1>1. CASE m.term < n.currentTerm
  BY <1>0, <1>1 DEF AppendEntries, SameCommit
<1>2. CASE ~(m.term < n.currentTerm)
  <2>1. r = IF ~HasPrevious(n.log, m) THEN u
            ELSE IF m.leaderCommit > n.commitIndex THEN b ELSE a
    BY <1>2 DEF AppendEntries
  <2>2. v \in NodeState /\ v.log = n.log /\ SameCommit(n, v)
    BY <1>0, AdoptTermFacts, AdoptTermCommit
  <2> HIDE DEF v
  <2>3. u \in NodeState /\ u.log = n.log /\ SameCommit(n, u)
    BY <1>0, <2>2 DEF NodeState, SameCommit
  <2> HIDE DEF u
  <2>4. HasPrevious(n.log, m) => a \in NodeState /\ SameCommit(n, a)
    <3>1. n.log \in Seq(LogEntry)
      BY DEF NodeState
    <3>2. HasPrevious(n.log, m) => m.prevLogIndex <= Len(n.log)
      BY <1>0, <3>1 DEF HasPrevious
    <3>3. HasPrevious(n.log, m) => MergeLog(u.log, m.prevLogIndex, m.entries) \in Seq(LogEntry)
      BY <1>0, <2>3, <3>1, <3>2, MergeLogType
    <3> QED
      BY <2>3, <3>3 DEF NodeState, SameCommit
  <2> HIDE DEF a, k
  <2>5. a \in NodeState => Hands(a, b, k)
    BY <1>0, ApplyHands
  <2> HIDE DEF b, r
  <2>6. CASE ~HasPrevious(n.log, m)
    BY <2>1, <2>3, <2>6 DEF r
  <2>7. CASE HasPrevious(n.log, m) /\ ~(m.leaderCommit > n.commitIndex)
    BY <2>1, <2>4, <2>7 DEF r
  <2>8. CASE HasPrevious(n.log, m) /\ m.leaderCommit > n.commitIndex
    <3>1. r = b /\ SameCommit(n, a) /\ Hands(a, b, k)
      BY <2>1, <2>4, <2>5, <2>8
    <3>2. Hands(n, r, k)
      BY <3>1 DEF Hands, SameCommit
    <3>3. AcceptsEntries(n, m)
      BY <1>0, <1>2, <2>8 DEF AcceptsEntries
    <3> QED
      BY <2>8, <3>2, <3>3 DEF r, k
  <2> QED
    BY <2>6, <2>7, <2>8
<1> QED
  BY <1>1, <1>2

\* A leader commits a place UpdateCommitIndex finds committable, or nothing.
LEMMA UpdateCommits ==
    ASSUME NEW s \in Server, NEW n \in NodeState
    PROVE  LET r == UpdateCommitIndex(s, n)
           IN  \/ r = n
               \/ n.state = Leader /\ \E k \in Committable(s, n) : k \in Nat /\ Hands(n, r, k)
<1> DEFINE k == CHOOSE k \in Committable(s, n) : \A j \in Committable(s, n) : j <= k
           r == UpdateCommitIndex(s, n)
<1>1. CASE n.state = Leader /\ Committable(s, n) # {}
  <2>1. n.log \in Seq(LogEntry) /\ n.commitIndex \in Nat
    BY DEF NodeState
  <2>2. Committable(s, n) \subseteq 0..Len(n.log)
    BY <2>1 DEF Committable
  <2>3. Len(n.log) \in Nat
    BY <2>1
  <2>4. \E i \in Committable(s, n) : \A j \in Committable(s, n) : j <= i
    BY <1>1, <2>2, <2>3, GreatestNat
  <2>5. k \in Nat /\ k \in Committable(s, n)
    BY <2>2, <2>4
  <2>6. r = ApplyCommittedEntries([n EXCEPT !.commitIndex = k])
    BY <1>1 DEF UpdateCommitIndex
  <2> HIDE DEF k
  <2>7. Hands(n, r, k)
    BY <2>5, <2>6, ApplyHands
  <2> QED
    BY <1>1, <2>5, <2>7
<1>2. CASE ~(n.state = Leader /\ Committable(s, n) # {})
  BY <1>2 DEF UpdateCommitIndex
<1> QED
  BY <1>1, <1>2

\* The place k of n's log is in n's term, and r takes a majority to hold it.
Counts(s, n, r, k) ==
    /\ n.state = Leader /\ r.state = Leader /\ r.currentTerm = n.currentTerm /\ r.log = n.log
    /\ k \in Nat /\ k > n.commitIndex /\ k \in 1..Len(n.log) /\ n.log[k].term = n.currentTerm
    /\ IsMajority({s} \cup {p \in Peers(s) : r.matchIndex[p] >= k})

LEMMA AppendResultCommit ==
    ASSUME NEW s \in Server, NEW n \in NodeState, NEW m \in AppendEntriesArgs,
           NEW t \in Nat, NEW success \in BOOLEAN
    PROVE  LET r == ProcessAppendEntriesResult(s, n, m, t, success)
           IN  \/ SameCommit(n, r)
               \/ \E k \in Nat : Counts(s, n, r, k) /\ Hands(n, r, k)
<1> DEFINE r == ProcessAppendEntriesResult(s, n, m, t, success)
           d == RecordMatch(n, m)
           b == StepBack(n, m)
           u == UpdateCommitIndex(s, d)
<1>0. n.log \in Seq(LogEntry) /\ n.commitIndex \in Nat /\ Len(n.log) \in Nat
  BY DEF NodeState
<1>1. CASE t > n.currentTerm
  <2>1. r = [n EXCEPT !.currentTerm = t, !.votedFor = Nil, !.state = Follower]
    BY <1>1 DEF ProcessAppendEntriesResult, ConvertToFollower
  <2> QED
    BY <2>1 DEF NodeState, SameCommit
<1>2. CASE ~(t > n.currentTerm)
  <2>1. r = n \/ r = u \/ r = b
    BY <1>2 DEF ProcessAppendEntriesResult
  <2>2. /\ SameCommit(n, d) /\ d.log = n.log /\ d.state = n.state /\ d.currentTerm = n.currentTerm
        /\ d \in NodeState
    <3>1. LastNewIndex(m) \in Nat /\ LastNewIndex(m) + 1 \in Nat \ {0}
      BY LastNewIndexType
    <3>2. CASE m.entries = <<>>
      BY <3>2 DEF RecordMatch, SameCommit
    <3>3. CASE m.entries # <<>>
      <4> DEFINE next == [n.nextIndex EXCEPT ![m.to] = LastNewIndex(m) + 1]
                 match == [n.matchIndex EXCEPT ![m.to] = LastNewIndex(m)]
      <4>1. next \in [Server -> Nat \ {0}] /\ match \in [Server -> Nat]
        BY <3>1 DEF NodeState
      <4>2. d = [n EXCEPT !.nextIndex = next, !.matchIndex = match]
        BY <3>3 DEF RecordMatch, NodeState
      <4> HIDE DEF next, match
      <4> QED
        BY <4>1, <4>2 DEF NodeState, SameCommit
    <3> QED
      BY <3>2, <3>3
  <2>3. SameCommit(n, b)
    <3> DEFINE next == [n.nextIndex EXCEPT ![m.to] =
                            IF n.nextIndex[m.to] <= 1 THEN 1 ELSE n.nextIndex[m.to] - 1]
    <3>1. b = [n EXCEPT !.nextIndex = next]
      BY DEF StepBack, NodeState
    <3> HIDE DEF next
    <3> QED
      BY <3>1 DEF NodeState, SameCommit
  <2>4. SameIndexes(d, u) /\ SameElection(d, u) /\ u.log = d.log
    BY <2>2, UpdateCommitIndexes, UpdateCommitIndexFacts, UpdateCommitLog
  <2>5. u = d \/ (d.state = Leader /\ \E k \in Committable(s, d) : k \in Nat /\ Hands(d, u, k))
    BY <2>2, UpdateCommits
  <2> HIDE DEF r, d, b, u
  <2>6. CASE r = n \/ r = b \/ r = d
    BY <2>2, <2>3, <2>6 DEF SameCommit, r
  <2>7. ASSUME NEW k \in Committable(s, d), k \in Nat, Hands(d, u, k), d.state = Leader, r = u
        PROVE  Counts(s, n, r, k) /\ Hands(n, r, k)
    <3>1. Hands(n, r, k)
      BY <2>2, <2>7 DEF Hands, SameCommit
    <3>2. /\ k \in (d.commitIndex + 1)..Len(d.log) /\ d.log[k].term = d.currentTerm
          /\ IsMajority({s} \cup {p \in Peers(s) : d.matchIndex[p] >= k})
      BY DEF Committable
    <3>3. d.matchIndex = r.matchIndex
      BY <2>4, <2>7 DEF SameIndexes
    <3>4. /\ n.state = Leader /\ r.state = Leader /\ r.currentTerm = n.currentTerm /\ r.log = n.log
      BY <2>2, <2>4, <2>7 DEF SameElection
    <3>5. k > n.commitIndex /\ k \in 1..Len(n.log) /\ n.log[k].term = n.currentTerm
      BY <1>0, <2>2, <2>7, <3>2 DEF SameCommit
    <3>6. IsMajority({s} \cup {p \in Peers(s) : r.matchIndex[p] >= k})
      BY <3>2, <3>3
    <3> QED
      BY <2>7, <3>1, <3>4, <3>5, <3>6 DEF Counts
  <2> QED
    BY <2>1, <2>5, <2>6, <2>7 DEF r
<1> QED
  BY <1>1, <1>2

\* A follower learns from a request it takes what its sender had committed.
Learns(s) ==
    \E m \in Appends :
        /\ node'[s].currentTerm = m.term /\ HasPrevious(node[s].log, m)
        /\ node'[s].log = MergeLog(node[s].log, m.prevLogIndex, m.entries)
        /\ m.leaderCommit > node[s].commitIndex
        /\ Hands(node[s], node'[s], Lesser(m.leaderCommit, LastNewIndex(m)))

\* A leader commits.
Commits(s) == \E k \in Nat : Counts(s, node[s], node'[s], k) /\ Hands(node[s], node'[s], k)

LEMMA VoteCommit ==
    ASSUME Shape, NEW m \in DOMAIN rpcs, RequestVoteRPC(m), NEW s \in Server
    PROVE  SameCommit(node[s], node'[s])
<1> DEFINE voter   == RequestVote(node[m.to], m)
           granted == GrantsVote(node[m.to], m)
           caller  == ProcessRequestVoteResult(m.from, node[m.from], m.to,
                          voter.currentTerm, granted)
<1>1. /\ m \in RequestVoteArgs /\ m.from \in Server /\ m.to \in Server /\ m.from # m.to
      /\ node \in [Server -> NodeState]
  BY DEF Shape, TypeOK, DistinctEnds, RequestVoteRPC, RequestVoteArgs, AppendEntriesArgs
<1>2. node' = [node EXCEPT ![m.to] = voter, ![m.from] = caller]
  BY DEF RequestVoteRPC, AskVote
<1>3. voter \in NodeState /\ SameCommit(node[m.to], voter)
  BY <1>1, RequestVoteFacts, RequestVoteCommit
<1>4. voter.currentTerm \in Nat /\ granted \in BOOLEAN
  <2>1. voter.currentTerm \in Nat
    BY <1>3 DEF NodeState
  <2>2. granted \in BOOLEAN
    BY DEF GrantsVote
  <2> QED
    BY <2>1, <2>2
<1> HIDE DEF voter, granted
<1>5. SameCommit(node[m.from], caller)
  <2>1. node[m.from] \in NodeState
    BY <1>1
  <2> QED
    BY <1>1, <1>4, <2>1, VoteResultCommit
<1> HIDE DEF caller
<1>6. /\ node'[m.to] = voter /\ node'[m.from] = caller
      /\ \A p \in Server \ {m.to, m.from} : node'[p] = node[p]
  BY <1>1, <1>2
<1> QED
  BY <1>3, <1>5, <1>6 DEF SameCommit

LEMMA AppendCommit ==
    ASSUME Shape, NEW m \in DOMAIN rpcs, AppendEntriesRPC(m), NEW s \in Server
    PROVE  SameCommit(node[s], node'[s]) \/ Learns(s) \/ Commits(s)
<1> DEFINE receiver == AppendEntries(node[m.to], m)
           success  == AcceptsEntries(node[m.to], m)
           caller   == ProcessAppendEntriesResult(m.from, node[m.from], m,
                           receiver.currentTerm, success)
           k == Lesser(m.leaderCommit, LastNewIndex(m))
<1>1. /\ m \in AppendEntriesArgs /\ m.from \in Server /\ m.to \in Server /\ m.from # m.to
      /\ node \in [Server -> NodeState] /\ m \in Appends
  BY DEF Shape, TypeOK, DistinctEnds, AppendEntriesRPC, RequestVoteArgs, AppendEntriesArgs, Appends
<1>2. node' = [node EXCEPT ![m.to] = receiver, ![m.from] = caller]
  BY DEF AppendEntriesRPC
<1>3. /\ receiver \in NodeState
      /\ success => /\ receiver.currentTerm = m.term
                    /\ receiver.log = MergeLog(node[m.to].log, m.prevLogIndex, m.entries)
                    /\ HasPrevious(node[m.to].log, m)
      /\ \/ SameCommit(node[m.to], receiver)
         \/ success /\ m.leaderCommit > node[m.to].commitIndex /\ Hands(node[m.to], receiver, k)
  <2>1. node[m.to] \in NodeState
    BY <1>1
  <2>2. success => HasPrevious(node[m.to].log, m)
    BY DEF AcceptsEntries
  <2> QED
    BY <1>1, <2>1, <2>2, AppendEntriesFacts, AppendEntriesIndexes, AppendEntriesCommit
<1>4. receiver.currentTerm \in Nat /\ success \in BOOLEAN
  <2>1. receiver.currentTerm \in Nat
    BY <1>3 DEF NodeState
  <2>2. success \in BOOLEAN
    BY DEF AcceptsEntries
  <2> QED
    BY <2>1, <2>2
<1> HIDE DEF receiver, success, k
<1>5. \/ SameCommit(node[m.from], caller)
      \/ \E j \in Nat : Counts(m.from, node[m.from], caller, j) /\ Hands(node[m.from], caller, j)
  <2>1. node[m.from] \in NodeState
    BY <1>1
  <2> QED
    BY <1>1, <1>4, <2>1, AppendResultCommit
<1> HIDE DEF caller
<1>6. /\ node'[m.to] = receiver /\ node'[m.from] = caller
      /\ \A p \in Server \ {m.to, m.from} : node'[p] = node[p]
  BY <1>1, <1>2
<1>7. CASE s = m.from
  BY <1>5, <1>6, <1>7 DEF Commits
<1>8. CASE s = m.to
  BY <1>1, <1>3, <1>6, <1>8 DEF Learns, k
<1>9. CASE s \notin {m.from, m.to}
  BY <1>6, <1>9 DEF SameCommit
<1> QED
  BY <1>7, <1>8, <1>9

LEMMA CommitMoves ==
    ASSUME Shape, [CalmNext]_vars, NEW s \in Server
    PROVE  SameCommit(node[s], node'[s]) \/ Learns(s) \/ Commits(s)
<1>1. CASE node' = node
  BY <1>1 DEF SameCommit
<1>2. ASSUME NEW c \in Server, ElectionTimeout(c) PROVE SameCommit(node[s], node'[s])
  <2>2. node \in [Server -> NodeState] /\ node' = [node EXCEPT ![c] = ConvertToCandidate(c, node[c])]
    BY <1>2 DEF Shape, TypeOK, ElectionTimeout
  <2>3. node[c] \in NodeState /\ node'[c] = ConvertToCandidate(c, node[c])
    BY <2>2
  <2>4. SameCommit(node[c], node'[c])
    BY <2>3 DEF ConvertToCandidate, SameCommit, NodeState
  <2> QED
    BY <2>2, <2>4 DEF SameCommit
<1>3. ASSUME NEW l \in Server, NEW c \in Command, SubmitCommand(l, c)
      PROVE  SameCommit(node[s], node'[s])
  <2> DEFINE more == Append(node[l].log, [term |-> node[l].currentTerm,
                                          index |-> Len(node[l].log) + 1, command |-> c])
  <2>1. node' = [node EXCEPT ![l].log = more]
    BY <1>3 DEF SubmitCommand
  <2> HIDE DEF more
  <2>2. node \in [Server -> NodeState]
    BY DEF Shape, TypeOK
  <2>3. \A p \in Server \ {l} : node'[p] = node[p]
    BY <2>1, <2>2
  <2>4. node'[l] = [node[l] EXCEPT !.log = more] /\ node[l] \in NodeState
    BY <2>1, <2>2
  <2>5. SameCommit(node[l], node'[l])
    BY <2>4 DEF SameCommit, NodeState
  <2> QED
    BY <2>3, <2>5 DEF SameCommit
<1>4. /\ \A l \in Server : Began(l) \/ SendRequestVoteRPCs(l) \/ SendHeartbeats(l) => node' = node
      /\ \A m \in DOMAIN rpcs : RPCUnreachable(m) => node' = node
      /\ UNCHANGED vars => node' = node
  BY DEF Began, Construct, Start, SendRequestVoteRPCs, SendHeartbeats, RPCUnreachable, vars
<1>5. \A m \in DOMAIN rpcs : RequestVoteRPC(m) => SameCommit(node[s], node'[s])
  BY VoteCommit
<1>6. \A m \in DOMAIN rpcs :
          AppendEntriesRPC(m) => SameCommit(node[s], node'[s]) \/ Learns(s) \/ Commits(s)
  BY AppendCommit
<1> QED
  BY ONLY <1>1, <1>2, <1>3, <1>4, <1>5, <1>6, [CalmNext]_vars DEF CalmNext

-----------------------------------------------------------------------------
(* Prefixes of a log *)

LEMMA UptoFacts ==
    ASSUME NEW L \in Seq(LogEntry), NEW k \in Nat, k <= Len(L)
    PROVE  /\ Upto(L, k) \in Seq(LogEntry) /\ Len(Upto(L, k)) = k /\ Extends(Upto(L, k), L)
           /\ k > 0 => LastTerm(Upto(L, k)) = L[k].term
<1>n. PICK n : n = Len(L)
  OBVIOUS
<1>1. n \in Nat /\ Lesser(k, n) = k /\ k <= n
  BY <1>n DEF Lesser
<1>2. Upto(L, k) = SubSeq(L, 1, k)
  BY <1>1, <1>n DEF Upto
<1>3. SubSeq(L, 1, k) \in Seq(LogEntry) /\ Len(SubSeq(L, 1, k)) = k
      /\ \A j \in 1..k : SubSeq(L, 1, k)[j] = L[j]
  BY <1>1, <1>n
<1>4. Extends(Upto(L, k), L)
  BY <1>1, <1>2, <1>3, <1>n DEF Extends
<1>5. k > 0 => LastTerm(Upto(L, k)) = L[k].term
  <2>1. k > 0 => k \in 1..k /\ SubSeq(L, 1, k) # <<>>
    BY <1>3
  <2> QED
    BY <1>2, <1>3, <2>1 DEF LastTerm
<1> QED
  BY <1>2, <1>3, <1>4, <1>5

LEMMA UptoExtends ==
    ASSUME NEW P \in Seq(LogEntry), NEW L \in Seq(LogEntry), Extends(P, L)
    PROVE  Len(P) \in Nat /\ Len(P) <= Len(L) /\ Upto(L, Len(P)) = P
<1>n. PICK n : n = Len(P)
  OBVIOUS
<1>1. n \in Nat /\ n <= Len(L) /\ Len(L) \in Nat /\ \A j \in 1..n : L[j] = P[j]
  BY <1>n DEF Extends
<1>Q. PICK Q : Q = Upto(L, n)
  OBVIOUS
<1>2. Q \in Seq(LogEntry) /\ Len(Q) = n /\ Extends(Q, L)
  BY <1>1, <1>Q, UptoFacts
<1>3. \A j \in 1..n : Q[j] = P[j]
  BY <1>1, <1>2 DEF Extends
<1>4. Q = P
  BY ONLY <1>n, <1>2, <1>3, Q \in Seq(LogEntry), P \in Seq(LogEntry)
<1> QED
  BY <1>1, <1>4, <1>n, <1>Q

\* The entries after Q, up to place k, complete Q to the first k entries.
LEMMA ApplyMore ==
    ASSUME NEW L \in Seq(LogEntry), NEW i \in Nat, NEW k \in Nat, i < k, k <= Len(L),
           NEW Q \in Seq(LogEntry), Len(Q) = i, Extends(Q, L)
    PROVE  Q \o SubSeq(L, i + 1, Lesser(k, Len(L))) = Upto(L, k)
<1>n. PICK n : n = Len(L)
  OBVIOUS
<1>1. n \in Nat /\ Lesser(k, n) = k /\ k <= n
  BY <1>n DEF Lesser
<1>S. PICK S : S = SubSeq(L, i + 1, k)
  OBVIOUS
<1>2. S \in Seq(LogEntry) /\ Len(S) = k - i /\ \A j \in 1..(k - i) : S[j] = L[i + j]
  BY <1>1, <1>n, <1>S
<1>R. PICK R : R = Q \o S
  OBVIOUS
<1>3. R \in Seq(LogEntry) /\ Len(R) = k
      /\ \A j \in 1..k : R[j] = IF j <= i THEN Q[j] ELSE S[j - i]
  <2>0. S \in Seq(LogEntry)
    BY <1>2
  <2>1. /\ R \in Seq(LogEntry) /\ Len(R) = Len(Q) + Len(S)
        /\ \A j \in 1..(Len(Q) + Len(S)) :
              R[j] = IF j <= Len(Q) THEN Q[j] ELSE S[j - Len(Q)]
    BY ONLY <1>R, <2>0, Q \in Seq(LogEntry), ConcatProperties, Zenon
  <2>2. Len(R) = k /\ Len(Q) + Len(S) = k
    BY ONLY <1>2, <2>1, Len(Q) = i, i \in Nat, k \in Nat
  <2> QED
    BY ONLY <2>1, <2>2, Len(Q) = i
<1>4. \A j \in 1..k : R[j] = L[j]
  <2> TAKE j \in 1..k
  <2>1. CASE j <= i
    BY <1>3, <2>1 DEF Extends
  <2>2. CASE ~(j <= i)
    <3>1. j - i \in 1..(k - i) /\ i + (j - i) = j
      BY <2>2
    <3> QED
      BY <1>2, <1>3, <2>2, <3>1
  <2> QED
    BY <2>1, <2>2
<1>5. Extends(R, L)
  BY <1>1, <1>3, <1>4, <1>n DEF Extends
<1>6. Upto(L, k) = R
  BY <1>3, <1>5, UptoExtends
<1> QED
  BY <1>1, <1>6, <1>n, <1>R, <1>S

-----------------------------------------------------------------------------
(* What is committed *)

\* A majority pins the log P.
Safe(P) == \E A \in SUBSET Server : IsMajority(A) /\ Pinned(A, P)

\* A node has handed out what it has committed, and its log reaches that far.
HandedOut ==
    \A s \in Server :
        /\ node[s].commitIndex <= Len(node[s].log)
        /\ node[s].lastApplied = node[s].commitIndex
        /\ node[s].applied = Upto(node[s].log, node[s].commitIndex)

\* What a node has committed is safe.
CommitsSafe ==
    \A s \in Server : \A P \in Seq(LogEntry) :
        node[s].commitIndex > 0 /\ P = Upto(node[s].log, node[s].commitIndex) => Safe(P)

\* A request tells only of safe places, and reaches as far as it tells.
SentSafe ==
    \A m \in Appends : m.leaderCommit > 0 =>
        \E P \in Seq(LogEntry) :
            Len(P) = m.leaderCommit /\ Safe(P) /\ Reaches(Sent(m), P)

CommitInv == OrderInv /\ AckInv /\ HandedOut /\ CommitsSafe /\ SentSafe

LEMMA SafeStep ==
    ASSUME OrderInv, OrderInv', [CalmNext]_vars,
           NEW P \in Seq(LogEntry), Len(P) > 0, Safe(P)
    PROVE  Safe(P)'
<1>1. PICK A \in SUBSET Server : IsMajority(A) /\ Pinned(A, P)
  BY DEF Safe
<1>2. A # {}
  BY <1>1, MajoritiesMeet
<1>3. Pinned(A, P)' \/ Passed(A, LastTerm(P))'
  BY <1>1, <1>2, PinnedStep
<1>4. ~Passed(A, LastTerm(P))'
  BY <1>1, MajoritiesMeet DEF Passed, IsMajority
<1>5. IsMajority(A)'
  BY <1>1 DEF IsMajority
<1> QED
  BY <1>1, <1>3, <1>4, <1>5 DEF Safe

\* The log of a node in a state s keeps what is committed.
LEMMA CommittedKept ==
    ASSUME OrderInv, OrderInv', [CalmNext]_vars, HandedOut, CommitsSafe, NEW s \in Server,
           NEW Q, Q = Upto(node[s].log, node[s].commitIndex)
    PROVE  /\ node[s].commitIndex \in Nat /\ node[s].commitIndex <= Len(node[s].log)
           /\ Q \in Seq(LogEntry) /\ Len(Q) = node[s].commitIndex
           /\ Extends(Q, node[s].log) /\ Extends(Q, node'[s].log)
           /\ node[s].commitIndex > 0 => Safe(Q) /\ Safe(Q)'
<1>0. /\ node[s] \in NodeState /\ node[s].log \in Seq(LogEntry) /\ Len(node[s].log) \in Nat
      /\ node'[s].log \in Seq(LogEntry) /\ Len(node'[s].log) \in Nat
      /\ node[s].commitIndex <= Len(node[s].log)
  BY OrderTypes, OrderTypesNext DEF LogTyped, Typed, HandedOut
<1>1. node[s].commitIndex \in Nat
  BY <1>0 DEF NodeState
<1>2. Q \in Seq(LogEntry) /\ Len(Q) = node[s].commitIndex /\ Extends(Q, node[s].log)
  BY <1>0, <1>1, UptoFacts
<1>3. CASE node[s].commitIndex > 0
  <2>1. Safe(Q)
    BY <1>2, <1>3 DEF CommitsSafe
  <2>2. SentFollow(Q)
    BY <2>1 DEF Safe, Pinned
  <2>3. Safe(Q)'
    BY <1>2, <1>3, <2>1, SafeStep
  <2>4. Extends(Q, node'[s].log)
    BY <1>2, <1>3, <2>2, HolderKeeps
  <2> QED
    BY <1>0, <1>1, <1>2, <2>1, <2>3, <2>4
<1>4. CASE ~(node[s].commitIndex > 0)
  <2>1. Len(Q) = 0
    BY <1>1, <1>2, <1>4
  <2>2. Extends(Q, node'[s].log)
    BY <1>0, <2>1 DEF Extends
  <2> QED
    BY <1>0, <1>1, <1>2, <1>4, <2>2
<1> QED
  BY <1>3, <1>4

\* What UpdateCommitIndex finds replicated is safe.
LEMMA CountsSafe ==
    ASSUME OrderInv', AckInv', NEW s \in Server, NEW k \in Nat,
           Counts(s, node[s], node'[s], k)
    PROVE  k <= Len(node'[s].log) /\ \A P \in Seq(LogEntry) : P = Upto(node'[s].log, k) => Safe(P)'
<1>0. /\ k > 0 /\ node'[s].state = Leader /\ node'[s].log \in Seq(LogEntry) /\ k <= Len(node'[s].log)
      /\ node'[s].log[k].term = node'[s].currentTerm
      /\ IsMajority({s} \cup {p \in Peers(s) : node'[s].matchIndex[p] >= k})
  <2>1. node'[s].log \in Seq(LogEntry) /\ Len(node'[s].log) \in Nat
    BY OrderTypesNext DEF LogTyped, Typed
  <2> QED
    BY <2>1 DEF Counts
<1> SUFFICES ASSUME NEW P \in Seq(LogEntry), P = Upto(node'[s].log, k) PROVE Safe(P)'
  BY <1>0
<1>1. Len(P) = k /\ Extends(P, node'[s].log) /\ LastTerm(P) = node'[s].currentTerm
  BY <1>0, UptoFacts
<1>A. PICK A : A = {s} \cup {p \in Peers(s) : node'[s].matchIndex[p] >= k}
  OBVIOUS
<1>2. A \in SUBSET Server /\ IsMajority(A)
  BY <1>0, <1>A DEF Peers
<1>3. Passed(A, LastTerm(P))' \/ Pinned(A, P)'
  BY <1>0, <1>1, <1>2, <1>A DEF AckInv, Ack
<1>4. ~Passed(A, LastTerm(P))'
  BY <1>2, MajoritiesMeet DEF Passed, IsMajority
<1> QED
  BY <1>2, <1>3, <1>4 DEF Safe, IsMajority

\* The place a request tells of is one it reaches.
LEMMA ToldPlace ==
    ASSUME OrderInv, NEW m \in Appends, NEW P \in Seq(LogEntry), Len(P) > 0,
           Len(P) = m.leaderCommit, Covers(Sent(m), P), Reaches(Sent(m), P)
    PROVE  Lesser(m.leaderCommit, LastNewIndex(m)) = Len(P)
<1>f. PICK f : f = Sent(m)
  OBVIOUS
<1>1. /\ m \in AppendEntriesArgs /\ f \in Pieces /\ Len(P) \in Nat
      /\ f.base = m.prevLogIndex /\ f.entries = m.entries
      /\ m.prevLogIndex \in Nat /\ m.entries \in Seq(LogEntry) /\ Len(m.entries) \in Nat
  BY <1>f, OrderTypes DEF LogTyped, Typed, Pieces, AppendEntriesArgs, Sent
<1>2. LastPlace(f) >= Len(P)
  BY <1>f DEF Covers
<1>3. LastNewIndex(m) = LastPlace(f)
  <2>1. CASE m.entries = <<>>
    BY <1>1, <2>1 DEF LastNewIndex, LastPlace
  <2>2. CASE m.entries # <<>>
    <3>n. PICK n : n = f.base + Len(f.entries)
      OBVIOUS
    <3>1. n \in Nat /\ Holds(f, n) /\ n - f.base = Len(m.entries)
      BY <1>1, <2>2, <3>n DEF Holds
    <3>2. EntryAt(f, n).index = n
      BY <1>1, <3>1 DEF OrderInv, MatchInv, LogInv, PieceSound
    <3> QED
      BY <1>1, <2>2, <3>1, <3>2, <3>n DEF LastNewIndex, LastPlace, EntryAt
  <2> QED
    BY <2>1, <2>2
<1> QED
  BY <1>1, <1>2, <1>3 DEF Lesser, LastPlace

\* What a follower learns is safe, and its log holds it then.
LEMMA LearnsSafe ==
    ASSUME CommitInv, OrderInv', [CalmNext]_vars, NEW s \in Server, NEW m \in Appends,
           node'[s].currentTerm = m.term, HasPrevious(node[s].log, m),
           node'[s].log = MergeLog(node[s].log, m.prevLogIndex, m.entries),
           m.leaderCommit > 0
    PROVE  LET k == Lesser(m.leaderCommit, LastNewIndex(m))
           IN  /\ k = m.leaderCommit /\ k \in Nat /\ k <= Len(node'[s].log)
               /\ \A P \in Seq(LogEntry) : P = Upto(node'[s].log, k) => Safe(P)'
<1>0. /\ OrderInv /\ node[s].log \in Seq(LogEntry) /\ node'[s].log \in Seq(LogEntry)
      /\ m \in AppendEntriesArgs
  BY OrderTypes, OrderTypesNext DEF LogTyped, Typed, CommitInv
<1>1. PICK P \in Seq(LogEntry) : Len(P) = m.leaderCommit /\ Safe(P) /\ Reaches(Sent(m), P)
  BY DEF CommitInv, SentSafe
<1>2. PICK A \in SUBSET Server : IsMajority(A) /\ Pinned(A, P)
  BY <1>1 DEF Safe
<1>3. Safe(P)'
  BY <1>0, <1>1, SafeStep
<1>L. PICK L : L = node[s].log
  OBVIOUS
<1>R. PICK R : R = node'[s].log
  OBVIOUS
<1>4. PICK c \in Nat : MergedAt(Whole(L), Sent(m), Whole(R), c)
  BY <1>0, <1>L, <1>R, MergeParts
<1>5. L \in Seq(LogEntry) /\ R \in Seq(LogEntry) /\ Whole(L) \in Pieces /\ Whole(R) \in Pieces'
  <2>1. Whole(L) \in Pieces
    BY <1>L DEF Pieces
  <2>2. Whole(R) \in Pieces'
    BY <1>R DEF Pieces
  <2> QED
    BY <1>0, <1>L, <1>R, <2>1, <2>2
<1>6. Ordered(Whole(L)) /\ Agree(Whole(R), Whole(P))
  <2>1. Ordered(Whole(L))
    BY <1>0, <1>5 DEF OrderInv
  <2>2. PiecesFit(P)'
    BY <1>3 DEF Safe, Pinned
  <2> QED
    BY <1>5, <2>1, <2>2 DEF PiecesFit
<1>7. (Reaches(Whole(L), P) => Extends(P, L)) /\ Covers(Sent(m), P)
  BY <1>2, <1>L DEF Pinned, LogsFollow, SentFollow
<1>8. Extends(P, R)
  BY <1>1, <1>4, <1>5, <1>6, <1>7, MergeTakes
<1>9. Len(P) \in Nat /\ Len(P) <= Len(R) /\ Upto(R, Len(P)) = P
  BY <1>5, <1>8, UptoExtends
<1>10. Lesser(m.leaderCommit, LastNewIndex(m)) = Len(P)
  BY <1>0, <1>1, <1>7, ToldPlace
<1> QED
  BY <1>1, <1>3, <1>9, <1>10, <1>R

\* What one step does to what a node has committed and handed out.
LEMMA NodeCommits ==
    ASSUME CommitInv, OrderInv', AckInv', [CalmNext]_vars, NEW s \in Server
    PROVE  /\ node'[s].commitIndex <= Len(node'[s].log)
           /\ node'[s].lastApplied = node'[s].commitIndex
           /\ node'[s].applied = Upto(node'[s].log, node'[s].commitIndex)
           /\ node'[s].commitIndex >= node[s].commitIndex
           /\ \A P \in Seq(LogEntry) :
                 node'[s].commitIndex > 0 /\ P = Upto(node'[s].log, node'[s].commitIndex)
                     => Safe(P)'
<1>L. PICK L : L = node'[s].log
  OBVIOUS
<1>k. PICK k : k = node[s].commitIndex
  OBVIOUS
<1>Q. PICK Q : Q = Upto(node[s].log, k)
  OBVIOUS
<1>0. /\ Shape /\ L \in Seq(LogEntry) /\ Len(L) \in Nat
      /\ node[s].lastApplied = k /\ node[s].applied = Q
  BY <1>L, <1>k, <1>Q, OrderTypes, OrderTypesNext DEF LogTyped, Typed, CommitInv, HandedOut
<1>1. /\ k \in Nat /\ Q \in Seq(LogEntry) /\ Len(Q) = k /\ Extends(Q, L)
      /\ k > 0 => Safe(Q)'
  BY <1>k, <1>L, <1>Q, CommittedKept DEF CommitInv
<1>n. k \in Nat /\ Q \in Seq(LogEntry) /\ Len(Q) = k /\ Extends(Q, L)
  BY <1>1
<1>2. CASE SameCommit(node[s], node'[s])
  <2>1. Upto(L, k) = Q /\ k <= Len(L)
    BY <1>0, <1>n, UptoExtends
  <2>2. node'[s].commitIndex = k /\ node'[s].lastApplied = k /\ node'[s].applied = Q
    BY <1>0, <1>2, <1>k DEF SameCommit
  <2>3. ASSUME NEW P \in Seq(LogEntry), node'[s].commitIndex > 0,
               P = Upto(node'[s].log, node'[s].commitIndex)
        PROVE  Safe(P)'
    <3>1. k > 0 /\ P = Q
      BY <1>L, <2>1, <2>2, <2>3
    <3> QED
      BY <1>1, <3>1
  <2>4. node'[s].commitIndex >= k
    BY <1>n, <2>2
  <2> QED
    BY <1>L, <1>k, <2>1, <2>2, <2>3, <2>4
<1>3. ASSUME NEW j \in Nat, j > k, Hands(node[s], node'[s], j), j <= Len(L),
             \A P \in Seq(LogEntry) : P = Upto(L, j) => Safe(P)'
      PROVE  /\ node'[s].commitIndex = j /\ node'[s].lastApplied = j
             /\ node'[s].applied = Upto(L, j) /\ j >= k
  <2>1. /\ node'[s].commitIndex = j /\ node'[s].lastApplied = j
        /\ node'[s].applied = Q \o SubSeq(L, k + 1, Lesser(j, Len(L)))
    BY <1>0, <1>n, <1>3, <1>L DEF Hands
  <2>2. Q \o SubSeq(L, k + 1, Lesser(j, Len(L))) = Upto(L, j)
    BY <1>0, <1>n, <1>3, ApplyMore
  <2>3. j >= k
    BY <1>n, <1>3
  <2> QED
    BY <2>1, <2>2, <2>3
<1>4. CASE Learns(s)
  <2>m. PICK m \in Appends :
            /\ node'[s].currentTerm = m.term /\ HasPrevious(node[s].log, m)
            /\ node'[s].log = MergeLog(node[s].log, m.prevLogIndex, m.entries)
            /\ m.leaderCommit > node[s].commitIndex
            /\ Hands(node[s], node'[s], Lesser(m.leaderCommit, LastNewIndex(m)))
    BY <1>4 DEF Learns
  <2>j. PICK j : j = Lesser(m.leaderCommit, LastNewIndex(m))
    OBVIOUS
  <2>1. m.leaderCommit > 0
    <3>1. m \in AppendEntriesArgs
      BY OrderTypes DEF LogTyped, Typed, CommitInv
    <3> QED
      BY <1>1, <1>k, <2>m, <3>1 DEF AppendEntriesArgs
  <2>2. /\ j = m.leaderCommit /\ j \in Nat /\ j <= Len(L)
        /\ \A P \in Seq(LogEntry) : P = Upto(L, j) => Safe(P)'
    BY <1>L, <2>1, <2>j, <2>m, LearnsSafe
  <2>3. j > k /\ Hands(node[s], node'[s], j)
    BY <1>k, <2>2, <2>j, <2>m
  <2>4. /\ node'[s].commitIndex = j /\ node'[s].lastApplied = j
        /\ node'[s].applied = Upto(L, j) /\ j >= k
    BY <1>3, <2>2, <2>3
  <2> QED
    BY ONLY <1>L, <1>k, <2>4, <2>2, <2>3
<1>5. CASE Commits(s)
  <2>j. PICK j \in Nat : Counts(s, node[s], node'[s], j) /\ Hands(node[s], node'[s], j)
    BY <1>5 DEF Commits
  <2>1. j <= Len(L) /\ \A P \in Seq(LogEntry) : P = Upto(L, j) => Safe(P)'
    BY <1>L, <2>j, CountsSafe
  <2>2. j > k
    BY <1>k, <2>j DEF Counts
  <2>4. /\ node'[s].commitIndex = j /\ node'[s].lastApplied = j
        /\ node'[s].applied = Upto(L, j) /\ j >= k
    BY <1>3, <2>1, <2>2, <2>j
  <2> QED
    BY ONLY <1>L, <1>k, <2>4, <2>1, <2>2, <2>j
<1> QED
  BY <1>0, <1>2, <1>4, <1>5, CommitMoves

LEMMA CommitTypes ==
    ASSUME CommitInv, NEW s \in Server
    PROVE  /\ node[s].log \in Seq(LogEntry) /\ Len(node[s].log) \in Nat
           /\ node[s].commitIndex \in Nat /\ node[s].currentTerm \in Nat
           /\ node[s].commitIndex <= Len(node[s].log)
<1>1. node[s] \in NodeState /\ node[s].log \in Seq(LogEntry) /\ Len(node[s].log) \in Nat
      /\ node[s].currentTerm \in Nat
  BY OrderTypes DEF LogTyped, Typed, CommitInv
<1> QED
  BY <1>1 DEF NodeState, CommitInv, HandedOut

LEMMA SentSafeStep ==
    ASSUME CommitInv, OrderInv', [CalmNext]_vars
    PROVE  SentSafe'
<1>0. Shape /\ Typed /\ OrderInv /\ NextBound
  BY OrderTypes DEF LogTyped, CommitInv, OrderInv, MatchInv
<1> SUFFICES ASSUME NEW m, m \in Appends', m.leaderCommit > 0
             PROVE  \E P \in Seq(LogEntry) :
                        Len(P) = m.leaderCommit /\ Safe(P)' /\ Reaches(Sent(m), P)
  BY DEF SentSafe
<1>1. CASE m \in Appends
  <2>1. PICK P \in Seq(LogEntry) : Len(P) = m.leaderCommit /\ Safe(P) /\ Reaches(Sent(m), P)
    BY <1>1 DEF CommitInv, SentSafe
  <2>2. Safe(P)'
    BY <1>0, <2>1, SafeStep
  <2> QED
    BY <2>1, <2>2
<1>2. CASE m \notin Appends
  <2>l. PICK l \in Server : node[l].state = Leader /\ \E p \in Peers(l) : m = AppendRequest(l, node[l], p)
    BY <1>0, <1>2, SentMoves
  <2>p. PICK p \in Peers(l) : m = AppendRequest(l, node[l], p)
    BY <2>l
  <2>L. PICK L : L = node[l].log
    OBVIOUS
  <2>f. PICK f : f = Sent(m)
    OBVIOUS
  <2>P. PICK P : P = Upto(L, node[l].commitIndex)
    OBVIOUS
  <2>1. /\ node[l] \in NodeState /\ L \in Seq(LogEntry) /\ Len(L) \in Nat
        /\ Whole(L) \in Pieces /\ node[l].nextIndex[p] <= Len(L) + 1
    BY <1>0, <2>l, <2>L DEF Typed, Pieces, NextBound, Peers
  <2>2. m.leaderCommit = node[l].commitIndex
    BY <2>p DEF AppendRequest
  <2>3. /\ P \in Seq(LogEntry) /\ Len(P) = m.leaderCommit /\ Extends(P, L)
        /\ Safe(P)'
    BY <1>0, <2>2, <2>L, <2>P, CommittedKept DEF CommitInv
  <2>4. Ordered(Whole(L))
    BY <1>0, <2>1 DEF OrderInv
  <2>5. Reaches(Whole(L), P) /\ Len(L) >= Len(P)
    BY <2>1, <2>3, <2>4, HoldsReaches
  <2>6. LastPlace(f) = Len(L) /\ (Len(L) > 0 => EndTerm(f) = LastTerm(L))
    BY <2>1, <2>p, <2>L, <2>f, RequestEnd
  <2>7. Len(L) > 0 /\ LastPlace(Whole(L)) = Len(L) /\ EndTerm(Whole(L)) = LastTerm(L)
    <3>1. Len(P) \in Nat
      BY <2>3
    <3> QED
      BY <2>1, <2>3, <2>5, <3>1, WholeEnd
  <2>8. Reaches(f, P)
    BY <2>5, <2>6, <2>7 DEF Reaches
  <2> QED
    BY <2>3, <2>8, <2>f
<1> QED
  BY <1>1, <1>2

LEMMA InitCommitInv == Init => CommitInv
<1> SUFFICES ASSUME Init PROVE CommitInv
  OBVIOUS
<1>1. OrderInv /\ AckInv
  BY InitOrderInv, InitAckInv
<1>2. \A s \in Server : /\ node[s].log = <<>> /\ node[s].commitIndex = 0
                        /\ node[s].lastApplied = 0 /\ node[s].applied = <<>>
  BY DEF Init, InitNode
<1>3. HandedOut /\ CommitsSafe
  <2>E. PICK E : E = <<>>
    OBVIOUS
  <2>1. E \in Seq(LogEntry) /\ Len(E) = 0
    BY <2>E
  <2>2. Extends(E, E)
    BY <2>1 DEF Extends
  <2>3. Upto(E, Len(E)) = E
    BY <2>1, <2>2, UptoExtends
  <2> QED
    BY <1>2, <2>E, <2>1, <2>3 DEF HandedOut, CommitsSafe
<1>4. SentSafe
  BY DEF Init, SentSafe, Appends, EmptyBag, SetToBag
<1> QED
  BY <1>1, <1>3, <1>4 DEF CommitInv

LEMMA NextCommitInv == CommitInv /\ [CalmNext]_vars => CommitInv'
<1> SUFFICES ASSUME CommitInv, [CalmNext]_vars PROVE CommitInv'
  OBVIOUS
<1>1. OrderInv'
  BY NextOrderInv DEF CommitInv
<1>2. AckInv'
  BY <1>1, NextAckInv DEF CommitInv
<1>3. HandedOut'
  BY <1>1, <1>2, NodeCommits DEF HandedOut
<1>4. CommitsSafe'
  BY <1>1, <1>2, NodeCommits DEF CommitsSafe
<1>5. SentSafe'
  BY <1>1, SentSafeStep
<1> QED
  BY <1>1, <1>2, <1>3, <1>4, <1>5 DEF CommitInv

LEMMA AlwaysCommitInv == Spec => [](IInv /\ (NoVoteForgotten => CommitInv))
<1> DEFINE Inv == IInv /\ (NoVoteForgotten => CommitInv)
<1>1. Init => Inv
  BY InitIInv, InitCommitInv
<1>2. Inv /\ [Next]_vars => Inv'
  <2> SUFFICES ASSUME Inv, [Next]_vars PROVE Inv'
    OBVIOUS
  <2>1. IInv'
    BY NextIInv
  <2>2. ASSUME NoVoteForgotten' PROVE CommitInv'
    BY <2>2, NextCalm, NextCommitInv DEF IInv
  <2> QED
    BY <2>1, <2>2
<1> QED
  BY <1>1, <1>2, PTL DEF Spec

-----------------------------------------------------------------------------
(* Majorities and safe prefixes *)

LEMMA MajorityGrows ==
    ASSUME NEW A, NEW B, A \subseteq B, B \subseteq Server, IsMajority(A)
    PROVE  IsMajority(B)
<1>1. IsFiniteSet(B) /\ Cardinality(A) <= Cardinality(B)
  BY ServerAssumption, FS_Subset
<1>2. Cardinality(Server) \in Nat /\ Cardinality(A) \in Nat /\ Cardinality(B) \in Nat
  BY ServerAssumption, FS_CardinalityType, FS_Subset
<1> QED
  BY <1>1, <1>2 DEF IsMajority

LEMMA AllAreMajority == IsMajority(Server)
<1>1. Cardinality(Server) \in Nat /\ Cardinality(Server) # 0
  BY ServerAssumption, FS_CardinalityType, FS_EmptySet
<1> QED
  BY <1>1 DEF IsMajority

\* Of two safe logs, the longer extends the shorter.
SafeCompare ==
    \A P, Q \in Seq(LogEntry) :
        Len(P) > 0 /\ Len(P) <= Len(Q) /\ Safe(P) /\ Safe(Q) => Extends(P, Q)

LEMMA SafeAgree == SafeCompare
<1> SUFFICES ASSUME NEW P \in Seq(LogEntry), NEW Q \in Seq(LogEntry),
                    Len(P) > 0, Len(P) <= Len(Q), Safe(P), Safe(Q)
             PROVE  Extends(P, Q)
  BY DEF SafeCompare
<1>1. PICK A \in SUBSET Server : IsMajority(A) /\ HeldBy(A, P)
  BY DEF Safe, Pinned
<1>2. PICK B \in SUBSET Server : IsMajority(B) /\ HeldBy(B, Q)
  BY DEF Safe, Pinned
<1>3. PICK v \in A : v \in B
  BY <1>1, <1>2, MajoritiesMeet
<1>L. PICK L : L = node[v].log
  OBVIOUS
<1>4. Extends(P, L) /\ Extends(Q, L)
  BY <1>1, <1>2, <1>3, <1>L DEF HeldBy
<1>5. Len(P) \in Nat /\ Len(Q) \in Nat
  OBVIOUS
<1> QED
  BY <1>4, <1>5 DEF Extends

LEMMA SafeAgreeNext == SafeCompare'
  BY SafeAgree, PTL

\* A safe log, by the node that has committed it.
LEMMA CommittedPart ==
    ASSUME CommitInv, NEW s \in Server, NEW P, P = Upto(node[s].log, node[s].commitIndex)
    PROVE  /\ P \in Seq(LogEntry) /\ Len(P) = node[s].commitIndex /\ Extends(P, node[s].log)
           /\ node[s].applied = P
           /\ node[s].commitIndex > 0 => Safe(P)
<1>1. P \in Seq(LogEntry) /\ Len(P) = node[s].commitIndex /\ Extends(P, node[s].log)
  BY CommitTypes, UptoFacts
<1> QED
  BY <1>1 DEF CommitInv, HandedOut, CommitsSafe

LEMMA EmptyExtends ==
    ASSUME NEW P \in Seq(LogEntry), NEW Q \in Seq(LogEntry), Len(P) = 0
    PROVE  Extends(P, Q)
  BY DEF Extends

-----------------------------------------------------------------------------
(* The safety properties of Raft.tla *)

\* What a node has committed, as a leader by UpdateCommitIndex or as a follower by the
\* LeaderCommit of a request, is held by a majority, through every truncation by
\* AppendEntries (CommittedOnMajority).
THEOREM MajorityHolds == Spec => []CommittedOnMajority
<1>1. (NoVoteForgotten => CommitInv) => CommittedOnMajority
  <2> SUFFICES ASSUME CommitInv, NEW s \in Server, NEW k, k = node[s].commitIndex
               PROVE  IsMajority({p \in Server : /\ Len(node[p].log) >= k
                                                 /\ Upto(node[p].log, k) = Upto(node[s].log, k)})
    BY DEF CommittedOnMajority
  <2>P. PICK P : P = Upto(node[s].log, k)
    OBVIOUS
  <2>B. PICK B : B = {p \in Server : Len(node[p].log) >= k /\ Upto(node[p].log, k) = P}
    OBVIOUS
  <2>1. P \in Seq(LogEntry) /\ Len(P) = k /\ (k > 0 => Safe(P)) /\ k \in Nat
    BY <2>P, CommittedPart, CommitTypes
  <2>2. \A p \in Server : Extends(P, node[p].log) => p \in B
    <3> SUFFICES ASSUME NEW p \in Server, Extends(P, node[p].log) PROVE p \in B
      OBVIOUS
    <3>1. node[p].log \in Seq(LogEntry) /\ Len(node[p].log) \in Nat
      BY CommitTypes
    <3>2. Len(P) <= Len(node[p].log) /\ Upto(node[p].log, Len(P)) = P
      BY <2>1, <3>1, UptoExtends
    <3> QED
      BY <2>1, <2>B, <3>1, <3>2
  <2>3. CASE k > 0
    <3>1. PICK A \in SUBSET Server : IsMajority(A) /\ HeldBy(A, P)
      BY <2>1, <2>3 DEF Safe, Pinned
    <3>2. A \subseteq B /\ B \subseteq Server
      BY <2>2, <2>B, <3>1 DEF HeldBy
    <3> QED
      BY <2>B, <2>P, <3>1, <3>2, MajorityGrows
  <2>4. CASE ~(k > 0)
    <3>1. \A p \in Server : Extends(P, node[p].log)
      BY <2>1, <2>4, CommitTypes, EmptyExtends
    <3>2. B = Server
      BY <2>2, <2>B, <3>1
    <3> QED
      BY <2>B, <2>P, <3>2, AllAreMajority
  <2> QED
    BY <2>3, <2>4
<1> QED
  BY <1>1, AlwaysCommitInv, PTL

\* No two nodes hand different entries to LogEntryCommitted at one place: what
\* ApplyCommittedEntries hands out is safe, and two majorities share a node
\* (StateMachineSafety).
THEOREM MachinesAgree == Spec => []StateMachineSafety
<1>1. (NoVoteForgotten => CommitInv) => StateMachineSafety
  <2> SUFFICES ASSUME CommitInv, NEW s \in Server, NEW t \in Server,
                      NEW k \in 1..Lesser(Len(node[s].applied), Len(node[t].applied))
               PROVE  node[s].applied[k] = node[t].applied[k]
    BY DEF StateMachineSafety
  <2>P. PICK P : P = Upto(node[s].log, node[s].commitIndex)
    OBVIOUS
  <2>Q. PICK Q : Q = Upto(node[t].log, node[t].commitIndex)
    OBVIOUS
  <2>1. /\ P \in Seq(LogEntry) /\ node[s].applied = P /\ (Len(P) > 0 => Safe(P))
        /\ Q \in Seq(LogEntry) /\ node[t].applied = Q /\ (Len(Q) > 0 => Safe(Q))
        /\ Len(P) \in Nat /\ Len(Q) \in Nat
    BY <2>P, <2>Q, CommittedPart, CommitTypes
  <2>2. k \in 1..Len(P) /\ k \in 1..Len(Q) /\ Len(P) > 0 /\ Len(Q) > 0
    BY <2>1 DEF Lesser
  <2>3. CASE Len(P) <= Len(Q)
    <3>1. Extends(P, Q)
      BY <2>1, <2>2, <2>3, SafeAgree DEF SafeCompare
    <3> QED
      BY <2>1, <2>2, <3>1 DEF Extends
  <2>4. CASE Len(Q) <= Len(P)
    <3>1. Extends(Q, P)
      BY <2>1, <2>2, <2>4, SafeAgree DEF SafeCompare
    <3> QED
      BY <2>1, <2>2, <3>1 DEF Extends
  <2> QED
    BY <2>1, <2>3, <2>4
<1> QED
  BY <1>1, AlwaysCommitInv, PTL

\* A leader holds all that a node of its term or an earlier one has committed: the
\* votes that made it leader came from nodes that compared logs (LeaderCompleteness).
THEOREM LeadersComplete == Spec => []LeaderCompleteness
<1>1. (NoVoteForgotten => CommitInv) => LeaderCompleteness
  <2> SUFFICES ASSUME CommitInv, NEW l \in Server, NEW s \in Server, node[l].state = Leader,
                      node[l].currentTerm >= node[s].currentTerm
               PROVE  Upto(node[l].log, node[s].commitIndex)
                          = Upto(node[s].log, node[s].commitIndex)
    BY DEF LeaderCompleteness
  <2>P. PICK P : P = Upto(node[s].log, node[s].commitIndex)
    OBVIOUS
  <2>1. /\ P \in Seq(LogEntry) /\ Len(P) = node[s].commitIndex /\ Extends(P, node[s].log)
        /\ (Len(P) > 0 => Safe(P)) /\ Len(P) \in Nat /\ LastTerm(P) \in Nat
        /\ node[l].log \in Seq(LogEntry)
        /\ node[l].currentTerm \in Nat /\ node[s].currentTerm \in Nat
    BY <2>P, CommittedPart, CommitTypes, LastTermType
  <2>2. Extends(P, node[l].log)
    <3>1. CASE Len(P) > 0
      <4>1. node[s].currentTerm >= LastTerm(P)
        BY <2>1, <3>1, HolderTerm DEF CommitInv
      <4>2. LeadersHold(P)
        BY <2>1, <3>1 DEF Safe, Pinned
      <4>3. node[l].currentTerm >= LastTerm(P)
        BY <2>1, <4>1
      <4> QED
        BY <4>2, <4>3 DEF LeadersHold
    <3>2. CASE ~(Len(P) > 0)
      BY <2>1, <3>2, EmptyExtends
    <3> QED
      BY <3>1, <3>2
  <2> QED
    BY <2>1, <2>2, <2>P, UptoExtends
<1> QED
  BY <1>1, AlwaysCommitInv, PTL

-----------------------------------------------------------------------------
(* Raft.tla implements ReplicatedLog *)

\* The node that has committed most exists: the cluster is finite.
FurthestIs ==
    /\ FurthestCommitted \in Server
    /\ \A t \in Server : node[t].commitIndex <= node[FurthestCommitted].commitIndex

LEMMA Furthest == CommitInv => FurthestIs
<1> SUFFICES ASSUME CommitInv
             PROVE  \E s \in Server : \A t \in Server : node[t].commitIndex <= node[s].commitIndex
  BY DEF FurthestIs, FurthestCommitted
<1> DEFINE Ahead(s) == {t \in Server : node[t].commitIndex > node[s].commitIndex}
           Sizes == {Cardinality(Ahead(s)) : s \in Server}
<1>1. \A s \in Server : node[s].commitIndex \in Nat
  BY CommitTypes
<1>2. ASSUME NEW s \in Server PROVE IsFiniteSet(Ahead(s)) /\ Cardinality(Ahead(s)) \in Nat
  <2>1. Ahead(s) \in SUBSET Server
    OBVIOUS
  <2>2. IsFiniteSet(Ahead(s))
    BY <2>1, ServerAssumption, FS_Subset
  <2> QED
    BY <2>2, FS_CardinalityType
<1>3. PICK s \in Server : \A t \in Server : Cardinality(Ahead(s)) <= Cardinality(Ahead(t))
  <2>1. Sizes \subseteq Nat /\ Sizes # {}
    BY <1>2, ServerAssumption
  <2>2. PICK x \in Sizes : \A y \in Sizes : x <= y
    <3> HIDE DEF Sizes
    <3> QED
      BY <2>1, LeastNat
  <2> HIDE DEF Ahead
  <2>3. PICK s \in Server : x = Cardinality(Ahead(s))
    OBVIOUS
  <2>4. \A t \in Server : Cardinality(Ahead(t)) \in Sizes
    OBVIOUS
  <2> QED
    BY <2>2, <2>3, <2>4
<1>4. ASSUME NEW t \in Server, node[t].commitIndex > node[s].commitIndex PROVE FALSE
  <2>1. Ahead(t) \in SUBSET Ahead(s) /\ t \in Ahead(s) /\ t \notin Ahead(t)
    BY <1>1, <1>4
  <2>A. PICK A : A = Ahead(s)
    OBVIOUS
  <2>B. PICK B : B = Ahead(t)
    OBVIOUS
  <2>2. IsFiniteSet(A) /\ Cardinality(A) \in Nat /\ Cardinality(B) \in Nat
        /\ Cardinality(A) <= Cardinality(B)
    BY <1>2, <1>3, <2>A, <2>B
  <2>3. B \in SUBSET A /\ A # B
    BY <2>1, <2>A, <2>B
  <2>4. Cardinality(B) <= Cardinality(A) /\ Cardinality(A) # Cardinality(B)
    BY ONLY <2>2, <2>3, FS_Subset
  <2> QED
    BY ONLY <2>2, <2>4
<1> QED
  BY <1>1, <1>4

\* What is decided is safe, and extends what each node has handed out.
DecidedIs ==
    /\ FurthestIs
    /\ Decided \in Seq(LogEntry) /\ Len(Decided) = node[FurthestCommitted].commitIndex
    /\ \A P \in Seq(LogEntry) : P = Decided /\ Len(P) > 0 => Safe(P)
    /\ \A s \in Server : node[s].applied \in Seq(LogEntry)
                         /\ Len(node[s].applied) = node[s].commitIndex
                         /\ Extends(node[s].applied, Decided)

LEMMA DecidedFacts == CommitInv => DecidedIs
<1> SUFFICES ASSUME CommitInv PROVE DecidedIs
  OBVIOUS
<1>F. PICK F : F = FurthestCommitted
  OBVIOUS
<1>D. PICK D : D = Decided
  OBVIOUS
<1>1. FurthestIs /\ F \in Server /\ \A t \in Server : node[t].commitIndex <= node[F].commitIndex
  BY <1>F, Furthest DEF FurthestIs
<1>2. /\ D = Upto(node[F].log, node[F].commitIndex)
      /\ D \in Seq(LogEntry) /\ Len(D) = node[F].commitIndex /\ (Len(D) > 0 => Safe(D))
      /\ Len(D) \in Nat
  <2>1. D = Upto(node[F].log, node[F].commitIndex)
    BY <1>D, <1>F DEF Decided
  <2> QED
    BY <1>1, <2>1, CommittedPart, CommitTypes
<1>3. ASSUME NEW s \in Server
      PROVE  /\ node[s].applied \in Seq(LogEntry) /\ Len(node[s].applied) = node[s].commitIndex
             /\ Extends(node[s].applied, D)
  <2>P. PICK P : P = Upto(node[s].log, node[s].commitIndex)
    OBVIOUS
  <2>1. /\ P \in Seq(LogEntry) /\ Len(P) = node[s].commitIndex /\ (Len(P) > 0 => Safe(P))
        /\ node[s].applied = P /\ Len(P) \in Nat
    BY <2>P, CommittedPart, CommitTypes
  <2>2. Len(P) <= Len(D)
    BY <1>1, <1>2, <2>1
  <2>3. CASE Len(P) > 0
    <3>1. Len(D) > 0
      BY <1>2, <2>1, <2>2, <2>3
    <3> QED
      BY <1>2, <2>1, <2>2, <2>3, <3>1, SafeAgree DEF SafeCompare
  <2>4. CASE ~(Len(P) > 0)
    BY <1>2, <2>1, <2>4, EmptyExtends
  <2> QED
    BY <2>1, <2>3, <2>4
<1> QED
  BY <1>1, <1>2, <1>3, <1>D, <1>F DEF DecidedIs

LEMMA DecidedNext == CommitInv' => DecidedIs'
  BY DecidedFacts, PTL

LEMMA ExtendsContinues ==
    ASSUME NEW a \in Seq(LogEntry), NEW b \in Seq(LogEntry), Extends(a, b)
    PROVE  Abstract!Continues(b, a)
<1>n. PICK n : n = Len(a)
  OBVIOUS
<1>1. n \in Nat /\ n <= Len(b) /\ Len(b) \in Nat /\ \A j \in 1..n : b[j] = a[j]
  BY <1>n DEF Extends
<1>c. PICK c : c = SubSeq(b, 1, n)
  OBVIOUS
<1>2. c \in Seq(LogEntry) /\ Len(c) = n /\ \A j \in 1..n : c[j] = b[j]
  BY <1>1, <1>c
<1>3. c = a
  BY ONLY <1>1, <1>2, <1>n, a \in Seq(LogEntry)
<1> QED
  BY <1>1, <1>3, <1>c, <1>n DEF Abstract!Continues

LEMMA InitImplements == Init => Abstract!Init
<1> SUFFICES ASSUME Init PROVE Abstract!Init
  OBVIOUS
<1>1. DecidedIs
  BY InitCommitInv, DecidedFacts
<1>2. \A s \in Server : node[s].commitIndex = 0 /\ node[s].applied = <<>>
  BY DEF Init, InitNode
<1>3. Decided = <<>>
  <2>1. Decided \in Seq(LogEntry) /\ Len(Decided) = 0
    BY <1>1, <1>2 DEF DecidedIs, FurthestIs
  <2> QED
    BY <2>1
<1> QED
  BY <1>2, <1>3 DEF Abstract!Init, Delivered

\* The decided sequence only grows at its end.
LEMMA DecidedGrows ==
    ASSUME CommitInv, CommitInv', [CalmNext]_vars
    PROVE  Extends(Decided, Decided')
<1>D. PICK D : D = Decided
  OBVIOUS
<1>E. PICK E : E = Decided'
  OBVIOUS
<1>F. PICK F : F = FurthestCommitted
  OBVIOUS
<1>G. PICK G : G = FurthestCommitted'
  OBVIOUS
<1>1. /\ D \in Seq(LogEntry) /\ Len(D) = node[F].commitIndex /\ F \in Server
      /\ Len(D) > 0 => Safe(D)
  BY <1>D, <1>F, DecidedFacts DEF DecidedIs, FurthestIs
<1>2. /\ E \in Seq(LogEntry) /\ Len(E) = node'[G].commitIndex
      /\ node'[F].commitIndex <= node'[G].commitIndex
  BY <1>1, <1>E, <1>G, DecidedNext DEF DecidedIs, FurthestIs
<1>3. Len(E) > 0 => Safe(E)'
  BY <1>2, <1>E, DecidedNext DEF DecidedIs
<1>4. node'[F].commitIndex >= node[F].commitIndex
  BY <1>1, NodeCommits DEF CommitInv
<1>5. Len(D) <= Len(E) /\ Len(D) \in Nat /\ Len(E) \in Nat
  <2>1. Len(D) \in Nat /\ Len(E) \in Nat
    BY <1>1, <1>2
  <2>2. node'[F].commitIndex \in Nat
    <3>1. node'[F] \in NodeState
      BY <1>1, OrderTypesNext DEF LogTyped, Typed, CommitInv
    <3> QED
      BY <3>1 DEF NodeState
  <2> QED
    BY <1>1, <1>2, <1>4, <2>1, <2>2
<1>6. CASE Len(D) > 0
  <2>1. Safe(D)'
    BY <1>1, <1>6, SafeStep DEF CommitInv
  <2>2. Len(E) > 0
    BY <1>5, <1>6
  <2>3. Extends(D, E)
    BY <1>1, <1>2, <1>3, <1>5, <1>6, <2>1, <2>2, SafeAgreeNext DEF SafeCompare
  <2> QED
    BY <2>3, <1>D, <1>E
<1>7. CASE ~(Len(D) > 0)
  <2>1. Len(D) = 0
    BY <1>5, <1>7
  <2>2. Extends(D, E)
    BY <1>1, <1>2, <2>1, EmptyExtends
  <2> QED
    BY <2>2, <1>D, <1>E
<1> QED
  BY <1>6, <1>7

\* No node takes back what it has handed out.
LEMMA DeliveredGrows ==
    ASSUME CommitInv, CommitInv', [CalmNext]_vars, NEW s \in Server
    PROVE  Extends(node[s].applied, node'[s].applied)
<1>P. PICK P : P = node[s].applied
  OBVIOUS
<1>Q. PICK Q : Q = node'[s].applied
  OBVIOUS
<1>E. PICK E : E = Decided'
  OBVIOUS
<1>D. PICK D : D = Decided
  OBVIOUS
<1>1. /\ P \in Seq(LogEntry) /\ Len(P) = node[s].commitIndex /\ Extends(P, D) /\ D \in Seq(LogEntry)
  BY <1>P, <1>D, DecidedFacts DEF DecidedIs
<1>2. /\ Q \in Seq(LogEntry) /\ Len(Q) = node'[s].commitIndex /\ Extends(Q, E) /\ E \in Seq(LogEntry)
  BY <1>Q, <1>E, DecidedNext DEF DecidedIs
<1>3. Extends(P, E)
  BY <1>1, <1>2, <1>D, <1>E, DecidedGrows, ExtendsTrans
<1>4. Len(P) <= Len(Q)
  BY <1>1, <1>2, NodeCommits DEF CommitInv
<1>5. Extends(P, Q)
  <2>1. Len(P) \in Nat /\ Len(Q) \in Nat
    BY <1>1, <1>2
  <2> QED
    BY <1>2, <1>3, <1>4, <2>1 DEF Extends
<1> QED
  BY <1>5, <1>P, <1>Q

LEMMA NextImplements ==
    ASSUME CommitInv, CommitInv', [CalmNext]_vars
    PROVE  Abstract!Next
<1>1. DecidedIs /\ DecidedIs'
  BY DecidedFacts, DecidedNext
<1>2. Abstract!Continues(Decided', Decided)
  <2>1. Decided \in Seq(LogEntry) /\ Decided' \in Seq(LogEntry)
    BY <1>1 DEF DecidedIs
  <2> QED
    BY <2>1, DecidedGrows, ExtendsContinues
<1>3. DOMAIN Delivered' = Server
  BY DEF Delivered
<1>4. ASSUME NEW s \in Server
      PROVE  /\ Abstract!Continues(Delivered'[s], Delivered[s])
             /\ Abstract!Continues(Decided', Delivered'[s])
  <2>1. Delivered[s] = node[s].applied /\ Delivered'[s] = node'[s].applied
    BY DEF Delivered
  <2>2. /\ node[s].applied \in Seq(LogEntry) /\ node'[s].applied \in Seq(LogEntry)
        /\ Decided' \in Seq(LogEntry) /\ Extends(node'[s].applied, Decided')
    BY <1>1 DEF DecidedIs
  <2> QED
    BY <2>1, <2>2, DeliveredGrows, ExtendsContinues
<1> QED
  BY <1>2, <1>3, <1>4 DEF Abstract!Next

\* Every behaviour of the cluster is one of the single growing sequence: what is
\* decided only grows at its end, and each node hands out a growing prefix of it,
\* whatever elections, delays and truncations happen in between, until a Start
\* drops a vote.
THEOREM Implements == Spec => ImplementsReplicatedLog
<1>1. Init => Abstract!Init
  BY InitImplements
<1> DEFINE Inv == IInv /\ (NoVoteForgotten => CommitInv)
           Step == NoVoteForgotten' => Abstract!Next
<1>2. Inv /\ Inv' /\ [Next]_vars => Step
  BY NextCalm, NextImplements DEF IInv
<1>3. Spec => []Inv
  BY AlwaysCommitInv
<1> HIDE DEF Inv, Step
<1>4. Spec => Abstract!Init /\ [][Step]_(Abstract!vars)
  BY <1>1, <1>2, <1>3, PTL DEF Spec
<1> QED
  BY <1>4 DEF ImplementsReplicatedLog, Step

=============================================================================
