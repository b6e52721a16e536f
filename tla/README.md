# Verification of com.bson

TLA+ models of the concurrent and algorithmic cores of this repository, TLC configurations that
check them on small instances, and proofs for TLAPS. The repository is a collection of
independent programs; nothing is shared between them, so each has its own modules.

## 1. Inventory

### Raft (`src/dotnet/Raft`)
`Raft.Client/Raft.cs` is a consensus library for nodes of one process.

* **State per node**: `CurrentTerm`, `VotedFor`, `Log`, `CommitIndex`, `LastApplied`,
  `State`, `CurrentLeader`, the votes received, `nextIndex` and `matchIndex` per
  peer; and the registry of node objects that the constructor fills.
* **Operations**: constructor and `Start`; `SubmitCommand`; the handlers `RequestVote` and
  `AppendEntries`; the election timeout (`ConvertToCandidate`,
  `SendRequestVoteRPCs`, `ProcessRequestVoteResult`); the heartbeat loop
  (`SendHeartbeats`, `ProcessAppendEntriesResult`, `UpdateCommitIndex`);
  `ApplyCommittedEntries` and its event. There is no way to stop a node.
* **Interaction**: an RPC is a call on the peer's object after a `Task.Delay(1)`.
  The handler and the processing of its answer run back to back on the caller's
  thread, so requests are in flight and answers are not. Nothing is locked.
* **Hard**: requests overtake one another; a vote task reads its term when the pool
  runs it; handlers race on one object; a node answers before it is started, and `Start`
  takes back the vote it gave; nothing is persisted.
* **Correct when**: one leader a term; committed entries are never lost; logs match; every
  node hands out the same sequence; entries reach the nodes that can be reached.

`Raft.Demo` is a dictionary over the library and a console.

### Dispatcher (`src/dotnet/Dispatcher`)
`AsyncDispatcher` runs work items in order per key and in parallel between keys.

* **State**: one bounded channel and one worker task per partition, the
  cancellation source, the `_stopped` flag, `DrainOnDispose`.
* **Operations**: `EnqueueAsync`, the worker `ProcessPartition`, `StopAsync`, `Dispose`.
* **Hard**: writers that wait at a full channel; items that enqueue items; a stop, by
  draining or by cancelling, at any point; an item's exception that looks like
  the channel's own; an item that waits for room only its own worker can make; two callers of stop.
* **Correct when**: items of a key run one at a time in the order of their calls; accepted
  items run once and rejected ones never; a stop ends and is quiet afterwards.

The hashes (`Hash/`) map keys to partitions.

### Brewing controller (`src/python/brew`)
`BrewController` keeps a kettle at a temperature: `start` and `stop` come from threads
of a web server, a control loop reads a thermocouple, asks a PID controller for a
power and runs a heater cycle on a relay.

* **State**: `is_running`, the stop event, the worker thread, the heater's power
  and flag, the relay, the PID's terms.
* **Hard**: two callers; a stop that times out while the loop sleeps in a cycle; a
  broken sensor; a relay that somebody must switch off last.
* **Correct when**: one loop drives the heater; the relay is off after a stop and when no loop
  runs; a session starts with a fresh PID; a stop ends the loop.

Also `PIDController`, the MAX31855 thermocouple, mocks for the hardware, the web server and
command line.

### First brewing program and its page (`src/python/brew`)
`brew.py` and `server.py` are the program the controller replaced; `html/index.html` and
`js/piBrew.js` steer it from a browser.

* **State**: `isStarted`, the workers, the relay; on the page the text of the start/stop
  button, `doPoll` and the timeouts of `poll`.
* **Operations**: the requests `start`, `stop`, `on`, `off` and `getStatus`, `_worker`,
  `runCycle`; the click handlers, `poll`, loading the page.
* **Hard**: clicks overlap, their requests overtake each other, answers are lost, the page is
  reloaded; two requests test a flag before either sets it; a stop and a start
  within one cycle leave two workers; a reading that raises ends a worker.
* **Correct when**: the button agrees with the controller after a click that met no other;
  the relay is on only while somebody will switch it off; a started controller has a worker; a stop ends
  the workers; polling goes on.

### Hilbert index (`src/dotnet/HilbertIndex`)
`HilbertCode` numbers the cells of a grid along a Hilbert curve and covers a box of
cells with ranges of numbers; `HilbertIndex` searches a sorted list of items
with those ranges (`Within`, `NearestNeighbours`).

* **State**: the list, and a lazy iterator's position in ranges and items.
* **Hard**: boxes across the date line and at the edges, compaction of ranges, unsigned
  differences, several items in one cell, neighbours on the curve that are far on
  the map.
* **Correct when**: the curve is a bijection with adjacent steps, ranges cover their box, and a
  search finds what lies in it once, the nearest item included.

`GeoUtils` and the projections are floating-point geometry.

### Vector tiles (`src/dotnet/MvtNet`)
`MvtNet` encodes features into Mapbox vector tiles.

* **State**: the layers by name and in order; per layer the feature buffer, the interned
  keys and values, the scratch buffer of tags, the next id.
* **Operations**: `Layer`, `AddPoint`, `AddLineString`, `AddPolygon`, `AddGeoJson`, `Build`;
  below them the clippers, `Orient` and the command writer.
* **Hard**: indexes handed out while the tables grow, a call that throws half way,
  lengths computed before the bytes, a cursor that runs through all rings, clipping and
  rounding that may flatten or turn a ring.
* **Correct when**: a reader of the tile gets the attributes, ids and (to a pixel) the shapes that
  were added.

Geohashes, `GeoJsonReader`, a demo and benchmarks stand beside it.

### UDP forwarder (`src/rust/ipforward`)
`UdpForwarder` relays datagrams between clients and one target.

* **State**: two sockets, the map of clients behind a lock, the buffers of two tasks.
* **Operations**: `local_to_target` (receive, store the client, send), `target_to_local`
  (receive, look the client up, send), Ctrl+C.
* **Hard**: the tasks interleave at every await; datagrams are lost, repeated, reordered; a
  send may fail; the map has one entry, keyed by the target.
* **Correct when**: no answer of the target is dropped as unknown or sent to a client that
  was heard before the one that asked; errors stop neither direction.

## 2. Plan

| step | modules | state |
|---|---|---|
| 1 | `RaftNode`, `Raft`, `ReplicatedLog`, `RaftImplements`, proofs of election safety | done |
| 2 | `RaftVoteRace`, `RaftSubmitRace`: handlers split where two threads meet | done |
| 3 | `Dispatcher`, with proofs | done |
| 4 | `Brew`, with proofs | done |
| 5 | `HilbertCode`, `HilbertIndex` | done |
| 6 | `Forwarder`, with proofs | done |
| 7 | `BrewPage`, with proofs | done |
| 8 | `TileGeometry`, `TileBuilder` | done |
| 9 | PID, thermocouple and heater-cycle arithmetic; partition hashes | open |
| 10 | `ApplyCommittedEntries` split as `RequestVote` is; single-node clusters | open |
| 11 | `RaftProofs`: `LogMatching`, `LeaderAppendOnly`, `MatchIndexSound` | done |
| 12 | `RaftCommitProofs`: commitment, completeness, state machines and the refinement of `ReplicatedLog`; `DrainRunsAccepted` of the dispatcher | done |
| 13 | `HilbertProofs`: the curve, the ranges of boxes, wrapped ones too, the walk, both searches | done |
| 14 | `TileProofs`: the tags and sizes of tiles, the round trip of geometries | done |

Abstract specifications: `ReplicatedLog` (one growing sequence, delivered in order to everybody)
is written and implemented by `Raft`. The dispatcher's, one queue per key, is stated as `KeyOrder`
and `NoneLost`, proved for any number of items and partitions.

## 3. Modules

**Raft.** `RaftNode` holds what a handler does to the fields of one node, one operator per
method, named as in the code. `Raft` composes them: `node` (the objects), `registry`,
`voteTasks` (vote tasks the pool has not run), `rpcs` (a bag: requests in flight), and two
histories, `applied` in each node and `elections`. A code segment between two awaits is one
step; a delivered request is the peer's handler together with the processing of its answer. The
constructor (`Construct`), which registers a node and makes it answer, and `Start`, which makes
it a follower without a vote in the term it is in, are two steps with any others between them, of
its peers and of itself: it may grant votes and take entries before it is started. A third
history, `forgotten`, keeps the terms in which a `Start` dropped a vote; `NoVoteForgotten` says
there are none. Of such a term nothing is left of election safety, and of what rests on it. So
`ElectionSafety` is stated of the other terms, `VotesKept` of every step but a node's own
`Start`, and the properties of logs while `NoVoteForgotten` holds. `RaftImplements` maps `Raft` to
`ReplicatedLog`: decided is the committed log of a node that has committed most, delivered what
the events have handed out. `RaftVoteRace` and `RaftSubmitRace` give up the atomicity for two
methods. In the first, `RequestVote`'s test of `VotedFor` and its assignment are two steps, with
two candidates calling; in the second, `SubmitCommand`'s reading of `Log.Count` and its `Add`
are, with two callers.

**Dispatcher.** `queue`, `writers` (waiting `WriteAsync` calls), `closed`, `worker` (where
`ProcessPartition` stands), `stopped`, `cancelled`, `caller` (where each `StopAsync` stands);
`admitted` and `started` are histories. .NET channels are external and modelled from their use:
first come first served, `Complete` fails waiting writers, a completed channel is drained before
its reader is told. `DrainOnDispose` is chosen at the start, so one run covers both ways to
stop. Items end, throw, or see a cancelled token, each at the model's choice.
An item may enqueue another, on its own partition too. If that is full its worker waits for room
that only itself could make; two workers may wait so for each other, or one for a worker that has
ended. `Blocked` is the set of these partitions: the largest one each of whose workers waits for
a worker of the set or an ended one. A cancellation does not reach such a wait.

**Brew.** Every statement of `start`, `stop` and the control loop that reads or writes a field
of another thread is a step. `at` is where a thread stands, `duty` the level a loop's current
cycle was started with. Power has three levels, as a heater cycle has: nothing switched, on then
off, on throughout. The PID may answer any level. The history `smooth` says that no two calls
have overlapped and no join has timed out: what is promised only then is stated with it, so that
one model, with two callers and cycles as long as may be, shows both what holds in orderly use
and what remains in any.

**Forwarder.** A step is what a task does between two awaits: `upAt` and `downAt` say where each
stands. A datagram is its client and its number, and the map keeps the datagram it learnt a
client from, so that "heard later" can be said. The network is a target that may answer anything
it was ever sent, at any time and any number of times, strangers that send to the target's
socket, and bounded receive buffers.

**BrewPage.** A click and the request, and for a start the worker, that come of it share a
number. `click[k]` runs through the handler of the server statement by statement; its answer or
the request may be lost. `timers` counts the pending timeouts of `poll`. `alone`, `byPin` and
`died` are histories the properties need to say when the button, the relay or the flag can be
relied on.

**Tiles.** `TileGeometry` is the arithmetic: both clippers on exact fractions (the code computes
in `double`), rounding half to even as `Math.Round` does, orientation, the command writer, and
as the reference a decoder after the Mapbox specification. `TileBuilder` is the state machine: a
step is a call of `Layer` or of an Add method, with clipping, encoding, interning and the ids. A
buffer is the sequence of its fields. Callers give what `ProjectUnrounded` computes, in
`1/Grain` of a pixel, for any `Grain`: points and bounding boxes are compared with the buffer
before they are rounded, lines and rings are rounded (`ProjectAll`) and then clipped, each as in
the code. A varint is its value, and of a string's bytes the number
counts. What `Build` declares (`VarintSize`, `BodySize`) and what it writes (`WriteVarint`,
`LayerWritten`) are separate definitions, as in the code. `Source` gives each behaviour what its
callers add.

**Hilbert.** `HilbertCode` is the arithmetic. The four methods `SplitQuadA` to `D` with their nine
cases each are one table, `Quarters`, and one rule per axis (`Meets`, `Start`, `Length`). `ULong`
is the width of unsigned arithmetic: any value of at least twice the square of the largest grid
gives the comparisons of the code's 2^64; at resolution 30 that is 2^61. `HilbertIndex` is the
iterator of `ExtractItems` as a state machine, range by range and item by item. `BinarySearch`
gives any of several equal items, as the library promises no more. Each box of the grid is a
`Within`; a query's distances on the globe are left out. `CoverOf` only computes the covers of the
boxes once; `OrderBy` is the library's stable sort, an insertion of pairs, also of the at most two
parts `WrapOverlap` sorts. The loops of `Encode`, `DecodeToPoint` and `CompactRanges` and the
recursion of `SplitQuad` are recursive functions, so that they can be proved about; the
resolutions of the constructor (`HilbertCode.cs:46`) are an assumption on the grids' sides, the
sorted list of `HilbertIndex.cs:9` one on the items.

`MC*` modules give the constants of the instances. An operator commented *Fault* is a slip the
code could contain. It stands before the definition it would replace and nothing uses it:
replacing the definition by it must break a property.

## 4. Runs

| run | asks | bounds |
|---|---|---|
| `raft_elections` | one winner of each term in which no `Start` dropped a vote, votes kept by every other step; committed entries in every later leader; the same entries handed out | 3 nodes, 4 terms, logs of 1, 2 requests in flight (`ElectionBound`: 3 terms and no entries once a vote is dropped) |
| `raft_logs` | matching logs, sound `matchIndex`, majorities, leaders only append, refinement of `ReplicatedLog` | 3 nodes, 2 terms, logs of 2, 3 in flight, until a vote is dropped |
| `raft_catches_up` | types; a leader's entry is applied by every node it can reach | 2 nodes, 3 terms, logs of 2, 2 in flight |
| `raft_vote_race` | violated: two leaders of one term | 3 nodes, 1 term |
| `raft_submit_race` | violated: two entries with one index | 2 nodes, 3 commands |
| `dispatcher` | order per key, nothing lost, drain, what a stop has settled when it returns, and three progress properties | 7 items, two enqueued by an item of the other partition and one by an item of its own, 2 partitions of capacity 1, 2 callers, a handler that throws on one item |
| `dispatch_drain_drops` | violated: a drain leaves an accepted item | 4 items, one of which enqueues another |
| `brew` | in orderly use one loop, relay off after a stop, fresh PID; always, of the controller: heat only under a loop, a stop ends the loop, shutoff on errors as far as it holds | 2 callers, 2 sessions |
| `hilbert_searches` | the curve, covers of boxes, completeness and order of searches, nearest items | grids of 4 and 8, up to 2 items (3 in a cell), searches compacted to 4 ranges |
| `forwarder` | where answers go, that none is dropped, that both directions go on | 2 clients, 1 stranger, 3 datagrams, buffers of 2 |
| `brew_page` | the button, the relay, the flag, the workers, polling | 3 clicks, 1 pin click |
| `tiles` | tags, ids and shapes read back as given, lengths exact | a tile of 16, coordinates in tenths; 1 call of each of over 1000 shapes; 3 calls with attributes on 2 layers |

Why the bounds are enough for the cases that matter. One term is enough for a dropped vote and its
two leaders; three hold it in a term between others, whose elections have to be as safe as ever.
Entries are left out once a vote is dropped (`ElectionBound`): nothing is said of them then, and
to elections they matter only in who is up to date. With entries or in a fourth term each node has
at most one task queued that asks for votes; without either it may have more, and run them
after it has stepped down and timed out again. Four terms and one entry contain Figure 8
of the Raft paper (an entry of an old term replicated by a later leader); the mutants that count
entries of any term, or do not compare the term of the preceding entry, are caught there. Two
terms, two entries and three requests make two leaders diverge, overtake each other's heartbeats
and truncate, and let a stale request meet a new leader. Stepping back over two entries needs logs
of two. A capacity of one and three items of one partition make a writer wait behind a waiting
writer. Seven items let each worker wait for the other with its queue full, for itself, or for one
that has ended. Two loops are enough for one that was left behind by a stop that timed out, or by
a race, and its successor. Three datagrams let two clients ask and a third overtake their answers.
Three clicks are a start, a stop and a start, or two starts and a stop, or with reloads three
starts, with all three requests on the way and three workers on one relay. The tile's clip buffer
of 0.8 pixels leaves fractions to round, and points stand a tenth within and beyond it, where they
round outwards; its shapes cross every edge and corner, touch, turn back, cross themselves, and
flatten to nothing; features take 125 to 132 bytes, and strings and ids stand at 126 to 128. The
grid of eight has three levels, so that all four rotations meet each other; the grid of four is
small enough for every list and every box.

`CHECK_DEADLOCK FALSE` is set where a system may stop: a cluster at its bounds, a stopped
dispatcher, a controller nobody starts again, a search that is done, a forwarder after Ctrl+C, a
page at its last click, a tile with nothing left to add. `raft_submit_race` sets no such
exception.

**Fairness.** Raft: weak fairness for deliveries (a delay elapses, the pool runs the
continuation) and strong fairness for vote tasks and heartbeats, because only the bound
`MaxInFlight`, not the code, disables them now and then. Elections and clients are not fair.
Dispatcher: the scheduler runs workers and the continuations of `StopAsync`; items are taken to
end, since the code cannot make them. Brew: the interpreter runs every thread that is inside a
call or a loop, sleeps end; nobody is obliged to call `start` or `stop`. BrewPage: the same for
the workers only; requests may be lost. Forwarder: the runtime polls both tasks, and the awaits
of a send or the lock end; the network owes nothing.

## 5. Findings

* **Two leaders of one term** (`raft_vote_race`): `RequestVote` tests and sets
  `VotedFor` without a lock.
* **Two entries of one index** (`raft_submit_race`): `SubmitCommand` reads `Log.Count`
  and adds later; a follower then drops one of them.
* **A drain that drops** (`dispatch_drain_drops`): an item that enqueues while the
  dispatcher drains gets `ChannelClosedException`, and the worker takes it for the
  end of its own channel.

Seen in the same models, not given a run of their own, and excepted where a property would
otherwise be false:

* **A vote taken back**: the constructor registers a node, which answers from then on; `Start` calls
  `ConvertToFollower` with the current term and so clears `VotedFor` (`Raft.cs:113, 124, 277`). A
  node that has voted in between votes again in that term, and two candidates win it:
  `OneLeaderPerTerm` is false of `Raft` in its first term, and `ElectionSafety` excepts the term.
* **A cancelling stop that hangs**: an item that enqueues on its own full partition waits for room
  only its worker could make; the wait takes no token, so `StopAsync` waits for that worker for
  ever, where `DispatcherOptions.cs:37` has workers "cancelled immediately". Two workers whose items
  enqueue on each other's full partition do the same, and so does one that waits for a worker a
  throwing handler has ended. Without a stop, all that is queued behind these items waits too.
  `StopEnds`, `ItemsRun` and `WritesEnd` except what is `Blocked`, and `dispatcher` shows that they
  except enough. A draining stop completes the channels and frees the workers, at the price of the
  finding above.
* **A bow tie that is not drawn**: a ring that covers as much to its left as to its right has a
  signed area of zero and is dropped, an outer ring with its polygon, where
  `TileBuilder.cs:283-284` speaks of rings "too small to cover any area". `GeometryShown` excepts
  rings that cancel, and `tiles` contains some.

Others: `CurrentLeader` keeps the leader of an old term; an overtaken answer sets `matchIndex`
back, though never to something untrue (`MatchIndexSound`); a deposed leader answers reads of the
demo; two callers of `start` get two loops, and a cycle longer than the join outlives a stop
(`HeatedByLoop` is what remains true, and of the controller only: the web server's `/api/gpio/on`
and `off`, `web/server.py:155-190`, write the pin of the relay themselves, whatever loop there is
or is not); a full-power cycle leaves the relay on, and with a broken sensor no iteration comes to
switch it off, although `ARCHITECTURE.md:170` says "Heater auto-shutoff on errors" (`AutoShutoff`
states what holds); the thermocouple tests its sign at bit 14 of a value masked to 14 bits;
compaction of a wrapped box to one range loses cells (to two or more it does not); with several
items in a cell a search may start one item early; a nearest search whose neighbour is further
than half the grid finds nothing (`HilbertCode.cs:198` caps the box and does not move it, while
`HilbertIndex.cs:67` says "Find the nearest neighbors").

The forwarder's map has one entry for all clients, so with two of them answers go to whoever
spoke last; `PERFORMANCE_ANALYSIS.md:68` reckons with 100k entries. On the page: a stop and a
start within one cycle leave two workers and two chains of polling; a worker that dies leaves
`isStarted` true, and its first PID step may divide by a `dt` near zero; the copy of the page
under `pibrew/static` calls `/service/...`, which its server does not serve. In the tiles: `0.0`
and `-0.0` share one stored value; a point within the buffer may be written half a pixel outside of
it, and an explicit id does not advance the automatic ones, so both may give one number.

## 6. Proofs

TLAPS proves, for every cluster and every number of callers and loops:

* `RaftProofs!TypeCorrect`: `Spec => []TypeOK`.
* `RaftProofs!ElectionSafe`: `Spec => []ElectionSafety`, for the terms in which no `Start` has
  dropped a vote, whatever was dropped in others. The invariant is
  `IInv == Shape /\ VoteInv`. `ElectionSafety` alone is not inductive: one has to know
  that a counted vote is a vote given (`VotesCounted`), that the votes of a won election are
  still remembered or belong to a term its giver has left (`VotesWon`), and that
  no node counts for two candidates of a term (`CountedOnce`, `WonOnce`). Two majorities meet
  (`MajoritiesMeet`), and the node in both has voted twice.
* `RaftProofs!VotesStand`: `Spec => VotesKept`, no step goes back a term, and none but the node's
  own `Start` changes the vote of the term it is in.
* What follows about logs is proved of every behaviour up to the first `Start` that drops a vote:
  a dropped vote stays on record, so while there is none there never was (`NextCalm`), every step is
  one of `CalmNext`, and there is one leader a term (`CalmInv`).
* `RaftProofs!LogsMatch` and `LeadersAppend`: `LogMatching` and `LeaderAppendOnly`, from
  `LogInv`. It looks at the logs and at the requests in flight as pieces of one log: the term of
  the entry before the piece, and the entries after it. Any two pieces that hold entries of one
  term at one place agree on everything up to there (`PiecesAgree`). `LogMatching` alone is not
  inductive: `AppendEntries` lays a request, made long ago from a log that may have been cut
  since, over a log that is not its sender's (`MergedAgrees`). That a new entry contradicts no
  piece needs what was made in a leader's term to be no longer than the leader's log
  (`LeaderHolds`), which holds of a new leader because every entry was made in a term somebody
  had won (`PieceSound`), and there is one winner a term (`ElectionSafe`, `Roles`). For the same
  reason no request cuts the log of the leader of its term (`ReceiverFollows`).
* `RaftProofs!MatchesThere`: `MatchIndexSound`, from `MatchInv`. A request of the term a node
  still leads is a part of the log it has now (`SentHeld`), so laying it over a peer's log
  cuts nothing the two logs have in common (`MergeKeepsMatch`), however late it comes, and
  afterwards the peer holds all of it (`MergeReaches`). That a request starts inside
  the log needs `nextIndex` not to pass its end (`NextBound`). A peer that has left the
  term may have lost what it held: `Matched` says so, and so does the property.
* `RaftCommitProofs!MajorityHolds`, `LeadersComplete`, `MachinesAgree` and `Implements`:
  `CommittedOnMajority`, `LeaderCompleteness`, `StateMachineSafety` and the refinement of
  `ReplicatedLog`, from `CommitInv`. `CommittedOnMajority` alone is not inductive: a later leader
  without the entry could cut it. A log prefix is `Pinned` at a set of nodes when they hold it and
  no log that is up to date against it lacks it: no later leader's (`LeadersHold`), no candidate's
  that has a vote of theirs (`CandidatesHold`), no request's (`SentFollow`). The entry a leader
  writes in its term is pinned at the nodes it counts for it (`AckInv`), unless a majority without
  them has left the term (`Passed`): then the count cannot reach a majority any more.
  `CommitsSafe` and `SentSafe` say that what a node has committed, and what a request tells others
  to commit, is pinned at a majority (`Safe`), and `HandedOut` that what was handed out is the
  committed log in order. Two safe prefixes are comparable, which is state machine safety and
  makes the longest one the abstract log.
* `BrewProofs!TypeCorrect` and `BrewProofs!OnlyLoopsHeat`: `Spec => []HeatedByLoop`, from
  `HeatedByHeating`: while the relay is on, some loop is alive that has yet to switch it off
  in its `finally`. `HeatedByLoop` alone would let the loop that has passed its
  `finally` answer for the relay and then end.
* `BrewProofs!OneLoopRuns`, `OffStays`, `PidStartsFresh`: `OneLoop`, `OffAfterStop` and `FreshPid`,
  from `OrderInv`. While no calls of start and stop overlap and no join has timed out
  (`smooth`), there is at most one call (`OneCall`), the only loop alive is the one `worker`
  names (`OnlyWorker`), a start about to make a loop has taken `is_running` (`StartRuns`), and no
  loop is alive then nor after a stop has joined (`NoneLeft`). `OneLoop` alone is not inductive: a start makes a
  second loop unless the first is known to be the one the stop before it joined.
* `DispatcherProofs!SameKeySequential`, `NothingLost`, `Settled` and `TypeCorrect`, for any
  items, keys, partitions, capacities and callers: `KeyOrder`, `NoneLost`, `SettledAfterStop`
  and `TypeOK` (so that no channel exceeds `Capacity`). The invariant lays what a partition has
  started, what its channel holds and what waits for room end to end: together they are the first
  `Kept` of its calls in their order (`Places`), an item's status follows from its place among them
  (`Fate`), writers wait only at a full, open channel (`Room`), and a busy worker holds
  the item it has started last (`Holder`). `KeyOrder` alone says nothing of the items between
  the channel and its writers, where an overtaking would begin.
* `DispatcherProofs!DrainRuns`: `DrainRunsAccepted`, from `DrainInv`: a draining dispatcher never
  cancels its workers, so one that has exited left a channel that was closed and empty
  (`Drained`), and nothing accepted is behind it, or an item it ran had its own call refused
  (`Refused`, `Left`). `SettledAfterStop` follows with `CallerInv`: the caller that waits for
  the workers has completed every channel first, partition by partition, and a worker that has
  ended stays ended.
* `ForwarderProofs!AnswersForward` and `TargetKnown`: where answers go, and that none of the target's is
  dropped, from one invariant: whatever was sent to the target, and whatever answers it, was
  stored in the map before (`StoredBefore`), and what is read later is numbered higher.
* `BrewPageProofs!ButtonTrue`, `OnlyWorkersHeat`, `StartedWorks`, `PollingLives`: the four
  invariants of the page, for any number of clicks. `ButtonTrue` needs to know how far the one request
  of a click that is alone has come and what it has found (`OneRequest`).
* `HilbertProofs!CurveContinues`: `CurveIsContinuous` on every grid. The library's induction
  cannot be used on a recursive function (its theorems take an operator), so the module proves
  induction over a *set* of naturals (`Inductive`) and the existence of a recursive function as
  a set (`Recursion`, `Iteration`), and with them unfolds each function of `HilbertCode` once
  (`EncodeStep`, `DecodeStep`, `SplitQuadStep`, `JoinNearIs`, `CompactIs`). `Rotate` leaves the grid, for
  negative coordinates; `Encode` does not see it, because it depends on a point only up to
  multiples of the side (`EncodePeriodic`). So `Encode` and `DecodeToPoint` both go through the
  quarters as `InQuarter` puts them, and the ends of neighbouring quarters touch (`CurveEnds`).
* `HilbertProofs!Covers`: `RangesCover` for every box inside the grid and every `maxRanges`. That
  the tables of `SplitQuadA` to `D` turn as `Encode` does is `TurnQuarter`; hence each
  quartering adds the numbers of the box's cells in it and no other, in ranges that ascend and
  could not be fewer (`Tidy`, `SplitQuadFills`). A pass of `CompactRanges` loses no number
  (`PassInv`), and every pass but the first joins two ranges, since its tolerance is a distance
  that the pass before has met (`Near`, `CompactInv`): so it ends, with as few as asked for.
* `HilbertProofs!WalkExact`: for every sorted list of items and all ranges in ascending order, also
  overlapping ones, the loop of `ExtractItems` yields every item of the ranges, and of distinct
  items nothing else, each once and in order. `Complete` says of the items behind the walk that
  they are yielded or below all ranges to come, `Sound` of those ahead that they are not
  below the current one.
* `HilbertProofs!FoundExact`: `FoundExactly`, from `Searching`: a search walks the ranges of the
  box it asked for (`Walking`, from `WalkExact`). The rest is what these ranges are
  (`GetRangeOfParts`). A wrapped box is one or two boxes of the grid (`WrappedIs`) that have all of
  its cells south of the last row (`WrappedCovers`) and no others (`WrappedOnly`). The ranges of
  the second part are appended behind a seam where the numbers may fall (`Grown`), and there
  the code's unsigned difference underflows. It is then above every difference that does not, as
  the grid's numbers are in the lower half of the ulongs (`MinusUnder`), so a pass never joins
  across the seam while any other distance is left. With at least two ranges
  asked for, compaction ends before only seams are left (`SeamInv`, `CompactSeam`).
* `HilbertProofs!NearestExact`: `NearestFound`, from the same invariant. Whichever item the box was
  measured by (`NeighbourIs`), an item that is no farther away is within the root of the
  distance along both axes (`RootOf`, `RootBounds`), so in the box (`BoxAround`).
* `TileProofs!TagsKept`: `TagsDecode`, from `TagInv`. An index that `GetOrAddKey` or a
  `GetOrAdd...Value` gives out is the place of its key or value in the buffer (`Placed`: seven
  dictionaries, two counts), and the buffers only grow (`TagsGrow`), so the tags of a feature go
  on to read as the attributes of its call (`Reads`, `Holds`), also when a later call throws half
  way and leaves keys behind. The loops of the code are folds; each is read off as the sequence of
  its intermediate values (`WriteTagsFold`, `GivenFold`, `AddedFold`), and the pairs of a call
  are followed one by one (`WriteTagsReads`).
* `TileProofs!RoundTrip` and `SizesKept`: whatever paths `EncodePaths` is given, lines or rings,
  a reader of the specification decodes the same paths, and the array has the length `PathSize`
  counted. A reader that has read what a writer wrote has the writer's cursor and its paths (`At`):
  `ReadCommands`, `ReadPoint` and `ReadPath` carry that from integer to integer, point to point and
  path to path. That what is encoded are paths with points at all is followed through both clippers,
  their fractions (`Arithmetic`, down to Euclid's algorithm, `GcdBounds`) and the orientation of
  rings (`GeometriesAre`). `SizesExact` then follows from `SizeInv`, with `TagInv`: every
  feature's body is what was counted for it, and its geometry, unless a point's, is the encoding of
  some paths. The rest are sums in two orders of two spellings of one loop
  (`VarintSize`, `WriteVarint`).

`RaftProofs` begins with the lemmas about the handlers (what each leaves alone, and the type of
what it returns), cited by the step lemmas of the two Raft modules, one per action.
Assumptions: those named in the modules (finite `Server`, `Nil` outside it, disjoint sets of
threads, sides that are powers of two and whose square is at most half of `ULong`, a default
of at least two ranges, 128 in the code, sorted items, callers of
the tile builder that give what the parameters' types allow). The
bounds of the TLC instances are constants the proofs do not use. The inductive invariants were
checked by TLC on the instances before they were proved, except `SizeInv`, which quantifies over
all sequences of paths: of it TLC has checked `SizesExact`.

Only model-checked: liveness, since neither `ENABLED` nor fairness is in the prover's reach, and
`GeometryShown`, which compares areas pixel by pixel: that the commands draw the paths is proved
(`RoundTrip`), that the paths are what the tile shows of the shape is not.

## 7. Not modelled

The parts listed as open in the plan; GPIO mocks, consoles, HTTP and argument parsing (no state of
their own); projections and distances (floating-point trigonometry); geohashes and the parsing of
GeoJSON (text to geometry, no state); the page's sliders, which set one field each; jQuery, Flot
and excanvas, third-party code in two copies that makes up most of the repository's JavaScript,
and quick2wire, as vendored. In Raft: the wall clock (a timeout may come at any moment),
exceptions of event handlers, nodes that are created twice. In the dispatcher: the timeout beyond
the cancelled token it leaves. In Brew: the temperature and the lengths of cycles: a join may time
out whenever its loop has not ended.
