----------------------------- MODULE Dispatcher -----------------------------
(***************************************************************************)
(* AsyncDispatcher (dotnet/Dispatcher/Bson.Dispatcher): partitions, each a *)
(* bounded channel with one worker task; producers that enqueue items by   *)
(* key; items that may enqueue one more item while they run; callers of    *)
(* StopAsync and of Dispose.                                               *)
(*                                                                         *)
(* System.Threading.Channels is external: a write to a full channel waits, *)
(* waiting writers are admitted first come first served as items are read, *)
(* Complete fails the waiting writers and every later write, and a reader  *)
(* of a completed channel drains it before it is told.                     *)
(*                                                                         *)
(* What an item does is the user's: it ends, throws, or observes a         *)
(* cancelled token, which is also all TaskTimeout can bring about.         *)
(***************************************************************************)
EXTENDS Naturals, Sequences, FiniteSets, Functions

CONSTANTS
    Partitions,      \* their number; partitions are 1..Partitions
    Capacity,        \* MaxCapacity
    Item,            \* the work items
    Key,             \* Key[i]: the partition the key of i hashes to
    Child,           \* Child[i]: the item i enqueues when it runs, or None
    None,
    Caller,          \* the callers of StopAsync and Dispose
    Disposer,        \* those of them that call Dispose
    HandlerThrows    \* the items on whose exception the ExceptionHandler may itself throw

Partition == 1..Partitions

ASSUME ShapeAssumption ==
    /\ Partitions \in Nat \ {0} /\ Capacity \in Nat \ {0}
    /\ None \notin Item
    /\ Key \in [Item -> Partition] /\ Child \in [Item -> Item \cup {None}]
ASSUME DisposerAssumption == Disposer \subseteq Caller
ASSUME OptionAssumption == HandlerThrows \subseteq Item

VARIABLES
    DrainOnDispose,  \* the option, as the dispatcher was constructed
    queue,      \* queue[p]: the items in the channel of p
    writers,    \* writers[p]: the items whose WriteAsync waits for room
    closed,     \* the partitions whose writer is completed
    worker,     \* worker[p]: where ProcessPartition stands, and its item
    status,     \* status[i]: what has become of the call that enqueues i
    stopped,    \* the _stopped flag
    cancelled,  \* the state of _cancellationTokenSource
    caller,     \* caller[c]: where its StopAsync stands
    admitted,   \* history: admitted[p], items in the order of their WriteAsync calls
    started     \* history: started[p], items in the order the worker ran them

vars == <<DrainOnDispose, queue, writers, closed, worker, status, stopped,
          cancelled, caller, admitted, started>>

\* Items that producers enqueue; the others are enqueued by an item.
Root == {i \in Item : \A j \in Item : Child[j] # i}

Status == {"new", "waiting", "accepted", "rejected", "running", "done"}
Place  == {"loop", "reading", "waiting", "running", "child", "exited", "faulted"}

TypeOK ==
    /\ DrainOnDispose \in BOOLEAN
    /\ queue \in [Partition -> Seq(Item)]
    /\ writers \in [Partition -> Seq(Item)]
    /\ closed \subseteq Partition
    /\ worker \in [Partition -> [at : Place, item : Item \cup {None}]]
    /\ status \in [Item -> Status]
    /\ stopped \in BOOLEAN /\ cancelled \in BOOLEAN
    /\ caller \in [Caller -> {"idle", "closing", "awaiting", "returned", "late"}]
    /\ admitted \in [Partition -> Seq(Item)]
    /\ started \in [Partition -> Seq(Item)]
    /\ \A p \in Partition : Len(queue[p]) <= Capacity

Init ==
    /\ DrainOnDispose \in BOOLEAN
    /\ queue = [p \in Partition |-> <<>>]
    /\ writers = [p \in Partition |-> <<>>]
    /\ closed = {}
    /\ worker = [p \in Partition |-> [at |-> "loop", item |-> None]]
    /\ status = [i \in Item |-> "new"]
    /\ stopped = FALSE /\ cancelled = FALSE
    /\ caller = [c \in Caller |-> "idle"]
    /\ admitted = [p \in Partition |-> <<>>]
    /\ started = [p \in Partition |-> <<>>]

-----------------------------------------------------------------------------
(* The channel *)

\* Fault: the channel is unbounded.
WriteUnbounded(i) ==
    LET p == Key[i]
    IN  /\ p \notin closed
        /\ status' = [status EXCEPT ![i] = "accepted"]
        /\ queue' = [queue EXCEPT ![p] = Append(@, i)]
        /\ admitted' = [admitted EXCEPT ![p] = Append(@, i)]
        /\ UNCHANGED writers

\* Fault: a full channel drops what is written (FullMode.DropWrite).
WriteOrDrop(i) ==
    LET p == Key[i]
    IN  IF p \in closed
        THEN /\ status' = [status EXCEPT ![i] = "rejected"]
             /\ UNCHANGED <<queue, writers, admitted>>
        ELSE /\ status' = [status EXCEPT ![i] = "accepted"]
             /\ queue' = [queue EXCEPT ![p] = IF Len(@) < Capacity THEN Append(@, i) ELSE @]
             /\ admitted' = [admitted EXCEPT ![p] = Append(@, i)]
             /\ UNCHANGED writers

\* WriteAsync(i): refused, stored, or waiting for room.
Write(i) ==
    LET p == Key[i]
    IN  \/ /\ p \in closed
           /\ status' = [status EXCEPT ![i] = "rejected"]
           /\ UNCHANGED <<queue, writers, admitted>>
        \/ /\ p \notin closed /\ Len(queue[p]) < Capacity
           /\ status' = [status EXCEPT ![i] = "accepted"]
           /\ queue' = [queue EXCEPT ![p] = Append(@, i)]
           /\ admitted' = [admitted EXCEPT ![p] = Append(@, i)]
           /\ UNCHANGED writers
        \/ /\ p \notin closed /\ Len(queue[p]) >= Capacity
           /\ status' = [status EXCEPT ![i] = "waiting"]
           /\ writers' = [writers EXCEPT ![p] = Append(@, i)]
           /\ admitted' = [admitted EXCEPT ![p] = Append(@, i)]
           /\ UNCHANGED queue

\* Fault: the newest waiting writer is admitted first.
TakeNewestWriter(p) ==
    LET i == Head(queue[p])
        ws == writers[p]
        w == IF ws = <<>> THEN <<>> ELSE <<ws[Len(ws)]>>
    IN  /\ queue[p] # <<>>
        /\ queue' = [queue EXCEPT ![p] = Tail(@) \o w]
        /\ writers' = [writers EXCEPT ![p] = IF @ = <<>> THEN @ ELSE SubSeq(@, 1, Len(@) - 1)]
        /\ status' = [j \in Item |-> IF j = i THEN "running"
                                     ELSE IF w # <<>> /\ j = w[1] THEN "accepted"
                                     ELSE status[j]]
        /\ started' = [started EXCEPT ![p] = Append(@, i)]
        /\ worker' = [worker EXCEPT ![p] = [at |-> "running", item |-> i]]

\* Fault: the room an item leaves is offered to nobody.
TakeAlone(p) ==
    LET i == Head(queue[p])
    IN  /\ queue[p] # <<>>
        /\ queue' = [queue EXCEPT ![p] = Tail(@)]
        /\ status' = [status EXCEPT ![i] = "running"]
        /\ started' = [started EXCEPT ![p] = Append(@, i)]
        /\ worker' = [worker EXCEPT ![p] = [at |-> "running", item |-> i]]
        /\ UNCHANGED writers

\* The worker of p takes the first item; the first waiting writer gets the
\* room.
Take(p) ==
    LET i == Head(queue[p])
        w == IF writers[p] = <<>> THEN <<>> ELSE <<Head(writers[p])>>
    IN  /\ queue[p] # <<>>
        /\ queue' = [queue EXCEPT ![p] = Tail(@) \o w]
        /\ writers' = [writers EXCEPT ![p] = IF @ = <<>> THEN @ ELSE Tail(@)]
        /\ status' = [j \in Item |-> IF j = i THEN "running"
                                     ELSE IF w # <<>> /\ j = w[1] THEN "accepted"
                                     ELSE status[j]]
        /\ started' = [started EXCEPT ![p] = Append(@, i)]
        /\ worker' = [worker EXCEPT ![p] = [at |-> "running", item |-> i]]

\* Fault: a writer that waits when the channel is completed goes on waiting.
CompleteSilently(p) ==
    /\ closed' = closed \cup {p}
    /\ UNCHANGED <<writers, status>>

\* Writer.Complete() on p.
Complete(p) ==
    /\ closed' = closed \cup {p}
    /\ writers' = [writers EXCEPT ![p] = <<>>]
    /\ status' = [i \in Item |-> IF status[i] = "waiting" /\ Key[i] = p
                                 THEN "rejected" ELSE status[i]]

-----------------------------------------------------------------------------
(* Producers *)

\* EnqueueAsync of an item from outside.
Enqueue(i) ==
    /\ i \in Root /\ status[i] = "new"
    /\ Write(i)
    /\ UNCHANGED <<DrainOnDispose, closed, worker, stopped, cancelled, caller, started>>

-----------------------------------------------------------------------------
(* The worker of a partition *)

Goto(p, place) == worker' = [worker EXCEPT ![p] = [at |-> place, item |-> None]]

\* The condition of the while loop.
CheckCancelled(p) ==
    /\ worker[p].at = "loop"
    /\ Goto(p, IF cancelled THEN "exited" ELSE "reading")
    /\ UNCHANGED <<DrainOnDispose, queue, writers, closed, status, stopped, cancelled,
                   caller, admitted, started>>

\* TryRead, then ReadAsync when there was nothing to read.
TryRead(p) ==
    /\ worker[p].at = "reading"
    /\ \/ Take(p)
       \/ /\ queue[p] = <<>>
          /\ Goto(p, "waiting")
          /\ UNCHANGED <<queue, writers, status, started>>
    /\ UNCHANGED <<DrainOnDispose, closed, stopped, cancelled, caller, admitted>>

\* Fault: a completed channel is left with what is still in it.
ReadAsyncOrClosed(p) ==
    /\ worker[p].at = "waiting"
    /\ \/ Take(p)
       \/ /\ cancelled \/ p \in closed
          /\ Goto(p, "exited")
          /\ UNCHANGED <<queue, writers, status, started>>
    /\ UNCHANGED <<DrainOnDispose, closed, stopped, cancelled, caller, admitted>>

\* ReadAsync ends: an item arrived, the channel is closed and empty, or the
\* token was cancelled first.
ReadAsync(p) ==
    /\ worker[p].at = "waiting"
    /\ \/ Take(p)
       \/ /\ cancelled \/ (p \in closed /\ queue[p] = <<>>)
          /\ Goto(p, "exited")
          /\ UNCHANGED <<queue, writers, status, started>>
    /\ UNCHANGED <<DrainOnDispose, closed, stopped, cancelled, caller, admitted>>

\* The item enqueues its child and awaits the call.
EnqueueChild(p) ==
    LET i == worker[p].item
    IN  /\ worker[p].at = "running"
        /\ Child[i] # None
        /\ status[Child[i]] = "new"
        /\ Write(Child[i])
        /\ worker' = [worker EXCEPT ![p].at = "child"]
        /\ UNCHANGED <<DrainOnDispose, closed, stopped, cancelled, caller, started>>

\* The child's WriteAsync has ended.  A ChannelClosedException passes through
\* the item into the handler meant for the worker's own read, which leaves
\* the loop.
ChildEnqueued(p) ==
    LET i == worker[p].item
    IN  /\ worker[p].at = "child"
        /\ status[Child[i]] # "waiting"
        /\ IF status[Child[i]] = "rejected"
           THEN /\ Goto(p, "exited")
                /\ status' = [status EXCEPT ![i] = "done"]
           ELSE /\ worker' = [worker EXCEPT ![p].at = "running"]
                /\ UNCHANGED status
        /\ UNCHANGED <<DrainOnDispose, queue, writers, closed, stopped, cancelled,
                       caller, admitted, started>>

\* The item has no more to enqueue.
Finished(i) == Child[i] # None => status[Child[i]] # "new"

\* Fault: an OperationCanceledException of the item's own, which a TaskTimeout
\* brings about, ends the worker.
EndItemOnTimeout(p) ==
    LET i == worker[p].item
    IN  /\ worker[p].at = "running" /\ Finished(i)
        /\ \/ Goto(p, "loop")
           \/ Goto(p, "exited")
           \/ i \in HandlerThrows /\ Goto(p, "faulted")
        /\ status' = [status EXCEPT ![i] = "done"]
        /\ UNCHANGED <<DrainOnDispose, queue, writers, closed, stopped, cancelled,
                       caller, admitted, started>>

\* The item ends: normally or with an exception the handler takes; with
\* OperationCanceledException, which ends the worker once it is cancelled;
\* or with an exception on which the handler throws.
EndItem(p) ==
    LET i == worker[p].item
    IN  /\ worker[p].at = "running" /\ Finished(i)
        /\ \/ Goto(p, "loop")
           \/ cancelled /\ Goto(p, "exited")
           \/ i \in HandlerThrows /\ Goto(p, "faulted")
        /\ status' = [status EXCEPT ![i] = "done"]
        /\ UNCHANGED <<DrainOnDispose, queue, writers, closed, stopped, cancelled,
                       caller, admitted, started>>

-----------------------------------------------------------------------------
(* StopAsync, DisposeAsync and Dispose *)

\* After SignalStop: StopAsync awaits the workers, Dispose returns.
Signalled(c) == IF c \in Disposer THEN "returned" ELSE "awaiting"

\* SignalStop: the first caller takes the flag, any other one is late and returns.
Stop(c) ==
    /\ caller[c] = "idle"
    /\ stopped' = TRUE
    /\ \/ /\ stopped
          /\ caller' = [caller EXCEPT ![c] = "late"]
          /\ UNCHANGED cancelled
       \/ /\ ~stopped /\ DrainOnDispose
          /\ caller' = [caller EXCEPT ![c] = "closing"]
          /\ UNCHANGED cancelled
       \/ /\ ~stopped /\ ~DrainOnDispose
          /\ caller' = [caller EXCEPT ![c] = Signalled(c)]
          /\ cancelled' = TRUE
    /\ UNCHANGED <<DrainOnDispose, queue, writers, closed, worker, status, admitted, started>>

\* The loop over the partitions, in their order.
CompleteNext(c) ==
    /\ caller[c] = "closing"
    /\ \E p \in Partition \ closed :
        /\ \A q \in Partition \ closed : p <= q
        /\ Complete(p)
        /\ caller' = [caller EXCEPT ![c] = IF p = Partitions THEN Signalled(c) ELSE @]
    /\ UNCHANGED <<DrainOnDispose, queue, worker, stopped, cancelled, admitted, started>>

Ended(p) == worker[p].at \in {"exited", "faulted"}

\* Fault: Task.WhenAny.
StopReturnsFirst(c) ==
    /\ caller[c] = "awaiting"
    /\ \E p \in Partition : Ended(p)
    /\ caller' = [caller EXCEPT ![c] = "returned"]
    /\ UNCHANGED <<DrainOnDispose, queue, writers, closed, worker, status, stopped, cancelled,
                   admitted, started>>

\* Task.WhenAll(_workers), returning or throwing.
StopReturns(c) ==
    /\ caller[c] = "awaiting"
    /\ \A p \in Partition : Ended(p)
    /\ caller' = [caller EXCEPT ![c] = "returned"]
    /\ UNCHANGED <<DrainOnDispose, queue, writers, closed, worker, status, stopped, cancelled,
                   admitted, started>>

Work(p) ==
    \/ CheckCancelled(p) \/ TryRead(p) \/ ReadAsync(p)
    \/ EnqueueChild(p) \/ ChildEnqueued(p) \/ EndItem(p)

Next ==
    \/ \E i \in Item : Enqueue(i)
    \/ \E p \in Partition : Work(p)
    \/ \E c \in Caller : Stop(c) \/ CompleteNext(c) \/ StopReturns(c)

Spec == Init /\ [][Next]_vars

\* The thread pool runs every worker and the stop in progress; items end.
FairSpec ==
    /\ Spec
    /\ \A p \in Partition : WF_vars(Work(p))
    /\ WF_vars(\E c \in Caller : CompleteNext(c) \/ StopReturns(c))

-----------------------------------------------------------------------------
(* Properties *)

Before(s, i, j) ==
    \E a, b \in 1..Len(s) : a < b /\ s[a] = i /\ s[b] = j

\* README.md, "Same key = sequential": an item starts when every item of its
\* partition whose EnqueueAsync came before, waiting for room or not, has ended.
KeyOrder ==
    \A p \in Partition : \A i, j \in Item :
        Before(admitted[p], i, j) /\ status[j] \in {"running", "done"}
            => status[i] = "done"

\* An item runs at most once, and never when its call was rejected; what was
\* accepted is still queued until it runs.
NoneLost ==
    /\ \A p \in Partition : IsInjective(started[p])
    /\ \A i \in Item :
        /\ status[i] = "rejected" => i \notin Range(started[Key[i]])
        /\ status[i] = "accepted" => i \in Range(queue[Key[i]])

\* DispatcherOptions.cs:35-36: the workers of a draining dispatcher end when
\* every item it accepted has run to its end.
DrainLeavesNothing ==
    DrainOnDispose /\ (\A p \in Partition : Ended(p))
        => \A i \in Item : status[i] \in {"new", "rejected", "done"}

\* What holds of it: a partition is left with accepted items only where the
\* worker met a handler that throws, or an item whose own enqueue the draining
\* dispatcher rejected.
Broken(p) ==
    \/ worker[p].at = "faulted"
    \/ \E i \in Range(started[p]) : Child[i] # None /\ status[Child[i]] = "rejected"

DrainRunsAccepted ==
    DrainOnDispose
        => \A p \in Partition :
              Ended(p) => Broken(p) \/ \A i \in Item :
                              Key[i] = p => status[i] \in {"new", "rejected", "done"}

\* The StopAsync that stops the dispatcher has returned.
Waited == \E c \in Caller \ Disposer : caller[c] = "returned"

\* From then on no item runs, and when it drained every call of EnqueueAsync, also
\* one that met the stop half way, has ended: its item has run, was refused, or is
\* left in the partition of a broken worker.
SettledAfterStop ==
    Waited => \A i \in Item :
        /\ status[i] # "running"
        /\ DrainOnDispose =>
              /\ status[i] # "waiting"
              /\ status[i] = "accepted" => Broken(Key[i])

\* The worker of p is held by its item, whose own EnqueueAsync waits for room in q.
WaitsFor(p, q) ==
    /\ worker[p].at = "child"
    /\ status[Child[worker[p].item]] = "waiting"
    /\ Key[Child[worker[p].item]] = q

\* The partitions whose worker waits for room that no worker will make: in a
\* partition whose worker has ended, or in one that is blocked as well, such as its
\* own or that of an item which waits for this one.
Blocked ==
    UNION {S \in SUBSET Partition :
              \A p \in S : \E q \in Partition : WaitsFor(p, q) /\ (Ended(q) \/ q \in S)}

\* A call of StopAsync returns, unless it cancels while a worker is blocked: the
\* token does not reach the item's WriteAsync.  A draining stop completes the
\* channels, which ends every wait, and always returns.
StopEnds ==
    stopped ~> \/ \A c \in Caller : caller[c] \notin {"closing", "awaiting"}
               \/ ~DrainOnDispose /\ Blocked # {}

\* What a partition has accepted runs to its end, unless the dispatcher is
\* cancelled or the worker of the partition is broken or blocked.
ItemsRun ==
    \A p \in Partition :
        queue[p] # <<>>
            ~> \/ \A i \in Item : Key[i] = p => status[i] \notin {"accepted", "running"}
               \/ cancelled \/ Broken(p) \/ p \in Blocked

\* The calls of EnqueueAsync that wait for room in a partition all end, with room or
\* with the completion of the channel, unless the worker that would make room has
\* ended or is blocked.
WritesEnd ==
    \A p \in Partition :
        writers[p] # <<>> ~> writers[p] = <<>> \/ Ended(p) \/ p \in Blocked

=============================================================================
