-------------------------- MODULE DispatcherProofs --------------------------
(***************************************************************************)
(* Whatever the items, partitions and callers, Dispatcher.tla runs the     *)
(* items of a partition in the order of their calls, loses none and runs   *)
(* none twice, and a dispatcher that drains leaves none it need not leave. *)
(***************************************************************************)
EXTENDS Dispatcher, SequenceTheorems, TLAPS

\* The worker of p holds an item.
Busy(p) == worker[p].at \in {"running", "child"}

\* In the order of their calls the items of p were taken, then stored, then kept
\* waiting; those after them were rejected by Complete.
Taken(p) == Len(started[p])
Stored(p) == Taken(p) + Len(queue[p])
Kept(p) == Stored(p) + Len(writers[p])

Places(p) ==
    /\ Kept(p) <= Len(admitted[p])
    /\ \A k \in 1..Len(started[p]) : started[p][k] = admitted[p][k]
    /\ \A k \in 1..Len(queue[p]) : queue[p][k] = admitted[p][Taken(p) + k]
    /\ \A k \in 1..Len(writers[p]) : writers[p][k] = admitted[p][Stored(p) + k]

\* A call enqueues an item once, and in its own partition.
Once(p) ==
    /\ \A k, m \in 1..Len(admitted[p]) : admitted[p][k] = admitted[p][m] => k = m
    /\ \A k \in 1..Len(admitted[p]) : Key[admitted[p][k]] = p

\* What has become of an item follows from its place.
FateAt(p, k) ==
    IF k < Taken(p) THEN "done"
    ELSE IF k = Taken(p) THEN IF Busy(p) THEN "running" ELSE "done"
    ELSE IF k <= Stored(p) THEN "accepted"
    ELSE IF k <= Kept(p) THEN "waiting"
    ELSE "rejected"

Fate(p) == \A k \in 1..Len(admitted[p]) : status[admitted[p][k]] = FateAt(p, k)

\* A busy worker holds the item it has started last.
Holder(p) ==
    IF Busy(p) THEN Taken(p) > 0 /\ worker[p].item = started[p][Taken(p)]
    ELSE worker[p].item = None

\* Writers wait only at a full channel that is open, and Complete alone rejects
\* what was admitted.
Room(p) ==
    /\ writers[p] # <<>> => Len(queue[p]) >= Capacity
    /\ p \in closed => writers[p] = <<>>
    /\ p \notin closed => Kept(p) = Len(admitted[p])

Part(p) == Places(p) /\ Once(p) /\ Fate(p) /\ Holder(p) /\ Room(p)

\* Every item that is neither new nor rejected has a place.
Known ==
    \A i \in Item : status[i] \notin {"new", "rejected"} =>
        \E k \in 1..Len(admitted[Key[i]]) : admitted[Key[i]][k] = i

IInv == TypeOK /\ Known /\ \A p \in Partition : Part(p)

-----------------------------------------------------------------------------
LEMMA Sizes ==
  ASSUME TypeOK, NEW p \in Partition
  PROVE  /\ started[p] \in Seq(Item) /\ queue[p] \in Seq(Item)
         /\ writers[p] \in Seq(Item) /\ admitted[p] \in Seq(Item)
         /\ Taken(p) \in Nat /\ Len(started[p]) = Taken(p)
         /\ Len(queue[p]) \in Nat /\ Len(writers[p]) \in Nat /\ Len(admitted[p]) \in Nat
         /\ Stored(p) \in Nat /\ Kept(p) \in Nat
         /\ Stored(p) = Taken(p) + Len(queue[p]) /\ Kept(p) = Stored(p) + Len(writers[p])
<1>1. /\ started[p] \in Seq(Item) /\ queue[p] \in Seq(Item)
      /\ writers[p] \in Seq(Item) /\ admitted[p] \in Seq(Item)
  BY DEF TypeOK
<1>2. /\ Len(started[p]) \in Nat /\ Len(queue[p]) \in Nat
      /\ Len(writers[p]) \in Nat /\ Len(admitted[p]) \in Nat
  BY <1>1
<1>3. Taken(p) \in Nat /\ Len(started[p]) = Taken(p)
  BY <1>2 DEF Taken
<1>4. Stored(p) \in Nat /\ Stored(p) = Taken(p) + Len(queue[p])
  BY <1>2, <1>3 DEF Stored
<1>5. Kept(p) \in Nat /\ Kept(p) = Stored(p) + Len(writers[p])
  BY <1>2, <1>4 DEF Kept
<1> QED
  BY <1>1, <1>2, <1>3, <1>4, <1>5

LEMMA InitIInv == Init => IInv
<1> SUFFICES ASSUME Init PROVE IInv
  OBVIOUS
<1> USE ShapeAssumption DEF Init
<1>1. TypeOK
  <2>1. /\ queue \in [Partition -> Seq(Item)] /\ writers \in [Partition -> Seq(Item)]
        /\ admitted \in [Partition -> Seq(Item)] /\ started \in [Partition -> Seq(Item)]
        /\ \A p \in Partition : Len(queue[p]) <= Capacity
    OBVIOUS
  <2>2. worker \in [Partition -> [at : Place, item : Item \cup {None}]]
    BY DEF Place
  <2>3. status \in [Item -> Status]
    BY DEF Status
  <2>4. caller \in [Caller -> {"idle", "closing", "awaiting", "returned", "late"}]
    OBVIOUS
  <2> QED
    BY <2>1, <2>2, <2>3, <2>4 DEF TypeOK
<1>2. Known
  BY DEF Known
<1>3. ASSUME NEW p \in Partition PROVE Part(p)
  BY DEF Part, Places, Once, Fate, Holder, Room, Busy, Taken, Stored, Kept
<1> QED
  BY <1>1, <1>2, <1>3 DEF IInv

-----------------------------------------------------------------------------
(* Types *)

LEMMA WriteType ==
  ASSUME TypeOK, NEW i \in Item, Write(i)
  PROVE  /\ queue' \in [Partition -> Seq(Item)] /\ writers' \in [Partition -> Seq(Item)]
         /\ status' \in [Item -> Status] /\ admitted' \in [Partition -> Seq(Item)]
         /\ \A p \in Partition : Len(queue'[p]) <= Capacity
<1> DEFINE p == Key[i]
<1>1. p \in Partition
  BY ShapeAssumption
<1>2. /\ Append(queue[p], i) \in Seq(Item) /\ Append(writers[p], i) \in Seq(Item)
      /\ Append(admitted[p], i) \in Seq(Item)
      /\ Len(Append(queue[p], i)) = Len(queue[p]) + 1 /\ Len(queue[p]) \in Nat
  BY <1>1 DEF TypeOK
<1> HIDE DEF p
<1>3. status' \in [Item -> Status]
  BY DEF TypeOK, Write, Status
<1>4. queue' \in [Partition -> Seq(Item)] /\ \A q \in Partition : Len(queue'[q]) <= Capacity
  <2>1. CASE queue' = queue
    BY <2>1 DEF TypeOK
  <2>2. CASE queue' = [queue EXCEPT ![p] = Append(@, i)] /\ Len(queue[p]) < Capacity
    BY <1>1, <1>2, <2>2, ShapeAssumption DEF TypeOK
  <2> QED
    BY <2>1, <2>2 DEF Write, p
<1>5. writers' \in [Partition -> Seq(Item)]
  BY <1>1, <1>2 DEF Write, TypeOK, p
<1>6. admitted' \in [Partition -> Seq(Item)]
  BY <1>1, <1>2 DEF Write, TypeOK, p
<1> QED
  BY <1>3, <1>4, <1>5, <1>6

\* The channel after Take: one item less, and the first waiting writer's at its end.
LEMMA TakenQueue ==
  ASSUME TypeOK, NEW p \in Partition, Take(p)
  PROVE  /\ queue[p] # <<>> /\ Head(queue[p]) = queue[p][1] /\ queue[p][1] \in Item
         /\ writers[p] = <<>> =>
              /\ Len(queue'[p]) = Len(queue[p]) - 1
              /\ \A k \in 1..Len(queue'[p]) : queue'[p][k] = queue[p][k + 1]
              /\ writers'[p] = <<>>
         /\ writers[p] # <<>> =>
              /\ Len(queue'[p]) = Len(queue[p])
              /\ \A k \in 1..(Len(queue[p]) - 1) : queue'[p][k] = queue[p][k + 1]
              /\ queue'[p][Len(queue[p])] = writers[p][1]
              /\ Head(writers[p]) = writers[p][1] /\ writers[p][1] \in Item
              /\ Len(writers'[p]) = Len(writers[p]) - 1
              /\ \A k \in 1..Len(writers'[p]) : writers'[p][k] = writers[p][k + 1]
         /\ queue'[p] \in Seq(Item) /\ writers'[p] \in Seq(Item)
<1> DEFINE Q == queue[p]
           W == writers[p]
<1>1. Q \in Seq(Item) /\ W \in Seq(Item) /\ Q # <<>>
  BY DEF TypeOK, Take
<1>2. Head(Q) = Q[1] /\ Q[1] \in Item /\ Tail(Q) \in Seq(Item) /\ Len(Tail(Q)) = Len(Q) - 1
      /\ \A k \in 1..(Len(Q) - 1) : Tail(Q)[k] = Q[k + 1]
  BY <1>1
<1>3. CASE W = <<>>
  <2>1. queue'[p] = Tail(Q) \o <<>> /\ writers'[p] = <<>>
    BY <1>3 DEF Take, TypeOK
  <2>2. queue'[p] = Tail(Q)
    BY <1>2, <2>1
  <2> QED
    BY <1>1, <1>2, <1>3, <2>1, <2>2
<1>4. CASE W # <<>>
  <2>1. queue'[p] = Tail(Q) \o <<Head(W)>> /\ writers'[p] = Tail(W)
    BY <1>4 DEF Take, TypeOK
  <2>2. Head(W) = W[1] /\ W[1] \in Item /\ Tail(W) \in Seq(Item) /\ Len(Tail(W)) = Len(W) - 1
        /\ \A k \in 1..(Len(W) - 1) : Tail(W)[k] = W[k + 1]
    BY <1>1, <1>4
  <2>3. /\ Tail(Q) \o <<Head(W)>> \in Seq(Item)
        /\ Len(Tail(Q) \o <<Head(W)>>) = Len(Q)
        /\ \A k \in 1..(Len(Q) - 1) : (Tail(Q) \o <<Head(W)>>)[k] = Q[k + 1]
        /\ (Tail(Q) \o <<Head(W)>>)[Len(Q)] = W[1]
    BY <1>1, <1>2, <2>2
  <2> QED
    BY <1>1, <1>2, <1>4, <2>1, <2>2, <2>3
<1> QED
  BY <1>3, <1>4

LEMMA TakeType ==
  ASSUME TypeOK, NEW p \in Partition, Take(p)
  PROVE  /\ queue' \in [Partition -> Seq(Item)] /\ writers' \in [Partition -> Seq(Item)]
         /\ status' \in [Item -> Status] /\ started' \in [Partition -> Seq(Item)]
         /\ worker' \in [Partition -> [at : Place, item : Item \cup {None}]]
         /\ \A q \in Partition : Len(queue'[q]) <= Capacity
<1>1. \A q \in Partition : q # p => queue'[q] = queue[q] /\ writers'[q] = writers[q]
  BY DEF Take, TypeOK
<1>2. \A q \in Partition : queue'[q] \in Seq(Item) /\ writers'[q] \in Seq(Item)
                           /\ Len(queue'[q]) <= Capacity
  <2>1. /\ queue'[p] \in Seq(Item) /\ writers'[p] \in Seq(Item)
        /\ Len(queue'[p]) <= Len(queue[p]) /\ Len(queue[p]) \in Nat /\ Len(queue'[p]) \in Nat
    BY TakenQueue DEF TypeOK
  <2> SUFFICES ASSUME NEW q \in Partition
               PROVE  queue'[q] \in Seq(Item) /\ writers'[q] \in Seq(Item)
                      /\ Len(queue'[q]) <= Capacity
    OBVIOUS
  <2>2. CASE q = p
    BY <2>1, <2>2, ShapeAssumption DEF TypeOK
  <2>3. CASE q # p
    BY <1>1, <2>3 DEF TypeOK
  <2> QED
    BY <2>2, <2>3
<1>3. /\ queue' = [q \in Partition |-> queue'[q]]
      /\ writers' = [q \in Partition |-> writers'[q]]
  BY DEF Take, TypeOK
<1>4. status' \in [Item -> Status]
  BY DEF Take, TypeOK, Status
<1>5. started' \in [Partition -> Seq(Item)]
  BY TakenQueue DEF Take, TypeOK
<1>6. worker' \in [Partition -> [at : Place, item : Item \cup {None}]]
  BY TakenQueue DEF Take, TypeOK, Place
<1> QED
  BY <1>2, <1>3, <1>4, <1>5, <1>6

\* The item of a busy worker is one.
LEMMA HeldItem ==
  ASSUME IInv, NEW p \in Partition, Busy(p)
  PROVE  /\ worker[p].item \in Item /\ Taken(p) \in 1..Len(admitted[p])
         /\ worker[p].item = started[p][Taken(p)]
         /\ worker[p].item = admitted[p][Taken(p)]
         /\ Key[worker[p].item] = p /\ status[worker[p].item] = "running"
<1>1. /\ Taken(p) \in 1..Len(started[p]) /\ worker[p].item = started[p][Taken(p)]
      /\ started[p] \in Seq(Item)
  BY Sizes DEF IInv, Part, Holder
<1>2. Taken(p) \in 1..Len(admitted[p])
  BY <1>1, Sizes DEF IInv, Part, Places
<1>3. FateAt(p, Taken(p)) = "running"
  BY <1>1 DEF FateAt
<1> QED
  BY <1>1, <1>2, <1>3 DEF IInv, Part, Places, Once, Fate

LEMMA StepType == IInv /\ [Next]_vars => TypeOK'
<1> SUFFICES ASSUME IInv, TypeOK, [Next]_vars PROVE TypeOK'
  BY DEF IInv
<1>1. ASSUME NEW i \in Item, Enqueue(i) PROVE TypeOK'
  BY <1>1, WriteType DEF Enqueue, TypeOK
<1>2. ASSUME NEW p \in Partition, TryRead(p) \/ ReadAsync(p) PROVE TypeOK'
  <2>1. CASE Take(p)
    BY <1>2, <2>1, TakeType DEF TryRead, ReadAsync, TypeOK
  <2>2. CASE ~Take(p)
    <3>1. PICK place \in Place : Goto(p, place)
      BY <1>2, <2>2 DEF TryRead, ReadAsync, Place
    <3>2. worker' \in [Partition -> [at : Place, item : Item \cup {None}]]
      BY <3>1 DEF TypeOK, Goto
    <3>3. UNCHANGED <<DrainOnDispose, queue, writers, closed, status, stopped, cancelled,
                      caller, admitted, started>>
      BY <1>2, <2>2 DEF TryRead, ReadAsync
    <3> QED
      BY <3>2, <3>3 DEF TypeOK
  <2> QED
    BY <2>1, <2>2
<1>3. ASSUME NEW p \in Partition, CheckCancelled(p) PROVE TypeOK'
  BY <1>3 DEF CheckCancelled, TypeOK, Goto, Place
<1>4. ASSUME NEW p \in Partition, EnqueueChild(p) PROVE TypeOK'
  <2>1. Child[worker[p].item] \in Item
    BY <1>4, HeldItem, ShapeAssumption DEF EnqueueChild, Busy
  <2> QED
    BY <1>4, <2>1, WriteType DEF EnqueueChild, TypeOK, Place
<1>5. ASSUME NEW p \in Partition, ChildEnqueued(p) \/ EndItem(p) PROVE TypeOK'
  <2>1. status' \in [Item -> Status]
    BY <1>5 DEF ChildEnqueued, EndItem, TypeOK, Status
  <2>2. worker' \in [Partition -> [at : Place, item : Item \cup {None}]]
    <3>1. CASE worker' = [worker EXCEPT ![p].at = "running"]
      BY <3>1 DEF TypeOK, Place
    <3>2. CASE \E place \in Place : Goto(p, place)
      BY <3>2 DEF TypeOK, Goto
    <3> QED
      BY <1>5, <3>1, <3>2 DEF ChildEnqueued, EndItem, Place
  <2> QED
    BY <1>5, <2>1, <2>2 DEF ChildEnqueued, EndItem, TypeOK
<1>6. ASSUME NEW c \in Caller, Stop(c) \/ StopReturns(c) PROVE TypeOK'
  BY <1>6 DEF Stop, StopReturns, Signalled, TypeOK
<1>7. ASSUME NEW c \in Caller, CompleteNext(c) PROVE TypeOK'
  BY <1>7 DEF CompleteNext, Complete, Signalled, TypeOK, Status
<1>8. CASE UNCHANGED vars
  BY <1>8 DEF vars, TypeOK
<1> QED
  BY <1>1, <1>2, <1>3, <1>4, <1>5, <1>6, <1>7, <1>8 DEF Next, Work

-----------------------------------------------------------------------------
(* The steps *)

\* A partition whose channel and items a step leaves alone.
LEMMA Frame ==
  ASSUME IInv, NEW p \in Partition,
         UNCHANGED <<queue[p], writers[p], admitted[p], started[p], worker[p].item>>,
         Busy(p)' = Busy(p), p \in closed' <=> p \in closed,
         \A i \in Item : Key[i] = p => status'[i] = status[i]
  PROVE  Part(p)'
<1>1. Taken(p)' = Taken(p) /\ Stored(p)' = Stored(p) /\ Kept(p)' = Kept(p)
  BY DEF Taken, Stored, Kept
<1>2. Places(p)' /\ Once(p)'
  BY <1>1 DEF IInv, Part, Places, Once
<1>4. Room(p)' /\ Holder(p)'
  BY <1>1 DEF IInv, Part, Room, Holder
<1>3. Fate(p)'
  <2> SUFFICES ASSUME NEW k \in 1..Len(admitted[p])
               PROVE  status'[admitted[p][k]] = FateAt(p, k)'
    BY DEF Fate
  <2>1. admitted[p][k] \in Item /\ Key[admitted[p][k]] = p
    BY Sizes DEF IInv, Part, Once
  <2> QED
    BY <1>1, <2>1 DEF IInv, Part, Fate, FateAt
<1> QED
  BY <1>2, <1>3, <1>4 DEF Part

\* What has a place keeps it while calls are only added.
LEMMA KnownStays ==
  ASSUME IInv,
         \A p \in Partition : \A k \in 1..Len(admitted[p]) :
             k \in 1..Len(admitted'[p]) /\ admitted'[p][k] = admitted[p][k],
         \A i \in Item : status'[i] \notin {"new", "rejected"} =>
             \/ status[i] \notin {"new", "rejected"}
             \/ \E k \in 1..Len(admitted'[Key[i]]) : admitted'[Key[i]][k] = i
  PROVE  Known'
  BY ShapeAssumption DEF IInv, Known

\* A new item has no place.
LEMMA NewElsewhere ==
  ASSUME IInv, NEW i \in Item, status[i] = "new", NEW p \in Partition,
         NEW k \in 1..Len(admitted[p])
  PROVE  admitted[p][k] # i
  BY DEF IInv, Part, Fate, FateAt

LEMMA WriteKeeps ==
  ASSUME IInv, TypeOK', NEW i \in Item, status[i] = "new", Write(i),
         UNCHANGED <<closed, started>>,
         \A p \in Partition : Busy(p)' = Busy(p) /\ worker'[p].item = worker[p].item
  PROVE  IInv'
<1>1. PICK q \in Partition : q = Key[i]
  BY ShapeAssumption
<1>2. /\ \A j \in Item : j # i => status'[j] = status[j]
      /\ \A p \in Partition : p # q => UNCHANGED <<queue[p], writers[p], admitted[p]>>
  BY <1>1 DEF Write, IInv, TypeOK
<1>3. ASSUME NEW p \in Partition, p # q PROVE Part(p)'
  <2>1. \A j \in Item : Key[j] = p => status'[j] = status[j]
    BY <1>1, <1>2, <1>3
  <2> QED
    BY <1>2, <1>3, <2>1, Frame
<1>4. \A k \in 1..Len(admitted[q]) : admitted[q][k] \in Item /\ admitted[q][k] # i
                                     /\ status'[admitted[q][k]] = status[admitted[q][k]]
  BY <1>1, <1>2, NewElsewhere, Sizes DEF IInv
<1>5. CASE q \in closed
  <2>1. UNCHANGED <<queue, writers, admitted>> /\ status'[i] = "rejected"
    BY <1>1, <1>5 DEF Write, IInv, TypeOK
  <2>2. Part(q)'
    <3>1. Taken(q)' = Taken(q) /\ Stored(q)' = Stored(q) /\ Kept(q)' = Kept(q)
      BY <2>1 DEF Taken, Stored, Kept
    <3>2. Places(q)' /\ Once(q)'
      BY <1>1, <2>1, <3>1 DEF IInv, Part, Places, Once
    <3>4. Room(q)' /\ Holder(q)'
      BY <1>1, <2>1, <3>1 DEF IInv, Part, Room, Holder
    <3>3. Fate(q)'
      BY <1>1, <1>4, <2>1, <3>1 DEF IInv, Part, Fate, FateAt
    <3> QED
      BY <3>2, <3>3, <3>4 DEF Part
  <2>3. Known'
    BY <1>2, <2>1, KnownStays
  <2> QED
    BY <1>3, <2>2, <2>3 DEF IInv
<1>6. CASE q \notin closed
  <2>0. PICK n \in Nat : n = Len(admitted[q]) + 1
    BY Sizes DEF IInv
  <2>1. /\ Len(admitted'[q]) = n /\ admitted'[q][n] = i
        /\ \A k \in 1..Len(admitted[q]) : admitted'[q][k] = admitted[q][k]
    <3>1. admitted'[q] = Append(admitted[q], i)
      BY <1>1, <1>6 DEF Write, IInv, TypeOK
    <3>2. admitted[q] \in Seq(Item)
      BY Sizes DEF IInv
    <3> QED
      BY <2>0, <3>1, <3>2
  <2>2. Known'
    <3>1. \A p \in Partition : \A k \in 1..Len(admitted[p]) :
             k \in 1..Len(admitted'[p]) /\ admitted'[p][k] = admitted[p][k]
      BY <1>2, <2>0, <2>1
    <3>2. \E k \in 1..Len(admitted'[Key[i]]) : admitted'[Key[i]][k] = i
      <4>1. Len(admitted[q]) \in Nat
        BY Sizes DEF IInv
      <4>2. n \in 1..n
        BY <2>0, <4>1
      <4> QED
        BY <1>1, <2>1, <4>2, Zenon
    <3>3. \A j \in Item : status'[j] \notin {"new", "rejected"} =>
             \/ status[j] \notin {"new", "rejected"}
             \/ \E k \in 1..Len(admitted'[Key[j]]) : admitted'[Key[j]][k] = j
      BY <1>2, <3>2
    <3> QED
      BY <3>1, <3>3, KnownStays
  <2>3. Once(q)'
    <3>1. \A k \in 1..n : k = n \/ k \in 1..Len(admitted[q])
      BY <2>0, Sizes DEF IInv
    <3>2. Once(q)
      BY DEF IInv, Part
    <3>3. \A k \in 1..n : Key[admitted'[q][k]] = q
      BY <1>1, <2>1, <3>1, <3>2 DEF Once
    <3>4. ASSUME NEW k \in 1..n, NEW m \in 1..n, admitted'[q][k] = admitted'[q][m]
          PROVE  k = m
      BY <1>4, <2>1, <3>1, <3>2, <3>4 DEF Once
    <3> QED
      BY <2>1, <3>3, <3>4 DEF Once
  <2>4. Taken(q)' = Taken(q) /\ started'[q] = started[q] /\ Holder(q)'
    BY <1>1 DEF Taken, Holder, IInv, Part
  <2>5. CASE Len(queue[q]) < Capacity
    <3>1. /\ queue'[q] = Append(queue[q], i) /\ writers'[q] = writers[q]
          /\ status'[i] = "accepted" /\ writers[q] = <<>>
      <4>1. ~(Len(queue[q]) >= Capacity)
        BY <2>5, Sizes, ShapeAssumption DEF IInv
      <4> QED
        BY <1>1, <1>6, <2>5, <4>1 DEF Write, IInv, TypeOK, Part, Room
    <3>2. /\ Len(queue'[q]) = Len(queue[q]) + 1 /\ queue'[q][Len(queue[q]) + 1] = i
          /\ \A k \in 1..Len(queue[q]) : queue'[q][k] = queue[q][k]
      BY <1>1, <3>1, Sizes DEF IInv
    <3>3. Stored(q) = Len(admitted[q]) /\ Kept(q) = Stored(q)
      <4>1. Kept(q) = Len(admitted[q]) /\ Len(writers[q]) = 0
        BY <1>6, <3>1 DEF IInv, Part, Room
      <4> QED
        BY <4>1, Sizes DEF IInv
    <3>4. Stored(q)' = n /\ Kept(q)' = n
      <4>1. Len(writers'[q]) = 0
        BY <3>1
      <4>2. Stored(q)' = Taken(q)' + Len(queue'[q]) /\ Kept(q)' = Stored(q)' + Len(writers'[q])
        BY DEF Stored, Kept
      <4>3. Stored(q)' = n
        <5>1. Stored(q) = Taken(q) + Len(queue[q]) /\ Taken(q) \in Nat /\ Len(queue[q]) \in Nat
          BY Sizes DEF IInv
        <5> QED
          BY <2>0, <2>4, <3>2, <3>3, <4>2, <5>1
      <4> QED
        BY <2>0, <4>1, <4>2, <4>3
    <3>5. Places(q)'
      <4>1. \A k \in 1..Len(queue'[q]) : queue'[q][k] = admitted'[q][Taken(q) + k]
        <5>1. \A k \in 1..Len(queue[q]) : Taken(q) + k \in 1..Len(admitted[q])
          BY <3>3, Sizes DEF IInv
        <5>2. Taken(q) + Len(queue[q]) + 1 = n
          BY <2>0, <3>3, Sizes DEF IInv
        <5>3. \A k \in 1..Len(queue'[q]) : k \in 1..Len(queue[q]) \/ k = Len(queue[q]) + 1
          BY <3>2, Sizes DEF IInv
        <5>4. \A k \in 1..Len(queue[q]) : queue'[q][k] = admitted'[q][Taken(q) + k]
          BY <2>1, <3>2, <5>1 DEF IInv, Part, Places
        <5>5. queue'[q][Len(queue[q]) + 1] = admitted'[q][Taken(q) + (Len(queue[q]) + 1)]
          BY <2>1, <3>2, <5>2, Sizes DEF IInv
        <5> QED
          BY <5>3, <5>4, <5>5
      <4>2. \A k \in 1..Len(started[q]) : started[q][k] = admitted'[q][k]
        BY <2>1, <3>3, Sizes, SMTT(30) DEF IInv, Part, Places
      <4>3. Len(writers'[q]) = 0
        BY <3>1
      <4> QED
        BY <2>1, <2>4, <3>4, <4>1, <4>2, <4>3 DEF Places
    <3>6. Room(q)'
      BY <1>6, <2>1, <3>1, <3>4 DEF Room
    <3>7. Fate(q)'
      <4> SUFFICES ASSUME NEW k \in 1..n PROVE status'[admitted'[q][k]] = FateAt(q, k)'
        BY <2>1 DEF Fate
      <4>1. CASE k = n
        BY <2>0, <2>1, <2>4, <3>1, <3>3, <3>4, <4>1, Sizes DEF IInv, FateAt
      <4>2. CASE k # n
        <5>1. k \in 1..Len(admitted[q]) /\ k <= Stored(q)
          BY <2>0, <3>3, <4>2, Sizes DEF IInv
        <5>2. status'[admitted'[q][k]] = FateAt(q, k)
          BY <1>4, <2>1, <5>1 DEF IInv, Part, Fate
        <5>3. FateAt(q, k)' = FateAt(q, k)
          BY <2>0, <2>4, <3>3, <3>4, <5>1, Sizes DEF IInv, FateAt
        <5> QED
          BY <5>2, <5>3
      <4> QED
        BY <4>1, <4>2
    <3> QED
      BY <1>3, <2>2, <2>3, <2>4, <3>5, <3>6, <3>7 DEF IInv, Part
  <2>6. CASE Len(queue[q]) >= Capacity
    <3>1. /\ queue'[q] = queue[q] /\ writers'[q] = Append(writers[q], i)
          /\ status'[i] = "waiting"
      <4>1. ~(Len(queue[q]) < Capacity)
        BY <2>6, Sizes, ShapeAssumption DEF IInv
      <4> QED
        BY <1>1, <1>6, <4>1 DEF Write, IInv, TypeOK
    <3>2. /\ Len(writers'[q]) = Len(writers[q]) + 1 /\ writers'[q][Len(writers[q]) + 1] = i
          /\ \A k \in 1..Len(writers[q]) : writers'[q][k] = writers[q][k]
      BY <1>1, <3>1, Sizes DEF IInv
    <3>3. Kept(q) = Len(admitted[q])
      BY <1>1, <1>6 DEF IInv, Part, Room
    <3>4. Stored(q)' = Stored(q) /\ Kept(q)' = n
      <4>1. Stored(q)' = Taken(q)' + Len(queue'[q]) /\ Kept(q)' = Stored(q)' + Len(writers'[q])
        BY DEF Stored, Kept
      <4>2. Stored(q)' = Stored(q)
        BY <2>4, <3>1, <4>1, Sizes DEF IInv
      <4>3. /\ Kept(q) = Stored(q) + Len(writers[q])
            /\ Stored(q) \in Nat /\ Len(writers[q]) \in Nat
        BY Sizes DEF IInv
      <4>4. Kept(q)' = Stored(q) + (Len(writers[q]) + 1)
        BY <3>2, <4>1, <4>2, Zenon
      <4>5. \A a, b \in Nat : a + (b + 1) = (a + b) + 1
        OBVIOUS
      <4>6. Stored(q) + (Len(writers[q]) + 1) = Kept(q) + 1
        <5>1. Stored(q) \in Nat /\ Len(writers[q]) \in Nat
          BY <4>3
        <5>2. Stored(q) + (Len(writers[q]) + 1) = (Stored(q) + Len(writers[q])) + 1
          BY <4>5, <5>1, Zenon
        <5> QED
          BY <4>3, <5>2, Zenon
      <4>7. Kept(q)' = n
        BY <2>0, <3>3, <4>4, <4>6, Zenon
      <4> QED
        BY <4>2, <4>7
    <3>5. Places(q)'
      <4>1. \A k \in 1..Len(writers'[q]) : writers'[q][k] = admitted'[q][Stored(q) + k]
        <5>1. \A k \in 1..Len(writers[q]) : Stored(q) + k \in 1..Len(admitted[q])
          BY <3>3, Sizes DEF IInv
        <5>0. /\ Kept(q) = Stored(q) + Len(writers[q])
              /\ Stored(q) \in Nat /\ Len(writers[q]) \in Nat
          BY Sizes DEF IInv
        <5>2. Stored(q) + (Len(writers[q]) + 1) = n
          BY <2>0, <3>3, <5>0
        <5>3. \A k \in 1..Len(writers'[q]) : k \in 1..Len(writers[q]) \/ k = Len(writers[q]) + 1
          BY <3>2, Sizes DEF IInv
        <5>4. \A k \in 1..Len(writers[q]) : writers'[q][k] = admitted'[q][Stored(q) + k]
          BY <2>1, <3>2, <5>1 DEF IInv, Part, Places
        <5>5. writers'[q][Len(writers[q]) + 1] = admitted'[q][Stored(q) + (Len(writers[q]) + 1)]
          BY <2>1, <3>2, <5>2, Zenon
        <5> QED
          BY <5>3, <5>4, <5>5
      <4>2. \A k \in 1..Len(started[q]) : started[q][k] = admitted'[q][k]
        <5>1. \A k \in 1..Len(started[q]) : k \in 1..Len(admitted[q])
          BY <3>3, Sizes DEF IInv
        <5> QED
          BY <2>1, <5>1 DEF IInv, Part, Places
      <4>3. \A k \in 1..Len(queue[q]) : queue[q][k] = admitted'[q][Taken(q) + k]
        <5>1. \A k \in 1..Len(queue[q]) : Taken(q) + k \in 1..Len(admitted[q])
          BY <3>3, Sizes DEF IInv
        <5> QED
          BY <2>1, <5>1 DEF IInv, Part, Places
      <4> QED
        BY <2>1, <2>4, <3>1, <3>4, <4>1, <4>2, <4>3 DEF Places
    <3>6. Room(q)'
      BY <1>6, <2>1, <2>6, <3>1, <3>4 DEF Room
    <3>7. Fate(q)'
      <4> SUFFICES ASSUME NEW k \in 1..n PROVE status'[admitted'[q][k]] = FateAt(q, k)'
        BY <2>1 DEF Fate
      <4>1. CASE k = n
        BY <2>0, <2>1, <2>4, <3>1, <3>2, <3>3, <3>4, <4>1, Sizes, SMTT(30) DEF IInv, FateAt
      <4>2. CASE k # n
        <5>1. k \in 1..Len(admitted[q]) /\ k <= Kept(q)
          BY <2>0, <3>3, <4>2, Sizes DEF IInv
        <5>2. status'[admitted'[q][k]] = FateAt(q, k)
          BY <1>4, <2>1, <5>1 DEF IInv, Part, Fate
        <5>3. FateAt(q, k)' = FateAt(q, k)
          BY <2>0, <2>4, <3>3, <3>4, <5>1, Sizes DEF IInv, FateAt
        <5> QED
          BY <5>2, <5>3
      <4> QED
        BY <4>1, <4>2
    <3> QED
      BY <1>3, <2>2, <2>3, <2>4, <3>5, <3>6, <3>7 DEF IInv, Part
  <2> QED
    BY <2>5, <2>6, Sizes, ShapeAssumption DEF IInv
<1> QED
  BY <1>5, <1>6

LEMMA TakeKeeps ==
  ASSUME IInv, TypeOK', NEW p \in Partition, ~Busy(p), Take(p),
         UNCHANGED <<closed, admitted>>
  PROVE  IInv'
<1> DEFINE i == queue[p][1]
           w == writers[p][1]
<1>1. /\ queue[p] # <<>> /\ i \in Item /\ Head(queue[p]) = i
      /\ writers[p] = <<>> \/ (Head(writers[p]) = w /\ w \in Item)
      /\ Part(p) /\ Places(p) /\ Once(p) /\ Fate(p) /\ Holder(p) /\ Room(p) /\ TypeOK /\ Known
  BY TakenQueue DEF IInv, Part
<1>2. /\ Taken(p) \in Nat /\ Len(queue[p]) \in Nat /\ Len(writers[p]) \in Nat
      /\ Stored(p) = Taken(p) + Len(queue[p]) /\ Kept(p) = Stored(p) + Len(writers[p])
      /\ Len(started[p]) = Taken(p) /\ Len(admitted[p]) \in Nat
      /\ started[p] \in Seq(Item) /\ queue[p] \in Seq(Item) /\ writers[p] \in Seq(Item)
      /\ admitted[p] \in Seq(Item)
  BY <1>1, Sizes
<1>0. /\ Taken(p) \in Nat /\ Len(queue[p]) \in Nat /\ Len(writers[p]) \in Nat
      /\ Stored(p) = Taken(p) + Len(queue[p]) /\ Kept(p) = Stored(p) + Len(writers[p])
      /\ Stored(p) \in Nat /\ Kept(p) \in Nat
  BY <1>2
<1>3. /\ Len(queue[p]) >= 1 /\ Taken(p) + 1 \in 1..Len(admitted[p])
      /\ admitted[p][Taken(p) + 1] = i
      /\ Kept(p) <= Len(admitted[p])
  <2>1. Len(queue[p]) >= 1
    BY <1>1, <1>2
  <2>2. 1 \in 1..Len(queue[p]) /\ Kept(p) <= Len(admitted[p])
    BY <2>1, <1>1, <1>2 DEF Places
  <2>3. admitted[p][Taken(p) + 1] = i
    BY <1>1, <2>2 DEF Places
  <2> QED
    BY <1>2, <2>1, <2>2, <2>3
<1>4. writers[p] # <<>> =>
         /\ Len(writers[p]) >= 1 /\ Stored(p) + 1 \in 1..Len(admitted[p])
         /\ admitted[p][Stored(p) + 1] = w
  <2> SUFFICES ASSUME writers[p] # <<>>
               PROVE  /\ Len(writers[p]) >= 1 /\ Stored(p) + 1 \in 1..Len(admitted[p])
                      /\ admitted[p][Stored(p) + 1] = w
    OBVIOUS
  <2>1. Len(writers[p]) >= 1
    BY <1>2
  <2>2. 1 \in 1..Len(writers[p])
    BY <2>1, <1>2
  <2>3. admitted[p][Stored(p) + 1] = w
    BY <1>1, <2>2 DEF Places
  <2> QED
    BY <1>2, <1>3, <2>1, <2>3
<1> HIDE DEF i, w
<1>5. /\ status'[i] = "running"
      /\ writers[p] # <<>> /\ w # i => status'[w] = "accepted"
      /\ \A j \in Item : j # i /\ (writers[p] = <<>> \/ j # w) => status'[j] = status[j]
      /\ started'[p] = Append(started[p], i)
      /\ \A r \in Partition : r # p =>
             /\ UNCHANGED <<queue[r], writers[r], started[r], worker[r]>>
             /\ Busy(r)' = Busy(r)
      /\ worker'[p] = [at |-> "running", item |-> i] /\ Busy(p)'
  BY <1>1 DEF Take, TypeOK, Busy
<1>6. /\ Len(started'[p]) = Taken(p) + 1 /\ started'[p][Taken(p) + 1] = i
      /\ \A k \in 1..Taken(p) : started'[p][k] = started[p][k]
      /\ Taken(p)' = Taken(p) + 1
  BY <1>1, <1>2, <1>5 DEF Taken
<1>7. /\ Stored(p)' = IF writers[p] = <<>> THEN Stored(p) ELSE Stored(p) + 1
      /\ Kept(p)' = Kept(p)
  <2>1. Stored(p)' = Taken(p)' + Len(queue'[p]) /\ Kept(p)' = Stored(p)' + Len(writers'[p])
    BY DEF Stored, Kept
  <2>2. CASE writers[p] = <<>>
    <3>1. Len(queue'[p]) = Len(queue[p]) - 1 /\ Len(writers'[p]) = 0 /\ Len(writers[p]) = 0
      BY <1>1, <2>2, TakenQueue
    <3> QED
      BY <1>2, <1>6, <2>1, <2>2, <3>1
  <2>3. CASE writers[p] # <<>>
    <3>1. Len(queue'[p]) = Len(queue[p]) /\ Len(writers'[p]) = Len(writers[p]) - 1
      BY <1>1, <2>3, TakenQueue
    <3>2. Stored(p)' = Stored(p) + 1
      BY <1>0, <1>6, <2>1, <3>1
    <3>3. Kept(p)' = Kept(p)
      BY <1>0, <2>1, <3>1, <3>2
    <3> QED
      BY <2>3, <3>2, <3>3
  <2> QED
    BY <2>2, <2>3
<1>8. \A k \in 1..Len(admitted[p]) :
         /\ admitted[p][k] \in Item /\ Key[admitted[p][k]] = p
         /\ admitted[p][k] = i => k = Taken(p) + 1
         /\ writers[p] # <<>> /\ admitted[p][k] = w => k = Stored(p) + 1
  <2> SUFFICES ASSUME NEW k \in 1..Len(admitted[p])
               PROVE  /\ admitted[p][k] \in Item /\ Key[admitted[p][k]] = p
                      /\ admitted[p][k] = i => k = Taken(p) + 1
                      /\ writers[p] # <<>> /\ admitted[p][k] = w => k = Stored(p) + 1
    OBVIOUS
  <2>1. admitted[p][k] \in Item
    BY <1>2
  <2>2. Key[admitted[p][k]] = p
    BY <1>1 DEF Once
  <2>3. admitted[p][k] = i => k = Taken(p) + 1
    BY <1>1, <1>3, Zenon DEF Once
  <2>4. writers[p] # <<>> /\ admitted[p][k] = w => k = Stored(p) + 1
    BY <1>1, <1>4, Zenon DEF Once
  <2> QED
    BY <2>1, <2>2, <2>3, <2>4
<1>9. Key[i] = p /\ (writers[p] # <<>> => Key[w] = p)
  BY <1>3, <1>4, <1>8
<1>10. ASSUME NEW r \in Partition, r # p PROVE Part(r)'
  <2>1. \A j \in Item : Key[j] = r => status'[j] = status[j]
    BY <1>5, <1>9, <1>10
  <2> QED
    BY <1>5, <1>10, <2>1, Frame
<1>11. Known'
  <2>1. status[i] = "accepted"
    BY <1>1, <1>2, <1>3, SMTT(30) DEF Fate, FateAt
  <2>2. writers[p] # <<>> => status[w] = "waiting"
    <3> SUFFICES ASSUME writers[p] # <<>> PROVE status[w] = "waiting"
      OBVIOUS
    <3>1. status[w] = FateAt(p, Stored(p) + 1)
      BY <1>1, <1>4 DEF Fate
    <3>2. Stored(p) + 1 > Taken(p) /\ Stored(p) + 1 <= Kept(p) /\ ~(Stored(p) + 1 <= Stored(p))
      <4>1. Len(writers[p]) >= 1
        BY <1>4
      <4> QED
        BY <1>0, <4>1
    <3> QED
      BY <1>0, <3>1, <3>2 DEF FateAt
  <2>3. \A j \in Item : status'[j] \notin {"new", "rejected"} => status[j] \notin {"new", "rejected"}
    BY <1>1, <1>5, <2>1, <2>2
  <2> QED
    BY <2>3, KnownStays
<1>12. Places(p)'
  <2>1. \A k \in 1..Len(started'[p]) : started'[p][k] = admitted[p][k]
    <3>1. \A k \in 1..(Taken(p) + 1) : k = Taken(p) + 1 \/ k \in 1..Taken(p)
      BY <1>2
    <3>2. \A k \in 1..Taken(p) : started[p][k] = admitted[p][k]
      BY <1>1, <1>2 DEF Places
    <3> QED
      BY <1>3, <1>6, <3>1, <3>2
  <2>2. \A k \in 1..Len(queue'[p]) : queue'[p][k] = admitted[p][Taken(p)' + k]
    <3>1. \A k \in 1..(Len(queue[p]) - 1) : queue'[p][k] = admitted[p][Taken(p)' + k]
      <4> SUFFICES ASSUME NEW k \in 1..(Len(queue[p]) - 1)
                   PROVE  queue'[p][k] = admitted[p][Taken(p)' + k]
        OBVIOUS
      <4>1. queue'[p][k] = queue[p][k + 1]
        BY <1>1, <1>2, TakenQueue
      <4>2. k + 1 \in 1..Len(queue[p]) /\ Taken(p)' + k = Taken(p) + (k + 1)
        BY <1>2, <1>6, SMTT(30)
      <4>3. queue[p][k + 1] = admitted[p][Taken(p) + (k + 1)]
        BY <1>1, <4>2 DEF Places
      <4> QED
        BY <4>1, <4>2, <4>3
    <3>2. CASE writers[p] = <<>>
      BY <1>1, <3>1, <3>2, TakenQueue
    <3>3. CASE writers[p] # <<>>
      <4>1. Len(queue'[p]) = Len(queue[p]) /\ queue'[p][Len(queue[p])] = w
        BY <1>1, <3>3, TakenQueue DEF w
      <4>2. Taken(p)' + Len(queue[p]) = Stored(p) + 1
        <5>1. \A a, b \in Nat : (a + 1) + b = (a + b) + 1
          OBVIOUS
        <5>2. /\ Taken(p) \in Nat /\ Len(queue[p]) \in Nat
              /\ Taken(p)' = Taken(p) + 1 /\ Stored(p) = Taken(p) + Len(queue[p])
          BY <1>0, <1>6
        <5> QED
          BY <5>1, <5>2, Zenon
      <4>3. \A k \in 1..Len(queue[p]) : k = Len(queue[p]) \/ k \in 1..(Len(queue[p]) - 1)
        BY <1>2
      <4> QED
        BY <1>4, <3>1, <3>3, <4>1, <4>2, <4>3
    <3> QED
      BY <3>2, <3>3
  <2>3. \A k \in 1..Len(writers'[p]) : writers'[p][k] = admitted[p][Stored(p)' + k]
    <3>1. CASE writers[p] = <<>>
      BY <1>1, <3>1, TakenQueue
    <3>2. CASE writers[p] # <<>>
      <4> SUFFICES ASSUME NEW k \in 1..(Len(writers[p]) - 1)
                   PROVE  writers'[p][k] = admitted[p][Stored(p)' + k]
        BY <1>1, <3>2, TakenQueue
      <4>1. writers'[p][k] = writers[p][k + 1]
        BY <1>1, <1>2, <3>2, TakenQueue
      <4>2. k + 1 \in 1..Len(writers[p]) /\ Stored(p)' + k = Stored(p) + (k + 1)
        <5>1. Stored(p)' = Stored(p) + 1 /\ Stored(p)' \in Nat
          BY <1>0, <1>7, <3>2
        <5>2. k + 1 \in 1..Len(writers[p])
          BY <1>0
        <5>3. \A a, b, c \in Nat : b = a + 1 => b + c = a + (c + 1)
          OBVIOUS
        <5> QED
          <6>1. k \in Nat /\ Stored(p) \in Nat
            BY <1>0
          <6>2. Stored(p)' + k = Stored(p) + (k + 1)
            BY <5>1, <5>3, <6>1, Zenon
          <6> QED
            BY <5>2, <6>2
      <4>3. writers[p][k + 1] = admitted[p][Stored(p) + (k + 1)]
        BY <1>1, <4>2 DEF Places
      <4> QED
        BY <4>1, <4>2, <4>3
    <3> QED
      BY <3>1, <3>2
  <2> QED
    BY <1>3, <1>7, <2>1, <2>2, <2>3 DEF Places
<1>13. Once(p)'
  BY <1>1 DEF Once
<1>14. Fate(p)'
  <2> SUFFICES ASSUME NEW k \in 1..Len(admitted[p])
               PROVE  status'[admitted[p][k]] = FateAt(p, k)'
    BY DEF Fate
  <2>0. status[admitted[p][k]] = FateAt(p, k) /\ k \in Nat
    BY <1>1, <1>2 DEF Fate
  <2>1. CASE k = Taken(p) + 1
    BY <1>2, <1>3, <1>5, <1>6, <2>1 DEF FateAt
  <2>2. CASE k # Taken(p) + 1 /\ writers[p] # <<>> /\ k = Stored(p) + 1
    <3>1. admitted[p][k] = w /\ w # i
      BY <1>4, <1>8, <2>2
    <3>2. FateAt(p, k)' = "accepted"
      <4>1. k > Taken(p)' /\ k <= Stored(p)'
        BY <1>2, <1>3, <1>6, <1>7, <2>0, <2>2
      <4> QED
        BY <1>2, <1>6, <2>0, <4>1 DEF FateAt
    <3> QED
      BY <1>5, <2>2, <3>1, <3>2
  <2>3. CASE k # Taken(p) + 1 /\ (writers[p] = <<>> \/ k # Stored(p) + 1)
    <3>1. status'[admitted[p][k]] = status[admitted[p][k]]
      BY <1>5, <1>8, <2>3
    <3>2. FateAt(p, k)' = FateAt(p, k)
      <4>1. CASE k <= Taken(p)
        BY <1>2, <1>6, <2>0, <4>1 DEF FateAt
      <4>2. CASE k > Taken(p) + 1
        <5>1. k <= Stored(p)' <=> k <= Stored(p)
          <6>1. CASE Stored(p)' = Stored(p)
            BY <6>1
          <6>2. CASE Stored(p)' = Stored(p) + 1 /\ k # Stored(p) + 1
            <7>1. k <= Stored(p) + 1 <=> k <= Stored(p)
              <8>1. \A a, b \in Nat : a # b + 1 => (a <= b + 1 <=> a <= b)
                OBVIOUS
              <8>2. k \in Nat /\ Stored(p) \in Nat /\ k # Stored(p) + 1
                BY <1>0, <2>0, <6>2
              <8> QED
                BY <8>1, <8>2
            <7> QED
              BY <6>2, <7>1
          <6> QED
            BY <1>7, <2>3, <6>1, <6>2
        <5>2. /\ FateAt(p, k) = IF k <= Stored(p) THEN "accepted"
                                ELSE IF k <= Kept(p) THEN "waiting" ELSE "rejected"
              /\ FateAt(p, k)' = IF k <= Stored(p)' THEN "accepted"
                                 ELSE IF k <= Kept(p)' THEN "waiting" ELSE "rejected"
          BY <1>2, <1>6, <2>0, <4>2 DEF FateAt
        <5> QED
          BY <1>7, <5>1, <5>2
      <4> QED
        BY <1>2, <2>0, <2>3, <4>1, <4>2
    <3> QED
      BY <2>0, <3>1, <3>2
  <2> QED
    BY <2>1, <2>2, <2>3
<1>15. Holder(p)'
  BY <1>2, <1>5, <1>6 DEF Holder
<1>16. Room(p)'
  <2>1. writers'[p] # <<>> => writers[p] # <<>>
    BY <1>1, TakenQueue
  <2>2. writers[p] # <<>> => Len(queue'[p]) = Len(queue[p])
    BY <1>1, TakenQueue
  <2> QED
    BY <1>1, <1>7, <2>1, <2>2 DEF Room
<1>17. Part(p)'
  BY <1>12, <1>13, <1>14, <1>15, <1>16 DEF Part
<1> QED
  BY <1>10, <1>11, <1>17 DEF IInv

LEMMA CompleteKeeps ==
  ASSUME IInv, TypeOK', NEW p \in Partition, Complete(p),
         UNCHANGED <<queue, worker, admitted, started>>
  PROVE  IInv'
<1>1. /\ TypeOK /\ Known /\ Places(p) /\ Once(p) /\ Fate(p) /\ Holder(p)
  BY DEF IInv, Part
<1>2. /\ Taken(p) \in Nat /\ Len(queue[p]) \in Nat /\ Len(writers[p]) \in Nat
      /\ Stored(p) \in Nat /\ Kept(p) \in Nat /\ Len(admitted[p]) \in Nat
      /\ Stored(p) = Taken(p) + Len(queue[p]) /\ Kept(p) = Stored(p) + Len(writers[p])
      /\ admitted[p] \in Seq(Item)
  BY <1>1, Sizes
<1>3. /\ writers'[p] = <<>> /\ Len(writers'[p]) = 0 /\ p \in closed'
      /\ \A r \in Partition : r # p => writers'[r] = writers[r] /\ (r \in closed' <=> r \in closed)
      /\ \A j \in Item : status'[j] = IF status[j] = "waiting" /\ Key[j] = p
                                      THEN "rejected" ELSE status[j]
  BY <1>1 DEF Complete, TypeOK
<1>4. Taken(p)' = Taken(p) /\ Stored(p)' = Stored(p) /\ Kept(p)' = Stored(p) /\ Busy(p)' = Busy(p)
  <2>1. Taken(p)' = Taken(p) /\ Stored(p)' = Stored(p) /\ Busy(p)' = Busy(p)
    BY DEF Taken, Stored, Busy
  <2>2. Kept(p)' = Stored(p)' + Len(writers'[p])
    BY DEF Kept
  <2> QED
    BY <1>2, <1>3, <2>1, <2>2
<1>5. ASSUME NEW r \in Partition, r # p PROVE Part(r)'
  <2>1. \A j \in Item : Key[j] = r => status'[j] = status[j]
    BY <1>3, <1>5
  <2> QED
    BY <1>3, <1>5, <2>1, Frame DEF Busy
<1>6. Known'
  BY <1>3, KnownStays
<1>7. Places(p)' /\ Once(p)'
  <2>1. Kept(p)' <= Len(admitted[p])
    BY <1>1, <1>2, <1>4 DEF Places
  <2> QED
    BY <1>1, <1>3, <1>4, <2>1 DEF Places, Once
<1>8. Fate(p)'
  <2> SUFFICES ASSUME NEW k \in 1..Len(admitted[p])
               PROVE  status'[admitted[p][k]] = FateAt(p, k)'
    BY DEF Fate
  <2>1. admitted[p][k] \in Item /\ Key[admitted[p][k]] = p /\ k \in Nat
        /\ status[admitted[p][k]] = FateAt(p, k)
    BY <1>1, <1>2 DEF Once, Fate
  <2>2. CASE k <= Stored(p)
    <3>1. FateAt(p, k) # "waiting" /\ FateAt(p, k)' = FateAt(p, k)
      BY <1>4, <2>2 DEF FateAt
    <3> QED
      BY <1>3, <2>1, <3>1
  <2>3. CASE ~(k <= Stored(p))
    <3>1. ~(k < Taken(p)) /\ k # Taken(p)
      BY <1>2, <2>1, <2>3
    <3>2. FateAt(p, k) \in {"waiting", "rejected"} /\ FateAt(p, k)' = "rejected"
      BY <1>4, <2>3, <3>1 DEF FateAt
    <3> QED
      BY <1>3, <2>1, <3>2
  <2> QED
    BY <2>2, <2>3
<1>9. Holder(p)' /\ Room(p)'
  BY <1>1, <1>3, <1>4 DEF Holder, Room
<1> QED
  BY <1>5, <1>6, <1>7, <1>8, <1>9 DEF IInv, Part

\* The item of a busy worker ends, and the worker is no longer busy.
LEMMA EndKeeps ==
  ASSUME IInv, TypeOK', NEW p \in Partition, Busy(p),
         status' = [status EXCEPT ![worker[p].item] = "done"],
         NEW place \in {"loop", "exited", "faulted"}, Goto(p, place),
         UNCHANGED <<queue, writers, closed, admitted, started>>
  PROVE  IInv'
<1> DEFINE i == worker[p].item
<1>1. /\ TypeOK /\ Known /\ Places(p) /\ Once(p) /\ Fate(p) /\ Holder(p) /\ Room(p)
  BY DEF IInv, Part
<1>2. /\ i \in Item /\ Taken(p) \in 1..Len(admitted[p]) /\ i = admitted[p][Taken(p)]
      /\ Key[i] = p /\ status[i] = "running"
  BY HeldItem
<1> HIDE DEF i
<1>3. /\ Taken(p) \in Nat /\ Len(admitted[p]) \in Nat /\ admitted[p] \in Seq(Item)
  BY <1>1, Sizes
<1>4. /\ Taken(p)' = Taken(p) /\ Stored(p)' = Stored(p) /\ Kept(p)' = Kept(p)
      /\ ~Busy(p)' /\ worker'[p].item = None
      /\ \A r \in Partition : r # p => Busy(r)' = Busy(r) /\ worker'[r].item = worker[r].item
  BY <1>1 DEF Taken, Stored, Kept, Busy, Goto, TypeOK
<1>5. status'[i] = "done" /\ \A j \in Item : j # i => status'[j] = status[j]
  BY <1>1, <1>2 DEF TypeOK, i
<1>6. ASSUME NEW r \in Partition, r # p PROVE Part(r)'
  <2>1. \A j \in Item : Key[j] = r => status'[j] = status[j]
    BY <1>2, <1>5, <1>6
  <2> QED
    BY <1>4, <1>6, <2>1, Frame
<1>7. Known'
  BY <1>2, <1>5, KnownStays
<1>8. Fate(p)'
  <2> SUFFICES ASSUME NEW k \in 1..Len(admitted[p])
               PROVE  status'[admitted[p][k]] = FateAt(p, k)'
    BY DEF Fate
  <2>1. CASE k = Taken(p)
    BY <1>2, <1>3, <1>4, <1>5, <2>1 DEF FateAt
  <2>2. CASE k # Taken(p)
    <3>1. admitted[p][k] \in Item /\ admitted[p][k] # i
      BY <1>1, <1>2, <1>3, <2>2 DEF Once
    <3>2. status[admitted[p][k]] = FateAt(p, k) /\ FateAt(p, k)' = FateAt(p, k)
      BY <1>1, <1>4, <2>2 DEF Fate, FateAt
    <3> QED
      BY <1>5, <3>1, <3>2
  <2> QED
    BY <2>1, <2>2
<1>9. Places(p)' /\ Once(p)' /\ Holder(p)' /\ Room(p)'
  BY <1>1, <1>4 DEF Places, Once, Holder, Room
<1> QED
  BY <1>6, <1>7, <1>8, <1>9 DEF IInv, Part

\* A step that leaves the channels and the items alone.
LEMMA IdleKeeps ==
  ASSUME IInv, TypeOK', UNCHANGED <<queue, writers, closed, status, admitted, started>>,
         \A p \in Partition : Busy(p)' = Busy(p) /\ worker'[p].item = worker[p].item
  PROVE  IInv'
<1>1. ASSUME NEW p \in Partition PROVE Part(p)'
  BY <1>1, Frame
<1>2. Known'
  BY DEF IInv, Known
<1> QED
  BY <1>1, <1>2 DEF IInv

LEMMA StepIInv == IInv /\ [Next]_vars => IInv'
<1> SUFFICES ASSUME IInv, [Next]_vars PROVE IInv'
  OBVIOUS
<1>0. TypeOK /\ TypeOK' /\ \A p \in Partition : Holder(p)
  BY StepType DEF IInv, Part
<1>1. ASSUME NEW i \in Item, Enqueue(i) PROVE IInv'
  BY <1>0, <1>1, WriteKeeps DEF Enqueue, Busy
<1>2. ASSUME NEW p \in Partition, TryRead(p) \/ ReadAsync(p) PROVE IInv'
  <2>1. ~Busy(p)
    BY <1>2 DEF TryRead, ReadAsync, Busy
  <2>2. CASE Take(p)
    BY <1>0, <1>2, <2>1, <2>2, TakeKeeps DEF TryRead, ReadAsync
  <2>3. CASE ~Take(p)
    <3>1. PICK place \in {"waiting", "exited"} : Goto(p, place)
      BY <1>2, <2>3 DEF TryRead, ReadAsync
    <3>2. worker[p].item = None
      BY <1>0, <2>1 DEF Holder
    <3>3. \A q \in Partition : Busy(q)' = Busy(q) /\ worker'[q].item = worker[q].item
      BY <1>0, <2>1, <3>1, <3>2 DEF Goto, Busy, TypeOK
    <3> QED
      BY <1>0, <1>2, <2>3, <3>3, IdleKeeps DEF TryRead, ReadAsync
  <2> QED
    BY <2>2, <2>3
<1>3. ASSUME NEW p \in Partition, CheckCancelled(p) PROVE IInv'
  <2>1. PICK place \in {"reading", "exited"} : Goto(p, place)
    BY <1>3 DEF CheckCancelled
  <2>2. ~Busy(p) /\ worker[p].item = None
    BY <1>0, <1>3 DEF CheckCancelled, Busy, Holder
  <2>3. \A q \in Partition : Busy(q)' = Busy(q) /\ worker'[q].item = worker[q].item
    BY <1>0, <2>1, <2>2, SMTT(30) DEF Goto, Busy, TypeOK
  <2> QED
    BY <1>0, <1>3, <2>3, IdleKeeps DEF CheckCancelled
<1>4. ASSUME NEW p \in Partition, EnqueueChild(p) PROVE IInv'
  <2>1. Busy(p)
    BY <1>4 DEF EnqueueChild, Busy
  <2>2. Child[worker[p].item] \in Item
    BY <1>4, <2>1, HeldItem, ShapeAssumption DEF EnqueueChild
  <2>3. \A q \in Partition : Busy(q)' = Busy(q) /\ worker'[q].item = worker[q].item
    BY <1>0, <1>4, <2>1 DEF EnqueueChild, Busy, TypeOK
  <2> QED
    BY <1>0, <1>4, <2>2, <2>3, WriteKeeps DEF EnqueueChild
<1>5. ASSUME NEW p \in Partition, ChildEnqueued(p) PROVE IInv'
  <2>1. Busy(p)
    BY <1>5 DEF ChildEnqueued, Busy
  <2>2. CASE status[Child[worker[p].item]] = "rejected"
    BY <1>0, <1>5, <2>1, <2>2, EndKeeps DEF ChildEnqueued
  <2>3. CASE status[Child[worker[p].item]] # "rejected"
    <3>1. \A q \in Partition : Busy(q)' = Busy(q) /\ worker'[q].item = worker[q].item
      <4>1. worker[p].at = "child" /\ worker' = [worker EXCEPT ![p].at = "running"]
        BY <1>5, <2>3 DEF ChildEnqueued
      <4> QED
        BY <1>0, <4>1, SMTT(30) DEF Busy, TypeOK
    <3> QED
      BY <1>0, <1>5, <2>3, <3>1, IdleKeeps DEF ChildEnqueued
  <2> QED
    BY <2>2, <2>3
<1>6. ASSUME NEW p \in Partition, EndItem(p) PROVE IInv'
  <2>1. Busy(p)
    BY <1>6 DEF EndItem, Busy
  <2>2. PICK place \in {"loop", "exited", "faulted"} : Goto(p, place)
    BY <1>6 DEF EndItem
  <2> QED
    BY <1>0, <1>6, <2>1, <2>2, EndKeeps DEF EndItem
<1>7. ASSUME NEW c \in Caller, Stop(c) \/ StopReturns(c) PROVE IInv'
  BY <1>0, <1>7, IdleKeeps DEF Stop, StopReturns, Busy
<1>8. ASSUME NEW c \in Caller, CompleteNext(c) PROVE IInv'
  BY <1>0, <1>8, CompleteKeeps DEF CompleteNext
<1>9. CASE UNCHANGED vars
  BY <1>0, <1>9, IdleKeeps DEF vars, Busy
<1> QED
  BY <1>1, <1>2, <1>3, <1>4, <1>5, <1>6, <1>7, <1>8, <1>9 DEF Next, Work

LEMMA AlwaysIInv == Spec => []IInv
  BY InitIInv, StepIInv, PTL DEF Spec

\* What was started is the first part of what was admitted.
LEMMA StartedAdmitted ==
  ASSUME IInv, NEW p \in Partition
  PROVE  \A k \in 1..Len(started[p]) :
             k \in 1..Len(admitted[p]) /\ started[p][k] = admitted[p][k]
<1>1. Places(p) /\ TypeOK
  BY DEF IInv, Part
<1>2. Len(started[p]) <= Len(admitted[p])
  BY <1>1, Sizes, SMTT(30) DEF Places
<1> QED
  BY <1>1, <1>2, Sizes DEF Places

-----------------------------------------------------------------------------
\* Every state is one of the program's: in particular no channel holds more
\* than MaxCapacity items.
THEOREM TypeCorrect == Spec => []TypeOK
<1>1. IInv => TypeOK
  BY DEF IInv
<1> QED
  BY <1>1, AlwaysIInv, PTL

\* README.md, "Same key = sequential": an item starts only when every item of
\* its partition whose EnqueueAsync came before has ended.
THEOREM SameKeySequential == Spec => []KeyOrder
<1>1. IInv => KeyOrder
  <2> SUFFICES ASSUME IInv, NEW p \in Partition, NEW i \in Item, NEW j \in Item,
                      Before(admitted[p], i, j), status[j] \in {"running", "done"}
               PROVE  status[i] = "done"
    BY DEF KeyOrder
  <2>1. PICK a, b \in 1..Len(admitted[p]) : a < b /\ admitted[p][a] = i /\ admitted[p][b] = j
    BY DEF Before
  <2>2. FateAt(p, a) = status[i] /\ FateAt(p, b) = status[j]
    BY <2>1 DEF IInv, Part, Fate
  <2>3. b <= Taken(p)
    BY <2>2, Sizes DEF IInv, FateAt
  <2>4. a < Taken(p)
    BY <2>1, <2>3, Sizes DEF IInv
  <2> QED
    BY <2>2, <2>4 DEF FateAt
<1> QED
  BY <1>1, AlwaysIInv, PTL

\* An item runs at most once, never when its call was rejected, and an item
\* that was accepted is queued until it runs.
THEOREM NothingLost == Spec => []NoneLost
<1>1. IInv => NoneLost
  <2> SUFFICES ASSUME IInv PROVE NoneLost
    OBVIOUS
  <2>1. ASSUME NEW p \in Partition PROVE IsInjective(started[p])
    <3>1. \A k \in 1..Len(started[p]) : k \in 1..Len(admitted[p]) /\ started[p][k] = admitted[p][k]
      BY StartedAdmitted
    <3>2. DOMAIN started[p] = 1..Len(started[p])
      BY Sizes DEF IInv
    <3> QED
      BY <3>1, <3>2 DEF IsInjective, IInv, Part, Once
  <2>2. ASSUME NEW i \in Item, status[i] = "rejected"
        PROVE  i \notin Range(started[Key[i]])
    <3> DEFINE p == Key[i]
    <3>0. p \in Partition
      BY ShapeAssumption
    <3> HIDE DEF p
    <3> SUFFICES ASSUME NEW k \in 1..Len(started[p]), started[p][k] = i PROVE FALSE
      <4>1. DOMAIN started[p] = 1..Len(started[p])
        BY <3>0, Sizes DEF IInv
      <4> QED
        BY <4>1 DEF Range, p
    <3>1. k \in 1..Len(admitted[p]) /\ admitted[p][k] = i /\ k <= Taken(p) /\ Taken(p) \in Nat
      BY <3>0, StartedAdmitted, Sizes DEF IInv
    <3>2. FateAt(p, k) # "rejected"
      BY <3>1 DEF FateAt
    <3> QED
      BY <2>2, <3>0, <3>1, <3>2 DEF IInv, Part, Fate
  <2>3. ASSUME NEW i \in Item, status[i] = "accepted"
        PROVE  i \in Range(queue[Key[i]])
    <3>1. PICK p \in Partition : p = Key[i]
      BY ShapeAssumption
    <3>2. PICK k \in 1..Len(admitted[p]) : admitted[p][k] = i
      BY <2>3, <3>1 DEF IInv, Known
    <3>3. FateAt(p, k) = "accepted"
      BY <2>3, <3>2 DEF IInv, Part, Fate
    <3>4. /\ Taken(p) \in Nat /\ Stored(p) = Taken(p) + Len(queue[p]) /\ Len(queue[p]) \in Nat
      BY Sizes DEF IInv
    <3>5. ~(k < Taken(p)) /\ k # Taken(p) /\ k <= Stored(p)
      BY <3>3 DEF FateAt
    <3>6. PICK m \in 1..Len(queue[p]) : k = Taken(p) + m
      <4>1. k - Taken(p) \in 1..Len(queue[p]) /\ k = Taken(p) + (k - Taken(p))
        BY <3>4, <3>5
      <4> QED
        BY <4>1
    <3>7. queue[p][m] = i
      BY <3>2, <3>6 DEF IInv, Part, Places
    <3>8. m \in DOMAIN queue[p]
      BY Sizes DEF IInv
    <3> QED
      BY <3>1, <3>7, <3>8 DEF Range
  <2> QED
    BY <2>1, <2>2, <2>3 DEF NoneLost
<1> QED
  BY <1>1, AlwaysIInv, PTL

-----------------------------------------------------------------------------
(* Draining *)

\* A draining dispatcher is never cancelled, so that its workers leave the loop
\* for a completed channel with nothing in it, or for the refusal of an item's
\* own call; an item that awaits a call has one to await.
Drained(p) == p \in closed /\ queue[p] = <<>>

Refused(p) == \E i \in Range(started[p]) : Child[i] # None /\ status[Child[i]] = "rejected"

Left(p) ==
    /\ worker[p].at = "child" => Child[worker[p].item] # None
    /\ DrainOnDispose /\ worker[p].at = "exited" => Refused(p) \/ Drained(p)

DrainInv == (DrainOnDispose => ~cancelled) /\ \A p \in Partition : Left(p)

\* What a write does to a completed channel, and to a call that has ended.
LEMMA WriteLeaves ==
  ASSUME IInv, NEW i \in Item, status[i] = "new", Write(i), UNCHANGED <<closed, started>>,
         NEW p \in Partition
  PROVE  (Drained(p) => Drained(p)') /\ (Refused(p) => Refused(p)')
<1>1. \A j \in Item : status[j] = "rejected" => status'[j] = "rejected"
  BY DEF Write, IInv, TypeOK
<1>2. p \in closed => queue'[p] = queue[p]
  BY DEF Write, IInv, TypeOK
<1>3. Range(started[p]) \subseteq Item
  <2>1. started[p] \in Seq(Item)
    BY Sizes DEF IInv
  <2> QED
    BY <2>1 DEF Range
<1>4. \A j \in Item : Child[j] # None => Child[j] \in Item
  BY ShapeAssumption
<1>5. Drained(p) => Drained(p)'
  BY <1>2 DEF Drained
<1>6. Refused(p) => Refused(p)'
  BY <1>1, <1>3, <1>4 DEF Refused
<1> QED
  BY <1>5, <1>6

\* The other steps: an ended call stays refused, and what was started stays so.
LEMMA RefusedStays ==
  ASSUME IInv, NEW p \in Partition, Range(started[p]) \subseteq Range(started'[p]),
         \A j \in Item : status[j] = "rejected" => status'[j] = "rejected"
  PROVE  Refused(p) => Refused(p)'
<1>1. Range(started[p]) \subseteq Item
  <2>1. started[p] \in Seq(Item)
    BY Sizes DEF IInv
  <2> QED
    BY <2>1 DEF Range
<1>2. \A j \in Item : Child[j] # None => Child[j] \in Item
  BY ShapeAssumption
<1> QED
  BY <1>1, <1>2 DEF Refused

\* The item a busy worker holds is among those it started.
LEMMA HeldStarted ==
  ASSUME IInv, NEW p \in Partition, Busy(p)
  PROVE  worker[p].item \in Range(started[p])
<1>1. Taken(p) \in 1..Len(started[p]) /\ worker[p].item = started[p][Taken(p)]
      /\ started[p] \in Seq(Item)
  BY Sizes DEF IInv, Part, Holder
<1> QED
  BY <1>1 DEF Range

\* A step that adds nothing to the channels and starts nothing.
LEMMA LeftAlone ==
  ASSUME IInv, NEW p \in Partition, Left(p), worker'[p] = worker[p],
         closed \subseteq closed', UNCHANGED <<DrainOnDispose, queue[p], started[p]>>,
         \A j \in Item : status[j] = "rejected" => status'[j] = "rejected"
  PROVE  Left(p)'
<1>1. Refused(p) => Refused(p)'
  BY RefusedStays
<1>2. Drained(p) => Drained(p)'
  BY DEF Drained
<1> QED
  BY <1>1, <1>2 DEF Left

LEMMA TakeLeaves ==
  ASSUME IInv, NEW q \in Partition, Take(q), UNCHANGED <<DrainOnDispose, closed>>,
         NEW p \in Partition, Left(p)
  PROVE  Left(p)'
<1>1. TypeOK
  BY DEF IInv
<1>2. CASE p = q
  <2>1. worker'[p].at = "running"
    BY <1>1, <1>2 DEF Take, TypeOK
  <2> QED
    BY <2>1 DEF Left
<1>3. CASE p # q
  <2>1. worker'[p] = worker[p] /\ UNCHANGED <<queue[p], started[p]>>
    BY <1>1, <1>3 DEF Take, TypeOK
  <2>2. \A j \in Item : status[j] = "rejected" => status'[j] = "rejected"
    <3> SUFFICES ASSUME NEW j \in Item, status[j] = "rejected" PROVE status'[j] = "rejected"
      OBVIOUS
    <3>1. Part(q) /\ queue[q] # <<>>
      BY DEF IInv, Take
    <3>2. /\ Taken(q) \in Nat /\ Stored(q) \in Nat /\ Kept(q) \in Nat
          /\ Len(queue[q]) \in Nat /\ Len(writers[q]) \in Nat /\ Len(admitted[q]) \in Nat
          /\ Stored(q) = Taken(q) + Len(queue[q]) /\ Kept(q) = Stored(q) + Len(writers[q])
          /\ Kept(q) <= Len(admitted[q])
      BY <1>1, <3>1, Sizes DEF Part, Places
    <3>3. queue[q] \in Seq(Item) /\ writers[q] \in Seq(Item)
      BY <1>1, Sizes
    <3>4. Head(queue[q]) # j
      <4>0. Len(queue[q]) >= 1
        BY <3>1, <3>3
      <4>1. 1 \in 1..Len(queue[q]) /\ Head(queue[q]) = queue[q][1]
        BY <3>1, <3>3
      <4>2. queue[q][1] = admitted[q][Taken(q) + 1]
        BY <3>1, <4>1 DEF Part, Places
      <4>3. Taken(q) + 1 \in 1..Len(admitted[q]) /\ Taken(q) + 1 <= Stored(q)
        BY ONLY <3>2, <4>0, SMTT(30)
      <4>4. FateAt(q, Taken(q) + 1) = "accepted"
        BY <3>2, <4>3 DEF FateAt
      <4> QED
        BY <3>1, <4>1, <4>2, <4>3, <4>4 DEF Part, Fate
    <3>5. writers[q] # <<>> => Head(writers[q]) # j
      <4> SUFFICES ASSUME writers[q] # <<>> PROVE Head(writers[q]) # j
        OBVIOUS
      <4>0. Len(writers[q]) >= 1
        BY <3>3
      <4>1. 1 \in 1..Len(writers[q]) /\ Head(writers[q]) = writers[q][1]
        BY <3>3
      <4>2. writers[q][1] = admitted[q][Stored(q) + 1]
        BY <3>1, <4>1 DEF Part, Places
      <4>3. Stored(q) + 1 \in 1..Len(admitted[q]) /\ Stored(q) + 1 <= Kept(q)
            /\ Taken(q) < Stored(q) + 1
        BY ONLY <3>2, <4>0, SMTT(30)
      <4>4. \A t, s \in Nat :
               t < s + 1 => ~(s + 1 <= s) /\ ~(s + 1 < t) /\ s + 1 # t
        OBVIOUS
      <4>5. ~(Stored(q) + 1 <= Stored(q)) /\ ~(Stored(q) + 1 < Taken(q))
            /\ Stored(q) + 1 # Taken(q)
        BY ONLY <3>2, <4>3, <4>4
      <4>6. FateAt(q, Stored(q) + 1) = "waiting"
        BY <4>3, <4>5 DEF FateAt
      <4> QED
        BY <3>1, <4>1, <4>2, <4>3, <4>6 DEF Part, Fate
    <3>6. status'[j] = status[j]
      <4>1. CASE writers[q] = <<>>
        BY <3>4, <4>1 DEF Take
      <4>2. CASE writers[q] # <<>>
        BY <3>4, <3>5, <4>2 DEF Take
      <4> QED
        BY <4>1, <4>2
    <3> QED
      BY <3>6
  <2> QED
    BY <2>1, <2>2, LeftAlone
<1> QED
  BY <1>2, <1>3

LEMMA StepDrainInv == IInv /\ DrainInv /\ [Next]_vars => DrainInv'
<1> SUFFICES ASSUME IInv, DrainInv, [Next]_vars PROVE DrainInv'
  OBVIOUS
<1>0. TypeOK /\ (DrainOnDispose => ~cancelled) /\ \A p \in Partition : Left(p)
  BY DEF IInv, DrainInv
<1>1. (DrainOnDispose => ~cancelled)'
  BY <1>0 DEF Next, Work, vars, Enqueue, CheckCancelled, TryRead, ReadAsync, EnqueueChild,
              ChildEnqueued, EndItem, Stop, CompleteNext, StopReturns
<1>2. ASSUME NEW p \in Partition PROVE Left(p)'
  <2>1. ASSUME NEW i \in Item, Enqueue(i) PROVE Left(p)'
    <3>1. (Drained(p) => Drained(p)') /\ (Refused(p) => Refused(p)')
      BY <2>1, WriteLeaves DEF Enqueue
    <3> QED
      BY <1>0, <2>1, <3>1 DEF Enqueue, Left
  <2>2. ASSUME NEW q \in Partition, TryRead(q) \/ ReadAsync(q) PROVE Left(p)'
    <3>1. CASE Take(q)
      BY <1>0, <2>2, <3>1, TakeLeaves DEF TryRead, ReadAsync
    <3>2. CASE ~Take(q) /\ p # q
      <4>1. worker'[p] = worker[p]
        BY <1>0, <2>2, <3>2 DEF TryRead, ReadAsync, Goto, TypeOK
      <4> QED
        BY <1>0, <2>2, <3>2, <4>1, LeftAlone DEF TryRead, ReadAsync
    <3>3. CASE ~Take(q) /\ p = q
      <4>1. UNCHANGED <<DrainOnDispose, closed, queue>>
        BY <2>2, <3>3 DEF TryRead, ReadAsync
      <4>2. \/ worker'[p].at = "waiting"
            \/ worker'[p].at = "exited" /\ (cancelled \/ Drained(p))
        BY <1>0, <2>2, <3>3 DEF TryRead, ReadAsync, Goto, TypeOK, Drained
      <4> QED
        BY <1>0, <4>1, <4>2 DEF Left, Drained
    <3> QED
      BY <3>1, <3>2, <3>3
  <2>3. ASSUME NEW q \in Partition, CheckCancelled(q) PROVE Left(p)'
    <3>1. CASE p # q
      <4>1. worker'[p] = worker[p]
        BY <1>0, <2>3, <3>1 DEF CheckCancelled, Goto, TypeOK
      <4> QED
        BY <1>0, <2>3, <4>1, LeftAlone DEF CheckCancelled
    <3>2. CASE p = q
      <4>1. worker'[p].at = IF cancelled THEN "exited" ELSE "reading"
        BY <1>0, <2>3, <3>2 DEF CheckCancelled, Goto, TypeOK
      <4> QED
        BY <1>0, <2>3, <4>1 DEF CheckCancelled, Left
    <3> QED
      BY <3>1, <3>2
  <2>4. ASSUME NEW q \in Partition, EnqueueChild(q) PROVE Left(p)'
    <3>1. Busy(q)
      BY <2>4 DEF EnqueueChild, Busy
    <3>2. Child[worker[q].item] \in Item
      BY <2>4, <3>1, HeldItem, ShapeAssumption DEF EnqueueChild
    <3>3. (Drained(p) => Drained(p)') /\ (Refused(p) => Refused(p)')
      BY <2>4, <3>2, WriteLeaves DEF EnqueueChild
    <3>4. CASE p # q
      <4>1. worker'[p] = worker[p]
        BY <1>0, <2>4, <3>4 DEF EnqueueChild, TypeOK
      <4> QED
        BY <1>0, <2>4, <3>3, <4>1 DEF EnqueueChild, Left
    <3>5. CASE p = q
      <4>1. worker'[p].at = "child" /\ worker'[p].item = worker[p].item
        BY <1>0, <2>4, <3>5 DEF EnqueueChild, TypeOK
      <4> QED
        BY <2>4, <3>5, <4>1 DEF EnqueueChild, Left
    <3> QED
      BY <3>4, <3>5
  <2>5. ASSUME NEW q \in Partition, ChildEnqueued(q) \/ EndItem(q) PROVE Left(p)'
    <3>0. Busy(q)
      BY <2>5 DEF ChildEnqueued, EndItem, Busy
    <3>1. worker[q].item \in Item /\ status[worker[q].item] = "running"
          /\ worker[q].item \in Range(started[q])
      BY <3>0, HeldItem, HeldStarted
    <3>2. \A j \in Item : status[j] = "rejected" => status'[j] = "rejected"
      BY <1>0, <2>5, <3>1 DEF ChildEnqueued, EndItem, TypeOK
    <3>3. CASE p # q
      <4>1. worker'[p] = worker[p]
        BY <1>0, <2>5, <3>3 DEF ChildEnqueued, EndItem, Goto, TypeOK
      <4>2. UNCHANGED <<DrainOnDispose, closed, queue, started>>
        BY <2>5 DEF ChildEnqueued, EndItem
      <4> QED
        BY <1>0, <3>2, <4>1, <4>2, LeftAlone
    <3>4. CASE p = q /\ EndItem(q)
      <4>1. worker'[p].at \in {"loop", "faulted"} \/ (worker'[p].at = "exited" /\ cancelled)
        BY <1>0, <3>4 DEF EndItem, Goto, TypeOK
      <4> QED
        BY <1>0, <3>4, <4>1 DEF EndItem, Left
    <3>5. CASE p = q /\ ChildEnqueued(q)
      <4>1. CASE status[Child[worker[q].item]] = "rejected"
        <5>1. worker'[p].at = "exited"
          BY <1>0, <3>5, <4>1 DEF ChildEnqueued, Goto, TypeOK
        <5>2. Child[worker[q].item] # None
          BY <1>0, <3>5 DEF ChildEnqueued, Left
        <5>3. Refused(p)
          BY <3>1, <3>5, <4>1, <5>2 DEF Refused
        <5>4. Refused(p)'
          BY <3>2, <3>5, <5>3, RefusedStays DEF ChildEnqueued
        <5> QED
          BY <5>1, <5>4 DEF Left
      <4>2. CASE status[Child[worker[q].item]] # "rejected"
        <5>1. worker'[p].at = "running"
          BY <1>0, <3>5, <4>2 DEF ChildEnqueued, TypeOK
        <5> QED
          BY <5>1 DEF Left
      <4> QED
        BY <4>1, <4>2
    <3> QED
      BY <2>5, <3>3, <3>4, <3>5
  <2>6. ASSUME NEW c \in Caller, Stop(c) \/ StopReturns(c) PROVE Left(p)'
    BY <1>0, <2>6, LeftAlone DEF Stop, StopReturns
  <2>7. ASSUME NEW c \in Caller, CompleteNext(c) PROVE Left(p)'
    <3>1. closed \subseteq closed' /\ \A j \in Item : status[j] = "rejected" => status'[j] = "rejected"
      BY <2>7 DEF CompleteNext, Complete
    <3> QED
      BY <1>0, <2>7, <3>1, LeftAlone DEF CompleteNext
  <2>8. CASE UNCHANGED vars
    BY <1>0, <2>8, LeftAlone DEF vars
  <2> QED
    BY <2>1, <2>2, <2>3, <2>4, <2>5, <2>6, <2>7, <2>8 DEF Next, Work
<1> QED
  BY <1>1, <1>2 DEF DrainInv

\* DispatcherOptions.cs:35-36 as far as the code keeps it: when the worker of a
\* draining dispatcher has ended, every item its partition accepted has run to
\* its end, unless the handler threw or an item's own call was rejected.
THEOREM DrainRuns == Spec => []DrainRunsAccepted
<1>1. Init => DrainInv
  BY DEF Init, DrainInv, Left
<1>2. IInv /\ DrainInv => DrainRunsAccepted
  <2> SUFFICES ASSUME IInv, DrainInv, DrainOnDispose, NEW p \in Partition, Ended(p), ~Broken(p),
                      NEW i \in Item, Key[i] = p, status[i] \notin {"new", "rejected"}
               PROVE  status[i] = "done"
    BY DEF DrainRunsAccepted
  <2>1. Drained(p) /\ ~Busy(p)
    BY DEF DrainInv, Left, Ended, Broken, Refused, Busy
  <2>2. PICK k \in 1..Len(admitted[p]) : admitted[p][k] = i
    BY DEF IInv, Known
  <2>3. Kept(p) = Taken(p) /\ Stored(p) = Taken(p) /\ Taken(p) \in Nat
    <3>1. queue[p] = <<>> /\ writers[p] = <<>>
      BY <2>1 DEF Drained, IInv, Part, Room
    <3>2. /\ Taken(p) \in Nat
          /\ Stored(p) = Taken(p) + Len(queue[p]) /\ Kept(p) = Stored(p) + Len(writers[p])
      BY Sizes DEF IInv
    <3> QED
      BY <3>1, <3>2
  <2>4. FateAt(p, k) \in {"done", "rejected"}
    BY <2>1, <2>3 DEF FateAt
  <2> QED
    BY <2>2, <2>4 DEF IInv, Part, Fate
<1> QED
  BY <1>1, <1>2, StepDrainInv, AlwaysIInv, PTL DEF Spec

-----------------------------------------------------------------------------
(* The StopAsync that stops the dispatcher *)

\* It awaits the workers when every channel is completed, if it drains, and
\* returns when they have ended.
Closing(c) ==
    DrainOnDispose /\ caller[c] \in {"awaiting", "returned"} => closed = Partition

CallerInv ==
    /\ Waited => \A p \in Partition : Ended(p)
    /\ \A c \in Caller \ Disposer : Closing(c)

\* A worker that has ended stays so.
LEMMA EndedStays ==
  ASSUME IInv, Next, NEW p \in Partition, Ended(p)
  PROVE  Ended(p)'
<1>0. TypeOK
  BY DEF IInv
<1>1. ASSUME NEW q \in Partition, Work(q) PROVE q # p /\ worker'[p] = worker[p]
  <2>1. q # p
    BY <1>1 DEF Work, CheckCancelled, TryRead, ReadAsync, EnqueueChild, ChildEnqueued, EndItem,
                Ended
  <2>2. CASE Take(q)
    BY <1>0, <2>1, <2>2 DEF Take, TypeOK
  <2>3. CASE \E place \in Place : Goto(q, place)
    BY <1>0, <2>1, <2>3 DEF Goto, TypeOK
  <2>4. CASE \E place \in Place : worker' = [worker EXCEPT ![q].at = place]
    BY <1>0, <2>1, <2>4 DEF TypeOK
  <2> QED
    BY <1>1, <2>1, <2>2, <2>3, <2>4 DEF Work, CheckCancelled, TryRead, ReadAsync, EnqueueChild,
                                        ChildEnqueued, EndItem, Place
<1>2. ASSUME UNCHANGED worker PROVE Ended(p)'
  BY <1>2 DEF Ended
<1>3. ASSUME NEW q \in Partition, Work(q) PROVE Ended(p)'
  BY <1>1, <1>3 DEF Ended
<1> QED
  BY <1>2, <1>3 DEF Next, Enqueue, Stop, CompleteNext, StopReturns

LEMMA StepCallerInv == IInv /\ CallerInv /\ [Next]_vars => CallerInv'
<1> SUFFICES ASSUME IInv, CallerInv, [Next]_vars PROVE CallerInv'
  OBVIOUS
<1>0. TypeOK /\ caller \in [Caller -> {"idle", "closing", "awaiting", "returned", "late"}]
  BY DEF IInv, TypeOK
<1>1. CASE UNCHANGED vars
  BY <1>1 DEF CallerInv, Waited, Closing, Ended, vars
<1>2. ASSUME Next PROVE Waited' => \A p \in Partition : Ended(p)'
  <2>1. CASE Waited
    BY <1>2, <2>1, EndedStays DEF CallerInv
  <2>2. CASE ~Waited /\ Waited'
    <3>1. PICK c \in Caller \ Disposer : caller'[c] = "returned" /\ caller[c] # "returned"
      BY <2>2 DEF Waited
    <3>2. PICK d \in Caller : Stop(d) \/ CompleteNext(d) \/ StopReturns(d)
      BY <1>2, <3>1 DEF Next, Work, Enqueue, CheckCancelled, TryRead, ReadAsync, EnqueueChild,
                        ChildEnqueued, EndItem
    <3>3. StopReturns(c)
      BY <1>0, <3>1, <3>2 DEF Stop, CompleteNext, StopReturns, Signalled
    <3> QED
      BY <3>3 DEF StopReturns, Ended
  <2> QED
    BY <2>1, <2>2
<1>3. ASSUME Next, NEW c \in Caller \ Disposer PROVE Closing(c)'
  <2>0. Closing(c) /\ closed \subseteq Partition
    BY <1>0 DEF CallerInv, TypeOK
  <2>1. CASE UNCHANGED <<caller, DrainOnDispose, closed>>
    BY <2>0, <2>1 DEF Closing
  <2>2. ASSUME NEW d \in Caller, Stop(d) \/ StopReturns(d) PROVE Closing(c)'
    BY <1>0, <2>0, <2>2 DEF Stop, StopReturns, Closing
  <2>3. ASSUME NEW d \in Caller, CompleteNext(d) PROVE Closing(c)'
    <3>1. PICK p \in Partition \ closed :
            /\ \A q \in Partition \ closed : p <= q
            /\ closed' = closed \cup {p} /\ DrainOnDispose' = DrainOnDispose
            /\ caller' = [caller EXCEPT ![d] = IF p = Partitions THEN Signalled(d) ELSE @]
      BY <2>3 DEF CompleteNext, Complete
    <3>2. CASE c # d \/ p # Partitions
      <4>1. caller'[c] = caller[c]
        BY <1>0, <3>1, <3>2
      <4> QED
        BY <2>0, <3>1, <4>1 DEF Closing
    <3>3. CASE p = Partitions
      <4>1. \A q \in Partition : q <= Partitions /\ q \in Int /\ Partitions \in Int
        BY ShapeAssumption DEF Partition
      <4>2. \A q \in Partition \ closed : q = p
        BY <3>1, <3>3, <4>1
      <4> QED
        BY <2>0, <3>1, <4>2 DEF Closing
    <3> QED
      BY <3>2, <3>3
  <2> QED
    BY <1>3, <2>1, <2>2, <2>3 DEF Next, Work, Enqueue, CheckCancelled, TryRead, ReadAsync,
                                  EnqueueChild, ChildEnqueued, EndItem
<1> QED
  BY <1>1, <1>2, <1>3 DEF CallerInv

\* When the StopAsync that stops the dispatcher has returned, no item runs, and
\* if it drained, every call of EnqueueAsync has ended too: its item has run,
\* was refused, or is left in the partition of a broken worker.
THEOREM Settled == Spec => []SettledAfterStop
<1>1. Init => DrainInv /\ CallerInv
  BY DEF Init, DrainInv, Left, CallerInv, Waited, Closing
<1>2. IInv /\ DrainRunsAccepted /\ CallerInv => SettledAfterStop
  <2> SUFFICES ASSUME IInv, DrainRunsAccepted, CallerInv, Waited, NEW i \in Item
               PROVE  /\ status[i] # "running"
                      /\ DrainOnDispose =>
                            /\ status[i] # "waiting"
                            /\ status[i] = "accepted" => Broken(Key[i])
    BY DEF SettledAfterStop
  <2>0. PICK p \in Partition : p = Key[i]
    BY ShapeAssumption
  <2>1. Ended(p) /\ ~Busy(p)
    BY DEF CallerInv, Ended, Busy
  <2>2. status[i] \in {"running", "waiting"} =>
           \E k \in 1..Len(admitted[p]) : FateAt(p, k) = status[i]
    BY <2>0 DEF IInv, Known, Part, Fate
  <2>3. \A k \in 1..Len(admitted[p]) : FateAt(p, k) # "running"
    BY <2>1 DEF FateAt
  <2>4. DrainOnDispose => \A k \in 1..Len(admitted[p]) : FateAt(p, k) # "waiting"
    <3> SUFFICES ASSUME DrainOnDispose, NEW k \in 1..Len(admitted[p])
                 PROVE  FateAt(p, k) # "waiting"
      OBVIOUS
    <3>1. closed = Partition
      BY DEF Waited, CallerInv, Closing
    <3>2. Len(writers[p]) = 0
      BY <3>1 DEF IInv, Part, Room
    <3>3. Kept(p) = Stored(p)
      BY <3>2, Sizes DEF IInv
    <3> QED
      BY <3>3 DEF FateAt
  <2>5. DrainOnDispose /\ status[i] = "accepted" => Broken(p)
    BY <2>0, <2>1 DEF DrainRunsAccepted
  <2> QED
    BY <2>0, <2>2, <2>3, <2>4, <2>5
<1> QED
  BY <1>1, <1>2, StepDrainInv, StepCallerInv, AlwaysIInv, DrainRuns, PTL DEF Spec

=============================================================================
