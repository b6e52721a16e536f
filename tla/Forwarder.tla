----------------------------- MODULE Forwarder -----------------------------
(***************************************************************************)
(* UdpForwarder (rust/ipforward): one task carries datagrams of clients to *)
(* the target, another carries what comes back from the target to the      *)
(* client the map names.  The map has one entry, under the target's        *)
(* address: the client heard last.  A step is what a task does between two *)
(* awaits.                                                                 *)
(*                                                                         *)
(* Abstractions.  A datagram is its client and the place n it has in the   *)
(* order of arrival; an answer is its sender and the datagram it answers.  *)
(* The map keeps the datagram it learnt the client from, of which the code *)
(* keeps the client.  The network loses, repeats and reorders: a datagram  *)
(* that was sent may be answered never, once or often, at any time; one    *)
(* that finds a socket's buffer full is lost.                              *)
(***************************************************************************)
EXTENDS Naturals, Sequences

CONSTANTS
    Client,         \* addresses of clients
    Target,         \* target_addr
    Stranger,       \* other addresses that send to the target socket
    None,
    MaxDatagrams,   \* how many datagrams the clients send (a bound)
    Capacity        \* of a socket's receive buffer (a bound)

Sender == {Target} \cup Stranger
Datagram == [client : Client, n : Nat]
Answer == [from : Sender, of : Datagram \cup {None}]

ASSUME ForwarderAssumption ==
    /\ None \notin Datagram
    /\ Target \notin Stranger
    /\ MaxDatagrams \in Nat /\ Capacity \in Nat

VARIABLES
    running,     \* start() has not returned
    arrived,     \* how many datagrams have reached the local socket
    inbox,       \* local_socket: received and not yet read
    outbox,      \* target_socket: received and not yet read
    clientMap,   \* client_map
    upAt,        \* where local_to_target stands,
    upBuf,       \*   and the datagram in its buffer
    downAt,      \* where target_to_local stands,
    downBuf,     \*   the answer in its buffer,
    downTo,      \*   and client_addr
    sent,        \* history: datagrams sent to the target
    failed       \* history: datagrams whose send_to gave an error

netVars == <<arrived, inbox, outbox>>
upVars == <<upAt, upBuf>>
downVars == <<downAt, downBuf, downTo>>
history == <<sent, failed>>
vars == <<running, netVars, clientMap, upVars, downVars, history>>

TypeOK ==
    /\ running \in BOOLEAN
    /\ arrived \in Nat
    /\ inbox \in Seq(Datagram) /\ outbox \in Seq(Answer)
    /\ clientMap \in [Sender -> Datagram \cup {None}]
    /\ upAt \in {"receiving", "mapping", "sending"}
    /\ downAt \in {"receiving", "looking", "sending"}
    /\ upBuf \in Datagram \cup {None} /\ (upAt # "receiving" => upBuf \in Datagram)
    /\ downBuf \in Answer \cup {None} /\ (downAt # "receiving" => downBuf \in Answer)
    /\ downTo \in Datagram \cup {None} /\ (downAt = "sending" => downTo \in Datagram)
    /\ sent \subseteq Datagram
    /\ failed \subseteq Datagram

Init ==
    /\ running = TRUE
    /\ arrived = 0
    /\ inbox = <<>> /\ outbox = <<>>
    /\ clientMap = [a \in Sender |-> None]
    /\ upAt = "receiving" /\ upBuf = None
    /\ downAt = "receiving" /\ downBuf = None /\ downTo = None
    /\ sent = {} /\ failed = {}

-----------------------------------------------------------------------------
(* The network and the user *)

\* A client's datagram reaches the local socket.
Arrive(c) ==
    /\ arrived < MaxDatagrams /\ Len(inbox) < Capacity
    /\ arrived' = arrived + 1
    /\ inbox' = Append(inbox, [client |-> c, n |-> arrived'])
    /\ UNCHANGED <<running, outbox, clientMap, upVars, downVars, history>>

\* Something from address a reaches the target socket: of the target an answer
\* to what it was sent, for it learns the socket's port from nothing else.
Return(a, d) ==
    /\ Len(outbox) < Capacity
    /\ IF a = Target THEN d \in sent ELSE d = None
    /\ outbox' = Append(outbox, [from |-> a, of |-> d])
    /\ UNCHANGED <<running, arrived, inbox, clientMap, upVars, downVars, history>>

\* Ctrl+C ends the select, and the runtime drops both tasks.
CtrlC ==
    /\ running' = FALSE
    /\ UNCHANGED <<netVars, clientMap, upVars, downVars, history>>

-----------------------------------------------------------------------------
(* spawn_local_to_target_task *)

ReceiveFromClient ==
    /\ upAt = "receiving" /\ inbox # <<>>
    /\ upBuf' = Head(inbox) /\ inbox' = Tail(inbox)
    /\ upAt' = "mapping"
    /\ UNCHANGED <<running, arrived, outbox, clientMap, downVars, history>>

\* Fault: a client once stored is kept, entry().or_insert() for insert().
KeepFirstClient ==
    /\ upAt = "mapping" /\ upAt' = "sending"
    /\ clientMap' = [clientMap EXCEPT ![Target] = IF @ = None THEN upBuf ELSE @]
    /\ UNCHANGED <<running, netVars, upBuf, downVars, history>>

\* Fault: key and value are swapped.
StoreTarget ==
    /\ upAt = "mapping" /\ upAt' = "sending"
    /\ UNCHANGED <<running, netVars, clientMap, upBuf, downVars, history>>

\* The lock is held for the insertion only.
StoreClient ==
    /\ upAt = "mapping" /\ upAt' = "sending"
    /\ clientMap' = [clientMap EXCEPT ![Target] = upBuf]
    /\ UNCHANGED <<running, netVars, upBuf, downVars, history>>

\* Fault: an error is handed on with ? and ends the task.
EndOnError ==
    /\ upAt' = "ended"
    /\ failed' = failed \cup {upBuf}
    /\ UNCHANGED sent

SendSucceeds ==
    /\ upAt' = "receiving"
    /\ sent' = sent \cup {upBuf}
    /\ UNCHANGED failed

\* An error is logged, and the task goes on.
SendFails ==
    /\ upAt' = "receiving"
    /\ failed' = failed \cup {upBuf}
    /\ UNCHANGED sent

SendToTarget ==
    /\ upAt = "sending"
    /\ SendSucceeds \/ SendFails
    /\ upBuf' = None
    /\ UNCHANGED <<running, netVars, clientMap, downVars>>

-----------------------------------------------------------------------------
(* spawn_target_to_local_task *)

ReceiveFromTarget ==
    /\ downAt = "receiving" /\ outbox # <<>>
    /\ downBuf' = Head(outbox) /\ outbox' = Tail(outbox)
    /\ downAt' = "looking"
    /\ UNCHANGED <<running, arrived, inbox, clientMap, upVars, downTo, history>>

FindClient ==
    /\ downAt = "looking" /\ clientMap[downBuf.from] # None
    /\ downTo' = clientMap[downBuf.from]
    /\ downAt' = "sending"
    /\ UNCHANGED <<running, netVars, clientMap, upVars, downBuf, history>>

\* "Received packet from unknown target, dropping"
DropUnknown ==
    /\ downAt = "looking" /\ clientMap[downBuf.from] = None
    /\ downAt' = "receiving" /\ downBuf' = None
    /\ UNCHANGED <<running, netVars, clientMap, upVars, downTo, history>>

\* Whether it succeeds is only logged.
SendToClient ==
    /\ downAt = "sending" /\ downAt' = "receiving"
    /\ downBuf' = None /\ downTo' = None
    /\ UNCHANGED <<running, netVars, clientMap, upVars, history>>

-----------------------------------------------------------------------------
LocalToTarget == ReceiveFromClient \/ StoreClient \/ SendToTarget
TargetToLocal == ReceiveFromTarget \/ FindClient \/ DropUnknown \/ SendToClient

Next ==
    /\ running
    /\ \/ \E c \in Client : Arrive(c)
       \/ \E a \in Sender, d \in sent \cup {None} : Return(a, d)
       \/ LocalToTarget
       \/ TargetToLocal
       \/ CtrlC

Spec == Init /\ [][Next]_vars

\* The runtime polls both tasks; an await of send_to or of the lock ends.
FairSpec ==
    /\ Spec
    /\ WF_vars(running /\ LocalToTarget)
    /\ WF_vars(running /\ TargetToLocal)

-----------------------------------------------------------------------------
(* Properties *)

\* A client hears only the target, and an answer goes to the client that asked
\* or to one heard after it: with one client at a time, "bi-directional
\* communication" (forwarder.rs:11) reaches who asked.
AnswersGoForward ==
    downAt = "sending" => downBuf.from = Target /\ downBuf.of.n <= downTo.n

\* The warning "unknown target, dropping" is never about the target: whenever
\* it answers, a client is in the map already.
TargetIsKnown == [][DropUnknown => downBuf.from # Target]_vars

Queued(x, q) == \E i \in DOMAIN q : q[i] = x

\* Until Ctrl+C both directions go on, whatever sends give errors: a datagram
\* in a socket's buffer is sent on or its own send fails, an answer in the
\* other's finds a client to be sent to.
BothWaysGoOn ==
    \A c \in Client, n \in 1..MaxDatagrams :
        LET d == [client |-> c, n |-> n]
            r == [from |-> Target, of |-> d] IN
        /\ Queued(d, inbox) ~> d \in sent \cup failed \/ ~running
        /\ Queued(r, outbox) ~> (downAt = "sending" /\ downBuf = r) \/ ~running

=============================================================================
