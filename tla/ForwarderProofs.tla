-------------------------- MODULE ForwarderProofs --------------------------
(***************************************************************************)
(* For any clients, strangers and buffers: Forwarder.tla is type correct,  *)
(* answers go to who asked or to a client heard later, and no answer of    *)
(* the target finds the map without a client.                              *)
(***************************************************************************)
EXTENDS Forwarder, TLAPS

\* The client of d, or one heard after it, is in the map.
Heard(d) == clientMap[Target] # None /\ d.n <= clientMap[Target].n

\* The datagram d was heard after the one the map took its client from.
Later(d) == clientMap[Target] # None => clientMap[Target].n <= d.n

\* Datagrams are read in the order of their arrival, so each replaces an
\* earlier one in the map.
InOrder ==
    /\ \A i \in 1..Len(inbox) : inbox[i].n <= arrived /\ Later(inbox[i])
    /\ \A i, j \in 1..Len(inbox) : i < j => inbox[i].n <= inbox[j].n
    /\ upAt = "mapping" => /\ Later(upBuf)
                           /\ \A i \in 1..Len(inbox) : upBuf.n <= inbox[i].n
    /\ clientMap[Target] # None => clientMap[Target].n <= arrived
    /\ upAt = "mapping" => upBuf.n <= arrived

\* A datagram is sent after its client has been stored, and what the target
\* answers has been sent.
StoredBefore ==
    /\ \A s \in Stranger : clientMap[s] = None
    /\ \A d \in sent : Heard(d)
    /\ upAt = "sending" => Heard(upBuf)
    /\ \A i \in 1..Len(outbox) : outbox[i].from = Target => outbox[i].of \in sent
    /\ downAt = "looking" /\ downBuf.from = Target => downBuf.of \in sent

IInv == TypeOK /\ InOrder /\ StoredBefore /\ AnswersGoForward

-----------------------------------------------------------------------------
LEMMA InitIInv == Init => IInv
  BY ForwarderAssumption
  DEF Init, IInv, TypeOK, InOrder, StoredBefore, AnswersGoForward, Later, Heard,
      Sender, Datagram, Answer

LEMMA ArriveIInv == ASSUME IInv, NEW c \in Client, Arrive(c) PROVE IInv'
<1> USE ForwarderAssumption DEF IInv, Arrive, netVars, upVars, downVars, history
<1> DEFINE d == [client |-> c, n |-> arrived + 1]
<1>1. d \in Datagram /\ inbox' = Append(inbox, d) /\ arrived' = arrived + 1
  BY DEF TypeOK, Datagram
<1>2. TypeOK'
  BY <1>1 DEF TypeOK
<1>3. /\ Len(inbox') = Len(inbox) + 1
      /\ \A i \in 1..Len(inbox) : inbox'[i] = inbox[i]
      /\ inbox'[Len(inbox) + 1] = d
  BY <1>1 DEF TypeOK
<1>4. \A i \in 1..Len(inbox') : i \in 1..Len(inbox) \/ i = Len(inbox) + 1
  BY <1>3 DEF TypeOK
<1>5. /\ \A i \in 1..Len(inbox) : inbox[i].n \in Nat
      /\ arrived \in Nat /\ d.n = arrived + 1
      /\ clientMap[Target] # None => clientMap[Target].n \in Nat
      /\ upAt = "mapping" => upBuf.n \in Nat
  <2>1. \A i \in 1..Len(inbox) : inbox[i] \in Datagram
    BY DEF TypeOK
  <2>2. arrived \in Nat /\ clientMap[Target] \in Datagram \cup {None}
        /\ (upAt = "mapping" => upBuf \in Datagram)
    BY DEF TypeOK, Sender
  <2>3. \A x \in Datagram : x.n \in Nat
    BY DEF Datagram
  <2> QED
    BY <2>1, <2>2, <2>3
<1>6. InOrder'
  <2>1. \A i \in 1..Len(inbox') : inbox'[i].n <= arrived' /\ Later(inbox[i])'
    BY <1>1, <1>3, <1>4, <1>5 DEF InOrder, Later
  <2>2. \A i, j \in 1..Len(inbox') : i < j => inbox'[i].n <= inbox'[j].n
    BY <1>1, <1>3, <1>4, <1>5 DEF InOrder
  <2>3. upAt = "mapping" => \A i \in 1..Len(inbox') : upBuf.n <= inbox'[i].n
    BY <1>1, <1>3, <1>4, <1>5 DEF InOrder
  <2> QED
    BY <1>1, <1>5, <2>1, <2>2, <2>3 DEF InOrder, Later
<1> QED
  BY <1>2, <1>6 DEF StoredBefore, AnswersGoForward, Heard

LEMMA ReturnIInv ==
  ASSUME IInv, NEW a \in Sender, NEW d \in sent \cup {None}, Return(a, d)
  PROVE  IInv'
<1> USE ForwarderAssumption DEF IInv, Return, upVars, downVars, history
<1> DEFINE r == [from |-> a, of |-> d]
<1>1. r \in Answer /\ outbox' = Append(outbox, r)
  BY DEF TypeOK, Answer
<1>2. TypeOK'
  BY <1>1 DEF TypeOK
<1>3. \A i \in 1..Len(outbox') : outbox'[i].from = Target => outbox'[i].of \in sent
  <2>1. \A i \in 1..Len(outbox') : (i \in 1..Len(outbox) /\ outbox'[i] = outbox[i]) \/ outbox'[i] = r
    BY <1>1 DEF TypeOK
  <2> QED
    BY <2>1 DEF StoredBefore
<1>4. InOrder'
  BY DEF InOrder, Later
<1> QED
  BY <1>2, <1>3, <1>4 DEF StoredBefore, AnswersGoForward, Heard

-----------------------------------------------------------------------------
(* local_to_target *)

LEMMA ReceiveFromClientIInv == IInv /\ ReceiveFromClient => IInv'
<1> SUFFICES ASSUME IInv, ReceiveFromClient PROVE IInv'
  OBVIOUS
<1> USE ForwarderAssumption DEF IInv, ReceiveFromClient, downVars, history
<1>1. /\ Head(inbox) \in Datagram /\ Head(inbox) = inbox[1] /\ 1 \in 1..Len(inbox)
      /\ inbox' = Tail(inbox) /\ inbox' \in Seq(Datagram)
      /\ Len(inbox') = Len(inbox) - 1
      /\ \A i \in 1..Len(inbox') : i + 1 \in 1..Len(inbox) /\ inbox'[i] = inbox[i + 1] /\ 1 < i + 1
  BY DEF TypeOK
<1>2. TypeOK'
  BY <1>1 DEF TypeOK
<1>3. InOrder'
  BY <1>1 DEF InOrder, Later, TypeOK
<1> QED
  BY <1>2, <1>3 DEF StoredBefore, AnswersGoForward, Heard

LEMMA StoreClientIInv == IInv /\ StoreClient => IInv'
<1> SUFFICES ASSUME IInv, StoreClient PROVE IInv'
  OBVIOUS
<1> USE ForwarderAssumption DEF IInv, StoreClient, netVars, downVars, history
<1>1. /\ upBuf \in Datagram /\ upBuf.n \in Nat /\ upBuf # None
      /\ clientMap'[Target] = upBuf
      /\ \A s \in Stranger : clientMap'[s] = clientMap[s]
      /\ clientMap[Target] \in Datagram \cup {None}
      /\ clientMap[Target] # None => clientMap[Target].n \in Nat
  BY DEF TypeOK, Datagram, Sender
<1>2. TypeOK'
  BY <1>1 DEF TypeOK
<1>3. InOrder'
  BY <1>1 DEF InOrder, Later
<1>4. \A d \in Datagram : d.n \in Nat
  BY DEF Datagram
<1>5. \A d \in Datagram : Heard(d) => Heard(d)'
  BY <1>1, <1>4 DEF InOrder, Later, Heard
<1>6. Heard(upBuf)'
  BY <1>1 DEF Heard
<1>7. StoredBefore'
  BY <1>1, <1>5, <1>6 DEF StoredBefore, TypeOK
<1> QED
  BY <1>2, <1>3, <1>7 DEF AnswersGoForward

LEMMA SendToTargetIInv == IInv /\ SendToTarget => IInv'
<1> SUFFICES ASSUME IInv, SendToTarget PROVE IInv'
  OBVIOUS
<1> USE ForwarderAssumption DEF IInv, SendToTarget, SendSucceeds, SendFails, netVars, downVars
<1>1. TypeOK'
  BY DEF TypeOK
<1>2. InOrder'
  BY DEF InOrder, Later
<1>3. StoredBefore'
  BY DEF StoredBefore, Heard
<1> QED
  BY <1>1, <1>2, <1>3 DEF AnswersGoForward

-----------------------------------------------------------------------------
(* target_to_local *)

LEMMA ReceiveFromTargetIInv == IInv /\ ReceiveFromTarget => IInv'
<1> SUFFICES ASSUME IInv, ReceiveFromTarget PROVE IInv'
  OBVIOUS
<1> USE ForwarderAssumption DEF IInv, ReceiveFromTarget, upVars, history
<1>1. /\ Head(outbox) \in Answer /\ Head(outbox) = outbox[1] /\ 1 \in 1..Len(outbox)
      /\ outbox' = Tail(outbox) /\ outbox' \in Seq(Answer)
      /\ \A i \in 1..Len(outbox') : i + 1 \in 1..Len(outbox) /\ outbox'[i] = outbox[i + 1]
  BY DEF TypeOK
<1>2. TypeOK'
  BY <1>1 DEF TypeOK
<1>3. InOrder'
  BY DEF InOrder, Later
<1>4. StoredBefore'
  BY <1>1 DEF StoredBefore, Heard
<1> QED
  BY <1>2, <1>3, <1>4 DEF AnswersGoForward

\* What the map gives for the sender of an answer.
LEMMA FindClientIInv == IInv /\ FindClient => IInv'
<1> SUFFICES ASSUME IInv, FindClient PROVE IInv'
  OBVIOUS
<1> USE ForwarderAssumption DEF IInv, FindClient, netVars, upVars, history
<1>1. downBuf \in Answer /\ downBuf.from \in Sender /\ clientMap[downBuf.from] \in Datagram
  BY DEF TypeOK, Answer
<1>2. downBuf.from = Target
  BY <1>1 DEF StoredBefore, Sender
<1>3. TypeOK'
  BY <1>1 DEF TypeOK
<1>4. Heard(downBuf.of)
  BY <1>2 DEF StoredBefore
<1>5. AnswersGoForward'
  BY <1>2, <1>4 DEF AnswersGoForward, Heard
<1> QED
  BY <1>3, <1>5 DEF InOrder, Later, StoredBefore, Heard

LEMMA DropOrSendIInv == IInv /\ (DropUnknown \/ SendToClient) => IInv'
<1> SUFFICES ASSUME IInv, DropUnknown \/ SendToClient PROVE IInv'
  OBVIOUS
<1> USE ForwarderAssumption DEF IInv, DropUnknown, SendToClient, netVars, upVars, history
<1>1. TypeOK'
  BY DEF TypeOK
<1> QED
  BY <1>1 DEF InOrder, Later, StoredBefore, Heard, AnswersGoForward

-----------------------------------------------------------------------------
LEMMA StepIInv == IInv /\ [Next]_vars => IInv'
<1> SUFFICES ASSUME IInv, [Next]_vars PROVE IInv'
  OBVIOUS
<1>1. CASE CtrlC \/ UNCHANGED vars
  BY <1>1 DEF IInv, TypeOK, InOrder, Later, StoredBefore, Heard, AnswersGoForward,
     CtrlC, vars, netVars, upVars, downVars, history
<1>2. CASE \E c \in Client : Arrive(c)
  BY <1>2, ArriveIInv
<1>3. CASE \E a \in Sender, d \in sent \cup {None} : Return(a, d)
  BY <1>3, ReturnIInv
<1>4. CASE LocalToTarget
  BY <1>4, ReceiveFromClientIInv, StoreClientIInv, SendToTargetIInv DEF LocalToTarget
<1>5. CASE TargetToLocal
  BY <1>5, ReceiveFromTargetIInv, FindClientIInv, DropOrSendIInv DEF TargetToLocal
<1> QED
  BY <1>1, <1>2, <1>3, <1>4, <1>5 DEF Next

LEMMA Always == Spec => []IInv
  BY InitIInv, StepIInv, PTL DEF Spec

\* Buffers, map and both tasks' places have their types: a task that sends to a
\* client has one.
THEOREM TypeCorrect == Spec => []TypeOK
<1>1. IInv => TypeOK
  BY DEF IInv
<1> QED
  BY <1>1, Always, PTL

\* Answers come from the target only and go to the client that asked or to one
\* heard after it.
THEOREM AnswersForward == Spec => []AnswersGoForward
<1>1. IInv => AnswersGoForward
  BY DEF IInv
<1> QED
  BY <1>1, Always, PTL

\* target_to_local drops nothing that the target sent.
THEOREM TargetKnown == Spec => TargetIsKnown
<1>1. IInv /\ DropUnknown => downBuf.from # Target
  BY ForwarderAssumption DEF IInv, DropUnknown, StoredBefore, Heard
<1>2. IInv => [DropUnknown => downBuf.from # Target]_vars
  BY <1>1
<1> QED
  BY <1>2, Always, PTL DEF TargetIsKnown

=============================================================================
