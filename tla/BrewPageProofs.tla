--------------------------- MODULE BrewPageProofs ---------------------------
(***************************************************************************)
(* For any number of clicks: BrewPage.tla is type correct, a click that    *)
(* meets no other makes the button agree with the controller, the relay is *)
(* on only while a worker lives, a started controller has a worker, and    *)
(* polling goes on.                                                        *)
(***************************************************************************)
EXTENDS BrewPage, TLAPS

\* Clicks to come have no request.
Numbered == \A k \in Click : clicks < k => click[k] = "none"

\* Of a last click that met no other: it is the only request, and where it
\* stands tells what isStarted is.
OneRequest ==
    alone =>
        /\ \A k \in Click : k # clicks => click[k] \in {"none", "done"}
        /\ clicks = 0 => (button = "stop" <=> isStarted)
        /\ \A k \in Click :
             k = clicks =>
                /\ click[k] # "none"
                /\ click[k] = "done" => (button = "stop" <=> isStarted)
                /\ click[k] \in {"spawning", "started"} => isStarted
                /\ click[k] = "stopped" => ~isStarted

IInv == /\ TypeOK /\ Numbered /\ OneRequest
        /\ HeatedByWorker /\ StartedHasWorker /\ KeepsPolling

LEMMA InitIInv == Init => IInv
<1> SUFFICES ASSUME Init PROVE IInv
  OBVIOUS
<1> USE BrewPageAssumption DEF Init
<1>1. TypeOK
  <2>1. clicks \in 0..MaxClicks /\ pins \in 0..MaxPins /\ timers \in Nat
    OBVIOUS
  <2>2. click \in [Click -> RequestPlace] /\ at \in [Click -> WorkerPlace]
    BY DEF RequestPlace, WorkerPlace
  <2> QED
    BY <2>1, <2>2 DEF TypeOK
<1>2. Numbered /\ OneRequest
  BY DEF Numbered, OneRequest, Click
<1> QED
  BY <1>1, <1>2 DEF IInv, HeatedByWorker, StartedHasWorker, KeepsPolling

-----------------------------------------------------------------------------
LEMMA StepType == TypeOK /\ [Next]_vars => TypeOK'
<1> SUFFICES ASSUME TypeOK, [Next]_vars PROVE TypeOK'
  OBVIOUS
<1> USE BrewPageAssumption DEF TypeOK, page, presses, heating, controller
<1>1. CASE ClickStartStop
  <2>1. clicks' \in 0..MaxClicks /\ clicks' \in Click
    BY <1>1 DEF ClickStartStop, Click
  <2>2. click' \in [Click -> RequestPlace]
    BY <1>1, <2>1 DEF ClickStartStop, RequestPlace
  <2>3. alone' \in BOOLEAN
    BY <1>1 DEF ClickStartStop, Quiet
  <2> QED
    BY <1>1, <2>1, <2>2, <2>3 DEF ClickStartStop
<1>2. CASE Reload
  BY <1>2 DEF Reload
<1>8. CASE Poll
  <2>1. timers' \in Nat
    BY <1>8 DEF Poll
  <2> QED
    BY <1>8, <2>1 DEF Poll
<1>3. ASSUME NEW k \in Click, Serve(k) PROVE TypeOK'
  BY <1>3 DEF Serve, TestForStart, SetStarted, StartWorker, TestForStop, ClearStarted,
     Advance, RequestPlace, WorkerPlace
<1>4. ASSUME NEW k \in Click, SucceedStart(k) \/ SucceedStop(k) \/ LoseClick(k)
      PROVE TypeOK'
  <2>1. timers' \in Nat
    BY <1>4 DEF SucceedStart, SucceedStop, LoseClick
  <2>2. click' \in [Click -> RequestPlace]
    BY <1>4 DEF SucceedStart, SucceedStop, LoseClick, Advance, RequestPlace
  <2> QED
    BY <1>4, <2>1, <2>2 DEF SucceedStart, SucceedStop, LoseClick, Advance
<1>5. ASSUME NEW k \in Click, Work(k) PROVE TypeOK'
  <2>1. at' \in [Click -> WorkerPlace]
    BY <1>5 DEF Work, Check, Raise, StayOff, SwitchOn, SwitchOff, End, Go, WorkerPlace
  <2> QED
    BY <1>5, <2>1 DEF Work, Check, Raise, StayOff, SwitchOn, SwitchOff, End, Go, HeatKettle
<1>6. ASSUME NEW on \in BOOLEAN, SwitchPin(on) PROVE TypeOK'
  <2>1. pins' \in 0..MaxPins
    BY <1>6 DEF SwitchPin
  <2> QED
    BY <1>6, <2>1 DEF SwitchPin
<1>7. CASE UNCHANGED vars
  BY <1>7 DEF vars
<1> QED
  BY <1>1, <1>2, <1>3, <1>4, <1>5, <1>6, <1>7, <1>8 DEF Next

-----------------------------------------------------------------------------
(* The button *)

LEMMA StepRequests ==
  TypeOK /\ Numbered /\ OneRequest /\ [Next]_vars => Numbered' /\ OneRequest'
<1> SUFFICES ASSUME TypeOK, Numbered, OneRequest, [Next]_vars
             PROVE  Numbered' /\ OneRequest'
  OBVIOUS
<1> USE BrewPageAssumption DEF Numbered, OneRequest, page, presses, heating, controller
<1>0. /\ click \in [Click -> RequestPlace] /\ clicks \in Nat
      /\ \A k \in Click : k \in Nat /\ 1 <= k
  BY DEF TypeOK, Click
<1>1. CASE ClickStartStop
  <2>1. clicks + 1 \in Click /\ clicks' = clicks + 1
    BY <1>0, <1>1 DEF ClickStartStop, Click, TypeOK
  <2>2. click'[clicks + 1] \in {"start", "stop"}
        /\ \A k \in Click : k # clicks + 1 => click'[k] = click[k]
    BY <1>0, <1>1, <2>1 DEF ClickStartStop, TypeOK
  <2>3. Numbered'
    BY <1>0, <2>1, <2>2
  <2>4. alone' => Quiet
    BY <1>1 DEF ClickStartStop
  <2> QED
    BY <1>0, <2>1, <2>2, <2>3, <2>4 DEF Quiet
<1>2. CASE Reload \/ Poll
  BY <1>2 DEF Reload, Poll
<1>3. ASSUME NEW k \in Click, TestForStart(k) \/ TestForStop(k) PROVE Numbered' /\ OneRequest'
  BY <1>0, <1>3 DEF TestForStart, TestForStop, Advance
<1>4. ASSUME NEW k \in Click, SetStarted(k) \/ StartWorker(k) \/ ClearStarted(k)
      PROVE Numbered' /\ OneRequest'
  BY <1>0, <1>4 DEF SetStarted, StartWorker, ClearStarted, Advance
<1>5. ASSUME NEW k \in Click, SucceedStart(k) \/ SucceedStop(k) PROVE Numbered' /\ OneRequest'
  BY <1>0, <1>5 DEF SucceedStart, SucceedStop, Advance
<1>6. ASSUME NEW k \in Click, LoseClick(k) PROVE Numbered' /\ OneRequest'
  BY <1>0, <1>6 DEF LoseClick
<1>7. ASSUME NEW k \in Click, Work(k) PROVE Numbered' /\ OneRequest'
  <2>1. UNCHANGED <<page, presses, isStarted>>
    BY <1>7 DEF Work, Check, Raise, StayOff, SwitchOn, SwitchOff, End, Go
  <2> QED
    BY <2>1
<1>8. ASSUME NEW on \in BOOLEAN, SwitchPin(on) PROVE Numbered' /\ OneRequest'
  BY <1>8 DEF SwitchPin
<1>9. CASE UNCHANGED vars
  BY <1>9 DEF vars
<1> QED
  BY <1>1, <1>2, <1>3, <1>4, <1>5, <1>6, <1>7, <1>8, <1>9 DEF Next, Serve

-----------------------------------------------------------------------------
(* The workers *)

LEMMA StepHeated == TypeOK /\ HeatedByWorker /\ [Next]_vars => HeatedByWorker'
<1> SUFFICES ASSUME TypeOK, HeatedByWorker, [Next]_vars PROVE HeatedByWorker'
  OBVIOUS
<1> USE DEF HeatedByWorker, Alive, page, presses, heating, controller
<1>0. at \in [Click -> WorkerPlace]
  BY DEF TypeOK
<1>1. CASE ClickStartStop \/ Reload \/ Poll \/ UNCHANGED vars
  BY <1>1 DEF ClickStartStop, Reload, Poll, vars
<1>2. ASSUME NEW k \in Click, Serve(k) PROVE HeatedByWorker'
  BY <1>0, <1>2 DEF Serve, TestForStart, SetStarted, StartWorker, TestForStop, ClearStarted
<1>3. ASSUME NEW k \in Click, SucceedStart(k) \/ SucceedStop(k) \/ LoseClick(k)
      PROVE HeatedByWorker'
  BY <1>3 DEF SucceedStart, SucceedStop, LoseClick
<1>4. ASSUME NEW k \in Click, Work(k) PROVE HeatedByWorker'
  BY <1>0, <1>4 DEF Work, Check, Raise, StayOff, SwitchOn, SwitchOff, End, Go, HeatKettle
<1>5. ASSUME NEW on \in BOOLEAN, SwitchPin(on) PROVE HeatedByWorker'
  BY <1>5 DEF SwitchPin
<1> QED
  BY <1>1, <1>2, <1>3, <1>4, <1>5 DEF Next

LEMMA StepStarted ==
  TypeOK /\ Numbered /\ StartedHasWorker /\ [Next]_vars => StartedHasWorker'
<1> SUFFICES ASSUME TypeOK, Numbered, StartedHasWorker, [Next]_vars
             PROVE  StartedHasWorker'
  OBVIOUS
<1> USE DEF StartedHasWorker, Alive, page, presses, heating, controller
<1>0. at \in [Click -> WorkerPlace] /\ click \in [Click -> RequestPlace] /\ clicks \in Nat
      /\ Click \subseteq Nat
  BY DEF TypeOK, Click
<1>1. CASE ClickStartStop
  <2>1. \A k \in Click : click[k] = "spawning" => k # clicks'
    BY <1>0, <1>1 DEF ClickStartStop, Numbered
  <2> QED
    BY <1>0, <1>1, <2>1 DEF ClickStartStop
<1>2. CASE Reload \/ Poll \/ UNCHANGED vars
  BY <1>2 DEF Reload, Poll, vars
<1>3. ASSUME NEW k \in Click, Serve(k) PROVE StartedHasWorker'
  BY <1>0, <1>3 DEF Serve, TestForStart, SetStarted, StartWorker, TestForStop, ClearStarted, Advance
<1>4. ASSUME NEW k \in Click, SucceedStart(k) \/ SucceedStop(k) \/ LoseClick(k)
      PROVE StartedHasWorker'
  BY <1>0, <1>4 DEF SucceedStart, SucceedStop, LoseClick, Advance
<1>5. ASSUME NEW k \in Click, Work(k) PROVE StartedHasWorker'
  BY <1>0, <1>5 DEF Work, Check, Raise, StayOff, SwitchOn, SwitchOff, End, Go
<1>6. ASSUME NEW on \in BOOLEAN, SwitchPin(on) PROVE StartedHasWorker'
  BY <1>6 DEF SwitchPin
<1> QED
  BY <1>1, <1>2, <1>3, <1>4, <1>5, <1>6 DEF Next

LEMMA StepPolling == TypeOK /\ KeepsPolling /\ [Next]_vars => KeepsPolling'
<1> SUFFICES ASSUME TypeOK, KeepsPolling, [Next]_vars PROVE KeepsPolling'
  OBVIOUS
<1> USE DEF KeepsPolling, page, presses, controller
<1>0. timers \in Nat
  BY DEF TypeOK
<1>1. CASE ClickStartStop \/ UNCHANGED vars
  BY <1>1 DEF ClickStartStop, vars
<1>2. CASE Reload
  BY <1>2 DEF Reload
<1>3. CASE Poll
  BY <1>0, <1>3 DEF Poll
<1>4. ASSUME NEW k \in Click, SucceedStart(k) \/ SucceedStop(k) PROVE KeepsPolling'
  BY <1>0, <1>4 DEF SucceedStart, SucceedStop
<1>5. ASSUME NEW k \in Click, Serve(k) \/ LoseClick(k) PROVE KeepsPolling'
  BY <1>5 DEF Serve, TestForStart, SetStarted, StartWorker, TestForStop, ClearStarted, LoseClick
<1>6. ASSUME NEW k \in Click, Work(k) PROVE KeepsPolling'
  BY <1>6 DEF Work, Check, Raise, StayOff, SwitchOn, SwitchOff, End, Go
<1>7. ASSUME NEW on \in BOOLEAN, SwitchPin(on) PROVE KeepsPolling'
  BY <1>7 DEF SwitchPin
<1> QED
  BY <1>1, <1>2, <1>3, <1>4, <1>5, <1>6, <1>7 DEF Next

-----------------------------------------------------------------------------
LEMMA Always == Spec => []IInv
<1>1. IInv /\ [Next]_vars => IInv'
  BY StepType, StepRequests, StepHeated, StepStarted, StepPolling DEF IInv
<1> QED
  BY InitIInv, <1>1, PTL DEF Spec

\* The page's, the requests' and the workers' places have their types.
THEOREM TypeCorrect == Spec => []TypeOK
<1>1. IInv => TypeOK
  BY DEF IInv
<1> QED
  BY <1>1, Always, PTL

\* One click answered before the next sets the button right, whatever happened
\* before.
THEOREM ButtonTrue == Spec => []ButtonAgrees
<1>1. IInv => ButtonAgrees
  <2> SUFFICES ASSUME TypeOK, OneRequest, Quiet, alone PROVE button = "stop" <=> isStarted
    BY DEF IInv, ButtonAgrees
  <2>1. clicks = 0 \/ clicks \in Click
    BY BrewPageAssumption DEF TypeOK, Click
  <2> QED
    BY <2>1 DEF OneRequest, Quiet
<1> QED
  BY <1>1, Always, PTL

\* The relay is on only while a worker will still switch it off, or because a
\* pin button wrote it last.
THEOREM OnlyWorkersHeat == Spec => []HeatedByWorker
<1>1. IInv => HeatedByWorker
  BY DEF IInv
<1> QED
  BY <1>1, Always, PTL

\* A started controller has a worker that goes on, unless one died.
THEOREM StartedWorks == Spec => []StartedHasWorker
<1>1. IInv => StartedHasWorker
  BY DEF IInv
<1> QED
  BY <1>1, Always, PTL

\* A page that means to poll has a timeout set.
THEOREM PollingLives == Spec => []KeepsPolling
<1>1. IInv => KeepsPolling
  BY DEF IInv
<1> QED
  BY <1>1, Always, PTL

=============================================================================
