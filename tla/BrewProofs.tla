----------------------------- MODULE BrewProofs -----------------------------
(***************************************************************************)
(* Whatever the callers and however many control threads, Brew.tla is type *)
(* correct and only a running control loop heats.  While no calls overlap  *)
(* and no join times out, there is one loop, it starts with a fresh PID    *)
(* and none outlives a stop.                                               *)
(***************************************************************************)
EXTENDS Brew, FiniteSetTheorems, TLAPS

\* The loops that have yet to pass the relay.output(False) of their finally.
Heating(l) == Alive(l) /\ at[l] # "reset"

\* What HeatedByLoop needs to be inductive: a loop that has switched off at its
\* end is alive and no longer answers for the relay.
HeatedByHeating == relay => \E l \in Loop : Heating(l)

\* TypeOK and the domain of at.
Shape == TypeOK /\ DOMAIN at = Caller \cup Loop

LEMMA InitShape == Init => Shape
  BY BrewAssumption DEF Init, Shape, TypeOK, Level, CallerPlace, LoopPlace

LEMMA StepShape == Shape /\ [Next]_vars => Shape'
<1> SUFFICES ASSUME Shape, [Next]_vars PROVE Shape'
  OBVIOUS
<1> USE BrewAssumption DEF Shape, TypeOK, Step, Level, CallerPlace, LoopPlace
<1>1. ASSUME NEW c \in Caller, Start(c) \/ Stop(c) PROVE Shape'
  BY <1>1 DEF Start, Stop
<1>2. ASSUME NEW c \in Caller, Spawn(c) PROVE Shape'
  BY <1>2 DEF Spawn
<1>3. ASSUME NEW c \in Caller, SetRunning(c) \/ ClearStopEvent(c) PROVE Shape'
  BY <1>3 DEF SetRunning, ClearStopEvent
<1>4. ASSUME NEW c \in Caller, ClearRunning(c) \/ SetStopEvent(c) \/ Join(c) PROVE Shape'
  BY <1>4 DEF ClearRunning, SetStopEvent, Join
<1>5. ASSUME NEW c \in Caller, SwitchOffAfterJoin(c) \/ ResetAfterStop(c) PROVE Shape'
  BY <1>5 DEF SwitchOffAfterJoin, ResetAfterStop, Reset
<1>6. ASSUME NEW l \in Loop, Check(l) \/ ReadTemp(l) \/ Compute(l) PROVE Shape'
  <2>1. CASE Check(l) \/ ReadTemp(l)
    BY <2>1 DEF Check, ReadTemp
  <2>2. CASE Compute(l)
    <3>1. PICK level \in Level :
            /\ Step(l, "compute", IF level = "low" THEN "switchOff" ELSE "switchOn")
            /\ duty' = [duty EXCEPT ![l] = level]
      BY <2>2 DEF Compute
    <3> QED
      BY <2>2, <3>1 DEF Compute
  <2> QED
    BY <1>6, <2>1, <2>2
<1>7. ASSUME NEW l \in Loop, SwitchOn(l) \/ Heat(l) PROVE Shape'
  BY <1>7 DEF SwitchOn, Heat
<1>8. ASSUME NEW l \in Loop, SwitchOff(l) \/ Rest(l) PROVE Shape'
  BY <1>8 DEF SwitchOff, Rest
<1>9. ASSUME NEW l \in Loop, SwitchOffAtEnd(l) \/ ResetAtEnd(l) PROVE Shape'
  BY <1>9 DEF SwitchOffAtEnd, ResetAtEnd, Reset
<1>10. CASE SensorBreaks
  BY <1>10 DEF SensorBreaks
<1>11. CASE UNCHANGED vars
  BY <1>11 DEF vars
<1> QED
  BY <1>1, <1>2, <1>3, <1>4, <1>5, <1>6, <1>7, <1>8, <1>9, <1>10, <1>11
  DEF Next, Continue, Iterate

LEMMA InitHeated == Init => HeatedByHeating
  BY DEF Init, HeatedByHeating

\* What most steps do: they do not switch the relay on, and a heating loop
\* stays one.
Keeps == (relay' => relay) /\ \A k \in Loop : Heating(k) => Heating(k)'

LEMMA StillHeated == HeatedByHeating /\ Keeps => HeatedByHeating'
  BY DEF HeatedByHeating, Keeps

LEMMA StepHeated == Shape /\ HeatedByHeating /\ [Next]_vars => HeatedByHeating'
<1> SUFFICES ASSUME Shape, HeatedByHeating, [Next]_vars PROVE HeatedByHeating'
  OBVIOUS
<1> USE BrewAssumption DEF Shape, TypeOK, Step, Heating, Alive
<1>1. ASSUME NEW c \in Caller, Start(c) \/ Stop(c) PROVE Keeps
  BY <1>1 DEF Keeps, Start, Stop
<1>2. ASSUME NEW c \in Caller, Spawn(c) PROVE Keeps
  BY <1>2 DEF Keeps, Spawn
<1>3. ASSUME NEW c \in Caller, SetRunning(c) \/ ClearStopEvent(c) PROVE Keeps
  BY <1>3 DEF Keeps, SetRunning, ClearStopEvent
<1>4. ASSUME NEW c \in Caller, ClearRunning(c) \/ SetStopEvent(c) PROVE Keeps
  BY <1>4 DEF Keeps, ClearRunning, SetStopEvent
<1>5. ASSUME NEW c \in Caller, Join(c) PROVE Keeps
  BY <1>5 DEF Keeps, Join
<1>6. ASSUME NEW c \in Caller, SwitchOffAfterJoin(c) \/ ResetAfterStop(c) PROVE Keeps
  BY <1>6 DEF Keeps, SwitchOffAfterJoin, ResetAfterStop
<1>7. ASSUME NEW l \in Loop, Check(l) \/ ReadTemp(l) \/ Compute(l) PROVE Keeps
  <2>1. CASE Check(l) \/ ReadTemp(l)
    BY <2>1 DEF Keeps, Check, ReadTemp
  <2>2. CASE Compute(l)
    <3>1. PICK level \in Level :
            Step(l, "compute", IF level = "low" THEN "switchOff" ELSE "switchOn")
      BY <2>2 DEF Compute
    <3> QED
      BY <2>2, <3>1 DEF Keeps, Compute
  <2> QED
    BY <1>7, <2>1, <2>2
<1>8. ASSUME NEW l \in Loop, Heat(l) PROVE Keeps
  BY <1>8 DEF Keeps, Heat
<1>10. ASSUME NEW l \in Loop, SwitchOff(l) \/ Rest(l) PROVE Keeps
  BY <1>10 DEF Keeps, SwitchOff, Rest
<1>11. ASSUME NEW l \in Loop, ResetAtEnd(l) PROVE Keeps
  BY <1>11 DEF Keeps, ResetAtEnd
<1>12. CASE SensorBreaks
  <2> Keeps
    BY <1>12 DEF Keeps, SensorBreaks
  <2> QED
    BY StillHeated
<1>13. CASE UNCHANGED vars
  <2> Keeps
    BY <1>13 DEF Keeps, vars
  <2> QED
    BY StillHeated
<1>14. ASSUME NEW l \in Loop, SwitchOn(l) PROVE HeatedByHeating'
  BY <1>14 DEF SwitchOn, HeatedByHeating
<1>15. ASSUME NEW l \in Loop, SwitchOffAtEnd(l) PROVE HeatedByHeating'
  BY <1>15 DEF SwitchOffAtEnd, HeatedByHeating
<1> HIDE DEF Shape, TypeOK, Step, Heating, Alive
<1> QED
  BY StillHeated, <1>1, <1>2, <1>3, <1>4, <1>5, <1>6, <1>7, <1>8, <1>10, <1>11,
     <1>12, <1>13, <1>14, <1>15
  DEF Next, Continue, Iterate

-----------------------------------------------------------------------------
(* Orderly use *)

Quiet == \A l \in Loop : ~Alive(l)

\* A loop that has computed leaves the PID reset when it ends.
ResetWhenQuiet == ~pidReset => ~Quiet

\* One call at a time, and at most one loop, the last one started.
OneCall == \A c, d \in Caller : at[c] # "idle" /\ at[d] # "idle" => c = d
OnlyWorker == \A l \in Loop : Alive(l) => worker = l

\* Where a start has set is_running.
StartRuns == \A c \in Caller : at[c] \in {"clearing", "spawning"} => isRunning

\* Where no loop is left: during a start, from the join of a stop on, and between
\* a stop and the next start.
Without == {"starting", "clearing", "spawning", "switching", "resetting"}
NoneLeft ==
    /\ \A c \in Caller : at[c] \in Without => Quiet
    /\ ~isRunning /\ (\A c \in Caller : at[c] = "idle") => Quiet

Orderly == OneCall /\ OnlyWorker /\ StartRuns /\ NoneLeft

OrderInv == Shape /\ ResetWhenQuiet /\ (smooth => Orderly)

LEMMA InitOrder == Init => OrderInv
<1>1. Init => OneCall /\ OnlyWorker /\ StartRuns /\ NoneLeft /\ ResetWhenQuiet
  BY BrewAssumption DEF Init, OneCall, OnlyWorker, StartRuns, NoneLeft, Without,
     ResetWhenQuiet, Quiet, Alive
<1> QED
  BY <1>1, InitShape DEF OrderInv, Orderly

\* A step of a loop ends it or leaves it alive, and calls nobody.
LEMMA LoopStep ==
  ASSUME Shape, NEW l \in Loop, Iterate(l)
  PROVE  /\ \A c \in Caller : at'[c] = at[c]
         /\ \A k \in Loop : Alive(k)' => Alive(k)
         /\ \A k \in Loop : ~Alive(k) => at'[k] = at[k]
         /\ isRunning' = isRunning /\ worker' = worker /\ smooth' = smooth
         /\ ~pidReset' => ~Quiet'
             \/ (pidReset' = pidReset /\ \A k \in Loop : Alive(k) => Alive(k)')
<1> USE BrewAssumption DEF Shape, TypeOK, Step, Alive, Quiet
<1>1. CASE Check(l) \/ ReadTemp(l)
  BY <1>1 DEF Check, ReadTemp
<1>2. CASE Compute(l)
  <2>1. PICK level \in Level :
          Step(l, "compute", IF level = "low" THEN "switchOff" ELSE "switchOn")
    BY <1>2 DEF Compute
  <2> QED
    BY <1>2, <2>1 DEF Compute
<1>3. CASE SwitchOn(l) \/ Heat(l)
  BY <1>3 DEF SwitchOn, Heat
<1>4. CASE SwitchOff(l) \/ Rest(l)
  BY <1>4 DEF SwitchOff, Rest
<1>5. CASE SwitchOffAtEnd(l) \/ ResetAtEnd(l)
  BY <1>5 DEF SwitchOffAtEnd, ResetAtEnd, Reset
<1> QED
  BY <1>1, <1>2, <1>3, <1>4, <1>5 DEF Iterate

LEMMA LoopOrder == ASSUME OrderInv, NEW l \in Loop, Iterate(l) PROVE OrderInv'
<1>1. Shape'
  BY StepShape DEF OrderInv, Next
<1>2. ResetWhenQuiet'
  BY LoopStep DEF OrderInv, ResetWhenQuiet, Quiet
<1>3. smooth' => Orderly'
  BY LoopStep DEF OrderInv, Orderly, OneCall, OnlyWorker, StartRuns, NoneLeft, Without, Quiet
<1> QED
  BY <1>1, <1>2, <1>3 DEF OrderInv

\* A step of a caller other than Spawn leaves the loops where they are.
CallStep(c) ==
    /\ \A l \in Loop : at'[l] = at[l]
    /\ \A d \in Caller : d # c => at'[d] = at[d]
    /\ worker' = worker
    /\ pidReset => pidReset'

LEMMA LoopsUntouched ==
  ASSUME Shape, NEW c \in Caller, CallStep(c)
  PROVE  Quiet' = Quiet /\ (\A l \in Loop : Alive(l)' = Alive(l))
  BY DEF CallStep, Quiet, Alive

LEMMA EnterOrder ==
  ASSUME OrderInv, NEW c \in Caller, Start(c) \/ Stop(c) PROVE OrderInv'
<1>1. Shape'
  BY StepShape DEF OrderInv, Next
<1>2. CallStep(c) /\ isRunning' = isRunning /\ pidReset' = pidReset
  BY BrewAssumption DEF Start, Stop, Step, CallStep, OrderInv, Shape
<1>3. ResetWhenQuiet'
  BY <1>2, LoopsUntouched DEF OrderInv, ResetWhenQuiet
<1>4. ASSUME smooth' PROVE Orderly'
  <2>1. smooth /\ \A d \in Caller : at[d] = "idle"
    BY <1>4 DEF Start, Stop, Step, Overlaps
  <2>2. at'[c] \in {"starting", "stopping"} /\ (at'[c] = "starting" => ~isRunning)
    BY DEF Start, Stop, Step, OrderInv, Shape
  <2>3. OneCall' /\ StartRuns'
    BY <1>2, <2>1, <2>2 DEF OneCall, StartRuns, CallStep
  <2>4. OnlyWorker'
    BY <1>2, <2>1, LoopsUntouched DEF OnlyWorker, OrderInv, Orderly, CallStep
  <2>5. NoneLeft'
    BY <1>2, <2>1, <2>2, LoopsUntouched
    DEF NoneLeft, Without, OrderInv, Orderly, CallStep
  <2> QED
    BY <2>3, <2>4, <2>5 DEF Orderly
<1> QED
  BY <1>1, <1>3, <1>4 DEF OrderInv

\* From the place a caller stands at to its next, in orderly use.
LEMMA GoOnOrder ==
  ASSUME OrderInv, NEW c \in Caller, CallStep(c), Shape',
         at[c] # "idle", smooth' => smooth,
         smooth' /\ Orderly =>
             /\ at'[c] \in {"clearing", "spawning"} => isRunning'
             /\ at'[c] \in Without => Quiet,
         ~isRunning' /\ at'[c] = "idle" => at[c] \in Without
  PROVE  OrderInv'
<1>1. ResetWhenQuiet'
  BY LoopsUntouched DEF OrderInv, ResetWhenQuiet, CallStep
<1>2. ASSUME smooth' PROVE Orderly'
  <2>1. Orderly
    BY <1>2 DEF OrderInv
  <2>2. \A d \in Caller : d # c => at[d] = "idle" /\ at'[d] = "idle"
    BY <2>1 DEF Orderly, OneCall, CallStep
  <2>3. OneCall' /\ StartRuns'
    BY <1>2, <2>1, <2>2 DEF OneCall, StartRuns
  <2>4. OnlyWorker'
    BY <2>1, LoopsUntouched DEF OnlyWorker, OrderInv, Orderly, CallStep
  <2>5. NoneLeft'
    BY <1>2, <2>1, <2>2, LoopsUntouched DEF NoneLeft, Without, OrderInv, Orderly
  <2> QED
    BY <2>3, <2>4, <2>5 DEF Orderly
<1> QED
  BY <1>1, <1>2 DEF OrderInv

LEMMA CallerOrder ==
  ASSUME OrderInv, NEW c \in Caller, Continue(c), ~Spawn(c) PROVE OrderInv'
<1>1. Shape'
  BY StepShape DEF OrderInv, Next
<1> USE BrewAssumption DEF OrderInv, Shape, Step, CallStep, Without
<1>2. CASE SetRunning(c) \/ ClearStopEvent(c)
  BY <1>1, <1>2, GoOnOrder DEF SetRunning, ClearStopEvent, Orderly, NoneLeft, StartRuns
<1>3. CASE ClearRunning(c) \/ SetStopEvent(c)
  BY <1>1, <1>3, GoOnOrder DEF ClearRunning, SetStopEvent
<1>4. CASE Join(c)
  <2>1. smooth' /\ Orderly => Quiet
    BY <1>4 DEF Join, TypeOK, Orderly, OnlyWorker, Quiet
  <2> QED
    BY <1>1, <1>4, <2>1, GoOnOrder DEF Join
<1>5. CASE SwitchOffAfterJoin(c) \/ ResetAfterStop(c)
  BY <1>1, <1>5, GoOnOrder DEF SwitchOffAfterJoin, ResetAfterStop, Reset, Orderly, NoneLeft
<1> QED
  BY <1>2, <1>3, <1>4, <1>5 DEF Continue

LEMMA SpawnOrder == ASSUME OrderInv, NEW c \in Caller, Spawn(c) PROVE OrderInv'
<1>1. Shape'
  BY StepShape DEF OrderInv, Next, Continue
<1>2. PICK l \in Loop :
        /\ at[l] = "new" /\ at' = [at EXCEPT ![c] = "idle", ![l] = "check"]
        /\ worker' = l
  BY DEF Spawn
<1>3. at[c] = "spawning" /\ isRunning' = isRunning /\ smooth' = smooth
  BY DEF Spawn
<1>4. /\ at'[c] = "idle" /\ at'[l] = "check"
      /\ \A k \in Loop : k # l => at'[k] = at[k]
      /\ \A d \in Caller : d # c => at'[d] = at[d]
  BY <1>2, BrewAssumption DEF OrderInv, Shape
<1>5. ResetWhenQuiet'
  BY <1>4 DEF ResetWhenQuiet, Quiet, Alive
<1>6. ASSUME smooth' PROVE Orderly'
  <2>1. Orderly /\ Quiet /\ isRunning
    BY <1>3, <1>6 DEF OrderInv, Orderly, NoneLeft, StartRuns, Without
  <2>2. \A d \in Caller : at'[d] = "idle"
    BY <1>3, <1>4, <2>1 DEF Orderly, OneCall
  <2>3. OneCall' /\ StartRuns' /\ NoneLeft'
    BY <1>3, <2>1, <2>2 DEF OneCall, StartRuns, NoneLeft, Without
  <2>4. OnlyWorker'
    BY <1>2, <1>4, <2>1 DEF OnlyWorker, Quiet, Alive
  <2> QED
    BY <2>3, <2>4 DEF Orderly
<1> QED
  BY <1>1, <1>5, <1>6 DEF OrderInv

LEMMA IdleOrder ==
  ASSUME OrderInv, SensorBreaks \/ UNCHANGED vars PROVE OrderInv'
<1>1. Shape'
  BY StepShape DEF OrderInv, Next
<1>2. UNCHANGED <<at, isRunning, worker, smooth, pidReset>>
  BY DEF SensorBreaks, vars
<1> QED
  BY <1>1, <1>2 DEF OrderInv, ResetWhenQuiet, Orderly, OneCall, OnlyWorker, StartRuns,
     NoneLeft, Without, Quiet, Alive

LEMMA StepOrder == OrderInv /\ [Next]_vars => OrderInv'
  BY EnterOrder, CallerOrder, SpawnOrder, LoopOrder, IdleOrder DEF Next, Continue

LEMMA AlwaysOrder == Spec => []OrderInv
  BY InitOrder, StepOrder, PTL DEF Spec

-----------------------------------------------------------------------------
\* Every reachable state of the controller has the fields and the program
\* positions TypeOK names.
THEOREM TypeCorrect == Spec => []TypeOK
<1>1. Shape => TypeOK
  BY DEF Shape
<1> QED
  BY InitShape, StepShape, <1>1, PTL DEF Spec

\* However start and stop race, and with any number of control loops, the
\* relay of _set_heater_state is on only while a loop runs that will still
\* pass its finally clause.
THEOREM OnlyLoopsHeat == Spec => []HeatedByLoop
<1>1. HeatedByHeating => HeatedByLoop
  BY DEF HeatedByHeating, HeatedByLoop, Heating
<1> QED
  BY InitShape, StepShape, InitHeated, StepHeated, <1>1, PTL DEF Spec

\* Unless calls overlap or a join times out, stop has waited for the last loop
\* before start makes another.
THEOREM OneLoopRuns == Spec => []OneLoop
<1>1. OrderInv => OneLoop
  <2> SUFFICES ASSUME OrderInv, smooth PROVE Cardinality({l \in Loop : Alive(l)}) <= 1
    BY DEF OneLoop
  <2>1. CASE {l \in Loop : Alive(l)} = {}
    BY <2>1, FS_EmptySet
  <2>2. CASE {l \in Loop : Alive(l)} = {worker}
    BY <2>2, FS_Singleton
  <2> QED
    BY <2>1, <2>2 DEF OrderInv, Orderly, OnlyWorker
<1> QED
  BY AlwaysOrder, <1>1, PTL

\* Unless calls overlap or a join times out, the relay is off and stays off when
\* stop has returned.
THEOREM OffStays == Spec => []OffAfterStop
<1>1. OrderInv /\ HeatedByLoop => OffAfterStop
  BY DEF OffAfterStop, OrderInv, Orderly, NoneLeft, HeatedByLoop, Quiet
<1> QED
  BY AlwaysOrder, OnlyLoopsHeat, <1>1, PTL

\* Unless calls overlap or a join times out, a loop starts with a PID that
\* nobody has used since its reset.
THEOREM PidStartsFresh == Spec => FreshPid
<1> DEFINE Fresh == \A l \in Loop : smooth /\ at[l] = "new" /\ at'[l] # "new" => pidReset
<1>1. OrderInv /\ [Next]_vars => [Fresh]_vars
  <2> SUFFICES ASSUME OrderInv, [Next]_vars, NEW l \in Loop,
                      smooth, at[l] = "new", at'[l] # "new"
               PROVE  pidReset
    OBVIOUS
  <2>1. PICK c \in Caller : Spawn(c)
    <3>1. ASSUME NEW k \in Loop, Iterate(k) PROVE FALSE
      BY <3>1, LoopStep DEF OrderInv, Alive
    <3>2. ASSUME NEW c \in Caller, Start(c) \/ Stop(c) PROVE FALSE
      BY <3>2, BrewAssumption DEF Start, Stop, Step, OrderInv, Shape
    <3>3. ASSUME NEW c \in Caller, Continue(c), ~Spawn(c) PROVE FALSE
      BY <3>3, BrewAssumption DEF Continue, SetRunning, ClearStopEvent, ClearRunning,
         SetStopEvent, Join, SwitchOffAfterJoin, ResetAfterStop, Step, OrderInv, Shape
    <3> QED
      BY <3>1, <3>2, <3>3 DEF Next, SensorBreaks, vars
  <2> QED
    BY <2>1 DEF Spawn, OrderInv, Orderly, NoneLeft, Without, ResetWhenQuiet
<1> QED
  BY AlwaysOrder, <1>1, PTL DEF Spec, FreshPid

=============================================================================
