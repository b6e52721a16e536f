-------------------------------- MODULE Brew --------------------------------
(***************************************************************************)
(* BrewController and Heater (python/brew/src/pibrew): threads that call   *)
(* start() and stop(), and the control loops those calls start.  A step is *)
(* what a thread does up to the next statement that reads or writes a      *)
(* field another thread writes; nothing is locked.                         *)
(*                                                                         *)
(* Abstractions.  The power of an iteration is one of three levels of a   *)
(* heater cycle: "low" (no time on, or too little to switch), "part" (on,  *)
(* then off) and "full" (too little time off to switch), all there is      *)
(* while cycle_time exceeds twice min_toggle_time, as the defaults do.     *)
(* What the PID computes from the temperature is any level.  The heater's  *)
(* own flag and power, which are only shown, are left out.  The relay      *)
(* stands for relay and LED, which _set_heater_state writes together.      *)
(* Thread(...), its assignment and its start() are one step.               *)
(***************************************************************************)
EXTENDS Naturals, FiniteSets

CONSTANTS
    Caller,     \* threads that call start and stop
    Loop,       \* the control threads there may be (a bound)
    None

ASSUME BrewAssumption ==
    None \notin Loop /\ Caller \cap Loop = {}

VARIABLES
    isRunning,   \* is_running
    stopEvent,   \* whether _stop_event is set
    worker,      \* _worker_thread
    relay,       \* the relay pin
    pidReset,    \* whether the PID is in its initial state
    sensor,      \* the thermocouple: "ok" or "broken"
    at,          \* at[t]: where the thread t stands
    duty,        \* duty[l]: the level its run_cycle has computed duty_time from
    smooth       \* history: no two calls have overlapped, no join has timed out

vars == <<isRunning, stopEvent, worker, relay, pidReset,
          sensor, at, duty, smooth>>

Level == {"low", "part", "full"}

CallerPlace == {"idle", "starting", "clearing", "spawning",
                "stopping", "signalling", "joining", "switching", "resetting"}
LoopPlace == {"new", "check", "read", "compute", "switchOn", "heating",
              "switchOff", "resting", "ending", "reset", "ended"}

TypeOK ==
    /\ isRunning \in BOOLEAN /\ stopEvent \in BOOLEAN
    /\ worker \in Loop \cup {None}
    /\ relay \in BOOLEAN /\ pidReset \in BOOLEAN
    /\ sensor \in {"ok", "broken"}
    /\ \A c \in Caller : at[c] \in CallerPlace
    /\ \A l \in Loop : at[l] \in LoopPlace
    /\ duty \in [Loop -> Level]
    /\ smooth \in BOOLEAN

Init ==
    /\ isRunning = FALSE /\ stopEvent = FALSE
    /\ worker = None
    /\ relay = FALSE
    /\ pidReset = TRUE
    /\ sensor = "ok"
    /\ at = [t \in Caller \cup Loop |-> IF t \in Caller THEN "idle" ELSE "new"]
    /\ duty = [l \in Loop |-> "low"]
    /\ smooth = TRUE

Step(t, from, to) == at[t] = from /\ at' = [at EXCEPT ![t] = to]

Alive(l) == at[l] \notin {"new", "ended"}

\* Another call of start or stop goes on while c calls.
Overlaps(c) == \E d \in Caller \ {c} : at[d] # "idle"

-----------------------------------------------------------------------------
(* start() *)

\* Fault: start does not look at is_running.
StartAnyway(c) ==
    /\ Step(c, "idle", "starting")
    /\ smooth' = (smooth /\ ~Overlaps(c))
    /\ UNCHANGED <<isRunning, stopEvent, worker, relay,
                   pidReset, sensor, duty>>

Start(c) ==
    /\ ~isRunning
    /\ Step(c, "idle", "starting")
    /\ smooth' = (smooth /\ ~Overlaps(c))
    /\ UNCHANGED <<isRunning, stopEvent, worker, relay,
                   pidReset, sensor, duty>>

SetRunning(c) ==
    /\ Step(c, "starting", "clearing")
    /\ isRunning' = TRUE
    /\ UNCHANGED <<stopEvent, worker, relay, pidReset, sensor, duty, smooth>>

ClearStopEvent(c) ==
    /\ Step(c, "clearing", "spawning")
    /\ stopEvent' = FALSE
    /\ UNCHANGED <<isRunning, worker, relay, pidReset, sensor, duty, smooth>>

Spawn(c) ==
    /\ at[c] = "spawning"
    /\ \E l \in Loop : at[l] = "new"
    /\ LET l == CHOOSE x \in Loop : at[x] = "new" IN
        /\ at' = [at EXCEPT ![c] = "idle", ![l] = "check"]
        /\ worker' = l
    /\ UNCHANGED <<isRunning, stopEvent, relay, pidReset, sensor, duty, smooth>>

-----------------------------------------------------------------------------
(* stop() *)

Stop(c) ==
    /\ isRunning
    /\ Step(c, "idle", "stopping")
    /\ smooth' = (smooth /\ ~Overlaps(c))
    /\ UNCHANGED <<isRunning, stopEvent, worker, relay,
                   pidReset, sensor, duty>>

ClearRunning(c) ==
    /\ Step(c, "stopping", "signalling")
    /\ isRunning' = FALSE
    /\ UNCHANGED <<stopEvent, worker, relay, pidReset, sensor, duty, smooth>>

SetStopEvent(c) ==
    /\ Step(c, "signalling", "joining")
    /\ stopEvent' = TRUE
    /\ UNCHANGED <<isRunning, worker, relay, pidReset, sensor, duty, smooth>>

\* Fault: stop does not wait for the loop.
JoinNothing(c) ==
    /\ Step(c, "joining", "switching")
    /\ UNCHANGED <<isRunning, stopEvent, worker, relay,
                   pidReset, sensor, duty, smooth>>

\* join(timeout=5.0): the loop has ended, or it sleeps in a cycle that is longer
\* (--cycle-time sets its length).
Join(c) ==
    /\ Step(c, "joining", "switching")
    /\ \/ /\ worker # None => ~Alive(worker)
          /\ UNCHANGED smooth
       \/ /\ worker # None /\ at[worker] \in {"heating", "resting"}
          /\ smooth' = FALSE
    /\ UNCHANGED <<isRunning, stopEvent, worker, relay,
                   pidReset, sensor, duty>>

\* "Ensure heater is off": the relay, not the heater's own flag.
SwitchOffAfterJoin(c) ==
    /\ Step(c, "switching", "resetting")
    /\ relay' = FALSE
    /\ UNCHANGED <<isRunning, stopEvent, worker, pidReset, sensor, duty, smooth>>

\* Fault: reset() keeps some of the state.
ResetHalf == pidReset' = pidReset

\* PIDController.reset()
Reset == pidReset' = TRUE

ResetAfterStop(c) ==
    /\ Step(c, "resetting", "idle")
    /\ Reset
    /\ UNCHANGED <<isRunning, stopEvent, worker, relay, sensor, duty, smooth>>

-----------------------------------------------------------------------------
(* _control_loop and run_cycle *)

Check(l) ==
    /\ Step(l, "check", IF isRunning /\ ~stopEvent THEN "read" ELSE "ending")
    /\ UNCHANGED <<isRunning, stopEvent, worker, relay,
                   pidReset, sensor, duty, smooth>>

\* Fault: a failed read is retried on the spot.
ReadTempAgain(l) ==
    /\ Step(l, "read", IF sensor = "ok" THEN "compute" ELSE "read")
    /\ UNCHANGED <<isRunning, stopEvent, worker, relay,
                   pidReset, sensor, duty, smooth>>

\* readTempC(): a failed read goes on with the next iteration.
ReadTemp(l) ==
    /\ Step(l, "read", IF sensor = "ok" THEN "compute" ELSE "check")
    /\ UNCHANGED <<isRunning, stopEvent, worker, relay,
                   pidReset, sensor, duty, smooth>>

\* compute(), set_power() and the duty_time of run_cycle.
Compute(l) ==
    /\ \E level \in Level :
        /\ Step(l, "compute", IF level = "low" THEN "switchOff" ELSE "switchOn")
        /\ duty' = [duty EXCEPT ![l] = level]
    /\ pidReset' = FALSE
    /\ UNCHANGED <<isRunning, stopEvent, worker, relay, sensor, smooth>>

SwitchOn(l) ==
    /\ Step(l, "switchOn", "heating")
    /\ relay' = TRUE
    /\ UNCHANGED <<isRunning, stopEvent, worker, pidReset, sensor, duty, smooth>>

\* Fault: the relay is left to the next cycle when this one has a rest.
HeatOn(l) ==
    /\ Step(l, "heating", "check")
    /\ UNCHANGED <<isRunning, stopEvent, worker, relay, pidReset, sensor, duty, smooth>>

\* time.sleep(duty_time)
Heat(l) ==
    /\ Step(l, "heating", IF duty[l] = "full" THEN "check" ELSE "switchOff")
    /\ UNCHANGED <<isRunning, stopEvent, worker, relay, pidReset, sensor, duty, smooth>>

SwitchOff(l) ==
    /\ Step(l, "switchOff", "resting")
    /\ relay' = FALSE
    /\ UNCHANGED <<isRunning, stopEvent, worker, pidReset, sensor, duty, smooth>>

\* time.sleep(off_time)
Rest(l) ==
    /\ Step(l, "resting", "check")
    /\ UNCHANGED <<isRunning, stopEvent, worker, relay,
                   pidReset, sensor, duty, smooth>>

\* Fault: the finally clause leaves the heater as it is.
LeaveHeater(l) ==
    /\ Step(l, "ending", "reset")
    /\ UNCHANGED <<isRunning, stopEvent, worker, relay,
                   pidReset, sensor, duty, smooth>>

\* The finally clause.
SwitchOffAtEnd(l) ==
    /\ Step(l, "ending", "reset")
    /\ relay' = FALSE
    /\ UNCHANGED <<isRunning, stopEvent, worker, pidReset, sensor, duty, smooth>>

ResetAtEnd(l) ==
    /\ Step(l, "reset", "ended")
    /\ Reset
    /\ duty' = [duty EXCEPT ![l] = "low"]
    /\ UNCHANGED <<isRunning, stopEvent, worker, relay, sensor, smooth>>

\* The thermocouple breaks and stays broken: every read of it now fails.
SensorBreaks ==
    /\ sensor = "ok" /\ sensor' = "broken"
    /\ UNCHANGED <<isRunning, stopEvent, worker, relay,
                   pidReset, at, duty, smooth>>

-----------------------------------------------------------------------------
\* What a caller goes on with once it is inside start or stop.
Continue(c) ==
    \/ SetRunning(c) \/ ClearStopEvent(c) \/ Spawn(c)
    \/ ClearRunning(c) \/ SetStopEvent(c) \/ Join(c)
    \/ SwitchOffAfterJoin(c) \/ ResetAfterStop(c)

Iterate(l) ==
    \/ Check(l) \/ ReadTemp(l) \/ Compute(l) \/ SwitchOn(l)
    \/ Heat(l) \/ SwitchOff(l) \/ Rest(l)
    \/ SwitchOffAtEnd(l) \/ ResetAtEnd(l)

Next ==
    \/ \E c \in Caller : Start(c) \/ Stop(c) \/ Continue(c)
    \/ \E l \in Loop : Iterate(l)
    \/ SensorBreaks

Spec == Init /\ [][Next]_vars

\* The interpreter runs every thread; nobody is obliged to call start or stop.
FairSpec ==
    /\ Spec
    /\ \A c \in Caller : WF_vars(Continue(c))
    /\ \A l \in Loop : WF_vars(Iterate(l))

-----------------------------------------------------------------------------
(* Properties *)

\* Unless calls overlap or a join times out, one control loop at a time drives
\* the heater, the PID and the temperature: ARCHITECTURE.md:56, "Thread-safe
\* operation".
OneLoop == smooth => Cardinality({l \in Loop : Alive(l)}) <= 1

\* brew_controller.py:124, "Ensure heater is off": when stop has returned and
\* nobody has called start, the relay is off and stays off.
OffAfterStop == smooth /\ ~isRunning /\ (\A c \in Caller : at[c] = "idle") => ~relay

\* However many loops there are and whatever calls raced, the relay is on only
\* while a control loop runs that has yet to switch it off.  (Of the controller:
\* server.py:155-190, gpio/on and gpio/off, write the pin past it.)
HeatedByLoop == relay => \E l \in Loop : Alive(l)

\* A session starts with a reset PID, whatever the one before it left there.
FreshPid ==
    [][\A l \in Loop : smooth /\ at[l] = "new" /\ at'[l] # "new" => pidReset]_vars

\* A stop ends the control loop, with a broken thermocouple too, unless it is
\* started again.
StopEndsLoop == \A l \in Loop : Alive(l) /\ ~isRunning ~> ~Alive(l) \/ isRunning

\* ARCHITECTURE.md:170, "Heater auto-shutoff on errors", as far as it holds: once
\* the thermocouple only gives errors, the relay is switched off, except that a
\* full-power cycle leaves it on and no later iteration comes to the heater.
AutoShutoff ==
    sensor = "broken" ~> ~relay \/ \E l \in Loop : Alive(l) /\ duty[l] = "full"

=============================================================================
