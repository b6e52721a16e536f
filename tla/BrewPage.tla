------------------------------ MODULE BrewPage ------------------------------
(***************************************************************************)
(* The first version of the brewing software (python/brew: brew.py,        *)
(* server.py) with the page that steers it (html/index.html,               *)
(* js/piBrew.js).  Every click and every poll of the page is a request     *)
(* that a thread of the web server answers; start begins a worker, and     *)
(* stop only clears the flag the workers look at.                          *)
(*                                                                         *)
(* Abstractions.  A click on the start/stop button is a number; so is the  *)
(* worker its request starts.  The two tests of isStarted (server.py and   *)
(* brew.py) are one, as only the second is followed by an assignment.      *)
(* Power is whether a cycle switches on and whether it switches off; the   *)
(* target, the readings and what the page shows of them are left out.      *)
(* What a worker does between two reads of isStarted or the thermocouple   *)
(* and writes of the relay is one step.  Requests overtake one another; of *)
(* a lost one the page hears nothing.                                      *)
(***************************************************************************)
EXTENDS Naturals, FiniteSets

CONSTANTS
    MaxClicks,    \* clicks on start/stop (a bound)
    MaxPins       \* clicks on the buttons of the relay's pin (a bound)

ASSUME BrewPageAssumption == MaxClicks \in Nat /\ MaxPins \in Nat

VARIABLES
    \* the page
    button,      \* what the start/stop button says
    doPoll,      \* doPoll
    timers,      \* timeouts set for poll
    \* requests
    clicks,      \* how many clicks there have been
    click,       \* click[k]: how far its request has come
    pins,        \* how many on and off requests
    \* the controller
    isStarted,   \* isStarted
    relay,       \* the relay pin
    at,          \* at[k]: where the worker of click k stands
    \* histories
    alone,       \* the last click met no other, and the page was not reloaded
    byPin,       \* the relay was last written by a pin button
    died         \* a worker has ended with an exception

page == <<button, doPoll, timers>>
presses == <<clicks, click, alone>>
heating == <<relay, byPin>>
controller == <<isStarted, heating, at, died>>
vars == <<page, presses, pins, controller>>

Click == 1..MaxClicks
RequestPlace == {"none", "start", "starting", "spawning", "started",
                 "stop", "stopping", "stopped", "done"}
WorkerPlace == {"new", "check", "read", "heating", "ending", "ended"}

TypeOK ==
    /\ button \in {"start", "stop"} /\ doPoll \in BOOLEAN
    /\ timers \in Nat
    /\ clicks \in 0..MaxClicks
    /\ click \in [Click -> RequestPlace]
    /\ pins \in 0..MaxPins
    /\ isStarted \in BOOLEAN /\ relay \in BOOLEAN
    /\ at \in [Click -> WorkerPlace]
    /\ alone \in BOOLEAN /\ byPin \in BOOLEAN /\ died \in BOOLEAN

\* Loading the page polls at once and sets the timeout of the next poll.
Init ==
    /\ button = "start" /\ doPoll = TRUE /\ timers = 1
    /\ clicks = 0
    /\ click = [k \in Click |-> "none"]
    /\ pins = 0
    /\ isStarted = FALSE /\ relay = FALSE
    /\ at = [k \in Click |-> "new"]
    /\ alone = TRUE /\ byPin = FALSE /\ died = FALSE

\* No request of the start/stop button is on its way.
Quiet == \A k \in Click : click[k] \in {"none", "done"}

Alive(k) == at[k] \notin {"new", "ended"}

-----------------------------------------------------------------------------
(* The start/stop button *)

\* click(): st is what the button says now.
ClickStartStop ==
    /\ clicks < MaxClicks
    /\ clicks' = clicks + 1
    /\ click' = [click EXCEPT ![clicks'] = button]
    /\ alone' = Quiet
    /\ UNCHANGED <<page, pins, controller>>

Advance(k, from, to) ==
    /\ click[k] = from /\ click' = [click EXCEPT ![k] = to]
    /\ UNCHANGED <<clicks, alone>>

\* Fault: a start that finds it started is answered with an error.
RefuseStart(k) ==
    /\ Advance(k, "start", IF isStarted THEN "done" ELSE "starting")
    /\ UNCHANGED <<page, pins, controller>>

\* server.start, brew.start: nothing is locked between test and assignment.
TestForStart(k) ==
    /\ Advance(k, "start", IF isStarted THEN "started" ELSE "starting")
    /\ UNCHANGED <<page, pins, controller>>

SetStarted(k) ==
    /\ Advance(k, "starting", "spawning")
    /\ isStarted' = TRUE
    /\ UNCHANGED <<page, pins, heating, at, died>>

\* Fault: no worker is started while another is there.
StartOneWorker(k) ==
    /\ Advance(k, "spawning", "started")
    /\ at' = [at EXCEPT ![k] = IF \E w \in Click : Alive(w) THEN "new" ELSE "check"]
    /\ UNCHANGED <<page, pins, isStarted, heating, died>>

StartWorker(k) ==
    /\ Advance(k, "spawning", "started")
    /\ at' = [at EXCEPT ![k] = "check"]
    /\ UNCHANGED <<page, pins, isStarted, heating, died>>

TestForStop(k) ==
    /\ Advance(k, "stop", IF isStarted THEN "stopping" ELSE "stopped")
    /\ UNCHANGED <<page, pins, controller>>

ClearStarted(k) ==
    /\ Advance(k, "stopping", "stopped")
    /\ isStarted' = FALSE
    /\ UNCHANGED <<page, pins, heating, at, died>>

\* success() of a start begins polling, if it has ended.  A timeout that was
\* pending when it ended may still come, and then there are two.
SucceedStart(k) ==
    /\ Advance(k, "started", "done")
    /\ button' = "stop"
    /\ doPoll' = TRUE
    /\ timers' = IF doPoll THEN timers ELSE timers + 1
    /\ UNCHANGED <<pins, controller>>

SucceedStop(k) ==
    /\ Advance(k, "stopped", "done")
    /\ button' = "start"
    /\ doPoll' = FALSE
    /\ UNCHANGED <<timers, pins, controller>>

\* A request or its answer is lost; there is no handler for that.
LoseClick(k) ==
    /\ click[k] \in {"start", "started", "stop", "stopped"}
    /\ click' = [click EXCEPT ![k] = "done"]
    /\ alone' = FALSE
    /\ UNCHANGED <<page, clicks, pins, controller>>

\* The user reloads the page when none of its requests is on its way.
Reload ==
    /\ Quiet
    /\ button' = "start" /\ doPoll' = TRUE /\ timers' = 1
    /\ alone' = FALSE
    /\ UNCHANGED <<clicks, click, pins, controller>>

-----------------------------------------------------------------------------
(* Polling and pins *)

\* Fault: the next timeout is set by the answer's success().
PollWhenAnswered ==
    /\ timers > 0
    /\ timers' \in IF doPoll THEN {timers, timers - 1} ELSE {timers - 1}
    /\ UNCHANGED <<button, doPoll, presses, pins, controller>>

\* poll() sets the next timeout itself, whatever becomes of its request.
Poll ==
    /\ timers > 0
    /\ timers' = IF doPoll THEN timers ELSE timers - 1
    /\ UNCHANGED <<button, doPoll, presses, pins, controller>>

\* on and off write the pin whether or not a worker runs.
SwitchPin(on) ==
    /\ pins < MaxPins /\ pins' = pins + 1
    /\ relay' = on /\ byPin' = TRUE
    /\ UNCHANGED <<page, presses, isStarted, at, died>>

-----------------------------------------------------------------------------
(* _worker and Heater.runCycle *)

Go(k, from, to) ==
    /\ at[k] = from /\ at' = [at EXCEPT ![k] = to]
    /\ UNCHANGED <<page, presses, pins, isStarted>>

\* heatKettle(on)
HeatKettle(on) == relay' = on /\ byPin' = FALSE

\* Fault: the worker goes by what isStarted was when it began.
CheckNothing(k) ==
    /\ Go(k, "check", "read")
    /\ UNCHANGED <<heating, died>>

Check(k) ==
    /\ Go(k, "check", IF isStarted THEN "read" ELSE "ending")
    /\ UNCHANGED <<heating, died>>

\* A cycle with little power: nothing on, switched off, slept.
StayOff(k) ==
    /\ Go(k, "read", "check")
    /\ HeatKettle(FALSE)
    /\ UNCHANGED died

\* The thermocouple gives an error, or pid.run() divides by a dt of zero.
Raise(k) ==
    /\ Go(k, "read", "ending")
    /\ died' = TRUE
    /\ UNCHANGED heating

\* A cycle with more power switches on and sleeps for duty.
SwitchOn(k) ==
    /\ Go(k, "read", "heating")
    /\ HeatKettle(TRUE)
    /\ UNCHANGED died

\* It switches off and sleeps for the rest, or at full power does neither.
SwitchOff(k) ==
    /\ Go(k, "heating", "check")
    /\ HeatKettle(FALSE) \/ UNCHANGED heating
    /\ UNCHANGED died

\* Fault: the worker ends without switching off.
EndOnly(k) ==
    /\ Go(k, "ending", "ended")
    /\ UNCHANGED <<heating, died>>

\* The finally clause.
End(k) ==
    /\ Go(k, "ending", "ended")
    /\ HeatKettle(FALSE)
    /\ UNCHANGED died

-----------------------------------------------------------------------------
Serve(k) ==
    TestForStart(k) \/ SetStarted(k) \/ StartWorker(k) \/ TestForStop(k) \/ ClearStarted(k)

Work(k) ==
    Check(k) \/ Raise(k) \/ StayOff(k) \/ SwitchOn(k) \/ SwitchOff(k) \/ End(k)

Next ==
    \/ ClickStartStop \/ Reload \/ Poll
    \/ \E k \in Click :
         Serve(k) \/ SucceedStart(k) \/ SucceedStop(k) \/ LoseClick(k) \/ Work(k)
    \/ \E on \in BOOLEAN : SwitchPin(on)

Spec == Init /\ [][Next]_vars

\* The interpreter runs the workers, their sleeps end.
FairSpec == Spec /\ \A k \in Click : WF_vars(Work(k))

-----------------------------------------------------------------------------
(* Properties *)

\* However wrong the button was (a reload, a lost answer, clicks that overtook
\* each other), one click that is answered before the next makes it agree with
\* the controller.
ButtonAgrees == Quiet /\ alone => (button = "stop" <=> isStarted)

\* Workers of several starts share the relay: it is on only while one of them
\* will still switch it off, or because a pin button wrote it last.
HeatedByWorker == relay => byPin \/ \E k \in Click : Alive(k)

\* The flag that says started is not left behind by a worker that a stop and a
\* start, or two starts, overtook: unless a worker died, one is running.
StartedHasWorker ==
    isStarted /\ ~died =>
        \E k \in Click : click[k] = "spawning" \/ (Alive(k) /\ at[k] # "ending")

\* A stop ends the workers, unless there is a start.
StopEndsWorkers ==
    \A k \in Click : Alive(k) /\ ~isStarted ~> ~Alive(k) \/ isStarted

\* Polling goes on while the page means it to: a stop lets the pending timeout
\* run out, and a start that comes earlier or later sets one in time.
KeepsPolling == doPoll => timers > 0

=============================================================================
