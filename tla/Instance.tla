------------------------------ MODULE Instance ------------------------------
(***************************************************************************)
(* One instance of barlib.go: the goroutine of instantiate that runs the   *)
(* module, drains, reports and restarts it after an error, while the stdin *)
(* reader sends it events, the signal goroutine sends it stop              *)
(* notifications, and the tick divider forgets the sub-tickers of the runs *)
(* that have failed.                                                       *)
(*                                                                         *)
(* Run itself is the loop every polling module of i3status-custom is built *)
(* as: read IsStopped, sample and Update unless stopped, then select over  *)
(* the ticker, Stopped and Event.  A run may fail or panic wherever it is. *)
(***************************************************************************)
EXTENDS Integers, Sequences

CONSTANTS
    EventCap,       \* the capacity of eventCh, 16 in the code
    ResetsIsEvent,  \* whether the module clears isEvent before it selects
    MaxEvents,      \* bound: events the bar sends
    MaxRuns         \* bound: calls of Run

ASSUME EventCapAssumption == EventCap \in Nat \ {0}
ASSUME ResetsIsEventAssumption == ResetsIsEvent \in BOOLEAN
ASSUME BoundsAssumption == MaxEvents \in Nat /\ MaxRuns \in Nat \ {0}

VARIABLES
    pc,             \* where the goroutine of instantiate is
    run,            \* the call of Run it is in, counted from 1
    eventCh,        \* the events in the channel, each an identity
    sent,           \* events sent so far; identities grow
    stopped,        \* the atomic flag
    stoppedCh,      \* whether stoppedCh holds a notification
    signal,         \* where the signal goroutine is inside SendStopped
    seen,           \* what the loop of Run read from IsStopped
    isEvent,        \* its local isEvent, which it passes to Update
    cause,          \* history: what woke its select last
    shown,          \* what the last Update rendered
    tickers,        \* the runs with sub-tickers in the tick divider
    closed,         \* the runs whose tickersCh is closed
    failedAt,       \* history: sent at the last failure
    handled         \* history: the event received last

evVars == <<eventCh, sent>>
stopVars == <<stopped, stoppedCh, signal>>
modVars == <<seen, isEvent, cause>>
tickVars == <<tickers, closed>>
vars == <<pc, run, evVars, stopVars, modVars, shown, tickVars, failedAt, handled>>

InRun == {"start", "top", "sample", "select"}

TypeOK ==
    /\ pc \in InRun \cup {"failed", "drain", "show", "click", "ended"}
    /\ run \in 1 .. MaxRuns
    /\ eventCh \in Seq(1 .. MaxEvents) /\ Len(eventCh) <= EventCap
    /\ sent \in 0 .. MaxEvents
    /\ stopped \in BOOLEAN /\ stoppedCh \in BOOLEAN
    /\ signal \in {"idle", "stored"}
    /\ seen \in BOOLEAN /\ isEvent \in BOOLEAN
    /\ cause \in {"start", "tick", "stop", "event"}
    /\ shown \in {"nothing", "module", "fatal"}
    /\ tickers \subseteq 1 .. MaxRuns /\ closed \subseteq 1 .. MaxRuns
    /\ failedAt \in 0 .. MaxEvents /\ handled \in 0 .. MaxEvents

Init ==
    /\ pc = "start" /\ run = 1
    /\ eventCh = << >> /\ sent = 0
    /\ stopped = FALSE /\ stoppedCh = FALSE /\ signal = "idle"
    /\ seen = FALSE /\ isEvent = FALSE /\ cause = "start"
    /\ shown = "nothing"
    /\ tickers = {} /\ closed = {}
    /\ failedAt = 0 /\ handled = 0

-----------------------------------------------------------------------------
(* Mutant: an event is queued beyond the capacity. *)
SendEventUnbounded ==
    /\ sent < MaxEvents
    /\ sent' = sent + 1
    /\ eventCh' = Append(eventCh, sent')
    /\ UNCHANGED <<pc, run, stopVars, modVars, shown, tickVars, failedAt, handled>>

(* SendEvent, called by the stdin reader: dropped when the channel is full. *)
SendEvent ==
    /\ sent < MaxEvents
    /\ sent' = sent + 1
    /\ eventCh' = IF Len(eventCh) < EventCap THEN Append(eventCh, sent') ELSE eventCh
    /\ UNCHANGED <<pc, run, stopVars, modVars, shown, tickVars, failedAt, handled>>

(* SendStopped, called by the signal goroutine: the flag is stored ... *)
SendStoppedStore(v) ==
    /\ signal = "idle"
    /\ stopped' = v
    /\ signal' = "stored"
    /\ UNCHANGED <<pc, run, evVars, stoppedCh, modVars, shown, tickVars, failedAt, handled>>

(* Mutant: only a stop is notified. *)
NotifyStopOnly ==
    /\ signal = "stored"
    /\ stoppedCh' = (stoppedCh \/ stopped)
    /\ signal' = "idle"
    /\ UNCHANGED <<pc, run, evVars, stopped, modVars, shown, tickVars, failedAt, handled>>

(* ... and then the notification is sent, or dropped if one is pending. *)
SendStoppedNotify ==
    /\ signal = "stored"
    /\ stoppedCh' = TRUE
    /\ signal' = "idle"
    /\ UNCHANGED <<pc, run, evVars, stopped, modVars, shown, tickVars, failedAt, handled>>

(* The watch goroutine of the tick divider forgets a run's sub-tickers. *)
Forget(k) ==
    /\ k \in tickers \cap closed
    /\ tickers' = tickers \ {k}
    /\ UNCHANGED <<pc, run, evVars, stopVars, modVars, shown, closed, failedAt, handled>>

-----------------------------------------------------------------------------
(* The loop of Run.                                                        *)

(* Run creates its sub-ticker, on the tickersCh of this run. *)
RunTick ==
    /\ pc = "start"
    /\ tickers' = tickers \cup {run}
    /\ isEvent' = FALSE /\ cause' = "start"
    /\ pc' = "top"
    /\ UNCHANGED <<run, evVars, stopVars, seen, shown, closed, failedAt, handled>>

(* IsStopped(). *)
Load ==
    /\ pc = "top"
    /\ seen' = stopped
    /\ pc' = "sample"
    /\ UNCHANGED <<run, evVars, stopVars, isEvent, cause, shown, tickVars, failedAt, handled>>

(* Mutant: isEvent is never cleared. *)
SampleSticky ==
    /\ pc = "sample"
    /\ shown' = IF seen THEN shown ELSE "module"
    /\ pc' = "select"
    /\ UNCHANGED <<run, evVars, stopVars, seen, isEvent, cause, tickVars, failedAt, handled>>

(* Unless stopped, sample and Update(isEvent, ...); then enter the select. *)
Sample ==
    /\ pc = "sample"
    /\ shown' = IF seen THEN shown ELSE "module"
    /\ isEvent' = IF ResetsIsEvent THEN FALSE ELSE isEvent
    /\ pc' = "select"
    /\ UNCHANGED <<run, evVars, stopVars, seen, cause, tickVars, failedAt, handled>>

(* The select receives a tick of the run's own sub-ticker. *)
WakeTick ==
    /\ pc = "select" /\ run \in tickers
    /\ cause' = "tick"
    /\ pc' = "top"
    /\ UNCHANGED <<run, evVars, stopVars, seen, isEvent, shown, tickVars, failedAt, handled>>

(* Mutant: IsStopped is not read again after a notification. *)
WakeStoppedStale ==
    /\ pc = "select" /\ stoppedCh
    /\ stoppedCh' = FALSE
    /\ cause' = "stop"
    /\ pc' = "sample"
    /\ UNCHANGED <<run, evVars, stopped, signal, seen, isEvent, shown, tickVars, failedAt, handled>>

(* The select receives a stop notification. *)
WakeStopped ==
    /\ pc = "select" /\ stoppedCh
    /\ stoppedCh' = FALSE
    /\ cause' = "stop"
    /\ pc' = "top"
    /\ UNCHANGED <<run, evVars, stopped, signal, seen, isEvent, shown, tickVars, failedAt, handled>>

(* The head of eventCh is received. *)
Receive ==
    /\ eventCh # << >>
    /\ eventCh' = Tail(eventCh)
    /\ handled' = Head(eventCh)

(* The select receives an event: a left click sets isEvent, another button
   the module knows only wakes it, the rest leaves it in the select. *)
WakeEvent ==
    /\ pc = "select"
    /\ Receive
    /\ \/ isEvent' = TRUE /\ cause' = "event" /\ pc' = "top"
       \/ cause' = "event" /\ pc' = "top" /\ UNCHANGED isEvent
       \/ UNCHANGED <<isEvent, cause, pc>>
    /\ UNCHANGED <<run, sent, stopVars, seen, shown, tickVars, failedAt>>

-----------------------------------------------------------------------------
(* The loop of instantiate around Run.                                     *)

(* Run returns an error or panics. *)
Fail ==
    /\ pc \in InRun
    /\ run < MaxRuns
    /\ failedAt' = sent
    /\ pc' = "failed"
    /\ UNCHANGED <<run, evVars, stopVars, modVars, shown, tickVars, handled>>

(* Run returns nil: the goroutine ends and the module stays as it is. *)
End ==
    /\ pc \in InRun
    /\ pc' = "ended"
    /\ UNCHANGED <<run, evVars, stopVars, modVars, shown, tickVars, failedAt, handled>>

(* Mutant: tickersCh is replaced but not closed. *)
StopTickersOpen ==
    /\ pc = "failed"
    /\ pc' = "drain"
    /\ UNCHANGED <<run, evVars, stopVars, modVars, shown, tickVars, failedAt, handled>>

(* close(tickersCh), and a new one for the next run. *)
StopTickers ==
    /\ pc = "failed"
    /\ closed' = closed \cup {run}
    /\ pc' = "drain"
    /\ UNCHANGED <<run, evVars, stopVars, modVars, shown, tickers, failedAt, handled>>

(* The drain loop receives an event and starts over. *)
DrainEvent ==
    /\ pc = "drain"
    /\ eventCh # << >>
    /\ eventCh' = Tail(eventCh)
    /\ UNCHANGED <<pc, run, sent, stopVars, modVars, shown, tickVars, failedAt, handled>>

(* Mutant: the drain loop ends after any receive. *)
DrainedEarly ==
    /\ pc = "drain"
    /\ pc' = "show"
    /\ UNCHANGED <<run, evVars, stopVars, modVars, shown, tickVars, failedAt, handled>>

(* The drain loop finds the channel empty. *)
Drained ==
    /\ pc = "drain"
    /\ eventCh = << >>
    /\ pc' = "show"
    /\ UNCHANGED <<run, evVars, stopVars, modVars, shown, tickVars, failedAt, handled>>

(* Mutant: nothing is shown while the bar is stopped. *)
ShowErrorUnlessStopped ==
    /\ pc = "show"
    /\ shown' = IF stopped THEN shown ELSE "fatal"
    /\ pc' = "click"
    /\ UNCHANGED <<run, evVars, stopVars, modVars, tickVars, failedAt, handled>>

(* Update(true, ...) shows the error. *)
ShowError ==
    /\ pc = "show"
    /\ shown' = "fatal"
    /\ pc' = "click"
    /\ UNCHANGED <<run, evVars, stopVars, modVars, tickVars, failedAt, handled>>

(* Mutant: the click that restarts the module stays in the channel. *)
RestartPeek ==
    /\ pc = "click"
    /\ eventCh # << >>
    /\ handled' = Head(eventCh)
    /\ run' = run + 1
    /\ pc' = "start"
    /\ UNCHANGED <<evVars, stopVars, modVars, shown, tickVars, failedAt>>

(* A click restarts the module. *)
Restart ==
    /\ pc = "click"
    /\ Receive
    /\ run' = run + 1
    /\ pc' = "start"
    /\ UNCHANGED <<sent, stopVars, modVars, shown, tickVars, failedAt>>

RunStep == RunTick \/ Load \/ Sample \/ WakeStopped \/ WakeEvent

Supervise == StopTickers \/ DrainEvent \/ Drained \/ ShowError \/ Restart

Next ==
    \/ SendEvent \/ SendStoppedNotify
    \/ \E v \in BOOLEAN : SendStoppedStore(v)
    \/ \E k \in 1 .. MaxRuns : Forget(k)
    \/ RunStep \/ WakeTick \/ Fail \/ End
    \/ Supervise

Safe == Init /\ [][Next]_vars

(* Every goroutine that can run is scheduled.  No tick and no event is
   required to come, and neither is a failure. *)
Spec ==
    /\ Safe
    /\ WF_vars(RunStep) /\ WF_vars(Supervise)
    /\ WF_vars(SendStoppedNotify)
    /\ \A k \in 1 .. MaxRuns : WF_vars(Forget(k))

-----------------------------------------------------------------------------
(* Clicks meant for a run that has failed never reach the next one, nor do
   they dismiss the error: once the drain is over, only events sent after the
   failure are left, through the restart and the run that follows. *)
NoStaleEvents ==
    pc \notin {"failed", "drain"} =>
        \A k \in 1 .. Len(eventCh) : eventCh[k] > failedAt

(* Events are received in the order the bar sent them, none of them twice,
   across restarts and however many are dropped. *)
EventsInOrder ==
    \A k \in 1 .. Len(eventCh) :
        /\ handled < eventCh[k] /\ eventCh[k] <= sent
        /\ \A j \in 1 .. k - 1 : eventCh[j] < eventCh[k]

(* A module never sleeps on an outdated IsStopped: while its select waits and
   the flag differs from what the loop read, a notification is pending or on
   its way.  One slot is enough because it is sent after the store. *)
NoStopIsLost ==
    pc = "select" /\ seen # stopped => stoppedCh \/ signal = "stored"

(* Only what the user did is drawn immediately: an update that follows a tick
   leaves the bar its delay to coalesce draws. *)
TicksCoalesce ==
    pc = "sample" /\ ~seen /\ cause = "tick" => ~isEvent

(* When the bar stays stopped or stays running, a module that keeps running
   comes to know. *)
StopIsSeen ==
    \A v \in BOOLEAN :
        <>[](stopped = v /\ pc \in InRun) => <>[](seen = v)

(* A module that fails is reported. *)
FailureIsShown == pc = "failed" ~> pc = "click" /\ shown = "fatal"

(* The sub-tickers of a failed run are forgotten. *)
TickersAreForgotten ==
    \A k \in 1 .. MaxRuns :
        (k \in tickers /\ k < run) ~> k \notin tickers

(* What the goroutine of instantiate owes a module: it tells it of stops, shows
   its failure, and clears up after it. *)
IsServed == StopIsSeen /\ FailureIsShown /\ TickersAreForgotten
=============================================================================
