--------------------------- MODULE InstanceProofs ---------------------------
(***************************************************************************)
(* What Instance guarantees for every capacity, every number of events and *)
(* of runs, and for modules that clear isEvent or do not.                  *)
(***************************************************************************)
EXTENDS Instance, TLAPS

USE EventCapAssumption, ResetsIsEventAssumption, BoundsAssumption

(* What a receive leaves in the channel. *)
LEMMA TailFacts ==
    ASSUME NEW S, NEW q \in Seq(S), q # << >>
    PROVE  /\ Tail(q) \in Seq(S) /\ Len(Tail(q)) = Len(q) - 1 /\ Len(q) >= 1
           /\ Head(q) = q[1] /\ Head(q) \in S
           /\ \A k \in 1 .. Len(Tail(q)) : Tail(q)[k] = q[k + 1] /\ k + 1 \in 1 .. Len(q)
  OBVIOUS

(* What a send adds to it. *)
LEMMA AppendFacts ==
    ASSUME NEW S, NEW q \in Seq(S), NEW e \in S
    PROVE  /\ Append(q, e) \in Seq(S) /\ Len(Append(q, e)) = Len(q) + 1
           /\ Append(q, e)[Len(q) + 1] = e
           /\ \A k \in 1 .. Len(q) : Append(q, e)[k] = q[k]
  OBVIOUS

(* Only a run that is not the last of the bound fails. *)
RunBound == pc \in {"failed", "drain", "show", "click"} => run < MaxRuns

(* Every variable keeps its type, in particular the channel its capacity. *)
THEOREM TypeCorrect == Safe => []TypeOK
<1>1. Init => TypeOK /\ RunBound
  <2> SUFFICES ASSUME Init PROVE TypeOK /\ RunBound
    OBVIOUS
  <2>1. << >> \in Seq(1 .. MaxEvents) /\ Len(<< >>) = 0
    OBVIOUS
  <2>2. 0 <= EventCap /\ 0 \in 0 .. MaxEvents /\ 1 \in 1 .. MaxRuns
    OBVIOUS
  <2>3. QED
    BY <2>1, <2>2 DEF Init, TypeOK, RunBound, InRun
<1>2. RunBound /\ [Next]_vars => RunBound'
  <2> SUFFICES ASSUME RunBound, [Next]_vars PROVE RunBound'
    OBVIOUS
  <2>1. CASE UNCHANGED <<pc, run>>
    BY <2>1 DEF RunBound
  <2>2. CASE RunStep \/ WakeTick \/ Fail \/ End \/ Supervise
    BY <2>2 DEF RunBound, RunStep, Supervise, RunTick, Load, Sample, WakeTick, WakeStopped,
       WakeEvent, Fail, End, StopTickers, DrainEvent, Drained, ShowError, Restart
  <2>3. QED
    BY <2>1, <2>2 DEF Next, SendEvent, SendStoppedNotify, SendStoppedStore, Forget, vars
<1>3. TypeOK /\ RunBound /\ [Next]_vars => TypeOK'
  <2> SUFFICES ASSUME TypeOK, RunBound, [Next]_vars PROVE TypeOK'
    OBVIOUS
  <2> USE DEF TypeOK
  <2>1. ASSUME SendEvent PROVE TypeOK'
    <3>1. sent' \in 1 .. MaxEvents
      BY <2>1 DEF SendEvent
    <3>2. /\ Append(eventCh, sent') \in Seq(1 .. MaxEvents)
          /\ Len(Append(eventCh, sent')) = Len(eventCh) + 1
      BY <3>1, AppendFacts
    <3>3. eventCh' \in Seq(1 .. MaxEvents) /\ Len(eventCh') <= EventCap
      <4>1. CASE Len(eventCh) < EventCap
        <5>1. eventCh' = Append(eventCh, sent')
          BY <2>1, <4>1 DEF SendEvent
        <5>2. Len(eventCh) + 1 <= EventCap
          BY <4>1
        <5>3. QED
          BY <3>2, <5>1, <5>2
      <4>2. CASE ~(Len(eventCh) < EventCap)
        BY <2>1, <4>2 DEF SendEvent
      <4>3. QED
        BY <4>1, <4>2
    <3>4. QED
      BY <2>1, <3>1, <3>3 DEF SendEvent, stopVars, modVars, tickVars
  <2>2. ASSUME Receive \/ DrainEvent
        PROVE  /\ eventCh' \in Seq(1 .. MaxEvents) /\ Len(eventCh') <= EventCap
               /\ Receive => handled' \in 0 .. MaxEvents
    <3>1. eventCh # << >> /\ eventCh' = Tail(eventCh)
      BY <2>2 DEF Receive, DrainEvent
    <3>2. /\ Tail(eventCh) \in Seq(1 .. MaxEvents) /\ Len(Tail(eventCh)) = Len(eventCh) - 1
          /\ Head(eventCh) \in 1 .. MaxEvents
      BY <3>1, TailFacts
    <3>3. QED
      BY <3>1, <3>2 DEF Receive
  <2>3. ASSUME WakeEvent PROVE TypeOK'
    BY <2>2, <2>3 DEF WakeEvent, InRun, stopVars, tickVars
  <2>4. ASSUME Restart PROVE TypeOK'
    <3>1. run < MaxRuns
      BY <2>4 DEF Restart, RunBound
    <3>2. QED
      BY <2>2, <2>4, <3>1 DEF Restart, InRun, stopVars, modVars, tickVars
  <2>5. ASSUME DrainEvent PROVE TypeOK'
    BY <2>2, <2>5 DEF DrainEvent, stopVars, modVars, tickVars
  <2>6. ASSUME SendStoppedNotify \/ \E v \in BOOLEAN : SendStoppedStore(v) PROVE TypeOK'
    BY <2>6 DEF SendStoppedNotify, SendStoppedStore, evVars, modVars, tickVars
  <2>7. ASSUME (\E k \in 1 .. MaxRuns : Forget(k)) \/ StopTickers PROVE TypeOK'
    <3>1. tickers' \subseteq 1 .. MaxRuns /\ closed' \subseteq 1 .. MaxRuns
      BY <2>7 DEF Forget, StopTickers
    <3>2. QED
      BY <2>7, <3>1 DEF Forget, StopTickers, evVars, stopVars, modVars
  <2>8. ASSUME RunTick \/ Load \/ Sample \/ WakeStopped \/ WakeTick PROVE TypeOK'
    <3>1. CASE RunTick
      <4>1. tickers' \subseteq 1 .. MaxRuns /\ isEvent' \in BOOLEAN
        BY <3>1 DEF RunTick
      <4>2. QED
        BY <3>1, <4>1 DEF RunTick, InRun, evVars, stopVars
    <3>2. CASE Sample
      <4>1. isEvent' \in BOOLEAN /\ shown' \in {"nothing", "module", "fatal"}
        BY <3>2 DEF Sample
      <4>2. QED
        BY <3>2, <4>1 DEF Sample, InRun, evVars, stopVars, tickVars
    <3>3. CASE Load
      BY <3>3 DEF Load, InRun, evVars, stopVars, tickVars
    <3>4. CASE WakeStopped \/ WakeTick
      BY <3>4 DEF WakeStopped, WakeTick, InRun, evVars, stopVars, tickVars
    <3>5. QED
      BY <2>8, <3>1, <3>2, <3>3, <3>4
  <2>9. ASSUME Fail \/ End \/ Drained \/ ShowError PROVE TypeOK'
    BY <2>9 DEF Fail, End, Drained, ShowError, evVars, stopVars, modVars, tickVars
  <2>10. ASSUME UNCHANGED vars PROVE TypeOK'
    BY <2>10 DEF vars, evVars, stopVars, modVars, tickVars
  <2>11. QED
    BY <2>1, <2>3, <2>4, <2>5, <2>6, <2>7, <2>8, <2>9, <2>10 DEF Next, RunStep, Supervise
<1>4. QED
  BY <1>1, <1>2, <1>3, PTL DEF Safe

-----------------------------------------------------------------------------
(* The notification is sent after the store, so it is pending or on its way
   whenever a select may be sleeping on an outdated flag.  While the loop has
   not entered its select, what it read is as good as the flag, or the same
   holds. *)
StopInv ==
    pc \in {"sample", "select"} /\ seen # stopped => stoppedCh \/ signal = "stored"

(* No stop and no continue is lost on a module that keeps selecting. *)
THEOREM NoStopLost == Safe => []NoStopIsLost
<1>1. Init => StopInv
  BY DEF Init, StopInv
<1>2. TypeOK /\ StopInv /\ [Next]_vars => StopInv'
  <2> SUFFICES ASSUME TypeOK, StopInv, [Next]_vars PROVE StopInv'
    OBVIOUS
  <2>1. CASE UNCHANGED <<seen, stopVars>> /\ (pc' = pc \/ pc' \notin {"sample", "select"})
    BY <2>1 DEF StopInv, stopVars
  <2>2. ASSUME NEW v \in BOOLEAN, SendStoppedStore(v) PROVE StopInv'
    BY <2>2 DEF SendStoppedStore, StopInv
  <2>3. CASE SendStoppedNotify
    BY <2>3 DEF SendStoppedNotify, StopInv
  <2>4. CASE Load
    BY <2>4 DEF Load, StopInv, stopVars
  <2>5. CASE Sample
    BY <2>5 DEF Sample, StopInv, stopVars
  <2>6. CASE WakeStopped
    BY <2>6 DEF WakeStopped, StopInv
  <2>7. CASE RunTick \/ WakeTick \/ WakeEvent \/ Fail \/ End
    BY <2>1, <2>7 DEF RunTick, WakeTick, WakeEvent, Fail, End, modVars
  <2>8. CASE Supervise \/ SendEvent \/ \E k \in 1 .. MaxRuns : Forget(k)
    BY <2>1, <2>8 DEF Supervise, StopTickers, DrainEvent, Drained, ShowError, Restart,
       SendEvent, Forget, modVars
  <2>9. CASE UNCHANGED vars
    BY <2>1, <2>9 DEF vars, modVars
  <2>10. QED
    BY <2>2, <2>3, <2>4, <2>5, <2>6, <2>7, <2>8, <2>9 DEF Next, RunStep
<1>3. StopInv => NoStopIsLost
  BY DEF StopInv, NoStopIsLost
<1>4. QED
  BY <1>1, <1>2, <1>3, TypeCorrect, PTL DEF Safe

-----------------------------------------------------------------------------
(* The history of the events: they are received and sent in order, and the
   last failure lies within it. *)
EventInv ==
    /\ handled <= sent /\ failedAt <= sent
    /\ EventsInOrder /\ NoStaleEvents

LEMMA SendKeepsEvents ==
    ASSUME TypeOK, EventInv, SendEvent
    PROVE  EventInv'
<1>1. /\ sent' = sent + 1 /\ sent \in Nat /\ sent' \in 1 .. MaxEvents
      /\ UNCHANGED <<pc, handled, failedAt>>
  BY DEF SendEvent, TypeOK
<1>2. handled \in Int /\ failedAt \in Int
  BY DEF TypeOK
<1>3. \A k \in 1 .. Len(eventCh) : eventCh[k] \in Int
  BY DEF TypeOK
<1>4. CASE Len(eventCh) < EventCap
  <2>1. eventCh' = Append(eventCh, sent') /\ eventCh \in Seq(1 .. MaxEvents)
    BY <1>4 DEF SendEvent, TypeOK
  <2>2. /\ Len(eventCh') = Len(eventCh) + 1 /\ eventCh'[Len(eventCh) + 1] = sent'
        /\ \A k \in 1 .. Len(eventCh) : eventCh'[k] = eventCh[k]
        /\ Len(eventCh) \in Nat
    BY <1>1, <2>1, AppendFacts
  <2>3. EventsInOrder'
    <3> SUFFICES ASSUME NEW k \in 1 .. Len(eventCh) + 1
                 PROVE  /\ handled < eventCh'[k] /\ eventCh'[k] <= sent'
                        /\ \A j \in 1 .. k - 1 : eventCh'[j] < eventCh'[k]
      BY <1>1, <2>2 DEF EventsInOrder
    <3>1. CASE k = Len(eventCh) + 1
      <4>1. eventCh'[k] = sent + 1 /\ handled <= sent
        BY <1>1, <2>2, <3>1 DEF EventInv
      <4>2. \A j \in 1 .. k - 1 : eventCh'[j] = eventCh[j] /\ eventCh[j] <= sent /\ eventCh[j] \in Int
        BY <1>3, <2>2, <3>1 DEF EventInv, EventsInOrder
      <4>3. QED
        BY <1>1, <1>2, <4>1, <4>2
    <3>2. CASE k # Len(eventCh) + 1
      <4>1. k \in 1 .. Len(eventCh) /\ \A j \in 1 .. k - 1 : j \in 1 .. Len(eventCh)
        BY <2>2, <3>2
      <4>2. handled < eventCh[k] /\ eventCh[k] <= sent /\ \A j \in 1 .. k - 1 : eventCh[j] < eventCh[k]
        BY <4>1 DEF EventInv, EventsInOrder
      <4>3. QED
        BY <1>1, <1>3, <2>2, <4>1, <4>2
    <3>3. QED
      BY <3>1, <3>2
  <2>4. NoStaleEvents'
    <3> SUFFICES ASSUME pc \notin {"failed", "drain"}, NEW k \in 1 .. Len(eventCh) + 1
                 PROVE  eventCh'[k] > failedAt
      BY <1>1, <2>2 DEF NoStaleEvents
    <3>1. CASE k = Len(eventCh) + 1
      BY <1>1, <1>2, <2>2, <3>1 DEF EventInv
    <3>2. CASE k # Len(eventCh) + 1
      <4>1. k \in 1 .. Len(eventCh)
        BY <2>2, <3>2
      <4>2. QED
        BY <2>2, <4>1 DEF EventInv, NoStaleEvents
    <3>3. QED
      BY <3>1, <3>2
  <2>5. QED
    BY <1>1, <1>2, <2>3, <2>4 DEF EventInv
<1>5. CASE ~(Len(eventCh) < EventCap)
  <2>1. eventCh' = eventCh
    BY <1>5 DEF SendEvent
  <2>2. QED
    BY <1>1, <1>2, <1>3, <2>1 DEF EventInv, EventsInOrder, NoStaleEvents
<1>6. QED
  BY <1>4, <1>5

(* Taking the head, to handle it or to drain it, keeps the order. *)
LEMMA TakeKeepsEvents ==
    ASSUME TypeOK, EventInv, eventCh # << >>, eventCh' = Tail(eventCh),
           handled' = Head(eventCh) \/ handled' = handled,
           UNCHANGED <<sent, failedAt>>,
           pc' \in {"failed", "drain"} <=> pc \in {"failed", "drain"}
    PROVE  EventInv'
<1> DEFINE q == eventCh
<1>1. /\ Len(q') = Len(q) - 1 /\ Len(q) >= 1 /\ Len(q) \in Nat /\ Head(q) = q[1]
      /\ \A k \in 1 .. Len(q') : q'[k] = q[k + 1] /\ k + 1 \in 1 .. Len(q)
  <2>1. q \in Seq(1 .. MaxEvents)
    BY DEF TypeOK
  <2>2. QED
    BY <2>1, TailFacts
<1>2. \A k \in 1 .. Len(q) : q[k] \in Int
  BY DEF TypeOK
<1>3. handled \in Int /\ sent \in Int /\ 1 \in 1 .. Len(q)
  BY <1>1 DEF TypeOK
<1>4. handled < q[1] /\ q[1] <= sent
  BY <1>3 DEF EventInv, EventsInOrder
<1>5. \A k \in 1 .. Len(q) : q[k] <= sent /\ \A j \in 1 .. k - 1 : q[j] < q[k]
  BY DEF EventInv, EventsInOrder
<1>6. handled' <= sent
  BY <1>1, <1>4 DEF EventInv
<1>7. EventsInOrder'
  <2> SUFFICES ASSUME NEW k \in 1 .. Len(q')
               PROVE  /\ handled' < q'[k] /\ q'[k] <= sent
                      /\ \A j \in 1 .. k - 1 : q'[j] < q'[k]
    BY DEF EventsInOrder
  <2>1. q'[k] = q[k + 1] /\ k + 1 \in 1 .. Len(q) /\ q[k + 1] \in Int
    BY <1>1, <1>2
  <2>2. 1 \in 1 .. (k + 1) - 1
    BY <1>1
  <2>3. q[1] < q[k + 1]
    BY <1>5, <2>1, <2>2
  <2>4. handled' < q[k + 1]
    BY <1>1, <1>2, <1>3, <1>4, <2>1, <2>3
  <2>5. \A j \in 1 .. k - 1 : q'[j] = q[j + 1] /\ j + 1 \in 1 .. (k + 1) - 1
    BY <1>1
  <2>6. \A j \in 1 .. k - 1 : q'[j] < q'[k]
    BY <1>5, <2>1, <2>5
  <2>7. QED
    BY <1>5, <2>1, <2>4, <2>6
<1>8. NoStaleEvents'
  BY <1>1 DEF EventInv, NoStaleEvents
<1>9. QED
  BY <1>6, <1>7, <1>8 DEF EventInv

LEMMA EventStep == TypeOK /\ EventInv /\ [Next]_vars => EventInv'
<1> SUFFICES ASSUME TypeOK, EventInv, [Next]_vars PROVE EventInv'
  OBVIOUS
<1>1. CASE SendEvent
  BY <1>1, SendKeepsEvents
<1>2. CASE WakeEvent
  BY <1>2, TakeKeepsEvents DEF WakeEvent, Receive
<1>3. CASE Restart
  BY <1>3, TakeKeepsEvents DEF Restart, Receive
<1>4. CASE DrainEvent
  BY <1>4, TakeKeepsEvents DEF DrainEvent
<1>5. CASE Drained
  <2>1. eventCh' = << >> /\ UNCHANGED <<sent, failedAt, handled>>
    BY <1>5 DEF Drained, evVars
  <2>2. 1 .. Len(<< >>) = {}
    OBVIOUS
  <2>3. QED
    BY <2>1, <2>2, Zenon DEF EventInv, EventsInOrder, NoStaleEvents
<1>6. CASE Fail
  BY <1>6 DEF Fail, evVars, EventInv, EventsInOrder, NoStaleEvents, TypeOK
<1>7. ASSUME UNCHANGED <<evVars, failedAt, handled>>,
             pc \in {"failed", "drain"} => pc' \in {"failed", "drain"}
      PROVE  EventInv'
  BY <1>7 DEF evVars, EventInv, EventsInOrder, NoStaleEvents
<1>8. CASE RunTick \/ Load \/ Sample \/ WakeTick \/ WakeStopped \/ End \/ StopTickers \/ ShowError
  BY <1>7, <1>8 DEF RunTick, Load, Sample, WakeTick, WakeStopped, End, StopTickers, ShowError, InRun
<1>9. CASE \/ SendStoppedNotify \/ \E v \in BOOLEAN : SendStoppedStore(v)
           \/ \E k \in 1 .. MaxRuns : Forget(k)
           \/ UNCHANGED vars
  BY <1>7, <1>9 DEF SendStoppedNotify, SendStoppedStore, Forget, vars
<1>10. QED
  BY <1>1, <1>2, <1>3, <1>4, <1>5, <1>6, <1>8, <1>9 DEF Next, RunStep, Supervise

LEMMA EventInvariant == Safe => []EventInv
<1>1. Init => EventInv
  <2>1. 1 .. Len(<< >>) = {}
    OBVIOUS
  <2>2. Init => EventsInOrder /\ NoStaleEvents
    BY <2>1, Zenon DEF Init, EventsInOrder, NoStaleEvents
  <2>3. QED
    BY <2>2 DEF Init, EventInv
<1>2. QED
  BY <1>1, TypeCorrect, EventStep, PTL DEF Safe

(* No click sent before a failure dismisses the error or reaches a later run. *)
THEOREM NoStaleEvent == Safe => []NoStaleEvents
<1>1. EventInv => NoStaleEvents
  BY DEF EventInv
<1>2. QED
  BY <1>1, EventInvariant, PTL

(* Events are received in order and at most once, across restarts. *)
THEOREM EventsAreInOrder == Safe => []EventsInOrder
<1>1. EventInv => EventsInOrder
  BY DEF EventInv
<1>2. QED
  BY <1>1, EventInvariant, PTL

-----------------------------------------------------------------------------
(* A module that clears isEvent enters its select with it clear, so a tick
   finds it clear. *)
ClearInv ==
    /\ pc = "select" => ~isEvent
    /\ pc \in {"top", "sample"} /\ cause = "tick" => ~isEvent

(* In a module that clears isEvent before it selects, whatever it was clicked
   on before, an update that follows a tick is never an immediate one. *)
THEOREM TicksAreCoalesced ==
    ASSUME ResetsIsEvent
    PROVE  Safe => []TicksCoalesce
<1>1. Init => ClearInv
  BY DEF Init, ClearInv
<1>2. TypeOK /\ ClearInv /\ [Next]_vars => ClearInv'
  <2> SUFFICES ASSUME TypeOK, ClearInv, [Next]_vars PROVE ClearInv'
    OBVIOUS
  <2>1. CASE UNCHANGED <<isEvent, cause>>
             /\ (pc' = pc \/ pc' \notin {"top", "sample", "select"})
    BY <2>1 DEF ClearInv
  <2>2. CASE RunTick
    BY <2>2 DEF RunTick, ClearInv
  <2>3. CASE Load
    BY <2>3 DEF Load, ClearInv
  <2>4. CASE Sample
    BY <2>4 DEF Sample, ClearInv
  <2>5. CASE WakeTick \/ WakeStopped
    BY <2>5 DEF WakeTick, WakeStopped, ClearInv
  <2>6. CASE WakeEvent
    BY <2>6 DEF WakeEvent, ClearInv, TypeOK
  <2>7. CASE Fail \/ End \/ Supervise
    BY <2>1, <2>7 DEF Fail, End, Supervise, StopTickers, DrainEvent, Drained, ShowError,
       Restart, modVars
  <2>8. CASE \/ SendEvent \/ SendStoppedNotify \/ \E v \in BOOLEAN : SendStoppedStore(v)
             \/ \E k \in 1 .. MaxRuns : Forget(k)
             \/ UNCHANGED vars
    BY <2>1, <2>8 DEF SendEvent, SendStoppedNotify, SendStoppedStore, Forget, vars, modVars
  <2>9. QED
    BY <2>2, <2>3, <2>4, <2>5, <2>6, <2>7, <2>8 DEF Next, RunStep
<1>3. ClearInv => TicksCoalesce
  BY DEF ClearInv, TicksCoalesce
<1>4. QED
  BY <1>1, <1>2, <1>3, TypeCorrect, PTL DEF Safe

=============================================================================
