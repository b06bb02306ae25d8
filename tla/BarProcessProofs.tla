-------------------------- MODULE BarProcessProofs --------------------------
(***************************************************************************)
(* What BarProcess guarantees for any capacity of sigCh and any number of  *)
(* restarts.                                                               *)
(***************************************************************************)
EXTENDS BarProcess, TLAPS

USE SigCapAssumption, MaxImagesAssumption

(* A restart is only ever on its way while the image is past its header and
   another image may follow. *)
RestartBound ==
    watcher = "sleep" => main # "start" /\ image < MaxImages

(* The header is written in the first image and in no other. *)
HeaderInv ==
    /\ main = "start" /\ ~marked => headers = 0 /\ out = "nothing"
    /\ main # "start" \/ marked => headers = 1 /\ out # "nothing"

(* Unless a line was cut short, the bar's parser is where Main thinks it is. *)
StreamInv ==
    ~cut => /\ main = "line" => out = "line"
            /\ main = "loop" => out = "array"
            /\ main = "start" /\ marked => out = "array"

(* A last signal that was not lost is alone in the runtime, or last in the
   channel, or what the flag says. *)
SignalInv ==
    ~lost => /\ raised # {} => raised = {barStopped}
             /\ raised = {} /\ sigCh # << >> => sigCh[Len(sigCh)] = barStopped
             /\ raised = {} /\ sigCh = << >> => stopped = barStopped

IInv == TypeOK /\ RestartBound /\ HeaderInv /\ StreamInv /\ SignalInv

LEMMA QueueFacts ==
    ASSUME NEW q \in Seq(BOOLEAN)
    PROVE  /\ Len(q) \in Nat
           /\ \A v \in BOOLEAN : /\ Append(q, v) \in Seq(BOOLEAN)
                                 /\ Len(Append(q, v)) = Len(q) + 1
                                 /\ Append(q, v)[Len(q) + 1] = v
           /\ q # << >> => /\ Head(q) \in BOOLEAN
                           /\ Tail(q) \in Seq(BOOLEAN)
                           /\ Len(Tail(q)) = Len(q) - 1
                           /\ Tail(q) = << >> => Head(q) = q[Len(q)]
                           /\ Tail(q) # << >> => Tail(q)[Len(Tail(q))] = q[Len(q)]
<1>1. Len(q) \in Nat
  OBVIOUS
<1>2. ASSUME NEW v \in BOOLEAN
      PROVE  /\ Append(q, v) \in Seq(BOOLEAN)
             /\ Len(Append(q, v)) = Len(q) + 1
             /\ Append(q, v)[Len(q) + 1] = v
  OBVIOUS
<1>3. ASSUME q # << >>
      PROVE  /\ Head(q) \in BOOLEAN /\ Tail(q) \in Seq(BOOLEAN)
             /\ Len(Tail(q)) = Len(q) - 1
             /\ Tail(q) = << >> => Head(q) = q[Len(q)]
             /\ Tail(q) # << >> => Tail(q)[Len(Tail(q))] = q[Len(q)]
  <2>1. Head(q) \in BOOLEAN /\ Tail(q) \in Seq(BOOLEAN) /\ Len(Tail(q)) = Len(q) - 1
    BY <1>3
  <2>2. Head(q) = q[1] /\ \A i \in 1 .. Len(q) - 1 : Tail(q)[i] = q[i + 1]
    BY <1>3
  <2>3. Tail(q) = << >> => Len(q) = 1
    BY <1>1, <2>1
  <2>4. Tail(q) # << >> => Len(Tail(q)) \in 1 .. Len(q) - 1
    BY <2>1
  <2>5. QED
    BY <1>1, <2>1, <2>2, <2>3, <2>4
<1>4. QED
  BY <1>1, <1>2, <1>3

LEMMA InitInv == Init => IInv
<1> SUFFICES ASSUME Init PROVE IInv
  OBVIOUS
<1>1. sigCh \in Seq(BOOLEAN) /\ Len(sigCh) <= SigCap
  BY DEF Init
<1>2. raised \subseteq BOOLEAN /\ image \in 0 .. MaxImages /\ headers \in 0 .. MaxImages
  BY DEF Init
<1>3. TypeOK
  BY <1>1, <1>2 DEF Init, TypeOK
<1>4. RestartBound /\ HeaderInv /\ StreamInv /\ SignalInv
  BY DEF Init, RestartBound, HeaderInv, StreamInv, SignalInv
<1>5. QED
  BY <1>3, <1>4 DEF IInv

(* Every action keeps the five parts; the queue matters to Deliver and
   HandleSignal only. *)
LEMMA StepInv == IInv /\ [Next]_vars => IInv'
<1> SUFFICES ASSUME IInv, [Next]_vars PROVE IInv'
  OBVIOUS
<1> USE DEF IInv, TypeOK, RestartBound, HeaderInv, StreamInv, SignalInv, Alive,
            imageVars, sigVars, outVars, barVars
<1>1. CASE Start
  BY <1>1 DEF Start, Read
<1>2. CASE OpenLine
  BY <1>2 DEF OpenLine, Read
<1>3. CASE WriteBlocks
  BY <1>3 DEF WriteBlocks, Read
<1>4. CASE CloseLine
  BY <1>4 DEF CloseLine, Read
<1>5. CASE SeeChmod
  BY <1>5 DEF SeeChmod
<1>6. CASE ExecFails
  BY <1>6 DEF ExecFails
<1>7. CASE Exec
  <2>1. sigCh' \in Seq(BOOLEAN) /\ Len(sigCh') <= SigCap
    BY <1>7 DEF Exec
  <2>2. image' \in 0 .. MaxImages
    BY <1>7 DEF Exec
  <2>3. raised' \subseteq BOOLEAN
    BY <1>7 DEF Exec
  <2>4. TypeOK'
    BY <1>7, <2>1, <2>2, <2>3 DEF Exec
  <2>5. RestartBound' /\ HeaderInv'
    BY <1>7 DEF Exec
  <2>6. StreamInv' /\ SignalInv'
    BY <1>7 DEF Exec
  <2>7. QED
    BY <2>4, <2>5, <2>6
<1>8. CASE Notify
  BY <1>8 DEF Notify
<1>9. CASE BarSignal
  <2>1. barStopped' \in BOOLEAN
    BY <1>9 DEF BarSignal
  <2>2. raised' \subseteq BOOLEAN
    BY <1>9, <2>1 DEF BarSignal
  <2>3. TypeOK'
    BY <1>9, <2>1, <2>2 DEF BarSignal
  <2>4. RestartBound' /\ HeaderInv' /\ StreamInv'
    BY <1>9 DEF BarSignal
  <2>5. SignalInv'
    <3>1. SUFFICES ASSUME ~lost' PROVE raised' = {barStopped'}
      BY DEF SignalInv
    <3>2. QED
      BY <1>9, <3>1 DEF BarSignal
  <2>6. QED
    BY <2>3, <2>4, <2>5
<1>10. CASE HandleSignal
  <2>1. SignalInv'
    BY <1>10, QueueFacts DEF HandleSignal
  <2>2. (TypeOK /\ RestartBound /\ HeaderInv /\ StreamInv)'
    BY <1>10, QueueFacts DEF HandleSignal
  <2>3. QED
    BY <2>1, <2>2
<1>11. ASSUME NEW v \in BOOLEAN, Deliver(v) PROVE IInv'
  <2>1. raised' \subseteq BOOLEAN
    BY <1>11 DEF Deliver
  <2>2. sigCh' \in Seq(BOOLEAN) /\ Len(sigCh') <= SigCap
    <3>1. CASE Len(sigCh) < SigCap
      <4>1. sigCh' = Append(sigCh, v)
        BY <1>11, <3>1 DEF Deliver
      <4>2. QED
        BY <3>1, <4>1, QueueFacts
    <3>2. CASE ~(Len(sigCh) < SigCap)
      BY <1>11, <3>2 DEF Deliver
    <3>3. QED
      BY <3>1, <3>2
  <2>3. TypeOK'
    BY <1>11, <2>1, <2>2 DEF Deliver
  <2>4. RestartBound' /\ HeaderInv' /\ StreamInv'
    BY <1>11 DEF Deliver
  <2>5. SignalInv'
    <3>1. SUFFICES ASSUME ~lost' PROVE SignalInv'
      OBVIOUS
    <3>2. ~lost /\ sigCh' = Append(sigCh, v)
      BY <1>11, <3>1 DEF Deliver
    <3>3. raised = {barStopped} /\ v = barStopped
      BY <1>11, <3>2 DEF Deliver
    <3>4. raised' = {} /\ barStopped' = barStopped
      BY <1>11, <3>3 DEF Deliver
    <3>5. sigCh' # << >> /\ sigCh'[Len(sigCh')] = v
      BY <3>2, QueueFacts
    <3>6. QED
      BY <3>3, <3>4, <3>5
  <2>6. QED
    BY <2>3, <2>4, <2>5
<1>12. CASE BarExits
  <2>1. UNCHANGED <<lost, raised, sigCh, stopped, barStopped>>
    BY <1>12 DEF BarExits
  <2>2. SignalInv'
    BY <2>1
  <2>3. (TypeOK /\ RestartBound /\ HeaderInv /\ StreamInv)'
    BY <1>12 DEF BarExits
  <2>4. QED
    BY <2>2, <2>3
<1>13. CASE StdinFails
  BY <1>13 DEF StdinFails
<1>14. CASE UNCHANGED vars
  BY <1>14 DEF vars
<1>15. QED
  BY <1>1, <1>2, <1>3, <1>4, <1>5, <1>6, <1>7, <1>8, <1>9, <1>10, <1>11,
     <1>12, <1>13, <1>14 DEF Next

LEMMA Invariant == Spec => []IInv
<1>1. IInv /\ [Next]_vars => IInv'
  BY StepInv
<1>2. QED
  BY InitInv, <1>1, PTL DEF Spec

(* Every variable keeps its type, whatever the bar and the watcher do. *)
THEOREM TypeCorrect == Spec => []TypeOK
<1>1. IInv => TypeOK
  BY DEF IInv
<1>2. QED
  BY Invariant, <1>1, PTL

(* The header is written once, before anything else, however often the
   watcher of Main replaces the image. *)
THEOREM HeaderIsOnce == Spec => []HeaderOnce
<1>1. IInv => HeaderOnce
  BY DEF IInv, HeaderInv, HeaderOnce
<1>2. QED
  BY Invariant, <1>1, PTL

(* The stream i3bar reads breaks only when an exec falls inside a line. *)
THEOREM OnlyCutsBreak == Spec => []OnlyACutBreaks
<1>1. IInv => OnlyACutBreaks
  BY DEF IInv, TypeOK, HeaderInv, StreamInv, OnlyACutBreaks
<1>2. QED
  BY Invariant, <1>1, PTL

(* A signal that gets through by itself sets the flag of the instances to
   what the bar said, whatever became of the signals before it. *)
THEOREM LastCounts == Spec => []LastSignalCounts
<1>1. IInv => LastSignalCounts
  BY DEF IInv, SignalInv, LastSignalCounts
<1>2. QED
  BY Invariant, <1>1, PTL
=============================================================================
