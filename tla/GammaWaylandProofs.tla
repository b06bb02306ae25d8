------------------------- MODULE GammaWaylandProofs -------------------------
(***************************************************************************)
(* What holds of the Wayland gamma manager for any outputs and managers,   *)
(* any object id of the manager, and any number of calls of Set.           *)
(***************************************************************************)
EXTENDS GammaWayland, TLAPS, FiniteSetTheorems

USE NamesAssumption, BoundsAssumption

(* A control is valid only while its output is there and nobody took it. *)
HolderInv ==
    /\ present \cap gone = {}
    /\ outputs \subseteq present \cup gone
    /\ \A o \in Outputs : holder[o] # 0 => o \in present \ taken

(* What an event in the queue says of its output. *)
Honest(e) ==
    /\ e.kind = "global" => e.name \in present \cup gone
    /\ e.kind = "remove" => e.name \in gone
    /\ e.kind = "failed" => e.name \in taken \cup gone
    /\ e.kind = "size" =>
         e.name \in Outputs /\ (control[e.name] # 0 \/ e.name \in taken \cup gone)

QueueInv == \A e \in ToSet(queue) : Honest(e)

(* An output whose control was lost cannot be granted again, so the size and
   the white point that its state keeps do no harm. *)
StaleInv ==
    \A o \in outputs : size[o] /\ control[o] = 0 => o \in taken \cup gone

(* The order of white points. *)
WhiteInv ==
    /\ white <= sets
    /\ \A o \in Outputs : applied[o] <= white /\ (applied[o] # 0 => size[o])

IInv ==
    /\ TypeOK
    /\ HolderInv /\ QueueInv /\ StaleInv /\ WhiteInv
    /\ RampIsCurrent

-----------------------------------------------------------------------------
(* The queue.                                                              *)
LEMMA EvType ==
    \A k \in {"global", "remove", "size", "failed", "done", "error"},
       n \in Outputs \cup Managers \cup {0} :
         Ev(k, n) \in Event /\ Ev(k, n).kind = k /\ Ev(k, n).name = n
  BY DEF Ev, Event

LEMMA AppendElems ==
    ASSUME NEW q \in Seq(Event), NEW e \in Event
    PROVE  Append(q, e) \in Seq(Event) /\ ToSet(Append(q, e)) \subseteq ToSet(q) \cup {e}
<1>1. Append(q, e) \in Seq(Event)
  OBVIOUS
<1>2. \A i \in 1 .. Len(q) + 1 : Append(q, e)[i] \in ToSet(q) \cup {e}
  <2>1. \A i \in 1 .. Len(q) : Append(q, e)[i] = q[i]
    OBVIOUS
  <2>2. Append(q, e)[Len(q) + 1] = e
    OBVIOUS
  <2>3. QED
    BY <2>1, <2>2 DEF ToSet
<1>3. DOMAIN Append(q, e) = 1 .. Len(q) + 1
  OBVIOUS
<1>4. QED
  BY <1>1, <1>2, <1>3 DEF ToSet

LEMMA TailElems ==
    ASSUME NEW q \in Seq(Event), q # <<>>
    PROVE  /\ Tail(q) \in Seq(Event) /\ ToSet(Tail(q)) \subseteq ToSet(q)
           /\ Head(q) \in ToSet(q)
  BY DEF ToSet

LEMMA ConcatElems ==
    ASSUME NEW q \in Seq(Event), NEW r \in Seq(Event)
    PROVE  q \o r \in Seq(Event) /\ ToSet(q \o r) \subseteq ToSet(q) \cup ToSet(r)
<1>1. q \o r \in Seq(Event) /\ Len(q \o r) = Len(q) + Len(r)
  OBVIOUS
<1>2. \A i \in 1 .. Len(q) + Len(r) : (q \o r)[i] \in ToSet(q) \cup ToSet(r)
  <2>1. \A i \in 1 .. Len(q) : (q \o r)[i] = q[i]
    OBVIOUS
  <2>2. \A i \in Len(q) + 1 .. Len(q) + Len(r) :
          (q \o r)[i] = r[i - Len(q)] /\ i - Len(q) \in 1 .. Len(r)
    OBVIOUS
  <2>3. QED
    BY <2>1, <2>2 DEF ToSet
<1>3. DOMAIN (q \o r) = 1 .. Len(q) + Len(r)
  BY <1>1
<1>4. QED
  BY <1>1, <1>2, <1>3 DEF ToSet

(* An event stays honest as long as nobody forgets what happened. *)
LEMMA HonestKept ==
    ASSUME NEW e, Honest(e),
           taken \subseteq taken', gone \subseteq gone',
           present \cup gone \subseteq present' \cup gone',
           \A o \in Outputs : control[o] # 0 => control'[o] # 0 \/ o \in taken' \cup gone'
    PROVE  Honest(e)'
  BY DEF Honest

-----------------------------------------------------------------------------
LEMMA InitInv == Init => IInv
<1> SUFFICES ASSUME Init PROVE IInv
  OBVIOUS
<1>1. queue \in Seq(Event) /\ ToSet(queue) = {}
  BY DEF Init, ToSet
<1>2. TypeOK
  BY <1>1 DEF Init, TypeOK
<1>3. HolderInv /\ StaleInv /\ WhiteInv /\ RampIsCurrent
  BY DEF Init, HolderInv, StaleInv, WhiteInv, RampIsCurrent
<1>4. QueueInv
  BY <1>1 DEF QueueInv
<1>5. QED
  BY <1>2, <1>3, <1>4 DEF IInv

-----------------------------------------------------------------------------
(* The compositor.                                                         *)
LEMMA AnnounceInv == ASSUME IInv, NEW n \in Outputs \cup Managers, Announce(n) PROVE IInv'
<1> USE DEF IInv, Announce, outputVars, userVars
<1>1. Ev("global", n) \in Event /\ Ev("global", n).kind = "global" /\ Ev("global", n).name = n
  BY EvType
<1>2. queue' \in Seq(Event) /\ ToSet(queue') \subseteq ToSet(queue) \cup {Ev("global", n)}
  BY <1>1, AppendElems DEF TypeOK
<1>3. TypeOK'
  BY <1>2 DEF TypeOK
<1>4. QueueInv'
  <2>1. \A e \in ToSet(queue) : Honest(e)'
    BY HonestKept DEF QueueInv
  <2>2. Honest(Ev("global", n))'
    BY <1>1 DEF Honest
  <2>3. QED
    BY <1>2, <2>1, <2>2 DEF QueueInv
<1>5. HolderInv' /\ StaleInv' /\ WhiteInv' /\ RampIsCurrent'
  BY DEF HolderInv, StaleInv, WhiteInv, RampIsCurrent
<1>6. QED
  BY <1>3, <1>4, <1>5

LEMMA WithdrawInv == ASSUME IInv, NEW n \in Outputs \cup Managers, Withdraw(n) PROVE IInv'
<1> USE DEF IInv, Withdraw, userVars
<1>1. Ev("remove", n) \in Event /\ Ev("remove", n).kind = "remove" /\ Ev("remove", n).name = n
  BY EvType
<1>2. queue' \in Seq(Event) /\ ToSet(queue') \subseteq ToSet(queue) \cup {Ev("remove", n)}
  BY <1>1, AppendElems DEF TypeOK
<1>3. TypeOK'
  BY <1>2 DEF TypeOK
<1>4. QueueInv'
  <2>1. \A e \in ToSet(queue) : Honest(e)'
    BY HonestKept DEF QueueInv
  <2>2. Honest(Ev("remove", n))'
    BY <1>1 DEF Honest
  <2>3. QED
    BY <1>2, <2>1, <2>2 DEF QueueInv
<1>5. HolderInv' /\ StaleInv' /\ WhiteInv'
  BY DEF HolderInv, StaleInv, WhiteInv
<1>6. RampIsCurrent'
  BY DEF RampIsCurrent, TypeOK
<1>7. QED
  BY <1>3, <1>4, <1>5, <1>6

LEMMA TakeInv == ASSUME IInv, NEW o \in Outputs, Take(o) PROVE IInv'
<1> USE DEF IInv, Take, userVars
<1>1. Ev("failed", o) \in Event /\ Ev("failed", o).kind = "failed" /\ Ev("failed", o).name = o
  BY EvType
<1>2. queue' \in Seq(Event) /\ ToSet(queue') \subseteq ToSet(queue) \cup {Ev("failed", o)}
  BY <1>1, AppendElems DEF TypeOK
<1>3. TypeOK'
  BY <1>2 DEF TypeOK
<1>4. QueueInv'
  <2>1. \A e \in ToSet(queue) : Honest(e)'
    BY HonestKept DEF QueueInv
  <2>2. Honest(Ev("failed", o))'
    BY <1>1 DEF Honest
  <2>3. QED
    BY <1>2, <2>1, <2>2 DEF QueueInv
<1>5. HolderInv' /\ StaleInv' /\ WhiteInv'
  BY DEF HolderInv, StaleInv, WhiteInv, TypeOK
<1>6. RampIsCurrent'
  BY DEF RampIsCurrent, TypeOK
<1>7. QED
  BY <1>3, <1>4, <1>5, <1>6

(* The steps that may add an event about no output, and touch no output. *)
LEMMA OtherInv ==
    ASSUME IInv, AnswerSync \/ EndConnection \/ Set \/ TakeFatal \/ UNCHANGED vars
    PROVE  IInv'
<1> USE DEF IInv, outputVars, serverVars, userVars, vars
<1> DEFINE E == {Ev("done", 0), Ev("error", 0)}
<1>1. \A e \in E : e \in Event /\ e.kind \in {"done", "error"}
  BY EvType
<1>2. queue' \in Seq(Event) /\ ToSet(queue') \subseteq ToSet(queue) \cup E
  <2>1. queue' = queue \/ \E e \in E : queue' = Append(queue, e)
    BY DEF AnswerSync, EndConnection, Set, TakeFatal
  <2>2. ASSUME NEW e \in E, queue' = Append(queue, e)
        PROVE  queue' \in Seq(Event) /\ ToSet(queue') \subseteq ToSet(queue) \cup {e}
    <3>1. e \in Event
      BY <1>1
    <3>2. QED
      BY <2>2, <3>1, AppendElems DEF TypeOK
  <2>3. QED
    BY <2>1, <2>2 DEF TypeOK
<1>3. UNCHANGED <<present, gone, taken, manager, outputs, outputVars, white>>
  BY DEF AnswerSync, EndConnection, Set, TakeFatal
<1>4. sets' \in {sets, sets + 1} /\ sets' \in 0 .. MaxSets
  BY DEF TypeOK, AnswerSync, EndConnection, Set, TakeFatal
<1>5. /\ conn' \in {"up", "ended"} /\ errch' \in {"open", "error", "empty"}
      /\ user' \in {"select", "asked", "answered", "returned"}
      /\ conn' = "up" => conn = "up"
  BY DEF TypeOK, AnswerSync, EndConnection, Set, TakeFatal
<1>6. TypeOK'
  BY <1>2, <1>3, <1>4, <1>5 DEF TypeOK
<1>7. QueueInv'
  <2>1. \A e \in ToSet(queue) : Honest(e)'
    BY <1>3, HonestKept DEF QueueInv
  <2>2. \A e \in E : Honest(e)'
    BY <1>1 DEF Honest
  <2>3. QED
    BY <1>2, <2>1, <2>2 DEF QueueInv
<1>8. HolderInv' /\ StaleInv' /\ RampIsCurrent'
  BY <1>3, <1>5 DEF HolderInv, StaleInv, RampIsCurrent
<1>9. WhiteInv'
  BY <1>3, <1>4 DEF WhiteInv, TypeOK
<1>10. QED
  BY <1>6, <1>7, <1>8, <1>9

-----------------------------------------------------------------------------
(* The helpers of the handlers.                                            *)

(* Binding answers every output of S, and is honest about it. *)
LEMMA BindHonest ==
    ASSUME IInv, queue # <<>>, NEW STATE S, S \subseteq Outputs \cap (present \cup gone),
           NEW STATE m, m \in Managers \cup {0}, S # {} => m # 0,
           BindControls(S, m), UNCHANGED <<present, gone, taken>>
    PROVE  /\ queue' \in Seq(Event)
           /\ control' \in [Outputs -> Managers \cup {0}]
           /\ holder' \in [Outputs -> Managers \cup {0}]
           /\ \A o \in Outputs : holder'[o] # 0 => o \in present' \ taken'
           /\ QueueInv'
<1> USE DEF IInv
<1>1. PICK q \in SetToSeqs(S) :
        queue' = Tail(queue) \o
                   [i \in 1 .. (IF Answers(m) THEN Len(q) ELSE 0) |->
                      Ev(IF q[i] \in Granted(S, m) THEN "size" ELSE "failed", q[i])]
  BY DEF BindControls
<1>2. q \in Seq(S)
  <2>1. IsFiniteSet(S)
    BY FS_Subset
  <2>2. Cardinality(S) \in Nat
    BY <2>1, FS_CardinalityType
  <2>3. q \in [1 .. Cardinality(S) -> S]
    BY DEF SetToSeqs
  <2>4. QED
    BY <2>2, <2>3
<1> DEFINE N == IF Answers(m) THEN Len(q) ELSE 0
           r == [i \in 1 .. N |-> Ev(IF q[i] \in Granted(S, m) THEN "size" ELSE "failed", q[i])]
<1>3. N \in Nat /\ \A i \in 1 .. N : q[i] \in S /\ Answers(m)
  BY <1>2
<1>4. \A i \in 1 .. N : r[i] \in Event
  BY <1>3, EvType
<1>5. r \in Seq(Event) /\ ToSet(r) = {r[i] : i \in 1 .. N}
  <2> HIDE DEF N
  <2>1. r \in [1 .. N -> Event]
    BY <1>4
  <2>2. r \in Seq(Event) /\ Len(r) = N
    BY <1>3, <2>1
  <2>3. QED
    BY <2>2 DEF ToSet
<1>6. Tail(queue) \in Seq(Event) /\ ToSet(Tail(queue)) \subseteq ToSet(queue)
  BY TailElems DEF TypeOK
<1>7. queue' \in Seq(Event) /\ ToSet(queue') \subseteq ToSet(Tail(queue)) \cup ToSet(r)
  BY <1>1, <1>5, <1>6, ConcatElems
<1>8. /\ control' \in [Outputs -> Managers \cup {0}]
      /\ holder' \in [Outputs -> Managers \cup {0}]
  BY DEF BindControls, TypeOK
<1>9. \A o \in Outputs : holder'[o] # 0 => o \in present' \ taken'
  BY DEF BindControls, Granted, HolderInv, TypeOK
<1>10. \A o \in Outputs : control[o] # 0 => control'[o] # 0
  BY DEF BindControls
<1>11. \A e \in ToSet(queue) : Honest(e)'
  BY <1>10, HonestKept DEF QueueInv
<1>12. \A e \in ToSet(r) : Honest(e)'
  <2> SUFFICES ASSUME NEW e, NEW i \in 1 .. N, e = r[i] PROVE Honest(e)'
    BY <1>5
  <2>1. q[i] \in S /\ q[i] \in Outputs /\ Answers(m) /\ m # 0
    BY <1>3
  <2>2. CASE q[i] \in Granted(S, m)
    <3>1. e.kind = "size" /\ e.name = q[i]
      BY <2>1, <2>2, EvType
    <3>2. control'[q[i]] # 0
      BY <2>1 DEF BindControls
    <3>3. QED
      BY <2>1, <3>1, <3>2 DEF Honest
  <2>3. CASE q[i] \notin Granted(S, m)
    <3>1. e.kind = "failed" /\ e.name = q[i]
      BY <2>1, <2>3, EvType
    <3>2. q[i] \in taken \cup gone
      BY <2>1, <2>3 DEF Granted
    <3>3. QED
      BY <3>1, <3>2 DEF Honest
  <2>4. QED
    BY <2>2, <2>3
<1>13. QueueInv'
  BY <1>6, <1>7, <1>11, <1>12 DEF QueueInv
<1>14. QED
  BY <1>7, <1>8, <1>9, <1>13

(* Applying brings the white point to every control of S that can have it,
   and takes it from none. *)
LEMMA ApplyCurrent ==
    ASSUME TypeOK, NEW STATE S, ApplyOutputs(S), conn' = conn,
           white' \in 0 .. MaxSets, white <= white',
           \A o \in Outputs : applied[o] <= white /\ (applied[o] # 0 => size'[o])
    PROVE  /\ applied' \in [Outputs -> 0 .. MaxSets]
           /\ ramp' \in [Outputs -> 0 .. MaxSets]
           /\ \A o \in Outputs : applied'[o] <= white' /\ (applied'[o] # 0 => size'[o])
           /\ \A o \in Outputs : ramp'[o] \in {ramp[o], white'}
           /\ \A o \in S \cap Outputs :
                conn = "up" /\ white' # 0 /\ control'[o] # 0
                  /\ holder'[o] = control'[o] /\ size'[o] /\ applied[o] # white'
                  => ramp'[o] = white'
<1>1. /\ applied' \in [Outputs -> 0 .. MaxSets]
      /\ ramp' \in [Outputs -> 0 .. MaxSets]
      /\ \A o \in Outputs : ramp'[o] \in {ramp[o], white'}
  BY DEF ApplyOutputs, TypeOK
<1>2. \A o \in Outputs : applied'[o] <= white' /\ (applied'[o] # 0 => size'[o])
  BY DEF ApplyOutputs, TypeOK
<1>3. \A o \in S \cap Outputs :
        conn = "up" /\ white' # 0 /\ control'[o] # 0
          /\ holder'[o] = control'[o] /\ size'[o] /\ applied[o] # white'
          => ramp'[o] = white'
  BY DEF ApplyOutputs, TypeOK
<1>4. QED
  BY <1>1, <1>2, <1>3

-----------------------------------------------------------------------------
(* The handlers.                                                           *)

(* A handler takes the first event, which was honest. *)
LEMMA HandleFacts ==
    ASSUME IInv, NEW k \in {"global", "remove", "size", "failed", "done", "error"},
           NEW n \in Outputs \cup Managers \cup {0}, Handle(k, n)
    PROVE  /\ Tail(queue) \in Seq(Event)
           /\ \A e \in ToSet(Tail(queue)) : e \in ToSet(queue)
           /\ \E e \in ToSet(queue) : e.kind = k /\ e.name = n /\ Honest(e)
           /\ UNCHANGED <<present, gone, taken, conn, sets>>
<1>1. queue \in Seq(Event) /\ queue # <<>> /\ Head(queue) = Ev(k, n)
  BY DEF IInv, TypeOK, Handle
<1>2. Tail(queue) \in Seq(Event) /\ ToSet(Tail(queue)) \subseteq ToSet(queue) /\ Head(queue) \in ToSet(queue)
  BY <1>1, TailElems
<1>3. Ev(k, n).kind = k /\ Ev(k, n).name = n
  BY EvType
<1>4. QED
  BY <1>1, <1>2, <1>3 DEF Handle, serverVars, IInv, QueueInv

(* What is left of the queue stays honest. *)
LEMMA TailHonest ==
    ASSUME IInv, queue' = Tail(queue),
           \A e \in ToSet(Tail(queue)) : e \in ToSet(queue),
           UNCHANGED <<present, gone, taken>>,
           \A o \in Outputs : control[o] # 0 => control'[o] # 0 \/ o \in taken \cup gone
    PROVE  QueueInv'
<1>1. \A e \in ToSet(queue) : Honest(e)'
  BY HonestKept DEF IInv, QueueInv
<1>2. QED
  BY <1>1 DEF QueueInv

LEMMA ManagerInv == ASSUME IInv, NEW m \in Managers, OnGlobalManager(m) PROVE IInv'
<1>1. /\ Tail(queue) \in Seq(Event)
      /\ \A e \in ToSet(Tail(queue)) : e \in ToSet(queue)
      /\ UNCHANGED <<present, gone, taken, conn, sets>>
  BY HandleFacts DEF OnGlobalManager
<1>2. UNCHANGED <<outputs, size, white, user, errch>>
  BY DEF OnGlobalManager
<1>3. CASE manager # 0
  <2>1. queue' = Tail(queue) /\ UNCHANGED <<manager, control, applied, holder, ramp>>
    BY <1>3 DEF OnGlobalManager
  <2>2. QueueInv'
    BY <1>1, <2>1, TailHonest
  <2>3. TypeOK'
    BY <1>1, <1>2, <2>1 DEF IInv, TypeOK
  <2>4. HolderInv' /\ StaleInv' /\ WhiteInv' /\ RampIsCurrent'
    BY <1>1, <1>2, <2>1 DEF IInv, HolderInv, StaleInv, WhiteInv, RampIsCurrent
  <2>5. QED
    BY <2>2, <2>3, <2>4 DEF IInv
<1>4. CASE manager = 0
  <2> DEFINE S == {o \in outputs : control[o] = 0}
  <2>1. manager' = m /\ BindControls(S, m) /\ ApplyOutputs(outputs)
    BY <1>4 DEF OnGlobalManager
  <2>2. S \subseteq Outputs \cap (present \cup gone) /\ m # 0
    BY DEF IInv, TypeOK, HolderInv
  <2>3. queue # <<>>
    BY DEF OnGlobalManager, Handle
  <2>4. /\ queue' \in Seq(Event)
        /\ control' \in [Outputs -> Managers \cup {0}]
        /\ holder' \in [Outputs -> Managers \cup {0}]
        /\ \A o \in Outputs : holder'[o] # 0 => o \in present' \ taken'
        /\ QueueInv'
    <3> HIDE DEF S
    <3>1. QED
      BY <1>1, <2>1, <2>2, <2>3, BindHonest
  <2>5. /\ applied' \in [Outputs -> 0 .. MaxSets]
        /\ ramp' \in [Outputs -> 0 .. MaxSets]
        /\ \A o \in Outputs : applied'[o] <= white' /\ (applied'[o] # 0 => size'[o])
        /\ \A o \in Outputs : ramp'[o] \in {ramp[o], white'}
        /\ \A o \in outputs \cap Outputs :
             conn = "up" /\ white' # 0 /\ control'[o] # 0
               /\ holder'[o] = control'[o] /\ size'[o] /\ applied[o] # white'
               => ramp'[o] = white'
    <3>1. /\ TypeOK /\ white' \in 0 .. MaxSets /\ white <= white'
          /\ \A o \in Outputs : applied[o] <= white /\ (applied[o] # 0 => size'[o])
      BY <1>2 DEF IInv, TypeOK, WhiteInv
    <3>2. QED
      BY <1>1, <2>1, <3>1, ApplyCurrent
  <2>6. \A o \in Outputs : control'[o] = IF o \in S THEN m ELSE control[o]
    BY <2>1 DEF BindControls
  <2>7. TypeOK'
    BY <1>1, <1>2, <2>1, <2>4, <2>5, <2>6 DEF IInv, TypeOK
  <2>8. HolderInv' /\ StaleInv' /\ WhiteInv'
    <3>1. HolderInv'
      BY <1>1, <1>2, <2>4 DEF IInv, HolderInv
    <3>2. StaleInv'
      BY <1>1, <1>2, <2>2, <2>6 DEF IInv, StaleInv, TypeOK
    <3>3. WhiteInv'
      BY <1>1, <1>2, <2>5 DEF IInv, WhiteInv
    <3>4. QED
      BY <3>1, <3>2, <3>3
  <2>9. RampIsCurrent'
    <3> SUFFICES ASSUME NEW o \in Outputs, conn = "up", white # 0, control'[o] # 0,
                        holder'[o] = control'[o], size[o]
                 PROVE  ramp'[o] = white
      BY <1>1, <1>2 DEF RampIsCurrent
    <3>1. o \in outputs
      BY <1>2, <2>7 DEF TypeOK
    <3>2. CASE o \in S
      <4>1. o \in taken \cup gone
        BY <3>1, <3>2 DEF IInv, StaleInv
      <4>2. o \in present \ taken
        BY <1>1, <2>4
      <4>3. QED
        BY <4>1, <4>2 DEF IInv, HolderInv
    <3>3. CASE o \notin S
      <4>1. control[o] = control'[o] /\ holder'[o] = holder[o]
        BY <2>6, <3>3, <2>1 DEF BindControls, Granted
      <4>2. ramp[o] = white
        BY <4>1 DEF IInv, RampIsCurrent
      <4>3. QED
        BY <1>2, <2>5, <4>2
    <3>4. QED
      BY <3>2, <3>3
  <2>10. QED
    BY <2>4, <2>7, <2>8, <2>9 DEF IInv
<1>5. QED
  BY <1>3, <1>4

LEMMA OutputInv == ASSUME IInv, NEW o \in Outputs, OnGlobalOutput(o) PROVE IInv'
<1> DEFINE S == IF manager = 0 THEN {} ELSE {o}
<1>1. /\ Tail(queue) \in Seq(Event)
      /\ \E e \in ToSet(queue) : e.kind = "global" /\ e.name = o /\ Honest(e)
      /\ UNCHANGED <<present, gone, taken, conn, sets>>
  BY HandleFacts DEF OnGlobalOutput
<1>2. /\ outputs' = outputs \cup {o} /\ BindControls(S, manager)
      /\ size' = [size EXCEPT ![o] = FALSE] /\ applied' = [applied EXCEPT ![o] = 0]
      /\ UNCHANGED <<manager, ramp, white, user, errch>>
  BY DEF OnGlobalOutput
<1>3. o \in present \cup gone
  BY <1>1 DEF Honest
<1>4. queue # <<>>
  BY DEF OnGlobalOutput, Handle
<1>5. S \subseteq Outputs \cap (present \cup gone) /\ (S # {} => manager # 0)
      /\ manager \in Managers \cup {0}
  BY <1>3 DEF IInv, TypeOK
<1>6. /\ queue' \in Seq(Event)
      /\ control' \in [Outputs -> Managers \cup {0}]
      /\ holder' \in [Outputs -> Managers \cup {0}]
      /\ \A p \in Outputs : holder'[p] # 0 => p \in present' \ taken'
      /\ QueueInv'
  <2> HIDE DEF S
  <2>1. QED
    BY <1>1, <1>2, <1>4, <1>5, BindHonest
<1>7. \A p \in Outputs \ {o} : control'[p] = control[p] /\ holder'[p] = holder[p]
  BY <1>2 DEF BindControls, Granted
<1>8. TypeOK'
  <2> HIDE DEF S
  <2>1. size' \in [Outputs -> BOOLEAN] /\ applied' \in [Outputs -> 0 .. MaxSets]
    BY <1>2 DEF IInv, TypeOK
  <2>2. outputs' \subseteq Outputs /\ \A p \in Outputs \ outputs' : control'[p] = 0
    BY <1>2, <1>7 DEF IInv, TypeOK
  <2>3. QED
    BY <1>1, <1>2, <1>6, <2>1, <2>2 DEF IInv, TypeOK
<1>9. HolderInv'
  BY <1>1, <1>2, <1>3, <1>6 DEF IInv, HolderInv
<1>10. StaleInv' /\ WhiteInv'
  BY <1>1, <1>2, <1>7 DEF IInv, StaleInv, WhiteInv, TypeOK
<1>11. RampIsCurrent'
  BY <1>1, <1>2, <1>7 DEF IInv, RampIsCurrent, TypeOK
<1>12. QED
  BY <1>6, <1>8, <1>9, <1>10, <1>11 DEF IInv

LEMMA RemoveInv == ASSUME IInv, NEW n \in Outputs \cup Managers, OnGlobalRemove(n) PROVE IInv'
<1>1. /\ Tail(queue) \in Seq(Event)
      /\ \A e \in ToSet(Tail(queue)) : e \in ToSet(queue)
      /\ \E e \in ToSet(queue) : e.kind = "remove" /\ e.name = n /\ Honest(e)
      /\ UNCHANGED <<present, gone, taken, conn, sets>>
  BY HandleFacts DEF OnGlobalRemove
<1>2. n \in gone
  BY <1>1 DEF Honest
<1>3. /\ queue' = Tail(queue) /\ outputs' \in {outputs, outputs \ {n}}
      /\ manager' \in {manager, 0}
      /\ UNCHANGED <<size, applied, holder, ramp, white, user, errch>>
  BY DEF OnGlobalRemove
<1>4. \/ UNCHANGED <<outputs, control>>
      \/ /\ outputs' = outputs \ {n}
         /\ control' = [o \in Outputs |-> IF o = n THEN 0 ELSE control[o]]
  BY DEF OnGlobalRemove
<1>5. TypeOK'
  BY <1>1, <1>3, <1>4 DEF IInv, TypeOK
<1>6. \A o \in Outputs : control'[o] = control[o] \/ (o = n /\ control'[o] = 0 /\ o \notin outputs')
  BY <1>4
<1>7. QueueInv'
  BY <1>1, <1>2, <1>3, <1>6, TailHonest
<1>8. HolderInv' /\ WhiteInv'
  BY <1>1, <1>3 DEF IInv, HolderInv, WhiteInv
<1>9. StaleInv' /\ RampIsCurrent'
  BY <1>1, <1>3, <1>6 DEF IInv, TypeOK, StaleInv, RampIsCurrent
<1>10. QED
  BY <1>5, <1>7, <1>8, <1>9 DEF IInv

LEMMA SizeInv == ASSUME IInv, NEW o \in Outputs, OnGammaSize(o) PROVE IInv'
<1>1. /\ Tail(queue) \in Seq(Event)
      /\ \A e \in ToSet(Tail(queue)) : e \in ToSet(queue)
      /\ \E e \in ToSet(queue) : e.kind = "size" /\ e.name = o /\ Honest(e)
      /\ UNCHANGED <<present, gone, taken, conn, sets>>
  BY HandleFacts DEF OnGammaSize
<1>2. control[o] # 0 \/ o \in taken \cup gone
  BY <1>1 DEF Honest
<1>3. /\ queue' = Tail(queue) /\ size' = [size EXCEPT ![o] = TRUE]
      /\ UNCHANGED <<manager, outputs, control, holder, white, user, errch>>
      /\ ApplyOutputs({o})
  BY DEF OnGammaSize
<1>4. QueueInv'
  BY <1>1, <1>3, TailHonest
<1>5. /\ applied' \in [Outputs -> 0 .. MaxSets]
      /\ ramp' \in [Outputs -> 0 .. MaxSets]
      /\ \A p \in Outputs : applied'[p] <= white' /\ (applied'[p] # 0 => size'[p])
      /\ \A p \in Outputs : ramp'[p] \in {ramp[p], white'}
      /\ \A p \in {o} \cap Outputs :
           conn = "up" /\ white' # 0 /\ control'[p] # 0
             /\ holder'[p] = control'[p] /\ size'[p] /\ applied[p] # white'
             => ramp'[p] = white'
  <2>1. /\ TypeOK /\ white' \in 0 .. MaxSets /\ white <= white'
        /\ \A p \in Outputs : applied[p] <= white /\ (applied[p] # 0 => size'[p])
    BY <1>3 DEF IInv, TypeOK, WhiteInv
  <2>2. QED
    BY <1>1, <1>3, <2>1, ApplyCurrent
<1>6. TypeOK'
  BY <1>1, <1>3, <1>5 DEF IInv, TypeOK
<1>7. HolderInv' /\ WhiteInv'
  BY <1>1, <1>3, <1>5 DEF IInv, HolderInv, WhiteInv
<1>8. StaleInv'
  BY <1>1, <1>2, <1>3 DEF IInv, TypeOK, StaleInv
<1>9. RampIsCurrent'
  <2> SUFFICES ASSUME NEW p \in Outputs, conn = "up", white # 0, control[p] # 0,
                      holder[p] = control[p], size'[p]
               PROVE  ramp'[p] = white
    BY <1>1, <1>3 DEF RampIsCurrent
  <2>1. CASE p # o
    BY <1>3, <1>5, <2>1 DEF IInv, RampIsCurrent, TypeOK
  <2>2. CASE p = o /\ applied[p] # white
    BY <1>3, <1>5, <2>2
  <2>3. CASE p = o /\ applied[p] = white
    <3>1. size[p]
      BY <2>3 DEF IInv, WhiteInv
    <3>2. QED
      BY <1>3, <1>5, <3>1 DEF IInv, RampIsCurrent
  <2>4. QED
    BY <2>1, <2>2, <2>3
<1>10. QED
  BY <1>4, <1>6, <1>7, <1>8, <1>9 DEF IInv

LEMMA FailedInv == ASSUME IInv, NEW o \in Outputs, OnFailed(o) PROVE IInv'
<1>1. /\ Tail(queue) \in Seq(Event)
      /\ \A e \in ToSet(Tail(queue)) : e \in ToSet(queue)
      /\ \E e \in ToSet(queue) : e.kind = "failed" /\ e.name = o /\ Honest(e)
      /\ UNCHANGED <<present, gone, taken, conn, sets>>
  BY HandleFacts DEF OnFailed
<1>2. o \in taken \cup gone
  BY <1>1 DEF Honest
<1>3. /\ queue' = Tail(queue) /\ control' = [control EXCEPT ![o] = 0]
      /\ UNCHANGED <<manager, outputs, size, applied, holder, ramp, white, user, errch>>
  BY DEF OnFailed
<1>4. TypeOK'
  BY <1>1, <1>3 DEF IInv, TypeOK
<1>5. \A p \in Outputs : control'[p] = IF p = o THEN 0 ELSE control[p]
  BY <1>3 DEF IInv, TypeOK
<1>6. QueueInv'
  BY <1>1, <1>2, <1>3, <1>5, TailHonest
<1>7. HolderInv' /\ WhiteInv'
  BY <1>1, <1>3 DEF IInv, HolderInv, WhiteInv
<1>8. StaleInv' /\ RampIsCurrent'
  BY <1>1, <1>2, <1>3, <1>5 DEF IInv, TypeOK, StaleInv, RampIsCurrent
<1>9. QED
  BY <1>4, <1>6, <1>7, <1>8 DEF IInv

LEMMA DoneInv == ASSUME IInv, OnDone PROVE IInv'
<1>1. /\ Tail(queue) \in Seq(Event)
      /\ \A e \in ToSet(Tail(queue)) : e \in ToSet(queue)
      /\ UNCHANGED <<present, gone, taken, conn, sets>>
  BY HandleFacts DEF OnDone
<1>2. /\ queue' = Tail(queue) /\ white' = sets /\ user' = "select"
      /\ UNCHANGED <<manager, outputs, control, size, holder, errch>>
      /\ ApplyOutputs(outputs)
  BY DEF OnDone
<1>3. QueueInv'
  BY <1>1, <1>2, TailHonest
<1>4. /\ applied' \in [Outputs -> 0 .. MaxSets]
      /\ ramp' \in [Outputs -> 0 .. MaxSets]
      /\ \A p \in Outputs : applied'[p] <= white' /\ (applied'[p] # 0 => size'[p])
      /\ \A p \in Outputs : ramp'[p] \in {ramp[p], white'}
      /\ \A p \in outputs \cap Outputs :
           conn = "up" /\ white' # 0 /\ control'[p] # 0
             /\ holder'[p] = control'[p] /\ size'[p] /\ applied[p] # white'
             => ramp'[p] = white'
  <2>1. /\ TypeOK /\ white' \in 0 .. MaxSets /\ white <= white'
        /\ \A p \in Outputs : applied[p] <= white /\ (applied[p] # 0 => size'[p])
    BY <1>2 DEF IInv, TypeOK, WhiteInv
  <2>2. QED
    BY <1>1, <1>2, <2>1, ApplyCurrent
<1>5. TypeOK'
  BY <1>1, <1>2, <1>4 DEF IInv, TypeOK
<1>6. HolderInv' /\ StaleInv'
  BY <1>1, <1>2 DEF IInv, HolderInv, StaleInv
<1>7. WhiteInv'
  BY <1>1, <1>2, <1>4 DEF IInv, TypeOK, WhiteInv
<1>8. RampIsCurrent'
  <2> SUFFICES ASSUME NEW p \in Outputs, conn = "up", sets # 0, control[p] # 0,
                      holder[p] = control[p], size[p]
               PROVE  ramp'[p] = sets
    BY <1>1, <1>2 DEF RampIsCurrent
  <2>1. p \in outputs
    BY DEF IInv, TypeOK
  <2>2. CASE applied[p] # sets
    BY <1>2, <1>4, <2>1, <2>2
  <2>3. CASE applied[p] = sets
    <3>1. white = sets
      BY <2>3 DEF IInv, TypeOK, WhiteInv
    <3>2. ramp[p] = white
      BY <3>1 DEF IInv, RampIsCurrent
    <3>3. QED
      BY <1>2, <1>4, <3>1, <3>2
  <2>4. QED
    BY <2>2, <2>3
<1>9. QED
  BY <1>3, <1>5, <1>6, <1>7, <1>8 DEF IInv

LEMMA ErrorInv == ASSUME IInv, OnError PROVE IInv'
<1>1. /\ Tail(queue) \in Seq(Event)
      /\ \A e \in ToSet(Tail(queue)) : e \in ToSet(queue)
      /\ UNCHANGED <<present, gone, taken, conn, sets>>
  BY HandleFacts DEF OnError
<1>2. /\ queue' = Tail(queue) /\ errch' \in {"error", errch}
      /\ UNCHANGED <<manager, outputs, control, size, applied, holder, ramp, white, user>>
  BY DEF OnError, outputVars
<1>3. QueueInv'
  BY <1>1, <1>2, TailHonest
<1>4. TypeOK'
  BY <1>1, <1>2 DEF IInv, TypeOK
<1>5. HolderInv' /\ StaleInv' /\ WhiteInv' /\ RampIsCurrent'
  BY <1>1, <1>2 DEF IInv, HolderInv, StaleInv, WhiteInv, RampIsCurrent
<1>6. QED
  BY <1>3, <1>4, <1>5 DEF IInv

-----------------------------------------------------------------------------
LEMMA StepInv == IInv /\ [Next]_vars => IInv'
<1> SUFFICES ASSUME IInv, [Next]_vars PROVE IInv'
  OBVIOUS
<1>1. CASE Dispatch
  BY <1>1, ManagerInv, OutputInv, SizeInv, FailedInv, RemoveInv, DoneInv, ErrorInv DEF Dispatch
<1>2. CASE \E n \in Outputs \cup Managers : Announce(n) \/ Withdraw(n)
  BY <1>2, AnnounceInv, WithdrawInv
<1>3. CASE \E o \in Outputs : Take(o)
  BY <1>3, TakeInv
<1>4. CASE AnswerSync \/ EndConnection \/ Set \/ TakeFatal \/ UNCHANGED vars
  BY <1>4, OtherInv
<1>5. QED
  BY <1>1, <1>2, <1>3, <1>4 DEF Next

LEMMA Invariance == Spec => []IInv
<1>1. Init => IInv
  BY InitInv
<1>2. IInv /\ [Next]_vars => IInv'
  BY StepInv
<1>3. QED
  BY <1>1, <1>2, PTL DEF Spec, Safe

(* Every variable keeps its type, and an output the client does not know has
   no control. *)
THEOREM TypeCorrect == Spec => []TypeOK
<1>1. IInv => TypeOK
  BY DEF IInv
<1>2. QED
  BY <1>1, Invariance, PTL

(* A valid control of known size carries the white point set last: for any
   order in which managers, outputs, sizes, failures, removals and calls of
   Set arrive, and even if a removed name is taken for the manager. *)
THEOREM RampsAreCurrent == Spec => []RampIsCurrent
<1>1. IInv => RampIsCurrent
  BY DEF IInv
<1>2. QED
  BY <1>1, Invariance, PTL

-----------------------------------------------------------------------------
(* What becomes of the outputs.  Nothing is lost between the compositor and
   the client: what one of them has and the other does not is in the queue. *)
ManagerKnown ==
    /\ present \cap Managers # {} =>
         manager # 0 \/ \E m \in Managers : Ev("global", m) \in ToSet(queue)
    /\ manager # 0 => manager \in present \cup gone

OutputsKnown ==
    /\ \A o \in present \cap Outputs : o \in outputs \/ Ev("global", o) \in ToSet(queue)
    /\ manager = 0 => \A o \in Outputs : control[o] = 0

ControlsHeld ==
    conn = "up" /\ manager \in present =>
        \A o \in (outputs \cap present) \ taken :
            /\ control[o] # 0 /\ holder[o] = control[o]
            /\ size[o] \/ Ev("size", o) \in ToSet(queue)

SetApplied == user = "select" => white = sets

Account == ManagerKnown /\ OutputsKnown /\ ControlsHeld /\ SetApplied

(* No event of the queue is dropped before its turn. *)
LEMMA AppendKeeps ==
    ASSUME NEW q \in Seq(Event), NEW e \in Event
    PROVE  ToSet(q) \subseteq ToSet(Append(q, e)) /\ e \in ToSet(Append(q, e))
<1>1. DOMAIN Append(q, e) = 1 .. Len(q) + 1 /\ DOMAIN q = 1 .. Len(q) /\ Len(q) \in Nat
  OBVIOUS
<1>2. Append(q, e)[Len(q) + 1] = e /\ \A i \in 1 .. Len(q) : Append(q, e)[i] = q[i]
  OBVIOUS
<1>3. QED
  BY <1>1, <1>2 DEF ToSet

LEMMA TailKeeps ==
    ASSUME NEW q \in Seq(Event), q # <<>>
    PROVE  ToSet(q) \subseteq ToSet(Tail(q)) \cup {Head(q)}
<1> SUFFICES ASSUME NEW i \in 1 .. Len(q), i # 1
             PROVE  q[i] \in ToSet(Tail(q))
  BY DEF ToSet
<1>1. i - 1 \in DOMAIN Tail(q) /\ Tail(q)[i - 1] = q[i]
  OBVIOUS
<1>2. QED
  BY <1>1 DEF ToSet

LEMMA ConcatKeeps ==
    ASSUME NEW q \in Seq(Event), NEW r \in Seq(Event)
    PROVE  ToSet(q) \subseteq ToSet(q \o r) /\ ToSet(r) \subseteq ToSet(q \o r)
<1>1. /\ DOMAIN (q \o r) = 1 .. Len(q) + Len(r)
      /\ DOMAIN q = 1 .. Len(q) /\ DOMAIN r = 1 .. Len(r)
      /\ Len(q) \in Nat /\ Len(r) \in Nat
  OBVIOUS
<1>2. \A i \in 1 .. Len(q) : (q \o r)[i] = q[i]
  OBVIOUS
<1>3. \A i \in 1 .. Len(r) : (q \o r)[Len(q) + i] = r[i] /\ Len(q) + i \in 1 .. Len(q) + Len(r)
  OBVIOUS
<1>4. ToSet(q) \subseteq ToSet(q \o r)
  BY <1>1, <1>2 DEF ToSet
<1>5. ToSet(r) \subseteq ToSet(q \o r)
  BY <1>1, <1>3 DEF ToSet
<1>6. QED
  BY <1>4, <1>5

(* Two events are the same only if they say the same of the same name. *)
LEMMA EvDistinct ==
    ASSUME NEW k, NEW n, NEW l, NEW m, Ev(k, n) = Ev(l, m)
    PROVE  k = l /\ n = m
<1>1. Ev(k, n).kind = k /\ Ev(l, m).kind = l /\ Ev(k, n).name = n /\ Ev(l, m).name = m
  BY DEF Ev
<1>2. QED
  BY <1>1

(* Every element is in each sequence of all elements. *)
LEMMA SeqsCover ==
    ASSUME NEW S, IsFiniteSet(S), NEW q \in SetToSeqs(S)
    PROVE  q \in Seq(S) /\ \A x \in S : \E i \in 1 .. Len(q) : q[i] = x
<1> DEFINE N == Cardinality(S)
           D == 1 .. N
<1>1. N \in Nat
  BY FS_CardinalityType
<1>2. q \in [D -> S] /\ \A i, j \in D : i # j => q[i] # q[j]
  BY DEF SetToSeqs
<1>3. q \in Injection(D, S)
  BY <1>2 DEF Injection, IsInjective
<1>4. Cardinality(D) = N
  <2>1. Cardinality(D) = IF 1 > N THEN 0 ELSE N - 1 + 1
    BY <1>1, FS_Interval
  <2>2. QED
    BY <1>1, <2>1
<1>5. q \in Surjection(D, S)
  BY <1>3, <1>4, FS_Injection
<1>6. q \in Seq(S) /\ Len(q) = N
  BY <1>1, <1>2
<1>7. QED
  BY <1>5, <1>6 DEF Surjection

-----------------------------------------------------------------------------
LEMMA InitAccount == Init => Account
  BY DEF Init, Account, ManagerKnown, OutputsKnown, ControlsHeld, SetApplied

(* The steps of the compositor and of the redshift module, which only add to
   the queue. *)
LEMMA AnnounceAccount ==
    ASSUME IInv, Account, NEW n \in Outputs \cup Managers, Announce(n)
    PROVE  Account'
<1>1. Ev("global", n) \in Event
  BY EvType
<1>2. ToSet(queue) \subseteq ToSet(queue') /\ Ev("global", n) \in ToSet(queue')
  BY <1>1, AppendKeeps DEF IInv, TypeOK, Announce
<1>3. /\ n \notin present \cup gone /\ present' = present \cup {n}
      /\ UNCHANGED <<gone, taken, conn, manager, outputs, control, holder, size, white, sets, user>>
  BY DEF Announce, outputVars, userVars
<1>4. ManagerKnown' /\ OutputsKnown'
  BY <1>2, <1>3 DEF Account, ManagerKnown, OutputsKnown
<1>5. ControlsHeld'
  <2>1. manager \in present' => manager \in present
    BY <1>3, NamesAssumption DEF Account, ManagerKnown
  <2>2. (outputs \cap present') \ taken = (outputs \cap present) \ taken
    BY <1>3 DEF IInv, HolderInv
  <2>3. QED
    BY <1>2, <1>3, <2>1, <2>2 DEF Account, ControlsHeld
<1>6. SetApplied'
  BY <1>3 DEF Account, SetApplied
<1>7. QED
  BY <1>4, <1>5, <1>6 DEF Account

LEMMA WithdrawAccount ==
    ASSUME IInv, Account, NEW n \in Outputs \cup Managers, Withdraw(n)
    PROVE  Account'
<1>1. Ev("remove", n) \in Event
  BY EvType
<1>2. ToSet(queue) \subseteq ToSet(queue')
  BY <1>1, AppendKeeps DEF IInv, TypeOK, Withdraw
<1>3. /\ present' = present \ {n} /\ gone' = gone \cup {n} /\ \A o \in Outputs \ {n} : holder'[o] = holder[o]
      /\ UNCHANGED <<taken, conn, manager, outputs, control, size, white, sets, user>>
  BY DEF Withdraw, userVars
<1>4. ManagerKnown' /\ OutputsKnown'
  BY <1>2, <1>3 DEF Account, ManagerKnown, OutputsKnown
<1>5. ControlsHeld'
  BY <1>2, <1>3 DEF Account, ControlsHeld, IInv, TypeOK
<1>6. SetApplied'
  BY <1>3 DEF Account, SetApplied
<1>7. QED
  BY <1>4, <1>5, <1>6 DEF Account

LEMMA TakeAccount ==
    ASSUME IInv, Account, NEW o \in Outputs, Take(o)
    PROVE  Account'
<1>1. Ev("failed", o) \in Event
  BY EvType
<1>2. ToSet(queue) \subseteq ToSet(queue')
  BY <1>1, AppendKeeps DEF IInv, TypeOK, Take
<1>3. /\ taken' = taken \cup {o} /\ \A p \in Outputs \ {o} : holder'[p] = holder[p]
      /\ UNCHANGED <<present, gone, conn, manager, outputs, control, size, white, sets, user>>
  BY DEF Take, userVars, IInv, TypeOK
<1>4. ManagerKnown' /\ OutputsKnown'
  BY <1>2, <1>3 DEF Account, ManagerKnown, OutputsKnown
<1>5. ControlsHeld'
  BY <1>2, <1>3 DEF Account, ControlsHeld, IInv, TypeOK
<1>6. SetApplied'
  BY <1>3 DEF Account, SetApplied
<1>7. QED
  BY <1>4, <1>5, <1>6 DEF Account

LEMMA OtherAccount ==
    ASSUME IInv, Account, AnswerSync \/ EndConnection \/ Set \/ TakeFatal \/ UNCHANGED vars
    PROVE  Account'
<1>1. Ev("done", 0) \in Event /\ Ev("error", 0) \in Event
  BY EvType
<1>2. queue' \in {queue, Append(queue, Ev("done", 0)), Append(queue, Ev("error", 0))}
  BY DEF AnswerSync, EndConnection, Set, TakeFatal, vars
<1>3. ToSet(queue) \subseteq ToSet(queue')
  BY <1>1, <1>2, AppendKeeps DEF IInv, TypeOK
<1>4. /\ UNCHANGED <<present, gone, taken, manager, outputs, control, holder, size, white>>
      /\ conn' = "up" => conn = "up"
      /\ user' # "select" \/ UNCHANGED <<sets, user>>
  BY DEF AnswerSync, EndConnection, Set, TakeFatal, vars, serverVars, outputVars, userVars
<1>5. ManagerKnown' /\ OutputsKnown'
  BY <1>3, <1>4 DEF Account, ManagerKnown, OutputsKnown
<1>6. ControlsHeld'
  BY <1>3, <1>4 DEF Account, ControlsHeld
<1>7. SetApplied'
  BY <1>4 DEF Account, SetApplied
<1>8. QED
  BY <1>5, <1>6, <1>7 DEF Account

(* A handler takes the first event and leaves the others. *)
LEMMA HandleKeeps ==
    ASSUME IInv, NEW k, NEW n, Handle(k, n)
    PROVE  /\ ToSet(queue) \subseteq ToSet(Tail(queue)) \cup {Ev(k, n)}
           /\ UNCHANGED <<present, gone, taken, conn, sets>>
<1>1. queue \in Seq(Event) /\ queue # <<>> /\ Head(queue) = Ev(k, n)
  BY DEF IInv, TypeOK, Handle
<1>2. QED
  BY <1>1, TailKeeps DEF Handle, serverVars

(* Binding keeps what waits, and answers for every output of S. *)
LEMMA BindAnswers ==
    ASSUME IInv, queue # <<>>, NEW STATE S, S \subseteq Outputs,
           NEW STATE m, BindControls(S, m)
    PROVE  /\ ToSet(Tail(queue)) \subseteq ToSet(queue')
           /\ \A o \in Granted(S, m) : Ev("size", o) \in ToSet(queue')
<1>1. PICK q \in SetToSeqs(S) :
        queue' = Tail(queue) \o
                   [i \in 1 .. (IF Answers(m) THEN Len(q) ELSE 0) |->
                      Ev(IF q[i] \in Granted(S, m) THEN "size" ELSE "failed", q[i])]
  BY DEF BindControls
<1>2. IsFiniteSet(S)
  BY FS_Subset
<1>3. q \in Seq(S) /\ \A x \in S : \E i \in 1 .. Len(q) : q[i] = x
  BY <1>2, SeqsCover
<1> DEFINE N == IF Answers(m) THEN Len(q) ELSE 0
           r == [i \in 1 .. N |-> Ev(IF q[i] \in Granted(S, m) THEN "size" ELSE "failed", q[i])]
<1>4. N \in Nat /\ \A i \in 1 .. N : q[i] \in S
  BY <1>3
<1>5. \A i \in 1 .. N : r[i] \in Event
  BY <1>4, EvType
<1>6. r \in Seq(Event) /\ ToSet(r) = {r[i] : i \in 1 .. N}
  <2> HIDE DEF N
  <2>1. r \in [1 .. N -> Event]
    BY <1>5
  <2>2. r \in Seq(Event) /\ Len(r) = N
    BY <1>4, <2>1
  <2>3. QED
    BY <2>2 DEF ToSet
<1>7. Tail(queue) \in Seq(Event)
  BY TailElems DEF IInv, TypeOK
<1>8. ToSet(Tail(queue)) \subseteq ToSet(queue') /\ ToSet(r) \subseteq ToSet(queue')
  BY <1>1, <1>6, <1>7, ConcatKeeps
<1>9. ASSUME NEW o \in Granted(S, m) PROVE Ev("size", o) \in ToSet(r)
  <2>1. o \in S /\ Answers(m)
    BY <1>9 DEF Granted
  <2>2. PICK i \in 1 .. Len(q) : q[i] = o
    BY <1>3, <2>1
  <2>3. i \in 1 .. N /\ r[i] = Ev("size", o)
    BY <1>9, <2>1, <2>2
  <2>4. QED
    BY <1>6, <2>3
<1>10. QED
  BY <1>8, <1>9

LEMMA ManagerAccount ==
    ASSUME IInv, Account, NEW m \in Managers, OnGlobalManager(m)
    PROVE  Account'
<1>1. /\ ToSet(queue) \subseteq ToSet(Tail(queue)) \cup {Ev("global", m)}
      /\ UNCHANGED <<present, gone, taken, conn, sets>>
  BY HandleKeeps DEF OnGlobalManager
<1>2. UNCHANGED <<outputs, size, white, user>>
  BY DEF OnGlobalManager
<1>3. \A o \in Outputs : Ev("global", o) # Ev("global", m) /\ Ev("size", o) # Ev("global", m)
  BY EvDistinct
<1>4. ToSet(Tail(queue)) \subseteq ToSet(queue') /\ manager' # 0 /\ manager' \in {m, manager}
  <2>1. CASE manager # 0
    BY <2>1 DEF OnGlobalManager
  <2>2. CASE manager = 0
    <3> DEFINE S == {o \in outputs : control[o] = 0}
    <3>1. BindControls(S, m) /\ S \subseteq Outputs /\ queue # <<>> /\ manager' = m
      BY <2>2 DEF OnGlobalManager, Handle, IInv, TypeOK
    <3> HIDE DEF S
    <3>2. QED
      BY <3>1, BindAnswers
  <2>3. QED
    BY <2>1, <2>2
<1>m. m \in present \cup gone
  BY HandleFacts DEF OnGlobalManager, Honest
<1>5. ManagerKnown' /\ OutputsKnown' /\ SetApplied'
  BY <1>1, <1>2, <1>3, <1>4, <1>m DEF Account, ManagerKnown, OutputsKnown, SetApplied
<1>6. ControlsHeld'
  <2>1. CASE manager # 0
    <3>1. queue' = Tail(queue) /\ UNCHANGED <<manager, control, holder>>
      BY <2>1 DEF OnGlobalManager
    <3>2. QED
      BY <1>1, <1>2, <1>3, <2>1, <3>1 DEF Account, ControlsHeld, IInv, TypeOK
  <2>2. CASE manager = 0
    <3> DEFINE S == {o \in outputs : control[o] = 0}
    <3>1. BindControls(S, m) /\ queue # <<>> /\ manager' = m
      BY <2>2 DEF OnGlobalManager, Handle
    <3>2. S = outputs /\ S \subseteq Outputs
      BY <2>2 DEF IInv, TypeOK, Account, OutputsKnown
    <3> HIDE DEF S
    <3>3. SUFFICES ASSUME conn = "up", m \in present, NEW o \in (outputs \cap present) \ taken
                   PROVE  /\ control'[o] # 0 /\ holder'[o] = control'[o]
                          /\ Ev("size", o) \in ToSet(queue')
      BY <1>1, <1>2, <3>1 DEF ControlsHeld
    <3>4. o \in Granted(S, m) /\ o \in Outputs /\ o \in S
      BY <3>2, <3>3 DEF Granted, Answers
    <3>5. control'[o] = m /\ holder'[o] = m
      BY <3>1, <3>4 DEF BindControls
    <3>6. QED
      BY <3>1, <3>2, <3>3, <3>4, <3>5, BindAnswers
  <2>3. QED
    BY <2>1, <2>2
<1>7. QED
  BY <1>5, <1>6 DEF Account

LEMMA OutputAccount ==
    ASSUME IInv, Account, NEW o \in Outputs, OnGlobalOutput(o)
    PROVE  Account'
<1> DEFINE S == IF manager = 0 THEN {} ELSE {o}
<1>1. /\ ToSet(queue) \subseteq ToSet(Tail(queue)) \cup {Ev("global", o)}
      /\ UNCHANGED <<present, gone, taken, conn, sets>>
  BY HandleKeeps DEF OnGlobalOutput
<1>2. /\ outputs' = outputs \cup {o} /\ BindControls(S, manager)
      /\ \A p \in Outputs \ {o} : size'[p] = size[p]
      /\ UNCHANGED <<manager, white, user>>
  BY DEF OnGlobalOutput, IInv, TypeOK
<1>3. queue # <<>> /\ S \subseteq Outputs
  BY DEF OnGlobalOutput, Handle
<1>4. /\ ToSet(Tail(queue)) \subseteq ToSet(queue')
      /\ \A p \in Granted(S, manager) : Ev("size", p) \in ToSet(queue')
  <2> HIDE DEF S
  <2>1. QED
    BY <1>2, <1>3, BindAnswers
<1>5. /\ \A p \in Outputs \ {o} : Ev("global", p) # Ev("global", o)
      /\ \A p \in Outputs : Ev("size", p) # Ev("global", o)
      /\ \A m \in Managers : Ev("global", m) # Ev("global", o)
  BY EvDistinct
<1>6. \A p \in Outputs \ {o} : control'[p] = control[p] /\ holder'[p] = holder[p]
  BY <1>2 DEF BindControls, Granted
<1>7. ManagerKnown' /\ SetApplied'
  BY <1>1, <1>2, <1>4, <1>5 DEF Account, ManagerKnown, SetApplied
<1>8. OutputsKnown'
  <2>1. manager = 0 => control'[o] = control[o]
    BY <1>2 DEF BindControls
  <2>2. QED
    BY <1>1, <1>2, <1>4, <1>5, <1>6, <2>1 DEF Account, OutputsKnown
<1>9. ControlsHeld'
  <2> SUFFICES ASSUME conn = "up", manager \in present, NEW p \in (outputs' \cap present) \ taken
               PROVE  /\ control'[p] # 0 /\ holder'[p] = control'[p]
                      /\ size'[p] \/ Ev("size", p) \in ToSet(queue')
    BY <1>1, <1>2 DEF ControlsHeld
  <2>1. CASE p = o
    <3>1. o \in S /\ o \in Granted(S, manager)
      <4>1. manager # 0
        BY DEF IInv, TypeOK
      <4>2. QED
        BY <2>1, <4>1 DEF Granted, Answers
    <3>2. control'[o] = manager /\ holder'[o] = manager
      BY <1>2, <3>1 DEF BindControls
    <3>3. QED
      BY <1>4, <2>1, <3>1, <3>2
  <2>2. CASE p # o
    <3>1. p \in (outputs \cap present) \ taken /\ p \in Outputs
      BY <1>2, <2>2 DEF IInv, TypeOK
    <3>2. QED
      BY <1>1, <1>2, <1>4, <1>5, <1>6, <2>2, <3>1 DEF Account, ControlsHeld
  <2>3. QED
    BY <2>1, <2>2
<1>10. QED
  BY <1>7, <1>8, <1>9 DEF Account

(* Only here it matters that no global that went has the number of the
   manager's object: it would take the manager away. *)
LEMMA RemoveAccount ==
    ASSUME IInv, Account, NEW n \in Outputs \cup Managers, n # ManagerId, OnGlobalRemove(n)
    PROVE  Account'
<1>1. /\ ToSet(queue) \subseteq ToSet(Tail(queue)) \cup {Ev("remove", n)}
      /\ UNCHANGED <<present, gone, taken, conn, sets>>
  BY HandleKeeps DEF OnGlobalRemove
<1>2. PICK e \in ToSet(queue) : e.kind = "remove" /\ e.name = n /\ Honest(e)
  BY HandleFacts DEF OnGlobalRemove
<1>3. n \notin present
  BY <1>2 DEF Honest, IInv, HolderInv
<1>4. /\ queue' = Tail(queue) /\ outputs' = outputs \ {n}
      /\ \A o \in Outputs : control'[o] = IF o = n THEN 0 ELSE control[o]
      /\ UNCHANGED <<manager, size, holder, white, user>>
  BY DEF OnGlobalRemove
<1>5. \A m : Ev("global", m) # Ev("remove", n) /\ Ev("size", m) # Ev("remove", n)
  BY EvDistinct
<1>6. ManagerKnown' /\ OutputsKnown' /\ SetApplied'
  BY <1>1, <1>3, <1>4, <1>5 DEF Account, ManagerKnown, OutputsKnown, SetApplied
<1>7. ControlsHeld'
  BY <1>1, <1>3, <1>4, <1>5 DEF Account, ControlsHeld, IInv, TypeOK
<1>8. QED
  BY <1>6, <1>7 DEF Account

LEMMA SizeAccount ==
    ASSUME IInv, Account, NEW o \in Outputs, OnGammaSize(o)
    PROVE  Account'
<1>1. /\ ToSet(queue) \subseteq ToSet(Tail(queue)) \cup {Ev("size", o)}
      /\ UNCHANGED <<present, gone, taken, conn, sets>>
  BY HandleKeeps DEF OnGammaSize
<1>2. /\ queue' = Tail(queue) /\ size'[o]
      /\ \A p \in Outputs \ {o} : size'[p] = size[p]
      /\ UNCHANGED <<manager, outputs, control, holder, white, user>>
  BY DEF OnGammaSize, IInv, TypeOK
<1>3. /\ \A p : Ev("global", p) # Ev("size", o)
      /\ \A p \in Outputs \ {o} : Ev("size", p) # Ev("size", o)
  BY EvDistinct
<1>4. ManagerKnown' /\ OutputsKnown' /\ SetApplied'
  BY <1>1, <1>2, <1>3 DEF Account, ManagerKnown, OutputsKnown, SetApplied
<1>5. ControlsHeld'
  <2> SUFFICES ASSUME conn = "up", manager \in present, NEW p \in (outputs \cap present) \ taken
               PROVE  /\ control[p] # 0 /\ holder[p] = control[p]
                      /\ size'[p] \/ Ev("size", p) \in ToSet(queue')
    BY <1>1, <1>2 DEF ControlsHeld
  <2>1. p \in Outputs /\ control[p] # 0 /\ holder[p] = control[p]
    BY DEF Account, ControlsHeld, IInv, TypeOK
  <2>2. CASE p = o
    BY <1>2, <2>1, <2>2
  <2>3. CASE p # o
    BY <1>1, <1>2, <1>3, <2>1, <2>3 DEF Account, ControlsHeld
  <2>4. QED
    BY <2>2, <2>3
<1>6. QED
  BY <1>4, <1>5 DEF Account

LEMMA FailedAccount ==
    ASSUME IInv, Account, NEW o \in Outputs, OnFailed(o)
    PROVE  Account'
<1>1. /\ ToSet(queue) \subseteq ToSet(Tail(queue)) \cup {Ev("failed", o)}
      /\ UNCHANGED <<present, gone, taken, conn, sets>>
  BY HandleKeeps DEF OnFailed
<1>2. PICK e \in ToSet(queue) : e.kind = "failed" /\ e.name = o /\ Honest(e)
  BY HandleFacts DEF OnFailed
<1>3. o \in taken \/ o \notin present
  BY <1>2 DEF Honest, IInv, HolderInv
<1>4. /\ queue' = Tail(queue)
      /\ \A p \in Outputs : control'[p] = IF p = o THEN 0 ELSE control[p]
      /\ UNCHANGED <<manager, outputs, size, holder, white, user>>
  BY DEF OnFailed, IInv, TypeOK
<1>5. \A p : Ev("global", p) # Ev("failed", o) /\ Ev("size", p) # Ev("failed", o)
  BY EvDistinct
<1>6. ManagerKnown' /\ OutputsKnown' /\ SetApplied'
  BY <1>1, <1>4, <1>5 DEF Account, ManagerKnown, OutputsKnown, SetApplied
<1>7. ControlsHeld'
  BY <1>1, <1>3, <1>4, <1>5 DEF Account, ControlsHeld, IInv, TypeOK
<1>8. QED
  BY <1>6, <1>7 DEF Account

LEMMA AnswerAccount ==
    ASSUME IInv, Account, OnDone \/ OnError
    PROVE  Account'
<1>1. PICK k \in {"done", "error"} :
        /\ ToSet(queue) \subseteq ToSet(Tail(queue)) \cup {Ev(k, 0)}
        /\ UNCHANGED <<present, gone, taken, conn, sets>>
  BY HandleKeeps DEF OnDone, OnError
<1>2. /\ queue' = Tail(queue)
      /\ UNCHANGED <<manager, outputs, control, holder, size>>
      /\ white' = sets \/ UNCHANGED <<white, user>>
  BY DEF OnDone, OnError, outputVars
<1>3. \A p : Ev("global", p) # Ev(k, 0) /\ Ev("size", p) # Ev(k, 0)
  BY EvDistinct
<1>4. ManagerKnown' /\ OutputsKnown' /\ SetApplied'
  BY <1>1, <1>2, <1>3 DEF Account, ManagerKnown, OutputsKnown, SetApplied
<1>5. ControlsHeld'
  BY <1>1, <1>2, <1>3 DEF Account, ControlsHeld, IInv, TypeOK
<1>6. QED
  BY <1>4, <1>5 DEF Account

(* The account is kept until a global goes that has the number of the
   manager's object. *)
Reckoned == ManagerId \notin gone => Account

LEMMA StepReckoned == IInv /\ Reckoned /\ [Next]_vars => Reckoned'
<1> SUFFICES ASSUME IInv, Reckoned, [Next]_vars, ManagerId \notin gone' PROVE Account'
  BY DEF Reckoned
<1> DEFINE Quiescent == AnswerSync \/ EndConnection \/ Set \/ TakeFatal \/ UNCHANGED vars
<1>1. CASE Dispatch
  <2>1. gone' = gone /\ Account
    BY <1>1 DEF Dispatch, OnGlobalManager, OnGlobalOutput, OnGammaSize, OnFailed,
                OnGlobalRemove, OnDone, OnError, Handle, serverVars, Reckoned
  <2>2. ASSUME NEW n \in Outputs \cup Managers, OnGlobalRemove(n) PROVE Account'
    <3>1. n \in gone
      BY <2>2, HandleFacts DEF OnGlobalRemove, Honest
    <3>2. QED
      BY <2>1, <2>2, <3>1, RemoveAccount
  <2>3. QED
    BY <1>1, <2>1, <2>2, ManagerAccount, OutputAccount, SizeAccount, FailedAccount, AnswerAccount
    DEF Dispatch
<1>2. CASE \E n \in Outputs \cup Managers : Announce(n) \/ Withdraw(n)
  <2>1. gone \subseteq gone'
    BY <1>2 DEF Announce, Withdraw
  <2>2. QED
    BY <1>2, <2>1, AnnounceAccount, WithdrawAccount DEF Reckoned
<1>3. CASE \E o \in Outputs : Take(o)
  <2>1. gone' = gone
    BY <1>3 DEF Take
  <2>2. QED
    BY <1>3, <2>1, TakeAccount DEF Reckoned
<1>4. CASE Quiescent
  <2>1. gone' = gone
    BY <1>4 DEF AnswerSync, EndConnection, Set, TakeFatal, vars, serverVars
  <2>2. QED
    BY <1>4, <2>1, OtherAccount DEF Reckoned
<1>5. QED
  BY <1>1, <1>2, <1>3, <1>4 DEF Next

(* With no event left, the account says that every output that can have the
   white point has a control, a size, and so the white point set last. *)
LEMMA AccountTints ==
    ASSUME IInv, Reckoned
    PROVE  AllOutputsTinted
<1> SUFFICES ASSUME conn = "up", queue = <<>>, user = "select", sets # 0,
                    present \cap Managers # {}, manager \notin gone, Account,
                    NEW o \in (present \cap Outputs) \ taken
             PROVE  ramp[o] = sets
  BY DEF AllOutputsTinted, ManagerStands, Reckoned
<1>1. ToSet(queue) = {}
  BY DEF ToSet
<1>2. manager \in present /\ o \in outputs /\ white = sets
  BY <1>1 DEF Account, ManagerKnown, OutputsKnown, SetApplied
<1>3. control[o] # 0 /\ holder[o] = control[o] /\ size[o]
  BY <1>1, <1>2 DEF Account, ControlsHeld
<1>4. QED
  BY <1>2, <1>3 DEF IInv, RampIsCurrent

(* Every output that is there and that nobody took carries the white point of
   the last Set as soon as the events are handled: for any outputs, managers
   and object id and in whatever order they, their sizes, the takers and the
   calls of Set arrive.  It is so while the manager that was bound is there
   and no global that has gone had the number of its object, neither of which
   the client would notice: after that an output may stay as it is. *)
THEOREM EveryOutputIsTinted == Spec => []AllOutputsTinted
<1>1. Init => Reckoned
  BY InitAccount DEF Reckoned
<1>2. IInv /\ Reckoned /\ [Next]_vars => Reckoned'
  BY StepReckoned
<1>3. IInv /\ Reckoned => AllOutputsTinted
  BY AccountTints
<1>4. QED
  BY <1>1, <1>2, <1>3, Invariance, PTL DEF Spec, Safe

-----------------------------------------------------------------------------
(* The promise of the manager.                                             *)

(* Two events in their order, and an event that is there once at most. *)
Before(q, e, f) == \E i, j \in DOMAIN q : i < j /\ q[i] = e /\ q[j] = f
Once(q, e) == \A i, j \in DOMAIN q : q[i] = e /\ q[j] = e => i = j

(* The answer of sync is in the queue just while Set waits for it, and the
   announcement of an output the client does not know once at most. *)
OrderInv ==
    /\ Ev("done", 0) \in ToSet(queue) <=> user = "answered"
    /\ Once(queue, Ev("done", 0))
    /\ \A o \in Outputs : Once(queue, Ev("global", o))
    /\ \A o \in outputs : Ev("global", o) \notin ToSet(queue)

(* A granted control is the one the client has, and its size is known or on its
   way; whatever becomes of the manager it is from. *)
OwnedInv ==
    conn = "up" =>
        \A o \in Outputs : holder[o] # 0 =>
            /\ control[o] = holder[o]
            /\ size[o] \/ Ev("size", o) \in ToSet(queue)

(* A Set that is called is one more than have returned, and no output is ahead
   of those. *)
CountInv ==
    /\ user = "select" => sets = white
    /\ user \in {"asked", "answered"} => sets = white + 1
    /\ \A o \in Outputs : ramp[o] <= white

PromiseInv == OrderInv /\ OwnedInv /\ CountInv

-----------------------------------------------------------------------------
(* The order of the queue.                                                 *)

(* What is before another is there, and so is the other. *)
LEMMA BeforeIsIn ==
    ASSUME NEW q \in Seq(Event), NEW e, NEW f, Before(q, e, f)
    PROVE  e \in ToSet(q) /\ f \in ToSet(q)
BY DEF Before, ToSet

(* An event that is added comes after all others. *)
LEMMA AppendOrder ==
    ASSUME NEW q \in Seq(Event), NEW x \in Event, NEW e, NEW f
    PROVE  /\ e \in ToSet(Append(q, x)) <=> e \in ToSet(q) \/ e = x
           /\ Before(Append(q, x), e, f) <=> Before(q, e, f) \/ (e \in ToSet(q) /\ f = x)
           /\ Once(q, e) /\ (e = x => e \notin ToSet(q)) => Once(Append(q, x), e)
<1> DEFINE r == Append(q, x)
           n == Len(q)
<1>1. /\ n \in Nat /\ DOMAIN q = 1 .. n /\ DOMAIN r = 1 .. n + 1
      /\ r[n + 1] = x /\ \A i \in 1 .. n : r[i] = q[i]
  OBVIOUS
<1>2. (\E i \in 1 .. n : q[i] = e) <=> e \in ToSet(q)
  BY <1>1 DEF ToSet
<1>3. (\E i \in 1 .. n + 1 : r[i] = e) <=> e \in ToSet(r)
  BY <1>1 DEF ToSet
<1> HIDE DEF r, n
<1>4. e \in ToSet(r) <=> e \in ToSet(q) \/ e = x
  <2>1. \A i \in 1 .. n + 1 : i \in 1 .. n \/ i = n + 1
    BY <1>1
  <2>2. n + 1 \in 1 .. n + 1 /\ \A i \in 1 .. n : i \in 1 .. n + 1
    BY <1>1
  <2>3. QED
    BY <1>1, <1>2, <1>3, <2>1, <2>2
<1>5. Before(r, e, f) <=> Before(q, e, f) \/ (e \in ToSet(q) /\ f = x)
  <2>1. Before(r, e, f) <=> \E i, j \in 1 .. n + 1 : i < j /\ r[i] = e /\ r[j] = f
    BY <1>1 DEF Before
  <2>2. Before(q, e, f) <=> \E i, j \in 1 .. n : i < j /\ q[i] = e /\ q[j] = f
    BY <1>1 DEF Before
  <2>3. ASSUME NEW i \in 1 .. n + 1, NEW j \in 1 .. n + 1, i < j, r[i] = e, r[j] = f
        PROVE  Before(q, e, f) \/ (e \in ToSet(q) /\ f = x)
    <3>1. i \in 1 .. n /\ q[i] = e
      BY <1>1, <2>3
    <3>2. CASE j = n + 1
      BY <1>1, <1>2, <2>3, <3>1, <3>2
    <3>3. CASE j \in 1 .. n
      BY <1>1, <2>2, <2>3, <3>1, <3>3
    <3>4. QED
      BY <1>1, <3>2, <3>3
  <2>4. ASSUME NEW i \in 1 .. n, NEW j \in 1 .. n, i < j, q[i] = e, q[j] = f
        PROVE  Before(r, e, f)
    <3>1. i \in 1 .. n + 1 /\ j \in 1 .. n + 1 /\ r[i] = e /\ r[j] = f
      BY <1>1, <2>4
    <3>2. QED
      BY <2>1, <2>4, <3>1
  <2>5. ASSUME NEW i \in 1 .. n, q[i] = e, f = x PROVE Before(r, e, f)
    <3>1. i \in 1 .. n + 1 /\ n + 1 \in 1 .. n + 1 /\ i < n + 1 /\ r[i] = e /\ r[n + 1] = f
      BY <1>1, <2>5
    <3>2. QED
      BY <2>1, <3>1
  <2>6. QED
    BY <1>2, <2>1, <2>2, <2>3, <2>4, <2>5
<1>6. ASSUME Once(q, e), e = x => e \notin ToSet(q) PROVE Once(r, e)
  <2>1. \A i, j \in 1 .. n : q[i] = e /\ q[j] = e => i = j
    BY <1>1, <1>6 DEF Once
  <2>2. SUFFICES ASSUME NEW i \in 1 .. n + 1, NEW j \in 1 .. n + 1, r[i] = e, r[j] = e PROVE i = j
    BY <1>1 DEF Once
  <2>3. CASE e = x
    <3>1. \A k \in 1 .. n : r[k] # e
      BY <1>1, <1>2, <1>6, <2>3
    <3>2. i = n + 1 /\ j = n + 1
      BY <1>1, <2>2, <3>1
    <3>3. QED
      BY <3>2
  <2>4. CASE e # x
    <3>1. i \in 1 .. n /\ j \in 1 .. n
      BY <1>1, <2>2, <2>4
    <3>2. QED
      BY <1>1, <2>1, <2>2, <3>1
  <2>5. QED
    BY <2>3, <2>4
<1>7. QED
  BY <1>4, <1>5, <1>6 DEF r

(* The first event goes, and the others stay in their order. *)
LEMMA TailOrder ==
    ASSUME NEW q \in Seq(Event), q # <<>>, NEW e, NEW f
    PROVE  /\ e \in ToSet(Tail(q)) => e \in ToSet(q)
           /\ e \in ToSet(q) /\ e # Head(q) => e \in ToSet(Tail(q))
           /\ Before(Tail(q), e, f) => Before(q, e, f)
           /\ Before(q, e, f) /\ e # Head(q) => Before(Tail(q), e, f)
           /\ Once(q, e) => Once(Tail(q), e)
           /\ Once(q, e) /\ e = Head(q) => e \notin ToSet(Tail(q))
           /\ Once(q, f) /\ f = Head(q) => ~Before(q, e, f)
           /\ e = Head(q) /\ f \in ToSet(q) /\ e # f => Before(q, e, f)
<1> DEFINE t == Tail(q)
           n == Len(q)
<1>1. /\ n \in Nat /\ n > 0 /\ DOMAIN q = 1 .. n /\ DOMAIN t = 1 .. n - 1
      /\ Head(q) = q[1] /\ \A i \in 1 .. n - 1 : t[i] = q[i + 1] /\ i + 1 \in 1 .. n
  OBVIOUS
<1>2. \A g : g \in ToSet(q) <=> \E i \in 1 .. n : q[i] = g
  BY <1>1 DEF ToSet
<1>3. \A g : g \in ToSet(t) <=> \E i \in 1 .. n - 1 : t[i] = g
  BY <1>1 DEF ToSet
<1>4. Before(t, e, f) <=> \E i, j \in 1 .. n - 1 : i < j /\ t[i] = e /\ t[j] = f
  BY <1>1 DEF Before
<1>5. Before(q, e, f) <=> \E i, j \in 1 .. n : i < j /\ q[i] = e /\ q[j] = f
  BY <1>1 DEF Before
<1>6. \A g : Once(q, g) <=> \A i, j \in 1 .. n : q[i] = g /\ q[j] = g => i = j
  BY <1>1 DEF Once
<1>7. Once(t, e) <=> \A i, j \in 1 .. n - 1 : t[i] = e /\ t[j] = e => i = j
  BY <1>1 DEF Once
<1> HIDE DEF t, n
<1>8. \A i \in 1 .. n : i # 1 => i - 1 \in 1 .. n - 1 /\ t[i - 1] = q[i]
  <2> SUFFICES ASSUME NEW i \in 1 .. n, i # 1 PROVE i - 1 \in 1 .. n - 1 /\ t[i - 1] = q[i]
    OBVIOUS
  <2>1. i - 1 \in 1 .. n - 1 /\ (i - 1) + 1 = i
    BY <1>1
  <2>2. QED
    BY <1>1, <2>1
<1>9. e \in ToSet(t) => e \in ToSet(q)
  BY <1>1, <1>2, <1>3
<1>10. e \in ToSet(q) /\ e # Head(q) => e \in ToSet(t)
  BY <1>1, <1>2, <1>3, <1>8
<1>11. ASSUME NEW i \in 1 .. n - 1, NEW j \in 1 .. n - 1, i < j, t[i] = e, t[j] = f
       PROVE  Before(q, e, f)
  <2>1. i + 1 \in 1 .. n /\ j + 1 \in 1 .. n /\ i + 1 < j + 1 /\ q[i + 1] = e /\ q[j + 1] = f
    BY <1>1, <1>11
  <2>2. QED
    BY <1>5, <2>1
<1>12. ASSUME NEW i \in 1 .. n, NEW j \in 1 .. n, i < j, q[i] = e, q[j] = f, e # Head(q)
       PROVE  Before(t, e, f)
  <2>1. i # 1 /\ j # 1
    BY <1>1, <1>12
  <2>2. i - 1 \in 1 .. n - 1 /\ j - 1 \in 1 .. n - 1 /\ t[i - 1] = e /\ t[j - 1] = f
    BY <1>8, <1>12, <2>1
  <2>3. i - 1 < j - 1
    BY <1>1, <1>12
  <2>4. QED
    BY <1>4, <2>2, <2>3
<1>13. ASSUME Once(q, e), NEW i \in 1 .. n - 1, NEW j \in 1 .. n - 1, t[i] = e, t[j] = e PROVE i = j
  <2>1. i + 1 \in 1 .. n /\ j + 1 \in 1 .. n /\ q[i + 1] = e /\ q[j + 1] = e
    BY <1>1, <1>13
  <2>2. i + 1 = j + 1
    BY <1>6, <1>13, <2>1
  <2>3. QED
    BY <1>1, <2>2
<1>14. ASSUME Once(q, e), e = Head(q), NEW i \in 1 .. n - 1, t[i] = e PROVE FALSE
  <2>1. i + 1 \in 1 .. n /\ q[i + 1] = e /\ 1 \in 1 .. n /\ q[1] = e
    BY <1>1, <1>14
  <2>2. i + 1 = 1
    BY <1>6, <1>14, <2>1
  <2>3. QED
    BY <1>1, <2>2
<1>15. ASSUME Once(q, f), f = Head(q), NEW i \in 1 .. n, NEW j \in 1 .. n, i < j, q[j] = f PROVE FALSE
  <2>1. 1 \in 1 .. n /\ q[1] = f
    BY <1>1, <1>15
  <2>2. j = 1
    BY <1>6, <1>15, <2>1
  <2>3. QED
    BY <1>1, <1>15, <2>2
<1>16. ASSUME e = Head(q), NEW j \in 1 .. n, q[j] = f, e # f PROVE Before(q, e, f)
  <2>1. j # 1 /\ 1 \in 1 .. n /\ 1 < j /\ q[1] = e
    BY <1>1, <1>16
  <2>2. QED
    BY <1>5, <1>16, <2>1
<1>17. /\ Before(t, e, f) => Before(q, e, f)
       /\ Before(q, e, f) /\ e # Head(q) => Before(t, e, f)
  BY <1>4, <1>5, <1>11, <1>12
<1>18. Once(q, e) => Once(t, e)
  BY <1>7, <1>13
<1>19. Once(q, e) /\ e = Head(q) => e \notin ToSet(t)
  BY <1>3, <1>14
<1>20. Once(q, f) /\ f = Head(q) => ~Before(q, e, f)
  BY <1>5, <1>15
<1>21. e = Head(q) /\ f \in ToSet(q) /\ e # f => Before(q, e, f)
  BY <1>2, <1>16
<1>22. QED
  BY <1>9, <1>10, <1>17, <1>18, <1>19, <1>20, <1>21 DEF t

(* What is joined comes after, and is before nothing of a kind it does not have. *)
LEMMA JoinOrder ==
    ASSUME NEW q \in Seq(Event), NEW r \in Seq(Event), NEW e, NEW f
    PROVE  /\ e \in ToSet(q \o r) <=> e \in ToSet(q) \/ e \in ToSet(r)
           /\ f \notin ToSet(r) => (Before(q \o r, e, f) <=> Before(q, e, f))
           /\ Once(q, e) /\ e \notin ToSet(r) => Once(q \o r, e)
<1> DEFINE s == q \o r
           m == Len(q)
           n == Len(r)
<1>1. /\ m \in Nat /\ n \in Nat /\ DOMAIN q = 1 .. m /\ DOMAIN r = 1 .. n /\ DOMAIN s = 1 .. m + n
      /\ \A i \in 1 .. m : s[i] = q[i]
      /\ \A i \in 1 .. n : s[m + i] = r[i]
  OBVIOUS
<1>2. \A g : g \in ToSet(q) <=> \E i \in 1 .. m : q[i] = g
  BY <1>1 DEF ToSet
<1>3. \A g : g \in ToSet(r) <=> \E i \in 1 .. n : r[i] = g
  BY <1>1 DEF ToSet
<1>4. \A g : g \in ToSet(s) <=> \E i \in 1 .. m + n : s[i] = g
  BY <1>1 DEF ToSet
<1>5. Before(s, e, f) <=> \E i, j \in 1 .. m + n : i < j /\ s[i] = e /\ s[j] = f
  BY <1>1 DEF Before
<1>6. Before(q, e, f) <=> \E i, j \in 1 .. m : i < j /\ q[i] = e /\ q[j] = f
  BY <1>1 DEF Before
<1>7. Once(q, e) <=> \A i, j \in 1 .. m : q[i] = e /\ q[j] = e => i = j
  BY <1>1 DEF Once
<1>8. Once(s, e) <=> \A i, j \in 1 .. m + n : s[i] = e /\ s[j] = e => i = j
  BY <1>1 DEF Once
<1> HIDE DEF s, m, n
<1>9. \A i \in 1 .. m : i \in 1 .. m + n
  BY <1>1
<1>10. \A i \in 1 .. n : m + i \in 1 .. m + n
  BY <1>1
<1>11. ASSUME NEW i \in 1 .. m + n PROVE (i \in 1 .. m /\ s[i] = q[i]) \/ (i > m /\ s[i] \in ToSet(r))
  <2>1. CASE i \in 1 .. m
    BY <1>1, <2>1
  <2>2. CASE i > m
    <3>1. i - m \in 1 .. n /\ m + (i - m) = i
      BY <1>1, <2>2
    <3>2. s[i] = r[i - m]
      BY <1>1, <3>1
    <3>3. QED
      BY <1>3, <2>2, <3>1, <3>2
  <2>3. QED
    BY <1>1, <2>1, <2>2
<1>12. e \in ToSet(s) <=> e \in ToSet(q) \/ e \in ToSet(r)
  <2>1. e \in ToSet(s) => e \in ToSet(q) \/ e \in ToSet(r)
    BY <1>2, <1>4, <1>11
  <2>2. e \in ToSet(q) => e \in ToSet(s)
    BY <1>1, <1>2, <1>4, <1>9
  <2>3. e \in ToSet(r) => e \in ToSet(s)
    BY <1>1, <1>3, <1>4, <1>10
  <2>4. QED
    BY <2>1, <2>2, <2>3
<1>13. ASSUME f \notin ToSet(r) PROVE Before(s, e, f) <=> Before(q, e, f)
  <2>1. ASSUME NEW i \in 1 .. m + n, NEW j \in 1 .. m + n, i < j, s[i] = e, s[j] = f
        PROVE  Before(q, e, f)
    <3>1. j \in 1 .. m /\ q[j] = f
      BY <1>11, <1>13, <2>1
    <3>2. i \in 1 .. m
      BY <1>1, <2>1, <3>1
    <3>3. q[i] = e
      BY <1>1, <2>1, <3>2
    <3>4. QED
      BY <1>6, <2>1, <3>1, <3>2, <3>3
  <2>2. ASSUME NEW i \in 1 .. m, NEW j \in 1 .. m, i < j, q[i] = e, q[j] = f
        PROVE  Before(s, e, f)
    <3>1. s[i] = e /\ s[j] = f /\ i \in 1 .. m + n /\ j \in 1 .. m + n
      BY <1>1, <1>9, <2>2
    <3>2. QED
      BY <1>5, <2>2, <3>1
  <2>3. QED
    BY <1>5, <1>6, <2>1, <2>2
<1>14. ASSUME Once(q, e), e \notin ToSet(r) PROVE Once(s, e)
  <2>1. SUFFICES ASSUME NEW i \in 1 .. m + n, NEW j \in 1 .. m + n, s[i] = e, s[j] = e PROVE i = j
    BY <1>8
  <2>2. i \in 1 .. m /\ j \in 1 .. m /\ q[i] = e /\ q[j] = e
    BY <1>11, <1>14, <2>1
  <2>3. QED
    BY <1>7, <1>14, <2>2
<1>15. QED
  BY <1>12, <1>13, <1>14 DEF s

-----------------------------------------------------------------------------
(* What is ahead of the answer of sync, now and after a step. *)
LEMMA AheadIs == \A o : IsAhead(o) <=> Before(queue, Ev("size", o), Ev("done", 0))
BY DEF IsAhead, Before

(* The same after a step. *)
LEMMA AheadIsNext == \A o : IsAhead(o)' <=> Before(queue', Ev("size", o), Ev("done", 0))
BY DEF IsAhead, Before

(* Events of different kinds, or of different names, are different. *)
LEMMA EvApart ==
    /\ \A k, n, l, m : k # l => Ev(k, n) # Ev(l, m)
    /\ \A k, n, l, m : n # m => Ev(k, n) # Ev(l, m)
BY EvDistinct

(* An event of the compositor's own about an output that is known, or an error,
   comes after all there are. *)
LEMMA QueueGrows ==
    ASSUME IInv, OrderInv, NEW k \in {"remove", "failed", "error"},
           NEW n \in Outputs \cup Managers \cup {0}, queue' = Append(queue, Ev(k, n)),
           user' = user, outputs' = outputs
    PROVE  /\ OrderInv'
           /\ \A o : IsAhead(o)' <=> IsAhead(o)
           /\ ToSet(queue) \subseteq ToSet(queue')
<1> DEFINE x == Ev(k, n)
<1>1. queue \in Seq(Event) /\ x \in Event
  BY EvType DEF IInv, TypeOK
<1>2. \A m : Ev("global", m) # x /\ Ev("done", m) # x /\ Ev("size", m) # x
  BY EvApart
<1> HIDE DEF x
<1>3. \A e, f :
        /\ e \in ToSet(queue') <=> e \in ToSet(queue) \/ e = x
        /\ Before(queue', e, f) <=> Before(queue, e, f) \/ (e \in ToSet(queue) /\ f = x)
        /\ Once(queue, e) /\ (e = x => e \notin ToSet(queue)) => Once(queue', e)
  BY <1>1, AppendOrder DEF x
<1>4. OrderInv'
  <2>1. Ev("done", 0) \in ToSet(queue') <=> user' = "answered"
    BY <1>2, <1>3 DEF OrderInv
  <2>2. Once(queue', Ev("done", 0))
    BY <1>2, <1>3 DEF OrderInv
  <2>3. \A o \in Outputs : Once(queue', Ev("global", o))
    BY <1>2, <1>3 DEF OrderInv
  <2>4. \A o \in outputs' : Ev("global", o) \notin ToSet(queue')
    BY <1>2, <1>3 DEF OrderInv
  <2>5. QED
    BY <2>1, <2>2, <2>3, <2>4 DEF OrderInv, Once
<1>5. \A o : IsAhead(o)' <=> IsAhead(o)
  BY <1>2, <1>3, AheadIs, AheadIsNext
<1>6. QED
  BY <1>3, <1>4, <1>5

(* A handler takes the first event, other than the answer of sync, and what it
   asks for is answered after all there are. *)
LEMMA QueueTurns ==
    ASSUME IInv, OrderInv, NEW k \in {"global", "remove", "size", "failed", "error"},
           NEW n \in Outputs \cup Managers \cup {0}, Handle(k, n),
           NEW r \in Seq(Event), queue' = Tail(queue) \o r,
           \A e \in ToSet(r) : e.kind \in {"size", "failed"},
           user' = user, outputs' \subseteq outputs \cup (IF k = "global" THEN {n} \cap Outputs ELSE {})
    PROVE  /\ OrderInv'
           /\ \A o : IsAhead(o)' => IsAhead(o)
           /\ \A o : IsAhead(o) /\ Ev("size", o) # Ev(k, n) => IsAhead(o)'
           /\ \A e \in ToSet(queue) : e # Ev(k, n) => e \in ToSet(queue')
<1>1. queue \in Seq(Event) /\ queue # <<>> /\ Head(queue) = Ev(k, n)
  BY DEF IInv, TypeOK, Handle
<1> DEFINE t == Tail(queue)
           h == Ev(k, n)
           d == Ev("done", 0)
<1>2. t \in Seq(Event)
  BY <1>1
<1> HIDE DEF t, h, d
<1>3. \A e, f :
        /\ e \in ToSet(t) => e \in ToSet(queue)
        /\ e \in ToSet(queue) /\ e # h => e \in ToSet(t)
        /\ Before(t, e, f) => Before(queue, e, f)
        /\ Before(queue, e, f) /\ e # h => Before(t, e, f)
        /\ Once(queue, e) => Once(t, e)
        /\ Once(queue, e) /\ e = h => e \notin ToSet(t)
  BY <1>1, TailOrder DEF t, h
<1>4. \A e, f :
        /\ e \in ToSet(queue') <=> e \in ToSet(t) \/ e \in ToSet(r)
        /\ f \notin ToSet(r) => (Before(queue', e, f) <=> Before(t, e, f))
        /\ Once(t, e) /\ e \notin ToSet(r) => Once(queue', e)
  BY <1>2, JoinOrder DEF t
<1>5. d \notin ToSet(r) /\ \A m : Ev("global", m) \notin ToSet(r)
  BY DEF Ev, d
<1>6. d # h /\ \A m : Ev("size", m) # d
  BY EvApart DEF d, h
<1>7. OrderInv'
  <2>1. d \in ToSet(queue') <=> user' = "answered"
    BY <1>3, <1>4, <1>5, <1>6 DEF OrderInv, d
  <2>2. Once(queue', d)
    BY <1>3, <1>4, <1>5 DEF OrderInv, d
  <2>3. \A o \in Outputs : Once(queue', Ev("global", o))
    BY <1>3, <1>4, <1>5 DEF OrderInv
  <2>4. ASSUME NEW o \in outputs' PROVE Ev("global", o) \notin ToSet(queue')
    <3>1. Ev("global", o) \notin ToSet(t)
      <4>1. CASE o \in outputs
        BY <1>3, <4>1 DEF OrderInv
      <4>2. CASE k = "global" /\ o = n /\ o \in Outputs
        <5>1. Ev("global", o) = h /\ Once(queue, Ev("global", o))
          BY <4>2 DEF h, OrderInv
        <5>2. QED
          BY <1>3, <5>1
      <4>3. QED
        BY <2>4, <4>1, <4>2
    <3>2. QED
      BY <1>4, <1>5, <3>1
  <2>5. QED
    BY <2>1, <2>2, <2>3, <2>4 DEF OrderInv, Once, d
<1>8. \A o : IsAhead(o)' <=> Before(t, Ev("size", o), d)
  BY <1>4, <1>5, AheadIsNext DEF d
<1>9. \A o : IsAhead(o) <=> Before(queue, Ev("size", o), d)
  BY AheadIs DEF d
<1>10. QED
  BY <1>3, <1>4, <1>7, <1>8, <1>9 DEF h

(* A handler that asks for nothing. *)
LEMMA QueueShrinks ==
    ASSUME IInv, OrderInv, NEW k \in {"global", "remove", "size", "failed", "error"},
           NEW n \in Outputs \cup Managers \cup {0}, Handle(k, n),
           queue' = Tail(queue), user' = user, outputs' \subseteq outputs
    PROVE  /\ OrderInv'
           /\ \A o : IsAhead(o)' => IsAhead(o)
           /\ \A o : IsAhead(o) /\ Ev("size", o) # Ev(k, n) => IsAhead(o)'
           /\ \A e \in ToSet(queue) : e # Ev(k, n) => e \in ToSet(queue')
<1>1. Tail(queue) \in Seq(Event)
  BY TailElems DEF IInv, TypeOK, Handle
<1> DEFINE r == << >>
<1>2. r \in Seq(Event) /\ queue' = Tail(queue) \o r /\ \A e \in ToSet(r) : e.kind \in {"size", "failed"}
  BY <1>1 DEF ToSet
<1>3. outputs' \subseteq outputs \cup (IF k = "global" THEN {n} \cap Outputs ELSE {})
  OBVIOUS
<1> HIDE DEF r
<1>4. QED
  BY <1>2, <1>3, QueueTurns

(* What binding adds to the queue. *)
LEMMA BindAdds ==
    ASSUME IInv, queue # <<>>, NEW STATE S, S \subseteq Outputs, NEW STATE m, BindControls(S, m)
    PROVE  \E r \in Seq(Event) :
             /\ queue' = Tail(queue) \o r
             /\ \A e \in ToSet(r) : e.kind \in {"size", "failed"}
<1>1. PICK q \in SetToSeqs(S) :
        queue' = Tail(queue) \o
                   [i \in 1 .. (IF Answers(m) THEN Len(q) ELSE 0) |->
                      Ev(IF q[i] \in Granted(S, m) THEN "size" ELSE "failed", q[i])]
  BY DEF BindControls
<1>2. q \in Seq(S)
  BY FS_Subset, SeqsCover
<1> DEFINE N == IF Answers(m) THEN Len(q) ELSE 0
           r == [i \in 1 .. N |-> Ev(IF q[i] \in Granted(S, m) THEN "size" ELSE "failed", q[i])]
<1>3. N \in Nat /\ \A i \in 1 .. N : q[i] \in S
  BY <1>2
<1>4. \A i \in 1 .. N : r[i] \in Event /\ r[i].kind \in {"size", "failed"}
  BY <1>3, EvType
<1>5. r \in Seq(Event) /\ \A e \in ToSet(r) : e.kind \in {"size", "failed"}
  <2> HIDE DEF N
  <2>1. r \in [1 .. N -> Event]
    BY <1>4
  <2>2. r \in Seq(Event) /\ Len(r) = N
    BY <1>3, <2>1
  <2>3. QED
    BY <1>4, <2>2 DEF ToSet
<1>6. QED
  BY <1>1, <1>5

-----------------------------------------------------------------------------
(* Nothing of the promise is touched by a step that leaves the controls, the
   ramps and the order of the sizes as they are. *)
LEMMA PromiseStutters ==
    ASSUME Owned' = Owned, Held' = Held, Phase' = Phase, user' = user,
           UNCHANGED <<white, ramp>>, \A o \in Owned : o \notin Held => (IsAhead(o)' <=> IsAhead(o))
    PROVE  UNCHANGED Promised!vars
<1>1. Due' = Due
  BY DEF Due
<1>2. QED
  BY <1>1 DEF Promised!vars

(* At first nothing is granted, called or waiting. *)
LEMMA InitPromise == Init => PromiseInv /\ Promised!Init
<1> SUFFICES ASSUME Init PROVE PromiseInv /\ Promised!Init
  OBVIOUS
<1>1. ToSet(queue) = {} /\ DOMAIN queue = {}
  BY DEF Init, ToSet
<1>2. PromiseInv
  BY <1>1 DEF Init, PromiseInv, OrderInv, OwnedInv, CountInv, Once
<1>3. Owned = {} /\ Held = {} /\ Due = {} /\ Phase = "idle"
  BY DEF Init, Owned, Held, Due, Phase
<1>4. QED
  BY <1>2, <1>3 DEF Init, Promised!Init

(* A new global is announced once, and is the manager's only when it is bound. *)
LEMMA AnnounceKeepsPromise ==
    ASSUME IInv, PromiseInv, NEW n \in Outputs \cup Managers, Announce(n)
    PROVE  PromiseInv' /\ UNCHANGED Promised!vars
<1> DEFINE x == Ev("global", n)
<1>1. /\ n \notin present \cup gone /\ queue' = Append(queue, x)
      /\ UNCHANGED <<taken, conn, manager, outputs, control, holder, size, ramp, white, sets, user>>
  BY DEF Announce, outputVars, userVars
<1>2. queue \in Seq(Event) /\ x \in Event
  BY EvType DEF IInv, TypeOK
<1>3. x \notin ToSet(queue)
  <2>1. \A e \in ToSet(queue) : e.kind = "global" => e.name \in present \cup gone
    BY DEF IInv, QueueInv, Honest
  <2>2. x.kind = "global" /\ x.name = n
    BY EvType
  <2>3. QED
    BY <1>1, <2>1, <2>2
<1>4. n \notin outputs
  BY <1>1 DEF IInv, HolderInv
<1>5. /\ \A m : Ev("done", m) # x /\ Ev("size", m) # x
      /\ \A m : m # n => Ev("global", m) # x
  BY EvApart
<1> HIDE DEF x
<1>6. \A e, f :
        /\ e \in ToSet(queue') <=> e \in ToSet(queue) \/ e = x
        /\ Before(queue', e, f) <=> Before(queue, e, f) \/ (e \in ToSet(queue) /\ f = x)
        /\ Once(queue, e) /\ (e = x => e \notin ToSet(queue)) => Once(queue', e)
  BY <1>1, <1>2, AppendOrder
<1>7. OrderInv'
  <2>1. Ev("done", 0) \in ToSet(queue') <=> user' = "answered"
    BY <1>1, <1>5, <1>6 DEF PromiseInv, OrderInv
  <2>2. Once(queue', Ev("done", 0)) /\ \A o \in Outputs : Once(queue', Ev("global", o))
    BY <1>3, <1>6 DEF PromiseInv, OrderInv
  <2>3. \A o \in outputs' : Ev("global", o) \notin ToSet(queue')
    BY <1>1, <1>4, <1>5, <1>6 DEF PromiseInv, OrderInv
  <2>4. QED
    BY <2>1, <2>2, <2>3 DEF OrderInv, Once
<1>8. OwnedInv' /\ CountInv'
  BY <1>1, <1>6 DEF PromiseInv, OwnedInv, CountInv
<1>9. \A o : IsAhead(o)' <=> IsAhead(o)
  BY <1>5, <1>6, AheadIs, AheadIsNext
<1>10. Owned' = Owned /\ Held' = Held /\ Phase' = Phase
  BY <1>1 DEF Owned, Held, Phase
<1>11. QED
  BY <1>1, <1>7, <1>8, <1>9, <1>10, PromiseStutters DEF PromiseInv

(* An output that goes is lost, and its ramp is left as it is. *)
LEMMA WithdrawKeepsPromise ==
    ASSUME IInv, PromiseInv, NEW n \in Outputs \cup Managers, Withdraw(n)
    PROVE  PromiseInv' /\ [Promised!Next]_(Promised!vars)
<1>1. /\ queue' = Append(queue, Ev("remove", n))
      /\ holder' = [o \in Outputs |-> IF o = n THEN 0 ELSE holder[o]]
      /\ UNCHANGED <<conn, outputs, control, size, ramp, white, sets, user>>
  BY DEF Withdraw, userVars
<1>2. /\ OrderInv'
      /\ \A o : IsAhead(o)' <=> IsAhead(o)
      /\ ToSet(queue) \subseteq ToSet(queue')
  BY <1>1, QueueGrows DEF PromiseInv
<1>3. OwnedInv' /\ CountInv'
  BY <1>1, <1>2 DEF PromiseInv, OwnedInv, CountInv
<1>4. Owned' = Owned \ {n} /\ Held' = Held \ {n} /\ Phase' = Phase
  BY <1>1 DEF Owned, Held, Phase
<1>5. Due' = Due \ {n}
  BY <1>1, <1>2, <1>4 DEF Due
<1>6. n \notin Outputs => Owned \ {n} = Owned /\ Held \ {n} = Held /\ Due \ {n} = Due
  BY DEF Owned, Held, Due
<1>7. ASSUME n \in Outputs PROVE Promised!Lose(n)
  <2>1. ramp' = [ramp EXCEPT ![n] = ramp[n]]
    BY <1>1 DEF IInv, TypeOK
  <2>2. QED
    BY <1>1, <1>4, <1>5, <2>1 DEF Promised!Lose
<1>8. ASSUME n \notin Outputs PROVE UNCHANGED Promised!vars
  BY <1>1, <1>4, <1>5, <1>6, <1>8 DEF Promised!vars
<1>9. QED
  BY <1>2, <1>3, <1>7, <1>8 DEF PromiseInv, Promised!Next

(* An output another client takes is lost, and reset. *)
LEMMA TakeKeepsPromise ==
    ASSUME IInv, PromiseInv, NEW o \in Outputs, Take(o)
    PROVE  PromiseInv' /\ Promised!Lose(o)
<1>1. /\ queue' = queue \/ queue' = Append(queue, Ev("failed", o))
      /\ holder' = [holder EXCEPT ![o] = 0] /\ ramp' = [ramp EXCEPT ![o] = 0]
      /\ UNCHANGED <<conn, outputs, control, size, white, sets, user>>
  BY DEF Take, userVars
<1>2. /\ OrderInv'
      /\ \A p : IsAhead(p)' <=> IsAhead(p)
      /\ ToSet(queue) \subseteq ToSet(queue')
  <2>1. CASE queue' = queue
    BY <1>1, <2>1 DEF PromiseInv, OrderInv, Once, IsAhead
  <2>2. CASE queue' = Append(queue, Ev("failed", o))
    BY <1>1, <2>2, QueueGrows DEF PromiseInv
  <2>3. QED
    BY <1>1, <2>1, <2>2
<1>3. \A p \in Outputs : holder'[p] = (IF p = o THEN 0 ELSE holder[p]) /\ ramp'[p] = (IF p = o THEN 0 ELSE ramp[p])
  BY <1>1 DEF IInv, TypeOK
<1>4. OwnedInv'
  BY <1>1, <1>2, <1>3 DEF PromiseInv, OwnedInv
<1>5. CountInv'
  BY <1>1, <1>3 DEF PromiseInv, CountInv, IInv, TypeOK
<1>6. Owned' = Owned \ {o} /\ Held' = Held \ {o} /\ Phase' = Phase
  BY <1>1, <1>3 DEF Owned, Held, Phase
<1>7. Due' = Due \ {o}
  BY <1>1, <1>2, <1>6 DEF Due
<1>8. Promised!Lose(o)
  BY <1>1, <1>6, <1>7 DEF Promised!Lose
<1>9. QED
  BY <1>2, <1>4, <1>5, <1>8 DEF PromiseInv

(* Set is called, and is settled by the answer of sync; without a connection
   nothing is the manager's. *)
LEMMA OtherKeepsPromise ==
    ASSUME IInv, PromiseInv, AnswerSync \/ EndConnection \/ Set \/ TakeFatal \/ UNCHANGED vars
    PROVE  PromiseInv' /\ [Promised!Next]_(Promised!vars)
<1>1. CASE AnswerSync
  <2> DEFINE d == Ev("done", 0)
  <2>1. /\ conn = "up" /\ user = "asked" /\ user' = "answered" /\ queue' = Append(queue, d)
        /\ UNCHANGED <<conn, outputs, control, size, holder, ramp, white, sets>>
    BY <1>1 DEF AnswerSync, serverVars, outputVars
  <2>2. queue \in Seq(Event) /\ d \in Event
    BY EvType DEF IInv, TypeOK
  <2>3. d \notin ToSet(queue)
    BY <2>1 DEF PromiseInv, OrderInv
  <2>4. \A m : Ev("global", m) # d /\ Ev("size", m) # d
    BY EvApart
  <2>5. \A e, f :
          /\ e \in ToSet(queue') <=> e \in ToSet(queue) \/ e = d
          /\ Before(queue', e, f) <=> Before(queue, e, f) \/ (e \in ToSet(queue) /\ f = d)
          /\ Once(queue, e) /\ (e = d => e \notin ToSet(queue)) => Once(queue', e)
    <3> HIDE DEF d
    <3>1. QED
      BY <2>1, <2>2, AppendOrder
  <2>6. OrderInv'
    <3>1. d \in ToSet(queue') <=> user' = "answered"
      BY <2>1, <2>5
    <3>2. Once(queue', d) /\ \A o \in Outputs : Once(queue', Ev("global", o))
      BY <2>3, <2>5 DEF PromiseInv, OrderInv
    <3>3. \A o \in outputs' : Ev("global", o) \notin ToSet(queue')
      BY <2>1, <2>4, <2>5 DEF PromiseInv, OrderInv
    <3>4. QED
      BY <3>1, <3>2, <3>3 DEF OrderInv, Once
  <2>7. OwnedInv' /\ CountInv'
    BY <2>1, <2>5 DEF PromiseInv, OwnedInv, CountInv
  <2>8. Owned' = Owned /\ Held' = Held /\ Phase = "called" /\ Phase' = "waiting"
    BY <2>1 DEF Owned, Held, Phase
  <2>9. \A o \in Owned : o \in Held \/ IsAhead(o)'
    <3> SUFFICES ASSUME NEW o \in Owned, o \notin Held PROVE IsAhead(o)'
      OBVIOUS
    <3>1. Ev("size", o) \in ToSet(queue)
      BY <2>1 DEF Owned, Held, PromiseInv, OwnedInv
    <3>2. QED
      BY <2>5, <3>1, AheadIsNext
  <2>10. Due' = Owned
    BY <2>1, <2>8, <2>9 DEF Due
  <2>11. Promised!Settle
    BY <2>1, <2>8, <2>10 DEF Promised!Settle
  <2>12. QED
    BY <2>6, <2>7, <2>11 DEF PromiseInv, Promised!Next
<1>2. CASE EndConnection
  <2>1. /\ conn' = "ended" /\ queue' \in {queue, Append(queue, Ev("error", 0))}
        /\ UNCHANGED <<outputs, ramp, white, sets, user>>
    BY <1>2 DEF EndConnection, outputVars, userVars
  <2>2. OrderInv'
    <3>1. CASE queue' = queue
      BY <2>1, <3>1 DEF PromiseInv, OrderInv, Once
    <3>2. CASE queue' = Append(queue, Ev("error", 0))
      BY <2>1, <3>2, QueueGrows DEF PromiseInv
    <3>3. QED
      BY <2>1, <3>1, <3>2
  <2>3. OwnedInv' /\ CountInv'
    BY <2>1 DEF PromiseInv, OwnedInv, CountInv
  <2>4. Owned' = {} /\ Held' = {} /\ Due' = {} /\ Phase' = Phase
    BY <2>1 DEF Owned, Held, Due, Phase
  <2>5. Promised!Disconnect
    BY <2>1, <2>4 DEF Promised!Disconnect
  <2>6. QED
    BY <2>2, <2>3, <2>5 DEF PromiseInv, Promised!Next
<1>3. CASE Set \/ TakeFatal \/ UNCHANGED vars
  <2>1. /\ UNCHANGED <<queue, conn, outputs, control, size, holder, ramp, white>>
        /\ \/ UNCHANGED <<user, sets>>
           \/ user = "select" /\ conn = "up" /\ user' = "asked" /\ sets' = sets + 1
           \/ user = "select" /\ user' = "returned"
    BY <1>3 DEF Set, TakeFatal, vars, serverVars, outputVars, userVars
  <2>2. OrderInv' /\ OwnedInv' /\ CountInv'
    <3>1. OrderInv'
      BY <2>1 DEF PromiseInv, OrderInv, Once
    <3>2. OwnedInv'
      BY <2>1 DEF PromiseInv, OwnedInv
    <3>3. CountInv'
      BY <2>1 DEF PromiseInv, CountInv
    <3>4. QED
      BY <3>1, <3>2, <3>3
  <2>3. Owned' = Owned /\ Held' = Held /\ \A o : IsAhead(o)' <=> IsAhead(o)
    BY <2>1 DEF Owned, Held, IsAhead
  <2>4. Due' = Due
    BY <2>1, <2>3 DEF Due
  <2>5. Promised!Call \/ UNCHANGED Promised!vars
    BY <2>1, <2>3, <2>4 DEF Phase, Promised!Call, Promised!vars
  <2>6. QED
    BY <2>2, <2>5 DEF PromiseInv, Promised!Next
<1>4. QED
  BY <1>1, <1>2, <1>3

-----------------------------------------------------------------------------
(* The first manager is given the outputs that waited for it. *)
LEMMA ManagerKeepsPromise ==
    ASSUME IInv, PromiseInv, NEW m \in Managers, OnGlobalManager(m)
    PROVE  PromiseInv' /\ [Promised!Next]_(Promised!vars)
<1>1. Handle("global", m) /\ UNCHANGED <<outputs, size, white, user, present, taken, conn, sets>>
  BY DEF OnGlobalManager, Handle, serverVars
<1>2. \A o : Ev("size", o) # Ev("global", m)
  BY EvApart
<1>3. CASE manager # 0
  <2>1. queue' = Tail(queue) /\ UNCHANGED <<control, holder, ramp>>
    BY <1>3 DEF OnGlobalManager
  <2>2. /\ OrderInv'
        /\ \A o : IsAhead(o)' <=> IsAhead(o)
        /\ \A o : Ev("size", o) \in ToSet(queue) => Ev("size", o) \in ToSet(queue')
    BY <1>1, <1>2, <2>1, QueueShrinks DEF PromiseInv
  <2>3. OwnedInv' /\ CountInv'
    BY <1>1, <2>1, <2>2 DEF PromiseInv, OwnedInv, CountInv
  <2>4. Owned' = Owned /\ Held' = Held /\ Phase' = Phase
    BY <1>1, <2>1 DEF Owned, Held, Phase
  <2>5. UNCHANGED Promised!vars
    BY <1>1, <2>1, <2>2, <2>4, PromiseStutters
  <2>6. QED
    BY <2>2, <2>3, <2>5 DEF PromiseInv
<1>4. CASE manager = 0
  <2> DEFINE S == {o \in outputs : control[o] = 0}
             G == Granted(S, m)
  <2>1. BindControls(S, m) /\ ApplyOutputs(outputs) /\ S \subseteq Outputs /\ queue # <<>>
    BY <1>1, <1>4 DEF OnGlobalManager, Handle, IInv, TypeOK
  <2>2. \A o \in Outputs : /\ control'[o] = (IF o \in S THEN m ELSE control[o])
                           /\ holder'[o] = (IF o \in G THEN m ELSE holder[o])
    BY <2>1 DEF BindControls
  <2>3. \A o \in S : control[o] = 0 /\ o \in Outputs /\ o \in outputs
    BY <2>1
  <2>4. G \subseteq S /\ \A o \in G : conn = "up" /\ o \in present \ taken
    BY DEF Granted, Answers
  <2>5. m # 0
    OBVIOUS
  <2> HIDE DEF S, G
  <2>6. PICK r \in Seq(Event) :
          queue' = Tail(queue) \o r /\ \A e \in ToSet(r) : e.kind \in {"size", "failed"}
    BY <2>1, BindAdds
  <2>7. /\ OrderInv'
        /\ \A o : IsAhead(o)' <=> IsAhead(o)
        /\ \A o : Ev("size", o) \in ToSet(queue) => Ev("size", o) \in ToSet(queue')
    <3>1. outputs' \subseteq outputs \cup (IF "global" = "global" THEN {m} \cap Outputs ELSE {})
      BY <1>1
    <3>2. QED
      BY <1>1, <1>2, <2>6, <3>1, QueueTurns DEF PromiseInv
  <2>8. \A o \in G : Ev("size", o) \in ToSet(queue')
    BY <2>1, <2>4, BindAnswers DEF G
  (* An output that is granted now is new to the manager. *)
  <2>9. \A o \in S : conn = "up" => holder[o] = 0
    BY <2>3 DEF PromiseInv, OwnedInv
  <2>10. \A o \in G : ~size[o] /\ Ev("size", o) \notin ToSet(queue)
    <3> SUFFICES ASSUME NEW o \in G PROVE ~size[o] /\ Ev("size", o) \notin ToSet(queue)
      OBVIOUS
    <3>1. o \in S /\ o \in Outputs /\ o \in outputs /\ control[o] = 0 /\ o \notin taken \cup gone
      BY <2>3, <2>4 DEF IInv, HolderInv
    <3>2. ~size[o]
      BY <3>1 DEF IInv, StaleInv, TypeOK
    <3>3. ASSUME Ev("size", o) \in ToSet(queue) PROVE FALSE
      <4>1. Honest(Ev("size", o))
        BY <3>3 DEF IInv, QueueInv
      <4>2. Ev("size", o).kind = "size" /\ Ev("size", o).name = o
        BY DEF Ev
      <4>3. QED
        BY <3>1, <4>1, <4>2 DEF Honest
    <3>4. QED
      BY <3>2, <3>3
  <2>11. OwnedInv'
    <3> SUFFICES ASSUME conn = "up", NEW o \in Outputs, holder'[o] # 0
                 PROVE  /\ control'[o] = holder'[o]
                        /\ size'[o] \/ Ev("size", o) \in ToSet(queue')
      BY <1>1 DEF OwnedInv
    <3>1. CASE o \in G
      BY <2>2, <2>4, <2>8, <3>1
    <3>2. CASE o \notin G
      <4>1. holder[o] # 0 /\ holder'[o] = holder[o]
        BY <2>2, <3>2
      <4>2. control[o] = holder[o] /\ (size[o] \/ Ev("size", o) \in ToSet(queue))
        BY <4>1 DEF PromiseInv, OwnedInv
      <4>3. o \notin S
        BY <2>3, <4>1, <4>2
      <4>4. QED
        BY <1>1, <2>2, <2>7, <4>1, <4>2, <4>3
    <3>3. QED
      BY <3>1, <3>2
  (* Those that could be written have been; the others cannot be yet. *)
  <2>12. ramp' = ramp
    <3>1. ramp \in [Outputs -> 0 .. MaxSets]
      BY DEF IInv, TypeOK
    <3>2. ASSUME NEW o \in Outputs, white # 0, control'[o] # 0, size[o], holder'[o] = control'[o], conn = "up"
          PROVE  ramp[o] = white
      <4>1. CASE o \in S
        <5>1. holder'[o] = m
          BY <2>2, <3>2, <4>1
        <5>2. o \in G
          BY <2>2, <2>5, <2>9, <3>2, <4>1, <5>1
        <5>3. QED
          BY <2>10, <3>2, <5>2
      <4>2. CASE o \notin S
        <5>1. control[o] # 0 /\ holder[o] = control[o]
          BY <2>2, <2>4, <3>2, <4>2
        <5>2. QED
          BY <3>2, <5>1 DEF IInv, RampIsCurrent
      <4>3. QED
        BY <4>1, <4>2
    <3>3. \A o \in Outputs : ramp'[o] = ramp[o]
      BY <1>1, <2>1, <3>2 DEF ApplyOutputs
    <3>4. ramp' = [o \in Outputs |-> ramp'[o]]
      BY <2>1 DEF ApplyOutputs
    <3>5. QED
      BY <3>1, <3>3, <3>4
  <2>13. CountInv'
    BY <1>1, <2>12 DEF PromiseInv, CountInv
  <2>14. Owned' = Owned \cup G /\ G \cap Owned = {} /\ G \subseteq Outputs
    BY <1>1, <2>2, <2>3, <2>4, <2>5, <2>9 DEF Owned
  <2>15. Held' = Held
    <3>1. ASSUME NEW o \in G PROVE o \notin Held /\ o \notin Held'
      BY <1>1, <2>10, <3>1 DEF Held
    <3>2. ASSUME NEW o \in Outputs, o \notin G PROVE o \in Held' <=> o \in Held
      <4>1. holder'[o] = holder[o] /\ (o \in Owned' <=> o \in Owned)
        BY <2>2, <2>14, <3>2
      <4>2. o \in Owned => control'[o] = control[o]
        BY <2>2, <2>3 DEF Owned, PromiseInv, OwnedInv
      <4>3. QED
        BY <1>1, <4>1, <4>2 DEF Held
    <3>3. Held \subseteq Outputs /\ Held' \subseteq Outputs
      BY DEF Held, Owned
    <3>4. QED
      BY <3>1, <3>2, <3>3
  <2>16. Due' = Due
    <3>1. \A o \in G : ~IsAhead(o)
      <4>1. queue \in Seq(Event)
        BY DEF IInv, TypeOK
      <4>2. QED
        BY <2>10, <4>1, AheadIs, BeforeIsIn
    <3>2. \A o \in G : o \notin Held
      BY <2>10 DEF Held
    <3>3. QED
      BY <1>1, <2>7, <2>14, <2>15, <3>1, <3>2 DEF Due
  <2>17. Promised!Grant(G)
    BY <1>1, <2>12, <2>14, <2>15, <2>16 DEF Promised!Grant, Phase
  <2>18. QED
    BY <2>7, <2>11, <2>13, <2>14, <2>17 DEF PromiseInv, Promised!Next
<1>5. QED
  BY <1>3, <1>4

(* A new output is given to the manager that is bound, its size on the way. *)
LEMMA OutputKeepsPromise ==
    ASSUME IInv, PromiseInv, NEW o \in Outputs, OnGlobalOutput(o)
    PROVE  PromiseInv' /\ [Promised!Next]_(Promised!vars)
<1> DEFINE S == IF manager = 0 THEN {} ELSE {o}
           G == Granted(S, manager)
<1>1. /\ Handle("global", o) /\ outputs' = outputs \cup {o} /\ size' = [size EXCEPT ![o] = FALSE]
      /\ BindControls(S, manager) /\ S \subseteq Outputs /\ queue # <<>>
      /\ UNCHANGED <<ramp, white, user, present, taken, conn, sets>>
  BY DEF OnGlobalOutput, Handle, serverVars
<1>2. \A p \in Outputs : /\ control'[p] = (IF p \in S THEN manager ELSE control[p])
                         /\ holder'[p] = (IF p \in G THEN manager ELSE holder[p])
  BY <1>1 DEF BindControls
<1>3. /\ \A p \in S : p = o /\ manager # 0
      /\ G \subseteq S /\ \A p \in G : conn = "up" /\ p \in present \ taken
  BY DEF Granted, Answers
<1>4. /\ \A p \in Outputs : p # o => size'[p] = size[p]
      /\ ~size'[o]
  BY <1>1 DEF IInv, TypeOK
<1> HIDE DEF S, G
<1>5. PICK r \in Seq(Event) :
        queue' = Tail(queue) \o r /\ \A e \in ToSet(r) : e.kind \in {"size", "failed"}
  BY <1>1, BindAdds
<1>6. \A p : Ev("size", p) # Ev("global", o)
  BY EvApart
<1>7. /\ OrderInv'
      /\ \A p : IsAhead(p)' <=> IsAhead(p)
      /\ \A p : Ev("size", p) \in ToSet(queue) => Ev("size", p) \in ToSet(queue')
  <2>1. outputs' \subseteq outputs \cup (IF "global" = "global" THEN {o} \cap Outputs ELSE {})
    BY <1>1
  <2>2. /\ OrderInv'
        /\ \A p : IsAhead(p)' => IsAhead(p)
        /\ \A p : IsAhead(p) /\ Ev("size", p) # Ev("global", o) => IsAhead(p)'
        /\ \A e \in ToSet(queue) : e # Ev("global", o) => e \in ToSet(queue')
    <3>1. OrderInv /\ Handle("global", o) /\ user' = user
      BY <1>1 DEF PromiseInv
    <3>2. QED
      BY <1>5, <2>1, <3>1, QueueTurns
  <2>3. QED
    BY <1>6, <2>2
<1>8. \A p \in G : Ev("size", p) \in ToSet(queue')
  BY <1>1, <1>3, BindAnswers DEF G
(* The output is new to the client. *)
<1>9. o \notin outputs /\ control[o] = 0
  <2>1. Ev("global", o) \in ToSet(queue)
    <3>1. queue \in Seq(Event) /\ queue # <<>> /\ Head(queue) = Ev("global", o)
      BY <1>1 DEF IInv, TypeOK, Handle
    <3>2. QED
      BY <3>1, TailElems
  <2>2. QED
    BY <2>1 DEF PromiseInv, OrderInv, IInv, TypeOK
<1>10. conn = "up" => holder[o] = 0
  BY <1>9 DEF PromiseInv, OwnedInv
<1>11. \A p \in G : Ev("size", p) \notin ToSet(queue)
  <2> SUFFICES ASSUME o \in G, Ev("size", o) \in ToSet(queue) PROVE FALSE
    BY <1>3
  <2>1. o \notin taken \cup gone
    BY <1>3 DEF IInv, HolderInv
  <2>2. Honest(Ev("size", o))
    BY DEF IInv, QueueInv
  <2>3. Ev("size", o).kind = "size" /\ Ev("size", o).name = o
    BY DEF Ev
  <2>4. QED
    BY <1>9, <2>1, <2>2, <2>3 DEF Honest
<1>12. OwnedInv'
  <2> SUFFICES ASSUME conn = "up", NEW p \in Outputs, holder'[p] # 0
               PROVE  /\ control'[p] = holder'[p]
                      /\ size'[p] \/ Ev("size", p) \in ToSet(queue')
    BY <1>1 DEF OwnedInv
  <2>1. CASE p \in G
    BY <1>2, <1>3, <1>8, <2>1
  <2>2. CASE p \notin G
    <3>1. holder[p] # 0 /\ holder'[p] = holder[p] /\ p # o
      BY <1>2, <1>10, <2>2
    <3>2. control[p] = holder[p] /\ (size[p] \/ Ev("size", p) \in ToSet(queue))
      BY <3>1 DEF PromiseInv, OwnedInv
    <3>3. p \notin S
      BY <1>3, <3>1
    <3>4. QED
      BY <1>2, <1>4, <1>7, <3>1, <3>2, <3>3
  <2>3. QED
    BY <2>1, <2>2
<1>13. CountInv'
  BY <1>1 DEF PromiseInv, CountInv
<1>14. Owned' = Owned \cup G /\ G \cap Owned = {} /\ G \subseteq Outputs
  BY <1>1, <1>2, <1>3, <1>10 DEF Owned
<1>15. Held' = Held
  <2>1. o \notin Held /\ o \notin Held'
    BY <1>4, <1>9 DEF Held, Owned
  <2>2. ASSUME NEW p \in Outputs, p # o PROVE p \in Held' <=> p \in Held
    <3>1. p \notin S /\ p \notin G
      BY <1>3, <2>2
    <3>2. holder'[p] = holder[p] /\ control'[p] = control[p] /\ size'[p] = size[p]
      BY <1>2, <1>4, <2>2, <3>1
    <3>3. p \in Owned' <=> p \in Owned
      BY <1>14, <3>1
    <3>4. QED
      BY <3>2, <3>3 DEF Held
  <2>3. Held \subseteq Outputs /\ Held' \subseteq Outputs
    BY DEF Held, Owned
  <2>4. \A p : p \in Held' <=> p \in Held
    BY <2>1, <2>2, <2>3
  <2>5. QED
    BY <2>4
<1>16. Due' = Due
  <2>1. \A p \in G : ~IsAhead(p)
    <3>1. queue \in Seq(Event)
      BY DEF IInv, TypeOK
    <3>2. QED
      BY <1>11, <3>1, AheadIs, BeforeIsIn
  <2>2. \A p \in G : p \notin Held
    BY <1>14 DEF Held
  <2>3. QED
    BY <1>1, <1>7, <1>14, <1>15, <2>1, <2>2 DEF Due
<1>17. Promised!Grant(G)
  BY <1>1, <1>14, <1>15, <1>16 DEF Promised!Grant, Phase
<1>18. QED
  BY <1>7, <1>12, <1>13, <1>14, <1>17 DEF PromiseInv, Promised!Next

(* A control is taken back only of an output that is not the manager's. *)
LEMMA DroppedKeepsPromise ==
    ASSUME IInv, PromiseInv, NEW k \in {"remove", "failed"}, NEW n \in Outputs \cup Managers,
           Handle(k, n), queue' = Tail(queue), outputs' \subseteq outputs,
           \A o \in Outputs : control'[o] = control[o] \/ (o = n /\ control'[o] = 0),
           UNCHANGED <<size, holder, ramp, white, user>>
    PROVE  PromiseInv' /\ UNCHANGED Promised!vars
<1>1. UNCHANGED <<conn, sets>>
  BY DEF Handle, serverVars
<1>2. \A o : Ev("size", o) # Ev(k, n)
  BY EvApart
<1>3. /\ OrderInv'
      /\ \A o : IsAhead(o)' <=> IsAhead(o)
      /\ \A o : Ev("size", o) \in ToSet(queue) => Ev("size", o) \in ToSet(queue')
  BY <1>2, QueueShrinks DEF PromiseInv
<1>4. n \in Outputs => holder[n] = 0
  <2>1. PICK e \in ToSet(queue) : e.kind = k /\ e.name = n /\ Honest(e)
    BY HandleFacts
  <2>2. QED
    BY <2>1 DEF Honest, IInv, HolderInv
<1>5. \A o \in Outputs : holder[o] # 0 => control'[o] = control[o]
  BY <1>4
<1>6. OwnedInv'
  BY <1>1, <1>3, <1>5 DEF PromiseInv, OwnedInv
<1>7. CountInv'
  BY <1>1 DEF PromiseInv, CountInv
<1>8. Owned' = Owned /\ Phase' = Phase
  BY <1>1 DEF Owned, Phase
<1>9. Held' = Held
  BY <1>5, <1>8 DEF Held, Owned
<1>10. QED
  BY <1>3, <1>6, <1>7, <1>8, <1>9, PromiseStutters DEF PromiseInv

(* What the client forgets it no longer had. *)
LEMMA RemoveKeepsPromise ==
    ASSUME IInv, PromiseInv, NEW n \in Outputs \cup Managers, OnGlobalRemove(n)
    PROVE  PromiseInv' /\ UNCHANGED Promised!vars
<1>1. /\ Handle("remove", n) /\ queue' = Tail(queue) /\ outputs' \subseteq outputs
      /\ \A o \in Outputs : control'[o] = control[o] \/ (o = n /\ control'[o] = 0)
      /\ UNCHANGED <<size, holder, ramp, white, user>>
  BY DEF OnGlobalRemove
<1>2. QED
  BY <1>1, DroppedKeepsPromise

(* A control that has failed was not granted any more. *)
LEMMA FailedKeepsPromise ==
    ASSUME IInv, PromiseInv, NEW o \in Outputs, OnFailed(o)
    PROVE  PromiseInv' /\ UNCHANGED Promised!vars
<1>1. /\ Handle("failed", o) /\ queue' = Tail(queue) /\ outputs' \subseteq outputs
      /\ \A p \in Outputs : control'[p] = control[p] \/ (p = o /\ control'[p] = 0)
      /\ UNCHANGED <<size, holder, ramp, white, user>>
  BY DEF OnFailed, IInv, TypeOK
<1>2. QED
  BY <1>1, DroppedKeepsPromise

(* A fatal error says nothing of the outputs. *)
LEMMA ErrorKeepsPromise ==
    ASSUME IInv, PromiseInv, OnError
    PROVE  PromiseInv' /\ UNCHANGED Promised!vars
<1>1. /\ Handle("error", 0) /\ queue' = Tail(queue)
      /\ UNCHANGED <<conn, sets, outputs, control, size, holder, ramp, white, user>>
  BY DEF OnError, Handle, serverVars, outputVars
<1>2. \A o : Ev("size", o) # Ev("error", 0)
  BY EvApart
<1>3. /\ OrderInv'
      /\ \A o : IsAhead(o)' <=> IsAhead(o)
      /\ \A o : Ev("size", o) \in ToSet(queue) => Ev("size", o) \in ToSet(queue')
  BY <1>1, <1>2, QueueShrinks DEF PromiseInv
<1>4. OwnedInv' /\ CountInv'
  BY <1>1, <1>3 DEF PromiseInv, OwnedInv, CountInv
<1>5. Owned' = Owned /\ Held' = Held /\ Phase' = Phase
  BY <1>1 DEF Owned, Held, Phase
<1>6. QED
  BY <1>1, <1>3, <1>4, <1>5, PromiseStutters DEF PromiseInv

(* An output that can be written for the first time is. *)
LEMMA SizeKeepsPromise ==
    ASSUME IInv, PromiseInv, NEW o \in Outputs, OnGammaSize(o)
    PROVE  PromiseInv' /\ [Promised!Next]_(Promised!vars)
<1>1. /\ Handle("size", o) /\ queue' = Tail(queue) /\ size' = [size EXCEPT ![o] = TRUE]
      /\ ApplyOutputs({o})
      /\ UNCHANGED <<conn, sets, outputs, control, holder, white, user>>
  BY DEF OnGammaSize, Handle, serverVars
<1>2. /\ \A p \in Outputs : p # o => size'[p] = size[p]
      /\ size'[o]
  BY <1>1 DEF IInv, TypeOK
<1>3. \A p : p # o => Ev("size", p) # Ev("size", o)
  BY EvApart
<1>4. /\ OrderInv'
      /\ \A p : IsAhead(p)' => IsAhead(p)
      /\ \A p : IsAhead(p) /\ p # o => IsAhead(p)'
      /\ \A p : Ev("size", p) \in ToSet(queue) /\ p # o => Ev("size", p) \in ToSet(queue')
  BY <1>1, <1>3, QueueShrinks DEF PromiseInv
<1>5. OwnedInv'
  <2> SUFFICES ASSUME conn = "up", NEW p \in Outputs, holder[p] # 0
               PROVE  /\ control[p] = holder[p]
                      /\ size'[p] \/ Ev("size", p) \in ToSet(queue')
    BY <1>1 DEF OwnedInv
  <2>1. control[p] = holder[p] /\ (size[p] \/ Ev("size", p) \in ToSet(queue))
    BY DEF PromiseInv, OwnedInv
  <2>2. QED
    BY <1>2, <1>4, <2>1
<1>6. Owned' = Owned /\ Phase' = Phase /\ Held' = Held \cup (Owned \cap {o})
  <2>1. Owned' = Owned /\ Phase' = Phase
    BY <1>1 DEF Owned, Phase
  <2>2. \A p \in Owned : control[p] = holder[p] /\ p \in Outputs
    BY DEF Owned, PromiseInv, OwnedInv
  <2>3. QED
    BY <1>1, <1>2, <2>1, <2>2 DEF Held
<1>7. Due' = Due
  <2>1. ASSUME user = "answered", o \in Owned PROVE o \in Due /\ o \in Due'
    <3>1. IsAhead(o)
      <4>1. queue \in Seq(Event) /\ queue # <<>> /\ Head(queue) = Ev("size", o)
        BY <1>1 DEF IInv, TypeOK, Handle
      <4>2. Ev("done", 0) \in ToSet(queue) /\ Ev("size", o) # Ev("done", 0)
        BY <2>1, EvApart DEF PromiseInv, OrderInv
      <4>3. Before(queue, Ev("size", o), Ev("done", 0))
        BY <4>1, <4>2, TailOrder
      <4>4. QED
        BY <4>3, AheadIs
    <3>2. o \in Held'
      BY <1>6, <2>1
    <3>3. QED
      BY <1>1, <1>6, <2>1, <3>1, <3>2 DEF Due
  <2>2. ASSUME NEW p, p # o PROVE p \in Due' <=> p \in Due
    BY <1>1, <1>4, <1>6, <2>2 DEF Due
  <2>3. o \in Due \/ o \in Due' => user = "answered" /\ o \in Owned
    BY <1>1, <1>6 DEF Due
  <2>4. QED
    BY <2>1, <2>2, <2>3
<1>8. ramp' = [ramp EXCEPT ![o] = IF o \in Owned THEN white ELSE ramp[o]]
  <2>1. ramp \in [Outputs -> 0 .. MaxSets] /\ white \in 0 .. MaxSets
    BY DEF IInv, TypeOK
  <2>2. \A p \in Outputs : p # o => ramp'[p] = ramp[p]
    BY <1>1 DEF ApplyOutputs
  <2>3. ramp' = [p \in Outputs |-> ramp'[p]]
    BY <1>1 DEF ApplyOutputs
  <2>4. CASE o \in Owned
    <3>1. conn = "up" /\ holder[o] # 0 /\ control[o] = holder[o]
      BY <2>4 DEF Owned, PromiseInv, OwnedInv
    <3>2. CASE white = 0
      <4>1. ramp[o] = 0
        BY <2>1, <3>2 DEF PromiseInv, CountInv
      <4>2. ramp'[o] = ramp[o]
        BY <1>1, <3>2 DEF ApplyOutputs
      <4>3. QED
        BY <2>1, <2>2, <2>3, <2>4, <3>2, <4>1, <4>2
    <3>3. CASE white # 0 /\ applied[o] = white
      <4>1. size[o]
        BY <3>3 DEF IInv, WhiteInv
      <4>2. ramp[o] = white
        BY <3>1, <3>3, <4>1 DEF IInv, RampIsCurrent
      <4>3. ramp'[o] = ramp[o]
        BY <1>1, <3>3 DEF ApplyOutputs
      <4>4. QED
        BY <2>1, <2>2, <2>3, <2>4, <4>2, <4>3
    <3>4. CASE white # 0 /\ applied[o] # white
      <4>1. ramp'[o] = white
        BY <1>1, <1>2, <3>1, <3>4 DEF ApplyOutputs
      <4>2. QED
        BY <2>1, <2>2, <2>3, <2>4, <4>1
    <3>5. QED
      BY <3>2, <3>3, <3>4
  <2>5. CASE o \notin Owned
    <3>1. conn # "up" \/ holder[o] = 0
      BY <2>5 DEF Owned
    <3>2. ramp'[o] = ramp[o]
      BY <1>1, <3>1 DEF ApplyOutputs
    <3>3. QED
      BY <2>1, <2>2, <2>3, <2>5, <3>2
  <2>6. QED
    BY <2>4, <2>5
<1>9. CountInv'
  <2>1. \A p \in Outputs : ramp'[p] \in {ramp[p], white}
    BY <1>8 DEF IInv, TypeOK
  <2>2. white \in 0 .. MaxSets
    BY DEF IInv, TypeOK
  <2>3. QED
    BY <1>1, <2>1, <2>2 DEF PromiseInv, CountInv
<1>10. CASE o \in Owned
  <2>1. Promised!Adopt(o)
    BY <1>1, <1>6, <1>7, <1>8, <1>10 DEF Promised!Adopt
  <2>2. QED
    BY <1>4, <1>5, <1>9, <2>1 DEF PromiseInv, Promised!Next
<1>11. CASE o \notin Owned
  <2>1. ramp' = ramp
    BY <1>8, <1>11 DEF IInv, TypeOK
  <2>2. UNCHANGED Promised!vars
    BY <1>1, <1>6, <1>7, <1>11, <2>1 DEF Promised!vars
  <2>3. QED
    BY <1>4, <1>5, <1>9, <2>2 DEF PromiseInv
<1>12. QED
  BY <1>10, <1>11

(* Set returns: all it waits for can be written, since their sizes came before
   its answer, and every output that can be written gets the white point. *)
LEMMA DoneKeepsPromise ==
    ASSUME IInv, PromiseInv, OnDone
    PROVE  PromiseInv' /\ Promised!Return
<1> DEFINE d == Ev("done", 0)
<1>1. /\ queue' = Tail(queue) /\ white' = sets /\ user' = "select" /\ ApplyOutputs(outputs)
      /\ UNCHANGED <<conn, sets, outputs, control, size, holder>>
  BY DEF OnDone, Handle, serverVars
<1>2. queue \in Seq(Event) /\ queue # << >> /\ Head(queue) = d
  BY DEF OnDone, Handle, IInv, TypeOK
<1>3. \A m : Ev("size", m) # d /\ Ev("global", m) # d
  BY EvApart
<1>4. Once(queue, d) /\ d \in ToSet(queue)
  BY <1>2, TailElems DEF PromiseInv, OrderInv
<1> HIDE DEF d
<1>5. \A e :
        /\ e \in ToSet(queue') => e \in ToSet(queue)
        /\ e \in ToSet(queue) /\ e # d => e \in ToSet(queue')
        /\ Once(queue, e) => Once(queue', e)
        /\ d \notin ToSet(queue')
        /\ ~Before(queue, e, d)
  BY <1>1, <1>2, <1>4, TailOrder
<1>6. user = "answered" /\ sets = white + 1 /\ white \in Nat /\ sets \in Nat
  BY <1>4 DEF PromiseInv, OrderInv, CountInv, IInv, TypeOK, d
<1>7. OrderInv'
  <2>1. d \in ToSet(queue') <=> user' = "answered"
    BY <1>1, <1>5
  <2>2. Once(queue', d) /\ \A o \in Outputs : Once(queue', Ev("global", o))
    BY <1>4, <1>5 DEF PromiseInv, OrderInv
  <2>3. \A o \in outputs' : Ev("global", o) \notin ToSet(queue')
    BY <1>1, <1>5 DEF PromiseInv, OrderInv
  <2>4. QED
    BY <2>1, <2>2, <2>3 DEF OrderInv, Once, d
<1>8. OwnedInv'
  BY <1>1, <1>3, <1>5 DEF PromiseInv, OwnedInv
<1>9. CountInv'
  <2>1. \A o \in Outputs : ramp'[o] \in {ramp[o], white'}
    BY <1>1 DEF ApplyOutputs
  <2>2. \A o \in Outputs : ramp[o] <= white /\ ramp[o] \in Int
    BY DEF PromiseInv, CountInv, IInv, TypeOK
  <2>3. \A o \in Outputs : ramp'[o] <= white'
    BY <1>1, <1>6, <2>1, <2>2
  <2>4. QED
    BY <1>1, <2>3 DEF CountInv
<1>10. Owned' = Owned /\ Held' = Held /\ Phase = "waiting" /\ Phase' = "idle" /\ Due' = {}
  BY <1>1, <1>6 DEF Owned, Held, Phase, Due
<1>11. Due \subseteq Held
  BY <1>5, AheadIs DEF Due, d
<1>12. ramp' = [o \in Outputs |-> IF o \in Held THEN white' ELSE ramp[o]]
  <2>1. ramp' = [o \in Outputs |-> ramp'[o]]
    BY <1>1 DEF ApplyOutputs
  <2>2. ASSUME NEW o \in Held PROVE ramp'[o] = white'
    <3>1. o \in Outputs /\ conn = "up" /\ holder[o] # 0 /\ control[o] = holder[o] /\ size[o]
      BY DEF Held, Owned
    <3>2. o \in outputs
      BY <3>1 DEF IInv, TypeOK
    <3>3. applied[o] <= white /\ applied[o] \in Int
      BY <3>1 DEF IInv, WhiteInv, TypeOK
    <3>4. white' # 0 /\ applied[o] # white'
      BY <1>1, <1>6, <3>3
    <3>5. QED
      BY <1>1, <3>1, <3>2, <3>4 DEF ApplyOutputs
  <2>3. ASSUME NEW o \in Outputs, o \notin Held PROVE ramp'[o] = ramp[o]
    <3>1. ~(conn = "up" /\ control[o] # 0 /\ holder[o] = control[o] /\ size[o])
      BY <2>3 DEF Held, Owned
    <3>2. QED
      BY <1>1, <3>1 DEF ApplyOutputs
  <2>4. Held \subseteq Outputs
    BY DEF Held, Owned
  <2> HIDE DEF Held
  <2>5. \A o \in Outputs : ramp'[o] = IF o \in Held THEN white' ELSE ramp[o]
    BY <2>2, <2>3, <2>4
  <2>6. QED
    BY <2>1, <2>5
<1>13. Promised!Return
  BY <1>1, <1>6, <1>10, <1>11, <1>12 DEF Promised!Return
<1>14. QED
  BY <1>7, <1>8, <1>9, <1>13 DEF PromiseInv

(* Every step keeps the promise. *)
LEMMA StepKeepsPromise ==
    IInv /\ PromiseInv /\ [Next]_vars => PromiseInv' /\ [Promised!Next]_(Promised!vars)
<1> SUFFICES ASSUME IInv, PromiseInv, [Next]_vars
             PROVE  PromiseInv' /\ [Promised!Next]_(Promised!vars)
  OBVIOUS
<1>1. CASE Dispatch
  <2>1. CASE \E m \in Managers : OnGlobalManager(m)
    BY <2>1, ManagerKeepsPromise
  <2>2. CASE \E o \in Outputs : OnGlobalOutput(o)
    BY <2>2, OutputKeepsPromise
  <2>3. CASE \E o \in Outputs : OnGammaSize(o)
    BY <2>3, SizeKeepsPromise
  <2>4. CASE \E o \in Outputs : OnFailed(o)
    BY <2>4, FailedKeepsPromise
  <2>5. CASE \E n \in Outputs \cup Managers : OnGlobalRemove(n)
    BY <2>5, RemoveKeepsPromise
  <2>6. CASE OnDone
    BY <2>6, DoneKeepsPromise DEF Promised!Next
  <2>7. CASE OnError
    BY <2>7, ErrorKeepsPromise
  <2>8. QED
    BY <1>1, <2>1, <2>2, <2>3, <2>4, <2>5, <2>6, <2>7 DEF Dispatch
<1>2. CASE \E n \in Outputs \cup Managers : Announce(n)
  BY <1>2, AnnounceKeepsPromise
<1>3. CASE \E n \in Outputs \cup Managers : Withdraw(n)
  BY <1>3, WithdrawKeepsPromise
<1>4. CASE \E o \in Outputs : Take(o)
  <2>1. PICK o \in Outputs : PromiseInv' /\ Promised!Lose(o)
    BY <1>4, TakeKeepsPromise
  <2>2. QED
    BY <2>1 DEF Promised!Next
<1>5. CASE AnswerSync \/ EndConnection \/ Set \/ TakeFatal \/ UNCHANGED vars
  BY <1>5, OtherKeepsPromise
<1>6. QED
  BY <1>1, <1>2, <1>3, <1>4, <1>5 DEF Next

(* The manager implements what a gamma manager promises, for any outputs and
   managers, any object id of the manager and in every order of its events:
   an output that can be written carries the white point of the last Set that
   returned and goes back to no older one, and Set returns only when every
   output that was granted before it was answered, and has not been lost,
   carries the new one. *)
THEOREM RefinesGammaManager == Safe => ImplementsGammaManager
<1>1. Init => PromiseInv /\ Promised!Init
  BY InitPromise
<1>2. IInv /\ PromiseInv /\ [Next]_vars => PromiseInv' /\ [Promised!Next]_(Promised!vars)
  BY StepKeepsPromise
<1>3. Init => IInv
  BY InitInv
<1>4. IInv /\ [Next]_vars => IInv'
  BY StepInv
<1>5. QED
  BY <1>1, <1>2, <1>3, <1>4, PTL DEF Safe, ImplementsGammaManager, Promised!Spec

=============================================================================
