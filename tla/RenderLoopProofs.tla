-------------------------- MODULE RenderLoopProofs --------------------------
(***************************************************************************)
(* What RenderLoop guarantees for any number of modules, any goroutines    *)
(* and any frames.  The inductive invariant is built up in layers: types,  *)
(* the lock discipline of the back buffers, what a back buffer holds while *)
(* a callback renders, and from these the properties of RenderLoop.        *)
(***************************************************************************)
EXTENDS RenderLoop, SequenceTheorems, TLAPS

USE NAssumption, OwnerAssumption, FramesAssumption, NobodyAssumption

(* The fields of an element. *)
LEMMA ElementFields ==
    ASSUME NEW c, NEW i, NEW b
    PROVE  /\ [comma |-> c, name |-> i, block |-> b].comma = c
           /\ [comma |-> c, name |-> i, block |-> b].name = i
           /\ [comma |-> c, name |-> i, block |-> b].block = b
  OBVIOUS

(* Two sequences put one after the other. *)
LEMMA Concatenated ==
    ASSUME NEW E, NEW s \in Seq(E), NEW t \in Seq(E)
    PROVE  /\ Len(s \o t) = Len(s) + Len(t)
           /\ \A k \in 1 .. Len(s) : (s \o t)[k] = s[k]
           /\ \A k \in Len(s) + 1 .. Len(s) + Len(t) : (s \o t)[k] = t[k - Len(s)]
  OBVIOUS

(* A line grows by a sequence of elements. *)
LEMMA EmittedType ==
    ASSUME TypeOK, NEW i \in Instances
    PROVE  /\ Emitted(i) \in Seq(Element)
           /\ Len(Emitted(i)) = Len(buf1[i])
           /\ \A k \in 1 .. Len(buf1[i]) :
                  /\ Emitted(i)[k].comma = (comma \/ k > 1)
                  /\ Emitted(i)[k].name = i
                  /\ Emitted(i)[k].block = buf1[i][k]
<1> DEFINE n == Len(buf1[i])
           e(k) == [comma |-> comma \/ k > 1, name |-> i, block |-> buf1[i][k]]
<1>1. buf1[i] \in Seq(Blocks) /\ comma \in BOOLEAN
  BY DEF TypeOK
<1>2. n \in Nat
  BY <1>1
<1>3. \A k \in 1 .. n : buf1[i][k] \in Blocks
  BY <1>1
<1>4. \A k \in 1 .. n : e(k) \in Element
  BY <1>1, <1>3 DEF Element
<1>5. Emitted(i) = [k \in 1 .. n |-> e(k)]
  BY DEF Emitted
<1> HIDE DEF e, n
<1>6. Emitted(i) \in Seq(Element) /\ Len(Emitted(i)) = n
  BY <1>2, <1>4, <1>5
<1>7. \A k \in 1 .. n : Emitted(i)[k] = e(k)
  BY <1>5
<1>8. \A k \in 1 .. n : /\ e(k).comma = (comma \/ k > 1) /\ e(k).name = i
                             /\ e(k).block = buf1[i][k]
  BY ElementFields, Zenon DEF e
<1>9. QED
  BY <1>6, <1>7, <1>8, Zenon DEF n

-----------------------------------------------------------------------------
(* Every variable keeps its type: the index of the range stays within the
   instances, the buffers stay sequences of blocks. *)
THEOREM TypeCorrect == Safe => []TypeOK
<1>1. Init => TypeOK
  <2>1. << >> \in Seq(Blocks) /\ << >> \in Seq(Element) /\ << >> \in Frames
    OBVIOUS
  <2>2. N + 1 \in 1 .. N + 1
    OBVIOUS
  <2>3. QED
    BY <2>1, <2>2 DEF Init, TypeOK
<1>2. TypeOK /\ [Next]_vars => TypeOK'
  <2> SUFFICES ASSUME TypeOK, [Next]_vars PROVE TypeOK'
    OBVIOUS
  <2> USE DEF TypeOK
  <2>0. \A c \in Callers : Owner[c] \in Instances
    OBVIOUS
  <2>1. ASSUME NEW c \in Callers, Begin(c) PROVE TypeOK'
    <3>1. PICK f \in Frames, nw \in BOOLEAN : BeginUpdate(c, f, nw)
      BY <2>1 DEF Begin
    <3>2. << >> \in Seq(Blocks)
      OBVIOUS
    <3>3. QED
      BY <3>1, <3>2, <2>0 DEF BeginUpdate, mainVars
  <2>2. ASSUME NEW c \in Callers, Panic(c) PROVE TypeOK'
    BY <2>0, <2>2 DEF Panic, Forget, mainVars
  <2>3. ASSUME NEW c \in Callers, RenderBlock(c) PROVE TypeOK'
    <3> DEFINE i == Owner[c]
    <3>1. buf2[i] \in Seq(Blocks) /\ frame[c] \in Seq(Blocks)
      BY <2>0
    <3>2. frame[c][Len(buf2[i]) + 1] \in Blocks
      BY <2>3, <3>1 DEF RenderBlock
    <3>3. Append(buf2[i], frame[c][Len(buf2[i]) + 1]) \in Seq(Blocks)
      BY <3>1, <3>2
    <3>4. QED
      BY <2>0, <2>3, <3>3 DEF RenderBlock, updVars, mainVars
  <2>4. ASSUME NEW c \in Callers, Swap(c) PROVE TypeOK'
    BY <2>0, <2>4 DEF Swap, mainVars
  <2>5. ASSUME NEW c \in Callers, Invalidate(c) PROVE TypeOK'
    BY <2>0, <2>5 DEF Invalidate, bufVars, mainVars
  <2>6. ASSUME NEW c \in Callers, Return(c) PROVE TypeOK'
    BY <2>0, <2>6 DEF Return, Forget, mainVars
  <2>7. ASSUME WriteTo PROVE TypeOK'
    <3>1. next \in Instances
      BY <2>7 DEF WriteTo, Instances
    <3>2. line \o Emitted(next) \in Seq(Element)
      BY <3>1, EmittedType
    <3>3. next + 1 \in 1 .. N + 1
      BY <3>1 DEF Instances
    <3>4. comma' \in BOOLEAN /\ drawn' \in [Instances -> Seq(Blocks)]
      BY <2>7, <3>1 DEF WriteTo
    <3>5. QED
      BY <2>7, <3>2, <3>3, <3>4 DEF WriteTo, bufVars, updVars
  <2>8. ASSUME BeginLine PROVE TypeOK'
    <3>1. << >> \in Seq(Element) /\ 1 \in 1 .. N + 1
      OBVIOUS
    <3>2. QED
      BY <2>8, <3>1 DEF BeginLine, bufVars, updVars
  <2>9. ASSUME MainStep PROVE TypeOK'
    BY <2>7, <2>8, <2>9 DEF MainStep, Skip, DrainInv, InvDrained, DrainNow, EndLine,
       WaitNow, WaitInv, DelayTimer, DelayNow, bufVars, updVars, mainVars
  <2>10. ASSUME TimerFire PROVE TypeOK'
    BY <2>10 DEF TimerFire, bufVars, updVars
  <2>11. ASSUME UNCHANGED vars PROVE TypeOK'
    BY <2>11 DEF vars, bufVars, updVars, mainVars
  <2>12. QED
    BY <2>1, <2>2, <2>3, <2>4, <2>5, <2>6, <2>9, <2>10, <2>11 DEF Next, Progress
<1>3. QED
  BY <1>1, <1>2, PTL DEF Safe

-----------------------------------------------------------------------------
(* A goroutine inside Update holds the back buffer of its instance, so two
   goroutines of one instance are never inside Update together. *)
LockInv == \A c \in Callers : upd[c] # "idle" => buf2m[Owner[c]] = c

(* While a callback renders, the back buffer holds the blocks it has rendered
   so far and nothing else. *)
PrefixInv ==
    \A c \in Callers :
        upd[c] = "render" =>
            /\ Len(buf2[Owner[c]]) <= Len(frame[c])
            /\ \A k \in 1 .. Len(buf2[Owner[c]]) : buf2[Owner[c]][k] = frame[c][k]

WholeInv == TypeOK /\ LockInv /\ PrefixInv /\ WholeFrames

(* Sequences of one length with the same elements are equal. *)
LEMMA SameElements ==
    ASSUME NEW S, NEW s \in Seq(S), NEW t \in Seq(S), Len(s) = Len(t),
           \A k \in 1 .. Len(t) : s[k] = t[k]
    PROVE  s = t
<1>1. DOMAIN s = 1 .. Len(t) /\ DOMAIN t = 1 .. Len(t)
  OBVIOUS
<1>2. s = [k \in 1 .. Len(t) |-> s[k]] /\ t = [k \in 1 .. Len(t) |-> t[k]]
  BY <1>1
<1>3. QED
  BY <1>2, Zenon

(* A callback that has rendered every block has built its frame. *)
LEMMA RenderedIsFrame ==
    ASSUME WholeInv, NEW c \in Callers, upd[c] = "render",
           Len(buf2[Owner[c]]) = Len(frame[c])
    PROVE  buf2[Owner[c]] = frame[c] /\ buf2[Owner[c]] \in Frames
<1>1. buf2[Owner[c]] \in Seq(Blocks) /\ frame[c] \in Seq(Blocks) /\ frame[c] \in Frames
  BY DEF WholeInv, TypeOK
<1>2. \A k \in 1 .. Len(frame[c]) : buf2[Owner[c]][k] = frame[c][k]
  BY DEF WholeInv, PrefixInv
<1>3. buf2[Owner[c]] = frame[c]
  BY <1>1, <1>2, SameElements, Zenon
<1>4. QED
  BY <1>1, <1>3, Zenon

(* A step that does not touch the buffers, the locks or the callers keeps the
   lock discipline and the prefixes. *)
LEMMA CallersUndisturbed ==
    ASSUME WholeInv, UNCHANGED <<buf2, buf2m, updVars>>
    PROVE  LockInv' /\ PrefixInv'
  BY DEF WholeInv, LockInv, PrefixInv, updVars

(* Entering Update is only possible while nobody else of the instance is in
   it, and starts from an empty back buffer. *)
LEMMA BeginKeepsWhole ==
    ASSUME WholeInv, NEW c \in Callers, Begin(c)
    PROVE  LockInv' /\ PrefixInv' /\ WholeFrames'
<1>1. PICK f \in Frames, nw \in BOOLEAN : BeginUpdate(c, f, nw)
  BY DEF Begin
<1> DEFINE i == Owner[c]
<1>2. i \in Instances /\ buf2m[i] = Nobody /\ upd[c] = "idle"
  BY <1>1 DEF BeginUpdate
<1>3. /\ buf2m' = [buf2m EXCEPT ![i] = c] /\ buf2' = [buf2 EXCEPT ![i] = << >>]
      /\ upd' = [upd EXCEPT ![c] = "render"] /\ frame' = [frame EXCEPT ![c] = f]
      /\ UNCHANGED <<buf1, drawn>>
  BY <1>1 DEF BeginUpdate, mainVars
<1>4. \A d \in Callers : d # c /\ upd[d] # "idle" => Owner[d] # i
  BY <1>2 DEF WholeInv, LockInv
<1>5. LockInv'
  BY <1>2, <1>3, <1>4 DEF WholeInv, LockInv, TypeOK
<1>6. PrefixInv'
  <2> SUFFICES ASSUME NEW d \in Callers, upd'[d] = "render"
               PROVE  /\ Len(buf2'[Owner[d]]) <= Len(frame'[d])
                      /\ \A k \in 1 .. Len(buf2'[Owner[d]]) :
                             buf2'[Owner[d]][k] = frame'[d][k]
    BY DEF PrefixInv
  <2>1. CASE d = c
    <3>1. buf2'[i] = << >> /\ f \in Seq(Blocks)
      BY <1>2, <1>3 DEF WholeInv, TypeOK
    <3>2. frame'[c] = f
      BY <1>3 DEF WholeInv, TypeOK
    <3>3. QED
      BY <2>1, <3>1, <3>2
  <2>2. CASE d # c
    <3>1. upd[d] = "render" /\ frame'[d] = frame[d]
      BY <1>3, <2>2 DEF WholeInv, TypeOK
    <3>2. buf2'[Owner[d]] = buf2[Owner[d]]
      BY <1>2, <1>3, <1>4, <2>2, <3>1 DEF WholeInv, TypeOK
    <3>3. QED
      BY <3>1, <3>2 DEF WholeInv, PrefixInv
  <2>3. QED
    BY <2>1, <2>2
<1>7. QED
  BY <1>3, <1>5, <1>6 DEF WholeInv, WholeFrames

(* Every rendered block extends the prefix of its own goroutine, and reaches
   no other goroutine's back buffer. *)
LEMMA RenderKeepsWhole ==
    ASSUME WholeInv, NEW c \in Callers, RenderBlock(c)
    PROVE  LockInv' /\ PrefixInv' /\ WholeFrames'
<1> DEFINE i == Owner[c]
           n == Len(buf2[i])
<1>1. /\ i \in Instances /\ upd[c] = "render" /\ n < Len(frame[c])
      /\ buf2[i] \in Seq(Blocks) /\ frame[c] \in Seq(Blocks)
  BY DEF RenderBlock, WholeInv, TypeOK
<1>2. /\ buf2' = [buf2 EXCEPT ![i] = Append(buf2[i], frame[c][n + 1])]
      /\ UNCHANGED <<buf1, buf2m, upd, frame, drawn>>
  BY DEF RenderBlock, updVars, mainVars
<1>3. buf2'[i] = Append(buf2[i], frame[c][n + 1])
  BY <1>1, <1>2 DEF WholeInv, TypeOK
<1>4. /\ Len(buf2'[i]) = n + 1
      /\ \A k \in 1 .. n : buf2'[i][k] = buf2[i][k]
      /\ buf2'[i][n + 1] = frame[c][n + 1]
  BY <1>1, <1>3
<1>5. PrefixInv'
  <2> SUFFICES ASSUME NEW d \in Callers, upd[d] = "render"
               PROVE  /\ Len(buf2'[Owner[d]]) <= Len(frame[d])
                      /\ \A k \in 1 .. Len(buf2'[Owner[d]]) :
                             buf2'[Owner[d]][k] = frame[d][k]
    BY <1>2 DEF PrefixInv
  <2>1. CASE d = c
    <3>1. \A k \in 1 .. n : buf2[i][k] = frame[c][k]
      BY <1>1 DEF WholeInv, PrefixInv
    <3> HIDE DEF i
    <3>2. n \in Nat /\ Len(frame[c]) \in Nat
      BY <1>1
    <3>3. \A k \in 1 .. n + 1 : buf2'[i][k] = frame[c][k]
      BY <1>4, <3>1, <3>2
    <3>4. QED
      BY <1>1, <1>4, <2>1, <3>2, <3>3 DEF i
  <2>2. CASE d # c
    <3>1. Owner[d] # i
      BY <1>1, <2>2 DEF WholeInv, LockInv
    <3>2. buf2'[Owner[d]] = buf2[Owner[d]]
      BY <1>1, <1>2, <3>1 DEF WholeInv, TypeOK
    <3>3. QED
      BY <3>2 DEF WholeInv, PrefixInv
  <2>3. QED
    BY <2>1, <2>2
<1>6. QED
  BY <1>2, <1>5 DEF WholeInv, LockInv, WholeFrames

(* The swap publishes the frame the goroutine has finished. *)
LEMMA SwapKeepsWhole ==
    ASSUME WholeInv, NEW c \in Callers, Swap(c)
    PROVE  LockInv' /\ PrefixInv' /\ WholeFrames'
<1> DEFINE i == Owner[c]
<1>1. i \in Instances /\ upd[c] = "render" /\ Len(buf2[i]) = Len(frame[c])
  BY DEF Swap
<1>2. buf2[i] \in Frames
  BY <1>1, RenderedIsFrame
<1>3. /\ buf1' = [buf1 EXCEPT ![i] = buf2[i]] /\ buf2' = [buf2 EXCEPT ![i] = buf1[i]]
      /\ UNCHANGED <<buf2m, frame, drawn>>
      /\ upd' = [upd EXCEPT ![c] = IF buf1[i] = buf2[i] THEN "return" ELSE "invalidate"]
  BY DEF Swap, mainVars
<1>4. \A d \in Callers : d # c => upd'[d] = upd[d]
  BY <1>3 DEF WholeInv, TypeOK
<1>5. upd'[c] # "render" /\ upd'[c] # "idle"
  BY <1>3 DEF WholeInv, TypeOK
<1>6. \A d \in Callers : d # c /\ upd[d] = "render" => Owner[d] # i
  BY <1>1 DEF WholeInv, LockInv
<1>7. LockInv'
  BY <1>1, <1>3, <1>4 DEF WholeInv, LockInv
<1>8. PrefixInv'
  <2> SUFFICES ASSUME NEW d \in Callers, upd'[d] = "render"
               PROVE  /\ Len(buf2'[Owner[d]]) <= Len(frame[d])
                      /\ \A k \in 1 .. Len(buf2'[Owner[d]]) :
                             buf2'[Owner[d]][k] = frame[d][k]
    BY <1>3 DEF PrefixInv
  <2>1. upd[d] = "render" /\ Owner[d] # i
    BY <1>4, <1>5, <1>6
  <2>2. buf2'[Owner[d]] = buf2[Owner[d]]
    BY <1>1, <1>3, <2>1 DEF WholeInv, TypeOK
  <2>3. QED
    BY <2>1, <2>2 DEF WholeInv, PrefixInv
<1>9. WholeFrames'
  BY <1>1, <1>2, <1>3 DEF WholeInv, TypeOK, WholeFrames
<1>10. QED
  BY <1>7, <1>8, <1>9

(* Leaving Update, by return or by panic, frees only the goroutine's own
   back buffer. *)
LEMMA LeaveKeepsWhole ==
    ASSUME WholeInv, NEW c \in Callers, Panic(c) \/ Return(c)
    PROVE  LockInv' /\ PrefixInv' /\ WholeFrames'
<1>1. /\ Owner[c] \in Instances /\ upd[c] # "idle"
      /\ buf2m' = [buf2m EXCEPT ![Owner[c]] = Nobody]
      /\ upd' = [upd EXCEPT ![c] = "idle"] /\ frame' = [frame EXCEPT ![c] = << >>]
      /\ UNCHANGED <<buf1, buf2, drawn>>
  BY DEF Panic, Return, Forget, mainVars
<1>2. \A d \in Callers : d # c => upd'[d] = upd[d] /\ frame'[d] = frame[d]
  BY <1>1 DEF WholeInv, TypeOK
<1>3. upd'[c] = "idle"
  BY <1>1 DEF WholeInv, TypeOK
<1>4. \A d \in Callers : d # c /\ upd[d] # "idle" => Owner[d] # Owner[c]
  BY <1>1 DEF WholeInv, LockInv
<1>5. LockInv'
  BY <1>1, <1>2, <1>3, <1>4 DEF WholeInv, LockInv, TypeOK
<1>6. PrefixInv'
  BY <1>1, <1>2, <1>3 DEF WholeInv, PrefixInv
<1>7. QED
  BY <1>1, <1>5, <1>6 DEF WholeInv, WholeFrames

(* The loop draws what a front buffer holds, which is a whole frame. *)
LEMMA WriteKeepsWhole ==
    ASSUME WholeInv, WriteTo
    PROVE  LockInv' /\ PrefixInv' /\ WholeFrames'
<1>1. next \in Instances
  BY DEF WriteTo, WholeInv, TypeOK, Instances
<1>2. drawn' = [drawn EXCEPT ![next] = buf1[next]] /\ UNCHANGED <<buf1, buf2, buf2m, updVars>>
  BY DEF WriteTo, bufVars
<1>3. WholeFrames'
  BY <1>1, <1>2 DEF WholeInv, TypeOK, WholeFrames
<1>4. QED
  BY <1>2, <1>3, CallersUndisturbed

(* Every step keeps the invariant. *)
LEMMA WholeStep == TypeOK' /\ WholeInv /\ [Next]_vars => WholeInv'
<1> SUFFICES ASSUME TypeOK', WholeInv, [Next]_vars
             PROVE  LockInv' /\ PrefixInv' /\ WholeFrames'
  BY DEF WholeInv
<1>1. ASSUME NEW c \in Callers, Begin(c) PROVE LockInv' /\ PrefixInv' /\ WholeFrames'
  BY <1>1, BeginKeepsWhole
<1>2. ASSUME NEW c \in Callers, RenderBlock(c) PROVE LockInv' /\ PrefixInv' /\ WholeFrames'
  BY <1>2, RenderKeepsWhole
<1>3. ASSUME NEW c \in Callers, Swap(c) PROVE LockInv' /\ PrefixInv' /\ WholeFrames'
  BY <1>3, SwapKeepsWhole
<1>4. ASSUME NEW c \in Callers, Panic(c) \/ Return(c) PROVE LockInv' /\ PrefixInv' /\ WholeFrames'
  BY <1>4, LeaveKeepsWhole
<1>5. ASSUME NEW c \in Callers, Invalidate(c) PROVE LockInv' /\ PrefixInv' /\ WholeFrames'
  <2>1. \A d \in Callers : upd'[d] # "idle" => upd[d] # "idle"
    BY <1>5 DEF Invalidate, WholeInv, TypeOK
  <2>2. \A d \in Callers : upd'[d] = "render" => upd[d] = "render"
    BY <1>5 DEF Invalidate, WholeInv, TypeOK
  <2>3. QED
    BY <1>5, <2>1, <2>2
       DEF Invalidate, bufVars, mainVars, WholeInv, LockInv, PrefixInv, WholeFrames
<1>6. ASSUME MainStep PROVE LockInv' /\ PrefixInv' /\ WholeFrames'
  <2>1. CASE WriteTo
    BY <2>1, WriteKeepsWhole
  <2>2. CASE ~WriteTo
    <3>1. UNCHANGED <<bufVars, updVars, drawn>>
      BY <1>6, <2>2 DEF MainStep, Skip, DrainInv, InvDrained, DrainNow, BeginLine,
         EndLine, WaitNow, WaitInv, DelayTimer, DelayNow, mainVars
    <3>2. UNCHANGED <<buf1, buf2, buf2m, updVars, drawn>>
      BY <3>1 DEF bufVars
    <3>3. QED
      BY <3>2, CallersUndisturbed DEF WholeInv, WholeFrames
  <2>3. QED
    BY <2>1, <2>2
<1>7. ASSUME TimerFire \/ UNCHANGED vars PROVE LockInv' /\ PrefixInv' /\ WholeFrames'
  <2>1. UNCHANGED <<buf1, buf2, buf2m, updVars, drawn>>
    BY <1>7 DEF TimerFire, vars, bufVars, mainVars
  <2>2. QED
    BY <2>1, CallersUndisturbed DEF WholeInv, WholeFrames
<1>8. QED
  BY <1>1, <1>2, <1>3, <1>4, <1>5, <1>6, <1>7 DEF Next, Progress

LEMMA WholeInvariant == Safe => []WholeInv
<1>1. Init => LockInv /\ PrefixInv /\ WholeFrames
  BY DEF Init, LockInv, PrefixInv, WholeFrames
<1>2. LockInv /\ PrefixInv /\ WholeFrames /\ TypeOK => WholeInv
  BY DEF WholeInv
<1>3. QED
  BY <1>1, <1>2, TypeCorrect, WholeStep, PTL DEF Safe

(* Only whole frames are published or drawn, whoever renders at the same
   time, wherever a callback panics, and however the loop is scheduled. *)
THEOREM OnlyWholeFrames == Safe => []WholeFrames
<1>1. WholeInv => WholeFrames
  BY DEF WholeInv
<1>2. QED
  BY <1>1, WholeInvariant, PTL

-----------------------------------------------------------------------------
(* The second drain is only reached to render. *)
RenderDue == pc = "drainNow" => render

LEMMA DrainStep == TypeOK /\ RenderDue /\ [Next]_vars => RenderDue'
<1> SUFFICES ASSUME TypeOK, RenderDue, [Next]_vars PROVE RenderDue'
  OBVIOUS
<1>1. ASSUME UNCHANGED <<pc, render>> PROVE RenderDue'
  BY <1>1 DEF RenderDue
<1>2. ASSUME NEW c \in Callers, Begin(c) \/ Panic(c) \/ Progress(c) PROVE RenderDue'
  BY <1>1, <1>2 DEF Begin, BeginUpdate, Panic, Progress, RenderBlock, Swap, Invalidate,
     Return, mainVars
<1>3. ASSUME MainStep PROVE RenderDue'
  BY <1>3 DEF RenderDue, MainStep, Skip, DrainInv, InvDrained, DrainNow, BeginLine, WriteTo,
     EndLine, WaitNow, WaitInv, DelayTimer, DelayNow, mainVars
<1>4. ASSUME TimerFire \/ UNCHANGED vars PROVE RenderDue'
  BY <1>1, <1>4 DEF TimerFire, vars, mainVars
<1>5. QED
  BY <1>2, <1>3, <1>4 DEF Next

(* An instance the bar is behind on stays covered. *)
LEMMA NoLostUpdateStep == TypeOK /\ RenderDue /\ NoLostUpdate /\ [Next]_vars => NoLostUpdate'
<1> SUFFICES ASSUME TypeOK, RenderDue, NoLostUpdate, [Next]_vars,
                    NEW i \in Instances, drawn'[i] # buf1'[i]
             PROVE  Covered(i)'
  BY DEF NoLostUpdate
<1>0. drawn[i] # buf1[i] => Covered(i)
  BY DEF NoLostUpdate
<1>1. ASSUME NEW c \in Callers, Begin(c) \/ Panic(c) \/ RenderBlock(c)
      PROVE  Covered(i)'
  <2>1. UNCHANGED <<buf1, drawn, invCh, nowCh, render, pc, next>>
    BY <1>1 DEF Begin, BeginUpdate, Panic, RenderBlock, mainVars
  <2>2. \A d \in Callers : upd[d] = "invalidate" => upd'[d] = "invalidate"
    BY <1>1 DEF Begin, BeginUpdate, Panic, RenderBlock, Forget, updVars, TypeOK
  <2>3. QED
    BY <1>0, <2>1, <2>2 DEF Covered
<1>2. ASSUME NEW c \in Callers, Swap(c) PROVE Covered(i)'
  <2>1. UNCHANGED <<drawn, invCh, nowCh, render, pc, next>>
    BY <1>2 DEF Swap, mainVars
  <2>2. CASE i = Owner[c] /\ buf1[i] # buf2[i]
    <3>1. upd'[c] = "invalidate"
      BY <1>2, <2>2 DEF Swap, TypeOK
    <3>2. QED
      BY <2>2, <3>1 DEF Covered
  <2>3. CASE ~(i = Owner[c] /\ buf1[i] # buf2[i])
    <3>1. buf1'[i] = buf1[i]
      BY <1>2, <2>3 DEF Swap, TypeOK
    <3>2. \A d \in Callers : upd[d] = "invalidate" => upd'[d] = "invalidate"
      BY <1>2 DEF Swap, TypeOK
    <3>3. QED
      BY <1>0, <2>1, <3>1, <3>2 DEF Covered
  <2>4. QED
    BY <2>2, <2>3
<1>3. ASSUME NEW c \in Callers, Invalidate(c) PROVE Covered(i)'
  BY <1>3 DEF Invalidate, Covered, TypeOK
<1>4. ASSUME NEW c \in Callers, Return(c) PROVE Covered(i)'
  <2>1. UNCHANGED <<buf1, drawn, invCh, nowCh, render, pc, next>>
    BY <1>4 DEF Return, mainVars
  <2>2. \A d \in Callers : upd[d] = "invalidate" => upd'[d] = "invalidate"
    BY <1>4 DEF Return, Forget, TypeOK
  <2>3. QED
    BY <1>0, <2>1, <2>2 DEF Covered
<1>5. ASSUME WriteTo PROVE Covered(i)'
  <2>1. next \in Instances /\ next \in Int /\ i \in Int
    BY <1>5 DEF WriteTo, TypeOK, Instances
  <2>2. drawn' = [drawn EXCEPT ![next] = buf1[next]] /\ next' = next + 1
        /\ UNCHANGED <<buf1, invCh, nowCh, render, pc, upd>>
    BY <1>5 DEF WriteTo, bufVars, updVars
  <2>3. i # next /\ drawn'[i] = drawn[i]
    BY <2>1, <2>2 DEF TypeOK
  <2>4. QED
    BY <1>0, <2>1, <2>2, <2>3 DEF Covered
<1>6. ASSUME EndLine PROVE Covered(i)'
  BY <1>0, <1>6 DEF EndLine, Covered, bufVars, updVars, Instances, TypeOK
<1>7. ASSUME BeginLine PROVE Covered(i)'
  BY <1>7 DEF BeginLine, Covered, Instances
<1>8. ASSUME Skip \/ InvDrained \/ DrainInv \/ DrainNow \/ WaitNow \/ WaitInv
             \/ DelayTimer \/ DelayNow
      PROVE  Covered(i)'
  <2>1. CASE WaitNow \/ WaitInv \/ DelayNow
    BY <2>1 DEF WaitNow, WaitInv, DelayNow, Covered
  <2>2. CASE DrainInv \/ InvDrained \/ Skip
    BY <1>0, <2>2 DEF DrainInv, InvDrained, Skip, Covered, bufVars, updVars, mainVars
  <2>3. CASE DelayTimer
    BY <1>0, <2>3 DEF DelayTimer, Covered, bufVars, updVars
  <2>4. CASE DrainNow
    BY <2>4 DEF DrainNow, RenderDue, Covered
  <2>5. QED
    BY <1>8, <2>1, <2>2, <2>3, <2>4
<1>9. ASSUME TimerFire \/ UNCHANGED vars PROVE Covered(i)'
  BY <1>0, <1>9 DEF TimerFire, vars, bufVars, updVars, mainVars, Covered
<1>10. QED
  BY <1>1, <1>2, <1>3, <1>4, <1>5, <1>6, <1>7, <1>8, <1>9 DEF Next, MainStep, Progress

(* No update is lost: while the bar is behind on an instance, something still
   makes the loop draw it, so the loop never sleeps on a stale bar. *)
THEOREM NoUpdateIsLost == Safe => []NoLostUpdate
<1>1. Init => RenderDue /\ NoLostUpdate
  BY DEF Init, RenderDue, NoLostUpdate
<1>2. QED
  BY <1>1, TypeCorrect, DrainStep, NoLostUpdateStep, PTL DEF Safe

-----------------------------------------------------------------------------
(* The local "comma" of the loop says whether the line holds a block yet, and
   the line holds blocks of the instances before the next one only. *)
CommaInv ==
    /\ comma = (line # << >>)
    /\ \A k \in 1 .. Len(line) : line[k].name < next

(* The order of the blocks, apart from the commas. *)
LineInv == CommaInv /\ LineWellFormed

(* What WriteTo does to the line, place by place. *)
WrittenLine ==
    LET n == Len(line)
        m == Len(buf1[next])
    IN  /\ Len(line') = n + m
        /\ \A k \in 1 .. n : line'[k] = line[k]
        /\ \A k \in n + 1 .. n + m :
               /\ line'[k].comma = (comma \/ k - n > 1)
               /\ line'[k].name = next
               /\ line'[k].block = buf1[next][k - n]

LEMMA LineGrows ==
    ASSUME TypeOK, WriteTo, next \in Instances
    PROVE  WrittenLine
<1> DEFINE n == Len(line)
           m == Len(buf1[next])
<1>1. line \in Seq(Element) /\ buf1[next] \in Seq(Blocks)
  BY DEF TypeOK
<1>2. n \in Nat /\ m \in Nat
  BY <1>1
<1>3. line' = line \o Emitted(next)
  BY DEF WriteTo
<1>4. /\ Emitted(next) \in Seq(Element) /\ Len(Emitted(next)) = m
      /\ \A k \in 1 .. m :
             /\ Emitted(next)[k].comma = (comma \/ k > 1)
             /\ Emitted(next)[k].name = next
             /\ Emitted(next)[k].block = buf1[next][k]
  BY <1>1, EmittedType, Zenon
<1>5. /\ Len(line \o Emitted(next)) = n + Len(Emitted(next))
      /\ \A k \in 1 .. n : (line \o Emitted(next))[k] = line[k]
      /\ \A k \in n + 1 .. n + Len(Emitted(next)) :
             (line \o Emitted(next))[k] = Emitted(next)[k - n]
  <2>1. line \in Seq(Element) /\ Emitted(next) \in Seq(Element)
    BY <1>1, <1>4, Zenon
  <2>2. QED
    BY <2>1, Concatenated, Zenon
<1>6. /\ Len(line') = n + m
      /\ \A k \in 1 .. n : line'[k] = line[k]
      /\ \A k \in n + 1 .. n + m : line'[k] = Emitted(next)[k - n]
  BY <1>3, <1>4, <1>5, Zenon
<1>7. \A k \in n + 1 .. n + m : k - n \in 1 .. m
  BY <1>2
<1>8. \A k \in n + 1 .. n + m :
          /\ line'[k].comma = (comma \/ k - n > 1)
          /\ line'[k].name = next
          /\ line'[k].block = buf1[next][k - n]
  <2> TAKE k \in n + 1 .. n + m
  <2>1. line'[k] = Emitted(next)[k - n] /\ k - n \in 1 .. m
    BY <1>6, <1>7, Zenon
  <2> DEFINE j == k - n
  <2>3. j \in 1 .. m /\ line'[k] = Emitted(next)[j]
    BY <2>1
  <2> HIDE DEF j
  <2>4. /\ line'[k].comma = (comma \/ j > 1)
        /\ line'[k].name = next
        /\ line'[k].block = buf1[next][j]
    BY <1>4, <2>3, Zenon
  <2>5. QED
    BY <2>4, Zenon DEF j
<1>9. QED
  BY <1>6, <1>8, Zenon DEF WrittenLine

LEMMA WriteKeepsLine ==
    ASSUME TypeOK, LineInv, WriteTo
    PROVE  LineInv'
<1> DEFINE n == Len(line)
           m == Len(buf1[next])
<1>1. /\ next \in Instances /\ next \in Int /\ line \in Seq(Element) /\ comma \in BOOLEAN
      /\ buf1[next] \in Seq(Blocks)
  BY DEF WriteTo, TypeOK, Instances
<1>2. n \in Nat /\ m \in Nat
  BY <1>1
<1>3. /\ line' = line \o Emitted(next) /\ next' = next + 1
      /\ comma' = (comma \/ buf1[next] # << >>)
  BY DEF WriteTo
<1>4. /\ Emitted(next) \in Seq(Element) /\ Len(Emitted(next)) = m
      /\ \A k \in 1 .. m :
             /\ Emitted(next)[k].comma = (comma \/ k > 1)
             /\ Emitted(next)[k].name = next
  BY <1>1, EmittedType
<1>5. /\ Len(line') = n + m
      /\ \A k \in 1 .. n : line'[k] = line[k]
      /\ \A k \in n + 1 .. n + m : line'[k] = Emitted(next)[k - n]
  <2>1. Emitted(next) \in Seq(Element) /\ Len(Emitted(next)) = m
    BY <1>4
  <2>2. /\ Len(line \o Emitted(next)) = n + Len(Emitted(next))
        /\ \A k \in 1 .. n : (line \o Emitted(next))[k] = line[k]
        /\ \A k \in n + 1 .. n + Len(Emitted(next)) :
               (line \o Emitted(next))[k] = Emitted(next)[k - n]
    BY <1>1, <2>1, Concatenated, Zenon
  <2>3. QED
    BY <1>3, <2>1, <2>2, Zenon
<1>6. comma = (n # 0)
  BY <1>1 DEF LineInv, CommaInv
<1>7. comma' = (line' # << >>)
  <2>1. (buf1[next] # << >>) = (m # 0)
    BY <1>1
  <2>2. line' \in Seq(Element)
    BY <1>1, <1>3, <1>4
  <2>3. (line' # << >>) = (n + m # 0)
    BY <1>5, <2>2
  <2>4. (n + m # 0) = (n # 0 \/ m # 0)
    BY <1>2
  <2>5. QED
    BY <1>3, <1>6, <2>1, <2>3, <2>4
<1>8. \A k \in 1 .. n + m :
          /\ line'[k].comma = (k # 1)
          /\ line'[k].name <= next
          /\ k <= n => line'[k].name = line[k].name
          /\ k > n => line'[k].name = next
  <2> TAKE k \in 1 .. n + m
  <2>1. CASE k <= n
    <3>1. k \in 1 .. n /\ line'[k] = line[k]
      BY <1>2, <1>5, <2>1
    <3>2. line[k] \in Element /\ line[k].name < next /\ line[k].comma = (k # 1)
      BY <1>1, <3>1 DEF LineInv, CommaInv, LineWellFormed
    <3>3. line[k].name <= next
      BY <1>1, <3>2 DEF Element, Instances
    <3>4. QED
      BY <1>2, <2>1, <3>1, <3>2, <3>3
  <2>2. CASE k > n
    <3>1. k - n \in 1 .. m /\ k \in n + 1 .. n + m
      BY <1>2, <2>2
    <3>2. line'[k].comma = (comma \/ k - n > 1) /\ line'[k].name = next
      BY <1>4, <1>5, <3>1
    <3>3. (n # 0 \/ k - n > 1) = (k # 1)
      BY <1>2, <2>2
    <3>4. (comma \/ k - n > 1) = (k # 1)
      BY <1>6, <3>3, Zenon
    <3>5. line'[k].comma = (k # 1)
      BY <3>2, <3>4, Zenon
    <3>6. QED
      BY <1>1, <1>2, <2>2, <3>2, <3>5
  <2>3. QED
    BY <1>2, <2>1, <2>2
<1>9. LineWellFormed'
  <2> SUFFICES ASSUME NEW k \in 1 .. n + m, NEW j \in 1 .. k
               PROVE  line'[j].name <= line'[k].name
    BY <1>5, <1>8 DEF LineWellFormed
  <2>1. j \in 1 .. n + m /\ j \in Int /\ k \in Int /\ j <= k
    BY <1>2
  <2>2. CASE k > n
    BY <1>8, <2>1, <2>2
  <2>3. CASE k <= n
    <3>1. k \in 1 .. n /\ j <= n
      BY <1>2, <2>1, <2>3
    <3>2. QED
      BY <1>8, <2>1, <2>3, <3>1 DEF LineInv, LineWellFormed
  <2>4. QED
    BY <1>2, <2>1, <2>2, <2>3
<1>10. \A k \in 1 .. Len(line') : line'[k].name < next'
  <2> SUFFICES ASSUME NEW k \in 1 .. n + m PROVE line'[k].name < next + 1
    BY <1>3, <1>5
  <2>1. line'[k].name <= next
    BY <1>8
  <2>2. line'[k].name \in Int
    <3>1. line' \in Seq(Element)
      BY <1>1, <1>3, <1>4
    <3>2. line'[k] \in Element
      BY <1>5, <3>1
    <3>3. QED
      BY <3>2 DEF Element, Instances
  <2>3. QED
    BY <1>1, <2>1, <2>2
<1>11. QED
  BY <1>7, <1>9, <1>10 DEF LineInv, CommaInv

LEMMA LineInvariant == Safe => []LineInv
<1>1. Init => LineInv
  <2>1. 1 .. Len(<< >>) = {}
    OBVIOUS
  <2>2. QED
    BY <2>1, Zenon DEF Init, LineInv, CommaInv, LineWellFormed
<1>2. TypeOK /\ LineInv /\ [Next]_vars => LineInv'
  <2> SUFFICES ASSUME TypeOK, LineInv, [Next]_vars PROVE LineInv'
    OBVIOUS
  <2>1. CASE WriteTo
    BY <2>1, WriteKeepsLine
  <2>2. CASE BeginLine
    <3>1. 1 .. Len(<< >>) = {}
      OBVIOUS
    <3>2. QED
      BY <2>2, <3>1, Zenon DEF BeginLine, LineInv, CommaInv, LineWellFormed
  <2>3. CASE ~WriteTo /\ ~BeginLine
    <3>1. UNCHANGED <<comma, line, next>>
      BY <2>3 DEF Next, MainStep, Skip, DrainInv, InvDrained, DrainNow, EndLine, WaitNow,
         WaitInv, DelayTimer, DelayNow, TimerFire, Begin, BeginUpdate, Panic, Progress,
         RenderBlock, Swap, Invalidate, Return, mainVars, vars
    <3>2. QED
      BY <3>1 DEF LineInv, CommaInv, LineWellFormed
  <2>4. QED
    BY <2>1, <2>2, <2>3
<1>3. QED
  BY <1>1, <1>2, TypeCorrect, PTL DEF Safe

(* Every line is a well-formed array for every number of modules and every
   choice of the empty ones among them. *)
THEOREM LinesAreWellFormed == Safe => []LineWellFormed
<1>1. LineInv => LineWellFormed
  BY DEF LineInv
<1>2. QED
  BY <1>1, LineInvariant, PTL

-----------------------------------------------------------------------------
(* What WriteTo leaves of the line of an instance that is not the next one. *)
LEMMA WriteKeepsCarried ==
    ASSUME TypeOK, LineInv, LineCarriesFrames, WriteTo, NEW i \in Instances, i < next
    PROVE  \E from \in 0 .. Len(line') : CarriedFrom(i, from)'
<1> DEFINE n == Len(line)
           m == Len(buf1[next])
           d == Len(drawn[i])
<1>1. /\ next \in Instances /\ next \in Int /\ i \in Int /\ line \in Seq(Element)
      /\ buf1[next] \in Seq(Blocks) /\ drawn[i] \in Seq(Blocks)
      /\ drawn \in [Instances -> Seq(Blocks)]
  <2>1. next \in Instances /\ next \in Int /\ i \in Int
    BY DEF WriteTo, TypeOK, Instances
  <2>2. QED
    BY <2>1 DEF TypeOK
<1>2. n \in Nat /\ m \in Nat /\ d \in Nat
  BY <1>1
<1>3. PICK from \in 0 .. n : CarriedFrom(i, from)
  BY DEF LineCarriesFrames
<1>4. drawn'[i] = drawn[i]
  BY <1>1 DEF WriteTo
<1>5. WrittenLine
  BY <1>1, LineGrows
<1>6. from + d <= n + m
  BY <1>2, <1>3 DEF CarriedFrom
<1>7. \A k \in 1 .. n + m : (line'[k].name = i) = (k > from /\ k <= from + d)
  <2> TAKE k \in 1 .. n + m
  <2>1. CASE k <= n
    BY <1>2, <1>3, <1>5, <2>1 DEF CarriedFrom, WrittenLine
  <2>2. CASE k > n
    <3>1. line'[k].name = next
      BY <1>2, <1>5, <2>2 DEF WrittenLine
    <3>2. from + d <= n /\ ~(k <= from + d)
      BY <1>2, <1>3, <2>2 DEF CarriedFrom
    <3>3. QED
      BY <1>1, <3>1, <3>2
  <2>3. QED
    BY <1>2, <2>1, <2>2
<1>8. \A k \in 1 .. d : line'[from + k].block = drawn[i][k]
  <2> TAKE k \in 1 .. d
  <2>1. from + k \in 1 .. n
    BY <1>2, <1>3 DEF CarriedFrom
  <2>2. line'[from + k] = line[from + k]
    BY <1>5, <2>1 DEF WrittenLine
  <2>3. QED
    BY <1>3, <2>2 DEF CarriedFrom
<1>9. Len(line') = n + m /\ from \in 0 .. n + m
  BY <1>2, <1>5 DEF WrittenLine
<1>10. QED
  BY <1>4, <1>6, <1>7, <1>8, <1>9 DEF CarriedFrom

(* The blocks WriteTo appends are those of the next instance. *)
LEMMA WriteCarriesNext ==
    ASSUME TypeOK, LineInv, WriteTo, NEW i \in Instances, i = next
    PROVE  \E from \in 0 .. Len(line') : CarriedFrom(i, from)'
<1> DEFINE n == Len(line)
           m == Len(buf1[i])
<1>1. /\ i \in Int /\ line \in Seq(Element) /\ buf1[i] \in Seq(Blocks)
      /\ drawn \in [Instances -> Seq(Blocks)]
  <2>1. i \in Int
    BY DEF Instances
  <2>2. QED
    BY <2>1 DEF TypeOK
<1>2. n \in Nat /\ m \in Nat
  BY <1>1
<1>3. drawn'[i] = buf1[i]
  BY <1>1 DEF WriteTo
<1>4. WrittenLine
  BY LineGrows
<1>5. /\ Len(line') = n + m
      /\ \A k \in 1 .. n : line'[k] = line[k]
      /\ \A k \in n + 1 .. n + m :
             line'[k].name = i /\ line'[k].block = buf1[i][k - n]
  BY <1>4 DEF WrittenLine
<1>6. \A k \in 1 .. n + m : (line'[k].name = i) = (k > n /\ k <= n + m)
  <2> TAKE k \in 1 .. n + m
  <2>1. CASE k <= n
    <3>1. k \in 1 .. n /\ line[k] \in Element
      BY <1>1, <1>2, <2>1
    <3>2. line[k].name < i /\ line[k].name \in Int
      BY <3>1 DEF LineInv, CommaInv, Element, Instances
    <3>3. QED
      BY <1>1, <1>2, <1>5, <2>1, <3>1, <3>2
  <2>2. CASE k > n
    BY <1>2, <1>5, <2>2
  <2>3. QED
    BY <1>2, <2>1, <2>2
<1>7. \A k \in 1 .. m : line'[n + k].block = buf1[i][k]
  <2> TAKE k \in 1 .. m
  <2>1. n + k \in n + 1 .. n + m /\ (n + k) - n = k
    BY <1>2
  <2>2. QED
    BY <1>5, <2>1
<1>8. n \in 0 .. Len(line') /\ n + m <= Len(line')
  BY <1>2, <1>5
<1>9. PICK from \in 0 .. Len(line') : from = n
  BY <1>8
<1>10. CarriedFrom(i, from)'
  BY <1>3, <1>5, <1>6, <1>7, <1>8, <1>9 DEF CarriedFrom
<1>11. QED
  BY <1>10

(* The line carries every frame written on it, whole and once, and nothing
   else under the name of its module. *)
THEOREM LinesCarryFrames == Safe => []LineCarriesFrames
<1>1. Init => LineCarriesFrames
  <2> SUFFICES ASSUME Init, NEW i \in Instances PROVE CarriedFrom(i, 0)
    <3>1. Init => 0 \in 0 .. Len(line)
      BY DEF Init
    <3>2. QED
      BY <3>1 DEF LineCarriesFrames
  <2>1. drawn[i] = << >> /\ line = << >>
    BY DEF Init
  <2>2. QED
    BY <2>1 DEF CarriedFrom
<1>2. TypeOK /\ LineInv /\ LineCarriesFrames /\ [Next]_vars => LineCarriesFrames'
  <2> SUFFICES ASSUME TypeOK, LineInv, LineCarriesFrames, [Next]_vars,
                      NEW i \in Instances, (pc # "write" \/ i < next)'
               PROVE  \E from \in 0 .. Len(line') : CarriedFrom(i, from)'
    BY DEF LineCarriesFrames
  <2>1. CASE WriteTo
    <3>1. i <= next /\ i \in Int /\ next \in Int
      BY <2>1 DEF WriteTo, TypeOK, Instances
    <3>2. CASE i < next
      BY <2>1, <3>2, WriteKeepsCarried
    <3>3. CASE i = next
      BY <2>1, <3>3, WriteCarriesNext
    <3>4. QED
      BY <3>1, <3>2, <3>3
  <2>2. CASE BeginLine
    BY <2>2 DEF BeginLine, Instances
  <2>3. CASE ~WriteTo /\ ~BeginLine
    <3>1. /\ UNCHANGED <<line, drawn, next>>
          /\ pc = "write" => pc' = "write" \/ next > N
      BY <2>3 DEF Next, MainStep, Skip, DrainInv, InvDrained, DrainNow, EndLine, WaitNow,
         WaitInv, DelayTimer, DelayNow, TimerFire, Begin, BeginUpdate, Panic, Progress,
         RenderBlock, Swap, Invalidate, Return, mainVars, vars
    <3>2. pc # "write" \/ i < next
      BY <3>1 DEF Instances, TypeOK
    <3>3. PICK from \in 0 .. Len(line) : CarriedFrom(i, from)
      BY <3>2 DEF LineCarriesFrames
    <3>4. CarriedFrom(i, from)'
      BY <3>1, <3>3 DEF CarriedFrom
    <3>5. QED
      BY <3>1, <3>4
  <2>4. QED
    BY <2>1, <2>2, <2>3
<1>3. QED
  BY <1>1, <1>2, LineInvariant, TypeCorrect, PTL DEF Safe

-----------------------------------------------------------------------------
(* The render loop implements StatusLine: a swap publishes a frame, WriteTo
   shows the frame an instance published last, nothing else is visible. *)
THEOREM RefinesStatusLine == Safe => ImplementsStatusLine
<1>1. Init => Bar!Init
  BY DEF Init, Bar!Init
<1>2. WholeInv /\ [Next]_vars => [Bar!Next]_(Bar!vars)
  <2> SUFFICES ASSUME WholeInv, [Next]_vars PROVE [Bar!Next]_(Bar!vars)
    OBVIOUS
  <2>1. ASSUME NEW c \in Callers, Swap(c) PROVE Bar!Next
    <3> DEFINE i == Owner[c]
    <3>1. i \in Instances /\ upd[c] = "render" /\ Len(buf2[i]) = Len(frame[c])
      BY <2>1 DEF Swap
    <3>2. buf2[i] \in Frames
      BY <3>1, RenderedIsFrame
    <3>3. Bar!Publish(i, buf2[i])
      BY <2>1 DEF Swap, mainVars, Bar!Publish
    <3>4. QED
      BY <3>1, <3>2, <3>3 DEF Bar!Next
  <2>2. ASSUME WriteTo PROVE Bar!Next
    <3>1. next \in Instances
      BY <2>2 DEF WriteTo, WholeInv, TypeOK, Instances
    <3>2. Bar!Show(next)
      BY <2>2 DEF WriteTo, bufVars, Bar!Show
    <3>3. QED
      BY <3>1, <3>2 DEF Bar!Next
  <2>3. ASSUME NEW c \in Callers, Progress(c), ~Swap(c) PROVE UNCHANGED Bar!vars
    BY <2>3 DEF Progress, RenderBlock, Invalidate, Return, bufVars, mainVars, Bar!vars
  <2>4. ASSUME NEW c \in Callers, Begin(c) \/ Panic(c) PROVE UNCHANGED Bar!vars
    BY <2>4 DEF Begin, BeginUpdate, Panic, mainVars, Bar!vars
  <2>5. ASSUME MainStep, ~WriteTo PROVE UNCHANGED Bar!vars
    BY <2>5 DEF MainStep, Skip, DrainInv, InvDrained, DrainNow, BeginLine, EndLine,
       WaitNow, WaitInv, DelayTimer, DelayNow, bufVars, mainVars, Bar!vars
  <2>6. ASSUME TimerFire \/ UNCHANGED vars PROVE UNCHANGED Bar!vars
    BY <2>6 DEF TimerFire, vars, bufVars, mainVars, Bar!vars
  <2>7. QED
    BY <2>1, <2>2, <2>3, <2>4, <2>5, <2>6 DEF Next
<1>3. QED
  BY <1>1, <1>2, WholeInvariant, PTL DEF Safe, ImplementsStatusLine, Bar!Spec

=============================================================================
