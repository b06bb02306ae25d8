----------------------------- MODULE RenderLoop -----------------------------
(***************************************************************************)
(* The rendering half of barlib.go.                                        *)
(*                                                                         *)
(* Any goroutine of a module may call Instance.Update: it renders a frame  *)
(* into the back buffer (buf2b, under buf2m), swaps it with the front      *)
(* buffer (buf1b, under buf1m) and, when the frame differs from the one    *)
(* before, drops a token into one of two channels of capacity 1.  The      *)
(* goroutine of Main waits for a token, waits another updateDelay unless   *)
(* the update was an immediate one, drains the channels and writes one     *)
(* line made of the front buffer of every instance.                        *)
(*                                                                         *)
(* Tokens carry no data and sends never block, so nothing but the order of *)
(* "swap, then send" on one side and "receive, then read" on the other     *)
(* keeps an update from being lost.                                        *)
(***************************************************************************)
EXTENDS Integers, Sequences

CONSTANTS
    N,              \* number of modules passed to Main
    Callers,        \* goroutines that call Update
    Owner,          \* the instance a goroutine calls Update on
    Blocks,         \* blocks a module can render
    Frames,         \* the sequences of blocks a module renders in one Update
    Nobody          \* the owner of an unlocked mutex

Instances == 1 .. N

ASSUME NAssumption == N \in Nat
ASSUME OwnerAssumption == Owner \in [Callers -> Instances]
ASSUME FramesAssumption == Frames \subseteq Seq(Blocks) /\ << >> \in Frames
ASSUME NobodyAssumption == Nobody \notin Callers

VARIABLES
    buf1, buf2,     \* per instance, the front and the back buffer
    buf1m, buf2m,   \* per instance, the holder of the mutex of each buffer
    upd,            \* per caller, where it is inside Update
    frame, now,     \* per caller, the frame it renders and the flag it passed
    invCh, nowCh,   \* whether invalidateCh, invalidateNowCh hold a token
    pc, render,     \* where the goroutine of Main is, and its local "render"
    next,           \* the next instance of the range over instances
    comma,          \* its local "comma"
    line,           \* the blocks of the line being, or last, written
    timer,          \* the delayer
    drawn           \* history: per instance, the frame last written

updVars == <<upd, frame, now>>
bufVars == <<buf1, buf2, buf1m, buf2m>>
mainVars == <<pc, render, next, comma, line, timer, drawn>>
vars == <<bufVars, updVars, invCh, nowCh, mainVars>>

Element == [comma : BOOLEAN, name : Instances, block : Blocks]

TypeOK ==
    /\ buf1 \in [Instances -> Seq(Blocks)] /\ buf2 \in [Instances -> Seq(Blocks)]
    /\ buf1m \in [Instances -> Callers \cup {Nobody}]
    /\ buf2m \in [Instances -> Callers \cup {Nobody}]
    /\ upd \in [Callers -> {"idle", "render", "invalidate", "return"}]
    /\ frame \in [Callers -> Frames] /\ now \in [Callers -> BOOLEAN]
    /\ invCh \in BOOLEAN /\ nowCh \in BOOLEAN
    /\ pc \in {"top", "drainNow", "write", "wait", "delay"}
    /\ render \in BOOLEAN /\ comma \in BOOLEAN
    /\ next \in 1 .. N + 1
    /\ line \in Seq(Element)
    /\ timer \in {"nil", "armed", "fired", "spent"}
    /\ drawn \in [Instances -> Seq(Blocks)]

Init ==
    /\ buf1 = [i \in Instances |-> << >>] /\ buf2 = [i \in Instances |-> << >>]
    /\ buf1m = [i \in Instances |-> Nobody] /\ buf2m = [i \in Instances |-> Nobody]
    /\ upd = [c \in Callers |-> "idle"]
    /\ frame = [c \in Callers |-> << >>] /\ now = [c \in Callers |-> FALSE]
    /\ invCh = FALSE /\ nowCh = FALSE
    /\ pc = "top" /\ render = FALSE
    /\ next = N + 1 /\ comma = FALSE /\ line = << >>
    /\ timer = "nil"
    /\ drawn = [i \in Instances |-> << >>]

-----------------------------------------------------------------------------
(* Instance.Update, called by goroutine c.                                 *)

(* Mutant: Update does not take buf2m. *)
BeginUpdateUnlocked(c, f, nw) ==
    /\ upd[c] = "idle"
    /\ buf2m' = [buf2m EXCEPT ![Owner[c]] = c]
    /\ buf2' = [buf2 EXCEPT ![Owner[c]] = << >>]
    /\ upd' = [upd EXCEPT ![c] = "render"]
    /\ frame' = [frame EXCEPT ![c] = f]
    /\ now' = [now EXCEPT ![c] = nw]
    /\ UNCHANGED <<buf1, buf1m, invCh, nowCh, mainVars>>

(* buf2m.Lock() and the truncation of the back buffer. *)
BeginUpdate(c, f, nw) ==
    /\ upd[c] = "idle"
    /\ buf2m[Owner[c]] = Nobody
    /\ buf2m' = [buf2m EXCEPT ![Owner[c]] = c]
    /\ buf2' = [buf2 EXCEPT ![Owner[c]] = << >>]
    /\ upd' = [upd EXCEPT ![c] = "render"]
    /\ frame' = [frame EXCEPT ![c] = f]
    /\ now' = [now EXCEPT ![c] = nw]
    /\ UNCHANGED <<buf1, buf1m, invCh, nowCh, mainVars>>

(* Mutant: the renderer appends to the front buffer. *)
RenderBlockInPlace(c) ==
    LET i == Owner[c] IN
    /\ upd[c] = "render"
    /\ Len(buf2[i]) < Len(frame[c])
    /\ buf1' = [buf1 EXCEPT ![i] = Append(@, frame[c][Len(buf2[i]) + 1])]
    /\ buf2' = [buf2 EXCEPT ![i] = Append(@, frame[c][Len(@) + 1])]
    /\ UNCHANGED <<buf1m, buf2m, updVars, invCh, nowCh, mainVars>>

(* The callback calls the renderer: one more block in the back buffer. *)
RenderBlock(c) ==
    LET i == Owner[c] IN
    /\ upd[c] = "render"
    /\ Len(buf2[i]) < Len(frame[c])
    /\ buf2' = [buf2 EXCEPT ![i] = Append(@, frame[c][Len(@) + 1])]
    /\ UNCHANGED <<buf1, buf1m, buf2m, updVars, invCh, nowCh, mainVars>>

(* The local state of a call that has returned is gone. *)
Forget(c) ==
    /\ upd' = [upd EXCEPT ![c] = "idle"]
    /\ frame' = [frame EXCEPT ![c] = << >>]
    /\ now' = [now EXCEPT ![c] = FALSE]

(* The callback panics: the deferred Unlock runs, nothing is submitted. *)
Panic(c) ==
    /\ upd[c] = "render"
    /\ buf2m' = [buf2m EXCEPT ![Owner[c]] = Nobody]
    /\ Forget(c)
    /\ UNCHANGED <<buf1, buf2, buf1m, invCh, nowCh, mainVars>>

(* The callback has returned: buf1m.Lock(), the swap and the comparison. *)
Swap(c) ==
    LET i == Owner[c] IN
    /\ upd[c] = "render"
    /\ Len(buf2[i]) = Len(frame[c])
    /\ buf1m[i] = Nobody
    /\ buf1m' = [buf1m EXCEPT ![i] = c]
    /\ buf1' = [buf1 EXCEPT ![i] = buf2[i]]
    /\ buf2' = [buf2 EXCEPT ![i] = buf1[i]]
    /\ upd' = [upd EXCEPT ![c] = IF buf1[i] = buf2[i] THEN "return" ELSE "invalidate"]
    /\ UNCHANGED <<buf2m, frame, now, invCh, nowCh, mainVars>>

(* i.invalidate(now): a send that is dropped when the channel is full. *)
Invalidate(c) ==
    /\ upd[c] = "invalidate"
    /\ IF now[c] THEN nowCh' = TRUE /\ UNCHANGED invCh
                 ELSE invCh' = TRUE /\ UNCHANGED nowCh
    /\ upd' = [upd EXCEPT ![c] = "return"]
    /\ UNCHANGED <<bufVars, frame, now, mainVars>>

(* The deferred calls: buf1m.Unlock(), then buf2m.Unlock(). *)
Return(c) ==
    /\ upd[c] = "return"
    /\ buf1m' = [buf1m EXCEPT ![Owner[c]] = Nobody]
    /\ buf2m' = [buf2m EXCEPT ![Owner[c]] = Nobody]
    /\ Forget(c)
    /\ UNCHANGED <<buf1, buf2, invCh, nowCh, mainVars>>

Begin(c) == \E f \in Frames, nw \in BOOLEAN : BeginUpdate(c, f, nw)

(* Steps a goroutine inside Update takes when it is scheduled. *)
Progress(c) == RenderBlock(c) \/ Swap(c) \/ Invalidate(c) \/ Return(c)

-----------------------------------------------------------------------------
(* The loop at the end of Main.                                            *)

(* "if render" is false: on to the blocking select. *)
Skip ==
    /\ pc = "top" /\ ~render
    /\ pc' = "wait"
    /\ UNCHANGED <<bufVars, updVars, invCh, nowCh, render, next, comma, line, timer, drawn>>

(* A token in invalidateCh is consumed and the loop starts over. *)
DrainInv ==
    /\ pc = "top" /\ render /\ invCh
    /\ invCh' = FALSE
    /\ UNCHANGED <<bufVars, updVars, nowCh, mainVars>>

(* invalidateCh is empty: on to the second non-blocking receive. *)
InvDrained ==
    /\ pc = "top" /\ render /\ ~invCh
    /\ pc' = "drainNow"
    /\ UNCHANGED <<bufVars, updVars, invCh, nowCh, render, next, comma, line, timer, drawn>>

(* A token in invalidateNowCh is consumed and the loop starts over. *)
DrainNow ==
    /\ pc = "drainNow" /\ nowCh
    /\ nowCh' = FALSE
    /\ pc' = "top"
    /\ UNCHANGED <<bufVars, updVars, invCh, render, next, comma, line, timer, drawn>>

(* Both are empty: render = false, and the line is opened with ",[". *)
BeginLine ==
    /\ pc = "drainNow" /\ ~nowCh
    /\ pc' = "write" /\ render' = FALSE
    /\ next' = 1 /\ comma' = FALSE /\ line' = << >>
    /\ UNCHANGED <<bufVars, updVars, invCh, nowCh, timer, drawn>>

(* Mutant: the first block is cut off together with its comma. *)
EmittedCutBlock(i) ==
    LET from == IF comma THEN 0 ELSE 1
    IN  [k \in 1 .. Len(buf1[i]) - from |->
            [comma |-> comma \/ k > 1, name |-> i, block |-> buf1[i][k + from]]]

(* The blocks of the front buffer of instance i as WriteTo emits them: every
   block of the buffer starts with a comma, and the first of them is cut off
   when nothing has been written on this line yet. *)
Emitted(i) ==
    [k \in 1 .. Len(buf1[i]) |->
        [comma |-> comma \/ k > 1, name |-> i, block |-> buf1[i][k]]]

(* Mutant: without the early return an empty frame still counts as output. *)
WriteToNoEmptyCheck ==
    /\ pc = "write" /\ next <= N
    /\ buf1m[next] = Nobody
    /\ line' = line \o Emitted(next)
    /\ comma' = TRUE
    /\ drawn' = [drawn EXCEPT ![next] = buf1[next]]
    /\ next' = next + 1
    /\ UNCHANGED <<bufVars, updVars, invCh, nowCh, pc, render, timer>>

(* instance.WriteTo, under buf1m, for the next instance of the range. *)
WriteTo ==
    /\ pc = "write" /\ next <= N
    /\ buf1m[next] = Nobody
    /\ line' = line \o Emitted(next)
    /\ comma' = (comma \/ buf1[next] # << >>)
    /\ drawn' = [drawn EXCEPT ![next] = buf1[next]]
    /\ next' = next + 1
    /\ UNCHANGED <<bufVars, updVars, invCh, nowCh, pc, render, timer>>

(* Mutant: invalidateCh is drained after the line instead of before it. *)
EndLineDrain ==
    /\ pc = "write" /\ next > N
    /\ pc' = "wait"
    /\ invCh' = FALSE
    /\ UNCHANGED <<bufVars, updVars, nowCh, render, next, comma, line, timer, drawn>>

(* The line is closed with "]\n". *)
EndLine ==
    /\ pc = "write" /\ next > N
    /\ pc' = "wait"
    /\ UNCHANGED <<bufVars, updVars, invCh, nowCh, render, next, comma, line, timer, drawn>>

(* The blocking select receives an immediate invalidation. *)
WaitNow ==
    /\ pc = "wait" /\ nowCh
    /\ nowCh' = FALSE
    /\ render' = TRUE /\ pc' = "top"
    /\ UNCHANGED <<bufVars, updVars, invCh, next, comma, line, timer, drawn>>

(* Mutant: the delayer is made once and never Reset. *)
WaitInvNoReset ==
    /\ pc = "wait" /\ invCh
    /\ invCh' = FALSE
    /\ render' = TRUE /\ pc' = "delay"
    /\ timer' = IF timer = "nil" THEN "armed" ELSE timer
    /\ UNCHANGED <<bufVars, updVars, nowCh, next, comma, line, drawn>>

(* The blocking select receives a plain one: the delayer is made or Reset. *)
WaitInv ==
    /\ pc = "wait" /\ invCh
    /\ invCh' = FALSE
    /\ render' = TRUE /\ pc' = "delay"
    /\ timer' = "armed"
    /\ UNCHANGED <<bufVars, updVars, nowCh, next, comma, line, drawn>>

(* The last select: the delayer has fired. *)
DelayTimer ==
    /\ pc = "delay" /\ timer = "fired"
    /\ timer' = "spent"
    /\ pc' = "top"
    /\ UNCHANGED <<bufVars, updVars, invCh, nowCh, render, next, comma, line, drawn>>

(* Mutant: the delay is sat out in full. *)
DelayNowAfterTimer ==
    /\ pc = "delay" /\ nowCh /\ timer = "fired"
    /\ nowCh' = FALSE
    /\ render' = TRUE /\ pc' = "top"
    /\ UNCHANGED <<bufVars, updVars, invCh, next, comma, line, timer, drawn>>

(* The last select: an immediate invalidation cuts the delay short. *)
DelayNow ==
    /\ pc = "delay" /\ nowCh
    /\ nowCh' = FALSE
    /\ render' = TRUE /\ pc' = "top"
    /\ UNCHANGED <<bufVars, updVars, invCh, next, comma, line, timer, drawn>>

(* updateDelay passes, whether or not the loop still waits for it. *)
TimerFire ==
    /\ timer = "armed"
    /\ timer' = "fired"
    /\ UNCHANGED <<bufVars, updVars, invCh, nowCh, pc, render, next, comma, line, drawn>>

MainStep ==
    \/ Skip \/ DrainInv \/ InvDrained \/ DrainNow
    \/ BeginLine \/ WriteTo \/ EndLine
    \/ WaitNow \/ WaitInv \/ DelayTimer \/ DelayNow

Next ==
    \/ \E c \in Callers : Begin(c) \/ Panic(c) \/ Progress(c)
    \/ MainStep
    \/ TimerFire

Safe == Init /\ [][Next]_vars

(* The scheduler runs every goroutine that can run.  A callback may panic,
   and a module may stop calling Update, so neither is required. *)
Spec == Safe /\ WF_vars(MainStep) /\ \A c \in Callers : WF_vars(Progress(c))

-----------------------------------------------------------------------------
(* Only whole frames are ever published or drawn: what a callback is still
   rendering, what it had rendered when it panicked, and what two goroutines
   render at the same time never reaches the front buffer or the bar. *)
WholeFrames ==
    \A i \in Instances : buf1[i] \in Frames /\ drawn[i] \in Frames

(* Something will still make the loop draw instance i. *)
Covered(i) ==
    \/ invCh \/ nowCh \/ render
    \/ pc = "write" /\ next <= i
    \/ \E c \in Callers : upd[c] = "invalidate" /\ Owner[c] = i

(* No update is lost: while the bar does not show the front buffer of an
   instance, a token, the render flag, the rest of the current line, or a
   goroutine about to invalidate stands for the redraw that is due.  In
   particular the loop never sleeps on a stale bar. *)
NoLostUpdate ==
    \A i \in Instances : drawn[i] # buf1[i] => Covered(i)

(* A line is a JSON array whatever subset of the modules is empty: every
   block but the first is preceded by a comma, and blocks come in the order
   of the modules. *)
LineWellFormed ==
    \A k \in 1 .. Len(line) :
        /\ line[k].comma = (k # 1)
        /\ \A j \in 1 .. k : line[j].name <= line[k].name

(* The blocks of instance i stand together on the line, right behind place
   "from", and are those of the frame drawn for it. *)
CarriedFrom(i, from) ==
    /\ from + Len(drawn[i]) <= Len(line)
    /\ \A k \in 1 .. Len(line) :
           (line[k].name = i) = (k > from /\ k <= from + Len(drawn[i]))
    /\ \A k \in 1 .. Len(drawn[i]) : line[from + k].block = drawn[i][k]

(* The line carries, for every module already written on it, exactly the
   blocks of the frame that was its front buffer, none lost to the cut of a
   leading comma, under the name that routes click events back to it. *)
LineCarriesFrames ==
    \A i \in Instances :
        (pc # "write" \/ i < next) =>
            \E from \in 0 .. Len(line) : CarriedFrom(i, from)

AllIdle == \A c \in Callers : upd[c] = "idle"

(* When the modules fall silent, and the delayer fires when it is armed, the
   bar ends up showing what each of them submitted last, and the loop goes to
   sleep instead of redrawing it. *)
Settles ==
    WF_vars(TimerFire) /\ <>[]AllIdle => <>[](drawn = buf1 /\ pc = "wait")

(* An immediate update reaches the bar without the help of the delayer, also
   when it arrives while the loop waits for it on behalf of a plain one. *)
ImmediateIsDrawn ==
    <>[]AllIdle =>
        \A c \in Callers :
            (upd[c] = "invalidate" /\ now[c])
                ~> (drawn[Owner[c]] = buf1[Owner[c]])

(* What is submitted is drawn, at once if it has to be, and then the loop is
   silent. *)
UpdatesAreDrawn == Settles /\ ImmediateIsDrawn

(* The loop with its buffers, locks and tokens implements StatusLine. *)
Bar == INSTANCE StatusLine WITH
            Blank <- << >>, published <- buf1, shown <- drawn

ImplementsStatusLine == Bar!Spec
=============================================================================
