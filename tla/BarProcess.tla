----------------------------- MODULE BarProcess -----------------------------
(***************************************************************************)
(* The process Main makes of the bar, as i3bar sees it through stdout,     *)
(* stdin and two signals, across the restarts of the binary watcher.       *)
(*                                                                         *)
(* The watcher replaces the process image in place (syscall.Exec) when its *)
(* binary has been rebuilt.  The pipes survive, the memory does not; the   *)
(* environment carries one mark so that the new image does not repeat the  *)
(* header.  The watcher is a goroutine: the exec may come between any two  *)
(* writes of the render loop.                                              *)
(***************************************************************************)
EXTENDS Integers, Sequences

CONSTANTS
    SigCap,         \* the capacity of sigCh, 2 in the code
    MaxImages       \* bound: images the process goes through

ASSUME SigCapAssumption == SigCap \in Nat \ {0}
ASSUME MaxImagesAssumption == MaxImages \in Nat \ {0}

VARIABLES
    image,          \* the process image, counted from 1; 0 when it has died
    marked,         \* whether restartEnv is in the environment
    main,           \* the goroutine of Main
    watcher,        \* the watcher goroutine
    notified,       \* whether signal.Notify has been called in this image
    raised,         \* signals the Go runtime has caught and not delivered yet
    sigCh,          \* the channel of the signal goroutine
    stopped,        \* the stopped flag of the instances
    stdin,          \* whether the bar still holds the other end of stdin
    out,            \* external: where i3bar's parser is in our output
    headers,        \* history: headers written
    barStopped,     \* external: what the bar told us last
    lost,           \* history: whether the last signal was lost, or met another
    cut             \* history: whether an exec has cut a line short

imageVars == <<image, marked>>
sigVars == <<notified, raised, sigCh, stopped>>
outVars == <<out, headers>>
barVars == <<stdin, barStopped, lost>>
vars == <<imageVars, main, watcher, sigVars, outVars, barVars, cut>>

Alive == image # 0

TypeOK ==
    /\ image \in 0 .. MaxImages /\ marked \in BOOLEAN
    /\ main \in {"start", "loop", "line"}
    /\ watcher \in {"watch", "sleep"}
    /\ notified \in BOOLEAN /\ raised \subseteq BOOLEAN
    /\ sigCh \in Seq(BOOLEAN) /\ Len(sigCh) <= SigCap
    /\ stopped \in BOOLEAN
    /\ stdin \in BOOLEAN /\ barStopped \in BOOLEAN
    /\ out \in {"nothing", "array", "line", "broken"}
    /\ headers \in 0 .. MaxImages
    /\ lost \in BOOLEAN /\ cut \in BOOLEAN

Init ==
    /\ image = 1 /\ marked = FALSE
    /\ main = "start" /\ watcher = "watch"
    /\ notified = FALSE /\ raised = {} /\ sigCh = << >> /\ stopped = FALSE
    /\ stdin = TRUE /\ barStopped = FALSE /\ lost = FALSE
    /\ out = "nothing" /\ headers = 0 /\ cut = FALSE

-----------------------------------------------------------------------------
(* The endless JSON array of the i3bar protocol, as its reader follows it: a
   header, then ",[" blocks "]" lines.  Whatever does not fit breaks the
   parser for good. *)
Read(token) ==
    out' = CASE token = "header" /\ out = "nothing" -> "array"
             [] token = "open" /\ out = "array" -> "line"
             [] token = "block" /\ out = "line" -> "line"
             [] token = "close" /\ out = "line" -> "array"
             [] OTHER -> "broken"

(* Main writes the header unless restartEnv is in the environment. *)
Start ==
    /\ Alive /\ main = "start"
    /\ IF marked THEN UNCHANGED outVars
                 ELSE Read("header") /\ headers' = headers + 1
    /\ main' = "loop"
    /\ UNCHANGED <<imageVars, watcher, sigVars, barVars, cut>>

(* The render loop opens a line ... *)
OpenLine ==
    /\ Alive /\ main = "loop"
    /\ Read("open")
    /\ main' = "line"
    /\ UNCHANGED <<imageVars, watcher, sigVars, headers, barVars, cut>>

(* ... writes the blocks of one instance ... *)
WriteBlocks ==
    /\ Alive /\ main = "line"
    /\ Read("block")
    /\ UNCHANGED <<imageVars, main, watcher, sigVars, headers, barVars, cut>>

(* Mutant: the line is left open. *)
CloseLineMissing ==
    /\ Alive /\ main = "line"
    /\ main' = "loop"
    /\ UNCHANGED <<imageVars, watcher, sigVars, outVars, barVars, cut>>

(* ... and closes it. *)
CloseLine ==
    /\ Alive /\ main = "line"
    /\ Read("close")
    /\ main' = "loop"
    /\ UNCHANGED <<imageVars, watcher, sigVars, headers, barVars, cut>>

-----------------------------------------------------------------------------
(* The watcher sees a chmod of the binary and sleeps for 500ms, long enough
   for Main to have written its header. *)
SeeChmod ==
    /\ Alive /\ watcher = "watch" /\ image < MaxImages
    /\ main # "start"
    /\ watcher' = "sleep"
    /\ UNCHANGED <<imageVars, main, sigVars, outVars, barVars, cut>>

(* syscall.Exec fails: a message, and the watcher goes on watching. *)
ExecFails ==
    /\ Alive /\ watcher = "sleep"
    /\ watcher' = "watch"
    /\ UNCHANGED <<imageVars, main, sigVars, outVars, barVars, cut>>

(* Mutant: the environment is passed on as it is. *)
ExecUnmarked ==
    /\ Alive /\ watcher = "sleep"
    /\ image' = image + 1 /\ marked' = marked
    /\ main' = "start" /\ watcher' = "watch"
    /\ notified' = FALSE /\ raised' = {} /\ sigCh' = << >> /\ stopped' = FALSE
    /\ cut' = (cut \/ main = "line")
    /\ lost' = barStopped
    /\ UNCHANGED <<outVars, stdin, barStopped>>

(* syscall.Exec: the new image starts from nothing but the environment, and
   takes the bar to be running: a stop in force is lost. *)
Exec ==
    /\ Alive /\ watcher = "sleep"
    /\ image' = image + 1 /\ marked' = TRUE
    /\ main' = "start" /\ watcher' = "watch"
    /\ notified' = FALSE /\ raised' = {} /\ sigCh' = << >> /\ stopped' = FALSE
    /\ cut' = (cut \/ main = "line")
    /\ lost' = barStopped
    /\ UNCHANGED <<outVars, stdin, barStopped>>

-----------------------------------------------------------------------------
(* The signal goroutine calls signal.Notify. *)
Notify ==
    /\ Alive /\ ~notified
    /\ notified' = TRUE
    /\ UNCHANGED <<imageVars, main, watcher, raised, sigCh, stopped, outVars, barVars, cut>>

(* The bar, which knows the signals from the header, stops or continues us.
   The runtime catches the signal; one nobody has asked for is dropped, and
   so is a second one of a kind that has not been delivered. *)
BarSignal ==
    /\ Alive /\ headers > 0
    /\ barStopped' = ~barStopped
    /\ lost' = (~notified \/ raised # {})
    /\ raised' = IF notified THEN raised \cup {barStopped'} ELSE raised
    /\ UNCHANGED <<imageVars, main, watcher, notified, sigCh, stopped, outVars, stdin, cut>>

(* The runtime delivers a caught signal, in the order of the signal numbers
   and not in the order sent, and drops it when sigCh is full. *)
Deliver(v) ==
    /\ Alive /\ v \in raised
    /\ raised' = raised \ {v}
    /\ IF Len(sigCh) < SigCap
       THEN sigCh' = Append(sigCh, v) /\ UNCHANGED lost
       ELSE lost' = TRUE /\ UNCHANGED sigCh
    /\ UNCHANGED <<imageVars, main, watcher, notified, stopped, outVars, stdin, barStopped, cut>>

(* Mutant: of the signals that wait, the first is taken for all of them. *)
HandleFirstOnly ==
    /\ Alive /\ sigCh # << >>
    /\ stopped' = Head(sigCh)
    /\ sigCh' = << >>
    /\ UNCHANGED <<imageVars, main, watcher, notified, raised, outVars, barVars, cut>>

(* The signal goroutine passes it to every instance. *)
HandleSignal ==
    /\ Alive /\ sigCh # << >>
    /\ stopped' = Head(sigCh)
    /\ sigCh' = Tail(sigCh)
    /\ UNCHANGED <<imageVars, main, watcher, notified, raised, outVars, barVars, cut>>

-----------------------------------------------------------------------------
(* The bar goes away. *)
BarExits ==
    /\ stdin
    /\ stdin' = FALSE
    /\ UNCHANGED <<imageVars, main, watcher, sigVars, outVars, barStopped, lost, cut>>

(* The scanner of the stdin reader ends and the reader panics. *)
StdinFails ==
    /\ Alive /\ ~stdin
    /\ image' = 0
    /\ UNCHANGED <<marked, main, watcher, sigVars, outVars, barVars, cut>>

Next ==
    \/ Start \/ OpenLine \/ WriteBlocks \/ CloseLine
    \/ SeeChmod \/ ExecFails \/ Exec
    \/ Notify \/ BarSignal \/ HandleSignal
    \/ \E v \in BOOLEAN : Deliver(v)
    \/ BarExits \/ StdinFails

Spec == Init /\ [][Next]_vars

-----------------------------------------------------------------------------
(* The header comes first and once in the life of the process, whatever
   restarts it goes through. *)
HeaderOnce ==
    /\ headers <= 1
    /\ main # "start" => headers = 1
    /\ out # "nothing" => headers = 1

(* Nothing but a restart in the middle of a line breaks the protocol. *)
OnlyACutBreaks == out = "broken" => cut

(* The output is a prefix of the array the protocol asks for. *)
StreamIsProtocol == out # "broken"

(* Whatever was lost before, in an earlier image, ahead of Notify, in a full
   sigCh or in the order of two signals, the first one that gets through by
   itself sets the flag of the instances right: nothing older is left that
   could overtake it. *)
LastSignalCounts ==
    Alive /\ ~lost /\ raised = {} /\ sigCh = << >> => stopped = barStopped

(* The same of every signal: when none is on its way, IsStopped is what the
   bar said last.  The code does not keep it. *)
StoppedIsCurrent ==
    Alive /\ notified /\ raised = {} /\ sigCh = << >> => stopped = barStopped
=============================================================================
