---------------------------- MODULE GammaWayland ----------------------------
(***************************************************************************)
(* The gamma manager of the redshift package on Wayland, with the redshift *)
(* module that uses it.  The compositor announces outputs and the control  *)
(* manager in any order, takes them away, gives an output's gamma to       *)
(* another client, and may end the connection.  Its events are dispatched  *)
(* one at a time; Set waits until all those before its own are handled.    *)
(*                                                                         *)
(* A white point is the number of the Set that brought it: the manager     *)
(* compares pointers, and every Set allocates one.  The compositor handles *)
(* a request when it is sent, and its answer waits in the queue.           *)
(***************************************************************************)
EXTENDS Integers, Sequences, SequencesExt

CONSTANTS
    Outputs,        \* the registry names outputs are announced under
    Managers,       \* the registry names control managers are announced under
    ManagerId,      \* the object id the client gives the manager it binds
    MaxSets,        \* bound: calls of Set
    MaxQueue        \* bound: events of the compositor's own that wait

ASSUME NamesAssumption ==
    /\ Outputs \cup Managers \subseteq Nat \ {0}
    /\ Outputs \cap Managers = {}
    /\ IsFiniteSet(Outputs)
ASSUME BoundsAssumption == MaxSets \in Nat /\ MaxQueue \in Nat

VARIABLES
    present,        \* compositor: the globals there are
    gone,           \* compositor: those removed; no name is used again
    taken,          \* compositor: the outputs another client has taken
    holder,         \* compositor: the manager of an output's control, or 0
    ramp,           \* compositor: the white point of each output, 0 for none
    conn,           \* the connection
    queue,          \* the events the client has not handled
    manager,        \* m.manager, 0 for nil
    outputs,        \* the keys of m.outputs
    control,        \* s.control, by the manager it is from, 0 for nil
    size,           \* whether s.size is known
    applied,        \* s.white
    white,          \* m.white
    sets,           \* calls of Set so far
    user,           \* where the redshift module is
    errch           \* what the channel of fatal errors has

serverVars == <<present, gone, taken, conn>>
outputVars == <<control, size, applied, holder, ramp>>
userVars == <<sets, user>>
vars == <<serverVars, queue, manager, outputs, outputVars, white, userVars, errch>>

Event ==
    [kind : {"global", "remove", "size", "failed", "done", "error"},
     name : Outputs \cup Managers \cup {0}]

Ev(k, n) == [kind |-> k, name |-> n]

(* An output the client does not know has no control. *)
TypeOK ==
    /\ present \subseteq Outputs \cup Managers
    /\ gone \subseteq Outputs \cup Managers
    /\ taken \subseteq Outputs
    /\ holder \in [Outputs -> Managers \cup {0}]
    /\ ramp \in [Outputs -> 0 .. MaxSets]
    /\ conn \in {"up", "ended"}
    /\ queue \in Seq(Event)
    /\ manager \in Managers \cup {0}
    /\ outputs \subseteq Outputs
    /\ control \in [Outputs -> Managers \cup {0}]
    /\ \A o \in Outputs \ outputs : control[o] = 0
    /\ size \in [Outputs -> BOOLEAN]
    /\ applied \in [Outputs -> 0 .. MaxSets]
    /\ white \in 0 .. MaxSets
    /\ sets \in 0 .. MaxSets
    /\ user \in {"select", "asked", "answered", "returned"}
    /\ errch \in {"open", "error", "empty"}

Init ==
    /\ present = {} /\ gone = {} /\ taken = {}
    /\ holder = [o \in Outputs |-> 0] /\ ramp = [o \in Outputs |-> 0]
    /\ conn = "up" /\ queue = <<>>
    /\ manager = 0 /\ outputs = {}
    /\ control = [o \in Outputs |-> 0] /\ size = [o \in Outputs |-> FALSE]
    /\ applied = [o \in Outputs |-> 0] /\ white = 0
    /\ sets = 0 /\ user = "select" /\ errch = "open"

-----------------------------------------------------------------------------
(* The compositor, which does not run further ahead than the bound.        *)
Quiet == conn = "up" /\ Len(queue) < MaxQueue

Announce(n) ==
    /\ Quiet /\ n \notin present \cup gone
    /\ present' = present \cup {n}
    /\ queue' = Append(queue, Ev("global", n))
    /\ UNCHANGED <<gone, taken, conn, manager, outputs, outputVars, white, userVars, errch>>

(* The controls of a manager that goes stay valid, but the compositor ignores
   what is asked of the manager itself from now on (BindControls). *)
Withdraw(n) ==
    /\ Quiet /\ n \in present
    /\ present' = present \ {n} /\ gone' = gone \cup {n}
    /\ queue' = Append(queue, Ev("remove", n))
    /\ holder' = [o \in Outputs |-> IF o = n THEN 0 ELSE holder[o]]
    /\ UNCHANGED <<taken, conn, manager, outputs, control, size, applied, ramp,
                   white, userVars, errch>>

(* Another client gets the control of an output. *)
Take(o) ==
    /\ Quiet /\ o \in present \ taken
    /\ taken' = taken \cup {o}
    /\ queue' = IF holder[o] = 0 THEN queue ELSE Append(queue, Ev("failed", o))
    /\ holder' = [holder EXCEPT ![o] = 0] /\ ramp' = [ramp EXCEPT ![o] = 0]
    /\ UNCHANGED <<present, gone, conn, manager, outputs, control, size, applied,
                   white, userVars, errch>>

(* The compositor answers sync after what it has sent before. *)
AnswerSync ==
    /\ conn = "up" /\ user = "asked"
    /\ user' = "answered"
    /\ queue' = Append(queue, Ev("done", 0))
    /\ UNCHANGED <<serverVars, manager, outputs, outputVars, white, sets, errch>>

(* After a protocol error, or the compositor's end, there are no events. *)
EndConnection ==
    /\ conn = "up" /\ conn' = "ended"
    /\ queue' \in {queue, Append(queue, Ev("error", 0))}
    /\ UNCHANGED <<present, gone, taken, manager, outputs, outputVars, white,
                   userVars, errch>>

-----------------------------------------------------------------------------
(* The event handlers.  What they send on a connection that has ended is   *)
(* lost; that the bindings panic when they find it closed is left out.     *)
Handle(k, n) ==
    /\ queue # <<>> /\ Head(queue) = Ev(k, n)
    /\ UNCHANGED <<serverVars, sets>>

(* Requests to a manager that was withdrawn are ignored, until the client
   destroys it: they are neither granted nor refused. *)
Answers(m) == conn = "up" /\ m \in present

(* The outputs of S whose control the compositor grants. *)
Granted(S, m) == IF Answers(m) THEN (S \cap present) \ taken ELSE {}

(* bindControl for the outputs of S, of manager m.  The answers come in the
   order the map is walked. *)
BindControls(S, m) ==
    /\ control' = [o \in Outputs |-> IF o \in S THEN m ELSE control[o]]
    /\ holder' = [o \in Outputs |-> IF o \in Granted(S, m) THEN m ELSE holder[o]]
    /\ \E q \in SetToSeqs(S) :
         queue' = Tail(queue) \o
                    [i \in 1 .. (IF Answers(m) THEN Len(q) ELSE 0) |->
                       Ev(IF q[i] \in Granted(S, m) THEN "size" ELSE "failed", q[i])]

(* Mutant: a ramp is applied once only. *)
ApplyOutputsOnce(S) ==
    LET A == {o \in S : white' # 0 /\ control'[o] # 0 /\ size'[o] /\ applied[o] = 0}
    IN  /\ applied' = [o \in Outputs |-> IF o \in A THEN white' ELSE applied[o]]
        /\ ramp' = [o \in Outputs |->
                      IF o \in A /\ holder'[o] = control'[o] /\ conn = "up" THEN white' ELSE ramp[o]]

(* applyOutput for the outputs of S.  The compositor ignores the ramp of a
   control that has failed. *)
ApplyOutputs(S) ==
    LET A == {o \in S : white' # 0 /\ control'[o] # 0 /\ size'[o] /\ applied[o] # white'}
    IN  /\ applied' = [o \in Outputs |-> IF o \in A THEN white' ELSE applied[o]]
        /\ ramp' = [o \in Outputs |->
                      IF o \in A /\ holder'[o] = control'[o] /\ conn = "up" THEN white' ELSE ramp[o]]

(* Mutant: the outputs that came first are not bound. *)
OnGlobalManagerLate(m) ==
    /\ Handle("global", m) /\ m \in Managers
    /\ manager' = m /\ queue' = Tail(queue)
    /\ UNCHANGED <<outputs, outputVars, white, user, errch>>

(* OnGlobal: the first control manager is bound, others are not looked at. *)
OnGlobalManager(m) ==
    /\ Handle("global", m) /\ m \in Managers
    /\ UNCHANGED <<outputs, size, white, user, errch>>
    /\ IF manager # 0
       THEN queue' = Tail(queue) /\ UNCHANGED <<manager, control, applied, holder, ramp>>
       ELSE /\ manager' = m
            /\ BindControls({o \in outputs : control[o] = 0}, m)
            /\ ApplyOutputs(outputs)

(* OnGlobal: a new output, with a state of its own. *)
OnGlobalOutput(o) ==
    /\ Handle("global", o) /\ o \in Outputs
    /\ outputs' = outputs \cup {o}
    /\ size' = [size EXCEPT ![o] = FALSE]
    /\ applied' = [applied EXCEPT ![o] = 0]
    /\ BindControls(IF manager = 0 THEN {} ELSE {o}, manager)
    /\ UNCHANGED <<manager, ramp, white, user, errch>>

(* OnGlobalRemove: the name is compared with the object id of the manager,
   and else looked up among the outputs. *)
OnGlobalRemove(n) ==
    /\ Handle("remove", n)
    /\ queue' = Tail(queue)
    /\ IF manager # 0 /\ n = ManagerId
       THEN manager' = 0 /\ UNCHANGED <<outputs, control>>
       ELSE /\ outputs' = outputs \ {n}
            /\ control' = [o \in Outputs |-> IF o = n THEN 0 ELSE control[o]]
            /\ UNCHANGED manager
    /\ UNCHANGED <<size, applied, holder, ramp, white, user, errch>>

OnGammaSize(o) ==
    /\ Handle("size", o) /\ o \in Outputs
    /\ queue' = Tail(queue)
    /\ size' = [size EXCEPT ![o] = TRUE]
    /\ UNCHANGED <<manager, outputs, control, holder, white, user, errch>>
    /\ ApplyOutputs({o})

OnFailed(o) ==
    /\ Handle("failed", o) /\ o \in Outputs
    /\ queue' = Tail(queue)
    /\ control' = [control EXCEPT ![o] = 0]
    /\ UNCHANGED <<manager, outputs, size, applied, holder, ramp, white, user, errch>>

(* The callback of sync: the new white point goes to every output, and Set
   returns. *)
OnDone ==
    /\ Handle("done", 0)
    /\ queue' = Tail(queue)
    /\ white' = sets
    /\ user' = "select"
    /\ UNCHANGED <<manager, outputs, control, size, holder, errch>>
    /\ ApplyOutputs(outputs)

(* Only the first error is passed on. *)
OnError ==
    /\ Handle("error", 0)
    /\ queue' = Tail(queue)
    /\ errch' = IF errch = "open" THEN "error" ELSE errch
    /\ UNCHANGED <<manager, outputs, outputVars, white, user>>

Dispatch ==
    \/ \E m \in Managers : OnGlobalManager(m)
    \/ \E o \in Outputs : OnGlobalOutput(o) \/ OnGammaSize(o) \/ OnFailed(o)
    \/ \E n \in Outputs \cup Managers : OnGlobalRemove(n)
    \/ OnDone \/ OnError

-----------------------------------------------------------------------------
(* Mutant: Set does not wait for the events before it. *)
SetAtOnce ==
    /\ user = "select" /\ sets < MaxSets
    /\ sets' = sets + 1 /\ white' = sets'
    /\ UNCHANGED <<serverVars, queue, manager, outputs, control, size, holder, user, errch>>
    /\ ApplyOutputs(outputs)

(* The redshift module calls Set on every tick and click.  When the request
   of sync cannot be sent it panics, which ends the run ... *)
Set ==
    /\ user = "select" /\ sets < MaxSets
    /\ sets' = sets + 1
    /\ user' = IF conn = "up" THEN "asked" ELSE "returned"
    /\ UNCHANGED <<serverVars, queue, manager, outputs, outputVars, white, errch>>

(* ... and returns with a fatal error. *)
TakeFatal ==
    /\ user = "select" /\ errch = "error"
    /\ errch' = "empty"
    /\ user' = "returned"
    /\ UNCHANGED <<serverVars, queue, manager, outputs, outputVars, white, sets>>

Next ==
    \/ \E n \in Outputs \cup Managers : Announce(n) \/ Withdraw(n)
    \/ \E o \in Outputs : Take(o)
    \/ AnswerSync \/ EndConnection
    \/ Dispatch
    \/ Set \/ TakeFatal

Safe == Init /\ [][Next]_vars

(* The event goroutine and the redshift module run, and the compositor answers
   while it is there; nothing else needs to happen. *)
Spec == Safe /\ WF_vars(Dispatch) /\ WF_vars(AnswerSync) /\ WF_vars(TakeFatal)

-----------------------------------------------------------------------------
(* Set is for current and future outputs: a control that is valid and whose
   size has been received always carries the white point set last, in
   whatever order manager, output, size and Set have come. *)
RampIsCurrent ==
    \A o \in Outputs :
        conn = "up" /\ white # 0 /\ control[o] # 0 /\ holder[o] = control[o] /\ size[o]
          => ramp[o] = white

(* There is a control manager, and the client has not been misled about the
   one it has bound: that one is still there (OnGlobalRemove notices no
   manager that goes), and no global that has gone had the number of its
   object (OnGlobalRemove takes that for the manager). *)
ManagerStands ==
    present \cap Managers # {} /\ manager \notin gone /\ ManagerId \notin gone

(* Then every output that is there, and that no other client has taken,
   carries the white point of the last Set once the events are handled. *)
AllOutputsTinted ==
    conn = "up" /\ queue = <<>> /\ user = "select" /\ sets # 0 /\ ManagerStands =>
        \A o \in (present \cap Outputs) \ taken : ramp[o] = sets

(* The same whatever became of the manager that was bound: a session that has
   a control manager tints all its outputs.  The code does not keep it: after
   its manager has gone it asks the next output's control of an object that
   answers nothing, and looks at no other manager. *)
AnyManagerTints ==
    conn = "up" /\ queue = <<>> /\ user = "select" /\ sets # 0 /\ present \cap Managers # {} =>
        \A o \in (present \cap Outputs) \ taken : ramp[o] = sets

(* What the manager has been granted, what it can write, and what a Set that
   has been answered is still to come past: the events before its own. *)
Owned == IF conn = "up" THEN {o \in Outputs : holder[o] # 0} ELSE {}
Held == {o \in Owned : control[o] = holder[o] /\ size[o]}
IsAhead(o) ==
    \E i, j \in DOMAIN queue : i < j /\ queue[i] = Ev("size", o) /\ queue[j] = Ev("done", 0)
Due == IF user = "answered" THEN {o \in Owned : o \in Held \/ IsAhead(o)} ELSE {}
Phase == IF user = "asked" THEN "called" ELSE IF user = "answered" THEN "waiting" ELSE "idle"

(* The manager keeps its promise: an output that can be written carries the
   white point set last and never an older one again, and Set returns when
   all it has been granted before it was answered carry the new one. *)
Promised == INSTANCE GammaManager WITH phase <- Phase, granted <- Owned, held <- Held, due <- Due
ImplementsGammaManager == Promised!Spec

(* A fatal error ends the redshift module, which is to close the connection
   and show it. *)
FatalEndsRun == errch = "error" ~> user = "returned"
=============================================================================
