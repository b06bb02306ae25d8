---------------------------- MODULE GammaManager ----------------------------
(***************************************************************************)
(* What a gamma manager promises (manager.go), with no compositor, event   *)
(* or control in sight: an output it can write carries the white point of  *)
(* the last Set that returned, from the moment it can be written on.  An   *)
(* output it was given before Set asked has it when Set returns.  Nothing  *)
(* else is ever written: no output goes back to an older white point, and  *)
(* one that is lost is left as it is, or reset by whoever takes it.        *)
(***************************************************************************)
EXTENDS Integers

CONSTANT Outputs

VARIABLES
    phase,          \* where Set is: "idle", "called", "waiting"
    white,          \* the white point set last, counted from 1, 0 for none
    granted,        \* the outputs that are the manager's
    held,           \* those of them it can write
    due,            \* those Set waits for
    ramp            \* what every output carries, 0 for nothing

vars == <<phase, white, granted, held, due, ramp>>

Init ==
    /\ phase = "idle" /\ white = 0
    /\ granted = {} /\ held = {} /\ due = {}
    /\ ramp = [o \in Outputs |-> 0]

(* The manager is given outputs it did not have. *)
Grant(S) ==
    /\ S \cap granted = {}
    /\ granted' = granted \cup S
    /\ UNCHANGED <<phase, white, held, due, ramp>>

(* It can write an output, and does. *)
Adopt(o) ==
    /\ o \in granted
    /\ held' = held \cup {o}
    /\ ramp' = [ramp EXCEPT ![o] = white]
    /\ UNCHANGED <<phase, white, granted, due>>

(* An output goes, or somebody else takes it. *)
Lose(o) ==
    /\ granted' = granted \ {o} /\ held' = held \ {o} /\ due' = due \ {o}
    /\ \E r \in {ramp[o], 0} : ramp' = [ramp EXCEPT ![o] = r]
    /\ UNCHANGED <<phase, white>>

Call ==
    /\ phase = "idle" /\ phase' = "called"
    /\ UNCHANGED <<white, granted, held, due, ramp>>

(* Between its call and its return Set settles what it waits for. *)
Settle ==
    /\ phase = "called" /\ phase' = "waiting"
    /\ due' = granted
    /\ UNCHANGED <<white, granted, held, ramp>>

Return ==
    /\ phase = "waiting" /\ phase' = "idle"
    /\ due \subseteq held /\ due' = {}
    /\ white' = white + 1
    /\ ramp' = [o \in Outputs |-> IF o \in held THEN white' ELSE ramp[o]]
    /\ UNCHANGED <<granted, held>>

(* Without a connection no output is the manager's any more. *)
Disconnect ==
    /\ granted' = {} /\ held' = {} /\ due' = {}
    /\ UNCHANGED <<phase, white, ramp>>

Next ==
    \/ \E S \in SUBSET Outputs : Grant(S)
    \/ \E o \in Outputs : Adopt(o) \/ Lose(o)
    \/ Call \/ Settle \/ Return \/ Disconnect

Spec == Init /\ [][Next]_vars
=============================================================================
