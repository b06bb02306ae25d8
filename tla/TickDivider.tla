---------------------------- MODULE TickDivider -----------------------------
(***************************************************************************)
(* The tickDivider of barlib.go: one time.Ticker of the base interval      *)
(* drives every sub-ticker of every module.  A sub-ticker is a channel of  *)
(* capacity 1 that gets base tick n when n is a multiple of its own        *)
(* interval; a tick that finds the channel full is missed.                 *)
(*                                                                         *)
(* Modules create and reset sub-tickers, cancel them all at once by        *)
(* closing a channel (each cancellable sub-ticker has a goroutine that     *)
(* waits for that), and receive from them, all while the loop ticks and    *)
(* the whole divider may be stopped.  Each critical section of d.m is one  *)
(* action.                                                                 *)
(***************************************************************************)
EXTENDS Integers, FiniteSets

CONSTANTS
    Subs,           \* the channels Tick can return
    Cancels,        \* cancel channels passed to Tick
    NoCancel,       \* the nil cancel channel
    Base,           \* the base interval
    Intervals,      \* the durations modules ask for
    MaxTick,        \* bound: base ticks that are explored
    None            \* an empty channel

ASSUME BaseAssumption == Base \in Nat \ {0}
ASSUME IntervalsAssumption == Intervals \subseteq Int
ASSUME MaxTickAssumption == MaxTick \in Nat
ASSUME NoneAssumption == None \notin Nat
ASSUME NoCancelAssumption == NoCancel \notin Cancels

VARIABLES
    s,              \* registered sub-tickers with their multiple of the base
    r,              \* the keys of the second map
    nil,            \* whether d.s is nil
    n,              \* the number of the next base tick
    tick,           \* whether the ticker's own channel holds a tick
    ch,             \* per sub-ticker, the tick in its channel
    created,        \* channels Tick has returned
    cancelOf,       \* per sub-ticker, the cancel channel it was given
    cancelled,      \* the closed cancel channels
    watch,          \* per sub-ticker, the goroutine that awaits its cancel
    closed,         \* whether d.c is closed
    loop,           \* the goroutine of newTickDivider
    asked,          \* history: the multiple a sub-ticker should have, 0 if none
    late,           \* history: ticks received since it should be silent,
                    \* less those that fell due since then
    since,          \* history: n at the last Tick, Reset or receive
    got             \* history: the tick received last

registry == <<s, r, nil, asked>>
clients == <<created, cancelOf, cancelled, watch>>
vars == <<registry, n, tick, ch, clients, closed, loop, late, since, got>>

Registered == DOMAIN s

TypeOK ==
    /\ Registered \subseteq Subs /\ s \in [Registered -> Nat]
    /\ r \subseteq Subs /\ nil \in BOOLEAN
    /\ n \in 0 .. MaxTick + 1 /\ tick \in BOOLEAN
    /\ ch \in [Subs -> 0 .. MaxTick \cup {None}]
    /\ created \subseteq Subs
    /\ cancelOf \in [Subs -> Cancels \cup {NoCancel}]
    /\ cancelled \subseteq Cancels
    /\ watch \in [Subs -> {"none", "waiting", "done"}]
    /\ closed \in BOOLEAN /\ loop \in {"select", "done"}
    /\ asked \in [Subs -> Nat] /\ late \in [Subs -> Int]
    /\ since \in [Subs -> 0 .. MaxTick + 1]
    /\ got \in [Subs -> -1 .. MaxTick]

Init ==
    /\ s = [x \in {} |-> 0] /\ r = {} /\ nil = FALSE
    /\ n = 0 /\ tick = FALSE
    /\ ch = [x \in Subs |-> None]
    /\ created = {} /\ cancelOf = [x \in Subs |-> NoCancel]
    /\ cancelled = {} /\ watch = [x \in Subs |-> "none"]
    /\ closed = FALSE /\ loop = "select"
    /\ asked = [x \in Subs |-> 0] /\ late = [x \in Subs |-> 0]
    /\ since = [x \in Subs |-> 0] /\ got = [x \in Subs |-> -1]

-----------------------------------------------------------------------------
(* Mutant: a negative duration is not rejected. *)
LegalNegative(d) == d % Base = 0

(* tickDivider.interval panics, before any lock is taken, on a duration that
   is negative or, under tickDividerStrict, not a multiple of the base. *)
Legal(d) == d >= 0 /\ d % Base = 0

(* The multiple of the base a duration stands for, rounded to nearest. *)
Multiple(d) == (d + Base \div 2) \div Base

(* The map m with one more entry. *)
With(m, x, k) == [y \in DOMAIN m \cup {x} |-> IF y = x THEN k ELSE m[y]]

(* The map m without the keys X. *)
Without(m, X) == [y \in DOMAIN m \ X |-> m[y]]

(* Mutant: Tick does not look whether the divider has been stopped. *)
TickAfterStop(x, d, c) ==
    /\ x \notin created /\ Legal(d)
    /\ created' = created \cup {x}
    /\ cancelOf' = [cancelOf EXCEPT ![x] = c]
    /\ since' = [since EXCEPT ![x] = n]
    /\ s' = With(s, x, Multiple(d)) /\ r' = r \cup {x}
    /\ asked' = [asked EXCEPT ![x] = Multiple(d)]
    /\ watch' = [watch EXCEPT ![x] = IF c = NoCancel THEN "none" ELSE "waiting"]
    /\ UNCHANGED <<nil, n, tick, ch, cancelled, closed, loop, late, got>>

(* Mutant: no goroutine waits for the cancel channel. *)
TickUnwatched(x, d, c) ==
    /\ x \notin created /\ Legal(d)
    /\ created' = created \cup {x}
    /\ cancelOf' = [cancelOf EXCEPT ![x] = c]
    /\ since' = [since EXCEPT ![x] = n]
    /\ IF nil
       THEN UNCHANGED <<s, r, asked>>
       ELSE /\ s' = With(s, x, Multiple(d)) /\ r' = r \cup {x}
            /\ asked' = [asked EXCEPT ![x] = Multiple(d)]
    /\ UNCHANGED <<watch, nil, n, tick, ch, cancelled, closed, loop, late, got>>

(* Tick(cancel, interval).  On a stopped divider it returns a channel that
   nobody will ever send to. *)
Tick(x, d, c) ==
    /\ x \notin created /\ Legal(d)
    /\ created' = created \cup {x}
    /\ cancelOf' = [cancelOf EXCEPT ![x] = c]
    /\ since' = [since EXCEPT ![x] = n]
    /\ IF nil
       THEN UNCHANGED <<s, r, asked, watch>>
       ELSE /\ s' = With(s, x, Multiple(d)) /\ r' = r \cup {x}
            /\ asked' = [asked EXCEPT ![x] = Multiple(d)]
            /\ watch' = [watch EXCEPT ![x] = IF c = NoCancel THEN "none" ELSE "waiting"]
    /\ UNCHANGED <<nil, n, tick, ch, cancelled, closed, loop, late, got>>

(* A sub-ticker should be silent when no ticks are asked of it, when its
   cancel channel is closed, and when the divider has been told to stop. *)
Ended(x) == cancelOf[x] \in cancelled \/ closed
Silent(x) == asked[x] = 0 \/ Ended(x)

(* Mutant: an interval of 0 leaves the sub-ticker as it is. *)
ResetIgnoresZero(x, d) ==
    /\ x \in created /\ Legal(d)
    /\ IF ~nil /\ x \in r
       THEN /\ s' = IF Multiple(d) = 0 THEN s ELSE With(s, x, Multiple(d))
            /\ asked' = [asked EXCEPT ![x] = Multiple(d)]
            /\ late' = IF Multiple(d) = 0 \/ Ended(x) THEN late ELSE [late EXCEPT ![x] = 0]
            /\ since' = [since EXCEPT ![x] = n]
       ELSE UNCHANGED <<s, asked, late, since>>
    /\ UNCHANGED <<r, nil, n, tick, ch, clients, closed, loop, got>>

(* Reset(s, interval): only a sub-ticker that is still registered changes. *)
Reset(x, d) ==
    /\ x \in created /\ Legal(d)
    /\ IF ~nil /\ x \in r
       THEN /\ s' = With(s, x, Multiple(d))
            /\ asked' = [asked EXCEPT ![x] = Multiple(d)]
            /\ late' = IF Multiple(d) = 0 \/ Ended(x) THEN late ELSE [late EXCEPT ![x] = 0]
            /\ since' = [since EXCEPT ![x] = n]
       ELSE UNCHANGED <<s, asked, late, since>>
    /\ UNCHANGED <<r, nil, n, tick, ch, clients, closed, loop, got>>

(* The owner of a cancel channel closes it. *)
Cancel(c) ==
    /\ c \notin cancelled
    /\ cancelled' = cancelled \cup {c}
    /\ UNCHANGED <<registry, n, tick, ch, created, cancelOf, watch, closed, loop, late, since, got>>

(* Mutant: only one of the two maps forgets the sub-ticker. *)
WatchOneMap(x) ==
    /\ watch[x] = "waiting" /\ cancelOf[x] \in cancelled
    /\ s' = Without(s, {x})
    /\ asked' = [asked EXCEPT ![x] = 0]
    /\ watch' = [watch EXCEPT ![x] = "done"]
    /\ UNCHANGED <<r, nil, n, tick, ch, created, cancelOf, cancelled, closed, loop, late, since, got>>

(* The goroutine Tick started sees the cancel and forgets the sub-ticker. *)
Watch(x) ==
    /\ watch[x] = "waiting" /\ cancelOf[x] \in cancelled
    /\ s' = Without(s, {x}) /\ r' = r \ {x}
    /\ asked' = [asked EXCEPT ![x] = 0]
    /\ watch' = [watch EXCEPT ![x] = "done"]
    /\ UNCHANGED <<nil, n, tick, ch, created, cancelOf, cancelled, closed, loop, late, since, got>>

(* A base interval passes; time.Ticker keeps at most one tick. *)
TickerFire ==
    /\ loop = "select" /\ ~tick /\ n <= MaxTick
    /\ tick' = TRUE
    /\ UNCHANGED <<registry, n, ch, clients, closed, loop, late, since, got>>

(* The sub-tickers that base tick m is for. *)
Due(m) == {x \in Registered : s[x] # 0 /\ m % s[x] = 0}

(* Every due channel that is empty gets tick m, the others miss it. *)
Sent(m) == [x \in Subs |-> IF x \in Due(m) /\ ch[x] = None THEN m ELSE ch[x]]

(* The late count after base tick m, by what was asked. *)
Excused(m) ==
    [x \in Subs |-> IF Silent(x) /\ asked[x] # 0 /\ m % asked[x] = 0 THEN late[x] - 1 ELSE late[x]]

(* Mutant: a tick somebody missed is not counted. *)
LoopTickUncounted ==
    /\ loop = "select" /\ tick
    /\ tick' = FALSE
    /\ ch' = Sent(n)
    /\ n' = IF \E x \in Due(n) : ch[x] # None THEN n ELSE n + 1
    /\ late' = Excused(n)
    /\ UNCHANGED <<registry, clients, closed, loop, since, got>>

(* Mutant: the counter advances before the sends. *)
LoopTickCountsFirst ==
    /\ loop = "select" /\ tick
    /\ tick' = FALSE
    /\ ch' = Sent(n + 1)
    /\ n' = n + 1
    /\ late' = Excused(n)
    /\ UNCHANGED <<registry, clients, closed, loop, since, got>>

(* The loop receives a base tick. *)
LoopTick ==
    /\ loop = "select" /\ tick
    /\ tick' = FALSE
    /\ ch' = Sent(n)
    /\ n' = n + 1
    /\ late' = Excused(n)
    /\ UNCHANGED <<registry, clients, closed, loop, since, got>>

(* Stop() closes d.c. *)
Stop ==
    /\ ~closed
    /\ closed' = TRUE
    /\ UNCHANGED <<registry, n, tick, ch, clients, loop, late, since, got>>

(* The loop receives the stop: both maps are emptied, d.s becomes nil. *)
LoopStop ==
    /\ loop = "select" /\ closed
    /\ loop' = "done"
    /\ s' = Without(s, r) /\ r' = {} /\ nil' = TRUE
    /\ asked' = [x \in Subs |-> 0]
    /\ UNCHANGED <<n, tick, ch, clients, closed, late, since, got>>

(* A module receives from a sub-ticker. *)
Receive(x) ==
    /\ ch[x] # None
    /\ ch' = [ch EXCEPT ![x] = None]
    /\ got' = [got EXCEPT ![x] = ch[x]]
    /\ since' = [since EXCEPT ![x] = n]
    /\ late' = IF Silent(x) THEN [late EXCEPT ![x] = @ + 1] ELSE late
    /\ UNCHANGED <<registry, n, tick, clients, closed, loop>>

Next ==
    \/ \E x \in Subs, d \in Intervals :
           \/ \E c \in Cancels \cup {NoCancel} : Tick(x, d, c)
           \/ Reset(x, d)
    \/ \E c \in Cancels : Cancel(c)
    \/ \E x \in Subs : Watch(x) \/ Receive(x)
    \/ TickerFire \/ LoopTick
    \/ Stop \/ LoopStop

Safe == Init /\ [][Next]_vars

(* The goroutines that wait for a cancel run; so does the loop, whose select
   does not prefer a tick to the stop for ever. *)
Spec == Safe /\ WF_vars(LoopStop) /\ \A x \in Subs : WF_vars(Watch(x))

-----------------------------------------------------------------------------
(* The two maps agree and hold what the modules asked for: a cancelled
   sub-ticker cannot be revived by a Reset that comes late, and once the stop
   has been received nothing is registered any more. *)
RegistryAgrees ==
    /\ Registered = r
    /\ \A x \in Subs : asked[x] = IF x \in Registered THEN s[x] ELSE 0
    /\ \A x \in Subs : watch[x] = "done" => x \notin r
    /\ loop = "done" => r = {}

(* A sub-ticker that is reset to 0 delivers at most the one tick that was
   already in its channel.  One whose cancel channel is closed, or whose
   divider is stopped, goes on until the goroutine that awaits the cancel, or
   the loop, gets to it: it delivers no more than that tick and those that
   fall due meanwhile, and none of them twice. *)
AtMostOneLateTick ==
    \A x \in Subs :
        Silent(x) => late[x] + (IF ch[x] = None THEN 0 ELSE 1) <= 1

(* Missed ticks trigger as soon as possible: a sub-ticker whose channel is
   empty was not due since it was last created, reset or received from. *)
NoTickSkipped ==
    \A x \in Registered :
        ch[x] = None /\ s[x] # 0 =>
            \A m \in since[x] .. n - 1 : m % s[x] # 0

(* The ticks a module receives from one sub-ticker strictly increase, however
   it is reset in between. *)
TicksInOrder ==
    \A x \in Subs : got[x] < n /\ (ch[x] # None => got[x] < ch[x] /\ ch[x] < n)

(* After its cancel channel is closed a sub-ticker is forgotten. *)
CancelForgets ==
    \A x \in Subs :
        (x \in Registered /\ cancelOf[x] \in cancelled) ~> x \notin Registered

(* After Stop the divider forgets every sub-ticker and registers none. *)
StopForgets == closed ~> [](Registered = {})

(* Sub-tickers do not pile up: neither those that are cancelled, nor those of a
   divider that is stopped, even if they are created afterwards. *)
Forgets == CancelForgets /\ StopForgets
=============================================================================
