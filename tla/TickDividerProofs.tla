------------------------- MODULE TickDividerProofs --------------------------
(***************************************************************************)
(* What TickDivider guarantees for any set of sub-tickers, cancel          *)
(* channels, base interval, durations and number of ticks.                 *)
(***************************************************************************)
EXTENDS TickDivider, TLAPS

USE BaseAssumption, IntervalsAssumption, MaxTickAssumption, NoneAssumption, NoCancelAssumption

(* The multiple of a legal duration is a natural number. *)
LEMMA MultipleNat ==
    ASSUME NEW d \in Intervals, Legal(d)
    PROVE  Multiple(d) \in Nat
<1> DEFINE h == Base \div 2
<1>1. d \in Int /\ d >= 0 /\ Base \in Int /\ Base > 0
  BY DEF Legal
<1>2. h \in Int /\ h >= 0
  BY <1>1
<1> HIDE DEF h
<1>3. d + h \in Int /\ d + h >= 0
  BY <1>1, <1>2
<1>4. \A u, v \in Int : u >= 0 /\ v > 0 => u \div v \in Nat
  OBVIOUS
<1>5. (d + h) \div Base \in Nat
  BY <1>1, <1>3, <1>4
<1>6. QED
  BY <1>5 DEF Multiple, h

(* What the two helpers on maps return. *)
LEMMA WithValue ==
    ASSUME NEW m, NEW x, NEW k
    PROVE  /\ DOMAIN With(m, x, k) = DOMAIN m \cup {x}
           /\ With(m, x, k)[x] = k
           /\ \A y \in DOMAIN m : y # x => With(m, x, k)[y] = m[y]
  BY DEF With

LEMMA WithType ==
    ASSUME NEW m, m \in [DOMAIN m -> Nat], NEW x, NEW k \in Nat
    PROVE  With(m, x, k) \in [DOMAIN With(m, x, k) -> Nat]
  BY DEF With

LEMMA WithoutValue ==
    ASSUME NEW m, NEW X
    PROVE  /\ DOMAIN Without(m, X) = DOMAIN m \ X
           /\ \A y \in DOMAIN m \ X : Without(m, X)[y] = m[y]
  BY DEF Without

LEMMA WithoutType ==
    ASSUME NEW m, m \in [DOMAIN m -> Nat], NEW X
    PROVE  Without(m, X) \in [DOMAIN Without(m, X) -> Nat]
  BY DEF Without

(* A base tick reaches channels only as a tick of the right type. *)
LEMMA SentType ==
    ASSUME TypeOK, NEW m \in 0 .. MaxTick
    PROVE  Sent(m) \in [Subs -> 0 .. MaxTick \cup {None}]
  BY DEF TypeOK, Sent

(* The bound on the ticker: there is a pending tick only within the bound. *)
TickBound == tick => n <= MaxTick

(* Every variable keeps its type, in particular no sub-ticker is registered
   with a negative multiple. *)
THEOREM TypeCorrect == Safe => []TypeOK
<1>1. Init => TypeOK /\ TickBound
  <2> SUFFICES ASSUME Init PROVE TypeOK /\ TickBound
    OBVIOUS
  <2>1. Registered = {} /\ s \in [Registered -> Nat]
    BY DEF Init, Registered
  <2>2. /\ 0 \in 0 .. MaxTick + 1 /\ -1 \in -1 .. MaxTick
    OBVIOUS
  <2>3. /\ asked \in [Subs -> Nat] /\ late \in [Subs -> Int]
        /\ since \in [Subs -> 0 .. MaxTick + 1] /\ got \in [Subs -> -1 .. MaxTick]
    BY <2>2 DEF Init
  <2>4. /\ ch \in [Subs -> 0 .. MaxTick \cup {None}]
        /\ cancelOf \in [Subs -> Cancels \cup {NoCancel}]
        /\ watch \in [Subs -> {"none", "waiting", "done"}]
    BY DEF Init
  <2>5. QED
    BY <2>1, <2>2, <2>3, <2>4 DEF Init, TypeOK, TickBound
<1>2. TypeOK /\ TickBound /\ [Next]_vars => TypeOK' /\ TickBound'
  <2> SUFFICES ASSUME TypeOK, TickBound, [Next]_vars PROVE TypeOK' /\ TickBound'
    OBVIOUS
  <2> USE DEF TypeOK, TickBound, Registered, registry, clients
  <2>1. ASSUME NEW x \in Subs, NEW d \in Intervals, NEW c \in Cancels \cup {NoCancel},
               Tick(x, d, c)
        PROVE  TypeOK' /\ TickBound'
    <3>1. Multiple(d) \in Nat
      BY <2>1, MultipleNat DEF Tick
    <3>2. DOMAIN With(s, x, Multiple(d)) \subseteq Subs
      <4>1. DOMAIN With(s, x, Multiple(d)) = DOMAIN s \cup {x}
        BY WithValue, Zenon
      <4>2. QED
        BY <4>1
    <3>3. With(s, x, Multiple(d)) \in [DOMAIN With(s, x, Multiple(d)) -> Nat]
      BY <3>1, WithType
    <3>4. QED
      BY <2>1, <3>1, <3>2, <3>3 DEF Tick
  <2>2. ASSUME NEW x \in Subs, NEW d \in Intervals, Reset(x, d)
        PROVE  TypeOK' /\ TickBound'
    <3>1. Multiple(d) \in Nat
      BY <2>2, MultipleNat DEF Reset
    <3>2. DOMAIN With(s, x, Multiple(d)) \subseteq Subs
      <4>1. DOMAIN With(s, x, Multiple(d)) = DOMAIN s \cup {x}
        BY WithValue, Zenon
      <4>2. QED
        BY <4>1
    <3>3. With(s, x, Multiple(d)) \in [DOMAIN With(s, x, Multiple(d)) -> Nat]
      BY <3>1, WithType
    <3>4. QED
      BY <2>2, <3>1, <3>2, <3>3 DEF Reset
  <2>3. ASSUME NEW c \in Cancels, Cancel(c) PROVE TypeOK' /\ TickBound'
    BY <2>3 DEF Cancel
  <2>4. ASSUME NEW x \in Subs, Watch(x) PROVE TypeOK' /\ TickBound'
    <3>1. DOMAIN Without(s, {x}) \subseteq Subs
      <4>1. DOMAIN Without(s, {x}) = DOMAIN s \ {x}
        BY WithoutValue, Zenon
      <4>2. QED
        BY <4>1
    <3>2. Without(s, {x}) \in [DOMAIN Without(s, {x}) -> Nat]
      BY WithoutType
    <3>3. QED
      BY <2>4, <3>1, <3>2 DEF Watch
  <2>5. ASSUME NEW x \in Subs, Receive(x) PROVE TypeOK' /\ TickBound'
    <3>1. ch[x] \in 0 .. MaxTick
      BY <2>5 DEF Receive
    <3>2. QED
      BY <2>5, <3>1 DEF Receive
  <2>6. ASSUME TickerFire PROVE TypeOK' /\ TickBound'
    BY <2>6 DEF TickerFire
  <2>7. ASSUME LoopTick PROVE TypeOK' /\ TickBound'
    <3>1. n \in 0 .. MaxTick
      BY <2>7 DEF LoopTick
    <3>2. ch' \in [Subs -> 0 .. MaxTick \cup {None}]
      BY <2>7, <3>1, SentType DEF LoopTick
    <3>3. n' \in 0 .. MaxTick + 1
      BY <2>7, <3>1 DEF LoopTick
    <3>4. ~tick' /\ tick' \in BOOLEAN
      BY <2>7 DEF LoopTick
    <3>5. UNCHANGED <<registry, clients, closed, loop, since, got>>
      BY <2>7 DEF LoopTick
    <3>6. late' \in [Subs -> Int]
      BY <2>7 DEF LoopTick, Excused
    <3>7. QED
      BY <3>2, <3>3, <3>4, <3>5, <3>6
  <2>8. ASSUME Stop PROVE TypeOK' /\ TickBound'
    BY <2>8 DEF Stop
  <2>9. ASSUME LoopStop PROVE TypeOK' /\ TickBound'
    <3>1. DOMAIN Without(s, r) \subseteq Subs
      <4>1. DOMAIN Without(s, r) = DOMAIN s \ r
        BY WithoutValue, Zenon
      <4>2. QED
        BY <4>1
    <3>2. Without(s, r) \in [DOMAIN Without(s, r) -> Nat]
      BY WithoutType
    <3>3. QED
      BY <2>9, <3>1, <3>2 DEF LoopStop
  <2>10. ASSUME UNCHANGED vars PROVE TypeOK' /\ TickBound'
    BY <2>10 DEF vars
  <2>11. QED
    BY <2>1, <2>2, <2>3, <2>4, <2>5, <2>6, <2>7, <2>8, <2>9, <2>10 DEF Next
<1>3. QED
  BY <1>1, <1>2, PTL DEF Safe

-----------------------------------------------------------------------------
(* A goroutine that awaits a cancel belongs to a sub-ticker with a cancel
   channel that Tick has returned, and a registered one has been returned. *)
ClientInv ==
    /\ r \subseteq created
    /\ \A x \in Subs : watch[x] # "none" => x \in created
    /\ nil = (loop = "done")

RegInv == ClientInv /\ RegistryAgrees

LEMMA TickKeepsRegistry ==
    ASSUME TypeOK, RegInv, NEW x \in Subs, NEW d \in Intervals,
           NEW c \in Cancels \cup {NoCancel}, Tick(x, d, c)
    PROVE  RegInv'
<1> DEFINE k == Multiple(d)
<1>1. x \notin created /\ created' = created \cup {x} /\ UNCHANGED <<nil, loop>>
  BY DEF Tick
<1>2. CASE nil
  <2>1. UNCHANGED <<s, r, asked, watch>>
    BY <1>2 DEF Tick
  <2>2. QED
    BY <1>1, <2>1 DEF RegInv, ClientInv, RegistryAgrees, Registered
<1>3. CASE ~nil
  <2>1. /\ s' = With(s, x, k) /\ r' = r \cup {x}
        /\ asked' = [asked EXCEPT ![x] = k]
        /\ watch' = [watch EXCEPT ![x] = IF c = NoCancel THEN "none" ELSE "waiting"]
    BY <1>3 DEF Tick
  <2>2. DOMAIN s' = DOMAIN s \cup {x} /\ s'[x] = k /\ \A y \in DOMAIN s : y # x => s'[y] = s[y]
    <3>1. DOMAIN With(s, x, k) = DOMAIN s \cup {x}
      BY WithValue, Zenon
    <3>2. With(s, x, k)[x] = k
      BY DEF With
    <3>3. \A y \in DOMAIN s : y # x => With(s, x, k)[y] = s[y]
      BY DEF With
    <3>4. QED
      BY <2>1, <3>1, <3>2, <3>3, Zenon
  <2>3. asked'[x] = k /\ \A y \in Subs : y # x => asked'[y] = asked[y]
    BY <2>1 DEF TypeOK
  <2>4. /\ watch'[x] # "done"
        /\ \A y \in Subs : y # x => watch'[y] = watch[y]
    BY <2>1 DEF TypeOK
  <2>5. ClientInv'
    BY <1>1, <2>1, <2>4 DEF RegInv, ClientInv
  <2>6. RegistryAgrees'
    <3>1. Registered' = r'
      BY <2>1, <2>2 DEF RegInv, RegistryAgrees, Registered
    <3>2. \A y \in Subs : asked'[y] = IF y \in Registered' THEN s'[y] ELSE 0
      BY <2>2, <2>3 DEF RegInv, RegistryAgrees, Registered
    <3>3. \A y \in Subs : watch'[y] = "done" => y \notin r'
      BY <2>1, <2>4 DEF RegInv, RegistryAgrees
    <3>4. loop' # "done"
      BY <1>1, <1>3 DEF RegInv, ClientInv
    <3>5. QED
      BY <3>1, <3>2, <3>3, <3>4 DEF RegistryAgrees
  <2>7. QED
    BY <2>5, <2>6 DEF RegInv
<1>4. QED
  BY <1>2, <1>3 DEF TypeOK

LEMMA ResetKeepsRegistry ==
    ASSUME TypeOK, RegInv, NEW x \in Subs, NEW d \in Intervals, Reset(x, d)
    PROVE  RegInv'
<1> DEFINE k == Multiple(d)
<1>1. UNCHANGED <<r, nil, loop, created, watch>>
  BY DEF Reset, clients
<1>2. CASE ~(~nil /\ x \in r)
  <2>1. UNCHANGED <<s, asked>>
    BY <1>2 DEF Reset
  <2>2. QED
    BY <1>1, <2>1 DEF RegInv, ClientInv, RegistryAgrees, Registered
<1>3. CASE ~nil /\ x \in r
  <2>1. s' = With(s, x, k) /\ asked' = [asked EXCEPT ![x] = k]
    BY <1>3 DEF Reset
  <2>2. DOMAIN s' = DOMAIN s \cup {x} /\ s'[x] = k /\ \A y \in DOMAIN s : y # x => s'[y] = s[y]
    <3>1. DOMAIN With(s, x, k) = DOMAIN s \cup {x}
      BY WithValue, Zenon
    <3>2. With(s, x, k)[x] = k
      BY DEF With
    <3>3. \A y \in DOMAIN s : y # x => With(s, x, k)[y] = s[y]
      BY DEF With
    <3>4. QED
      BY <2>1, <3>1, <3>2, <3>3, Zenon
  <2>3. asked'[x] = k /\ \A y \in Subs : y # x => asked'[y] = asked[y]
    BY <2>1 DEF TypeOK
  <2>4. x \in DOMAIN s /\ DOMAIN s' = DOMAIN s
    BY <1>3, <2>2 DEF RegInv, RegistryAgrees, Registered
  <2>5. QED
    BY <1>1, <2>2, <2>3, <2>4 DEF RegInv, ClientInv, RegistryAgrees, Registered
<1>4. QED
  BY <1>2, <1>3

LEMMA ForgetKeepsRegistry ==
    ASSUME TypeOK, RegInv, (\E x \in Subs : Watch(x)) \/ LoopStop
    PROVE  RegInv'
<1>1. ASSUME NEW x \in Subs, Watch(x) PROVE RegInv'
  <2>1. /\ s' = Without(s, {x}) /\ r' = r \ {x} /\ asked' = [asked EXCEPT ![x] = 0]
        /\ watch' = [watch EXCEPT ![x] = "done"] /\ watch[x] = "waiting"
        /\ UNCHANGED <<nil, loop, created>>
    BY <1>1 DEF Watch
  <2>2. DOMAIN s' = DOMAIN s \ {x} /\ \A y \in DOMAIN s \ {x} : s'[y] = s[y]
    BY <2>1, WithoutValue, Zenon
  <2>3. asked'[x] = 0 /\ \A y \in Subs : y # x => asked'[y] = asked[y]
    BY <2>1 DEF TypeOK
  <2>4. \A y \in Subs : y # x => watch'[y] = watch[y]
    BY <2>1 DEF TypeOK
  <2>5. ClientInv'
    BY <2>1, <2>4 DEF RegInv, ClientInv
  <2>6. RegistryAgrees'
    BY <2>1, <2>2, <2>3, <2>4 DEF RegInv, RegistryAgrees, Registered
  <2>7. QED
    BY <2>5, <2>6 DEF RegInv
<1>2. ASSUME LoopStop PROVE RegInv'
  <2>1. /\ s' = Without(s, r) /\ r' = {} /\ asked' = [x \in Subs |-> 0] /\ nil' = TRUE
        /\ loop' = "done" /\ UNCHANGED <<created, watch>>
    BY <1>2 DEF LoopStop, clients
  <2>2. DOMAIN s' = DOMAIN s \ r
    BY <2>1, WithoutValue, Zenon
  <2>3. DOMAIN s' = {}
    BY <2>2 DEF RegInv, RegistryAgrees, Registered
  <2>4. QED
    BY <2>1, <2>3 DEF RegInv, ClientInv, RegistryAgrees, Registered
<1>3. QED
  BY <1>1, <1>2

LEMMA RegistryStep == TypeOK /\ RegInv /\ [Next]_vars => RegInv'
<1> SUFFICES ASSUME TypeOK, RegInv, [Next]_vars PROVE RegInv'
  OBVIOUS
<1>1. ASSUME UNCHANGED <<registry, created, watch, loop>> PROVE RegInv'
  BY <1>1 DEF registry, RegInv, ClientInv, RegistryAgrees, Registered
<1>2. ASSUME NEW x \in Subs, NEW d \in Intervals, NEW c \in Cancels \cup {NoCancel},
             Tick(x, d, c)
      PROVE  RegInv'
  BY <1>2, TickKeepsRegistry
<1>3. ASSUME NEW x \in Subs, NEW d \in Intervals, Reset(x, d) PROVE RegInv'
  BY <1>3, ResetKeepsRegistry
<1>4. ASSUME NEW x \in Subs, Watch(x) PROVE RegInv'
  BY <1>4, ForgetKeepsRegistry
<1>5. ASSUME LoopStop PROVE RegInv'
  BY <1>5, ForgetKeepsRegistry
<1>6. ASSUME \/ \E c \in Cancels : Cancel(c)
             \/ \E x \in Subs : Receive(x)
             \/ TickerFire \/ LoopTick \/ Stop \/ UNCHANGED vars
      PROVE  RegInv'
  BY <1>1, <1>6 DEF Cancel, Receive, TickerFire, LoopTick, Stop, vars, clients
<1>7. QED
  BY <1>2, <1>3, <1>4, <1>5, <1>6 DEF Next

(* The maps agree with each other and with what the modules asked for: no
   late Reset revives a cancelled sub-ticker, none survives the stop. *)
THEOREM RegistryCorrect == Safe => []RegistryAgrees
<1>1. Init => RegInv
  BY DEF Init, RegInv, ClientInv, RegistryAgrees, Registered
<1>2. RegInv => RegistryAgrees
  BY DEF RegInv
<1>3. QED
  BY <1>1, <1>2, TypeCorrect, RegistryStep, PTL DEF Safe

-----------------------------------------------------------------------------
(* A sub-ticker that need not be silent has delivered nothing late, and one
   that Tick has not returned yet has an empty channel. *)
LateInv ==
    /\ \A x \in Subs : ~Silent(x) => late[x] = 0
    /\ \A x \in Subs : x \notin created => late[x] = 0 /\ ch[x] = None
    /\ AtMostOneLateTick

FullInv == RegInv /\ LateInv

(* Only sub-tickers are due that are asked for the tick. *)
LEMMA DueAsked ==
    ASSUME RegistryAgrees, NEW m, NEW x \in Subs, x \in Due(m)
    PROVE  asked[x] # 0 /\ m % asked[x] = 0 /\ x \in r
  BY DEF Due, RegistryAgrees

(* A step that changes neither a channel nor a late count keeps the invariant
   when those that were to be silent still are. *)
LEMMA Silenced ==
    ASSUME TypeOK, LateInv, UNCHANGED <<ch, late>>, created \subseteq created',
           \A x \in Subs : x \notin created \/ (Silent(x) => Silent(x)')
    PROVE  LateInv'
<1>1. \A x \in Subs : ~Silent(x)' => late'[x] = 0
  BY DEF LateInv
<1>2. \A x \in Subs : x \notin created' => late'[x] = 0 /\ ch'[x] = None
  BY DEF LateInv
<1>3. \A x \in Subs : late[x] + (IF ch[x] = None THEN 0 ELSE 1) <= 1
  <2> SUFFICES ASSUME NEW x \in Subs
               PROVE  late[x] + (IF ch[x] = None THEN 0 ELSE 1) <= 1
    OBVIOUS
  <2>1. CASE Silent(x)
    BY <2>1 DEF LateInv, AtMostOneLateTick
  <2>2. CASE ~Silent(x)
    BY <2>2 DEF LateInv
  <2>3. QED
    BY <2>1, <2>2
<1>4. QED
  BY <1>1, <1>2, <1>3 DEF LateInv, AtMostOneLateTick

LEMMA LateStep == TypeOK /\ FullInv /\ [Next]_vars => LateInv'
<1> SUFFICES ASSUME TypeOK, RegInv, LateInv, [Next]_vars PROVE LateInv'
  BY DEF FullInv
<1>1. ASSUME NEW x \in Subs, NEW d \in Intervals, NEW c \in Cancels \cup {NoCancel},
             Tick(x, d, c)
      PROVE  LateInv'
  <2>1. /\ x \notin created /\ created' = created \cup {x}
        /\ UNCHANGED <<ch, late, cancelled, closed>>
        /\ \A y \in Subs : y # x => asked'[y] = asked[y] /\ cancelOf'[y] = cancelOf[y]
    BY <1>1 DEF Tick, TypeOK
  <2>2. \A y \in Subs : y \notin created \/ (Silent(y) => Silent(y)')
    BY <2>1 DEF Silent, Ended
  <2>3. QED
    BY <2>1, <2>2, Silenced
<1>2. ASSUME NEW x \in Subs, NEW d \in Intervals, Reset(x, d) PROVE LateInv'
  <2>1. UNCHANGED <<ch, created, cancelOf, cancelled, closed>> /\ x \in created
    BY <1>2 DEF Reset, clients
  <2>2. CASE ~(~nil /\ x \in r)
    <3>1. UNCHANGED <<asked, late>>
      BY <1>2, <2>2 DEF Reset
    <3>2. QED
      BY <2>1, <3>1 DEF LateInv, AtMostOneLateTick, Silent, Ended
  <2>3. CASE ~nil /\ x \in r
    <3>1. /\ asked' = [asked EXCEPT ![x] = Multiple(d)]
          /\ late' = IF Multiple(d) = 0 \/ Ended(x) THEN late ELSE [late EXCEPT ![x] = 0]
      BY <1>2, <2>3 DEF Reset
    <3>2. CASE Multiple(d) = 0 \/ Ended(x)
      <4>1. UNCHANGED <<ch, late, created>>
        BY <2>1, <3>1, <3>2
      <4>2. \A y \in Subs : Silent(y) => Silent(y)'
        BY <2>1, <3>1, <3>2 DEF TypeOK, Silent, Ended
      <4>3. QED
        BY <4>1, <4>2, Silenced
    <3>3. CASE ~(Multiple(d) = 0 \/ Ended(x))
      <4>1. late'[x] = 0 /\ ~Silent(x)'
        BY <2>1, <3>1, <3>3 DEF TypeOK, Silent, Ended
      <4>2. \A y \in Subs : y # x => late'[y] = late[y] /\ Silent(y)' = Silent(y)
        BY <2>1, <3>1, <3>3 DEF TypeOK, Silent, Ended
      <4>3. \A y \in Subs : ~Silent(y)' => late'[y] = 0
        BY <4>1, <4>2 DEF LateInv
      <4>4. \A y \in Subs : y \notin created' => late'[y] = 0 /\ ch'[y] = None
        BY <2>1, <4>2 DEF LateInv
      <4>5. AtMostOneLateTick'
        BY <2>1, <4>1, <4>2 DEF LateInv, AtMostOneLateTick
      <4>6. QED
        BY <4>3, <4>4, <4>5 DEF LateInv
    <3>4. QED
      BY <3>2, <3>3
  <2>4. QED
    BY <2>2, <2>3
<1>3. ASSUME NEW x \in Subs, Watch(x) PROVE LateInv'
  <2>1. /\ UNCHANGED <<ch, late, created, cancelOf, cancelled, closed>>
        /\ asked' = [asked EXCEPT ![x] = 0]
    BY <1>3 DEF Watch
  <2>2. \A y \in Subs : Silent(y) => Silent(y)'
    BY <2>1 DEF TypeOK, Silent, Ended
  <2>3. QED
    BY <2>1, <2>2, Silenced
<1>4. ASSUME LoopStop PROVE LateInv'
  <2>1. UNCHANGED <<ch, late, created>> /\ asked' = [x \in Subs |-> 0]
    BY <1>4 DEF LoopStop, clients
  <2>2. \A y \in Subs : Silent(y) => Silent(y)'
    BY <2>1 DEF Silent
  <2>3. QED
    BY <2>1, <2>2, Silenced
<1>5. ASSUME LoopTick PROVE LateInv'
  <2>1. /\ ch' = Sent(n) /\ late' = Excused(n)
        /\ UNCHANGED <<asked, created, cancelOf, cancelled, closed>>
    BY <1>5 DEF LoopTick, registry, clients
  <2>2. \A x \in Subs : Silent(x)' = Silent(x)
    BY <2>1 DEF Silent, Ended
  <2>3. ASSUME NEW x \in Subs
        PROVE  /\ ~Silent(x) => late'[x] = 0
               /\ x \notin created => late'[x] = 0 /\ ch'[x] = None
               /\ Silent(x) => late'[x] + (IF ch'[x] = None THEN 0 ELSE 1) <= 1
    <3>1. late[x] \in Int
      BY DEF TypeOK
    <3>2. CASE x \in Due(n)
      <4>1. asked[x] # 0 /\ n % asked[x] = 0 /\ x \in created
        BY <3>2, DueAsked DEF RegInv, ClientInv
      <4>2. late'[x] = IF Silent(x) THEN late[x] - 1 ELSE late[x]
        BY <2>1, <4>1 DEF Excused
      <4>3. Silent(x) => late[x] <= 1
        BY <3>1 DEF LateInv, AtMostOneLateTick
      <4>4. QED
        BY <3>1, <4>1, <4>2, <4>3 DEF LateInv
    <3>3. CASE x \notin Due(n)
      <4>1. ch'[x] = ch[x]
        BY <2>1, <3>3 DEF Sent
      <4>2. late'[x] = late[x] \/ (late'[x] = late[x] - 1 /\ Silent(x) /\ asked[x] # 0)
        BY <2>1 DEF Excused
      <4>3. x \notin created => asked[x] = 0
        BY DEF RegInv, ClientInv, RegistryAgrees
      <4>4. QED
        BY <3>1, <4>1, <4>2, <4>3 DEF LateInv, AtMostOneLateTick
    <3>4. QED
      BY <3>2, <3>3
  <2>4. QED
    BY <2>1, <2>2, <2>3 DEF LateInv, AtMostOneLateTick
<1>6. ASSUME NEW x \in Subs, Receive(x) PROVE LateInv'
  <2>1. /\ ch[x] # None /\ ch' = [ch EXCEPT ![x] = None]
        /\ late' = IF Silent(x) THEN [late EXCEPT ![x] = @ + 1] ELSE late
        /\ UNCHANGED <<asked, created, cancelOf, cancelled, closed>>
    BY <1>6 DEF Receive, registry, clients
  <2>2. ch'[x] = None /\ \A y \in Subs : y # x => ch'[y] = ch[y] /\ late'[y] = late[y]
    BY <2>1 DEF TypeOK
  <2>3. x \in created /\ \A y \in Subs : Silent(y)' = Silent(y)
    BY <2>1 DEF LateInv, Silent, Ended
  <2>4. CASE Silent(x)
    <3>1. late[x] \in Int /\ late[x] + 1 <= 1
      BY <2>1, <2>4 DEF LateInv, AtMostOneLateTick, TypeOK
    <3>2. late'[x] = late[x] + 1
      BY <2>1, <2>4, <3>1 DEF TypeOK
    <3>3. QED
      BY <2>1, <2>2, <2>3, <2>4, <3>1, <3>2 DEF LateInv, AtMostOneLateTick
  <2>5. CASE ~Silent(x)
    BY <2>1, <2>2, <2>3, <2>5 DEF LateInv, AtMostOneLateTick
  <2>6. QED
    BY <2>4, <2>5
<1>7. ASSUME (\E c \in Cancels : Cancel(c)) \/ TickerFire \/ Stop \/ UNCHANGED vars
      PROVE  LateInv'
  <2>1. /\ UNCHANGED <<asked, late, ch, created, cancelOf>>
        /\ cancelled \subseteq cancelled'
        /\ closed => closed'
    BY <1>7 DEF Cancel, TickerFire, Stop, vars, registry, clients
  <2>2. \A y \in Subs : Silent(y) => Silent(y)'
    BY <2>1 DEF Silent, Ended
  <2>3. QED
    BY <2>1, <2>2, Silenced
<1>8. QED
  BY <1>1, <1>2, <1>3, <1>4, <1>5, <1>6, <1>7 DEF Next

(* A sub-ticker that is reset to 0 lets through at most the one tick its
   channel already held; one that is cancelled or stopped, that tick and those
   that fall due before the divider forgets it. *)
THEOREM AtMostOneLate == Safe => []AtMostOneLateTick
<1>1. Init => RegInv /\ LateInv
  <2>1. Init => RegInv
    BY DEF Init, RegInv, ClientInv, RegistryAgrees, Registered
  <2>2. Init => LateInv
    BY DEF Init, LateInv, AtMostOneLateTick
  <2>3. QED
    BY <2>1, <2>2
<1>2. TypeOK /\ RegInv /\ LateInv /\ [Next]_vars => RegInv' /\ LateInv'
  BY RegistryStep, LateStep DEF FullInv
<1>3. LateInv => AtMostOneLateTick
  BY DEF LateInv
<1>4. QED
  BY <1>1, <1>2, <1>3, TypeCorrect, PTL DEF Safe

-----------------------------------------------------------------------------
(* The ticks received from one sub-ticker strictly increase. *)
THEOREM TicksAreInOrder == Safe => []TicksInOrder
<1>1. Init => TicksInOrder
  BY DEF Init, TicksInOrder
<1>2. TypeOK /\ TicksInOrder /\ [Next]_vars => TicksInOrder'
  <2> SUFFICES ASSUME TypeOK, TicksInOrder, [Next]_vars PROVE TicksInOrder'
    OBVIOUS
  <2>1. n \in Nat /\ \A x \in Subs : got[x] \in Int
    BY DEF TypeOK
  <2>2. ASSUME LoopTick PROVE TicksInOrder'
    <3>1. n' = n + 1 /\ got' = got /\ ch' = Sent(n)
      BY <2>2 DEF LoopTick
    <3>2. \A x \in Subs : ch'[x] = ch[x] \/ ch'[x] = n
      BY <3>1 DEF Sent
    <3>3. \A x \in Subs : ch[x] # None => ch[x] \in Int
      BY DEF TypeOK
    <3>4. QED
      BY <2>1, <3>1, <3>2, <3>3 DEF TicksInOrder
  <2>3. ASSUME NEW x \in Subs, Receive(x) PROVE TicksInOrder'
    <3>1. /\ ch[x] # None /\ got' = [got EXCEPT ![x] = ch[x]]
          /\ ch' = [ch EXCEPT ![x] = None] /\ UNCHANGED n
      BY <2>3 DEF Receive
    <3>2. got'[x] = ch[x] /\ ch'[x] = None
      BY <3>1 DEF TypeOK
    <3>3. \A y \in Subs : y # x => got'[y] = got[y] /\ ch'[y] = ch[y]
      BY <3>1 DEF TypeOK
    <3>4. QED
      BY <3>1, <3>2, <3>3 DEF TicksInOrder
  <2>4. ASSUME ~LoopTick, ~(\E x \in Subs : Receive(x)) PROVE TicksInOrder'
    <3>1. UNCHANGED <<n, ch, got>>
      BY <2>4 DEF Next, Tick, Reset, Cancel, Watch, TickerFire, Stop, LoopStop, vars
    <3>2. QED
      BY <3>1 DEF TicksInOrder
  <2>5. QED
    BY <2>2, <2>3, <2>4
<1>3. QED
  BY <1>1, <1>2, TypeCorrect, PTL DEF Safe

-----------------------------------------------------------------------------
(* No due tick is skipped while the channel of a sub-ticker is empty. *)
LEMMA NotSkippedStep == TypeOK /\ TypeOK' /\ RegInv /\ NoTickSkipped /\ [Next]_vars => NoTickSkipped'
<1> SUFFICES ASSUME TypeOK, TypeOK', RegInv, NoTickSkipped, [Next]_vars,
                    NEW x \in Subs, x \in DOMAIN s', ch'[x] = None, s'[x] # 0,
                    NEW m \in since'[x] .. n' - 1
             PROVE  m % s'[x] # 0
  BY DEF NoTickSkipped, Registered, TypeOK
<1>0. n \in Int /\ since[x] \in Int
  BY DEF TypeOK
<1>1. ASSUME x \in DOMAIN s, s'[x] = s[x], since'[x] = since[x], ch'[x] = ch[x], n' = n
      PROVE  m % s'[x] # 0
  BY <1>1 DEF NoTickSkipped, Registered
<1>2. ASSUME since'[x] = n, n' = n PROVE m % s'[x] # 0
  BY <1>0, <1>2
<1>3. ASSUME NEW y \in Subs, NEW d \in Intervals, NEW c \in Cancels \cup {NoCancel},
             Tick(y, d, c)
      PROVE  m % s'[x] # 0
  <2>1. n' = n /\ ch' = ch /\ since' = [since EXCEPT ![y] = n]
    BY <1>3 DEF Tick
  <2>2. CASE x = y
    BY <1>2, <2>1, <2>2 DEF TypeOK
  <2>3. CASE x # y
    <3>1. x \in DOMAIN s /\ s'[x] = s[x]
      BY <1>3, <2>3 DEF Tick, With
    <3>2. since'[x] = since[x]
      BY <2>1, <2>3 DEF TypeOK
    <3>3. QED
      BY <1>1, <2>1, <3>1, <3>2
  <2>4. QED
    BY <2>2, <2>3
<1>4. ASSUME NEW y \in Subs, NEW d \in Intervals, Reset(y, d) PROVE m % s'[x] # 0
  <2>1. n' = n /\ ch' = ch
    BY <1>4 DEF Reset
  <2>2. CASE ~nil /\ y \in r
    <3>1. since' = [since EXCEPT ![y] = n] /\ s' = With(s, y, Multiple(d))
      BY <1>4, <2>2 DEF Reset
    <3>2. CASE x = y
      BY <1>2, <2>1, <3>1, <3>2 DEF TypeOK
    <3>3. CASE x # y
      <4>1. x \in DOMAIN s /\ s'[x] = s[x]
        BY <3>1, <3>3 DEF With
      <4>2. since'[x] = since[x]
        BY <3>1, <3>3 DEF TypeOK
      <4>3. QED
        BY <1>1, <2>1, <4>1, <4>2
    <3>4. QED
      BY <3>2, <3>3
  <2>3. CASE ~(~nil /\ y \in r)
    <3>1. UNCHANGED <<s, since>>
      BY <1>4, <2>3 DEF Reset
    <3>2. QED
      BY <1>1, <2>1, <3>1
  <2>4. QED
    BY <2>2, <2>3
<1>5. ASSUME (\E y \in Subs : Watch(y)) \/ LoopStop PROVE m % s'[x] # 0
  <2>1. UNCHANGED <<n, ch, since>>
    BY <1>5 DEF Watch, LoopStop
  <2>2. x \in DOMAIN s /\ s'[x] = s[x]
    BY <1>5 DEF Watch, LoopStop, Without
  <2>3. QED
    BY <1>1, <2>1, <2>2
<1>6. ASSUME NEW y \in Subs, Receive(y) PROVE m % s'[x] # 0
  <2>1. UNCHANGED <<s, n>> /\ since' = [since EXCEPT ![y] = n] /\ ch' = [ch EXCEPT ![y] = None]
    BY <1>6 DEF Receive, registry
  <2>2. CASE x = y
    BY <1>2, <2>1, <2>2 DEF TypeOK
  <2>3. CASE x # y
    BY <1>1, <2>1, <2>3 DEF TypeOK
  <2>4. QED
    BY <2>2, <2>3
<1>7. ASSUME LoopTick PROVE m % s'[x] # 0
  <2>1. UNCHANGED <<s, since>> /\ n' = n + 1 /\ ch' = Sent(n)
    BY <1>7 DEF LoopTick, registry
  <2>2. ch'[x] = IF x \in Due(n) /\ ch[x] = None THEN n ELSE ch[x]
    BY <2>1 DEF Sent
  <2>3. n # None
    BY DEF TypeOK
  <2>4. ch[x] = None /\ x \notin Due(n)
    BY <2>2, <2>3
  <2>5. n % s[x] # 0
    BY <2>1, <2>4 DEF Due, Registered
  <2>6. CASE m = n
    BY <2>1, <2>5, <2>6
  <2>7. CASE m # n
    <3>1. m \in since[x] .. n - 1
      BY <1>0, <2>1, <2>7
    <3>2. QED
      BY <2>1, <2>4, <3>1 DEF NoTickSkipped, Registered
  <2>8. QED
    BY <2>6, <2>7
<1>8. ASSUME (\E c \in Cancels : Cancel(c)) \/ TickerFire \/ Stop \/ UNCHANGED vars
      PROVE  m % s'[x] # 0
  <2>1. UNCHANGED <<s, n, ch, since>>
    BY <1>8 DEF Cancel, TickerFire, Stop, vars, registry
  <2>2. QED
    BY <1>1, <2>1
<1>9. QED
  BY <1>3, <1>4, <1>5, <1>6, <1>7, <1>8 DEF Next

(* Every tick a sub-ticker is due for reaches its channel when that is empty,
   so missed ticks trigger as soon as the module receives. *)
THEOREM NoneSkipped == Safe => []NoTickSkipped
<1>1. Init => RegInv /\ NoTickSkipped
  <2>1. Init => RegInv
    BY DEF Init, RegInv, ClientInv, RegistryAgrees, Registered
  <2>2. Init => NoTickSkipped
    BY DEF Init, NoTickSkipped, Registered
  <2>3. QED
    BY <2>1, <2>2
<1>2. QED
  BY <1>1, TypeCorrect, RegistryStep, NotSkippedStep, PTL DEF Safe

=============================================================================
