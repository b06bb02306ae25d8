----------------------------- MODULE PartsProofs -----------------------------
(***************************************************************************)
(* What holds of the sample modules and of the overlay bar for any inputs  *)
(* and bounds.                                                             *)
(***************************************************************************)
EXTENDS Parts, TLAPS, SequenceTheorems, WellFoundedInduction

-----------------------------------------------------------------------------
(* The Redshift module over the X11 gamma manager.                         *)
GammaType ==
    /\ Gamma!TypeOK
    /\ changes \in 0 .. MaxChanges["gamma"] /\ events <= changes

(* Who writes what. *)
GammaWriters ==
    /\ at # "top" => white # NoWhite
    /\ at # "set" => writer["set"] = Gamma!Idle
    /\ writer["set"] # Gamma!Idle => writer["set"].white = white
    /\ \A w \in {"set", "event"} : writer[w] # Gamma!Idle => writer[w].white # NoWhite

(* A Set has begun, and no other one since. *)
Applying == at \in {"update", "select"} \/ (at = "set" /\ writer["set"] # Gamma!Idle)

(* What is left to do for a CRTC that has another white point, when no event is
   waiting: a writer that has the newest one will come to it. *)
GammaTint ==
    Applying /\ ~raced =>
        /\ writer["event"] # Gamma!Idle => writer["event"].white = white
        /\ events = 0 =>
             \A c \in Crtcs :
                \/ crtc[c] \in {Absent, white}
                \/ c \in writer["set"].todo \cup writer["event"].todo

GammaInv == GammaType /\ GammaWriters /\ GammaTint

LEMMA GammaInit == Gamma!Init => GammaInv
<1> SUFFICES ASSUME Gamma!Init PROVE GammaInv
  OBVIOUS
<1>1. /\ crtc \in [Crtcs -> Int \cup {Absent}]
      /\ writer \in [{"set", "event"} -> [white : Int \cup {NoWhite}, todo : SUBSET Crtcs]]
  BY GammaAssumption DEF Gamma!Init, Gamma!Idle, Gamma!Plain
<1>2. GammaType
  <2>1. disabled \in BOOLEAN /\ override \in BOOLEAN /\ tick \in BOOLEAN /\ raced \in BOOLEAN
    BY DEF Gamma!Init
  <2>2. /\ sun \in Solar /\ events \in 0 .. MaxChanges["gamma"]
        /\ at \in {"top", "set", "update", "select"}
        /\ temperature \in Int /\ white \in Int \cup {NoWhite} /\ bar \in Int \cup {NoWhite}
        /\ changes \in 0 .. MaxChanges["gamma"] /\ events <= changes
    BY GammaAssumption DEF Gamma!Init
  <2>3. QED
    BY <1>1, <2>1, <2>2 DEF GammaType, Gamma!TypeOK
<1>3. GammaWriters /\ GammaTint
  BY DEF GammaWriters, GammaTint, Applying, Gamma!Init
<1>4. QED
  BY <1>2, <1>3 DEF GammaInv

LEMMA GammaServerStep ==
    ASSUME GammaInv,
           \/ \E c \in Crtcs, v \in {Gamma!Plain, Absent} : Gamma!CrtcChanges(c, v)
           \/ Gamma!SunMoves \/ Gamma!Tick
    PROVE  GammaInv'
<1> USE GammaAssumption DEF GammaInv, Gamma!locals, Gamma!server
<1>1. CASE \E c \in Crtcs, v \in {Gamma!Plain, Absent} : Gamma!CrtcChanges(c, v)
  <2>1. PICK c \in Crtcs, v \in {Gamma!Plain, Absent} : Gamma!CrtcChanges(c, v)
    BY <1>1
  <2> USE <2>1 DEF Gamma!CrtcChanges, Gamma!Changes, Gamma!Plain
  <2>2. GammaType'
    <3>1. crtc' \in [Crtcs -> Int \cup {Absent}]
      BY DEF GammaType, Gamma!TypeOK
    <3>2. changes' \in 0 .. MaxChanges["gamma"] /\ events' \in 0 .. MaxChanges["gamma"]
          /\ events' <= changes'
      BY DEF GammaType, Gamma!TypeOK
    <3>3. QED
      BY <3>1, <3>2 DEF GammaType, Gamma!TypeOK
  <2>3. GammaWriters'
    BY DEF GammaWriters, Gamma!Idle
  <2>4. events' # 0
    BY DEF GammaType, Gamma!TypeOK
  <2>5. GammaTint'
    BY <2>4 DEF GammaTint, Applying, Gamma!Idle
  <2>6. QED
    BY <2>2, <2>3, <2>5
<1>2. CASE Gamma!SunMoves \/ Gamma!Tick
  <2> USE <1>2 DEF Gamma!SunMoves, Gamma!Changes, Gamma!Tick
  <2>1. GammaType'
    <3>1. tick' \in BOOLEAN
      BY DEF GammaType, Gamma!TypeOK
    <3>2. sun' \in Solar /\ changes' \in 0 .. MaxChanges["gamma"] /\ events <= changes'
      BY DEF GammaType, Gamma!TypeOK
    <3>3. QED
      BY <3>1, <3>2 DEF GammaType, Gamma!TypeOK
  <2>2. GammaWriters'
    BY DEF GammaWriters, Gamma!Idle
  <2>3. GammaTint'
    BY DEF GammaTint, Applying, Gamma!Idle
  <2>4. QED
    BY <2>1, <2>2, <2>3
<1>3. QED
  BY <1>1, <1>2

LEMMA GammaWriterStep ==
    ASSUME GammaInv, NEW w \in {"set", "event"}, Gamma!SetCrtc(w)
    PROVE  GammaInv'
<1> USE GammaAssumption DEF GammaInv
<1>1. PICK c \in writer[w].todo :
        /\ crtc' = [crtc EXCEPT ![c] = IF @ = Absent THEN @ ELSE writer[w].white]
        /\ writer' = [writer EXCEPT ![w].todo = @ \ {c}]
  BY DEF Gamma!SetCrtc
<1>2. UNCHANGED <<sun, events, white, at, disabled, override, temperature, tick, bar, raced, changes>>
  BY DEF Gamma!SetCrtc, Gamma!locals
<1>3. /\ writer[w] # Gamma!Idle /\ writer[w].white \in Int /\ c \in Crtcs
      /\ \A x \in {"set", "event"} :
            /\ writer'[x].white = writer[x].white
            /\ writer'[x].todo = IF x = w THEN writer[x].todo \ {c} ELSE writer[x].todo
  <2>1. c \in Crtcs /\ writer[w].todo # {}
    BY <1>1 DEF GammaType, Gamma!TypeOK
  <2>2. writer[w] # Gamma!Idle
    BY <2>1 DEF Gamma!Idle
  <2>3. writer[w].white \in Int
    BY <2>2 DEF GammaWriters, GammaType, Gamma!TypeOK
  <2>4. \A x \in {"set", "event"} :
            /\ writer'[x].white = writer[x].white
            /\ writer'[x].todo = IF x = w THEN writer[x].todo \ {c} ELSE writer[x].todo
    BY <1>1 DEF GammaType, Gamma!TypeOK
  <2>5. QED
    BY <2>1, <2>2, <2>3, <2>4
<1>4. GammaType'
  BY <1>1, <1>2, <1>3 DEF GammaType, Gamma!TypeOK
<1>5. \A x \in {"set", "event"} : writer'[x] = Gamma!Idle <=> writer[x] = Gamma!Idle
  BY <1>1, <1>3 DEF GammaWriters, GammaType, Gamma!TypeOK, Gamma!Idle
<1>6. GammaWriters'
  BY <1>2, <1>3, <1>5 DEF GammaWriters
<1>7. GammaTint'
  <2> SUFFICES ASSUME Applying, ~raced
               PROVE  /\ writer'["event"] # Gamma!Idle => writer'["event"].white = white
                      /\ events = 0 =>
                           \A d \in Crtcs :
                              \/ crtc'[d] \in {Absent, white}
                              \/ d \in writer'["set"].todo \cup writer'["event"].todo
    BY <1>2, <1>5 DEF GammaTint, Applying
  <2>1. writer'["event"] # Gamma!Idle => writer'["event"].white = white
    BY <1>3, <1>5 DEF GammaTint
  <2>2. writer[w].white = white
    BY <1>3 DEF GammaTint, GammaWriters
  <2>3. ASSUME events = 0, NEW d \in Crtcs
        PROVE  \/ crtc'[d] \in {Absent, white}
               \/ d \in writer'["set"].todo \cup writer'["event"].todo
    <3>1. CASE d = c
      BY <1>1, <2>2, <3>1 DEF GammaType, Gamma!TypeOK
    <3>2. CASE d # c
      <4>1. crtc'[d] = crtc[d]
        BY <1>1, <3>2 DEF GammaType, Gamma!TypeOK
      <4>2. \/ crtc[d] \in {Absent, white}
            \/ d \in writer["set"].todo \cup writer["event"].todo
        BY <2>3 DEF GammaTint
      <4>3. QED
        BY <1>3, <3>2, <4>1, <4>2
    <3>3. QED
      BY <3>1, <3>2
  <2>4. QED
    BY <2>1, <2>3
<1>8. QED
  BY <1>4, <1>6, <1>7

LEMMA GammaEventStep ==
    ASSUME GammaInv, Gamma!HandleEvent \/ Gamma!EventApplied
    PROVE  GammaInv'
<1> USE GammaAssumption DEF GammaInv, Gamma!locals, Gamma!server
<1>1. CASE Gamma!HandleEvent
  <2> USE <1>1 DEF Gamma!HandleEvent, Gamma!Begin
  <2>1. writer["event"] = Gamma!Idle /\ events' = events - 1 /\ events > 0
        /\ UNCHANGED <<sun, crtc, white, at, disabled, override, temperature, tick, bar, changes>>
    OBVIOUS
  <2>2. CASE white = NoWhite
    <3>1. UNCHANGED <<writer, raced>>
      BY <2>2
    <3>2. at = "top"
      BY <2>2 DEF GammaWriters
    <3>3. GammaType'
      BY <2>1, <3>1 DEF GammaType, Gamma!TypeOK
    <3>4. GammaWriters' /\ GammaTint'
      BY <2>1, <3>1, <3>2 DEF GammaWriters, GammaTint, Applying, Gamma!Idle
    <3>5. QED
      BY <3>3, <3>4
  <2>3. CASE white # NoWhite
    <3> DEFINE new == [white |-> white, todo |-> {c \in Crtcs : crtc[c] # Absent}]
    <3>1. writer' = [writer EXCEPT !["event"] = new] /\ raced' = (raced \/ writer["set"] # Gamma!Idle)
      BY <2>3
    <3>2. writer'["event"] = new /\ writer'["set"] = writer["set"] /\ new # Gamma!Idle
      BY <2>3, <3>1 DEF GammaType, Gamma!TypeOK, Gamma!Idle
    <3>3. GammaType'
      BY <2>1, <3>1 DEF GammaType, Gamma!TypeOK
    <3>4. GammaWriters'
      BY <2>1, <2>3, <3>2 DEF GammaWriters, Gamma!Idle
    <3>5. GammaTint'
      BY <2>1, <3>1, <3>2 DEF GammaTint, Applying, Gamma!Idle
    <3>6. QED
      BY <3>3, <3>4, <3>5
  <2>4. QED
    BY <2>2, <2>3
<1>2. CASE Gamma!EventApplied
  <2> USE <1>2 DEF Gamma!EventApplied
  <2>1. writer'["event"] = Gamma!Idle /\ writer'["set"] = writer["set"] /\ writer["event"].todo = {}
    BY DEF GammaType, Gamma!TypeOK
  <2>2. GammaType'
    BY DEF GammaType, Gamma!TypeOK, Gamma!Idle
  <2>3. GammaWriters'
    BY <2>1 DEF GammaWriters, Gamma!Idle
  <2>4. GammaTint'
    BY <2>1 DEF GammaTint, Applying, Gamma!Idle
  <2>5. QED
    BY <2>2, <2>3, <2>4
<1>3. QED
  BY <1>1, <1>2

LEMMA GammaSetStep ==
    ASSUME GammaInv, Gamma!SetWhite \/ Gamma!SetBegins \/ Gamma!SetReturns
    PROVE  GammaInv'
<1> USE GammaAssumption DEF GammaInv, Gamma!locals, Gamma!server
<1>1. CASE Gamma!SetWhite
  <2> USE <1>1 DEF Gamma!SetWhite, Gamma!White, Gamma!Plain
  <2>1. temperature' \in Int /\ white' \in Int
    BY DEF GammaType, Gamma!TypeOK
  <2>2. GammaType'
    BY <2>1 DEF GammaType, Gamma!TypeOK
  <2>3. writer["set"] = Gamma!Idle /\ at' = "set" /\ UNCHANGED writer
    BY DEF GammaWriters
  <2>4. GammaWriters' /\ GammaTint'
    BY <2>1, <2>3 DEF GammaWriters, GammaTint, Applying, Gamma!Idle
  <2>5. QED
    BY <2>2, <2>4
<1>2. CASE Gamma!SetBegins
  <2> USE <1>2 DEF Gamma!SetBegins, Gamma!Begin
  <2> DEFINE new == [white |-> white, todo |-> {c \in Crtcs : crtc[c] # Absent}]
  <2>1. /\ writer' = [writer EXCEPT !["set"] = new] /\ raced' = (writer["event"] # Gamma!Idle)
        /\ at = "set" /\ white # NoWhite
        /\ UNCHANGED <<sun, events, crtc, white, at, disabled, override, temperature, tick, bar, changes>>
    BY DEF GammaWriters
  <2>2. writer'["set"] = new /\ writer'["event"] = writer["event"] /\ new # Gamma!Idle
    BY <2>1 DEF GammaType, Gamma!TypeOK, Gamma!Idle
  <2>3. GammaType'
    BY <2>1 DEF GammaType, Gamma!TypeOK
  <2>4. GammaWriters'
    BY <2>1, <2>2 DEF GammaWriters, Gamma!Idle
  <2>5. GammaTint'
    <3> SUFFICES ASSUME ~raced' PROVE writer["event"] = Gamma!Idle /\
                   \A c \in Crtcs : crtc[c] = Absent \/ c \in writer'["set"].todo
      BY <2>1, <2>2 DEF GammaTint
    <3>1. \A c \in Crtcs : crtc[c] = Absent \/ c \in new.todo
      OBVIOUS
    <3>2. QED
      BY <2>1, <2>2, <3>1
  <2>6. QED
    BY <2>3, <2>4, <2>5
<1>3. CASE Gamma!SetReturns
  <2> USE <1>3 DEF Gamma!SetReturns
  <2>1. writer'["set"] = Gamma!Idle /\ writer'["event"] = writer["event"] /\ writer["set"].todo = {}
    BY DEF GammaType, Gamma!TypeOK
  <2>2. GammaType'
    BY DEF GammaType, Gamma!TypeOK, Gamma!Idle
  <2>3. GammaWriters'
    BY <2>1 DEF GammaWriters, Gamma!Idle
  <2>4. GammaTint'
    BY <2>1 DEF GammaTint, Applying, Gamma!Idle
  <2>5. QED
    BY <2>2, <2>3, <2>4
<1>4. QED
  BY <1>1, <1>2, <1>3

LEMMA GammaLoopStep ==
    ASSUME GammaInv,
           \/ Gamma!Update \/ Gamma!WakeTick \/ Gamma!WakeStopped \/ Gamma!ClickToggle
           \/ Gamma!ClickWheel(Step) \/ Gamma!ClickWheel(-Step) \/ UNCHANGED Gamma!vars
    PROVE  GammaInv'
<1> USE GammaAssumption DEF GammaInv, Gamma!locals, Gamma!server, Gamma!vars
<1>1. /\ UNCHANGED <<sun, crtc, events, white, writer, raced>>
      /\ changes' = changes \/ (changes < MaxChanges["gamma"] /\ changes' = changes + 1)
      /\ \/ UNCHANGED at
         \/ at = "update" /\ at' = "select"
         \/ at = "select" /\ at' = "top"
  BY DEF Gamma!Update, Gamma!WakeTick, Gamma!WakeStopped, Gamma!Changes, Gamma!ClickToggle, Gamma!ClickWheel
<1>2. /\ disabled' \in BOOLEAN /\ override' \in BOOLEAN /\ tick' \in BOOLEAN
      /\ temperature' \in Int /\ bar' \in Int \cup {NoWhite}
  <2>1. disabled' \in BOOLEAN /\ override' \in BOOLEAN /\ tick' \in BOOLEAN
    BY DEF Gamma!Update, Gamma!WakeTick, Gamma!WakeStopped, Gamma!Changes, Gamma!ClickToggle, Gamma!ClickWheel, GammaType, Gamma!TypeOK
  <2>2. temperature' \in {temperature, temperature + Step, temperature + (-Step)}
    BY DEF Gamma!Update, Gamma!WakeTick, Gamma!WakeStopped, Gamma!Changes, Gamma!ClickToggle, Gamma!ClickWheel
  <2>3. bar' \in {bar, 0, temperature}
    BY DEF Gamma!Update, Gamma!WakeTick, Gamma!WakeStopped, Gamma!Changes, Gamma!ClickToggle, Gamma!ClickWheel, Gamma!White, Gamma!Plain
  <2>4. temperature \in Int /\ bar \in Int \cup {NoWhite}
    BY DEF GammaType, Gamma!TypeOK
  <2>5. QED
    BY <2>1, <2>2, <2>3, <2>4
<1>3. GammaType'
  BY <1>1, <1>2 DEF GammaType, Gamma!TypeOK
<1>4. GammaWriters' /\ GammaTint'
  BY <1>1 DEF GammaWriters, GammaTint, Applying, Gamma!Idle
<1>5. QED
  BY <1>3, <1>4

LEMMA GammaStep == GammaInv /\ [Gamma!Next]_Gamma!vars => GammaInv'
  BY GammaServerStep, GammaWriterStep, GammaEventStep, GammaSetStep, GammaLoopStep
  DEF Gamma!Next, Gamma!EventLoop, Gamma!Run

LEMMA GammaSafe == GammaInv => Gamma!OnlyRacesMistint
<1> SUFFICES ASSUME GammaInv, at \in {"update", "select"}, ~raced, events = 0,
                    writer["event"] = Gamma!Idle, NEW c \in Crtcs
             PROVE  crtc[c] \in {Absent, white}
  BY DEF Gamma!OnlyRacesMistint
<1>1. writer["set"] = Gamma!Idle
  BY DEF GammaInv, GammaWriters
<1>2. QED
  BY <1>1 DEF GammaInv, GammaTint, Applying, Gamma!Idle

-----------------------------------------------------------------------------
(* The overlay bar.                                                        *)

(* What there is on the server at each place of the caller. *)
OverlayPlaces ==
    /\ at \in {"none", "window", "atoms", "colors"} => shown = NoShow /\ ~mapped /\ ~visible
    /\ at \in {"none", "window"} => ~window /\ gcs = 0
    /\ at = "atoms" => window /\ gcs = 0
    /\ at = "colors" => window /\ gcs \in {0, 3, 6, 9}
    /\ at \in {"idle", "map", "raise", "draw"} => window /\ gcs = 12
    /\ at = "failed" /\ conn => window /\ gcs = 0 /\ ~visible
    /\ at = "none" => ~conn
    /\ at = "window" => conn
    /\ at \in {"raise", "draw"} => mapped
    /\ mapped => visible
    /\ at \in {"map", "raise", "draw"} => showing \in Shows
    /\ at \notin {"map", "raise", "draw"} => todo = << >>
    /\ at # "idle" => shown = NoShow

Frames == [mode : STRING, over : BOOLEAN]
Rects == [from : Int, to : Int, set : Frames, part : {"bg", "border", "fg"}]

(* All that a Show paints. *)
Wanted(a) == IF a.cap = 0 THEN Overlay!DrawEmpty(style, Overlay!Colors(a))
                          ELSE Overlay!Drawings(style, a)

(* The first k rectangles of a Show are what there is to see, from one that
   covers the whole window on. *)
Painted(a, k) ==
    \E j \in 1 .. k :
        /\ Overlay!Covers(Wanted(a)[j])
        /\ Len(picture) = k - j + 1
        /\ \A m \in 1 .. Len(picture) : picture[m] = Wanted(a)[j + m - 1]

Left(a, k) ==
    /\ Len(todo) = Len(Wanted(a)) - k
    /\ \A m \in 1 .. Len(todo) : todo[m] = Wanted(a)[k + m]

OverlayPicture ==
    /\ picture \in Seq(Rects) /\ todo \in Seq(Rects) /\ Len(picture) <= 6
    /\ at \in {"map", "raise", "draw"} =>
          \E k \in 0 .. Len(Wanted(showing)) : Left(showing, k) /\ (k > 0 => Painted(showing, k))
    /\ shown # NoShow => shown.cap # 0 /\ visible /\ Painted(shown, Len(Wanted(shown)))

(* A window is raised once it is mapped, or that was refused. *)
OverlayRaised ==
    /\ mapped /\ at # "raise" => onTop \/ lowered
    /\ shown # NoShow => mapped

OverlayBuilt == Overlay!TypeOK /\ OverlayPlaces /\ OverlayPicture

OverlayInv == OverlayBuilt /\ OverlayRaised

LEMMA ClampedRange ==
    ASSUME NEW v \in Int, NEW lo \in Int, NEW hi \in Int
    PROVE  /\ Overlay!Clamped(v, lo, hi) \in Int
           /\ lo <= hi => Overlay!Clamped(v, lo, hi) \in lo .. hi
           /\ lo <= v /\ v <= hi => Overlay!Clamped(v, lo, hi) = v
           /\ lo <= hi /\ v < lo => Overlay!Clamped(v, lo, hi) = lo
           /\ lo <= hi /\ v > hi => Overlay!Clamped(v, lo, hi) = hi
BY DEF Overlay!Clamped

(* The sizes of a style. *)
LEMMA StyleSizes ==
    ASSUME NEW s \in Styles
    PROVE  /\ Overlay!Fat(s) \in Nat /\ Overlay!Length(s) \in Nat
           /\ Overlay!Fat(s) = s.padding + s.border + s.outline
           /\ s.padding \in Nat /\ s.border \in Nat /\ s.outline \in Nat /\ s.thickness \in Nat
<1> USE OverlayAssumption DEF Dims
<1>1. /\ Overlay!Fat(s) \in Nat /\ s.padding \in Nat /\ s.border \in Nat /\ s.outline \in Nat
      /\ s.thickness \in Nat /\ Overlay!Fat(s) = s.padding + s.border + s.outline
  BY DEF Overlay!Fat
<1> DEFINE available == IF Overlay!Horizontal(s) THEN Screen.w ELSE Screen.h
<1>2. available \in Nat /\ 2 * Overlay!Fat(s) <= available
  BY DEF Overlay!Fat
<1>3. s.length.rel \in Int /\ s.length.abs \in Int
  OBVIOUS
<1>4. (available * s.length.rel) \div 10 + s.length.abs \in Int
  BY <1>2, <1>3
<1>5. Overlay!Length(s) \in 0 .. available - 2 * Overlay!Fat(s)
  <2> DEFINE v == (available * s.length.rel) \div 10 + s.length.abs
             top == available - 2 * Overlay!Fat(s)
  <2>1. v \in Int /\ top \in Int /\ 0 <= top /\ 0 \in Int
    BY <1>1, <1>2, <1>4
  <2>2. Overlay!Length(s) = Overlay!Clamped(v, 0, top)
    BY DEF Overlay!Length
  <2> HIDE DEF v, top
  <2>3. Overlay!Length(s) \in 0 .. top
    BY <2>1, <2>2, ClampedRange
  <2>4. QED
    BY <2>3 DEF top
<1>6. QED
  BY <1>1, <1>2, <1>5

(* What a value comes to along the bar. *)
LEMMA QuotientBounds ==
    ASSUME NEW n \in Nat, NEW d \in Nat \ {0}
    PROVE  /\ n \div d \in Nat
           /\ (n \div d) * d <= n
           /\ n < (n \div d + 1) * d
BY Z3

LEMMA ProductNat ==
    ASSUME NEW m \in Nat, NEW n \in Nat PROVE m * n \in Nat
BY Z3

(* One or two more elements at the end of a sequence. *)
LEMMA OneMore ==
    ASSUME NEW S, NEW h \in Seq(S), NEW x \in S
    PROVE  /\ Append(h, x) \in Seq(S) /\ Len(Append(h, x)) = Len(h) + 1
           /\ \A i \in 1 .. Len(h) : Append(h, x)[i] = h[i]
           /\ Append(h, x)[Len(h) + 1] = x
OBVIOUS

LEMMA TwoMore ==
    ASSUME NEW S, NEW h \in Seq(S), NEW x \in S, NEW y \in S
    PROVE  /\ h \o <<x, y>> \in Seq(S) /\ Len(h \o <<x, y>>) = Len(h) + 2
           /\ \A i \in 1 .. Len(h) : (h \o <<x, y>>)[i] = h[i]
           /\ (h \o <<x, y>>)[Len(h) + 1] = x
           /\ (h \o <<x, y>>)[Len(h) + 2] = y
<1>1. <<x, y>> \in Seq(S) /\ Len(<<x, y>>) = 2 /\ <<x, y>>[1] = x /\ <<x, y>>[2] = y
  OBVIOUS
<1>2. h \o <<x, y>> \in Seq(S) /\ Len(h \o <<x, y>>) = Len(h) + 2
  BY <1>1, ConcatProperties
<1>3. \A i \in 1 .. Len(h) + 2 :
         (h \o <<x, y>>)[i] = IF i <= Len(h) THEN h[i] ELSE <<x, y>>[i - Len(h)]
  BY <1>1, ConcatProperties
<1>4. QED
  BY <1>1, <1>2, <1>3

Filled(a) == (Overlay!Clamped(a.value, 0, a.cap) * Overlay!Length(style)) \div a.cap
Split(a) == IF a.value > a.cap THEN (a.cap * Overlay!Length(style)) \div a.value ELSE 0
Parted(a) == a.proportional /\ Split(a) > style.padding

(* The rectangles of a Show, one by one. *)
LEMMA WantedIs ==
    ASSUME style \in Styles, NEW a \in Shows
    PROVE  /\ Wanted(a) \in Seq(Rects)
           /\ Len(Wanted(a)) = IF a.cap = 0 THEN 3 ELSE IF Parted(a) THEN 6 ELSE 4
           /\ \A k \in 1 .. 3 : Wanted(a)[k] = Overlay!DrawEmpty(style, Overlay!Colors(a))[k]
           /\ a.cap # 0 => Wanted(a)[4] = Overlay!DrawContent(style, Filled(a), Overlay!Colors(a))
           /\ a.cap # 0 /\ Parted(a) =>
                 /\ Wanted(a)[5] = Overlay!DrawContent(style, Split(a), Overlay!Within(a))
                 /\ Wanted(a)[6] = Overlay!DrawSeparator(style, Split(a), Overlay!Within(a))
<1> DEFINE set == Overlay!Colors(a)
           frame == Overlay!DrawEmpty(style, set)
           c == Overlay!DrawContent(style, Filled(a), set)
           p == Overlay!DrawContent(style, Split(a), Overlay!Within(a))
           q == Overlay!DrawSeparator(style, Split(a), Overlay!Within(a))
<1>1. /\ a.value \in Int /\ a.cap \in Nat /\ a.mode \in STRING
      /\ set \in Frames /\ Overlay!Within(a) \in Frames
  BY OverlayAssumption DEF Frames, Overlay!Colors, Overlay!Within, Overlay!Set
<1>2. /\ Overlay!Fat(style) \in Nat /\ Overlay!Length(style) \in Nat
      /\ style.padding \in Nat /\ style.border \in Nat /\ style.outline \in Nat
  BY StyleSizes
<1>3. a.cap # 0 => Filled(a) \in Int
  <2>1. Overlay!Clamped(a.value, 0, a.cap) \in Nat
    BY <1>1 DEF Overlay!Clamped
  <2>2. Overlay!Clamped(a.value, 0, a.cap) * Overlay!Length(style) \in Nat
    BY <2>1, <1>2, ProductNat
  <2>3. QED
    BY <1>1, <2>2, QuotientBounds DEF Filled
<1>4. Split(a) \in Int
  <2>1. a.cap * Overlay!Length(style) \in Nat
    BY <1>1, <1>2, ProductNat
  <2>2. CASE a.value > a.cap
    <3>1. a.value \in Nat \ {0}
      BY <1>1, <2>2
    <3>2. QED
      BY <2>1, <2>2, <3>1, QuotientBounds DEF Split
  <2>3. CASE ~(a.value > a.cap)
    BY <2>3 DEF Split
  <2>4. QED
    BY <2>2, <2>3
<1>5. /\ 0 \in Int
      /\ \A f, l \in Int, g \in Frames :
            /\ Overlay!Rect(f, l, g, "bg") \in Rects
            /\ Overlay!Rect(f, l, g, "border") \in Rects
            /\ Overlay!Rect(f, l, g, "fg") \in Rects
  <2>1. \A f, l \in Int, g \in Frames, n \in {"bg", "border", "fg"} : Overlay!Rect(f, l, g, n) \in Rects
    BY DEF Overlay!Rect, Rects
  <2>2. 0 \in Int
    OBVIOUS
  <2>3. QED
    BY <2>1, <2>2, Zenon
<1>6. frame \in Seq(Rects) /\ Len(frame) = 3
  <2> DEFINE l1 == 2 * Overlay!Fat(style) + Overlay!Length(style)
             o1 == style.outline
             l2 == 2 * (style.border + style.padding) + Overlay!Length(style)
             o2 == style.outline + style.border
             l3 == 2 * style.padding + Overlay!Length(style)
  <2>1. l1 \in Int /\ o1 \in Int /\ l2 \in Int /\ o2 \in Int /\ l3 \in Int
    BY <1>2
  <2> HIDE DEF set, l1, o1, l2, o2, l3
  <2>2. /\ Overlay!Rect(0, l1, set, "bg") \in Rects
        /\ Overlay!Rect(o1, l2, set, "border") \in Rects
        /\ Overlay!Rect(o2, l3, set, "bg") \in Rects
    BY <1>1, <1>5, <2>1, Zenon
  <2>3. frame = <<Overlay!Rect(0, l1, set, "bg"), Overlay!Rect(o1, l2, set, "border"),
                  Overlay!Rect(o2, l3, set, "bg")>>
    BY DEF Overlay!DrawEmpty, l1, o1, l2, o2, l3
  <2> HIDE DEF frame
  <2>4. QED
    BY <2>2, <2>3
<1>7. \A n \in Int, g \in Frames : Overlay!DrawContent(style, n, g) \in Rects
                                   /\ Overlay!DrawSeparator(style, n, g) \in Rects
  <2> TAKE n \in Int, g \in Frames
  <2> DEFINE pad == style.padding
             f == Overlay!Fat(style)
             e == Overlay!Fat(style) + Overlay!Length(style) - n
             h == style.outline + style.border + style.padding \div 2 + n
             k == style.outline + style.border + style.padding \div 2 + (Overlay!Length(style) - n)
  <2>1. pad \in Int /\ f \in Int /\ e \in Int /\ h \in Int /\ k \in Int
    BY <1>2
  <2> HIDE DEF pad, f, e, h, k
  <2>2. /\ Overlay!Rect(f, n, g, "fg") \in Rects /\ Overlay!Rect(e, n, g, "fg") \in Rects
        /\ Overlay!Rect(h, pad, g, "bg") \in Rects /\ Overlay!Rect(k, pad, g, "bg") \in Rects
    BY <1>5, <2>1, Zenon
  <2>3. Overlay!DrawContent(style, n, g) \in {Overlay!Rect(f, n, g, "fg"), Overlay!Rect(e, n, g, "fg")}
    BY DEF Overlay!DrawContent, f, e
  <2>4. Overlay!DrawSeparator(style, n, g) \in {Overlay!Rect(h, pad, g, "bg"), Overlay!Rect(k, pad, g, "bg")}
    BY DEF Overlay!DrawSeparator, h, k, pad
  <2>5. QED
    BY <2>2, <2>3, <2>4
<1>8. p \in Rects /\ q \in Rects /\ (a.cap # 0 => c \in Rects)
  BY <1>1, <1>3, <1>4, <1>7
<1>9. CASE a.cap = 0
  BY <1>6, <1>9 DEF Wanted
<1>10. CASE a.cap # 0
  <2>1. Wanted(a) = frame \o <<c>> \o (IF Parted(a) THEN <<p, q>> ELSE << >>)
    BY <1>10 DEF Wanted, Overlay!Drawings, Parted, Split, Filled
  <2> HIDE DEF frame, c, p, q, set
  <2>2. c \in Rects
    BY <1>8, <1>10
  <2> DEFINE w == Append(frame, c)
  <2>3. w \in Seq(Rects) /\ Len(w) = 4 /\ (\A k \in 1 .. 3 : w[k] = frame[k]) /\ w[4] = c
    <3>1. w \in Seq(Rects) /\ Len(w) = Len(frame) + 1
      BY <1>6, <2>2, OneMore
    <3>2. \A k \in 1 .. Len(frame) : w[k] = frame[k]
      <4>1. frame \in Seq(Rects)
        BY <1>6
      <4>2. QED
        BY <4>1, <2>2
    <3>3. w[Len(frame) + 1] = c
      BY <1>6, <2>2, OneMore
    <3>4. QED
      BY <1>6, <3>1, <3>2, <3>3
  <2>4. frame \o <<c>> = w
    BY <1>6, <2>2
  <2>5. CASE Parted(a)
    <3>1. Wanted(a) = w \o <<p, q>>
      BY <2>1, <2>4, <2>5
    <3> HIDE DEF w
    <3>2. /\ Wanted(a) \in Seq(Rects) /\ Len(Wanted(a)) = Len(w) + 2
          /\ \A k \in 1 .. Len(w) : Wanted(a)[k] = w[k]
          /\ Wanted(a)[Len(w) + 1] = p /\ Wanted(a)[Len(w) + 2] = q
      <4>1. w \in Seq(Rects)
        BY <2>3
      <4>2. QED
        BY <3>1, <4>1, <1>8, TwoMore
    <3>3. /\ Wanted(a) \in Seq(Rects) /\ Len(Wanted(a)) = 6
          /\ \A k \in 1 .. 3 : Wanted(a)[k] = frame[k]
          /\ Wanted(a)[4] = c /\ Wanted(a)[5] = p /\ Wanted(a)[6] = q
      BY <2>3, <3>2
    <3>4. QED
      BY <1>10, <2>5, <3>3 DEF frame, c, p, q, set
  <2>6. CASE ~Parted(a)
    <3>1. Wanted(a) = w
      BY <2>1, <2>4, <2>6, <2>3
    <3>2. QED
      BY <1>10, <2>6, <2>3, <3>1 DEF frame, c, set
  <2>7. QED
    BY <2>5, <2>6
<1>11. QED
  BY <1>9, <1>10

LEMMA WantedLength ==
    ASSUME style \in Styles, NEW a \in Shows
    PROVE  Wanted(a) \in Seq(Rects) /\ 3 <= Len(Wanted(a)) /\ Len(Wanted(a)) <= 6
<1>1. Len(Wanted(a)) = 3 \/ Len(Wanted(a)) = 6 \/ Len(Wanted(a)) = 4
  BY WantedIs
<1>2. 3 <= Len(Wanted(a)) /\ Len(Wanted(a)) <= 6
  <2>1. \A n : n = 3 \/ n = 6 \/ n = 4 => 3 <= n /\ n <= 6
    OBVIOUS
  <2>2. QED
    BY <1>1, <2>1, Zenon
<1>3. QED
  BY <1>2, WantedIs

(* The first one covers the window. *)
LEMMA FirstCovers ==
    ASSUME style \in Styles, NEW a \in Shows
    PROVE  Overlay!Covers(Wanted(a)[1])
<1>1. Wanted(a)[1] = Overlay!Rect(0, 2 * Overlay!Fat(style) + Overlay!Length(style), Overlay!Colors(a), "bg")
  BY WantedIs DEF Overlay!DrawEmpty
<1>2. QED
  BY <1>1, StyleSizes DEF Overlay!Covers, Overlay!Rect

LEMMA OverlayBuiltInit == Overlay!Init => OverlayBuilt
<1> SUFFICES ASSUME Overlay!Init PROVE OverlayBuilt
  OBVIOUS
<1> USE DEF Overlay!Init
<1>1. Overlay!TypeOK
  <2>1. /\ conn \in BOOLEAN /\ window \in BOOLEAN /\ mapped \in BOOLEAN /\ visible \in BOOLEAN
        /\ onTop \in BOOLEAN /\ lowered \in BOOLEAN
    OBVIOUS
  <2>2. /\ style \in Styles /\ gcs \in 0 .. 12 /\ Len(picture) <= 6 /\ Len(todo) <= 6
        /\ showing \in Shows \cup {NoShow} /\ shown \in Shows \cup {NoShow}
    OBVIOUS
  <2>3. QED
    BY <2>1, <2>2 DEF Overlay!TypeOK
<1>2. OverlayPlaces
  BY DEF OverlayPlaces
<1>3. OverlayPicture
  BY OverlayAssumption DEF OverlayPicture
<1>4. QED
  BY <1>1, <1>2, <1>3 DEF OverlayBuilt

LEMMA OverlayNewBarStep ==
    ASSUME OverlayBuilt,
           \/ Overlay!Connect \/ Overlay!CreateWindow \/ Overlay!AlwaysOnTop
           \/ Overlay!CreateColors \/ Overlay!NewBarFails
    PROVE  OverlayBuilt'
<1> USE DEF OverlayBuilt
<1>1. /\ UNCHANGED <<style, picture, todo, showing, shown, onTop, lowered>>
      /\ at \in {"none", "window", "atoms", "colors"}
      /\ at' \in {"window", "atoms", "colors", "idle", "failed"}
      /\ visible' \in {visible, FALSE} /\ mapped' \in {mapped, FALSE}
  BY DEF Overlay!Connect, Overlay!CreateWindow, Overlay!AlwaysOnTop, Overlay!CreateColors,
         Overlay!NewBarFails, Overlay!Closed, Overlay!screenVars, Overlay!barVars
<1>2. shown = NoShow /\ ~mapped /\ ~visible /\ todo = << >>
  BY <1>1 DEF OverlayPlaces
<1>3. (window => conn) /\ gcs \in 0 .. 12
  BY DEF Overlay!TypeOK
<1>4. /\ OverlayPlaces' /\ (window' => conn') /\ (at' = "idle" => conn' /\ window' /\ gcs' = 12)
      /\ gcs' \in 0 .. 12
  <2>1. CASE Overlay!Connect
    BY <2>1, <1>2, <1>3 DEF Overlay!Connect, Overlay!screenVars, OverlayPlaces
  <2>2. CASE Overlay!CreateWindow
    <3>1. at = "window" /\ window' /\ at' = "atoms" /\ UNCHANGED <<conn, gcs, mapped, visible, shown, todo>>
      BY <2>2 DEF Overlay!CreateWindow, Overlay!screenVars
    <3>2. conn /\ gcs = 0
      BY <3>1 DEF OverlayPlaces
    <3>3. QED
      BY <1>2, <3>1, <3>2 DEF OverlayPlaces
  <2>3. CASE Overlay!AlwaysOnTop
    BY <2>3, <1>2, <1>3 DEF Overlay!AlwaysOnTop, Overlay!barVars, Overlay!screenVars, OverlayPlaces
  <2>4. CASE Overlay!CreateColors
    <3>1. gcs' \in {3, 6, 9, 12} /\ at' = (IF gcs' = 12 THEN "idle" ELSE "colors")
      BY <2>4 DEF Overlay!CreateColors, OverlayPlaces
    <3>2. UNCHANGED <<conn, window, mapped, visible, shown, todo, showing>> /\ window /\ conn
      BY <2>4, <1>3 DEF Overlay!CreateColors, Overlay!screenVars, OverlayPlaces
    <3>3. QED
      BY <3>1, <3>2, <1>2 DEF OverlayPlaces
  <2>5. CASE Overlay!NewBarFails
    <3>1. at' = "failed" /\ UNCHANGED shown
      BY <2>5 DEF Overlay!NewBarFails
    <3>2. CASE at \in {"window", "colors"} /\ Overlay!Closed
      BY <1>2, <3>1, <3>2, <1>1 DEF Overlay!Closed, OverlayPlaces
    <3>3. CASE at \in {"none", "atoms"} /\ UNCHANGED <<conn, window, gcs, mapped, visible>>
      BY <1>1, <1>2, <1>3, <3>1, <3>3 DEF OverlayPlaces
    <3>4. QED
      BY <2>5, <3>2, <3>3 DEF Overlay!NewBarFails
  <2>6. QED
    BY <2>1, <2>2, <2>3, <2>4, <2>5
<1>5. conn' \in BOOLEAN /\ window' \in BOOLEAN /\ visible' \in BOOLEAN /\ mapped' \in BOOLEAN /\ onTop' \in BOOLEAN /\ lowered' \in BOOLEAN
  BY <1>1 DEF Overlay!Connect, Overlay!CreateWindow, Overlay!AlwaysOnTop, Overlay!CreateColors,
         Overlay!NewBarFails, Overlay!Closed, Overlay!screenVars, Overlay!barVars, Overlay!TypeOK
<1>6. Overlay!TypeOK'
  <2>1. /\ style' \in Styles /\ showing' \in Shows \cup {NoShow} /\ shown' \in Shows \cup {NoShow}
        /\ Len(picture') <= 6 /\ Len(todo') <= 6
    BY <1>1 DEF Overlay!TypeOK
  <2>2. visible' => window'
    BY <1>1, <1>2
  <2>3. QED
    BY <1>1, <1>4, <1>5, <2>1, <2>2 DEF Overlay!TypeOK
<1>7. OverlayPicture'
  BY <1>1, <1>2 DEF OverlayPicture
<1>8. QED
  BY <1>4, <1>6, <1>7

LEMMA OverlayShowStep ==
    ASSUME OverlayBuilt, NEW a \in Shows, Overlay!Show(a)
    PROVE  OverlayBuilt'
<1> USE DEF OverlayBuilt
<1>1. /\ UNCHANGED <<style, conn, window, gcs, mapped, visible, onTop, lowered, picture>>
      /\ at = "idle" /\ at' = (IF mapped THEN "draw" ELSE "map")
      /\ showing' = a /\ shown' = NoShow /\ todo' = Wanted(a)
  BY DEF Overlay!Show, Overlay!Op, Overlay!barVars, Overlay!screenVars, Wanted
<1>2. style \in Styles
  BY DEF Overlay!TypeOK
<1>3. todo' \in Seq(Rects) /\ 3 <= Len(todo') /\ Len(todo') <= 6
  BY <1>1, <1>2, WantedLength
<1>4. Overlay!TypeOK'
  <2>1. /\ conn' \in BOOLEAN /\ window' \in BOOLEAN /\ visible' \in BOOLEAN /\ mapped' \in BOOLEAN
        /\ onTop' \in BOOLEAN /\ lowered' \in BOOLEAN
    BY <1>1 DEF Overlay!TypeOK
  <2>2. /\ gcs' \in 0 .. 12 /\ Len(picture') <= 6 /\ Len(todo') <= 6
        /\ showing' \in Shows \cup {NoShow} /\ shown' \in Shows \cup {NoShow} /\ style' \in Styles
    <3>1. Len(todo') <= 6
      BY <1>3
    <3>2. QED
      BY <1>1, <3>1 DEF Overlay!TypeOK
  <2>3. (visible' => window') /\ (window' => conn')
    BY <1>1 DEF Overlay!TypeOK
  <2>4. QED
    BY <1>1, <2>1, <2>2, <2>3 DEF Overlay!TypeOK
<1>5. OverlayPlaces'
  BY <1>1 DEF OverlayPlaces
<1>6. OverlayPicture'
  <2>1. Wanted(a)' = Wanted(a)
    BY <1>1 DEF Wanted
  <2>2. Left(a, 0)'
    BY <1>1, <1>3, <2>1 DEF Left
  <2>3. 0 \in 0 .. Len(Wanted(a)')
    BY <1>1, <1>3, <2>1
  <2>4. \E k \in 0 .. Len(Wanted(showing)') : Left(showing, k)' /\ (k > 0 => Painted(showing, k)')
    BY <1>1, <2>2, <2>3
  <2>5. QED
    BY <1>1, <1>3, <2>4 DEF OverlayPicture
<1>7. QED
  BY <1>4, <1>5, <1>6

(* The booleans and the sizes that a step of an operation keeps. *)
LEMMA OverlayTypeKept ==
    ASSUME OverlayBuilt, UNCHANGED <<style, conn, window, gcs>>, window,
           /\ mapped' \in BOOLEAN /\ visible' \in BOOLEAN /\ onTop' \in BOOLEAN /\ lowered' \in BOOLEAN,
           /\ Len(picture') <= 6 /\ Len(todo') <= 6
           /\ showing' \in Shows \cup {NoShow} /\ shown' \in Shows \cup {NoShow},
           at' \in {"idle", "map", "raise", "draw", "panic"}, gcs = 12
    PROVE  Overlay!TypeOK'
<1>1. /\ conn' \in BOOLEAN /\ window' \in BOOLEAN
  BY DEF OverlayBuilt, Overlay!TypeOK
<1>2. window' /\ conn' /\ style' \in Styles /\ gcs' \in 0 .. 12
  BY DEF OverlayBuilt, Overlay!TypeOK
<1>3. QED
  BY <1>1, <1>2 DEF Overlay!TypeOK

LEMMA OverlayMapStep ==
    ASSUME OverlayBuilt, Overlay!Map \/ Overlay!Raise
    PROVE  OverlayBuilt'
<1> USE DEF OverlayBuilt
<1>1. /\ UNCHANGED <<style, conn, window, gcs, picture, todo, showing, shown>>
      /\ \/ at = "map" /\ visible' /\ mapped' /\ at' = "raise"
         \/ at = "raise" /\ UNCHANGED <<visible, mapped>> /\ at' = "draw"
  BY DEF Overlay!Map, Overlay!Raise, Overlay!barVars
<1>2. mapped' \in BOOLEAN /\ visible' \in BOOLEAN /\ onTop' \in BOOLEAN /\ lowered' \in BOOLEAN
  BY DEF Overlay!Map, Overlay!Raise, Overlay!TypeOK
<1>3. window /\ gcs = 12 /\ shown = NoShow
  BY <1>1 DEF OverlayPlaces
<1>4. OverlayPlaces'
  BY <1>1, <1>3 DEF OverlayPlaces
<1>5. Overlay!TypeOK'
  <2>1. /\ Len(picture') <= 6 /\ Len(todo') <= 6
        /\ showing' \in Shows \cup {NoShow} /\ shown' \in Shows \cup {NoShow}
    BY <1>1 DEF Overlay!TypeOK
  <2>2. at' \in {"idle", "map", "raise", "draw", "panic"}
    BY <1>1
  <2>3. QED
    BY <1>1, <1>2, <1>3, <2>1, <2>2, OverlayTypeKept
<1>6. OverlayPicture'
  <2>1. PICK k \in 0 .. Len(Wanted(showing)) : Left(showing, k) /\ (k > 0 => Painted(showing, k))
    BY <1>1 DEF OverlayPicture
  <2>2. Wanted(showing)' = Wanted(showing)
    BY <1>1 DEF Wanted
  <2>3. Left(showing, k)' /\ (k > 0 => Painted(showing, k)')
    BY <1>1, <2>1, <2>2 DEF Left, Painted, Overlay!Covers
  <2>4. QED
    BY <1>1, <1>3, <2>1, <2>2, <2>3 DEF OverlayPicture
<1>7. QED
  BY <1>4, <1>5, <1>6

LEMMA OverlayDrawStep ==
    ASSUME OverlayBuilt, Overlay!Draw
    PROVE  OverlayBuilt'
<1> USE DEF OverlayBuilt
<1>1. /\ UNCHANGED <<style, conn, window, gcs, mapped, visible, onTop, lowered, showing, shown, at>>
      /\ at = "draw" /\ todo # << >> /\ todo' = Tail(todo)
      /\ picture' = IF Overlay!Covers(Head(todo)) THEN <<Head(todo)>> ELSE Append(picture, Head(todo))
  BY DEF Overlay!Draw, Overlay!barVars
<1>2. window /\ gcs = 12 /\ shown = NoShow /\ showing \in Shows /\ style \in Styles
  BY <1>1 DEF OverlayPlaces, Overlay!TypeOK
<1>3. OverlayPlaces'
  BY <1>1, <1>2 DEF OverlayPlaces
<1>4. PICK k \in 0 .. Len(Wanted(showing)) : Left(showing, k) /\ (k > 0 => Painted(showing, k))
  BY <1>1 DEF OverlayPicture
<1> DEFINE w == Wanted(showing)
<1>5. w \in Seq(Rects) /\ 3 <= Len(w) /\ Len(w) <= 6 /\ Overlay!Covers(w[1])
  BY <1>2, WantedLength, FirstCovers
<1>6. picture \in Seq(Rects) /\ todo \in Seq(Rects)
  BY DEF OverlayPicture
<1>7. /\ k + 1 \in 1 .. Len(w) /\ Head(todo) = w[k + 1] /\ Head(todo) \in Rects
      /\ todo' \in Seq(Rects) /\ Len(todo') = Len(w) - (k + 1)
      /\ \A m \in 1 .. Len(todo') : todo'[m] = w[(k + 1) + m]
  <2> HIDE DEF w
  <2>1. Len(todo) = Len(w) - k /\ \A m \in 1 .. Len(todo) : todo[m] = w[k + m]
    BY <1>4 DEF Left, w
  <2>2. Len(todo) \in Nat /\ Len(todo) # 0
    BY <1>1, <1>6
  <2>3. todo' \in Seq(Rects) /\ Len(todo') = Len(todo) - 1 /\ Head(todo) = todo[1] /\ Head(todo) \in Rects
        /\ \A m \in 1 .. Len(todo') : todo'[m] = todo[m + 1]
    BY <1>1, <1>6
  <2>4. QED
    BY <1>4, <1>5, <2>1, <2>2, <2>3
<1>8. w' = w
  BY <1>1 DEF Wanted
<1>9. /\ picture' \in Seq(Rects)
      /\ \E j \in 1 .. k + 1 :
            /\ Overlay!Covers(w[j])
            /\ Len(picture') = (k + 1) - j + 1
            /\ \A m \in 1 .. Len(picture') : picture'[m] = w[j + m - 1]
  <2> HIDE DEF w
  <2>1. CASE Overlay!Covers(Head(todo))
    <3>1. picture' = <<Head(todo)>>
      BY <1>1, <2>1
    <3>2. picture' \in Seq(Rects) /\ Len(picture') = 1 /\ picture'[1] = w[k + 1]
      BY <1>7, <3>1
    <3>3. Overlay!Covers(w[k + 1])
      BY <1>7, <2>1
    <3>4. QED
      BY <1>4, <1>7, <3>2, <3>3
  <2>2. CASE ~Overlay!Covers(Head(todo))
    <3>1. k > 0
      BY <1>4, <1>5, <1>7, <2>2
    <3>2. PICK j \in 1 .. k : /\ Overlay!Covers(w[j]) /\ Len(picture) = k - j + 1
                              /\ \A m \in 1 .. Len(picture) : picture[m] = w[j + m - 1]
      BY <1>4, <3>1 DEF Painted, w
    <3>3. /\ picture' \in Seq(Rects) /\ Len(picture') = Len(picture) + 1
          /\ picture'[Len(picture) + 1] = w[k + 1]
          /\ \A m \in 1 .. Len(picture) : picture'[m] = picture[m]
      BY <1>1, <1>6, <1>7, <2>2
    <3>4. Len(picture') = (k + 1) - j + 1 /\ j \in 1 .. k + 1
      BY <1>4, <3>2, <3>3
    <3>5. \A m \in 1 .. Len(picture') : picture'[m] = w[j + m - 1]
      BY <1>4, <3>2, <3>3
    <3>6. QED
      BY <3>2, <3>3, <3>4, <3>5
  <2>3. QED
    BY <2>1, <2>2
<1>10. OverlayPicture'
  <2>1. Painted(showing, k + 1)'
    BY <1>1, <1>8, <1>9 DEF Painted, Overlay!Covers
  <2>2. Left(showing, k + 1)'
    BY <1>1, <1>7, <1>8 DEF Left
  <2>3. k + 1 \in 0 .. Len(w')
    BY <1>4, <1>7, <1>8
  <2>4. Len(picture') <= 6
    <3>1. PICK j \in 1 .. k + 1 : Len(picture') = (k + 1) - j + 1
      BY <1>9
    <3>2. k + 1 <= 6
      BY <1>5, <1>7
    <3>3. QED
      BY <1>4, <3>1, <3>2
  <2>5. QED
    BY <1>1, <1>2, <1>7, <1>9, <2>1, <2>2, <2>3, <2>4 DEF OverlayPicture
<1>11. Overlay!TypeOK'
  <2>1. mapped' \in BOOLEAN /\ visible' \in BOOLEAN /\ onTop' \in BOOLEAN /\ lowered' \in BOOLEAN
    BY <1>1 DEF Overlay!TypeOK
  <2>2. /\ Len(picture') <= 6 /\ Len(todo') <= 6
        /\ showing' \in Shows \cup {NoShow} /\ shown' \in Shows \cup {NoShow}
    BY <1>1, <1>4, <1>5, <1>7, <1>10 DEF Overlay!TypeOK, OverlayPicture
  <2>3. QED
    BY <1>1, <1>2, <2>1, <2>2, OverlayTypeKept
<1>12. QED
  BY <1>3, <1>10, <1>11

LEMMA OverlayReturnStep ==
    ASSUME OverlayBuilt, Overlay!ShowReturns \/ Overlay!ShowFails
    PROVE  OverlayBuilt'
<1> USE DEF OverlayBuilt
<1>1. /\ UNCHANGED <<style, conn, window, gcs, mapped, visible, onTop, picture>>
      /\ lowered' \in BOOLEAN
      /\ at \in {"map", "raise", "draw"} /\ at' \in {"idle", "panic"}
      /\ todo' = << >> /\ showing' = NoShow
      /\ \/ shown' = NoShow
         \/ at = "draw" /\ todo = << >> /\ showing.cap # 0 /\ at' = "idle" /\ shown' = showing
  <2>1. CASE Overlay!ShowReturns
    BY <2>1 DEF Overlay!ShowReturns, Overlay!barVars, Overlay!screenVars, Overlay!TypeOK
  <2>2. CASE Overlay!ShowFails
    BY <2>2 DEF Overlay!ShowFails, Overlay!barVars, Overlay!screenVars, OverlayPlaces, Overlay!TypeOK
  <2>3. QED
    BY <2>1, <2>2
<1>2. window /\ gcs = 12 /\ shown = NoShow /\ showing \in Shows /\ style \in Styles
  BY <1>1 DEF OverlayPlaces, Overlay!TypeOK
<1>3. OverlayPlaces'
  BY <1>1, <1>2 DEF OverlayPlaces
<1>4. Overlay!TypeOK'
  <2>1. mapped' \in BOOLEAN /\ visible' \in BOOLEAN /\ onTop' \in BOOLEAN /\ lowered' \in BOOLEAN
    BY <1>1 DEF Overlay!TypeOK
  <2>2. Len(picture') <= 6 /\ Len(todo') <= 6
    BY <1>1 DEF Overlay!TypeOK
  <2>3. showing' \in Shows \cup {NoShow} /\ shown' \in Shows \cup {NoShow}
    BY <1>1, <1>2
  <2>4. QED
    BY <1>1, <1>2, <2>1, <2>2, <2>3, OverlayTypeKept
<1>5. picture' \in Seq(Rects) /\ todo' \in Seq(Rects) /\ Len(picture') <= 6
  <2>1. picture' \in Seq(Rects) /\ Len(picture') <= 6
    BY <1>1 DEF OverlayPicture
  <2>2. QED
    BY <1>1, <2>1
<1>6. ASSUME shown' # NoShow
      PROVE  shown'.cap # 0 /\ visible' /\ Painted(shown, Len(Wanted(shown)))'
  <2>1. at = "draw" /\ todo = << >> /\ showing.cap # 0 /\ shown' = showing
    BY <1>1, <1>6
  <2>2. PICK k \in 0 .. Len(Wanted(showing)) : Left(showing, k) /\ (k > 0 => Painted(showing, k))
    BY <1>1 DEF OverlayPicture
  <2>3. 3 <= Len(Wanted(showing)) /\ Len(Wanted(showing)) <= 6
    BY <1>2, WantedLength
  <2>4. k = Len(Wanted(showing)) /\ k > 0
    <3>1. Len(todo) = 0
      BY <2>1
    <3>2. QED
      BY <2>2, <2>3, <3>1 DEF Left
  <2>5. Painted(showing, Len(Wanted(showing)))
    BY <2>2, <2>4
  <2>6. Wanted(shown)' = Wanted(showing)
    BY <1>1, <2>1 DEF Wanted
  <2>7. visible
    BY <2>1 DEF OverlayPlaces
  <2>8. QED
    BY <1>1, <2>1, <2>5, <2>6, <2>7 DEF Painted, Overlay!Covers
<1>7. OverlayPicture'
  BY <1>1, <1>5, <1>6 DEF OverlayPicture
<1>8. QED
  BY <1>3, <1>4, <1>7

LEMMA OverlayIdleStep ==
    ASSUME OverlayBuilt, Overlay!Hide \/ Overlay!Close
    PROVE  OverlayBuilt'
<1> USE DEF OverlayBuilt
<1>1. /\ UNCHANGED <<style, onTop, lowered, picture, todo, showing>> /\ at = "idle"
      /\ \/ /\ UNCHANGED <<conn, window, gcs, at>> /\ shown' = NoShow
            /\ visible' = FALSE /\ mapped' = FALSE
         \/ UNCHANGED <<conn, window, gcs, at, visible, mapped, shown>>
         \/ /\ at' = "closed" /\ shown' = NoShow /\ gcs' = 0
            /\ conn' = FALSE /\ window' = FALSE /\ visible' = FALSE /\ mapped' = FALSE
  BY DEF Overlay!Hide, Overlay!Close, Overlay!Op, Overlay!barVars, Overlay!Closed
<1>2. window /\ conn /\ gcs = 12 /\ todo = << >> /\ (mapped => visible)
  BY <1>1 DEF OverlayPlaces, Overlay!TypeOK
<1>3. OverlayPlaces' /\ (visible' => window') /\ (window' => conn')
      /\ (at' = "idle" => conn' /\ window' /\ gcs' = 12)
  <2>1. CASE at' = "closed" /\ shown' = NoShow /\ gcs' = 0
             /\ conn' = FALSE /\ window' = FALSE /\ visible' = FALSE /\ mapped' = FALSE
    BY <1>1, <1>2, <2>1 DEF OverlayPlaces
  <2>2. CASE UNCHANGED <<conn, window, gcs, at>> /\ (mapped' => visible')
    BY <1>1, <1>2, <2>2 DEF OverlayPlaces
  <2>3. \/ UNCHANGED <<conn, window, gcs, at>> /\ (mapped' => visible')
        \/ at' = "closed"
    BY <1>1, <1>2
  <2>4. QED
    BY <1>1, <2>1, <2>2, <2>3
<1>4. Overlay!TypeOK'
  <2>1. /\ mapped' \in BOOLEAN /\ visible' \in BOOLEAN /\ onTop' \in BOOLEAN /\ lowered' \in BOOLEAN
        /\ conn' \in BOOLEAN /\ window' \in BOOLEAN
    BY <1>1 DEF Overlay!TypeOK
  <2>2. Len(picture') <= 6 /\ Len(todo') <= 6
    BY <1>1 DEF Overlay!TypeOK
  <2>3. gcs' \in 0 .. 12
    <3>1. gcs' = 12 \/ gcs' = 0
      BY <1>1, <1>2
    <3>2. QED
      BY <3>1
  <2>4. /\ showing' \in Shows \cup {NoShow} /\ shown' \in Shows \cup {NoShow} /\ style' \in Styles
        /\ at' \in {"idle", "closed"}
    BY <1>1 DEF Overlay!TypeOK
  <2>5. QED
    BY <1>3, <2>1, <2>2, <2>3, <2>4 DEF Overlay!TypeOK
<1>5. OverlayPicture'
  <2>1. at' \notin {"map", "raise", "draw"} /\ Len(picture') <= 6
    BY <1>1 DEF OverlayPicture
  <2>2. ASSUME shown' # NoShow
        PROVE  shown'.cap # 0 /\ visible' /\ Painted(shown, Len(Wanted(shown)))'
    <3>1. UNCHANGED <<visible, shown>> /\ shown # NoShow
      BY <1>1, <2>2
    <3>2. shown.cap # 0 /\ visible /\ Painted(shown, Len(Wanted(shown)))
      BY <3>1 DEF OverlayPicture
    <3>3. Wanted(shown)' = Wanted(shown)
      BY <1>1, <3>1 DEF Wanted
    <3>4. QED
      BY <1>1, <3>1, <3>2, <3>3 DEF Painted, Overlay!Covers
  <2>3. QED
    BY <1>1, <2>1, <2>2 DEF OverlayPicture
<1>6. QED
  BY <1>3, <1>4, <1>5

LEMMA OverlayStutters == OverlayBuilt /\ UNCHANGED Overlay!vars => OverlayBuilt'
<1> SUFFICES ASSUME OverlayBuilt, UNCHANGED Overlay!vars PROVE OverlayBuilt'
  OBVIOUS
<1> USE DEF OverlayBuilt, Overlay!vars, Overlay!barVars, Overlay!screenVars
<1>1. Overlay!TypeOK'
  BY Zenon DEF Overlay!TypeOK
<1>2. OverlayPlaces'
  BY DEF OverlayPlaces
<1>3. OverlayPicture'
  BY DEF OverlayPicture, Painted, Left, Wanted, Overlay!Covers
<1>4. QED
  BY <1>1, <1>2, <1>3

LEMMA OverlayRaisedStep ==
    ASSUME OverlayInv, [Overlay!Next]_Overlay!vars PROVE OverlayRaised'
<1> USE DEF OverlayInv, OverlayBuilt, Overlay!barVars, Overlay!screenVars
<1>1. CASE \/ Overlay!Connect \/ Overlay!CreateWindow \/ Overlay!AlwaysOnTop
           \/ Overlay!CreateColors \/ Overlay!NewBarFails
  <2>1. /\ UNCHANGED shown /\ at \in {"none", "window", "atoms", "colors"}
        /\ mapped' = mapped \/ ~mapped'
    BY <1>1 DEF Overlay!Connect, Overlay!CreateWindow, Overlay!AlwaysOnTop, Overlay!CreateColors,
           Overlay!NewBarFails, Overlay!Closed
  <2>2. shown = NoShow /\ ~mapped
    BY <2>1 DEF OverlayPlaces
  <2>3. QED
    BY <2>1, <2>2 DEF OverlayRaised
<1>2. CASE \E a \in Shows : Overlay!Show(a)
  BY <1>2 DEF Overlay!Show, Overlay!Op, OverlayRaised
<1>3. CASE Overlay!Map \/ Overlay!Raise
  BY <1>3 DEF Overlay!Map, Overlay!Raise, OverlayPlaces, OverlayRaised
<1>4. CASE Overlay!Draw
  BY <1>4 DEF Overlay!Draw, OverlayRaised
<1>5a. CASE Overlay!ShowReturns
  <2>1. UNCHANGED <<mapped, onTop, lowered>> /\ at = "draw"
    BY <1>5a DEF Overlay!ShowReturns
  <2>2. mapped /\ (onTop \/ lowered)
    BY <2>1 DEF OverlayPlaces, OverlayRaised
  <2>3. QED
    BY <2>1, <2>2 DEF OverlayRaised
<1>5b. CASE Overlay!ShowFails
  <2>1. UNCHANGED <<mapped, onTop, shown>> /\ lowered' = (lowered \/ at = "raise")
    BY <1>5b DEF Overlay!ShowFails
  <2>2. mapped /\ at # "raise" => onTop \/ lowered
    BY DEF OverlayRaised
  <2>3. shown # NoShow => mapped
    BY DEF OverlayRaised
  <2>4. QED
    BY <2>1, <2>2, <2>3, Zenon DEF OverlayRaised
<1>6. CASE Overlay!Hide \/ Overlay!Close
  BY <1>6 DEF Overlay!Hide, Overlay!Close, Overlay!Op, Overlay!Closed, OverlayRaised
<1>7. CASE UNCHANGED Overlay!vars
  BY <1>7 DEF Overlay!vars, OverlayRaised
<1>8. QED
  BY <1>1, <1>2, <1>3, <1>4, <1>5a, <1>5b, <1>6, <1>7, Zenon DEF Overlay!Next

LEMMA OverlayInit == Overlay!Init => OverlayInv
  BY OverlayBuiltInit DEF OverlayInv, OverlayRaised, Overlay!Init

LEMMA OverlayStep == OverlayInv /\ [Overlay!Next]_Overlay!vars => OverlayInv'
<1>1. OverlayBuilt /\ [Overlay!Next]_Overlay!vars => OverlayBuilt'
  BY OverlayNewBarStep, OverlayShowStep, OverlayMapStep, OverlayDrawStep, OverlayReturnStep,
     OverlayIdleStep, OverlayStutters
  DEF Overlay!Next
<1>2. QED
  BY <1>1, OverlayRaisedStep DEF OverlayInv

LEMMA OverlayLeaks == OverlayInv => Overlay!OnlyAtomsLeak
  BY DEF OverlayInv, OverlayBuilt, OverlayPlaces, Overlay!OnlyAtomsLeak

(* The rectangles of a Show, given the fat and the length of the bar: their edges,
   for a bar along x and for one along y, and their colors. *)
Edges(a, f, l, w) ==
    /\ w[1].from = 0 /\ w[1].to = 2 * f + l - 1
    /\ w[1].set = Overlay!Colors(a) /\ w[1].part = "bg"
    /\ w[2].from = style.outline /\ w[2].to = 2 * f + l - 1 - style.outline
    /\ w[2].set = Overlay!Colors(a) /\ w[2].part = "border"
    /\ w[3].from = style.outline + style.border
    /\ w[3].to = 2 * f + l - 1 - style.outline - style.border
    /\ w[3].set = Overlay!Colors(a) /\ w[3].part = "bg"
    /\ w[4].from = (IF Overlay!Horizontal(style) THEN f ELSE f + l - Filled(a))
    /\ w[4].to = w[4].from + Filled(a) - 1
    /\ w[4].set = Overlay!Colors(a) /\ w[4].part = "fg"
    /\ Parted(a) =>
         /\ w[5].from = (IF Overlay!Horizontal(style) THEN f ELSE f + l - Split(a))
         /\ w[5].to = w[5].from + Split(a) - 1
         /\ w[5].set = Overlay!Within(a) /\ w[5].part = "fg"
         /\ w[6].from = f - style.padding + style.padding \div 2
                          + (IF Overlay!Horizontal(style) THEN Split(a) ELSE l - Split(a))
         /\ w[6].to = w[6].from + style.padding - 1
         /\ w[6].set = Overlay!Within(a) /\ w[6].part = "bg"

LEMMA WantedEdges ==
    ASSUME style \in Styles, NEW a \in Shows, a.cap # 0,
           NEW f, f = Overlay!Fat(style), NEW l, l = Overlay!Length(style),
           NEW w, w = Wanted(a)
    PROVE  Edges(a, f, l, w)
<1>1. /\ f \in Nat /\ l \in Nat /\ f = style.padding + style.border + style.outline
      /\ style.padding \in Nat /\ style.border \in Nat /\ style.outline \in Nat
  BY StyleSizes
<1> DEFINE set == Overlay!Colors(a)
<1> HIDE DEF set
<1>2. /\ w[1] = Overlay!Rect(0, 2 * f + l, set, "bg")
      /\ w[2] = Overlay!Rect(style.outline, 2 * (style.border + style.padding) + l, set, "border")
      /\ w[3] = Overlay!Rect(style.outline + style.border, 2 * style.padding + l, set, "bg")
      /\ w[4] = Overlay!DrawContent(style, Filled(a), set)
      /\ Parted(a) =>
            /\ w[5] = Overlay!DrawContent(style, Split(a), Overlay!Within(a))
            /\ w[6] = Overlay!DrawSeparator(style, Split(a), Overlay!Within(a))
  <2>1. /\ w[1] = Overlay!DrawEmpty(style, Overlay!Colors(a))[1]
        /\ w[2] = Overlay!DrawEmpty(style, Overlay!Colors(a))[2]
        /\ w[3] = Overlay!DrawEmpty(style, Overlay!Colors(a))[3]
    BY WantedIs
  <2>2. /\ w[4] = Overlay!DrawContent(style, Filled(a), set)
        /\ Parted(a) =>
            /\ w[5] = Overlay!DrawContent(style, Split(a), Overlay!Within(a))
            /\ w[6] = Overlay!DrawSeparator(style, Split(a), Overlay!Within(a))
    BY WantedIs DEF set
  <2>3. QED
    BY <2>1, <2>2 DEF Overlay!DrawEmpty, set
<1>3. /\ style.outline + (2 * (style.border + style.padding) + l) - 1 = 2 * f + l - 1 - style.outline
      /\ style.outline + style.border + (2 * style.padding + l) - 1
           = 2 * f + l - 1 - style.outline - style.border
      /\ 0 + (2 * f + l) - 1 = 2 * f + l - 1
      /\ style.outline + style.border = f - style.padding
  BY <1>1
<1>4. /\ w[1].from = 0 /\ w[1].to = 2 * f + l - 1 /\ w[1].set = set /\ w[1].part = "bg"
      /\ w[2].from = style.outline /\ w[2].to = 2 * f + l - 1 - style.outline
      /\ w[2].set = set /\ w[2].part = "border"
      /\ w[3].from = style.outline + style.border
      /\ w[3].to = 2 * f + l - 1 - style.outline - style.border
      /\ w[3].set = set /\ w[3].part = "bg"
  BY <1>2, <1>3 DEF Overlay!Rect
<1>5. /\ w[4].from = (IF Overlay!Horizontal(style) THEN f ELSE f + l - Filled(a))
      /\ w[4].to = w[4].from + Filled(a) - 1 /\ w[4].set = set /\ w[4].part = "fg"
  BY <1>2 DEF Overlay!DrawContent, Overlay!Rect
<1>6. ASSUME Parted(a)
      PROVE  /\ w[5].from = (IF Overlay!Horizontal(style) THEN f ELSE f + l - Split(a))
             /\ w[5].to = w[5].from + Split(a) - 1
             /\ w[5].set = Overlay!Within(a) /\ w[5].part = "fg"
             /\ w[6].from = f - style.padding + style.padding \div 2
                              + (IF Overlay!Horizontal(style) THEN Split(a) ELSE l - Split(a))
             /\ w[6].to = w[6].from + style.padding - 1
             /\ w[6].set = Overlay!Within(a) /\ w[6].part = "bg"
  <2>1. /\ w[5].from = (IF Overlay!Horizontal(style) THEN f ELSE f + l - Split(a))
        /\ w[5].to = w[5].from + Split(a) - 1
        /\ w[5].set = Overlay!Within(a) /\ w[5].part = "fg"
    BY <1>2, <1>6 DEF Overlay!DrawContent, Overlay!Rect
  <2>2. w[6] = Overlay!Rect(style.outline + style.border + style.padding \div 2
                               + (IF Overlay!Horizontal(style) THEN Split(a) ELSE l - Split(a)),
                            style.padding, Overlay!Within(a), "bg")
    BY <1>2, <1>6 DEF Overlay!DrawSeparator
  <2>3. QED
    BY <1>3, <2>1, <2>2 DEF Overlay!Rect
<1>7. QED
  BY <1>4, <1>5, <1>6 DEF set, Edges

(* The last rectangle that covers a pixel gives its color, whatever the picture
   had before. *)
LEMMA PixelIs ==
    ASSUME style \in Styles, NEW a \in Shows, picture \in Seq(Rects),
           Painted(a, Len(Wanted(a))),
           NEW i \in 0 .. 2 * Overlay!Fat(style) + Overlay!Length(style) - 1,
           NEW k \in 1 .. Len(Wanted(a)),
           Wanted(a)[k].from <= i /\ i <= Wanted(a)[k].to,
           \A m \in k + 1 .. Len(Wanted(a)) : ~(Wanted(a)[m].from <= i /\ i <= Wanted(a)[m].to)
    PROVE  Overlay!Pixel(i) = [set |-> Wanted(a)[k].set, part |-> Wanted(a)[k].part]
<1> DEFINE w == Wanted(a)
           n == Len(w)
           hit(r) == r.from <= i /\ i <= r.to
           covers == {q \in 1 .. Len(picture) : picture[q].from <= i /\ i <= picture[q].to}
<1>1. w \in Seq(Rects) /\ n \in Nat
  BY WantedLength
<1>2. PICK j \in 1 .. n : /\ Overlay!Covers(w[j]) /\ Len(picture) = n - j + 1
                          /\ \A m \in 1 .. Len(picture) : picture[m] = w[j + m - 1]
  BY DEF Painted
<1>3. w[j].from <= i /\ i <= w[j].to
  <2>1. w[j].from = 0 /\ w[j].to = 2 * Overlay!Fat(style) + Overlay!Length(style) - 1
    BY <1>2 DEF Overlay!Covers
  <2>2. Overlay!Fat(style) \in Nat /\ Overlay!Length(style) \in Nat
    BY StyleSizes
  <2>3. QED
    BY <2>1, <2>2
<1>4. j <= k
  BY <1>1, <1>2, <1>3
<1> DEFINE p == k - j + 1
<1>5. p \in 1 .. Len(picture) /\ j + p - 1 = k
  BY <1>1, <1>2, <1>4
<1>6. picture[p] = w[k] /\ p \in covers
  BY <1>2, <1>5
<1>7. ASSUME NEW q \in covers PROVE q <= p
  <2>1. q \in 1 .. Len(picture) /\ picture[q] = w[j + q - 1]
    BY <1>2
  <2>2. j + q - 1 \in 1 .. n
    BY <1>1, <1>2, <2>1
  <2>3. ~(j + q - 1 \in k + 1 .. n)
    BY <2>1, <1>7
  <2>4. QED
    BY <1>1, <1>2, <2>1, <2>2, <2>3
<1> HIDE DEF covers, p
<1>8. p = (CHOOSE x \in covers : \A y \in covers : y <= x)
  <2>1. \A x \in covers : (\A y \in covers : y <= x) => x = p
    <3>1. covers \subseteq Int
      BY DEF covers
    <3>2. QED
      BY <1>6, <1>7, <3>1
  <2>2. QED
    BY <1>6, <1>7, <2>1
<1>9. QED
  BY <1>6, <1>8 DEF Overlay!Pixel, covers

LEMMA ProductMonotone ==
    ASSUME NEW m \in Int, NEW n \in Int, NEW d \in Nat, m <= n PROVE m * d <= n * d
BY Z3

LEMMA ProductBelow ==
    ASSUME NEW v \in Int, v <= 0, NEW l \in Nat PROVE v * l <= 0
BY Z3

LEMMA ProductAbove ==
    ASSUME NEW m \in Nat \ {0}, NEW d \in Nat \ {0} PROVE m * d > 0
BY Z3

(* A count is within a quotient when its multiple is within the dividend. *)
LEMMA WithinQuotient ==
    ASSUME NEW n \in Nat, NEW d \in Nat \ {0}, NEW i \in Nat
    PROVE  i < n \div d <=> (i + 1) * d <= n
<1>1. PICK q \in Nat : q = n \div d /\ q * d <= n /\ n < (q + 1) * d
  BY QuotientBounds
<1>2. CASE i < q
  <2>1. (i + 1) * d <= q * d
    BY <1>2, ProductMonotone
  <2>2. (i + 1) * d \in Nat /\ q * d \in Nat
    BY ProductNat
  <2>3. QED
    BY <1>1, <1>2, <2>1, <2>2
<1>3. CASE ~(i < q)
  <2>1. (q + 1) * d <= (i + 1) * d
    BY <1>3, ProductMonotone
  <2>2. (i + 1) * d \in Nat /\ (q + 1) * d \in Nat
    BY ProductNat
  <2>3. QED
    BY <1>1, <1>3, <2>1, <2>2
<1>4. QED
  BY <1>2, <1>3

(* What is lit of a bar for a value in its range, and beyond. *)
LEMMA FilledIs ==
    ASSUME style \in Styles, NEW a \in Shows, a.cap # 0, NEW l, l = Overlay!Length(style)
    PROVE  /\ Filled(a) \in 0 .. l
           /\ a.value > a.cap => Filled(a) = l
           /\ a.value <= a.cap => \A i \in Nat : i < Filled(a) <=> (i + 1) * a.cap <= a.value * l
<1>1. l \in Nat /\ a.value \in Int /\ a.cap \in Nat \ {0}
  BY StyleSizes, OverlayAssumption
<1>2. a.cap * l \in Nat /\ (a.cap * l) \div a.cap = l
  <2>1. a.cap * l \in Nat
    BY <1>1, ProductNat
  <2>2. PICK q \in Nat : q = (a.cap * l) \div a.cap /\ q * a.cap <= a.cap * l /\ a.cap * l < (q + 1) * a.cap
    BY <1>1, <2>1, QuotientBounds
  <2>3. a.cap * l = l * a.cap
    BY <1>1
  <2>4. ~(l + 1 <= q)
    <3>1. l + 1 <= q => (l + 1) * a.cap <= q * a.cap
      BY <1>1, ProductMonotone
    <3>2. (l + 1) * a.cap = l * a.cap + a.cap
      BY <1>1
    <3>3. l * a.cap \in Int /\ q * a.cap \in Int
      BY <1>1
    <3>4. QED
      BY <1>1, <2>2, <2>3, <3>1, <3>2, <3>3
  <2>5. ~(q + 1 <= l)
    <3>1. q + 1 <= l => (q + 1) * a.cap <= l * a.cap
      BY <1>1, ProductMonotone
    <3>2. l * a.cap \in Int /\ (q + 1) * a.cap \in Int
      BY <1>1
    <3>3. QED
      BY <2>2, <2>3, <3>1, <3>2
  <2>6. QED
    BY <1>1, <2>1, <2>2, <2>4, <2>5
<1>3. CASE a.value > a.cap
  <2>1. Overlay!Clamped(a.value, 0, a.cap) = a.cap
    BY <1>1, <1>3 DEF Overlay!Clamped
  <2>2. Filled(a) = l
    BY <1>2, <2>1 DEF Filled
  <2>3. QED
    BY <1>1, <1>3, <2>2
<1>4. CASE a.value <= a.cap /\ a.value >= 0
  <2>1. Filled(a) = (a.value * l) \div a.cap
    BY <1>1, <1>4 DEF Filled, Overlay!Clamped
  <2>2. a.value * l \in Nat
    BY <1>1, <1>4, ProductNat
  <2>3. \A i \in Nat : i < Filled(a) <=> (i + 1) * a.cap <= a.value * l
    BY <1>1, <2>1, <2>2, WithinQuotient
  <2>4. Filled(a) \in Nat
    BY <1>1, <2>1, <2>2, QuotientBounds
  <2>5. ~(l < Filled(a))
    <3>1. a.value * l <= a.cap * l
      BY <1>1, <1>4, ProductMonotone
    <3>2. (l + 1) * a.cap = a.cap * l + a.cap
      BY <1>1
    <3>3. QED
      BY <1>1, <1>2, <2>2, <2>3, <3>1, <3>2
  <2>6. QED
    BY <1>1, <1>4, <2>3, <2>4, <2>5
<1>5. CASE a.value < 0
  <2>1. Filled(a) = (0 * l) \div a.cap
    BY <1>1, <1>5 DEF Filled, Overlay!Clamped
  <2>2. Filled(a) = 0
    <3>1. 0 * l = 0
      BY <1>1
    <3>2. PICK q \in Nat : q = 0 \div a.cap /\ q * a.cap <= 0
      BY <1>1, QuotientBounds
    <3>3. q = 0
      BY <1>1, <3>2, ProductAbove
    <3>4. QED
      BY <2>1, <3>1, <3>2, <3>3
  <2>3. ASSUME NEW i \in Nat PROVE ~((i + 1) * a.cap <= a.value * l)
    <3>1. (i + 1) * a.cap > 0 /\ (i + 1) * a.cap \in Int
      BY <1>1, ProductAbove
    <3>2. a.value * l <= 0 /\ a.value * l \in Int
      BY <1>1, <1>5, ProductBelow
    <3>3. QED
      BY <3>1, <3>2
  <2>4. QED
    BY <1>1, <1>5, <2>2, <2>3
<1>6. QED
  BY <1>1, <1>3, <1>4, <1>5

LEMMA SplitIs ==
    ASSUME style \in Styles, NEW a \in Shows, NEW l, l = Overlay!Length(style)
    PROVE  /\ Split(a) \in 0 .. l
           /\ a.value > a.cap => \A i \in Nat : i < Split(a) <=> (i + 1) * a.value <= a.cap * l
           /\ Parted(a) => a.value > a.cap /\ Split(a) > style.padding
<1>1. l \in Nat /\ a.value \in Int /\ a.cap \in Nat /\ style.padding \in Nat
  BY StyleSizes, OverlayAssumption
<1>2. CASE a.value > a.cap
  <2>1. Split(a) = (a.cap * l) \div a.value
    BY <1>2 DEF Split
  <2>2. a.cap * l \in Nat /\ a.value \in Nat \ {0}
    BY <1>1, <1>2, ProductNat
  <2>3. \A i \in Nat : i < Split(a) <=> (i + 1) * a.value <= a.cap * l
    BY <2>1, <2>2, WithinQuotient
  <2>4. Split(a) \in Nat
    BY <2>1, <2>2, QuotientBounds
  <2>5. ~(l < Split(a))
    <3>1. a.cap * l <= a.value * l
      BY <1>1, <1>2, ProductMonotone
    <3>2. (l + 1) * a.value = a.value * l + a.value /\ a.value * l \in Int
      BY <1>1
    <3>3. QED
      BY <1>1, <1>2, <2>2, <2>3, <3>1, <3>2
  <2>6. QED
    BY <1>1, <1>2, <2>3, <2>4, <2>5 DEF Parted
<1>3. CASE ~(a.value > a.cap)
  BY <1>1, <1>3 DEF Split, Parted
<1>4. QED
  BY <1>2, <1>3

(* What covers a pixel of the frame, and a pixel of the content. *)
LEMMA FrameCovered ==
    ASSUME style \in Styles, NEW a \in Shows, a.cap # 0,
           NEW f, f = Overlay!Fat(style), NEW l, l = Overlay!Length(style),
           NEW w, w = Wanted(a), NEW i \in 0 .. 2 * f + l - 1, NEW d,
           d = IF i < f + l THEN i ELSE 2 * f + l - 1 - i, d < f
    PROVE  /\ w[1].from <= i /\ i <= w[1].to
           /\ w[2].from <= i /\ i <= w[2].to <=> d >= style.outline
           /\ w[3].from <= i /\ i <= w[3].to <=> d >= style.outline + style.border
           /\ ~(w[4].from <= i /\ i <= w[4].to)
           /\ Parted(a) => /\ ~(w[5].from <= i /\ i <= w[5].to)
                           /\ w[6].from <= i /\ i <= w[6].to => d >= style.outline + style.border
<1>1. /\ f \in Nat /\ l \in Nat /\ f = style.padding + style.border + style.outline
      /\ style.padding \in Nat /\ style.border \in Nat /\ style.outline \in Nat
  BY StyleSizes
<1>2. Filled(a) \in 0 .. l /\ Split(a) \in 0 .. l /\ (Parted(a) => Split(a) > style.padding)
  BY FilledIs, SplitIs
<1>3. i < f \/ i >= f + l
  BY <1>1
<1>4. Edges(a, f, l, w)
  BY WantedEdges
<1>5. w[1].from <= i /\ i <= w[1].to
  BY <1>1, <1>4 DEF Edges
<1>6. w[2].from <= i /\ i <= w[2].to <=> d >= style.outline
  <2>1. w[2].from = style.outline /\ w[2].to = 2 * f + l - 1 - style.outline
    BY <1>4 DEF Edges
  <2>2. QED
    BY <1>1, <2>1
<1>7. w[3].from <= i /\ i <= w[3].to <=> d >= style.outline + style.border
  <2>1. w[3].from = style.outline + style.border /\ w[3].to = 2 * f + l - 1 - style.outline - style.border
    BY <1>4 DEF Edges
  <2>2. QED
    BY <1>1, <2>1
<1>8. ~(w[4].from <= i /\ i <= w[4].to)
  <2>1. /\ w[4].from = IF Overlay!Horizontal(style) THEN f ELSE f + l - Filled(a)
        /\ w[4].to = w[4].from + Filled(a) - 1
    BY <1>4 DEF Edges
  <2>2. QED
    BY <1>1, <1>2, <1>3, <2>1
<1>9. ASSUME Parted(a)
      PROVE  /\ ~(w[5].from <= i /\ i <= w[5].to)
             /\ w[6].from <= i /\ i <= w[6].to => d >= style.outline + style.border
  <2>1. /\ w[5].from = IF Overlay!Horizontal(style) THEN f ELSE f + l - Split(a)
        /\ w[5].to = w[5].from + Split(a) - 1
    BY <1>9, <1>4 DEF Edges
  <2>2. PICK h \in Nat : h = style.padding \div 2 /\ h <= style.padding
    BY <1>1
  <2>3. /\ w[6].from = f - style.padding + h + (IF Overlay!Horizontal(style) THEN Split(a) ELSE l - Split(a))
        /\ w[6].to = w[6].from + style.padding - 1
    BY <1>9, <2>2, <1>4 DEF Edges
  <2>4. ~(w[5].from <= i /\ i <= w[5].to)
    BY <1>1, <1>2, <1>3, <2>1
  <2>5. ASSUME w[6].from <= i /\ i <= w[6].to PROVE d >= style.outline + style.border
    <3>1. /\ w[6].from >= f - style.padding /\ w[6].to <= f + l - 1 + style.padding
          /\ w[6].from \in Int /\ w[6].to \in Int
      BY <1>1, <1>2, <1>9, <2>2, <2>3
    <3>2. i >= f - style.padding /\ i <= f + l - 1 + style.padding
      BY <1>1, <2>5, <3>1
    <3>3. QED
      BY <1>1, <3>2
  <2>6. QED
    BY <2>4, <2>5
<1>10. QED
  BY <1>5, <1>6, <1>7, <1>8, <1>9

LEMMA FramedShown ==
    ASSUME style \in Styles, NEW a \in Shows, a.cap # 0, picture \in Seq(Rects),
           Painted(a, Len(Wanted(a)))
    PROVE  Overlay!Framed
<1> DEFINE f == Overlay!Fat(style)
           l == Overlay!Length(style)
           w == Wanted(a)
<1> SUFFICES ASSUME NEW i \in 0 .. 2 * f + l - 1, NEW d,
                    d = IF i < f + l THEN i ELSE 2 * f + l - 1 - i, d < f
             PROVE  Overlay!Pixel(i).part =
                       IF d >= style.outline /\ d < style.outline + style.border THEN "border" ELSE "bg"
  BY DEF Overlay!Framed
<1> HIDE DEF f, l, w
<1>1. /\ w[1].from <= i /\ i <= w[1].to
      /\ w[2].from <= i /\ i <= w[2].to <=> d >= style.outline
      /\ w[3].from <= i /\ i <= w[3].to <=> d >= style.outline + style.border
      /\ ~(w[4].from <= i /\ i <= w[4].to)
      /\ Parted(a) => /\ ~(w[5].from <= i /\ i <= w[5].to)
                      /\ w[6].from <= i /\ i <= w[6].to => d >= style.outline + style.border
  BY FrameCovered DEF f, l, w
<1>2. /\ w[1].part = "bg" /\ w[2].part = "border" /\ w[3].part = "bg"
      /\ Parted(a) => w[6].part = "bg"
  <2>1. Edges(a, f, l, w)
    BY WantedEdges DEF f, l, w
  <2>2. QED
    BY <2>1 DEF Edges
<1>3. Len(w) = IF Parted(a) THEN 6 ELSE 4
  BY WantedIs DEF w
<1>4. style.outline \in Nat /\ style.border \in Nat /\ f \in Nat /\ l \in Nat
  BY StyleSizes DEF f, l
<1>5. d \in Int
  BY <1>4
<1>6. ASSUME NEW k \in 1 .. Len(w), w[k].from <= i /\ i <= w[k].to,
             \A m \in k + 1 .. Len(w) : ~(w[m].from <= i /\ i <= w[m].to)
      PROVE  Overlay!Pixel(i).part = w[k].part
  BY <1>6, PixelIs DEF f, l, w
<1>7. CASE Parted(a) /\ w[6].from <= i /\ i <= w[6].to
  <2>1. 6 \in 1 .. Len(w) /\ \A m \in 6 + 1 .. Len(w) : ~(w[m].from <= i /\ i <= w[m].to)
    BY <1>3, <1>7
  <2>2. Overlay!Pixel(i).part = "bg"
    BY <1>2, <1>6, <1>7, <2>1
  <2>3. d >= style.outline + style.border
    BY <1>1, <1>7
  <2>4. QED
    BY <1>4, <1>5, <2>2, <2>3
<1>8. CASE ~(Parted(a) /\ w[6].from <= i /\ i <= w[6].to)
  <2>1. \A m \in 4 .. Len(w) : ~(w[m].from <= i /\ i <= w[m].to)
    <3> TAKE m \in 4 .. Len(w)
    <3>1. m = 4 \/ (Parted(a) /\ (m = 5 \/ m = 6))
      BY <1>3
    <3>2. QED
      BY <1>1, <1>8, <3>1
  <2>2. 1 \in 1 .. Len(w) /\ 2 \in 1 .. Len(w) /\ 3 \in 1 .. Len(w)
    BY <1>3
  <2>3. CASE d >= style.outline + style.border
    <3>1. w[3].from <= i /\ i <= w[3].to
      BY <1>1, <2>3
    <3>2. Overlay!Pixel(i).part = w[3].part
      BY <1>6, <2>1, <2>2, <3>1
    <3>3. QED
      BY <1>2, <1>4, <1>5, <2>3, <3>2
  <2>4. CASE d >= style.outline /\ d < style.outline + style.border
    <3>1. w[2].from <= i /\ i <= w[2].to /\ ~(w[3].from <= i /\ i <= w[3].to)
      BY <1>1, <1>4, <1>5, <2>4
    <3>2. \A m \in 2 + 1 .. Len(w) : ~(w[m].from <= i /\ i <= w[m].to)
      <4> TAKE m \in 2 + 1 .. Len(w)
      <4>1. m = 3 \/ m \in 4 .. Len(w)
        BY <1>3
      <4>2. QED
        BY <2>1, <3>1, <4>1
    <3>3. Overlay!Pixel(i).part = w[2].part
      BY <1>6, <2>2, <3>1, <3>2
    <3>4. QED
      BY <1>2, <2>4, <3>3
  <2>5. CASE d < style.outline
    <3>1. ~(w[2].from <= i /\ i <= w[2].to) /\ ~(w[3].from <= i /\ i <= w[3].to)
      BY <1>1, <1>4, <1>5, <2>5
    <3>2. \A m \in 1 + 1 .. Len(w) : ~(w[m].from <= i /\ i <= w[m].to)
      <4> TAKE m \in 1 + 1 .. Len(w)
      <4>1. m = 2 \/ m = 3 \/ m \in 4 .. Len(w)
        BY <1>3
      <4>2. QED
        BY <2>1, <3>1, <4>1
    <3>3. Overlay!Pixel(i).part = w[1].part
      BY <1>1, <1>6, <2>2, <3>2
    <3>4. QED
      BY <1>2, <1>4, <1>5, <2>5, <3>3
  <2>6. QED
    BY <1>4, <1>5, <2>3, <2>4, <2>5
<1>9. QED
  BY <1>7, <1>8

(* A pixel of the content, which is i pixels from the empty end. *)
LEMMA ContentCovered ==
    ASSUME style \in Styles, NEW a \in Shows, a.cap # 0,
           NEW f, f = Overlay!Fat(style), NEW l, l = Overlay!Length(style),
           NEW w, w = Wanted(a), NEW i \in 0 .. l - 1, NEW x,
           x = IF Overlay!Horizontal(style) THEN f + i ELSE f + l - 1 - i
    PROVE  /\ x \in 0 .. 2 * f + l - 1
           /\ w[3].from <= x /\ x <= w[3].to
           /\ w[4].from <= x /\ x <= w[4].to <=> i < Filled(a)
           /\ Parted(a) => (w[5].from <= x /\ x <= w[5].to <=> i < Split(a))
<1>1. /\ f \in Nat /\ l \in Nat /\ f = style.padding + style.border + style.outline
      /\ style.padding \in Nat /\ style.border \in Nat /\ style.outline \in Nat
  BY StyleSizes
<1>2. Filled(a) \in 0 .. l /\ Split(a) \in 0 .. l
  BY FilledIs, SplitIs
<1>3. Edges(a, f, l, w)
  BY WantedEdges
<1>4. x \in 0 .. 2 * f + l - 1
  BY <1>1
<1>5. w[3].from <= x /\ x <= w[3].to
  <2>1. w[3].from = style.outline + style.border /\ w[3].to = 2 * f + l - 1 - style.outline - style.border
    BY <1>3 DEF Edges
  <2>2. QED
    BY <1>1, <2>1
<1>6. w[4].from <= x /\ x <= w[4].to <=> i < Filled(a)
  <2>1. /\ w[4].from = IF Overlay!Horizontal(style) THEN f ELSE f + l - Filled(a)
        /\ w[4].to = w[4].from + Filled(a) - 1
    BY <1>3 DEF Edges
  <2>2. QED
    BY <1>1, <1>2, <2>1
<1>7. ASSUME Parted(a) PROVE w[5].from <= x /\ x <= w[5].to <=> i < Split(a)
  <2>1. /\ w[5].from = IF Overlay!Horizontal(style) THEN f ELSE f + l - Split(a)
        /\ w[5].to = w[5].from + Split(a) - 1
    BY <1>3, <1>7 DEF Edges
  <2>2. QED
    BY <1>1, <1>2, <2>1
<1>8. QED
  BY <1>4, <1>5, <1>6, <1>7

LEMMA ReadsShown ==
    ASSUME style \in Styles, NEW a \in Shows, a.cap # 0, picture \in Seq(Rects),
           Painted(a, Len(Wanted(a)))
    PROVE  Overlay!Reads(a)
<1> DEFINE f == Overlay!Fat(style)
           l == Overlay!Length(style)
           w == Wanted(a)
<1>1. SUFFICES ASSUME NEW i \in 0 .. l - 1
      PROVE
        IF a.value <= a.cap
        THEN Overlay!Content(i)
               = [set |-> Overlay!Within(a), part |-> IF (i + 1) * a.cap <= a.value * l THEN "fg" ELSE "bg"]
        ELSE \/ /\ Overlay!Content(i) = [set |-> Overlay!Colors(a), part |-> "fg"]
                /\ a.proportional => (i + 1) * a.value > a.cap * l
                                     \/ a.cap * l < (style.padding + 1) * a.value
             \/ /\ a.proportional
                /\ Overlay!Content(i).set = Overlay!Within(a)
                /\ Overlay!Content(i).part = "fg" => (i + 1) * a.value <= a.cap * l
  BY DEF Overlay!Reads
<1> DEFINE x == IF Overlay!Horizontal(style) THEN f + i ELSE f + l - 1 - i
<1>2. Overlay!Content(i) = Overlay!Pixel(x)
  BY DEF Overlay!Content
<1> HIDE DEF f, l, w, x
<1>3. /\ x \in 0 .. 2 * f + l - 1
      /\ w[3].from <= x /\ x <= w[3].to
      /\ w[4].from <= x /\ x <= w[4].to <=> i < Filled(a)
      /\ Parted(a) => (w[5].from <= x /\ x <= w[5].to <=> i < Split(a))
  BY ContentCovered DEF f, l, w, x
<1>4. Edges(a, f, l, w)
  BY WantedEdges DEF f, l, w
<1>5. Len(w) = IF Parted(a) THEN 6 ELSE 4
  BY WantedIs DEF w
<1>6. /\ l \in Nat /\ i \in Nat /\ a.value \in Int /\ a.cap \in Nat /\ style.padding \in Nat
  BY StyleSizes, OverlayAssumption DEF l
<1>7. ASSUME NEW k \in 1 .. Len(w), w[k].from <= x /\ x <= w[k].to,
             \A m \in k + 1 .. Len(w) : ~(w[m].from <= x /\ x <= w[m].to)
      PROVE  Overlay!Content(i) = [set |-> w[k].set, part |-> w[k].part]
  BY <1>2, <1>3, <1>7, PixelIs DEF f, l, w
<1>8. Filled(a) \in 0 .. l /\ (a.value > a.cap => Filled(a) = l)
      /\ (a.value <= a.cap => (i < Filled(a) <=> (i + 1) * a.cap <= a.value * l))
  BY <1>6, FilledIs DEF l
<1>9. Split(a) \in 0 .. l /\ (Parted(a) => a.value > a.cap)
      /\ \A n \in Nat : a.value > a.cap => (n < Split(a) <=> (n + 1) * a.value <= a.cap * l)
  BY SplitIs DEF l
<1>10. 3 \in 1 .. Len(w) /\ 4 \in 1 .. Len(w) /\ (Parted(a) => 5 \in 1 .. Len(w) /\ 6 \in 1 .. Len(w))
  BY <1>5
<1>11. CASE a.value <= a.cap
  <2>1. Overlay!Colors(a) = Overlay!Within(a)
    <3>1. (a.value > a.cap) = FALSE
      BY <1>6, <1>11
    <3>2. QED
      BY <3>1 DEF Overlay!Colors, Overlay!Within
  <2>2. ~Parted(a) /\ Len(w) = 4
    <3>1. ~(a.value > a.cap)
      BY <1>6, <1>11
    <3>2. QED
      BY <1>5, <1>9, <3>1
  <2>3. CASE i < Filled(a)
    <3>1. Overlay!Content(i) = [set |-> w[4].set, part |-> w[4].part]
      BY <1>3, <1>7, <1>10, <2>2, <2>3
    <3>2. QED
      BY <1>4, <1>8, <1>11, <2>1, <2>3, <3>1 DEF Edges
  <2>4. CASE ~(i < Filled(a))
    <3>1. \A m \in 3 + 1 .. Len(w) : ~(w[m].from <= x /\ x <= w[m].to)
      BY <1>3, <2>2, <2>4
    <3>2. Overlay!Content(i) = [set |-> w[3].set, part |-> w[3].part]
      BY <1>3, <1>7, <1>10, <3>1
    <3>3. QED
      BY <1>4, <1>8, <1>11, <2>1, <2>4, <3>2 DEF Edges
  <2>5. QED
    BY <2>3, <2>4
<1>12. CASE ~(a.value <= a.cap)
  <2>1. i < Filled(a) /\ a.value > a.cap
    BY <1>6, <1>8, <1>12
  <2>2. CASE Parted(a) /\ w[6].from <= x /\ x <= w[6].to
    <3>1. Overlay!Content(i) = [set |-> w[6].set, part |-> w[6].part]
      BY <1>5, <1>7, <1>10, <2>2
    <3>2. Overlay!Content(i).set = Overlay!Within(a) /\ Overlay!Content(i).part = "bg"
      BY <1>4, <2>2, <3>1 DEF Edges
    <3>3. a.proportional
      BY <2>2 DEF Parted
    <3>4. QED
      BY <1>12, <3>2, <3>3
  <2>3. CASE Parted(a) /\ ~(w[6].from <= x /\ x <= w[6].to) /\ i < Split(a)
    <3>1. \A m \in 5 + 1 .. Len(w) : ~(w[m].from <= x /\ x <= w[m].to)
      BY <1>5, <2>3
    <3>2. Overlay!Content(i) = [set |-> w[5].set, part |-> w[5].part]
      BY <1>3, <1>7, <1>10, <2>3, <3>1
    <3>3. Overlay!Content(i).set = Overlay!Within(a) /\ (i + 1) * a.value <= a.cap * l
      BY <1>4, <1>6, <1>9, <2>1, <2>3, <3>2 DEF Edges
    <3>4. a.proportional
      BY <2>3 DEF Parted
    <3>5. QED
      BY <1>12, <3>3, <3>4
  <2>4. CASE ~Parted(a) \/ (~(w[6].from <= x /\ x <= w[6].to) /\ ~(i < Split(a)))
    <3>1. \A m \in 4 + 1 .. Len(w) : ~(w[m].from <= x /\ x <= w[m].to)
      BY <1>3, <1>5, <2>4
    <3>2. Overlay!Content(i) = [set |-> w[4].set, part |-> w[4].part]
      BY <1>3, <1>7, <1>10, <2>1, <3>1
    <3>3. Overlay!Content(i) = [set |-> Overlay!Colors(a), part |-> "fg"]
      BY <1>4, <3>2 DEF Edges
    <3>4. ASSUME a.proportional
          PROVE  (i + 1) * a.value > a.cap * l \/ a.cap * l < (style.padding + 1) * a.value
      <4>1. (i + 1) * a.value \in Int /\ a.cap * l \in Int /\ (style.padding + 1) * a.value \in Int
        BY <1>6
      <4>2. CASE ~(i < Split(a))
        <5>1. ~((i + 1) * a.value <= a.cap * l)
          BY <1>6, <1>9, <2>1, <4>2, Zenon
        <5>2. QED
          BY <4>1, <5>1
      <4>3. CASE ~Parted(a)
        <5>1. ~(style.padding < Split(a))
          BY <1>6, <1>9, <3>4, <4>3 DEF Parted
        <5>2. ~((style.padding + 1) * a.value <= a.cap * l)
          BY <1>6, <1>9, <2>1, <5>1, Zenon
        <5>3. QED
          BY <4>1, <5>2
      <4>4. QED
        BY <2>4, <4>2, <4>3
    <3>5. QED
      BY <1>12, <3>3, <3>4
  <2>5. QED
    BY <2>2, <2>3, <2>4
<1>13. QED
  BY <1>11, <1>12

(* A window that has room where it is anchored is on the screen. *)
LEMMA CornerFits ==
    ASSUME NEW d \in Dims, NEW screen \in Nat, NEW size \in Nat, Overlay!Room(d, screen, size)
    PROVE  /\ Overlay!Corner(d, screen, size) \in Int
           /\ 0 <= Overlay!Corner(d, screen, size)
           /\ Overlay!Corner(d, screen, size) + size <= screen
<1>1. d.rel \in Int /\ d.abs \in Int
  BY DEF Dims
<1>2. PICK v \in Int : v = (screen * d.rel) \div 10 - size \div 2
  BY <1>1
<1>3. Overlay!Corner(d, screen, size) = Overlay!Clamped(v, 0, screen - size) + d.abs
  BY <1>2 DEF Overlay!Corner
<1>4. CASE d.rel = 0
  <2>1. d.abs \in 0 .. screen - size
    BY <1>4 DEF Overlay!Room
  <2>2. v <= 0
    <3>1. screen * d.rel = 0
      BY <1>4
    <3>2. QED
      BY <1>2, <3>1
  <2>3. Overlay!Clamped(v, 0, screen - size) = 0
    BY <2>1, <2>2 DEF Overlay!Clamped
  <2>4. QED
    BY <1>3, <2>1, <2>3
<1>5. CASE d.rel = 10
  <2>1. -d.abs \in 0 .. screen - size
    BY <1>5 DEF Overlay!Room
  <2>2. v >= screen - size
    <3>1. (screen * d.rel) \div 10 = screen
      BY <1>5
    <3>2. QED
      BY <1>2, <3>1
  <2>3. Overlay!Clamped(v, 0, screen - size) = screen - size
    BY <2>1, <2>2, <1>1 DEF Overlay!Clamped
  <2>4. QED
    BY <1>1, <1>3, <2>1, <2>3
<1>6. CASE d.rel # 0 /\ d.rel # 10
  <2>1. d.abs = 0 /\ size <= screen
    BY <1>6 DEF Overlay!Room
  <2>2. Overlay!Clamped(v, 0, screen - size) \in 0 .. screen - size
    BY <2>1 DEF Overlay!Clamped
  <2>3. QED
    BY <1>3, <2>1, <2>2
<1>7. QED
  BY <1>4, <1>5, <1>6

LEMMA AnchorsFit == ASSUME style \in Styles PROVE Overlay!AnchorsHold
<1>1. /\ style.x \in Dims /\ style.y \in Dims /\ Screen.w \in Nat /\ Screen.h \in Nat
  BY OverlayAssumption
<1>2. Overlay!SizeX(style) \in Nat /\ Overlay!SizeY(style) \in Nat
  BY StyleSizes DEF Overlay!SizeX, Overlay!SizeY
<1> SUFFICES ASSUME Overlay!Room(style.x, Screen.w, Overlay!SizeX(style)),
                    Overlay!Room(style.y, Screen.h, Overlay!SizeY(style))
             PROVE  Overlay!OnScreen(Overlay!Window(style))
  BY DEF Overlay!AnchorsHold
<1> DEFINE sx == Overlay!SizeX(style)
           sy == Overlay!SizeY(style)
           cx == Overlay!Corner(style.x, Screen.w, sx)
           cy == Overlay!Corner(style.y, Screen.h, sy)
<1>3. cx \in Int /\ 0 <= cx /\ cx + sx <= Screen.w
  BY <1>1, <1>2, CornerFits
<1>4. cy \in Int /\ 0 <= cy /\ cy + sy <= Screen.h
  BY <1>1, <1>2, CornerFits
<1>5. Overlay!Window(style) = [x |-> cx, y |-> cy, w |-> sx, h |-> sy]
  BY DEF Overlay!Window
<1> HIDE DEF cx, cy, sx, sy
<1>6. QED
  BY <1>3, <1>4, <1>5 DEF Overlay!OnScreen

LEMMA OverlayShows == OverlayInv => Overlay!ShowShows
<1> SUFFICES ASSUME OverlayInv, at = "idle", shown # NoShow
             PROVE  visible /\ (onTop \/ lowered) /\ Overlay!AnchorsHold /\ Overlay!Framed /\ Overlay!Reads(shown)
  BY DEF Overlay!ShowShows
<1>1. style \in Styles /\ shown \in Shows
  BY DEF OverlayInv, OverlayBuilt, Overlay!TypeOK
<1>2. shown.cap # 0 /\ visible /\ Painted(shown, Len(Wanted(shown))) /\ picture \in Seq(Rects)
  BY DEF OverlayInv, OverlayBuilt, OverlayPicture
<1>3. onTop \/ lowered
  BY DEF OverlayInv, OverlayRaised
<1>4. QED
  BY <1>1, <1>2, <1>3, AnchorsFit, FramedShown, ReadsShown

-----------------------------------------------------------------------------
(* The DDC module.                                                         *)

(* What is about to be set is a preset or no more than the maximum that was
   read last, the brightness is set before the contrast, and a bus is opened
   when there is none and none was refused. *)
DdcWants ==
    /\ \A v \in Ddc!VCPs :
         /\ at \notin {"set br", "set cn", "failed"} => want[v] = NoValue
         /\ at \in {"set br", "set cn"} =>
              \/ want[v] = NoValue \/ want[v] <= max[v]
              \/ \E i \in DOMAIN opts.presets : want[v] = opts.presets[i][v]
    /\ at = "set cn" => want["br"] = NoValue
    /\ at = "open" => ~ci /\ ~unauthorized

DdcPlaces ==
    /\ opts \in Configs
    /\ monitor \in {"on", "asleep", "gone", "unplugged"}
    /\ at \in {"top", "br", "cn", "find", "open", "update", "select", "set br", "set cn", "failed"}

DdcNumbers ==
    /\ real \in [Ddc!VCPs -> Values16]
    /\ cur \in [Ddc!VCPs -> Values16] /\ max \in [Ddc!VCPs -> {0, Top, Ddc!Assumed}]
    /\ want \in [Ddc!VCPs -> Values16 \cup {NoValue}]

DdcFlags ==
    /\ granted \in BOOLEAN /\ stopped \in BOOLEAN
    /\ ci \in BOOLEAN /\ unauthorized \in BOOLEAN /\ (ci => ~unauthorized)
    /\ has \in [Ddc!VCPs -> BOOLEAN] /\ skip \in [Ddc!VCPs -> BOOLEAN]

DdcInv == DdcPlaces /\ DdcNumbers /\ DdcFlags /\ DdcWants

(* A set of numbers that is not empty has a least one. *)
LEMMA LeastNatural ==
    ASSUME NEW T \in SUBSET Nat, T # {}
    PROVE  \E x \in T : \A y \in T : x <= y
<1>1. IsWellFoundedOn(OpToRel(<, Nat), Nat)
  BY NatLessThanWellFounded
<1>2. PICK x \in T : \A y \in T : <<y, x>> \notin OpToRel(<, Nat)
  BY <1>1, WFMin
<1>3. \A y \in T : ~(y < x)
  BY <1>2 DEF OpToRel
<1>4. QED
  BY <1>3

(* Of the numbers up to n, the first at which f is least. *)
LEMMA FirstLeast ==
    ASSUME NEW n \in Nat \ {0}, NEW f \in [1 .. n -> Nat]
    PROVE  \E i \in 1 .. n : \A j \in 1 .. n : f[i] < f[j] \/ (f[i] = f[j] /\ i <= j)
<1> DEFINE fs == {f[i] : i \in 1 .. n}
<1>1. fs \in SUBSET Nat /\ fs # {}
  OBVIOUS
<1>2. PICK d \in fs : \A e \in fs : d <= e
  BY <1>1, LeastNatural
<1> DEFINE is == {i \in 1 .. n : f[i] = d}
<1>3. is \in SUBSET Nat /\ is # {}
  BY <1>2
<1>4. PICK i \in is : \A j \in is : i <= j
  BY <1>3, LeastNatural
<1>5. SUFFICES ASSUME NEW j \in 1 .. n PROVE f[i] < f[j] \/ (f[i] = f[j] /\ i <= j)
  BY <1>4
<1>6. f[i] = d /\ d \in Nat /\ f[j] \in Nat /\ d <= f[j] /\ i \in Nat /\ j \in Nat
  BY <1>1, <1>2, <1>4
<1>7. f[j] = d => i <= j
  BY <1>4
<1>8. QED
  BY <1>6, <1>7

(* The presets are of the monitor's values. *)
LEMMA PresetsFit ==
    ASSUME DdcInv
    PROVE  /\ opts.presets \in Seq(Presets)
           /\ \A i \in DOMAIN opts.presets, v \in Ddc!VCPs : opts.presets[i][v] \in Values16
<1>1. opts.presets \in Seq(Presets)
  BY DdcAssumption DEF DdcInv, DdcPlaces
<1>2. \A i \in DOMAIN opts.presets : opts.presets[i] \in Presets
  BY <1>1
<1>3. QED
  BY <1>1, <1>2 DEF Presets, Ddc!VCPs

LEMMA WordFacts == Ddc!Word \in Int /\ Ddc!Word > 100 /\ \A x \in Values16 : x \in Int /\ 0 <= x /\ x < Ddc!Word
<1>1. Ddc!Word \in Int /\ Ddc!Word > 100
  BY DEF Ddc!Word
<1>2. QED
  BY <1>1 DEF Values16

(* The presets that a click may choose exist. *)
LEMMA ClosestExists ==
    ASSUME DdcInv, opts.presets # << >>
    PROVE  Ddc!Closest \in DOMAIN opts.presets
<1> DEFINE n == Len(opts.presets)
           f == [i \in 1 .. n |-> Ddc!Off(i, "br") + Ddc!Off(i, "cn")]
<1>1. n \in Nat \ {0} /\ DOMAIN opts.presets = 1 .. n
  BY PresetsFit
<1>2. f \in [1 .. n -> Nat]
  <2> SUFFICES ASSUME NEW i \in 1 .. n, NEW v \in Ddc!VCPs PROVE Ddc!Off(i, v) \in Nat
    BY DEF Ddc!VCPs
  <2>1. opts.presets[i][v] \in Int
    BY <1>1, PresetsFit, WordFacts
  <2>2. cur[v] \in Int
    BY WordFacts DEF DdcInv, DdcNumbers
  <2>3. QED
    BY <2>1, <2>2 DEF Ddc!Off, Ddc!Distance
<1>3. \E i \in 1 .. n : \A j \in 1 .. n : f[i] < f[j] \/ (f[i] = f[j] /\ i <= j)
  <2> HIDE DEF f, n
  <2> QED
    BY <1>1, <1>2, FirstLeast
<1>4. QED
  BY <1>1, <1>3 DEF Ddc!Closest

LEMMA CurrentExists ==
    ASSUME DdcInv
    PROVE  Ddc!Current \in Nat
<1> DEFINE hits == {i \in DOMAIN opts.presets :
                      \A v \in Ddc!VCPs : has[v] => opts.presets[i][v] = cur[v]}
<1>1. hits \in SUBSET Nat
  <2>1. DOMAIN opts.presets = 1 .. Len(opts.presets)
    BY PresetsFit
  <2>2. QED
    BY <2>1
<1>2. Ddc!Current = IF hits = {} THEN 0 ELSE Ddc!Min(hits)
  BY Zenon DEF Ddc!Current, Ddc!First
<1>3. hits # {} => Ddc!Min(hits) \in hits
  <2> HIDE DEF hits
  <2> QED
    BY <1>1, LeastNatural DEF Ddc!Min
<1>4. QED
  BY <1>1, <1>2, <1>3

LEMMA CurrentMoves ==
    ASSUME DdcInv, NEW s \in Int PROVE Ddc!Current + s \in Int
  BY CurrentExists

LEMMA Remainder ==
    ASSUME NEW n \in Nat \ {0}, NEW m \in Int
    PROVE  m % n \in Int /\ 0 <= m % n /\ m % n < n
  BY SMT

LEMMA AroundExists ==
    ASSUME DdcInv, opts.presets # << >>, NEW i \in Int
    PROVE  Ddc!Around(i) \in DOMAIN opts.presets
<1>1. Len(opts.presets) \in Nat \ {0} /\ DOMAIN opts.presets = 1 .. Len(opts.presets)
  BY PresetsFit
<1> DEFINE n == Len(opts.presets)
<1>2. (i - 1) % n \in Int /\ 0 <= (i - 1) % n /\ (i - 1) % n < n
  <2>1. i - 1 \in Int /\ n \in Nat \ {0}
    BY <1>1
  <2> HIDE DEF n
  <2> QED
    BY <2>1, Remainder
<1>3. DOMAIN opts.presets = 1 .. n /\ n \in Int /\ Ddc!Around(i) = ((i - 1) % n) + 1
  BY <1>1 DEF Ddc!Around
<1>4. QED
  <2> HIDE DEF n
  <2> QED
    BY <1>2, <1>3

LEMMA DdcTypes == DdcInv => Ddc!TypeOK
  BY WordFacts DEF DdcInv, DdcPlaces, DdcNumbers, DdcFlags, Ddc!TypeOK, Values16

LEMMA DdcInit == Ddc!Init => DdcInv
<1> SUFFICES ASSUME Ddc!Init PROVE DdcInv
  OBVIOUS
<1> USE DEF Ddc!Init, Ddc!Blank
<1>1. DdcPlaces
  BY DEF DdcPlaces
<1>2. 0 \in Values16 /\ Values \subseteq Values16
  BY WordFacts, DdcAssumption DEF Values16
<1>3. DdcNumbers
  BY <1>2 DEF DdcNumbers
<1>4. DdcFlags
  BY DEF DdcFlags
<1>5. DdcWants
  BY DEF DdcWants
<1>6. QED
  BY <1>1, <1>3, <1>4, <1>5 DEF DdcInv

(* What is wanted is disturbed by nothing else. *)
LEMMA WantsStay ==
    ASSUME DdcWants, UNCHANGED <<opts, want, max, ci, unauthorized>>,
           at' = at \/ (/\ at \notin {"set br", "set cn", "failed"}
                        /\ at' \notin {"set br", "set cn", "open"})
    PROVE  DdcWants'
  BY DEF DdcWants

(* What changes around the module, and the steps that move it on. *)
LEMMA DdcAround ==
    ASSUME DdcInv, Ddc!MonitorChanges \/ Ddc!BarSignal PROVE DdcInv'
<1> USE DEF DdcInv, Ddc!MonitorChanges, Ddc!BarSignal, Ddc!vcpVars, Ddc!monitorVars
<1>1. DdcPlaces'
  BY DEF DdcPlaces
<1>2. DdcNumbers'
  BY DdcAssumption DEF DdcNumbers
<1>3. DdcFlags'
  <2>1. /\ UNCHANGED <<granted, ci, unauthorized, has, skip>>
        /\ stopped' = stopped \/ stopped' = ~stopped
    OBVIOUS
  <2>2. QED
    BY <2>1, Zenon DEF DdcFlags
<1>4. UNCHANGED <<at, opts, want, max, ci, unauthorized>>
  OBVIOUS
<1>5. DdcWants'
  BY <1>4, WantsStay
<1>6. QED
  BY <1>1, <1>2, <1>3, <1>5

LEMMA DdcMoves ==
    ASSUME DdcInv, \/ Ddc!Begin \/ Ddc!Polled \/ Ddc!Find \/ Ddc!LookFails
                   \/ Ddc!Open \/ Ddc!Update \/ Ddc!Wake
    PROVE  DdcInv'
<1> USE DEF DdcInv, Ddc!Begin, Ddc!Polled, Ddc!Find, Ddc!LookFails, Ddc!Open, Ddc!Update, Ddc!Wake,
            Ddc!vcpVars, Ddc!monitorVars
<1>1. DdcPlaces'
  BY DEF DdcPlaces
<1>2. DdcNumbers'
  BY DEF DdcNumbers
<1>3. DdcFlags'
  <2>1. CASE Ddc!Begin \/ Ddc!Polled \/ Ddc!Update \/ Ddc!Wake
    <3>1. UNCHANGED <<granted, stopped, ci, unauthorized, has, skip>>
      BY <2>1
    <3>2. QED
      BY <3>1, Zenon DEF DdcFlags
  <2>2. CASE Ddc!Find \/ Ddc!LookFails
    <3>1. UNCHANGED <<granted, stopped, ci, skip>> /\ unauthorized' = FALSE
      BY <2>2
    <3>2. has' = [v \in Ddc!VCPs |-> FALSE]
      BY <2>2
    <3>3. has' \in [Ddc!VCPs -> BOOLEAN]
      BY <3>2
    <3>4. QED
      BY <3>1, <3>3, Zenon DEF DdcFlags
  <2>3. CASE Ddc!Open
    <3>1. UNCHANGED <<granted, stopped, has, skip>>
      BY <2>3
    <3>2. ~unauthorized /\ ~ci
      BY <2>3 DEF DdcWants
    <3>3. \/ UNCHANGED <<ci, unauthorized>>
          \/ ci' = TRUE /\ unauthorized' = unauthorized
          \/ ci' = ci /\ unauthorized' = TRUE
      BY <2>3
    <3>4. CASE UNCHANGED <<ci, unauthorized>>
      BY <3>1, <3>4, Zenon DEF DdcFlags
    <3>5. CASE ci' = TRUE /\ unauthorized' = unauthorized
      BY <3>1, <3>2, <3>5, Zenon DEF DdcFlags
    <3>6. CASE ci' = ci /\ unauthorized' = TRUE
      BY <3>1, <3>2, <3>6, Zenon DEF DdcFlags
    <3>7. QED
      BY <3>3, <3>4, <3>5, <3>6
  <2>4. QED
    BY <2>1, <2>2, <2>3
<1>4. DdcWants'
  <2>1. /\ at \notin {"set br", "set cn", "failed"} /\ at' \notin {"set br", "set cn"}
        /\ UNCHANGED want
    OBVIOUS
  <2>2. at' = "open" => ~ci' /\ ~unauthorized'
    OBVIOUS
  <2>3. QED
    BY <2>1, <2>2 DEF DdcWants
<1>5. QED
  BY <1>1, <1>2, <1>3, <1>4

(* A read leaves what the monitor has said, and nothing is wanted. *)
LEMMA DdcPoll ==
    ASSUME DdcInv, NEW v \in Ddc!VCPs, Ddc!Poll(v) \/ Ddc!ReadGarbled(v)
    PROVE  DdcInv'
<1> USE DEF Ddc!After, Ddc!VCPs, Ddc!vcpVars, Ddc!monitorVars
<1>1. at = v /\ v \in {"br", "cn"} /\ at' \in {"cn", "find", "failed"}
  BY DEF Ddc!Poll, Ddc!ReadGarbled, Ddc!Skip, Ddc!Assume, Ddc!Read
<1>2. UNCHANGED <<opts, monitor, granted, real, stopped, unauthorized, want>> /\ (ci' = ci \/ ci' = FALSE)
  BY DEF Ddc!Poll, Ddc!ReadGarbled, Ddc!Skip, Ddc!Assume, Ddc!Read
<1>3. DdcPlaces'
  BY <1>1, <1>2 DEF DdcInv, DdcPlaces
<1>4. DdcWants'
  BY <1>1, <1>2 DEF DdcInv, DdcWants
<1>5. DdcFlags'
  <2>1. /\ has' \in {has, [has EXCEPT ![v] = TRUE], [has EXCEPT ![v] = v \in Supported]}
        /\ skip' \in {skip, [skip EXCEPT ![v] = FALSE]}
    BY DEF Ddc!Poll, Ddc!ReadGarbled, Ddc!Skip, Ddc!Assume, Ddc!Read
  <2>2. has' \in [Ddc!VCPs -> BOOLEAN]
    BY <2>1, (v \in Supported) \in BOOLEAN, Zenon DEF DdcInv, DdcFlags
  <2>3. skip' \in [Ddc!VCPs -> BOOLEAN]
    BY <2>1 DEF DdcInv, DdcFlags
  <2>4. QED
    <3>1. UNCHANGED granted /\ UNCHANGED stopped /\ UNCHANGED unauthorized
      BY <1>2
    <3>2. CASE ci' = ci
      BY <2>2, <2>3, <3>1, <3>2, Zenon DEF DdcInv, DdcFlags
    <3>3. CASE ci' = FALSE
      BY <2>2, <2>3, <3>1, <3>3, Zenon DEF DdcInv, DdcFlags
    <3>4. QED
      BY <1>2, <3>2, <3>3
<1>6. DdcNumbers'
  <2>1. 0 \in Values16 /\ real[v] \in Values16
    BY WordFacts DEF DdcInv, DdcNumbers, Values16
  <2>2. /\ cur' \in {cur, [cur EXCEPT ![v] = 0], [cur EXCEPT ![v] = real[v]]}
        /\ max' \in {max, [max EXCEPT ![v] = 0], [max EXCEPT ![v] = Top], [max EXCEPT ![v] = Ddc!Assumed]}
    BY DEF Ddc!Poll, Ddc!ReadGarbled, Ddc!Skip, Ddc!Assume, Ddc!Read
  <2>3. QED
    BY <1>2, <2>1, <2>2 DEF DdcInv, DdcNumbers
<1>7. QED
  BY <1>3, <1>4, <1>5, <1>6 DEF DdcInv

(* A step of the wheel stays in the range of what was read. *)
LEMMA StepsFit ==
    ASSUME DdcInv, NEW v \in Ddc!VCPs,
           NEW x \in {Ddc!Up(cur[v], max[v]), Ddc!Down(cur[v], max[v])}
    PROVE  x \in Values16 /\ x <= max[v]
<1>1. /\ cur[v] \in Int /\ 0 <= cur[v] /\ cur[v] < Ddc!Word
      /\ max[v] \in Int /\ 0 <= max[v] /\ max[v] < Ddc!Word
  BY WordFacts, DdcAssumption DEF DdcInv, DdcNumbers, Ddc!Assumed
<1>2. x \in Int /\ 0 <= x /\ x <= max[v]
  <2>1. CASE x = Ddc!Up(cur[v], max[v])
    <3> DEFINE d == IF cur[v] < 20 THEN 1 ELSE IF cur[v] < 50 THEN 2 ELSE 5
               y == (cur[v] + d) % Ddc!Word
    <3>1. y \in Int /\ 0 <= y
      <4>1. cur[v] + d \in Int /\ Ddc!Word \in Nat \ {0}
        BY <1>1, WordFacts
      <4> HIDE DEF d
      <4>2. QED
        BY <4>1, Remainder
    <3>2. x = IF y > max[v] THEN max[v] ELSE y
      BY <2>1 DEF Ddc!Up
    <3> HIDE DEF y
    <3>3. QED
      BY <1>1, <3>1, <3>2
  <2>2. CASE x = Ddc!Down(cur[v], max[v])
    <3> DEFINE d == IF cur[v] > 50 THEN 5 ELSE IF cur[v] > 20 THEN 2 ELSE 1
               y == (cur[v] - d) % Ddc!Word
    <3>1. y \in Int /\ 0 <= y
      <4>1. cur[v] - d \in Int /\ Ddc!Word \in Nat \ {0}
        BY <1>1, WordFacts
      <4> HIDE DEF d
      <4>2. QED
        BY <4>1, Remainder
    <3>2. x = IF y > max[v] THEN 0 ELSE y
      BY <2>2 DEF Ddc!Down
    <3> HIDE DEF y
    <3>3. QED
      BY <1>1, <3>1, <3>2
  <2>3. QED
    BY <2>1, <2>2
<1>3. QED
  BY <1>1, <1>2, WordFacts DEF Values16

(* A click asks for a preset, or for a step. *)
LEMMA DdcClicks ==
    ASSUME DdcInv,
           \/ Ddc!ClickUnauthorized \/ Ddc!ClickPreset(1) \/ Ddc!ClickPreset(-1)
           \/ \E v \in Ddc!VCPs : \E x \in {Ddc!Up(cur[v], max[v]), Ddc!Down(cur[v], max[v])} :
                Ddc!ClickStep(v, x)
    PROVE  DdcInv'
<1> USE DEF DdcInv, Ddc!Click, Ddc!vcpVars, Ddc!monitorVars
<1>1. CASE Ddc!ClickUnauthorized
  <2> USE DEF Ddc!ClickUnauthorized
  <2>1. DdcPlaces' /\ DdcNumbers'
    BY <1>1 DEF DdcPlaces, DdcNumbers
  <2>2. DdcWants'
    BY <1>1 DEF DdcWants
  <2>3. UNCHANGED <<stopped, ci, unauthorized, has, skip>> /\ (granted' = granted \/ granted' = TRUE)
    BY <1>1
  <2>4. DdcFlags'
    BY <2>3, Zenon DEF DdcFlags
  <2>5. QED
    BY <2>1, <2>2, <2>4
<1>2. ASSUME NEW s \in Int, Ddc!ClickPreset(s) PROVE DdcInv'
  <2> USE DEF Ddc!ClickPreset
  <2>1. DdcPlaces'
    BY <1>2 DEF DdcPlaces
  <2>2. PICK i \in DOMAIN opts.presets :
          want' = [v \in Ddc!VCPs |-> IF has[v] THEN opts.presets[i][v] ELSE NoValue]
    <3> DEFINE i == IF Ddc!Current # 0 THEN Ddc!Around(Ddc!Current + s) ELSE Ddc!Closest
    <3>1. Ddc!Current + s \in Int
      BY CurrentMoves, Zenon
    <3>2. i \in DOMAIN opts.presets
      BY <1>2, <3>1, AroundExists, ClosestExists
    <3>3. want' = [v \in Ddc!VCPs |-> IF has[v] THEN opts.presets[i][v] ELSE NoValue]
      BY <1>2
    <3> HIDE DEF i
    <3>4. QED
      BY <3>2, <3>3
  <2>3. UNCHANGED <<opts, real, cur, max>>
    BY <1>2
  <2>4. DdcNumbers'
    <3>1. \A v \in Ddc!VCPs : want'[v] \in Values16 \cup {NoValue}
      BY <2>2, PresetsFit
    <3>2. want' \in [Ddc!VCPs -> Values16 \cup {NoValue}]
      BY <2>2, <3>1
    <3>3. QED
      BY <2>3, <3>2 DEF DdcNumbers
  <2>5. DdcWants'
    <3>1. at' = "set br"
      BY <1>2
    <3>2. \A v \in Ddc!VCPs : want'[v] = NoValue \/ want'[v] = opts.presets[i][v]
      BY <2>2
    <3>3. QED
      BY <2>2, <2>3, <3>1, <3>2 DEF DdcWants
  <2>6. UNCHANGED <<granted, stopped, ci, unauthorized, has, skip>>
    BY <1>2
  <2>7. DdcFlags'
    BY <2>6, Zenon DEF DdcFlags
  <2>8. QED
    BY <2>1, <2>4, <2>5, <2>7
<1>3. ASSUME NEW v \in Ddc!VCPs,
             NEW x \in {Ddc!Up(cur[v], max[v]), Ddc!Down(cur[v], max[v])}, Ddc!ClickStep(v, x)
      PROVE  DdcInv'
  <2> USE DEF Ddc!ClickStep
  <2>1. DdcPlaces'
    BY <1>3 DEF DdcPlaces
  <2>2. x \in Values16 /\ x <= max[v]
    BY StepsFit
  <2>3. UNCHANGED <<opts, real, cur, max>> /\ want' = [want EXCEPT ![v] = x]
    BY <1>3
  <2>4. DdcNumbers'
    BY <2>2, <2>3 DEF DdcNumbers
  <2>5. DdcWants'
    <3>1. at' = "set br" /\ \A w \in Ddc!VCPs : want[w] = NoValue
      BY <1>3 DEF DdcWants
    <3>2. \A w \in Ddc!VCPs : want'[w] = NoValue \/ (w = v /\ want'[w] = x)
      BY <2>3, <3>1 DEF DdcNumbers
    <3>3. QED
      BY <2>2, <2>3, <3>1, <3>2 DEF DdcWants
  <2>6. UNCHANGED <<granted, stopped, ci, unauthorized, has, skip>>
    BY <1>3
  <2>7. DdcFlags'
    BY <2>6, Zenon DEF DdcFlags
  <2>8. QED
    BY <2>1, <2>4, <2>5, <2>7
<1>4. QED
  BY <1>1, <1>2, <1>3

LEMMA FlagsStay ==
    ASSUME DdcFlags, UNCHANGED <<granted, stopped, ci, unauthorized, has>>,
           skip' \in [Ddc!VCPs -> BOOLEAN]
    PROVE  DdcFlags'
  BY Zenon DEF DdcFlags

LEMMA DdcSet ==
    ASSUME DdcInv, NEW v \in Ddc!VCPs, Ddc!Set(v) \/ Ddc!SetFails(v) PROVE DdcInv'
<1> USE DEF DdcInv, Ddc!vcpVars, Ddc!monitorVars, Ddc!SetFails, Ddc!Set, Ddc!SetAt, Ddc!AfterSet
<1>1. DdcPlaces'
  BY DEF DdcPlaces
<1>2. UNCHANGED <<opts, max, unauthorized, granted, stopped, has>> /\ (ci' = ci \/ ci' = FALSE)
  OBVIOUS
<1>3. want' = [want EXCEPT ![v] = NoValue]
  OBVIOUS
<1>4. /\ real' = real \/ (want[v] # NoValue /\ real' = [real EXCEPT ![v] = want[v]])
      /\ cur' = cur \/ (want[v] # NoValue /\ cur' = [cur EXCEPT ![v] = want[v]])
      /\ skip' = skip \/ skip' = [skip EXCEPT ![v] = TRUE]
  OBVIOUS
<1>5. DdcNumbers'
  <2>1. want' \in [Ddc!VCPs -> Values16 \cup {NoValue}]
    BY <1>3 DEF DdcNumbers
  <2>2. want[v] # NoValue => want[v] \in Values16
    BY DEF DdcNumbers
  <2>3. real' \in [Ddc!VCPs -> Values16] /\ cur' \in [Ddc!VCPs -> Values16]
    BY <1>4, <2>2 DEF DdcNumbers
  <2>4. QED
    BY <1>2, <2>1, <2>3 DEF DdcNumbers
<1>6. DdcFlags'
  <2>1. skip' \in [Ddc!VCPs -> BOOLEAN]
    BY <1>4, Zenon DEF DdcFlags
  <2>2. UNCHANGED unauthorized /\ UNCHANGED granted /\ UNCHANGED stopped /\ UNCHANGED has
    BY <1>2
  <2>3. CASE ci' = ci
    <3>1. UNCHANGED <<granted, stopped, ci, unauthorized, has>>
      BY <2>2, <2>3
    <3>2. QED
      BY <2>1, <3>1, FlagsStay, Zenon
  <2>4. CASE ci' = FALSE
    BY <2>1, <2>2, <2>4, Zenon DEF DdcFlags
  <2>5. QED
    BY <1>2, <2>3, <2>4
<1>7. DdcWants'
  <2>1. CASE v = "br"
    <3>1. at = "set br" /\ at' \in {"failed", "set cn"} /\ want'["br"] = NoValue
      BY <1>3, <2>1 DEF DdcNumbers, Ddc!VCPs
    <3>2. \A w \in Ddc!VCPs : want'[w] = NoValue \/ want'[w] = want[w]
      BY <1>3 DEF DdcNumbers
    <3>3. QED
      BY <1>2, <3>1, <3>2 DEF DdcWants
  <2>2. CASE v = "cn"
    <3>1. at = "set cn" /\ at' \in {"failed", "top"}
      BY <2>2 DEF Ddc!VCPs
    <3>2. \A w \in Ddc!VCPs : want'[w] = NoValue
      <4>1. want["br"] = NoValue
        BY <3>1 DEF DdcWants
      <4>2. QED
        BY <1>3, <2>2, <4>1 DEF DdcNumbers, Ddc!VCPs
    <3>3. QED
      BY <1>2, <3>1, <3>2 DEF DdcWants
  <2>3. QED
    BY <2>1, <2>2 DEF Ddc!VCPs
<1>8. QED
  BY <1>1, <1>5, <1>6, <1>7

LEMMA DdcStep ==
    DdcInv /\ [Ddc!Next]_Ddc!vars => DdcInv'
<1>1. SUFFICES ASSUME DdcInv, [Ddc!Next]_Ddc!vars PROVE DdcInv'
  OBVIOUS
<1>2. CASE Ddc!Next
  <2>1. CASE Ddc!MonitorChanges \/ Ddc!BarSignal
    BY <1>1, <2>1, DdcAround
  <2>2. CASE \/ Ddc!Begin \/ Ddc!Polled \/ Ddc!Find \/ Ddc!LookFails
             \/ Ddc!Open \/ Ddc!Update \/ Ddc!Wake
    BY <1>1, <2>2, DdcMoves
  <2>3. ASSUME NEW v \in Ddc!VCPs, Ddc!Poll(v) \/ Ddc!ReadGarbled(v) PROVE DdcInv'
    BY <1>1, <2>3, DdcPoll
  <2>4. ASSUME NEW v \in Ddc!VCPs, Ddc!Set(v) \/ Ddc!SetFails(v) PROVE DdcInv'
    BY <1>1, <2>4, DdcSet
  <2>5. ASSUME NEW v \in Ddc!VCPs,
               \/ Ddc!ClickStep(v, Ddc!Up(cur[v], max[v]))
               \/ Ddc!ClickStep(v, Ddc!Down(cur[v], max[v]))
        PROVE  DdcInv'
    <3>1. \E x \in {Ddc!Up(cur[v], max[v]), Ddc!Down(cur[v], max[v])} : Ddc!ClickStep(v, x)
      BY <2>5, Zenon
    <3>2. QED
      BY <1>1, <3>1, DdcClicks, Zenon
  <2>6. CASE Ddc!ClickUnauthorized \/ Ddc!ClickPreset(1) \/ Ddc!ClickPreset(-1)
    BY <1>1, <2>6, DdcClicks, Zenon
  <2>7. QED
    BY <1>2, <2>1, <2>2, <2>3, <2>4, <2>5, <2>6, Zenon DEF Ddc!Next, Ddc!Round
<1>3. CASE UNCHANGED Ddc!vars
  <2> USE DEF Ddc!vars, Ddc!monitorVars, Ddc!vcpVars
  <2>1. DdcPlaces' /\ DdcNumbers'
    BY <1>1, <1>3 DEF DdcInv, DdcPlaces, DdcNumbers
  <2>2. DdcFlags'
    BY <1>1, <1>3, Zenon DEF DdcInv, DdcFlags
  <2>3. DdcWants'
    BY <1>1, <1>3, WantsStay DEF DdcInv
  <2>4. QED
    BY <2>1, <2>2, <2>3 DEF DdcInv
<1>4. QED
  BY <1>1, <1>2, <1>3

LEMMA DdcSafe == DdcInv => Ddc!StepsStayInRange
  BY DEF DdcInv, DdcWants, Ddc!StepsStayInRange

-----------------------------------------------------------------------------
(* The CMUS module.                                                        *)

(* What is waiting in two queues, the first of which is taken from. *)
LEMMA QueuesTake ==
    ASSUME NEW S, NEW c \in Seq(S), NEW w \in Seq(S), c # << >>
    PROVE  /\ Tail(c) \o w = Tail(c \o w) /\ c \o w \in Seq(S) /\ c \o w # << >>
           /\ Head(c) = (c \o w)[1] /\ Tail(c) \in Seq(S) /\ Len(Tail(c)) = Len(c) - 1
<1>1. /\ c \o w \in Seq(S) /\ Len(c \o w) = Len(c) + Len(w)
      /\ \A i \in 1 .. Len(c) + Len(w) :
            (c \o w)[i] = IF i <= Len(c) THEN c[i] ELSE w[i - Len(c)]
  BY ConcatProperties
<1>2. Len(c) \in Nat /\ Len(c) >= 1 /\ Len(w) \in Nat
  BY EmptySeq, LenProperties
<1>3. c \o w # << >>
  BY <1>1, <1>2
<1>4. Head(c) = (c \o w)[1]
  BY <1>1, <1>2
<1>5. /\ Tail(c) \in Seq(S) /\ Len(Tail(c)) = Len(c) - 1
      /\ \A i \in 1 .. Len(Tail(c)) : Tail(c)[i] = c[i + 1]
  BY HeadTailProperties
<1>6. /\ Tail(c) \o w \in Seq(S) /\ Len(Tail(c) \o w) = Len(Tail(c)) + Len(w)
      /\ \A i \in 1 .. Len(Tail(c)) + Len(w) :
            (Tail(c) \o w)[i] = IF i <= Len(Tail(c)) THEN Tail(c)[i] ELSE w[i - Len(Tail(c))]
  BY <1>5, ConcatProperties
<1>7. /\ Tail(c \o w) \in Seq(S) /\ Len(Tail(c \o w)) = Len(c \o w) - 1
      /\ \A i \in 1 .. Len(Tail(c \o w)) : Tail(c \o w)[i] = (c \o w)[i + 1]
  BY <1>1, <1>3, HeadTailProperties
<1>8. Tail(c) \o w = Tail(c \o w)
  <2> DEFINE s == Tail(c) \o w
             t == Tail(c \o w)
  <2>1. s \in Seq(S) /\ t \in Seq(S) /\ Len(s) = Len(t) /\ Len(s) = Len(c) - 1 + Len(w)
    BY <1>1, <1>2, <1>5, <1>6, <1>7
  <2>2. ASSUME NEW i \in 1 .. Len(s) PROVE s[i] = t[i]
    <3>1. i \in Int /\ 1 <= i /\ i <= Len(c) - 1 + Len(w)
      BY <1>2, <2>1
    <3>2. t[i] = (c \o w)[i + 1]
      BY <1>2, <1>7, <2>1, <3>1
    <3>3. CASE i <= Len(c) - 1
      <4>1. s[i] = c[i + 1]
        BY <1>2, <1>5, <1>6, <3>1, <3>3
      <4>2. (c \o w)[i + 1] = c[i + 1]
        BY <1>1, <1>2, <3>1, <3>3
      <4>3. QED
        BY <3>2, <4>1, <4>2
    <3>4. CASE i > Len(c) - 1
      <4>1. s[i] = w[i - (Len(c) - 1)]
        BY <1>2, <1>5, <1>6, <3>1, <3>4
      <4>2. (c \o w)[i + 1] = w[(i + 1) - Len(c)]
        BY <1>1, <1>2, <3>1, <3>4
      <4>3. (i + 1) - Len(c) = i - (Len(c) - 1)
        BY <1>2, <3>1
      <4>4. QED
        BY <3>2, <4>1, <4>2, <4>3
    <3>5. QED
      BY <1>2, <3>1, <3>3, <3>4
  <2>3. QED
    <3> HIDE DEF s, t
    <3>1. QED
      BY <2>1, <2>2, SeqEqual
<1>9. QED
  BY <1>1, <1>3, <1>4, <1>5, <1>8

(* The first of the second queue goes to the end of the first. *)
LEMMA QueuesPass ==
    ASSUME NEW S, NEW c \in Seq(S), NEW w \in Seq(S), w # << >>
    PROVE  /\ Append(c, Head(w)) \o Tail(w) = c \o w
           /\ Append(c, Head(w)) \in Seq(S) /\ Tail(w) \in Seq(S)
           /\ Len(Append(c, Head(w))) = Len(c) + 1
<1>1. Head(w) \in S /\ Tail(w) \in Seq(S)
  BY HeadTailProperties
<1>2. /\ <<Head(w)>> \in Seq(S) /\ Append(c, Head(w)) = c \o <<Head(w)>>
      /\ Append(c, Head(w)) \in Seq(S) /\ Len(Append(c, Head(w))) = Len(c) + 1
  BY <1>1, AppendProperties, AppendIsConcat
<1>3. (c \o <<Head(w)>>) \o Tail(w) = c \o (<<Head(w)>> \o Tail(w))
  BY <1>1, <1>2, ConcatAssociative
<1>4. <<Head(w)>> \o Tail(w) = w
  BY <1>1, <1>2, HeadTailAppend
<1>5. QED
  BY <1>1, <1>2, <1>3, <1>4

(* One more at the end of the second. *)
LEMMA QueuesAdd ==
    ASSUME NEW S, NEW c \in Seq(S), NEW w \in Seq(S), NEW x \in S
    PROVE  /\ c \o Append(w, x) = Append(c \o w, x)
           /\ Append(w, x) \in Seq(S) /\ c \o w \in Seq(S)
<1>1. /\ <<x>> \in Seq(S) /\ Append(w, x) = w \o <<x>> /\ Append(w, x) \in Seq(S)
      /\ c \o w \in Seq(S)
  BY AppendProperties, AppendIsConcat, ConcatProperties
<1>2. Append(c \o w, x) = (c \o w) \o <<x>>
  BY <1>1, AppendIsConcat
<1>3. QED
  BY <1>1, <1>2, ConcatAssociative

(* The positions of a queue of signals after which there is a player: it starts
   with (has), ends with (running), and no seek comes without. *)
Played(q, A, object, up) ==
    /\ A \subseteq 0 .. Len(q)
    /\ 0 \in A <=> object = TRUE
    /\ Len(q) \in A <=> up = TRUE
    /\ \A i \in 1 .. Len(q) :
         /\ q[i].kind = "owner" => (i \in A <=> q[i].up = TRUE)
         /\ q[i].kind # "owner" => (i \in A <=> i - 1 \in A)
         /\ q[i].kind = "seeked" => i - 1 \in A

(* The queue of a player that is there already, and of none. *)
LEMMA PlayedFirst ==
    ASSUME NEW sig, sig.kind = "owner", sig.up = TRUE, NEW object, object # TRUE
    PROVE  Played(<<sig>>, {1}, object, TRUE) /\ Played(<< >>, {}, object, FALSE)
<1> DEFINE q == <<sig>>
<1>1. Len(q) = 1 /\ q[1] = sig
  OBVIOUS
<1>2. ASSUME NEW i \in 1 .. 1 PROVE i = 1
  OBVIOUS
<1>3. {1} \subseteq 0 .. 1 /\ 0 \notin {1}
  OBVIOUS
<1>4. Played(q, {1}, object, TRUE)
  <2> HIDE DEF q
  <2>1. QED
    BY <1>1, <1>2, <1>3 DEF Played
<1>5. Played(<< >>, {}, object, FALSE)
  <2>1. Len(<< >>) = 0 /\ {} \subseteq 0 .. 0 /\ 0 \notin {} /\ 1 .. 0 = {}
    OBVIOUS
  <2>2. QED
    BY <2>1, Zenon DEF Played
<1>6. QED
  BY <1>4, <1>5

(* A signal that is sent. *)
LEMMA PlayedOn ==
    ASSUME NEW q \in Seq(Cmus!Signals), NEW A, NEW object, NEW up, Played(q, A, object, up),
           NEW sig \in Cmus!Signals, NEW after,
           sig.kind = "owner" => after = sig.up,
           sig.kind # "owner" => after = up,
           sig.kind = "seeked" => up = TRUE
    PROVE  \E B : Played(Append(q, sig), B, object, after)
<1> DEFINE n == Len(q)
           t == Append(q, sig)
           B == IF after = TRUE THEN A \cup {n + 1} ELSE A
<1>1. /\ n \in Nat /\ Len(t) = n + 1 /\ t[n + 1] = sig
      /\ \A i \in 1 .. n : t[i] = q[i]
  BY AppendProperties, LenProperties
<1>2. /\ B \subseteq 0 .. n + 1 /\ (n + 1 \in B <=> after = TRUE)
      /\ \A i \in 0 .. n : i \in B <=> i \in A
  <2>1. A \subseteq 0 .. n /\ n + 1 \notin A
    BY <1>1 DEF Played
  <2>2. CASE after = TRUE
    <3>1. B = A \cup {n + 1}
      BY <2>2
    <3> HIDE DEF B
    <3>2. B \subseteq 0 .. n + 1
      <4>1. 0 .. n \subseteq 0 .. n + 1 /\ n + 1 \in 0 .. n + 1
        BY <1>1
      <4>2. QED
        BY <2>1, <3>1, <4>1, Zenon
    <3>3. n + 1 \in B <=> after = TRUE
      BY <2>1, <2>2, <3>1
    <3>4. \A i \in 0 .. n : i # n + 1
      BY <1>1
    <3>5. QED
      BY <3>1, <3>2, <3>3, <3>4
  <2>3. CASE after # TRUE
    <3>1. B = A
      BY <2>3
    <3> HIDE DEF B
    <3>2. B \subseteq 0 .. n + 1
      BY <1>1, <2>1, <3>1
    <3>3. n + 1 \in B <=> after = TRUE
      BY <2>1, <2>3, <3>1
    <3>4. \A i \in 0 .. n : i # n + 1
      BY <1>1
    <3>5. QED
      BY <3>1, <3>2, <3>3, <3>4
  <2>4. QED
    BY <2>2, <2>3
<1>3. 0 \in B <=> object = TRUE
  BY <1>1, <1>2 DEF Played
<1>4. ASSUME NEW i \in 1 .. n + 1
      PROVE  /\ t[i].kind = "owner" => (i \in B <=> t[i].up = TRUE)
             /\ t[i].kind # "owner" => (i \in B <=> i - 1 \in B)
             /\ t[i].kind = "seeked" => i - 1 \in B
  <2>0. i <= n \/ i = n + 1
    BY <1>1
  <2> HIDE DEF B, t
  <2>1. CASE i <= n
    <3>1. i \in 1 .. n /\ i - 1 \in 0 .. n /\ i \in 0 .. n
      BY <1>1, <2>1
    <3>2. t[i] = q[i] /\ (i \in B <=> i \in A) /\ (i - 1 \in B <=> i - 1 \in A)
      BY <1>1, <1>2, <3>1
    <3>3. QED
      BY <3>1, <3>2 DEF Played
  <2>2. CASE i = n + 1
    <3>1. t[i] = sig /\ i - 1 = n /\ n \in 0 .. n
      BY <1>1, <2>2
    <3>2. (i \in B <=> after = TRUE) /\ (i - 1 \in B <=> up = TRUE)
      BY <1>2, <2>2, <3>1 DEF Played
    <3>3. QED
      BY <3>1, <3>2
  <2>3. QED
    BY <2>0, <2>1, <2>2
<1>5. QED
  <2> HIDE DEF B, t, n
  <2>1. Played(t, B, object, after)
    BY <1>1, <1>2, <1>3, <1>4 DEF Played
  <2>2. QED
    BY <2>1 DEF t

(* A signal that is taken. *)
LEMMA PlayedOff ==
    ASSUME NEW q \in Seq(Cmus!Signals), NEW A, NEW object, NEW up, Played(q, A, object, up),
           q # << >>, NEW after,
           q[1].kind = "owner" => after = q[1].up,
           q[1].kind # "owner" => after = object
    PROVE  /\ \E B : Played(Tail(q), B, after, up)
           /\ q[1].kind = "seeked" => object = TRUE
<1> DEFINE n == Len(q)
           t == Tail(q)
           B == {i \in 0 .. n - 1 : i + 1 \in A}
<1>1. /\ n \in Nat \ {0} /\ Len(t) = n - 1
      /\ \A i \in 1 .. n - 1 : t[i] = q[i + 1]
  BY EmptySeq, HeadTailProperties
<1>2. 1 \in A <=> after = TRUE
  BY <1>1 DEF Played
<1>3. q[1].kind = "seeked" => object = TRUE
  BY <1>1 DEF Played
<1>4. (0 \in B <=> after = TRUE) /\ (n - 1 \in B <=> up = TRUE)
  BY <1>1, <1>2 DEF Played
<1>5. ASSUME NEW i \in 1 .. n - 1
      PROVE  /\ t[i].kind = "owner" => (i \in B <=> t[i].up = TRUE)
             /\ t[i].kind # "owner" => (i \in B <=> i - 1 \in B)
             /\ t[i].kind = "seeked" => i - 1 \in B
  <2>1. i + 1 \in 1 .. n /\ (i + 1) - 1 = (i - 1) + 1 /\ t[i] = q[i + 1]
    BY <1>1
  <2>2. (i \in B <=> i + 1 \in A) /\ (i - 1 \in B <=> (i + 1) - 1 \in A)
    BY <1>1
  <2> HIDE DEF B, t
  <2>3. QED
    BY <2>1, <2>2 DEF Played
<1>6. QED
  <2>1. B \subseteq 0 .. n - 1
    OBVIOUS
  <2>2. Len(t) = n - 1
    BY <1>1
  <2> HIDE DEF B, t, n
  <2>3. /\ B \subseteq 0 .. Len(t) /\ (0 \in B <=> after = TRUE) /\ (Len(t) \in B <=> up = TRUE)
    BY <1>4, <2>1, <2>2, Zenon
  <2>4. \A i \in 1 .. Len(t) :
           /\ t[i].kind = "owner" => (i \in B <=> t[i].up = TRUE)
           /\ t[i].kind # "owner" => (i \in B <=> i - 1 \in B)
           /\ t[i].kind = "seeked" => i - 1 \in B
    BY <1>5, <2>2
  <2>5. Played(t, B, after, up)
    BY <2>3, <2>4, Zenon DEF Played
  <2>6. QED
    BY <1>3, <2>5 DEF t

(* Without a lost signal, the signals that wait lead from the state to the
   player, and no seek comes without a player. *)
CmusOrder ==
    /\ at \in {"list", "register"} => ~registered /\ state = Cmus!NoPlayer
    /\ at = "panic" => missed
    /\ ~missed /\ at # "list" => \E A : Played(ch \o wire, A, state.object, running)

CmusPlaces ==
    /\ status \in Cmus!Statuses /\ volume \in 0 .. 100
    /\ wire \in Seq(Cmus!Signals) /\ ch \in Seq(Cmus!Signals) /\ Len(ch) <= CmusCap
    /\ at \in {"list", "register", "render", "select", "fetch status", "fetch volume",
               "fetch position", "set volume", "failed", "panic"}
    /\ state \in [object : BOOLEAN, status : Cmus!Statuses \cup {""}, volume : 0 .. 100]
    /\ view \in Nat /\ vol \in 0 .. 100

CmusFlags ==
    /\ running \in BOOLEAN /\ registered \in BOOLEAN
    /\ missed \in BOOLEAN /\ ticking \in BOOLEAN

CmusInv == CmusPlaces /\ CmusFlags /\ CmusOrder

LEMMA CmusTypes == CmusInv => Cmus!TypeOK
  BY DEF CmusInv, CmusPlaces, CmusFlags, Cmus!TypeOK

LEMMA CmusInit == Cmus!Init => CmusInv
<1> SUFFICES ASSUME Cmus!Init PROVE CmusInv
  OBVIOUS
<1> USE DEF Cmus!Init
<1>1. << >> \in Seq(Cmus!Signals) /\ Len(<< >>) = 0
  BY EmptySeq
<1>2. Cmus!NoPlayer \in [object : BOOLEAN, status : Cmus!Statuses \cup {""}, volume : 0 .. 100]
  <2>1. FALSE \in BOOLEAN /\ "" \in Cmus!Statuses \cup {""} /\ 0 \in 0 .. 100
    OBVIOUS
  <2>2. QED
    BY <2>1, Zenon DEF Cmus!NoPlayer
<1>3. CmusPlaces
  <2>1. /\ status \in Cmus!Statuses /\ volume \in 0 .. 100 /\ at = "list"
        /\ Len(ch) <= CmusCap /\ view \in Nat /\ vol \in 0 .. 100
    BY <1>1, CmusAssumption DEF Cmus!Statuses
  <2>2. QED
    BY <1>1, <1>2, <2>1, Zenon DEF CmusPlaces
<1>4. CmusFlags
  BY DEF CmusFlags
<1>5. CmusOrder
  BY DEF CmusOrder
<1>6. QED
  BY <1>3, <1>4, <1>5 DEF CmusInv

(* The player sends a signal of what has happened to it. *)
LEMMA CmusSends ==
    ASSUME CmusOrder, CmusPlaces, NEW sig \in Cmus!Signals,
           wire' = Append(wire, sig), UNCHANGED <<registered, ch, missed, state>>,
           UNCHANGED at \/ {at, at'} \cap {"list", "register", "panic"} = {},
           sig.kind = "owner" => running' = sig.up,
           sig.kind # "owner" => running' = running,
           sig.kind = "seeked" => running = TRUE
    PROVE  CmusOrder' /\ wire' \in Seq(Cmus!Signals)
<1>1. /\ ch \o wire \in Seq(Cmus!Signals) /\ ch' \o wire' = Append(ch \o wire, sig)
      /\ wire' \in Seq(Cmus!Signals)
  <2>1. ch \in Seq(Cmus!Signals) /\ wire \in Seq(Cmus!Signals)
    BY DEF CmusPlaces
  <2>2. /\ ch \o Append(wire, sig) = Append(ch \o wire, sig)
        /\ Append(wire, sig) \in Seq(Cmus!Signals) /\ ch \o wire \in Seq(Cmus!Signals)
    BY <2>1, QueuesAdd
  <2>3. QED
    BY <2>2
<1>2. ASSUME ~missed, at # "list"
      PROVE  \E B : Played(ch' \o wire', B, state.object, running')
  <2>1. PICK A : Played(ch \o wire, A, state.object, running)
    BY <1>2 DEF CmusOrder
  <2> DEFINE q == ch \o wire
             up == running
             after == running'
             obj == state.object
  <2>2. /\ q \in Seq(Cmus!Signals) /\ Played(q, A, obj, up)
        /\ (sig.kind = "owner" => after = sig.up) /\ (sig.kind # "owner" => after = up)
        /\ (sig.kind = "seeked" => up = TRUE)
    BY <1>1, <2>1
  <2>3. \E B : Played(Append(q, sig), B, obj, after)
    <3> HIDE DEF q, up, after, obj
    <3>1. QED
      BY <2>2, PlayedOn
  <2>4. QED
    BY <1>1, <2>3
<1>3. QED
  BY <1>1, <1>2 DEF CmusOrder

(* What a signal can say. *)
LEMMA SignalFields ==
    /\ \A up \in BOOLEAN : [kind |-> "owner", up |-> up] \in Cmus!Signals
    /\ \A s \in Cmus!Statuses : [kind |-> "status", status |-> s] \in Cmus!Signals
    /\ \A v \in 0 .. 100 : [kind |-> "volume", volume |-> v] \in Cmus!Signals
    /\ [kind |-> "seeked"] \in Cmus!Signals
    /\ \A sig \in Cmus!Signals :
         /\ sig.kind \in {"owner", "status", "volume", "seeked"}
         /\ sig.kind = "owner" => sig.up \in BOOLEAN
         /\ sig.kind = "status" => sig.status \in Cmus!Statuses
         /\ sig.kind = "volume" => sig.volume \in 0 .. 100
  BY DEF Cmus!Signals

(* The steps that leave the queues and the object as they are. *)
LEMMA CmusRests ==
    ASSUME CmusOrder, UNCHANGED <<wire, ch, running, registered>>, missed' = missed,
           state'.object = state.object,
           at \notin {"list", "register"},
           at' \notin {"list", "register", "panic"} \/ UNCHANGED at
    PROVE  CmusOrder'
<1>1. at' # "list" /\ at' # "register"
  OBVIOUS
<1>2. ~missed' => \E A : Played(ch' \o wire', A, state'.object, running')
  BY DEF CmusOrder
<1>3. at' = "panic" => missed'
  BY DEF CmusOrder
<1>4. QED
  BY <1>1, <1>2, <1>3 DEF CmusOrder

LEMMA CmusPlayer ==
    ASSUME CmusInv, Cmus!PlayerStarts \/ Cmus!PlayerQuits \/ Cmus!PlayerChanges
    PROVE  CmusInv'
<1> USE DEF CmusInv, Cmus!PlayerStarts, Cmus!PlayerQuits, Cmus!PlayerChanges, Cmus!Send
<1>1. PICK sig \in Cmus!Signals :
        /\ wire' = Append(wire, sig)
        /\ sig.kind = "owner" => running' = sig.up
        /\ sig.kind # "owner" => running' = running
        /\ sig.kind = "seeked" => running = TRUE
  <2>1. CASE Cmus!PlayerStarts
    <3> DEFINE s == [kind |-> "owner", up |-> TRUE]
    <3>1. s \in Cmus!Signals /\ s.kind = "owner" /\ s.up = TRUE
      BY SignalFields
    <3>2. wire' = Append(wire, s) /\ running' = TRUE
      BY <2>1
    <3> HIDE DEF s
    <3>3. QED
      BY <3>1, <3>2
  <2>2. CASE Cmus!PlayerQuits
    <3> DEFINE s == [kind |-> "owner", up |-> FALSE]
    <3>1. s \in Cmus!Signals /\ s.kind = "owner" /\ s.up = FALSE
      BY SignalFields
    <3>2. wire' = Append(wire, s) /\ running' = FALSE
      BY <2>2
    <3> HIDE DEF s
    <3>3. QED
      BY <3>1, <3>2
  <2>3. CASE Cmus!PlayerChanges
    <3>1. running' = running /\ running = TRUE
      BY <2>3 DEF CmusFlags
    <3>2. \E s \in Cmus!Signals : wire' = Append(wire, s) /\ s.kind # "owner"
      <4>1. CASE wire' = Append(wire, [kind |-> "status", status |-> status'])
                 /\ status' \in Cmus!Statuses
        <5> DEFINE s == [kind |-> "status", status |-> status']
        <5>1. s \in Cmus!Signals /\ s.kind = "status"
          BY <4>1, SignalFields
        <5>2. QED
          BY <4>1, <5>1
      <4>2. CASE wire' = Append(wire, [kind |-> "volume", volume |-> volume'])
                 /\ volume' \in Volumes
        <5> DEFINE s == [kind |-> "volume", volume |-> volume']
        <5>1. s \in Cmus!Signals /\ s.kind = "volume"
          BY <4>2, SignalFields, CmusAssumption
        <5>2. QED
          BY <4>2, <5>1
      <4>3. CASE wire' = Append(wire, [kind |-> "seeked"])
        <5> DEFINE s == [kind |-> "seeked"]
        <5>1. s \in Cmus!Signals /\ s.kind = "seeked"
          BY SignalFields
        <5>2. QED
          BY <4>3, <5>1
      <4>4. QED
        BY <2>3, <4>1, <4>2, <4>3
    <3>3. QED
      BY <3>1, <3>2
  <2>4. QED
    BY <2>1, <2>2, <2>3
<1>2. UNCHANGED <<registered, ch, missed, at, state>>
  OBVIOUS
<1>3. CmusOrder' /\ wire' \in Seq(Cmus!Signals)
  BY <1>1, <1>2, CmusSends, Zenon
<1>4. CmusPlaces'
  <2>1. UNCHANGED <<ch, at, state, view, vol>>
    OBVIOUS
  <2>2. status' \in Cmus!Statuses /\ volume' \in 0 .. 100
    BY CmusAssumption DEF CmusPlaces, Cmus!Statuses
  <2>3. QED
    BY <1>3, <2>1, <2>2 DEF CmusPlaces
<1>5. CmusFlags'
  <2>1. UNCHANGED <<registered, missed, ticking>>
    OBVIOUS
  <2>2. running' = TRUE \/ running' = FALSE \/ running' = running
    OBVIOUS
  <2>3. QED
    BY <2>1, <2>2, Zenon DEF CmusFlags
<1>6. QED
  BY <1>3, <1>4, <1>5

LEMMA CmusDeliver ==
    ASSUME CmusInv, Cmus!Deliver PROVE CmusInv'
<1> USE DEF CmusInv, Cmus!Deliver, Cmus!playerVars
<1>1. /\ wire # << >> /\ wire' = Tail(wire)
      /\ UNCHANGED <<running, status, volume, registered, at, state, view, ticking, vol>>
  OBVIOUS
<1>2. /\ ch \in Seq(Cmus!Signals) /\ wire \in Seq(Cmus!Signals) /\ Len(ch) \in Nat
      /\ Len(ch) <= CmusCap /\ CmusCap \in Nat
  BY CmusAssumption, LenProperties DEF CmusPlaces
<1>3. /\ Append(ch, Head(wire)) \o Tail(wire) = ch \o wire
      /\ Append(ch, Head(wire)) \in Seq(Cmus!Signals) /\ Tail(wire) \in Seq(Cmus!Signals)
      /\ Len(Append(ch, Head(wire))) = Len(ch) + 1
  BY <1>1, <1>2, QueuesPass
<1>4. CASE registered /\ Len(ch) < CmusCap
  <2>1. ch' = Append(ch, Head(wire)) /\ missed' = missed
    BY <1>4
  <2>2. CmusPlaces'
    <3>1. Len(ch') <= CmusCap
      BY <1>2, <1>3, <1>4, <2>1
    <3>2. QED
      BY <1>1, <1>3, <2>1, <3>1 DEF CmusPlaces
  <2>3. CmusFlags'
    BY <1>1, <2>1, Zenon DEF CmusFlags
  <2>4. at \notin {"list", "register"}
    BY <1>4 DEF CmusOrder
  <2>5. CmusOrder'
    BY <1>1, <1>3, <2>1, <2>4 DEF CmusOrder
  <2>6. QED
    BY <2>2, <2>3, <2>5
<1>5. CASE ~(registered /\ Len(ch) < CmusCap)
  <2>1. ch' = ch /\ missed' = (missed \/ at # "list")
    BY <1>5
  <2>2. CmusPlaces'
    BY <1>1, <1>3, <2>1 DEF CmusPlaces
  <2>3. CmusFlags'
    <3>1. missed' = missed \/ missed' = TRUE
      BY <2>1 DEF CmusFlags
    <3>2. QED
      BY <1>1, <3>1, Zenon DEF CmusFlags
  <2>4. CmusOrder'
    <3>1. (missed \/ at # "list") => missed'
      BY <2>1, Zenon
    <3>2. at' \in {"list", "register"} => ~registered' /\ state' = Cmus!NoPlayer
      BY <1>1 DEF CmusOrder
    <3>3. at' = "panic" => missed'
      BY <1>1, <3>1
    <3>4. ~(~missed' /\ at' # "list")
      BY <1>1, <3>1, Zenon
    <3>5. QED
      BY <3>2, <3>3, <3>4, Zenon DEF CmusOrder
  <2>5. QED
    BY <2>2, <2>3, <2>4
<1>6. QED
  BY <1>4, <1>5

(* The names are listed, and the signals asked for. *)
LEMMA CmusStarts ==
    ASSUME CmusInv, Cmus!List \/ Cmus!Register PROVE CmusInv'
<1> USE DEF CmusInv, Cmus!playerVars
<1>1. CASE Cmus!List
  <2> DEFINE sig == [kind |-> "owner", up |-> TRUE]
  <2> USE DEF Cmus!List
  <2>1. /\ at = "list" /\ at' = "register" /\ wire = << >> /\ state = Cmus!NoPlayer
        /\ UNCHANGED <<running, status, volume, wire, registered, missed, state, view, ticking, vol>>
    BY <1>1 DEF CmusOrder
  <2>2. /\ sig \in Cmus!Signals /\ sig.kind = "owner" /\ sig.up = TRUE
        /\ ch' = IF running THEN <<sig>> ELSE << >>
    BY <1>1, SignalFields
  <2> HIDE DEF sig, Cmus!List
  <2>3. /\ <<sig>> \in Seq(Cmus!Signals) /\ Len(<<sig>>) = 1 /\ <<sig>>[1] = sig
        /\ << >> \in Seq(Cmus!Signals) /\ Len(<< >>) = 0
        /\ <<sig>> \o << >> = <<sig>> /\ << >> \o << >> = << >>
    BY <2>2
  <2>4. state.object # TRUE
    BY <2>1 DEF Cmus!NoPlayer
  <2>5. CASE running = TRUE
    <3>1. ch' = <<sig>> /\ ch' \o wire' = <<sig>>
      BY <2>1, <2>2, <2>3, <2>5
    <3>2. Played(<<sig>>, {1}, state.object, TRUE)
      BY <2>2, <2>4, PlayedFirst
    <3>3. CmusOrder'
      BY <2>1, <2>5, <3>1, <3>2 DEF CmusOrder
    <3>4. Len(ch') <= CmusCap
      BY <2>3, <3>1, CmusAssumption
    <3>5. CmusPlaces'
      BY <2>1, <2>3, <3>1, <3>4 DEF CmusPlaces
    <3>6. CmusFlags'
      BY <2>1, Zenon DEF CmusFlags
    <3>7. QED
      BY <3>3, <3>5, <3>6
  <2>6. CASE running = FALSE
    <3>1. ch' = << >> /\ ch' \o wire' = << >>
      BY <2>1, <2>2, <2>3, <2>6
    <3>2. Played(<< >>, {}, state.object, FALSE)
      BY <2>2, <2>4, PlayedFirst
    <3>3. CmusOrder'
      BY <2>1, <2>6, <3>1, <3>2 DEF CmusOrder
    <3>4. Len(ch') <= CmusCap
      BY <2>3, <3>1, CmusAssumption
    <3>5. CmusPlaces'
      BY <2>1, <2>3, <3>1, <3>4 DEF CmusPlaces
    <3>6. CmusFlags'
      BY <2>1, Zenon DEF CmusFlags
    <3>7. QED
      BY <3>3, <3>5, <3>6
  <2>7. QED
    BY <2>5, <2>6, Zenon DEF CmusFlags
<1>2. CASE Cmus!Register
  <2> USE DEF Cmus!Register
  <2>1. /\ at = "register" /\ at' = "render" /\ registered' = TRUE
        /\ UNCHANGED <<running, status, volume, wire, ch, missed, state, view, ticking, vol>>
    BY <1>2
  <2>2. CmusPlaces'
    BY <2>1 DEF CmusPlaces
  <2>3. CmusFlags'
    BY <2>1, Zenon DEF CmusFlags
  <2>4. CmusOrder'
    BY <2>1 DEF CmusOrder
  <2>5. QED
    BY <2>2, <2>3, <2>4
<1>3. QED
  BY <1>1, <1>2

(* What the module does by itself but for the signals. *)
LEMMA CmusMoves ==
    ASSUME CmusInv,
           \/ Cmus!Render \/ Cmus!Tick \/ Cmus!Fetch \/ Cmus!FetchFails
           \/ Cmus!ClickView \/ Cmus!ClickVolume(5) \/ Cmus!ClickVolume(-5)
    PROVE  CmusInv'
<1> USE DEF CmusInv, Cmus!Render, Cmus!Tick, Cmus!Fetch, Cmus!FetchFails, Cmus!ClickView,
            Cmus!ClickVolume, Cmus!Click, Cmus!playerVars, Cmus!busVars
<1>1. /\ UNCHANGED <<running, status, volume, wire, registered, ch, missed>>
      /\ at \notin {"list", "register"}
  OBVIOUS
<1>2. at' \in {"render", "select", "fetch status", "fetch volume", "fetch position",
               "set volume", "failed"}
  OBVIOUS
<1>3. \/ state' = state
      \/ state' = [state EXCEPT !.status = status]
      \/ state' = [state EXCEPT !.volume = volume]
  OBVIOUS
<1>4. ticking' \in BOOLEAN
  BY Zenon DEF CmusFlags
<1>5. view' \in Nat /\ vol' \in 0 .. 100
  <2>1. view \in Nat /\ vol \in 0 .. 100 /\ volume \in 0 .. 100
    BY DEF CmusPlaces
  <2>2. view' \in {view, view % 4, view + 1}
    OBVIOUS
  <2>3. \/ vol' = vol
        \/ \E x \in {volume + 5, volume + (-5)} :
              vol' = IF x < 0 THEN 0 ELSE IF x > 100 THEN 100 ELSE x
    OBVIOUS
  <2> HIDE DEF CmusInv, Cmus!Render, Cmus!Tick, Cmus!Fetch, Cmus!FetchFails, Cmus!ClickView,
               Cmus!ClickVolume, Cmus!Click
  <2>4. view' \in Nat
    <3>1. view % 4 \in Nat /\ view + 1 \in Nat
      BY <2>1
    <3>2. QED
      BY <2>1, <2>2, <3>1
  <2>5. vol' \in 0 .. 100
    BY <2>1, <2>3
  <2>6. QED
    BY <2>4, <2>5
<1>6. /\ state' \in [object : BOOLEAN, status : Cmus!Statuses \cup {""}, volume : 0 .. 100]
      /\ state'.object = state.object
  BY <1>3 DEF CmusPlaces
<1>7. CmusPlaces'
  BY <1>1, <1>2, <1>5, <1>6 DEF CmusPlaces
<1>8. CmusFlags'
  BY <1>1, <1>4, Zenon DEF CmusFlags
<1>9. CmusOrder'
  BY <1>1, <1>2, <1>6, CmusRests
<1>10. QED
  BY <1>7, <1>8, <1>9

(* A signal is taken. *)
LEMMA CmusTakes ==
    ASSUME CmusInv, Cmus!HandleSignal PROVE CmusInv'
<1> USE DEF CmusInv, Cmus!playerVars, Cmus!busVars
<1>1. /\ at = "select" /\ ch # << >>
      /\ UNCHANGED <<running, status, volume, wire, registered, missed, view, ticking, vol>>
  BY DEF Cmus!HandleSignal
<1>2. PICK sig : 
        /\ sig = Head(ch) /\ ch' = Tail(ch)
        /\ \/ /\ sig.kind = "owner" /\ Cmus!OwnerChanged(sig.up)
              /\ at' = IF sig.up THEN "fetch status" ELSE "render"
           \/ /\ sig.kind = "status" /\ state' = [state EXCEPT !.status = sig.status]
              /\ at' = "render"
           \/ /\ sig.kind = "volume" /\ state' = [state EXCEPT !.volume = sig.volume]
              /\ at' = "render"
           \/ /\ sig.kind = "seeked" /\ state' = state
              /\ at' = IF state.object THEN "fetch position" ELSE "panic"
  BY DEF Cmus!HandleSignal, Cmus!Take
<1> DEFINE q == ch \o wire
<1>3. /\ ch' \o wire' = Tail(q) /\ q \in Seq(Cmus!Signals) /\ q # << >>
      /\ sig = q[1] /\ ch' \in Seq(Cmus!Signals) /\ Len(ch') = Len(ch) - 1 /\ Len(ch) \in Nat
  <2>1. ch \in Seq(Cmus!Signals) /\ wire \in Seq(Cmus!Signals)
    BY DEF CmusPlaces
  <2>2. /\ Tail(ch) \o wire = Tail(ch \o wire) /\ ch \o wire \in Seq(Cmus!Signals)
        /\ ch \o wire # << >> /\ Head(ch) = (ch \o wire)[1]
        /\ Tail(ch) \in Seq(Cmus!Signals) /\ Len(Tail(ch)) = Len(ch) - 1
    BY <1>1, <2>1, QueuesTake
  <2>3. sig = Head(ch) /\ ch' = Tail(ch) /\ wire' = wire
    BY <1>1, <1>2, Zenon
  <2>4. Len(ch) \in Nat
    BY <2>1
  <2>5. QED
    BY <2>2, <2>3, <2>4, Zenon
<1>4. sig \in Cmus!Signals
  <2> HIDE DEF q
  <2>1. Len(q) \in Nat \ {0}
    BY <1>3, EmptySeq
  <2>2. QED
    BY <1>3, <2>1, ElementOfSeq
<1>5. /\ sig.kind = "owner" => sig.up \in BOOLEAN
      /\ sig.kind = "status" => sig.status \in Cmus!Statuses
      /\ sig.kind = "volume" => sig.volume \in 0 .. 100
  BY <1>4, SignalFields
<1>6. state \in [object : BOOLEAN, status : Cmus!Statuses \cup {""}, volume : 0 .. 100]
  BY DEF CmusPlaces
<1>7. /\ sig.kind = "owner" => state'.object = sig.up
      /\ sig.kind # "owner" => state'.object = state.object
  <2>1. CASE sig.kind = "owner"
    <3>1. state' = IF sig.up THEN Cmus!NewPlayer ELSE Cmus!NoPlayer
      BY <1>2, <2>1 DEF Cmus!OwnerChanged
    <3>2. Cmus!NewPlayer.object = TRUE /\ Cmus!NoPlayer.object = FALSE
      BY DEF Cmus!NewPlayer, Cmus!NoPlayer
    <3>3. QED
      BY <1>5, <2>1, <3>1, <3>2, Zenon
  <2>2. CASE sig.kind # "owner"
    BY <1>2, <1>6, <2>2
  <2>3. QED
    BY <2>1, <2>2
<1>8. state' \in [object : BOOLEAN, status : Cmus!Statuses \cup {""}, volume : 0 .. 100]
  <2>1. CASE sig.kind = "owner"
    <3>1. state' = Cmus!NewPlayer \/ state' = Cmus!NoPlayer
      BY <1>2, <2>1 DEF Cmus!OwnerChanged
    <3>2. FALSE \in BOOLEAN /\ TRUE \in BOOLEAN /\ "" \in Cmus!Statuses \cup {""} /\ 0 \in 0 .. 100
      OBVIOUS
    <3> DEFINE R == [object : BOOLEAN, status : Cmus!Statuses \cup {""}, volume : 0 .. 100]
    <3>3. Cmus!NewPlayer \in R
      BY <3>2, Zenon DEF Cmus!NewPlayer
    <3>4. Cmus!NoPlayer \in R
      BY <3>2, Zenon DEF Cmus!NoPlayer
    <3>5. QED
      BY <3>1, <3>3, <3>4, Zenon
  <2>2. CASE sig.kind # "owner"
    BY <1>2, <1>5, <1>6, <2>2
  <2>3. QED
    BY <2>1, <2>2
<1>9. at' \in {"render", "fetch status", "fetch position", "panic"}
  BY <1>2
<1>10. CmusPlaces'
  <2>1. Len(ch') <= CmusCap
    <3>1. Len(ch) \in Nat /\ Len(ch) <= CmusCap /\ CmusCap \in Nat /\ Len(ch') = Len(ch) - 1
      BY <1>3, CmusAssumption DEF CmusPlaces
    <3> HIDE DEF CmusInv
    <3>2. QED
      BY <3>1
  <2>2. QED
    BY <1>1, <1>3, <1>8, <1>9, <2>1 DEF CmusPlaces
<1>11. CmusFlags'
  BY <1>1, Zenon DEF CmusFlags
<1>12. CmusOrder'
  <2>1. ASSUME ~missed
        PROVE  /\ \E B : Played(Tail(q), B, state'.object, running)
               /\ sig.kind = "seeked" => state.object = TRUE
    <3>1. PICK A : Played(q, A, state.object, running)
      BY <1>1, <2>1 DEF CmusOrder
    <3> DEFINE obj == state.object
               after == state'.object
    <3>2. /\ Played(q, A, obj, running)
          /\ q[1].kind = "owner" => after = q[1].up
          /\ q[1].kind # "owner" => after = obj
      BY <1>3, <1>7, <3>1
    <3> HIDE DEF q, obj, after
    <3>3. /\ \E B : Played(Tail(q), B, after, running)
          /\ q[1].kind = "seeked" => obj = TRUE
      BY <1>3, <3>2, PlayedOff
    <3>4. QED
      BY <1>3, <3>3 DEF obj, after
  <2>2. at' = "panic" => sig.kind = "seeked" /\ state.object # TRUE
    BY <1>2
  <2>3. at' = "panic" => missed
    BY <2>1, <2>2
  <2>4. QED
    BY <1>1, <1>3, <1>9, <2>1, <2>3 DEF CmusOrder
<1>13. QED
  BY <1>10, <1>11, <1>12

(* A volume that is shown is one. *)
LEMMA PercentInRange == ASSUME NEW k \in 0 .. 100 PROVE Cmus!Percent(k) \in 0 .. 100
<1>1. CASE k \in {29, 57, 58}
  <2>1. Cmus!Percent(k) = k - 1
    BY <1>1, Zenon DEF Cmus!Percent
  <2>2. k - 1 \in 0 .. 100
    BY <1>1
  <2>3. QED
    BY <2>1, <2>2, Zenon
<1>2. CASE k \notin {29, 57, 58}
  BY <1>2, Zenon DEF Cmus!Percent
<1>3. QED
  BY <1>1, <1>2

(* What the module asks of the player makes it send a signal, or not. *)
LEMMA CmusAsks ==
    ASSUME CmusInv, Cmus!ClickPlayPause \/ Cmus!SetVolume PROVE CmusInv'
<1> USE DEF CmusInv, Cmus!ClickPlayPause, Cmus!SetVolume, Cmus!Click, Cmus!Send
<1>1. /\ UNCHANGED <<running, registered, ch, missed, state, view, ticking, vol>>
      /\ at \in {"select", "set volume"} /\ at' = "select"
  OBVIOUS
<1>2. status' \in Cmus!Statuses /\ volume' \in 0 .. 100
  <2>1. vol \in 0 .. 100 => Cmus!Percent(vol) \in 0 .. 100
    BY PercentInRange, Zenon
  <2>2. vol \in 0 .. 100 /\ volume \in 0 .. 100 /\ status \in Cmus!Statuses
    BY DEF CmusPlaces
  <2>3. volume' = volume \/ volume' = Cmus!Percent(vol)
    OBVIOUS
  <2>4. status' \in Cmus!Statuses
    BY <2>2 DEF Cmus!Statuses
  <2>5. QED
    BY <2>1, <2>2, <2>3, <2>4
<1>3. CmusFlags'
  BY <1>1, Zenon DEF CmusFlags
<1>4. \/ UNCHANGED wire
      \/ \E sig \in Cmus!Signals : sig.kind # "owner" /\ sig.kind # "seeked" /\ wire' = Append(wire, sig)
  <2>1. CASE wire' = Append(wire, [kind |-> "status", status |-> status'])
    <3> DEFINE s == [kind |-> "status", status |-> status']
    <3>1. s \in Cmus!Signals /\ s.kind = "status"
      BY <1>2, SignalFields
    <3>2. QED
      BY <2>1, <3>1
  <2>2. CASE wire' = Append(wire, [kind |-> "volume", volume |-> volume'])
    <3> DEFINE s == [kind |-> "volume", volume |-> volume']
    <3>1. s \in Cmus!Signals /\ s.kind = "volume"
      BY <1>2, SignalFields
    <3>2. QED
      BY <2>2, <3>1
  <2>3. QED
    BY <2>1, <2>2
<1>5. CASE UNCHANGED wire
  <2>1. CmusPlaces'
    BY <1>1, <1>2, <1>5 DEF CmusPlaces
  <2>2. CmusOrder'
    BY <1>1, <1>5, CmusRests
  <2>3. QED
    BY <1>3, <2>1, <2>2
<1>6. ASSUME NEW sig \in Cmus!Signals, sig.kind # "owner", sig.kind # "seeked",
             wire' = Append(wire, sig)
      PROVE  CmusInv'
  <2>1. CmusOrder' /\ wire' \in Seq(Cmus!Signals)
    <3>1. {at, at'} \cap {"list", "register", "panic"} = {}
      BY <1>1
    <3> HIDE DEF Cmus!ClickPlayPause, Cmus!SetVolume, Cmus!Click, Cmus!Send
    <3>2. QED
      BY <1>1, <1>6, <3>1, CmusSends
  <2>2. CmusPlaces'
    BY <1>1, <1>2, <2>1 DEF CmusPlaces
  <2>3. QED
    BY <1>3, <2>1, <2>2
<1>7. QED
  BY <1>4, <1>5, <1>6

LEMMA CmusStep ==
    CmusInv /\ [Cmus!Next]_Cmus!vars => CmusInv'
<1>1. SUFFICES ASSUME CmusInv, [Cmus!Next]_Cmus!vars PROVE CmusInv'
  OBVIOUS
<1>2. CASE Cmus!PlayerStarts \/ Cmus!PlayerQuits \/ Cmus!PlayerChanges
  BY <1>1, <1>2, CmusPlayer
<1>3. CASE Cmus!Deliver
  BY <1>1, <1>3, CmusDeliver
<1>4. CASE Cmus!List \/ Cmus!Register
  BY <1>1, <1>4, CmusStarts
<1>5. CASE \/ Cmus!Render \/ Cmus!Tick \/ Cmus!Fetch \/ Cmus!FetchFails
           \/ Cmus!ClickView \/ Cmus!ClickVolume(5) \/ Cmus!ClickVolume(-5)
  BY <1>1, <1>5, CmusMoves
<1>6. CASE Cmus!HandleSignal
  BY <1>1, <1>6, CmusTakes
<1>7. CASE Cmus!ClickPlayPause \/ Cmus!SetVolume
  BY <1>1, <1>7, CmusAsks
<1>8. CASE UNCHANGED Cmus!vars
  <2>1. UNCHANGED <<running, status, volume, wire, registered, ch, missed, at, state, view, ticking, vol>>
    BY <1>8 DEF Cmus!vars, Cmus!playerVars, Cmus!busVars
  <2>2. CmusPlaces'
    BY <1>1, <2>1 DEF CmusInv, CmusPlaces
  <2>3. CmusFlags'
    BY <1>1, <2>1, Zenon DEF CmusInv, CmusFlags
  <2>4. CmusOrder'
    BY <1>1, <2>1 DEF CmusInv, CmusOrder
  <2>5. QED
    BY <2>2, <2>3, <2>4 DEF CmusInv
<1>9. QED
  BY <1>1, <1>2, <1>3, <1>4, <1>5, <1>6, <1>7, <1>8, Zenon DEF Cmus!Next, Cmus!Round

LEMMA CmusSafe == CmusInv => Cmus!OnlyLostSignalsPanic
  BY DEF CmusInv, CmusOrder, Cmus!OnlyLostSignalsPanic

-----------------------------------------------------------------------------
(* The modules that sample at every tick.                                  *)
Ifs == [view : 0 .. ViewMod - 1, tx : Int, rate : Int]
Mems == [path : 0 .. 2, expanded : BOOLEAN, prev : 0 .. 2, links : SUBSET Polled!Dirs,
         ifs : [Polled!Dirs -> Ifs], known : SUBSET Polled!Dirs, setErr : BOOLEAN]

PolledPlaces ==
    /\ kind \in PolledKinds /\ world \in Polled!Worlds(kind)
    /\ at \in {"sample", "select", "failed"}
    /\ mem \in Mems /\ changes \in Nat

PolledFlags ==
    /\ tick \in BOOLEAN /\ elapsed \in BOOLEAN /\ stopped \in BOOLEAN /\ told \in BOOLEAN
    /\ swapped \in BOOLEAN /\ moved \in BOOLEAN /\ unseen \in BOOLEAN

(* As long as the CPUs are those of the last sample, and there was one, they
   are what is remembered of it: at the latest when the user can ask for the
   single ones. *)
CpusStay ==
    /\ kind # "cpu" => at # "failed"
    /\ kind = "cpu" /\ ~moved /\ ~unseen =>
         /\ at # "failed"
         /\ at = "select" \/ mem.expanded \/ mem.prev # 0 => world = 0 \/ mem.prev = world

PolledInv == PolledPlaces /\ PolledFlags /\ CpusStay

LEMMA MemFields ==
    ASSUME NEW m \in Mems
    PROVE  /\ m.path \in 0 .. 2 /\ m.links \subseteq Polled!Dirs /\ m.prev \in 0 .. 2
           /\ \A d \in Polled!Dirs : m.ifs[d].view \in 0 .. ViewMod - 1
           /\ DOMAIN m = DOMAIN Polled!Mem0
  BY DEF Mems, Ifs, Polled!Mem0

LEMMA PolledTypes == PolledInv => Polled!TypeOK
  BY MemFields DEF PolledInv, PolledPlaces, PolledFlags, Polled!TypeOK

LEMMA FreshMem == Polled!Mem0 \in Mems /\ Polled!Mem0.expanded = FALSE /\ Polled!Mem0.prev = 0
<1>1. Polled!NoLink \in Ifs
  BY PolledAssumption DEF Polled!NoLink, Ifs
<1>2. [d \in Polled!Dirs |-> Polled!NoLink] \in [Polled!Dirs -> Ifs]
  BY <1>1
<1>3. FALSE \in BOOLEAN /\ 0 \in 0 .. 2 /\ {} \in SUBSET Polled!Dirs
  OBVIOUS
<1>4. QED
  BY <1>2, <1>3, Zenon DEF Polled!Mem0, Mems

LEMMA PolledInit == Polled!Init => PolledInv
<1> SUFFICES ASSUME Polled!Init PROVE PolledInv
  OBVIOUS
<1> USE DEF Polled!Init
<1>1. PolledPlaces
  BY FreshMem, PolledAssumption DEF PolledPlaces
<1>2. PolledFlags
  BY Zenon DEF PolledFlags
<1>3. CpusStay
  BY FreshMem DEF CpusStay
<1>4. QED
  BY <1>1, <1>2, <1>3 DEF PolledInv

(* What is sampled, by kind. *)
LEMMA WorldKinds ==
    ASSUME PolledPlaces
    PROVE  /\ kind = "cpu" => world \in {0, 1, 2}
           /\ kind = "wifi" => \/ world \in [Polled!Dirs -> {"up", "mute", "lone", "idle", "busy", "ap"}]
                               \/ world = [d \in Polled!Dirs |-> "unlisted"]
           /\ kind = "interfaces" => world \in [Polled!Dirs -> Int]
<1>1. kind = "cpu" => world \in {0, 1, 2}
  BY DEF PolledPlaces, Polled!Worlds
<1>2. kind = "wifi" => \/ world \in [Polled!Dirs -> {"up", "mute", "lone", "idle", "busy", "ap"}]
                       \/ world = [d \in Polled!Dirs |-> "unlisted"]
  BY DEF PolledPlaces, Polled!Worlds
<1>3. kind = "interfaces" => world \in [Polled!Dirs -> Int]
  BY DEF PolledPlaces, Polled!Worlds
<1>4. QED
  BY <1>1, <1>2, <1>3

(* A sample leaves a memory of its type. *)
LEMMA HwmonMem == ASSUME PolledPlaces, Polled!SampleHwmon PROVE mem' \in Mems
<1>1. mem \in Mems /\ mem.path \in 0 .. 2
  BY MemFields DEF PolledPlaces
<1>2. Polled!Path \in 0 .. 2
  <2>1. Polled!Found \in SUBSET Nat /\ Polled!Found \subseteq 0 .. 2
    BY DEF Polled!Found, Polled!Dirs
  <2> DEFINE T == Polled!Found
  <2>1a. Polled!First(T) = IF T = {} THEN 0 ELSE Polled!Min(T)
    BY DEF Polled!First
  <2>1b. T # {} => Polled!Min(T) \in T
    <3> HIDE DEF T
    <3>1. T \in SUBSET Nat
      BY <2>1 DEF T
    <3>2. QED
      BY <3>1, LeastNatural DEF Polled!Min
  <2>2. Polled!First(T) \in 0 .. 2
    <3> HIDE DEF T
    <3>1. T \subseteq 0 .. 2
      BY <2>1 DEF T
    <3>2. CASE T = {}
      <4>1. Polled!First(T) = 0
        BY <2>1a, <3>2
      <4>2. 0 \in 0 .. 2
        OBVIOUS
      <4>3. QED
        BY <4>1, <4>2
    <3>3. CASE T # {}
      <4>1. Polled!First(T) = Polled!Min(T) /\ Polled!Min(T) \in T
        BY <2>1a, <2>1b, <3>3
      <4>2. QED
        BY <3>1, <4>1
    <3>4. QED
      BY <3>2, <3>3
  <2>3. QED
    BY <1>1, <2>2 DEF Polled!Path
<1>3. \E p \in 0 .. 2 : mem' = [mem EXCEPT !.path = p]
  <2>1. \/ mem' = [mem EXCEPT !.path = Polled!Path]
        \/ mem' = [mem EXCEPT !.path = 0]
    BY DEF Polled!SampleHwmon
  <2>2. QED
    BY <1>2, <2>1
<1>4. QED
  BY <1>1, <1>3 DEF Mems

LEMMA CpuMem == ASSUME PolledPlaces, Polled!SampleCpu PROVE mem' \in Mems
<1>1. world \in {0, 1, 2} /\ mem \in Mems
  BY WorldKinds DEF Polled!SampleCpu, PolledPlaces
<1>2. mem' = [mem EXCEPT !.prev = IF world = 0 THEN @ ELSE world]
  BY DEF Polled!SampleCpu
<1>3. QED
  BY <1>1, <1>2 DEF Mems

LEMMA WifiMem == ASSUME PolledPlaces, Polled!SampleWifi PROVE mem' \in Mems
<1>1. mem \in Mems /\ mem.links \subseteq Polled!Dirs
  BY MemFields DEF PolledPlaces
<1>2. Polled!WifiLinks \subseteq Polled!Dirs
  BY <1>1 DEF Polled!WifiLinks, Polled!Asked
<1>3. \E l \in SUBSET Polled!Dirs : mem' = [mem EXCEPT !.links = l]
  BY <1>1, <1>2 DEF Polled!SampleWifi
<1>4. QED
  BY <1>1, <1>3 DEF Mems

LEMMA InterfacesMem == ASSUME PolledPlaces, Polled!SampleInterfaces PROVE mem' \in Mems
<1> DEFINE up == {d \in Polled!Dirs : world[d] > 0}
           ifs == [d \in Polled!Dirs |-> IF d \in up THEN Polled!Counted(mem.ifs[d], world[d]) ELSE mem.ifs[d]]
<1>1. mem \in Mems /\ mem.ifs \in [Polled!Dirs -> Ifs] /\ world \in [Polled!Dirs -> Int]
  BY WorldKinds DEF PolledPlaces, Mems, Polled!SampleInterfaces
<1>2. ASSUME NEW link \in Ifs, NEW tx \in Int PROVE Polled!Counted(link, tx) \in Ifs
  <2>1. link.tx \in Int /\ link.rate \in Int
    BY DEF Ifs
  <2>2. \E r \in Int : Polled!Counted(link, tx) = [link EXCEPT !.tx = tx, !.rate = r]
    <3> DEFINE r == IF tx >= link.tx THEN tx - link.tx ELSE link.rate
    <3>1. r \in Int
      BY <2>1
    <3>2. Polled!Counted(link, tx) = [link EXCEPT !.tx = tx, !.rate = r]
      BY DEF Ifs, Polled!Counted
    <3> HIDE DEF r
    <3>3. QED
      BY <3>1, <3>2
  <2>3. QED
    BY <2>2 DEF Ifs
<1>3. ifs \in [Polled!Dirs -> Ifs]
  BY <1>1, <1>2
<1>4. mem' = [mem EXCEPT !.ifs = ifs, !.known = @ \cup up]
  BY DEF Polled!SampleInterfaces
<1>5. up \subseteq Polled!Dirs
  OBVIOUS
<1> HIDE DEF up, ifs
<1>6. QED
  BY <1>1, <1>3, <1>4, <1>5 DEF Mems

LEMMA SampleMem ==
    ASSUME PolledPlaces, Polled!Sample PROVE mem' \in Mems
<1>1. Polled!SampleFile \/ Polled!SampleBacklight => mem' \in Mems
  BY DEF Polled!SampleFile, Polled!SampleBacklight, PolledPlaces
<1>2. QED
  BY <1>1, HwmonMem, CpuMem, WifiMem, InterfacesMem DEF Polled!Sample

(* The steps. *)
LEMMA PolledAround ==
    ASSUME PolledInv, Polled!WorldChanges \/ Polled!BarChanges \/ Polled!Tick
    PROVE  PolledInv'
<1> USE DEF PolledInv, Polled!WorldChanges, Polled!BarChanges, Polled!Tick, Polled!Changes, Polled!outside
<1>1. PolledPlaces'
  <2>1. UNCHANGED <<kind, at, mem>> /\ changes' \in Nat
    BY DEF PolledPlaces
  <2>2. world' \in Polled!Worlds(kind)
    BY DEF PolledPlaces
  <2>3. QED
    BY <2>1, <2>2 DEF PolledPlaces
<1>2. PolledFlags'
  <2>1. tick' \in BOOLEAN /\ elapsed' \in BOOLEAN
    BY Zenon DEF PolledFlags
  <2>2. stopped' \in BOOLEAN /\ told' \in BOOLEAN
    BY Zenon DEF PolledFlags
  <2>3. swapped' \in BOOLEAN /\ moved' \in BOOLEAN /\ unseen' \in BOOLEAN
    BY Zenon DEF PolledFlags, Polled!past
  <2>4. QED
    BY <2>1, <2>2, <2>3 DEF PolledFlags
<1>3. CpusStay'
  <2>1. UNCHANGED <<at, kind, mem, unseen>>
    BY DEF Polled!past
  <2>2. \/ kind = "cpu" /\ moved'
        \/ moved' = moved /\ (kind # "cpu" \/ world' = world)
    <3>1. CASE Polled!WorldChanges
      <4>1. moved' = (moved \/ kind = "cpu") /\ moved \in BOOLEAN
        BY <3>1 DEF PolledFlags
      <4>2. QED
        BY <4>1, Zenon
    <3>2. CASE Polled!BarChanges \/ Polled!Tick
      <4>1. UNCHANGED <<moved, world>>
        BY <3>2 DEF Polled!past
      <4>2. QED
        BY <4>1
    <3>3. QED
      BY <3>1, <3>2
  <2>3. QED
    BY <2>1, <2>2 DEF CpusStay
<1>4. QED
  BY <1>1, <1>2, <1>3

LEMMA PolledSample ==
    ASSUME PolledInv, Polled!Sample PROVE PolledInv'
<1> USE DEF PolledInv
<1>1. /\ UNCHANGED <<kind, world, stopped, changes, tick, told, swapped>>
      /\ moved' = FALSE /\ unseen' = FALSE
      /\ elapsed' = FALSE /\ at' = "select" /\ at = "sample"
  BY DEF Polled!Sample, Polled!outside
<1>2. mem' \in Mems
  BY SampleMem
<1>3. PolledPlaces'
  BY <1>1, <1>2 DEF PolledPlaces
<1>4. PolledFlags'
  BY <1>1, Zenon DEF PolledFlags
<1>5. CpusStay'
  <2>1. SUFFICES ASSUME kind = "cpu", world # 0 PROVE mem'.prev = world
    BY <1>1 DEF CpusStay
  <2>3. mem' = [mem EXCEPT !.prev = world]
    BY <2>1 DEF Polled!Sample, Polled!SampleHwmon, Polled!SampleFile, Polled!SampleCpu,
        Polled!SampleWifi, Polled!SampleInterfaces, Polled!SampleBacklight
  <2>4. QED
    BY <2>3 DEF PolledPlaces, Mems
<1>6. QED
  BY <1>3, <1>4, <1>5

LEMMA PolledMoves ==
    ASSUME PolledInv,
           \/ Polled!Skip \/ Polled!WakeTick \/ Polled!WakeStopped \/ Polled!ClickRefresh
           \/ UNCHANGED Polled!vars
    PROVE  PolledInv'
<1> USE DEF PolledInv, Polled!Skip, Polled!WakeTick, Polled!WakeStopped, Polled!ClickRefresh,
            Polled!outside, Polled!past, Polled!vars
<1>1. /\ UNCHANGED <<kind, world, stopped, changes, mem, elapsed, swapped, moved>>
      /\ tick' = tick \/ tick' = FALSE
      /\ told' = told \/ told' = FALSE
      /\ UNCHANGED at \/ at' \in {"sample", "select"}
  OBVIOUS
<1>2. /\ unseen' = unseen \/ unseen' = (unseen \/ (kind = "cpu" /\ mem.prev = 0))
      /\ at' = "select" /\ at # "select" /\ kind = "cpu" => mem.prev # 0 \/ unseen'
  OBVIOUS
<1>3. PolledPlaces'
  BY <1>1 DEF PolledPlaces
<1>4. PolledFlags'
  <2>1. unseen' \in BOOLEAN
    BY <1>2, Zenon DEF PolledFlags
  <2>2. QED
    BY <1>1, <2>1, Zenon DEF PolledFlags
<1>5. unseen => unseen'
  BY <1>2
<1>6. CpusStay'
  BY <1>1, <1>2, <1>5 DEF CpusStay
<1>7. QED
  BY <1>3, <1>4, <1>6

LEMMA PolledPanic ==
    ASSUME PolledInv, Polled!Panic PROVE PolledInv'
<1> USE DEF PolledInv, Polled!Panic, Polled!outside, Polled!past
<1>1. /\ UNCHANGED <<kind, world, stopped, changes, mem, tick, elapsed, told, swapped, moved, unseen>>
      /\ at' = "failed"
  OBVIOUS
<1>2. PolledPlaces'
  BY <1>1 DEF PolledPlaces
<1>3. PolledFlags'
  BY <1>1, Zenon DEF PolledFlags
<1>4. kind = "cpu" /\ (moved \/ unseen)
  BY DEF CpusStay, Polled!CpuPanics
<1>5. CpusStay'
  BY <1>1, <1>4 DEF CpusStay
<1>6. QED
  BY <1>2, <1>3, <1>5

LEMMA PolledRestart ==
    ASSUME PolledInv, Polled!Restart PROVE PolledInv'
<1> USE DEF PolledInv, Polled!Restart, Polled!outside
<1>1. /\ UNCHANGED <<kind, world, stopped, changes, tick, elapsed, told, swapped>>
      /\ moved' = FALSE /\ unseen' = FALSE
      /\ at = "failed" /\ at' = "sample" /\ mem' = Polled!Mem0
  OBVIOUS
<1>2. PolledPlaces'
  BY <1>1, FreshMem DEF PolledPlaces
<1>3. PolledFlags'
  BY <1>1, Zenon DEF PolledFlags
<1>4. CpusStay'
  BY <1>1, FreshMem DEF CpusStay
<1>5. QED
  BY <1>2, <1>3, <1>4

LEMMA PolledClicks ==
    ASSUME PolledInv,
           \/ Polled!ClickExpand \/ Polled!ClickBrightness
           \/ \E d \in Polled!Dirs, step \in {1, -1} : Polled!ClickView(d, step)
    PROVE  PolledInv'
<1> USE DEF PolledInv, Polled!Click, Polled!outside, Polled!past
<1>1. /\ UNCHANGED <<kind, stopped, changes, tick, elapsed, told, swapped, moved, unseen>>
      /\ at = "select" /\ at' = "sample"
  BY DEF Polled!ClickExpand, Polled!ClickBrightness, Polled!ClickView
<1>2. PolledFlags'
  BY <1>1, Zenon DEF PolledFlags
<1>3. mem \in Mems /\ mem.expanded \in BOOLEAN /\ mem.ifs \in [Polled!Dirs -> Ifs]
  BY DEF PolledPlaces, Mems
<1>4. CASE Polled!ClickExpand
  <2>1. world' = world /\ mem' = [mem EXCEPT !.expanded = ~@]
    BY <1>4 DEF Polled!ClickExpand
  <2>2. (~mem.expanded) \in BOOLEAN
    OBVIOUS
  <2>3. mem' \in Mems /\ mem'.prev = mem.prev
    BY <1>3, <2>1, <2>2 DEF Mems
  <2>4. PolledPlaces'
    BY <1>1, <2>1, <2>3 DEF PolledPlaces
  <2>5. CpusStay'
    BY <1>1, <2>1, <2>3 DEF CpusStay
  <2>6. QED
    BY <1>2, <2>4, <2>5
<1>5. CASE Polled!ClickBrightness
  <2>1. /\ kind = "backlight" /\ (world' = world \/ world' \in {"low", "high"})
        /\ \E e \in BOOLEAN : mem' = [mem EXCEPT !.setErr = e]
    BY <1>5 DEF Polled!ClickBrightness
  <2>2. mem' \in Mems
    BY <1>3, <2>1 DEF Mems
  <2>3. world' \in Polled!Worlds(kind)
    BY <2>1 DEF PolledPlaces, Polled!Worlds
  <2>4. PolledPlaces'
    BY <1>1, <2>2, <2>3 DEF PolledPlaces
  <2>5. CpusStay'
    BY <1>1, <2>1 DEF CpusStay
  <2>6. QED
    BY <1>2, <2>4, <2>5
<1>6. ASSUME NEW d \in Polled!Dirs, NEW step \in Int, Polled!ClickView(d, step)
      PROVE  PolledInv'
  <2>1. /\ kind = "interfaces" /\ world' = world
        /\ mem' = [mem EXCEPT !.ifs[d].view = (@ + step) % ViewMod]
    BY <1>6 DEF Polled!ClickView
  <2>2. (mem.ifs[d].view + step) % ViewMod \in 0 .. ViewMod - 1
    <3>1. mem.ifs[d].view + step \in Int
      BY <1>3 DEF Ifs
    <3>2. QED
      BY <3>1, Remainder, PolledAssumption
  <2>3. mem' \in Mems
    BY <1>3, <2>1, <2>2 DEF Mems, Ifs
  <2>4. PolledPlaces'
    BY <1>1, <2>1, <2>3 DEF PolledPlaces
  <2>5. CpusStay'
    BY <1>1, <2>1 DEF CpusStay
  <2>6. QED
    BY <1>2, <2>4, <2>5
<1>7. QED
  BY <1>4, <1>5, <1>6

LEMMA PolledStep ==
    PolledInv /\ [Polled!Next]_Polled!vars => PolledInv'
<1> SUFFICES ASSUME PolledInv, [Polled!Next]_Polled!vars PROVE PolledInv'
  OBVIOUS
<1> QED
  BY PolledAround, PolledSample, PolledMoves, PolledPanic, PolledRestart, PolledClicks, Zenon
     DEF Polled!Next, Polled!Run

LEMMA PolledSafe == PolledInv => Polled!ClicksNeverFail
  BY DEF PolledInv, PolledPlaces, CpusStay, Polled!ClicksNeverFail

(* A sample of the links that succeeds shows those that are up. *)
LEMMA AllListed ==
    ASSUME PolledPlaces, kind = "wifi", world[1] # "unlisted", NEW d \in Polled!Dirs
    PROVE  world[d] # "unlisted"
<1>1. 1 \in Polled!Dirs
  BY DEF Polled!Dirs
<1>2. QED
  BY <1>1, WorldKinds

LEMMA NoPlaces == DOMAIN << >> = {}
<1>1. << >> \in Seq({}) /\ Len(<< >>) = 0
  BY EmptySeq
<1>2. DOMAIN << >> = 1 .. 0
  BY <1>1, LenProperties
<1>3. 1 .. 0 = {}
  OBVIOUS
<1>4. QED
  BY <1>2, <1>3, Zenon

LEMMA GoodBlock ==
    ASSUME NEW links, Polled!WifiBlock(links).text = "",
           NEW d \in DOMAIN Polled!WifiBlock(links).items
    PROVE  /\ Polled!FirstBad = 0 /\ world[1] # "unlisted" /\ d \in Polled!Dirs
           /\ Polled!WifiBlock(links).items[d] = "link" => d \in links
<1> DEFINE b == Polled!WifiBlock(links)
<1>1. world[1] # "unlisted"
  BY DEF Polled!WifiBlock, Polled!Block, Polled!Error
<1>2. ~(Polled!FirstBad # 0 /\ world[Polled!FirstBad] \in {"idle", "lone"})
  <2>1. SUFFICES ASSUME Polled!FirstBad # 0 /\ world[Polled!FirstBad] \in {"idle", "lone"} PROVE FALSE
    OBVIOUS
  <2>2. b.items = << >>
    BY <1>1, <2>1 DEF Polled!WifiBlock, Polled!Block, Polled!Nothing
  <2>3. d \in DOMAIN b.items
    OBVIOUS
  <2> HIDE DEF b
  <2>4. d \in DOMAIN << >>
    BY <2>2, <2>3, Zenon
  <2>5. QED
    BY <2>4, NoPlaces, Zenon
<1>3. b = Polled!Block(IF Polled!FirstBad = 0 THEN "" ELSE "error", Polled!Shown(links))
  BY <1>1, <1>2 DEF Polled!WifiBlock
<1>4. b.text = (IF Polled!FirstBad = 0 THEN "" ELSE "error") /\ b.items = Polled!Shown(links)
  <2> HIDE DEF b
  <2>1. QED
    BY <1>3 DEF Polled!Block
<1>5. QED
  BY <1>1, <1>4 DEF Polled!Shown

(* When no interface is the first that fails, none fails. *)
LEMMA NoneBad ==
    ASSUME Polled!FirstBad = 0, world[1] # "unlisted", PolledPlaces, kind = "wifi",
           NEW d \in Polled!Dirs
    PROVE  world[d] \notin {"mute", "lone"}
<1> DEFINE bad == {e \in DOMAIN world : world[e] \in {"idle", "busy", "mute", "lone"}}
<1>1. DOMAIN world = Polled!Dirs
  BY WorldKinds
<1>2. bad \in SUBSET Nat /\ 0 \notin bad
  BY <1>1 DEF Polled!Dirs
<1>3. Polled!FirstBad = IF bad = {} THEN 0 ELSE Polled!Min(bad)
  BY Zenon DEF Polled!FirstBad, Polled!First
<1>4. d \in Polled!Dirs /\ (world[d] \in {"mute", "lone"} => d \in bad)
  BY <1>1
<1> HIDE DEF bad
<1>5. bad # {} => Polled!Min(bad) \in bad
  BY <1>2, LeastNatural DEF Polled!Min
<1>6. bad = {}
  BY <1>2, <1>3, <1>5
<1>7. QED
  BY <1>4, <1>6

LEMMA PolledHides == PolledInv => Polled!HidesStaleLinks
<1>1. SUFFICES ASSUME PolledInv, kind = "wifi", Polled!Sample, ~stopped, bar'.text = ""
               PROVE  \A d \in DOMAIN bar'.items : bar'.items[d] = "link" => world[d] = "up"
  BY DEF Polled!HidesStaleLinks
<1>2. bar' = Polled!WifiBlock(Polled!WifiLinks)
  BY <1>1 DEF Polled!Sample, Polled!SampleHwmon, Polled!SampleFile, Polled!SampleCpu,
         Polled!SampleWifi, Polled!SampleInterfaces, Polled!SampleBacklight
<1>3. ASSUME NEW d \in DOMAIN bar'.items, bar'.items[d] = "link"
      PROVE  /\ Polled!FirstBad = 0 /\ world[1] # "unlisted" /\ d \in Polled!Dirs
             /\ d \in Polled!WifiLinks
  BY <1>1, <1>2, <1>3, GoodBlock
<1>4. ASSUME NEW d \in DOMAIN bar'.items, bar'.items[d] = "link" PROVE world[d] = "up"
  <2>1. d \in Polled!Asked
    BY <1>1, <1>3, <1>4, AllListed DEF Polled!Asked, PolledInv
  <2>2. QED
    BY <1>1, <1>3, <1>4, <2>1, NoneBad DEF Polled!WifiLinks, PolledInv
<1>5. QED
  BY <1>4

-----------------------------------------------------------------------------
(* The PulseAudio module.                                                  *)

(* A device that is selected and listed is the one at
   the index; and a monitor is at the index of the sources only as the
   default, as the selection, or when it is already in view. *)
Selected(k) ==
    sel[k] # NoName /\ (\E i \in 1 .. Len(list[k]) : list[k][i].name = sel[k])
        => idx[k] # 0 /\ list[k][idx[k]].name = sel[k]
Rendered == bar = [k \in PulseKinds |-> Pulse!Blocks(k)]
Justified(k) ==
    k = "src" /\ idx[k] # 0 /\ list[k][idx[k]].name \in Monitors =>
        \/ def[k] = list[k][idx[k]].name \/ sel[k] = list[k][idx[k]].name
        \/ Pulse!ShowsMonitor(k)

PulseView ==
    /\ \A k \in PulseKinds : Selected(k)
    /\ at \in {"select", "command"} => Rendered
    /\ at = "render" => \A k \in PulseKinds : Justified(k)

PulsePlaces ==
    /\ setup \in Setups /\ level \in [Pulse!Names -> Pulse!Level]
    /\ at \in {"subscribe", "top", "snk", "src", "render", "select", "debounce",
               "command", "failed", "blocked"}
    /\ def \in [PulseKinds -> Pulse!Names \cup {NoName}]
    /\ list \in [PulseKinds -> Seq(Pulse!Device)]
    /\ sel \in [PulseKinds -> Pulse!Names \cup {NoName}]
    /\ idx \in [PulseKinds -> Nat] /\ \A k \in PulseKinds : idx[k] <= Len(list[k])
    /\ cmd \in Pulse!Commands \cup {Pulse!NoCmd}
    /\ at = "command" => cmd \in Pulse!Commands
    /\ bar \in [PulseKinds -> Pulse!Shown \cup {Pulse!Nothing}]

PulseFlags ==
    /\ event \in BOOLEAN /\ subscribed \in BOOLEAN /\ updates \in BOOLEAN
    /\ conn \in BOOLEAN /\ connected \in BOOLEAN
    /\ exp \in [PulseKinds -> BOOLEAN]

PulseInv == PulsePlaces /\ PulseFlags /\ PulseView

LEMMA PulseTypes == PulseInv => Pulse!TypeOK
  BY DEF PulseInv, PulsePlaces, PulseFlags, Pulse!TypeOK

(* The first place in a list of devices at which one of the names is. *)
LEMMA IndexFinds ==
    ASSUME NEW devices \in Seq(Pulse!Device), NEW names
    PROVE  LET i == Pulse!IndexOf(devices, names)
           IN  /\ i \in Nat /\ i <= Len(devices)
               /\ i # 0 => devices[i].name \in names
               /\ i = 0 => \A j \in 1 .. Len(devices) : devices[j].name \notin names
<1> DEFINE hits == {j \in DOMAIN devices : devices[j].name \in names}
           i == Pulse!IndexOf(devices, names)
<1>1. hits \in SUBSET Nat
  OBVIOUS
<1>2. i = IF hits = {} THEN 0 ELSE Pulse!Min(hits)
  BY Zenon DEF Pulse!IndexOf, Pulse!First
<1>3. hits # {} => Pulse!Min(hits) \in hits
  <2> HIDE DEF hits
  <2> QED
    BY <1>1, LeastNatural DEF Pulse!Min
<1>4. Len(devices) \in Nat
  OBVIOUS
<1>5. CASE hits = {}
  BY <1>2, <1>4, <1>5
<1>6. CASE hits # {}
  <2>1. i \in hits
    BY <1>2, <1>3, <1>6
  <2>2. i \in 1 .. Len(devices) /\ devices[i].name \in names
    BY <2>1
  <2> HIDE DEF i, hits
  <2>3. QED
    BY <1>4, <2>2 DEF i
<1>7. QED
  BY <1>5, <1>6

LEMMA PulseInit == Pulse!Init => PulseInv
<1> SUFFICES ASSUME Pulse!Init PROVE PulseInv
  OBVIOUS
<1> USE DEF Pulse!Init
<1>1. level \in [Pulse!Names -> Pulse!Level]
  <2>1. FALSE \in BOOLEAN /\ MaxVolume \in 0 .. MaxVolume + 1
    BY PulseAssumption
  <2>2. [muted |-> FALSE, vol |-> MaxVolume] \in Pulse!Level
    BY <2>1, Zenon DEF Pulse!Level
  <2>3. QED
    BY <2>2
<1>2. /\ << >> \in Seq(Pulse!Device) /\ Len(<< >>) = 0
  BY EmptySeq
<1>3. PulsePlaces
  <2>1. /\ list \in [PulseKinds -> Seq(Pulse!Device)]
        /\ idx \in [PulseKinds -> Nat] /\ \A k \in PulseKinds : idx[k] <= Len(list[k])
    BY <1>2
  <2>2. /\ def \in [PulseKinds -> Pulse!Names \cup {NoName}]
        /\ sel \in [PulseKinds -> Pulse!Names \cup {NoName}]
        /\ bar \in [PulseKinds -> Pulse!Shown \cup {Pulse!Nothing}]
    OBVIOUS
  <2>3. QED
    BY <1>1, <2>1, <2>2 DEF PulsePlaces
<1>4. PulseFlags
  BY Zenon DEF PulseFlags
<1>5. PulseView
  BY DEF PulseView, Selected
<1>6. QED
  BY <1>3, <1>4, <1>5 DEF PulseInv

(* What says nothing of the view. *)
LEMMA ViewStays ==
    ASSUME PulseView, UNCHANGED <<def, list, sel, idx, bar>>,
           at' \in {"select", "command"} => at \in {"select", "command"},
           at' = "render" => at = "render"
    PROVE  PulseView'
  BY DEF PulseView, Selected, Rendered, Justified, Pulse!Blocks, Pulse!ShowsMonitor, Pulse!IsMonitor

LEMMA PulseServer ==
    ASSUME PulseInv, Pulse!Change \/ Pulse!Notify \/ Pulse!Disconnect \/ Pulse!LoopEnds
    PROVE  PulseInv'
<1> USE DEF PulseInv, Pulse!Change, Pulse!Notify, Pulse!Disconnect, Pulse!LoopEnds,
            Pulse!viewVars, Pulse!clientVars, Pulse!serverVars
<1>1. UNCHANGED <<at, def, list, sel, exp, idx, bar, cmd, subscribed>>
  OBVIOUS
<1>2. setup' \in Setups /\ level' \in [Pulse!Names -> Pulse!Level]
  BY PulseAssumption DEF PulsePlaces
<1>3. PulsePlaces'
  BY <1>1, <1>2 DEF PulsePlaces
<1>4. PulseFlags'
  <2>1. /\ event' = event \/ event' = subscribed \/ event' = FALSE
        /\ updates' = updates \/ updates' = TRUE
        /\ conn' = conn \/ conn' = FALSE
        /\ connected' = connected \/ connected' = FALSE
    OBVIOUS
  <2>2. event' \in BOOLEAN /\ updates' \in BOOLEAN /\ conn' \in BOOLEAN /\ connected' \in BOOLEAN
    BY <2>1, Zenon DEF PulseFlags
  <2>3. QED
    BY <1>1, <2>2, Zenon DEF PulseFlags
<1>5. PulseView'
  BY <1>1, ViewStays
<1>6. QED
  BY <1>3, <1>4, <1>5

LEMMA PulseMoves ==
    ASSUME PulseInv,
           \/ Pulse!Unanswered \/ Pulse!Subscribe \/ Pulse!Disconnected \/ Pulse!TakeUpdate
           \/ Pulse!Debounced \/ Pulse!ClickDisconnected \/ Pulse!ClickIgnored \/ Pulse!CommandFails
    PROVE  PulseInv'
<1> USE DEF PulseInv, Pulse!Unanswered, Pulse!Subscribe, Pulse!Disconnected, Pulse!TakeUpdate,
            Pulse!Debounced, Pulse!ClickDisconnected, Pulse!ClickIgnored, Pulse!CommandFails,
            Pulse!Click, Pulse!viewVars, Pulse!clientVars, Pulse!serverVars
<1>1. UNCHANGED <<setup, level, def, list, sel, exp, idx, bar, cmd, event, conn, connected>>
  OBVIOUS
<1>2. at' \in {"top", "debounce", "failed", "blocked"} \/ UNCHANGED at
  OBVIOUS
<1>3. PulsePlaces'
  BY <1>1, <1>2 DEF PulsePlaces
<1>4. PulseFlags'
  <2>1. (updates' = updates \/ updates' = FALSE) /\ (subscribed' = subscribed \/ subscribed' = TRUE)
    OBVIOUS
  <2>2. QED
    BY <1>1, <2>1, Zenon DEF PulseFlags
<1>5. PulseView'
  BY <1>1, <1>2, ViewStays
<1>6. QED
  BY <1>3, <1>4, <1>5

LEMMA PulseFetchInfo ==
    ASSUME PulseInv, Pulse!FetchInfo PROVE PulseInv'
<1> USE DEF PulseInv, Pulse!FetchInfo, Pulse!clientVars, Pulse!serverVars
<1>1. /\ UNCHANGED <<setup, level, list, sel, exp, idx, bar, cmd, event, conn, connected, updates, subscribed>>
      /\ at' \in {"snk", "src", "render"} /\ (at' = "render" => PulseKinds = {})
  BY PulseAssumption DEF Pulse!FetchFrom
<1>2. def' \in [PulseKinds -> Pulse!Names \cup {NoName}]
  BY PulseAssumption DEF PulsePlaces
<1>3. PulsePlaces'
  BY <1>1, <1>2 DEF PulsePlaces
<1>4. PulseFlags'
  BY <1>1, Zenon DEF PulseFlags
<1>5. PulseView'
  BY <1>1 DEF PulseView, Selected
<1>6. QED
  BY <1>3, <1>4, <1>5

(* What is fetched from the server is a list of devices. *)
PulseDevices(k) ==
    [i \in 1 .. Len(setup.list[k]) |->
        [name |-> setup.list[k][i], muted |-> level[setup.list[k][i]].muted,
         vol |-> level[setup.list[k][i]].vol]]

LEMMA LevelFields ==
    ASSUME NEW l \in Pulse!Level
    PROVE  l.muted \in BOOLEAN /\ l.vol \in 0 .. MaxVolume + 1
  BY Zenon DEF Pulse!Level

LEMMA DeviceFields ==
    ASSUME NEW d \in Pulse!Device
    PROVE  d.name \in Pulse!Names /\ d.muted \in BOOLEAN /\ d.vol \in 0 .. MaxVolume + 1
  BY Zenon DEF Pulse!Device

LEMMA DevicesFit ==
    ASSUME PulsePlaces, NEW k \in PulseKinds
    PROVE  PulseDevices(k) \in Seq(Pulse!Device)
<1>1. setup.list[k] \in Seq(Pulse!Names)
  BY PulseAssumption DEF PulsePlaces
<1>2. ASSUME NEW i \in 1 .. Len(setup.list[k])
      PROVE  [name |-> setup.list[k][i], muted |-> level[setup.list[k][i]].muted,
              vol |-> level[setup.list[k][i]].vol] \in Pulse!Device
  <2>1. setup.list[k][i] \in Pulse!Names
    BY <1>1
  <2>2. level[setup.list[k][i]] \in Pulse!Level
    BY <2>1 DEF PulsePlaces
  <2>3. QED
    BY <2>1, <2>2, LevelFields, Zenon DEF Pulse!Device
<1>3. Len(setup.list[k]) \in Nat
  BY <1>1
<1>4. QED
  BY <1>2, <1>3, IsASeq DEF PulseDevices

(* The device that is chosen: the selection if there is one, and a monitor
   among the sources only as the selection or the default. *)
LEMMA ChoiceFits ==
    ASSUME PulsePlaces, NEW k \in PulseKinds, NEW devices \in Seq(Pulse!Device)
    PROVE  LET i == Pulse!Choose(k, devices)
           IN  /\ i \in Nat /\ i <= Len(devices)
               /\ sel[k] # NoName /\ (\E j \in 1 .. Len(devices) : devices[j].name = sel[k])
                      => i # 0 /\ devices[i].name = sel[k]
               /\ k = "src" /\ i # 0 /\ devices[i].name \in Monitors
                      => def[k] = devices[i].name \/ sel[k] = devices[i].name
<1> DEFINE hidden == IF k = "src" THEN Monitors ELSE {}
           others == {d.name : d \in Pulse!Range(devices)} \ hidden
           a == Pulse!IndexOf(devices, {sel[k]})
           b == Pulse!IndexOf(devices, {def[k]})
           c == Pulse!IndexOf(devices, others)
           i == Pulse!Choose(k, devices)
<1>1. /\ a \in Nat /\ a <= Len(devices)
      /\ a # 0 => devices[a].name = sel[k]
      /\ a = 0 => \A j \in 1 .. Len(devices) : devices[j].name # sel[k]
  BY IndexFinds
<1>2. b \in Nat /\ b <= Len(devices) /\ (b # 0 => devices[b].name = def[k])
  BY IndexFinds
<1>3. c \in Nat /\ c <= Len(devices) /\ (c # 0 => devices[c].name \in others)
  <2> HIDE DEF others
  <2> QED
    BY IndexFinds
<1>4. k = "src" => \A n \in others : n \notin Monitors
  OBVIOUS
<1>5. i = IF sel[k] # NoName /\ a # 0 THEN a ELSE IF b # 0 THEN b ELSE c
  <2> HIDE DEF a, b, c
  <2>1. i = LET selected == IF sel[k] = NoName THEN 0 ELSE a
            IN  IF selected # 0 THEN selected ELSE IF b # 0 THEN b ELSE c
    BY Zenon DEF Pulse!Choose, a, b, c
  <2> QED
    BY <1>1, <2>1
<1> HIDE DEF a, b, c, i, others
<1>6. QED
  BY <1>1, <1>2, <1>3, <1>4, <1>5 DEF i

LEMMA PulseFetchList ==
    ASSUME PulseInv, NEW k \in PulseKinds, Pulse!FetchList(k)
    PROVE  PulseInv'
<1> USE DEF PulseInv, Pulse!FetchList, Pulse!clientVars, Pulse!serverVars
<1>1. /\ UNCHANGED <<setup, level, def, sel, exp, bar, cmd, event, conn, connected, updates, subscribed>>
      /\ at' \in {"src", "render"} /\ (at' = "render" => \A q \in PulseKinds : q = "src" => q = k)
  BY PulseAssumption DEF Pulse!FetchFrom
<1>2. /\ list' = [list EXCEPT ![k] = PulseDevices(k)]
      /\ idx' = [idx EXCEPT ![k] = Pulse!Choose(k, PulseDevices(k))]
  BY Zenon DEF PulseDevices
<1> DEFINE devices == PulseDevices(k)
           i == Pulse!Choose(k, devices)
<1>3. devices \in Seq(Pulse!Device)
  BY DevicesFit
<1> HIDE DEF devices
<1>4. /\ i \in Nat /\ i <= Len(devices)
      /\ sel[k] # NoName /\ (\E j \in 1 .. Len(devices) : devices[j].name = sel[k])
             => i # 0 /\ devices[i].name = sel[k]
      /\ k = "src" /\ i # 0 /\ devices[i].name \in Monitors
             => def[k] = devices[i].name \/ sel[k] = devices[i].name
  BY <1>3, ChoiceFits
<1>5. list' = [list EXCEPT ![k] = devices] /\ idx' = [idx EXCEPT ![k] = i]
  BY <1>2 DEF devices
<1> HIDE DEF i, Pulse!FetchList
<1>6. PulsePlaces'
  BY <1>1, <1>3, <1>4, <1>5 DEF PulsePlaces
<1>7. PulseFlags'
  BY <1>1, Zenon DEF PulseFlags
<1>8. list[k] \in Seq(Pulse!Device) /\ list \in [PulseKinds -> Seq(Pulse!Device)] /\ idx \in [PulseKinds -> Nat]
  BY DEF PulsePlaces
<1>9. ASSUME NEW q \in PulseKinds PROVE Selected(q)'
  <2>1. CASE q = k
    <3>1. list'[q] = devices /\ idx'[q] = i /\ sel'[q] = sel[q]
      BY <1>1, <1>5, <1>8, <2>1
    <3>2. QED
      BY <1>4, <2>1, <3>1 DEF Selected
  <2>2. CASE q # k
    <3>1. list'[q] = list[q] /\ idx'[q] = idx[q] /\ sel'[q] = sel[q]
      BY <1>1, <1>5, <1>8, <2>2
    <3>2. QED
      BY <3>1 DEF PulseView, Selected
  <2>3. QED
    BY <2>1, <2>2
<1>10. ASSUME NEW q \in PulseKinds, at' = "render" PROVE Justified(q)'
  <2>1. CASE q = "src"
    <3>1. q = k
      BY <1>1, <1>10, <2>1
    <3>2. list'[q] = devices /\ idx'[q] = i /\ sel'[q] = sel[q] /\ def'[q] = def[q]
      BY <1>1, <1>5, <1>8, <3>1
    <3>3. QED
      BY <1>4, <3>1, <3>2 DEF Justified
  <2>2. QED
    BY <2>1 DEF Justified
<1>11. PulseView'
  BY <1>1, <1>9, <1>10 DEF PulseView
<1>12. QED
  BY <1>6, <1>7, <1>11

(* What a block shows of a kind. *)
LEMMA BlockFits ==
    ASSUME PulsePlaces, NEW k \in PulseKinds
    PROVE  /\ idx[k] # 0 => /\ list[k][idx[k]] \in Pulse!Device
                            /\ Pulse!Blocks(k) = [name |-> list[k][idx[k]].name,
                                                  muted |-> list[k][idx[k]].muted,
                                                  vol |-> list[k][idx[k]].vol,
                                                  isDefault |-> def[k] = list[k][idx[k]].name]
                            /\ Pulse!Blocks(k) # Pulse!Nothing
                            /\ Pulse!Blocks(k).name = list[k][idx[k]].name
           /\ Pulse!Blocks(k) \in Pulse!Shown \cup {Pulse!Nothing}
<1>1. CASE idx[k] = 0
  BY <1>1, Zenon DEF Pulse!Blocks
<1>2. CASE idx[k] # 0
  <2> DEFINE d == list[k][idx[k]]
             b == [name |-> d.name, muted |-> d.muted, vol |-> d.vol, isDefault |-> def[k] = d.name]
  <2>1. d \in Pulse!Device
    <3>1. list[k] \in Seq(Pulse!Device) /\ idx[k] \in Nat /\ idx[k] <= Len(list[k])
      BY DEF PulsePlaces
    <3>2. QED
      BY <1>2, <3>1
  <2>2. Pulse!Blocks(k) = b
    BY <1>2, Zenon DEF Pulse!Blocks
  <2> HIDE DEF d
  <2>3. d.name \in Pulse!Names /\ d.muted \in BOOLEAN /\ d.vol \in 0 .. MaxVolume + 1
    BY <2>1, DeviceFields
  <2>4. (def[k] = d.name) \in BOOLEAN
    OBVIOUS
  <2>5. b \in Pulse!Shown
    BY <2>3, <2>4, Zenon DEF Pulse!Shown
  <2>6. b.name # NoName
    BY <2>3, PulseAssumption
  <2>7. b # Pulse!Nothing
    BY <2>6, Zenon DEF Pulse!Nothing
  <2>8. b.name = d.name
    OBVIOUS
  <2>9. QED
    BY <1>2, <2>1, <2>2, <2>5, <2>7, <2>8, Zenon DEF d
<1>3. QED
  BY <1>1, <1>2

LEMMA PulseRender ==
    ASSUME PulseInv, Pulse!Render PROVE PulseInv'
<1> USE DEF PulseInv, Pulse!Render, Pulse!clientVars, Pulse!serverVars
<1>1. /\ UNCHANGED <<setup, level, def, list, sel, exp, idx, cmd, event, conn, connected, updates, subscribed>>
      /\ at' = "select" /\ bar' = [k \in PulseKinds |-> Pulse!Blocks(k)]
  OBVIOUS
<1>2. bar' \in [PulseKinds -> Pulse!Shown \cup {Pulse!Nothing}]
  BY <1>1, BlockFits, Zenon
<1>3. PulsePlaces'
  BY <1>1, <1>2 DEF PulsePlaces
<1>4. PulseFlags'
  BY <1>1, Zenon DEF PulseFlags
<1>5. PulseView'
  BY <1>1 DEF PulseView, Selected, Rendered, Pulse!Blocks
<1>6. QED
  BY <1>3, <1>4, <1>5

LEMMA CommandFields ==
    ASSUME NEW c \in Pulse!Commands
    PROVE  /\ c.do \in {"default", "mute", "volume"} /\ c.name \in Pulse!Names
           /\ c.do = "mute" => c.muted \in BOOLEAN
           /\ c.do = "volume" => c.vol \in 0 .. MaxVolume
<1>1. CASE c \in [do : {"default"}, kind : PulseKinds, name : Pulse!Names]
  BY <1>1
<1>2. CASE c \in [do : {"mute"}, kind : PulseKinds, name : Pulse!Names, muted : BOOLEAN]
  <2>1. c.do = "mute" /\ c.name \in Pulse!Names /\ c.muted \in BOOLEAN
    BY <1>2, Zenon
  <2>2. QED
    BY <2>1
<1>3. CASE c \in [do : {"volume"}, kind : PulseKinds, name : Pulse!Names, vol : 0 .. MaxVolume]
  BY <1>3
<1>4. QED
  BY <1>1, <1>2, <1>3 DEF Pulse!Commands

LEMMA PulseCommand ==
    ASSUME PulseInv, Pulse!CommandDone PROVE PulseInv'
<1> USE DEF PulseInv, Pulse!CommandDone, Pulse!clientVars, Pulse!viewVars
<1>1. /\ UNCHANGED <<def, list, sel, exp, idx, bar, conn, connected, updates, subscribed>>
      /\ at = "command" /\ at' = "select" /\ cmd' = Pulse!NoCmd /\ conn
      /\ event' = (event \/ <<setup', level'>> # <<setup, level>>)
  OBVIOUS
<1>2. cmd \in Pulse!Commands
  BY <1>1 DEF PulsePlaces
<1>3. setup' \in Setups
  BY DEF PulsePlaces
<1>4. level' \in [Pulse!Names -> Pulse!Level]
  <2>1. level \in [Pulse!Names -> Pulse!Level] /\ cmd.name \in Pulse!Names
    BY <1>2, CommandFields DEF PulsePlaces
  <2>2. level[cmd.name] \in Pulse!Level
    BY <2>1
  <2>3. CASE cmd.do = "default"
    BY <2>1, <2>3
  <2>4. CASE cmd.do = "mute"
    <3>1. level' = [level EXCEPT ![cmd.name].muted = cmd.muted] /\ cmd.muted \in BOOLEAN
      BY <1>2, <2>4, CommandFields
    <3>2. [level[cmd.name] EXCEPT !.muted = cmd.muted] \in Pulse!Level
      BY <2>2, <3>1, Zenon DEF Pulse!Level
    <3>3. level' = [level EXCEPT ![cmd.name] = [level[cmd.name] EXCEPT !.muted = cmd.muted]]
      BY <3>1
    <3> HIDE DEF Pulse!CommandDone
    <3>4. QED
      BY <2>1, <3>2, <3>3
  <2>5. CASE cmd.do = "volume"
    <3>1. level' = [level EXCEPT ![cmd.name].vol = cmd.vol] /\ cmd.vol \in 0 .. MaxVolume + 1
      <4>1. cmd.vol \in 0 .. MaxVolume
        BY <1>2, <2>5, CommandFields
      <4>2. QED
        BY <2>5, <4>1, PulseAssumption
    <3>2. [level[cmd.name] EXCEPT !.vol = cmd.vol] \in Pulse!Level
      BY <2>2, <3>1, Zenon DEF Pulse!Level
    <3>3. level' = [level EXCEPT ![cmd.name] = [level[cmd.name] EXCEPT !.vol = cmd.vol]]
      BY <3>1
    <3> HIDE DEF Pulse!CommandDone
    <3>4. QED
      BY <2>1, <3>2, <3>3
  <2>6. QED
    BY <1>2, <2>3, <2>4, <2>5, CommandFields
<1>5. PulsePlaces'
  BY <1>1, <1>3, <1>4 DEF PulsePlaces
<1>6. PulseFlags'
  <2>1. event' \in BOOLEAN
    BY <1>1, Zenon
  <2>2. QED
    BY <1>1, <2>1, Zenon DEF PulseFlags
<1>7. PulseView'
  BY <1>1, ViewStays
<1>8. QED
  BY <1>5, <1>6, <1>7

LEMMA ClampedVolume ==
    ASSUME NEW v \in Int, MaxVolume \in Nat
    PROVE  Pulse!Clamped(v) \in 0 .. MaxVolume
  BY DEF Pulse!Clamped

LEMMA PulseClickCommand ==
    ASSUME PulseInv, NEW k \in PulseKinds, Pulse!ClickCommand(k)
    PROVE  PulseInv'
<1> USE DEF PulseInv, Pulse!ClickCommand, Pulse!Click, Pulse!clientVars, Pulse!serverVars, Pulse!viewVars
<1>1. /\ UNCHANGED <<setup, level, def, list, sel, exp, idx, bar, event, conn, connected, updates, subscribed>>
      /\ at = "select" /\ at' = "command" /\ idx[k] # 0
  OBVIOUS
<1> DEFINE d == list[k][idx[k]]
<1>2. d \in Pulse!Device
  BY <1>1, BlockFits
<1>3. d.name \in Pulse!Names /\ d.muted \in BOOLEAN /\ d.vol \in 0 .. MaxVolume + 1
  BY <1>2, DeviceFields
<1>4. Pulse!Clamped(d.vol + 1) \in 0 .. MaxVolume /\ Pulse!Clamped(d.vol - 1) \in 0 .. MaxVolume
  <2>1. MaxVolume \in Nat /\ d.vol \in Nat
    BY <1>3, PulseAssumption
  <2>2. d.vol + 1 \in Int /\ d.vol - 1 \in Int
    BY <2>1
  <2>3. QED
    BY <2>1, <2>2, ClampedVolume
<1>5. cmd' \in {[do |-> "default", kind |-> k, name |-> d.name],
                [do |-> "mute", kind |-> k, name |-> d.name, muted |-> ~d.muted],
                [do |-> "volume", kind |-> k, name |-> d.name, vol |-> Pulse!Clamped(d.vol + 1)],
                [do |-> "volume", kind |-> k, name |-> d.name, vol |-> Pulse!Clamped(d.vol - 1)]}
  BY Zenon
<1> HIDE DEF d, Pulse!ClickCommand
<1>6. cmd' \in Pulse!Commands
  <2>1. [do |-> "default", kind |-> k, name |-> d.name] \in Pulse!Commands
    BY <1>3, Zenon DEF Pulse!Commands
  <2>2. [do |-> "mute", kind |-> k, name |-> d.name, muted |-> ~d.muted] \in Pulse!Commands
    <3>1. (~d.muted) \in BOOLEAN
      BY Zenon
    <3>2. QED
      BY <1>3, <3>1, Zenon DEF Pulse!Commands
  <2>3. ASSUME NEW v \in 0 .. MaxVolume
        PROVE  [do |-> "volume", kind |-> k, name |-> d.name, vol |-> v] \in Pulse!Commands
    BY <1>3, Zenon DEF Pulse!Commands
  <2>4. QED
    BY <1>4, <1>5, <2>1, <2>2, <2>3, Zenon
<1>7. PulsePlaces'
  BY <1>1, <1>6 DEF PulsePlaces
<1>8. PulseFlags'
  BY <1>1, Zenon DEF PulseFlags
<1>9. PulseView'
  BY <1>1, ViewStays
<1>10. QED
  BY <1>7, <1>8, <1>9

LEMMA PulseExpand ==
    ASSUME PulseInv, NEW k \in PulseKinds, Pulse!ClickExpand(k)
    PROVE  PulseInv'
<1> USE DEF PulseInv, Pulse!ClickExpand, Pulse!Click, Pulse!clientVars, Pulse!serverVars
<1>1. /\ UNCHANGED <<setup, level, def, list, idx, bar, cmd, event, conn, connected, updates, subscribed>>
      /\ at = "select" /\ at' = "render"
      /\ exp' = [exp EXCEPT ![k] = ~exp[k]]
      /\ sel' = [sel EXCEPT ![k] = IF exp[k] THEN NoName ELSE sel[k]]
  OBVIOUS
<1> HIDE DEF Pulse!ClickExpand
<1>2. sel \in [PulseKinds -> Pulse!Names \cup {NoName}]
  BY DEF PulsePlaces
<1>3. \A q \in PulseKinds : sel'[q] = sel[q] \/ sel'[q] = NoName
  BY <1>1, <1>2
<1>4. sel' \in [PulseKinds -> Pulse!Names \cup {NoName}]
  BY <1>1, <1>2
<1>5. PulsePlaces'
  BY <1>1, <1>4 DEF PulsePlaces
<1>6. PulseFlags'
  <2>1. (~exp[k]) \in BOOLEAN /\ exp \in [PulseKinds -> BOOLEAN]
    BY Zenon DEF PulseFlags
  <2>2. exp' \in [PulseKinds -> BOOLEAN]
    BY <1>1, <2>1, Zenon
  <2>3. QED
    BY <1>1, <2>2, Zenon DEF PulseFlags
<1>7. \A q \in PulseKinds : Selected(q)'
  BY <1>1, <1>3 DEF PulseView, Selected
<1>8. ASSUME NEW q \in PulseKinds PROVE Justified(q)'
  <2>1. ASSUME idx[q] # 0, list[q][idx[q]].name \in Monitors PROVE Pulse!ShowsMonitor(q)'
    <3>1. bar[q] = Pulse!Blocks(q) /\ bar'[q] = bar[q]
      BY <1>1 DEF PulseView, Rendered
    <3>2. bar[q] # Pulse!Nothing /\ bar[q].name = list[q][idx[q]].name
      BY <2>1, <3>1, BlockFits
    <3>3. QED
      BY <1>1, <2>1, <3>2 DEF Pulse!ShowsMonitor, Pulse!IsMonitor
  <2>2. QED
    BY <1>1, <2>1 DEF Justified
<1>9. PulseView'
  BY <1>1, <1>7, <1>8 DEF PulseView
<1>10. QED
  BY <1>5, <1>6, <1>9

LEMMA PulseScroll ==
    ASSUME PulseInv, NEW k \in PulseKinds, NEW dir \in Int, Pulse!ClickScroll(k, dir)
    PROVE  PulseInv'
<1> USE DEF PulseInv
<1>1. /\ UNCHANGED <<setup, level, def, list, exp, bar, cmd, event, conn, connected, updates, subscribed>>
      /\ at = "select" /\ at' = "render" /\ idx[k] # 0
  BY DEF Pulse!ClickScroll, Pulse!Click, Pulse!clientVars, Pulse!serverVars
<1>2. PICK d \in 1 .. Len(list[k]) :
          /\ Pulse!MayStop(k, Pulse!Around(k, dir * d))
          /\ idx' = [idx EXCEPT ![k] = Pulse!Around(k, dir * d)]
          /\ sel' = [sel EXCEPT ![k] = list[k][Pulse!Around(k, dir * d)].name]
  BY DEF Pulse!ClickScroll
<1> DEFINE i == Pulse!Around(k, dir * d)
<1>3. list[k] \in Seq(Pulse!Device) /\ idx[k] \in Nat /\ idx[k] <= Len(list[k])
  BY DEF PulsePlaces
<1>4. i \in 1 .. Len(list[k])
  <2>1. Len(list[k]) \in Nat \ {0} /\ d \in Int
    BY <1>1, <1>3
  <2>2. dir * d \in Int
    BY <2>1, Z3
  <2> DEFINE m == (idx[k] - 1 + dir * d) % Len(list[k])
  <2>3. idx[k] - 1 + dir * d \in Int
    BY <1>3, <2>2
  <2>4. m \in Int /\ 0 <= m /\ m < Len(list[k])
    BY <2>1, <2>3, Remainder
  <2>5. i = m + 1
    BY Zenon DEF Pulse!Around
  <2> HIDE DEF m, i
  <2>6. QED
    BY <2>1, <2>4, <2>5
<1>5. list[k][i] \in Pulse!Device
  BY <1>3, <1>4
<1>6. list[k][i].name \in Pulse!Names
  BY <1>5, DeviceFields
<1>7. idx' = [idx EXCEPT ![k] = i] /\ sel' = [sel EXCEPT ![k] = list[k][i].name]
  BY <1>2
<1>8. k = "snk" \/ list[k][idx[k]].name \in Monitors \/ list[k][i].name \notin Monitors
  BY <1>2 DEF Pulse!MayStop, Pulse!IsMonitor
<1> HIDE DEF i
<1>9. /\ sel \in [PulseKinds -> Pulse!Names \cup {NoName}] /\ idx \in [PulseKinds -> Nat]
  BY DEF PulsePlaces
<1>10. \A q \in PulseKinds : /\ q = k => idx'[q] = i /\ sel'[q] = list[k][i].name
                             /\ q # k => idx'[q] = idx[q] /\ sel'[q] = sel[q]
  BY <1>7, <1>9
<1>11. PulsePlaces'
  <2>1. /\ sel' \in [PulseKinds -> Pulse!Names \cup {NoName}] /\ idx' \in [PulseKinds -> Nat]
    BY <1>3, <1>4, <1>6, <1>7, <1>9
  <2>2. \A q \in PulseKinds : idx'[q] <= Len(list'[q])
    <3>1. i <= Len(list[k])
      BY <1>4
    <3>2. \A q \in PulseKinds : idx[q] <= Len(list[q])
      BY DEF PulsePlaces
    <3>3. QED
      BY <1>1, <1>10, <3>1, <3>2
  <2>3. QED
    BY <1>1, <2>1, <2>2 DEF PulsePlaces
<1>12. PulseFlags'
  BY <1>1, Zenon DEF PulseFlags
<1>13. ASSUME NEW q \in PulseKinds PROVE Selected(q)'
  <2>1. CASE q = k
    <3>1. i # 0
      BY <1>4
    <3>2. QED
      BY <1>1, <1>10, <2>1, <3>1 DEF Selected
  <2>2. CASE q # k
    BY <1>1, <1>10, <2>2 DEF Selected, PulseView
  <2>3. QED
    BY <2>1, <2>2
<1>14. ASSUME NEW q \in PulseKinds PROVE Justified(q)'
  <2>1. CASE q = k
    BY <1>1, <1>10, <2>1 DEF Justified
  <2>2. CASE q # k
    <3>1. ASSUME idx[q] # 0, list[q][idx[q]].name \in Monitors PROVE Pulse!ShowsMonitor(q)'
      <4>1. bar[q] = Pulse!Blocks(q) /\ bar'[q] = bar[q]
        BY <1>1 DEF PulseView, Rendered
      <4>2. bar[q] # Pulse!Nothing /\ bar[q].name = list[q][idx[q]].name
        BY <3>1, <4>1, BlockFits
      <4>3. QED
        BY <1>1, <3>1, <4>2 DEF Pulse!ShowsMonitor, Pulse!IsMonitor
    <3>2. QED
      BY <1>1, <1>10, <2>2, <3>1 DEF Justified
  <2>3. QED
    BY <2>1, <2>2
<1>15. PulseView'
  BY <1>1, <1>13, <1>14 DEF PulseView
<1>16. QED
  BY <1>11, <1>12, <1>15

LEMMA PulseStep == PulseInv /\ [Pulse!Next]_Pulse!vars => PulseInv'
<1> SUFFICES ASSUME PulseInv, [Pulse!Next]_Pulse!vars PROVE PulseInv'
  OBVIOUS
<1>1. CASE Pulse!Change \/ Pulse!Notify \/ Pulse!Disconnect \/ Pulse!LoopEnds
  BY <1>1, PulseServer, Zenon
<1>2. CASE Pulse!Round
  <2>1. CASE \E k \in PulseKinds : Pulse!FetchList(k)
    BY <2>1, PulseFetchList, Zenon
  <2>2. QED
    BY <1>2, <2>1, PulseMoves, PulseFetchInfo, PulseRender, PulseCommand, Zenon DEF Pulse!Round
<1>3. CASE Pulse!Clicks
  <2>1. ASSUME NEW k \in PulseKinds, NEW dir \in {1, -1}, Pulse!ClickScroll(k, dir) PROVE PulseInv'
    <3>1. dir \in Int
      OBVIOUS
    <3>2. QED
      BY <2>1, <3>1, PulseScroll, Zenon
  <2>2. QED
    BY <1>3, <2>1, PulseMoves, PulseClickCommand, PulseExpand, Zenon DEF Pulse!Clicks
<1>4. CASE UNCHANGED Pulse!vars
  <2>1. UNCHANGED <<setup, level, event, conn, connected, subscribed, updates, at, def, list,
                    sel, exp, idx, bar, cmd>>
    BY <1>4, Zenon DEF Pulse!vars, Pulse!serverVars, Pulse!clientVars, Pulse!viewVars
  <2>2. PulsePlaces'
    BY <2>1 DEF PulseInv, PulsePlaces
  <2>3. PulseFlags'
    BY <2>1, Zenon DEF PulseInv, PulseFlags
  <2>4. PulseView'
    BY <2>1, ViewStays DEF PulseInv
  <2>5. QED
    BY <2>2, <2>3, <2>4 DEF PulseInv
<1>5. QED
  BY <1>1, <1>2, <1>3, <1>4, Zenon DEF Pulse!Next

LEMMA PulseSafe == PulseInv => Pulse!SelectionSticks
<1> SUFFICES ASSUME PulseInv, NEW k \in PulseKinds, at = "select", sel[k] # NoName,
                    sel[k] \in {d.name : d \in Pulse!Range(list[k])}
             PROVE  bar[k] # Pulse!Nothing /\ bar[k].name = sel[k]
  BY Zenon DEF Pulse!SelectionSticks
<1>1. \E i \in 1 .. Len(list[k]) : list[k][i].name = sel[k]
  <2>1. list[k] \in Seq(Pulse!Device)
    BY DEF PulseInv, PulsePlaces
  <2>2. QED
    BY <2>1 DEF Pulse!Range
<1>2. idx[k] # 0 /\ list[k][idx[k]].name = sel[k]
  BY <1>1 DEF PulseInv, PulseView, Selected
<1>3. bar[k] = Pulse!Blocks(k)
  BY DEF PulseInv, PulseView, Rendered
<1>4. QED
  BY <1>2, <1>3, BlockFits DEF PulseInv

(* A step that changes what is in view, or what is selected. *)
LEMMA PulseHides ==
    PulseInv /\ [Pulse!Next]_Pulse!vars => Pulse!HidesMonitors
<1> SUFFICES ASSUME PulseInv, [Pulse!Next]_Pulse!vars, NEW k \in PulseKinds \ {"snk"}
             PROVE  /\ Pulse!ShowsMonitor(k)' => \/ Pulse!ShowsMonitor(k)
                                                 \/ bar'[k].isDefault
                                                 \/ sel[k] = bar'[k].name
                    /\ Pulse!IsMonitor(sel'[k]) => sel'[k] = sel[k] \/ Pulse!ShowsMonitor(k)
  BY Zenon DEF Pulse!HidesMonitors
<1>1. k = "src"
  BY PulseAssumption
<1>2. CASE Pulse!Render
  <2>1. UNCHANGED sel /\ bar'[k] = Pulse!Blocks(k) /\ at = "render"
    BY <1>2 DEF Pulse!Render
  <2>2. ASSUME Pulse!ShowsMonitor(k)'
        PROVE  Pulse!ShowsMonitor(k) \/ bar'[k].isDefault \/ sel[k] = bar'[k].name
    <3>1. Pulse!Blocks(k) # Pulse!Nothing /\ Pulse!Blocks(k).name \in Monitors
      BY <2>1, <2>2 DEF Pulse!ShowsMonitor, Pulse!IsMonitor
    <3>2. idx[k] # 0
      BY <3>1 DEF Pulse!Blocks
    <3>3. /\ Pulse!Blocks(k).name = list[k][idx[k]].name
          /\ Pulse!Blocks(k).isDefault = (def[k] = list[k][idx[k]].name)
      BY <3>2, BlockFits DEF PulseInv
    <3>4. Justified(k)
      BY <2>1, Zenon DEF PulseInv, PulseView
    <3>5. QED
      BY <1>1, <2>1, <3>1, <3>2, <3>3, <3>4 DEF Justified
  <2>3. QED
    BY <2>1, <2>2
<1>3. CASE \E q \in PulseKinds : Pulse!ClickExpand(q)
  <2>1. UNCHANGED bar /\ (sel'[k] = sel[k] \/ sel'[k] = NoName)
    BY <1>3 DEF Pulse!ClickExpand, PulseInv, PulsePlaces
  <2>2. QED
    BY <2>1, PulseAssumption DEF Pulse!ShowsMonitor, Pulse!IsMonitor
<1>4. CASE \E q \in PulseKinds : \E dir \in {1, -1} : Pulse!ClickScroll(q, dir)
  <2>1. PICK q \in PulseKinds, dir \in {1, -1} : Pulse!ClickScroll(q, dir)
    BY <1>4
  <2>2. UNCHANGED bar /\ idx[q] # 0 /\ at = "select"
    BY <2>1 DEF Pulse!ClickScroll, Pulse!Click
  <2>3. PICK d \in 1 .. Len(list[q]) :
            /\ Pulse!MayStop(q, Pulse!Around(q, dir * d))
            /\ sel' = [sel EXCEPT ![q] = list[q][Pulse!Around(q, dir * d)].name]
    BY <2>1 DEF Pulse!ClickScroll
  <2>4. sel \in [PulseKinds -> Pulse!Names \cup {NoName}]
    BY DEF PulseInv, PulsePlaces
  <2>5. CASE q # k
    BY <2>2, <2>3, <2>4, <2>5 DEF Pulse!ShowsMonitor, Pulse!IsMonitor
  <2>6. CASE q = k
    <3> DEFINE i == Pulse!Around(q, dir * d)
    <3>1. list[k][idx[k]].name \in Monitors \/ list[k][i].name \notin Monitors
      BY <1>1, <2>3, <2>6 DEF Pulse!MayStop, Pulse!IsMonitor
    <3>2. sel'[k] = list[k][i].name
      BY <2>3, <2>4, <2>6
    <3> HIDE DEF i
    <3>3. bar[k] # Pulse!Nothing /\ bar[k].name = list[k][idx[k]].name
      <4>1. bar[k] = Pulse!Blocks(k)
        BY <2>2 DEF PulseInv, PulseView, Rendered
      <4>2. QED
        BY <2>2, <2>6, <4>1, BlockFits DEF PulseInv
    <3>4. QED
      BY <2>2, <3>1, <3>2, <3>3 DEF Pulse!ShowsMonitor, Pulse!IsMonitor
  <2>7. QED
    BY <2>5, <2>6
<1>5. CASE UNCHANGED <<bar, sel>>
  BY <1>5 DEF Pulse!ShowsMonitor
<1>6. QED
  <2>1. \/ Pulse!Render
        \/ \E q \in PulseKinds : Pulse!ClickExpand(q)
        \/ \E q \in PulseKinds : \E dir \in {1, -1} : Pulse!ClickScroll(q, dir)
        \/ UNCHANGED <<bar, sel>>
    BY DEF Pulse!Next, Pulse!Round, Pulse!Clicks, Pulse!Change, Pulse!Notify, Pulse!Disconnect,
           Pulse!LoopEnds, Pulse!Subscribe, Pulse!Disconnected, Pulse!FetchInfo, Pulse!FetchList,
           Pulse!TakeUpdate, Pulse!Debounced, Pulse!CommandDone, Pulse!CommandFails,
           Pulse!Unanswered, Pulse!ClickDisconnected, Pulse!ClickIgnored, Pulse!ClickCommand,
           Pulse!vars, Pulse!viewVars
  <2>2. QED
    BY <1>2, <1>3, <1>4, <1>5, <2>1, Zenon

-----------------------------------------------------------------------------
(* The modules that show an object of a bus.                               *)
Signals == {"owner", "properties", "other owner", "other"}

BusPlaces ==
    /\ kind \in BusKinds /\ value \in 0 .. Bus!N - 1
    /\ ch \in Seq(Signals) /\ Len(ch) <= BusCap
    /\ at \in {"register", "first", "second", "render", "select", "failed"}
    /\ fetched \in Bus!Failing .. Bus!N - 1 /\ bar \in Bus!Failing .. Bus!N - 1

BusFlags == running \in BOOLEAN /\ lost \in BOOLEAN

BusInv == BusPlaces /\ BusFlags

LEMMA BusTypes == BusInv => Bus!TypeOK
  BY DEF BusInv, BusPlaces, BusFlags, Signals, Bus!TypeOK

(* A service has something to show. *)
LEMMA BusNumbers ==
    ASSUME kind \in BusKinds
    PROVE  Bus!N \in Nat \ {0} /\ (kind' = kind => Bus!N' = Bus!N)
<1>1. kind \in {"dunst", "power", "bluez", "battery", "mako"}
  BY BusAssumption
<1>2. Bus!N \in Nat \ {0}
  BY <1>1 DEF Bus!N
<1>3. kind' = kind => Bus!N' = Bus!N
  BY Zenon DEF Bus!N
<1>4. QED
  BY <1>2, <1>3

LEMMA BusInit == Bus!Init => BusInv
<1> SUFFICES ASSUME Bus!Init PROVE BusInv
  OBVIOUS
<1>1. /\ kind \in BusKinds /\ value = 0 /\ ch = << >> /\ at = "register"
      /\ fetched = -1 /\ bar = -1
  BY DEF Bus!Init, Bus!Gone
<1>2. Bus!N \in Nat \ {0}
  BY <1>1, BusNumbers
<1>3. ch \in Seq(Signals) /\ Len(ch) = 0
  BY <1>1
<1>4. BusPlaces
  BY <1>1, <1>2, <1>3, BusAssumption DEF BusPlaces, Bus!Failing
<1>5. BusFlags
  BY Zenon DEF Bus!Init, BusFlags
<1>6. QED
  BY <1>4, <1>5 DEF BusInv

(* A signal that is delivered, or is not. *)
LEMMA BusDelivers ==
    ASSUME BusPlaces, NEW sig \in Signals,
           Bus!Deliver(sig) \/ UNCHANGED ch
    PROVE  /\ ch' \in Seq(Signals)
           /\ Len(ch') <= BusCap
<1>1. (ch' = Append(ch, sig) /\ Len(ch) < BusCap) \/ UNCHANGED ch
  BY DEF Bus!Deliver
<1>2. ch \in Seq(Signals) /\ Len(ch) <= BusCap
  BY DEF BusPlaces
<1>3. CASE ch' = Append(ch, sig) /\ Len(ch) < BusCap
  <2>1. ch' \in Seq(Signals) /\ Len(ch') = Len(ch) + 1
    BY <1>2, <1>3, AppendProperties
  <2>2. Len(ch) \in Nat
    BY <1>2, LenProperties
  <2>3. QED
    BY <1>3, <2>1, <2>2, BusAssumption
<1>4. QED
  BY <1>1, <1>2, <1>3

LEMMA BusLoses ==
    ASSUME BusFlags, NEW sig, Bus!Deliver(sig) \/ UNCHANGED lost
    PROVE  lost' \in BOOLEAN
  BY Zenon DEF BusFlags, Bus!Deliver

(* What the service does, and a click that sets the next value. *)
LEMMA BusService ==
    ASSUME BusInv,
           \/ Bus!ServiceComesOrGoes \/ Bus!ServiceChanges \/ Bus!OthersSignal
           \/ Bus!ClickDunst \/ Bus!ClickPower \/ Bus!ClickBluez \/ Bus!ClickMako
    PROVE  BusInv'
<1> USE DEF BusInv, Bus!ServiceComesOrGoes, Bus!ServiceChanges, Bus!OthersSignal,
            Bus!ClickDunst, Bus!ClickPower, Bus!ClickBluez, Bus!ClickMako, Bus!SetNext
<1>1. UNCHANGED <<kind, fetched, bar>> /\ (at' = at \/ at' = "failed")
  OBVIOUS
<1>2. \E sig \in Signals :
          Bus!Deliver(sig) \/ UNCHANGED <<ch, lost>>
  BY DEF Signals
<1>3. value' = value \/ value' = (value + 1) % Bus!N \/ value' = (fetched + 1) % Bus!N
  OBVIOUS
<1>4. running' = running \/ running' = ~running
  OBVIOUS
<1>5. Bus!N \in Nat \ {0} /\ Bus!N' = Bus!N
  BY <1>1, BusNumbers DEF BusPlaces
<1> HIDE DEF Bus!ServiceComesOrGoes, Bus!ServiceChanges, Bus!OthersSignal,
             Bus!ClickDunst, Bus!ClickPower, Bus!ClickBluez, Bus!ClickMako, Bus!SetNext
<1>6. value' \in 0 .. Bus!N - 1
  <2>1. value \in 0 .. Bus!N - 1 /\ value + 1 \in Int /\ fetched + 1 \in Int
    <3>1. value \in 0 .. Bus!N - 1 /\ fetched \in Bus!Failing .. Bus!N - 1
      BY Zenon DEF BusPlaces
    <3>2. QED
      BY <1>5, <3>1 DEF Bus!Failing
  <2>2. /\ (value + 1) % Bus!N \in 0 .. Bus!N - 1
        /\ (fetched + 1) % Bus!N \in 0 .. Bus!N - 1
    BY <1>5, <2>1, Remainder
  <2>3. QED
    BY <1>3, <2>1, <2>2, Zenon
<1>7. BusPlaces'
  <2>1. ch' \in Seq(Signals) /\ Len(ch') <= BusCap
    BY <1>2, BusDelivers
  <2>2. value' \in 0 .. Bus!N' - 1
    BY <1>5, <1>6
  <2>3. fetched' \in Bus!Failing .. Bus!N' - 1 /\ bar' \in Bus!Failing .. Bus!N' - 1
    BY <1>1, <1>5 DEF BusPlaces
  <2>4. QED
    BY <1>1, <2>1, <2>2, <2>3 DEF BusPlaces
<1>8. BusFlags'
  <2>1. lost' \in BOOLEAN
    BY <1>2, BusLoses, Zenon
  <2>2. running' \in BOOLEAN
    BY <1>4, Zenon DEF BusFlags
  <2>3. QED
    BY <2>1, <2>2, Zenon DEF BusFlags
<1>9. QED
  BY <1>7, <1>8

LEMMA BusRound ==
    ASSUME BusInv, Bus!Round PROVE BusInv'
<1> USE DEF BusInv, Bus!Round, Bus!Register, Bus!Fetch, Bus!FetchDunst, Bus!FetchPower,
            Bus!FetchBluez, Bus!FetchBattery, Bus!FetchMako, Bus!Render, Bus!HandleSignal
<1>1. UNCHANGED <<kind, value, running, lost>>
  OBVIOUS
<1>2. at' \in {"first", "second", "render", "select", "failed"}
  OBVIOUS
<1>3. ch' = ch \/ (ch # << >> /\ ch' = Tail(ch))
  OBVIOUS
<1>4. fetched' \in {fetched, value, 0, Bus!Gone, Bus!Failing}
  OBVIOUS
<1>5. bar' \in {bar, fetched}
  OBVIOUS
<1> HIDE DEF Bus!Round, Bus!Register, Bus!Fetch, Bus!FetchDunst, Bus!FetchPower,
             Bus!FetchBluez, Bus!FetchBattery, Bus!FetchMako, Bus!Render, Bus!HandleSignal
<1>6. Bus!N \in Nat \ {0} /\ Bus!N' = Bus!N
  BY <1>1, BusNumbers DEF BusPlaces
<1>7. BusPlaces'
  <2>1. ch' \in Seq(Signals) /\ Len(ch') <= BusCap
    <3>1. ch \in Seq(Signals) /\ Len(ch) <= BusCap
      BY DEF BusPlaces
    <3>2. CASE ch # << >> /\ ch' = Tail(ch)
      <4>1. ch' \in Seq(Signals) /\ Len(ch') = Len(ch) - 1 /\ Len(ch) \in Nat
        BY <3>1, <3>2, HeadTailProperties, LenProperties
      <4>2. QED
        BY <3>1, <4>1, BusAssumption
    <3>3. QED
      BY <1>3, <3>1, <3>2
  <2>2. fetched' \in Bus!Failing .. Bus!N - 1 /\ bar' \in Bus!Failing .. Bus!N - 1
    <3>1. /\ value \in 0 .. Bus!N - 1 /\ fetched \in Bus!Failing .. Bus!N - 1
          /\ bar \in Bus!Failing .. Bus!N - 1
      BY Zenon DEF BusPlaces
    <3>2. /\ 0 \in Bus!Failing .. Bus!N - 1 /\ Bus!Gone \in Bus!Failing .. Bus!N - 1
          /\ Bus!Failing \in Bus!Failing .. Bus!N - 1 /\ value \in Bus!Failing .. Bus!N - 1
      BY <1>6, <3>1 DEF Bus!Gone, Bus!Failing
    <3>3. QED
      BY <1>4, <1>5, <3>1, <3>2, Zenon
  <2>3. QED
    BY <1>1, <1>2, <1>6, <2>1, <2>2 DEF BusPlaces
<1>8. BusFlags'
  BY <1>1, Zenon DEF BusFlags
<1>9. QED
  BY <1>7, <1>8

LEMMA BusStep == BusInv /\ [Bus!Next]_Bus!vars => BusInv'
<1> SUFFICES ASSUME BusInv, [Bus!Next]_Bus!vars PROVE BusInv'
  OBVIOUS
<1>1. CASE Bus!Next
  BY <1>1, BusService, BusRound, Zenon DEF Bus!Next
<1>2. CASE UNCHANGED Bus!vars
  <2>1. UNCHANGED <<kind, running, value, ch, lost, at, fetched, bar>>
    BY <1>2, Zenon DEF Bus!vars
  <2>2. Bus!N' = Bus!N
    BY <2>1, Zenon DEF Bus!N
  <2>3. QED
    BY <2>1, <2>2, Zenon DEF BusInv, BusPlaces, BusFlags
<1>3. QED
  BY <1>1, <1>2

-----------------------------------------------------------------------------
(* The XRandR module.                                                      *)

(* What is offered, and what is selected of it. *)
Arrangements == [label : Labels, l : [pri : Place, sec : Place]]
Listed(ls, label) == label = XRandR!NoLabel \/ XRandR!HasLabel(ls, label)

XRandRPlaces ==
    /\ connected \in {{1}, {1, 2}} /\ primary \in {1, 2}
    /\ at \in {"outputs", "crtcs", "render", "select", "failed"}
    /\ outputs \in Seq({1, 2}) /\ Len(outputs) <= 2
    /\ layouts \in Seq(Arrangements)
    /\ Listed(layouts, active)
    /\ at \in {"render", "select"} => Listed(layouts, selection)

XRandRFlags == events \in BOOLEAN /\ selecting \in BOOLEAN

XRandRInv == XRandRPlaces /\ XRandRFlags

LEMMA XRandRTypes == XRandRInv => XRandR!TypeOK
  BY DEF XRandRInv, XRandRPlaces, XRandRFlags, Listed, XRandR!TypeOK

LEMMA XRandRInit == XRandR!Init => XRandRInv
<1> SUFFICES ASSUME XRandR!Init PROVE XRandRInv
  OBVIOUS
<1>1. XRandRPlaces
  BY DEF XRandR!Init, XRandRPlaces, Listed
<1>2. XRandRFlags
  BY Zenon DEF XRandR!Init, XRandRFlags
<1>3. QED
  BY <1>1, <1>2 DEF XRandRInv

(* The first place of a label. *)
LEMMA LabelFound ==
    ASSUME NEW ls \in Seq(Arrangements), NEW label
    PROVE  XRandR!IndexOf(ls, label) \in Int
<1> DEFINE hits == {i \in DOMAIN ls : ls[i].label = label}
<1>1. hits \in SUBSET Nat
  OBVIOUS
<1>2. XRandR!IndexOf(ls, label) = IF hits = {} THEN 0 ELSE XRandR!Min(hits)
  BY Zenon DEF XRandR!IndexOf, XRandR!First
<1>3. hits # {} => XRandR!Min(hits) \in hits
  <2> HIDE DEF hits
  <2> QED
    BY <1>1, LeastNatural DEF XRandR!Min
<1>4. QED
  BY <1>1, <1>2, <1>3

(* The active layout is one of the layouts. *)
LEMMA ActiveListed ==
    ASSUME NEW ls \in Seq(Arrangements), NEW pri, NEW sec, NEW current
    PROVE  Listed(ls, XRandR!Active(ls, pri, sec, current))
<1> DEFINE matches == {i \in 1 .. Len(ls) : /\ XRandR!SamePlace(ls[i].l.pri, current[pri])
                                            /\ XRandR!SamePlace(ls[i].l.sec, current[sec])}
           first == XRandR!First(matches)
<1>1. XRandR!Active(ls, pri, sec, current) = IF matches = {} THEN XRandR!NoLabel ELSE ls[first].label
  BY Zenon DEF XRandR!Active
<1>2. matches \in SUBSET Nat /\ matches \subseteq 1 .. Len(ls)
  OBVIOUS
<1>3. ASSUME matches # {} PROVE first \in matches
  <2> HIDE DEF matches
  <2>1. first = XRandR!Min(matches)
    BY <1>3 DEF XRandR!First
  <2>2. QED
    BY <1>2, <1>3, <2>1, LeastNatural DEF XRandR!Min
<1> HIDE DEF matches, first
<1>4. QED
  BY <1>1, <1>2, <1>3 DEF Listed, XRandR!HasLabel

LEMMA XRandRFetchCrtcs ==
    ASSUME XRandRInv, XRandR!FetchCrtcs PROVE XRandRInv'
<1> USE DEF XRandRInv
<1>1. /\ UNCHANGED <<connected, primary, events, outputs>> /\ at' = "render"
      /\ layouts' = IF Len(outputs) = 2 THEN LayoutsOf[outputs[1]] ELSE << >>
      /\ active' = IF Len(outputs) = 2
                   THEN XRandR!Active(layouts', outputs[1], outputs[2], crtcs) ELSE XRandR!NoLabel
  BY DEF XRandR!FetchCrtcs, XRandR!serverVars
<1>2. selection' = IF selecting /\ XRandR!HasLabel(layouts', selection) THEN selection
                   ELSE IF active' # XRandR!NoLabel THEN active'
                   ELSE IF layouts' # << >> THEN layouts'[1].label ELSE XRandR!NoLabel
  BY Zenon DEF XRandR!FetchCrtcs
<1>3. selecting' = (selecting /\ XRandR!HasLabel(layouts', selection) /\ selection # active')
  BY Zenon DEF XRandR!FetchCrtcs
<1>4. layouts' \in Seq(Arrangements)
  <2>1. CASE Len(outputs) = 2
    <3>1. outputs[1] \in {1, 2}
      <4>1. outputs \in [1 .. Len(outputs) -> {1, 2}] /\ Len(outputs) = 2
        BY <2>1, LenProperties DEF XRandRPlaces
      <4>2. QED
        BY <4>1
    <3>2. QED
      BY <1>1, <2>1, <3>1, XRandRAssumption DEF Arrangements
  <2>2. CASE Len(outputs) # 2
    BY <1>1, <2>2
  <2>3. QED
    BY <2>1, <2>2
<1>5. Listed(layouts', active')
  <2>1. Listed(layouts', XRandR!Active(layouts', outputs[1], outputs[2], crtcs))
    BY <1>4, ActiveListed
  <2>2. Listed(layouts', XRandR!NoLabel)
    BY DEF Listed
  <2>3. QED
    BY <1>1, <2>1, <2>2, Zenon
<1>6. Listed(layouts', selection')
  <2>1. layouts' # << >> => XRandR!HasLabel(layouts', layouts'[1].label)
    <3>1. layouts' # << >> => 1 \in 1 .. Len(layouts')
      BY <1>4, EmptySeq, LenProperties
    <3>2. QED
      BY <3>1, Zenon DEF XRandR!HasLabel
  <2>2. QED
    BY <1>2, <1>5, <2>1, Zenon DEF Listed
<1>7. XRandRPlaces'
  <2>1. Listed(layouts, active)' /\ Listed(layouts, selection)'
    BY <1>5, <1>6 DEF Listed
  <2>2. QED
    BY <1>1, <1>4, <2>1 DEF XRandRPlaces
<1>8. XRandRFlags'
  <2>1. selecting' \in BOOLEAN
    BY <1>3, Zenon
  <2>2. QED
    BY <1>1, <2>1, Zenon DEF XRandRFlags
<1>9. QED
  BY <1>7, <1>8

LEMMA XRandRFetchOutputs ==
    ASSUME XRandRInv, XRandR!FetchOutputs PROVE XRandRInv'
<1> USE DEF XRandRInv
<1>1. /\ UNCHANGED <<connected, primary, events, layouts, active, selecting, selection>>
      /\ at' = "crtcs"
      /\ outputs' = IF connected = {1, 2} THEN <<primary, 3 - primary>> ELSE <<1>>
  BY DEF XRandR!FetchOutputs, XRandR!serverVars
<1>2. outputs' \in Seq({1, 2}) /\ Len(outputs') <= 2
  <2>1. primary \in {1, 2} /\ 3 - primary \in {1, 2}
    BY DEF XRandRPlaces
  <2>2. <<primary, 3 - primary>> \in Seq({1, 2}) /\ Len(<<primary, 3 - primary>>) = 2
    BY <2>1
  <2>3. <<1>> \in Seq({1, 2}) /\ Len(<<1>>) = 1
    OBVIOUS
  <2>4. CASE connected = {1, 2}
    <3>1. outputs' = <<primary, 3 - primary>>
      BY <1>1, <2>4, Zenon
    <3>2. QED
      BY <2>2, <3>1
  <2>5. CASE connected # {1, 2}
    <3>1. outputs' = <<1>>
      BY <1>1, <2>5, Zenon
    <3>2. QED
      BY <2>3, <3>1
  <2>6. QED
    BY <2>4, <2>5
<1>3. XRandRPlaces'
  <2>1. Listed(layouts, active)'
    BY <1>1 DEF XRandRPlaces
  <2>2. QED
    BY <1>1, <1>2, <2>1 DEF XRandRPlaces
<1>4. XRandRFlags'
  BY <1>1, Zenon DEF XRandRFlags
<1>5. QED
  BY <1>3, <1>4

(* What fetches nothing and selects nothing. *)
LEMMA XRandRMoves ==
    ASSUME XRandRInv,
           \/ XRandR!ServerChanges \/ XRandR!Render \/ XRandR!HandleEvent
           \/ XRandR!ClickNothing \/ XRandR!ClickSwap \/ XRandR!ClickApply
    PROVE  XRandRInv'
<1> USE DEF XRandRInv, XRandR!ServerChanges, XRandR!Render, XRandR!HandleEvent,
            XRandR!ClickNothing, XRandR!ClickSwap, XRandR!ClickApply, XRandR!Click,
            XRandR!serverVars, XRandR!roundVars
<1>1. UNCHANGED <<outputs, layouts, active, selection>>
  OBVIOUS
<1>2. UNCHANGED at \/ at' \in {"outputs", "failed"} \/ (at = "render" /\ at' = "select")
  OBVIOUS
<1>3. connected' \in {{1}, {1, 2}} /\ primary' \in {1, 2}
  <2>1. CASE XRandR!ClickSwap
    <3>1. outputs[2] \in {1, 2}
      <4>1. outputs \in [1 .. Len(outputs) -> {1, 2}] /\ Len(outputs) = 2
        BY <2>1, LenProperties DEF XRandRPlaces
      <4>2. QED
        BY <4>1
    <3>2. QED
      BY <2>1, <3>1 DEF XRandRPlaces
  <2>2. CASE XRandR!ServerChanges
    BY <2>2 DEF XRandRPlaces
  <2>3. QED
    BY <2>1, <2>2 DEF XRandRPlaces
<1>4. /\ events' = events \/ events' = TRUE \/ events' = FALSE
      /\ selecting' = selecting \/ selecting' = FALSE
  OBVIOUS
<1> HIDE DEF XRandR!ServerChanges, XRandR!Render, XRandR!HandleEvent,
             XRandR!ClickNothing, XRandR!ClickSwap, XRandR!ClickApply, XRandR!Click
<1>5. XRandRPlaces'
  <2>1. /\ Listed(layouts, active)'
        /\ at' \in {"render", "select"} => Listed(layouts, selection)'
    BY <1>1, <1>2 DEF XRandRPlaces, Listed, XRandR!HasLabel
  <2>2. QED
    BY <1>1, <1>2, <1>3, <2>1 DEF XRandRPlaces
<1>6. XRandRFlags'
  BY <1>4, Zenon DEF XRandRFlags
<1>7. QED
  BY <1>5, <1>6

LEMMA XRandRScrolls ==
    ASSUME XRandRInv, NEW step \in Int, XRandR!ClickScroll(step)
    PROVE  XRandRInv'
<1> USE DEF XRandRInv
<1>1. /\ UNCHANGED <<connected, primary, events, outputs, layouts, active>>
      /\ at' = "render" /\ selecting' = TRUE
  BY DEF XRandR!ClickScroll, XRandR!serverVars
<1> DEFINE n == Len(layouts) + 1
           i == (XRandR!IndexOf(layouts, selection) + step) % n
<1>2. selection' = IF i = 0 THEN XRandR!NoLabel ELSE layouts[i].label
  BY Zenon DEF XRandR!ClickScroll
<1>3. layouts \in Seq(Arrangements) /\ Listed(layouts, active)
  BY DEF XRandRPlaces
<1>4. n \in Nat \ {0} /\ i \in Int /\ 0 <= i /\ i < n
  <2>1. n \in Nat \ {0}
    BY <1>3, LenProperties
  <2>2. XRandR!IndexOf(layouts, selection) + step \in Int
    BY <1>3, LabelFound
  <2> HIDE DEF n
  <2>3. QED
    BY <2>1, <2>2, Remainder
<1>5. Listed(layouts, selection')
  <2>1. CASE i = 0
    BY <1>2, <2>1, Zenon DEF Listed
  <2>2. CASE i # 0
    <3>1. Len(layouts) \in Nat
      BY <1>3, LenProperties
    <3> HIDE DEF i
    <3>2. i \in 1 .. Len(layouts)
      BY <1>4, <2>2, <3>1
    <3>3. QED
      BY <1>2, <2>2, <3>2, Zenon DEF Listed, XRandR!HasLabel
  <2>3. QED
    BY <2>1, <2>2
<1>6. XRandRPlaces'
  <2>1. Listed(layouts, active)' /\ Listed(layouts, selection)'
    BY <1>1, <1>3, <1>5 DEF Listed, XRandR!HasLabel
  <2>2. QED
    BY <1>1, <2>1 DEF XRandRPlaces
<1>7. XRandRFlags'
  BY <1>1, Zenon DEF XRandRFlags
<1>8. QED
  BY <1>6, <1>7

LEMMA XRandRStep == XRandRInv /\ [XRandR!Next]_XRandR!vars => XRandRInv'
<1> SUFFICES ASSUME XRandRInv, [XRandR!Next]_XRandR!vars PROVE XRandRInv'
  OBVIOUS
<1>1. CASE XRandR!ClickScroll(1) \/ XRandR!ClickScroll(-1)
  <2>1. 1 \in Int /\ -1 \in Int
    OBVIOUS
  <2>2. QED
    BY <1>1, <2>1, XRandRScrolls, Zenon
<1>2. CASE XRandR!Next /\ ~(XRandR!ClickScroll(1) \/ XRandR!ClickScroll(-1))
  BY <1>2, XRandRMoves, XRandRFetchOutputs, XRandRFetchCrtcs, Zenon DEF XRandR!Next, XRandR!Round
<1>3. CASE UNCHANGED XRandR!vars
  <2>1. UNCHANGED <<connected, primary, events, at, outputs, layouts, active, selecting, selection>>
    BY <1>3, Zenon DEF XRandR!vars, XRandR!serverVars, XRandR!roundVars
  <2>2. QED
    BY <2>1, Zenon DEF XRandRInv, XRandRPlaces, XRandRFlags, Listed, XRandR!HasLabel
<1>4. QED
  BY <1>1, <1>2, <1>3

-----------------------------------------------------------------------------
(* All of them.                                                            *)
PartsInv ==
    /\ which = "pulse" => PulseInv
    /\ which = "ddc" => DdcInv
    /\ which = "cmus" => CmusInv
    /\ which = "bus" => BusInv
    /\ which = "xrandr" => XRandRInv
    /\ which = "polled" => PolledInv
    /\ which = "gamma" => GammaInv
    /\ which = "overlay" => OverlayInv

(* A step of a behaviour is one of the module it is about. *)
LEMMA StepsApart ==
    ASSUME [Next]_vars
    PROVE  /\ UNCHANGED which
           /\ which = "pulse" => [Pulse!Next]_Pulse!vars
           /\ which = "ddc" => [Ddc!Next]_Ddc!vars
           /\ which = "cmus" => [Cmus!Next]_Cmus!vars
           /\ which = "bus" => [Bus!Next]_Bus!vars
           /\ which = "xrandr" => [XRandR!Next]_XRandR!vars
           /\ which = "polled" => [Polled!Next]_Polled!vars
           /\ which = "gamma" => [Gamma!Next]_Gamma!vars
           /\ which = "overlay" => [Overlay!Next]_Overlay!vars
<1>1. CASE Next
  BY <1>1 DEF Next, pulseFrame, ddcFrame, cmusFrame, busFrame, xrandrFrame, polledFrame,
              gammaFrame, overlayFrame
<1>2. CASE UNCHANGED vars
  <2>1. UNCHANGED which
    BY <1>2 DEF vars
  <2>2. UNCHANGED Pulse!vars /\ UNCHANGED Ddc!vars
    BY <1>2 DEF vars, pulseOnly, ddcOnly, Pulse!vars, Pulse!serverVars, Pulse!clientVars,
                Pulse!viewVars, Ddc!vars, Ddc!monitorVars, Ddc!vcpVars
  <2>3. UNCHANGED Cmus!vars /\ UNCHANGED Bus!vars
    BY <1>2 DEF vars, cmusOnly, busOnly, Cmus!vars, Cmus!playerVars, Cmus!busVars, Bus!vars
  <2>4. UNCHANGED XRandR!vars /\ UNCHANGED Polled!vars
    BY <1>2 DEF vars, xrandrOnly, polledOnly, XRandR!vars, XRandR!serverVars, XRandR!roundVars,
                Polled!vars, Polled!outside, Polled!past
  <2>5. UNCHANGED Gamma!vars /\ UNCHANGED Overlay!vars
    BY <1>2 DEF vars, gammaOnly, overlayOnly, Gamma!vars, Gamma!server, Gamma!locals, Overlay!vars,
                Overlay!barVars, Overlay!screenVars
  <2>6. QED
    BY <2>1, <2>2, <2>3, <2>4, <2>5
<1>3. QED
  BY <1>1, <1>2

LEMMA PartsInit == Init => PartsInv
  BY PulseInit, DdcInit, CmusInit, BusInit, XRandRInit, PolledInit, GammaInit, OverlayInit
  DEF Init, PartsInv

LEMMA PartsStep == PartsInv /\ [Next]_vars => PartsInv'
<1> SUFFICES ASSUME PartsInv, [Next]_vars PROVE PartsInv'
  OBVIOUS
<1>1. UNCHANGED which
  BY StepsApart
<1>2. which = "pulse" => PulseInv'
  BY StepsApart, PulseStep DEF PartsInv
<1>3. which = "ddc" => DdcInv'
  BY StepsApart, DdcStep DEF PartsInv
<1>4. which = "cmus" => CmusInv'
  BY StepsApart, CmusStep DEF PartsInv
<1>5. which = "bus" => BusInv'
  BY StepsApart, BusStep DEF PartsInv
<1>6. which = "xrandr" => XRandRInv'
  BY StepsApart, XRandRStep DEF PartsInv
<1>7. which = "polled" => PolledInv'
  BY StepsApart, PolledStep DEF PartsInv
<1>8. which = "gamma" => GammaInv'
  BY StepsApart, GammaStep DEF PartsInv
<1>9. which = "overlay" => OverlayInv'
  BY StepsApart, OverlayStep DEF PartsInv
<1>10. QED
  BY <1>1, <1>2, <1>3, <1>4, <1>5, <1>6, <1>7, <1>8, <1>9 DEF PartsInv

LEMMA PartsAlways == Spec => []PartsInv
  BY PartsInit, PartsStep, PTL DEF Spec

(* Every module keeps its types: the index of a device is one of its list, the
   brightness of a monitor fits its 16 bits, a volume is a percentage, a channel
   of signals holds no more than its capacity, the layout that is selected is
   one that is offered. *)
THEOREM EveryPartIsTyped == Spec => []TypesOK
<1>1. PartsInv => TypesOK
  BY PulseTypes, DdcTypes, CmusTypes, BusTypes, XRandRTypes, PolledTypes
  DEF PartsInv, GammaInv, GammaType, OverlayInv, OverlayBuilt, TypesOK
<1>2. QED
  BY <1>1, PartsAlways, PTL

(* The device that was selected stays in view for as long as the server lists
   it, in whatever order and under whatever default (pulseaudio.go). *)
THEOREM SelectionStaysInView == Spec => []SelectionSticks
<1>1. PartsInv => SelectionSticks
  BY PulseSafe DEF PartsInv, SelectionSticks
<1>2. QED
  BY <1>1, PartsAlways, PTL

(* A monitor source comes into view only as the default or as the selection and
   is selected only from another one (pulseaudio.go); a sample of the wireless
   links shows none that has gone (wifi.go). *)
THEOREM NothingHiddenShows == Spec => HidesWhatItMust
<1>1. PartsInv /\ [Next]_vars => [/\ which = "pulse" => Pulse!HidesMonitors
                                  /\ which = "polled" => Polled!HidesStaleLinks]_vars
  BY StepsApart, PulseHides, PolledHides DEF PartsInv
<1>2. QED
  BY <1>1, PartsAlways, PTL DEF Spec, HidesWhatItMust

(* Nothing fails but for the reasons that are known: no step of the wheel sets
   more than the maximum of the monitor (ddc.go), the channel of signals stays
   large enough for a click to find the player (cmus.go), no click fails on
   what a sample has left (cpu.go), and a bar that cannot be made leaves no
   resource behind but for one request (xob.go). *)
THEOREM PartsFailAsKnown == Spec => []OnlyKnownFailures
<1>1. PartsInv => OnlyKnownFailures
  BY DdcSafe, CmusSafe, PolledSafe, OverlayLeaks DEF PartsInv, OnlyKnownFailures
<1>2. QED
  BY <1>1, PartsAlways, PTL

(* A Show that succeeds leaves a visible window, on the screen if it is anchored
   there, in which a bar that reads the value is drawn inside its frame: for
   any screen, any style that fits on it and any value, whatever was left half
   drawn before (xob.go). *)
THEOREM EveryShowShows == Spec => []ShowShows
<1>1. PartsInv => ShowShows
  BY OverlayShows DEF PartsInv, ShowShows
<1>2. QED
  BY <1>1, PartsAlways, PTL

(* Only two goroutines that set the gamma ramps at once leave an older white
   point on a CRTC (redshift/x11.go). *)
THEOREM NoOtherMistint == Spec => []OnlyRacesMistint
<1>1. PartsInv => OnlyRacesMistint
  BY GammaSafe DEF PartsInv, OnlyRacesMistint
<1>2. QED
  BY <1>1, PartsAlways, PTL
=============================================================================
