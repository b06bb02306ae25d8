-------------------------------- MODULE Levels --------------------------------
(***************************************************************************)
(* The numbers the wheel turns: how a level is shown, stepped and set, and *)
(* what is shown of it then.                                               *)
(*                                                                         *)
(* Levels are integers of the device; what is shown of them is percent.    *)
(* Conversions to an integer truncate or round as in the code; what it     *)
(* computes in floating point is exact here, but for the set of Backlight, *)
(* whose quotient may be the next smaller float.                           *)
(***************************************************************************)
EXTENDS Integers

(* math.Round of n / d, for n >= 0. *)
Rounded(n, d) == (2 * n + d) \div (2 * d)

Bounded(v, lo, hi) == IF v < lo THEN lo ELSE IF v > hi THEN hi ELSE v

-----------------------------------------------------------------------------
(* PulseAudio: a volume of p percent and back.                             *)
Full == 65535

(* Mutant: the volume is shown truncated. *)
ShownVolumeTruncated(level) == (level * 100) \div Full

SetVolume(p) == (p * Full) \div 100
ShownVolume(level) == Rounded(level * 100, Full)

-----------------------------------------------------------------------------
(* Backlight: the wheel.                                                   *)
Percent(cur, max) == Rounded(cur * 100, max)

WheelUp(p) == IF p < 45 THEN p + 1 ELSE p + 5
WheelDown(p) == IF p > 45 THEN p - 5 ELSE p - 1

(* What is set for p percent: of a product that is whole, the float may be one
   less. *)
Brightness(p, max) ==
    LET n == Bounded(p, 0, 100) * max
    IN  {n \div 100} \cup (IF n % 100 = 0 /\ n > 0 /\ p < 100 THEN {n \div 100 - 1} ELSE {})

-----------------------------------------------------------------------------
(* Temperature: degrees of thousandths, rounded; truncated toward zero.    *)
Degrees(t) == IF t + 500 >= 0 THEN (t + 500) \div 1000 ELSE -((-(t + 500)) \div 1000)

-----------------------------------------------------------------------------
(* GetWhitePoint: the row of the table, and how far to the next one.  Division
   and remainder truncate. *)
TempMin == 1000
TempMax == 25000
TempStep == 100
Rows == 242

Quot(a, b) == IF a >= 0 THEN a \div b ELSE -((-a) \div b)
Rem(a, b) == a - b * Quot(a, b)

(* Mutant: the row is not kept in the table. *)
WhiteRowUnbounded(t) ==
    [row |-> Quot(t - TempMin, TempStep), alpha |-> Rem(t, TempStep)]

WhiteRow(t) ==
    LET index == Quot(t - TempMin, TempStep)
    IN  [row |-> IF index < 0 THEN 0 ELSE IF index + 1 >= Rows THEN Rows - 2 ELSE index,
         alpha |-> Rem(t, TempStep)]

(* Whether it is said to be in range. *)
WhiteOk(t) == LET index == Quot(t - TempMin, TempStep) IN index >= 0 /\ index + 1 < Rows

(* The temperature that is answered for. *)
Effective(t) == TempMin + TempStep * WhiteRow(t).row + WhiteRow(t).alpha

-----------------------------------------------------------------------------
(* Solar: the temperature for an elevation of the sun, in between two others
   when the elevation is. *)
Solar(e, eNight, eDay, tNight, tDay) ==
    IF e < eNight THEN tNight ELSE IF e >= eDay THEN tDay
    ELSE ((eDay - e) * tNight + (e - eNight) * tDay) \div (eDay - eNight)

(* GammaRamp: entry i of len for a white component of n / d; a ramp of one
   entry is 0/0. *)
Ramp(i, len, max, n, d) == (i * max * n) \div ((len - 1) * d)

-----------------------------------------------------------------------------
(* What was set is what is shown: a level read back does not drift. *)
VolumeReadsBack(p) == ShownVolume(SetVolume(p)) = p

(* The wheel always moves the backlight, up to the ends of its range, and in
   the direction it is turned. *)
WheelMoves(cur, max) ==
    LET p == Percent(cur, max)
    IN  /\ p <= 99 => \A n \in Brightness(WheelUp(p), max) : n > cur
        /\ p >= 1 => \A n \in Brightness(WheelDown(p), max) : n < cur

(* A temperature in the table is answered for as it is, any other with rows of
   the table and within a step of its ends.  One is said to be in range if it is
   less than a step away from the table, since the division truncates toward
   zero; below the table the answer then is for a step more. *)
WhiteIsClose(t) ==
    /\ WhiteRow(t).row \in 0 .. Rows - 2
    /\ t \in TempMin .. TempMax => Effective(t) = t
    /\ t < TempMin => Effective(t) \in TempMin - TempStep .. TempMin + TempStep
    /\ t > TempMax => Effective(t) \in TempMax .. TempMax + TempStep
    /\ WhiteOk(t) <=> t \in TempMin - TempStep + 1 .. TempMax + TempStep - 1
    /\ WhiteOk(t) => Effective(t) = IF t < TempMin THEN t + TempStep ELSE t

(* What the comment says of ok ("If the temperature is out of range ... ok is
   set to false").  Not kept by 901 to 999, nor by 25001 to 25099. *)
OkOnlyInTable(t) == WhiteOk(t) => t \in TempMin .. TempMax

(* The temperature follows the sun up, between those of night and day, and the
   table answers for it as it is. *)
SunIsFollowed(e, eNight, eDay, tNight, tDay) ==
    LET t(x) == Solar(x, eNight, eDay, tNight, tDay)
    IN  t(e) \in tNight .. tDay /\ t(e) <= t(e + 1) /\ Effective(t(e)) = t(e)

(* A ramp rises from black to the white component. *)
RampRises(len, max, n, d) ==
    /\ Ramp(0, len, max, n, d) = 0 /\ Ramp(len - 1, len, max, n, d) = (max * n) \div d
    /\ \A i \in 0 .. len - 2 : Ramp(i, len, max, n, d) <= Ramp(i + 1, len, max, n, d)
=============================================================================
