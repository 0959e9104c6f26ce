---------------------------- MODULE SensorScaling ----------------------------
(***************************************************************************)
(* The scaling of a reading to one byte (include/sensorutils.hpp):         *)
(* getSensorAttributes solves y = (M x + B 10^bExp) 10^rExp for M, B and   *)
(* their exponents from the limits of a sensor, one step of its loops at a *)
(* time; scaleIPMIValueFromDouble then turns readings y into bytes x.      *)
(*                                                                         *)
(* The limits are decimals, min 10^unit and (min + range) 10^unit.  A      *)
(* double is taken as the exact number n/255 10^e, so what is left out is  *)
(* the rounding in the last bits of a double.  Integers stay within the 32 *)
(* bits of TLC: InputAssumption bounds the digits of the limits.           *)
(***************************************************************************)
EXTENDS Integers

Abs(a) == IF a < 0 THEN -a ELSE a

CONSTANTS Minima, Ranges, Units \* digits of min and of max - min; exponents

ASSUME InputAssumption ==
  /\ \A m \in Minima : m \in Int /\ Abs(m) <= 5000
  /\ \A r \in Ranges : r \in Int /\ Abs(r) <= 10000
  /\ Units \subseteq Int

VARIABLES
  input,       \* the limits; finite is FALSE for NaN and infinity
  pc,          \* the loop the program is in, or how it ended
  of,          \* what it scales: "M", the multiplier, or "B", the offset
  dbase,       \* the double: dM or dB
  ibase,       \* the integer it was rounded to
  exp,         \* its exponent: rExp or bExp
  multiplier   \* mValue and rExp once they are known

vars == <<input, pc, of, dbase, ibase, exp, multiplier>>

Input == [min : Minima, range : Ranges, unit : Units, finite : BOOLEAN]

Running == {"expand", "shrink", "round", "normalize"}

IBase == -512 .. 511
Exp   == -8 .. 7

TypeOK ==
  /\ input \in Input
  /\ pc \in Running \cup {"start", "illegal", "scaled"}
  /\ of \in {"M", "B"}
  /\ dbase \in [n : Int, e : Int]
  /\ ibase \in IBase
  /\ exp \in Exp
  /\ multiplier \in [m : IBase, rExp : Exp]

Init ==
  /\ input \in Input
  /\ pc = "start" /\ of = "M"
  /\ dbase = [n |-> 0, e |-> 0] /\ ibase = 0 /\ exp = 0
  /\ multiplier = [m |-> 0, rExp |-> 0]

-----------------------------------------------------------------------------
(* Arithmetic on n 10^e                                                    *)

Least(a, b) == IF a < b THEN a ELSE b

(* n 10^e <= b, for b up to 512 * 255 and n up to b 10^4.                  *)
AtMost(n, e, b) ==
  IF e >= 0 THEN n <= b \div 10 ^ Least(e, 9) ELSE n <= b * 10 ^ Least(-e, 4)

InRangeOff(d) == \* mutant: a bound of 512 at either end
  AtMost(d.n, d.e, 512 * 255) /\ AtMost(-d.n, d.e, 512 * 255)
InRange(d) == AtMost(d.n, d.e, 511 * 255) /\ AtMost(-d.n, d.e, 512 * 255)

(* n 10^e / m, rounded half away from zero: std::round.  Where it is used  *)
(* n is 0 if e is 9 or more, and the result is 0 if e is -9 or less.       *)
RoundDiv(n, e, m) ==
  LET twice == IF e >= 0 THEN (2 * Abs(n) * 10 ^ Least(e, 9)) \div m
                         ELSE ((2 * Abs(n)) \div 10 ^ Least(-e, 9)) \div m
      away  == (twice + 1) \div 2
  IN  IF n < 0 THEN -away ELSE away

Times10(d) == [d EXCEPT !.e = @ + 1]
Over10(d)  == [d EXCEPT !.e = @ - 1]

-----------------------------------------------------------------------------
Lowest  == IF input.min < 0 THEN -128 ELSE 0
Highest == IF input.min < 0 THEN 127 ELSE 255

StartScale(what, d) ==
  /\ of' = what /\ dbase' = d /\ exp' = 0 /\ ibase' = 0
  /\ pc' = "expand"

Goto(label) == pc' = label /\ UNCHANGED <<input, of, dbase, ibase, exp, multiplier>>

(* Limits that cannot be used.                                             *)
BadLimits ==
  /\ pc = "start"
  /\ ~input.finite \/ input.range <= 0
  /\ Goto("illegal")

SolveM ==
  /\ pc = "start" /\ input.finite /\ input.range > 0
  /\ StartScale("M", [n |-> input.range, e |-> input.unit])
  /\ UNCHANGED <<input, multiplier>>

CanExpandByTwo == exp > -7 \* mutant: the loop stops one early
CanExpand == exp > -8

(* The first loop of scaleFloatExp.                                        *)
Expand ==
  /\ pc = "expand" /\ dbase.n # 0
  /\ InRange(dbase) /\ CanExpand
  /\ dbase' = Times10(dbase) /\ exp' = exp - 1
  /\ UNCHANGED <<input, pc, of, ibase, multiplier>>

ExpandEnds ==
  /\ pc = "expand" /\ dbase.n # 0
  /\ ~InRange(dbase) \/ ~CanExpand
  /\ Goto("shrink")

IsZero == pc = "expand" /\ dbase.n = 0 /\ Goto("round")

CanShrink == exp < 7

(* Its second loop.                                                        *)
ShrinkAndTryAgain == \* mutant: one loop around both
  /\ pc = "shrink" /\ ~InRange(dbase) /\ CanShrink
  /\ dbase' = Over10(dbase) /\ exp' = exp + 1
  /\ pc' = "expand"
  /\ UNCHANGED <<input, of, ibase, multiplier>>
Shrink ==
  /\ pc = "shrink" /\ ~InRange(dbase) /\ CanShrink
  /\ dbase' = Over10(dbase) /\ exp' = exp + 1
  /\ UNCHANGED <<input, pc, of, ibase, multiplier>>

ShrinkEnds == pc = "shrink" /\ InRange(dbase) /\ Goto("round")

BeyondScale == pc = "shrink" /\ ~InRange(dbase) /\ ~CanShrink /\ Goto("illegal")

Round ==
  /\ pc = "round"
  /\ ibase' = RoundDiv(dbase.n, dbase.e, 255)
  /\ pc' = "normalize"
  /\ UNCHANGED <<input, of, dbase, exp, multiplier>>

-----------------------------------------------------------------------------
(* The loop of normalizeIntExp                                             *)

CanNormalize == ibase # 0 /\ ibase % 10 = 0 /\ exp < 7

NormalizeInteger == \* mutant: the double is not kept in sync
  /\ pc = "normalize" /\ CanNormalize
  /\ ibase' = ibase \div 10 /\ exp' = exp + 1
  /\ UNCHANGED <<input, pc, of, dbase, multiplier>>
Normalize ==
  /\ pc = "normalize" /\ CanNormalize
  /\ ibase' = ibase \div 10 /\ dbase' = Over10(dbase) /\ exp' = exp + 1
  /\ UNCHANGED <<input, pc, of, multiplier>>

NormalizeZero ==
  /\ pc = "normalize" /\ ibase = 0 /\ exp # 0
  /\ exp' = 0
  /\ UNCHANGED <<input, pc, of, dbase, ibase, multiplier>>

Normalized == pc = "normalize" /\ ~CanNormalize /\ (ibase = 0 => exp = 0)

BelowScale == Normalized /\ of = "M" /\ ibase = 0 /\ Goto("illegal")

(* Step 3 of getSensorAttributes.  dbase and exp still hold dM and rExp.   *)
SolveBForZero == \* mutant: x is 0 at the lower limit, signed or not
  /\ Normalized /\ of = "M" /\ ibase # 0
  /\ multiplier' = [m |-> ibase, rExp |-> exp]
  /\ StartScale("B", [n |-> 255 * input.min, e |-> input.unit - exp])
  /\ UNCHANGED input
SolveB ==
  /\ Normalized /\ of = "M" /\ ibase # 0
  /\ multiplier' = [m |-> ibase, rExp |-> exp]
  /\ StartScale("B",
       [n |-> 255 * input.min
                - dbase.n * 10 ^ (dbase.e + exp - input.unit) * Lowest,
        e |-> input.unit - exp])
  /\ UNCHANGED input

Scaled == Normalized /\ of = "B" /\ Goto("scaled")

-----------------------------------------------------------------------------
(* scaleIPMIValueFromDouble, for the reading y 10^unit                     *)

(* An exponent in which y 10^(unit - rExp), B 10^bExp and M x are integers *)
Common == Least(0, Least(input.unit - multiplier.rExp, exp))

(* (y - B 10^(rExp + bExp)) 10^-rExp, exponent Common                      *)
Distance(y) ==
  y * 10 ^ (input.unit - multiplier.rExp - Common) - ibase * 10 ^ (exp - Common)

Clamp(x) ==
  IF x < Lowest THEN Lowest ELSE IF x > Highest THEN Highest ELSE x

UnsignedByte(y) == \* mutant: clamped as if it were unsigned
  LET x == RoundDiv(Distance(y), Common, multiplier.m)
  IN  IF x < 0 THEN 0 ELSE IF x > 255 THEN 255 ELSE x
Byte(y) == Clamp(RoundDiv(Distance(y), Common, multiplier.m))

-----------------------------------------------------------------------------
Next ==
  \/ BadLimits \/ SolveM \/ Expand \/ ExpandEnds \/ IsZero
  \/ Shrink \/ ShrinkEnds \/ BeyondScale \/ Round
  \/ Normalize \/ NormalizeZero \/ BelowScale \/ SolveB \/ Scaled

Spec == Init /\ [][Next]_vars

(* The code is sequential and waits for nothing.                           *)
FairSpec == Spec /\ WF_vars(Next)

-----------------------------------------------------------------------------
(* "The floating-point base will be as large as possible, but still within *)
(* the bounds" (lines 60-61), so that rounding loses little: when the loops*)
(* of scaleFloatExp succeed.                                               *)
BaseIsLargest ==
  pc = "round" =>
    /\ InRange(dbase)
    /\ dbase.n = 0 \/ exp = -8 \/ ~InRange(Times10(dbase))

(* "The floating-point base must be kept in sync with the integer base"    *)
(* (line 152): dB is solved from the double after it has been normalized.  *)
IntegerTracksDouble ==
  pc = "normalize" => ibase = RoundDiv(dbase.n, dbase.e, 255)

(* Readings to look at: the limits, some between them, some beyond.        *)
Probes == {input.min + (input.range * i) \div 6 : i \in -3 .. 9}

(* How far the byte x is from the reading y 10^unit: M x and y as above.   *)
Miss(x, y) == Abs(multiplier.m * x * 10 ^ (-Common) - Distance(y))

(* No byte reads back, through the IPMI equation, as a number closer to the*)
(* reading than the one computed, signed or not, clamped or not.           *)
NearestByte ==
  pc = "scaled" =>
    \A y \in Probes : \A x \in Lowest .. Highest : Miss(Byte(y), y) <= Miss(x, y)

(* B 10^bExp is dB: nothing was lost in the ten bits of B.                 *)
OffsetExact ==
  IF dbase.e >= 0 THEN 255 * ibase = dbase.n * 10 ^ dbase.e
                  ELSE 255 * ibase * 10 ^ Least(-dbase.e, 4) = dbase.n

(* At the lowest exponent M may keep a single digit, or none of use.       *)
TwoDigits == multiplier.m * 10 ^ Least(multiplier.rExp + 8, 2) >= 51

(* "If y is min, x should equal = 0 (or -128 if signed).  If y is max, x   *)
(* should equal 255 (or 127 if signed)" (lines 197-198).  What holds of it:*)
(* the ends are met but for the rounding of M, which has two digits or     *)
(* more, unless B itself was rounded or M is at the end of its scale.      *)
EndsNearlyMet ==
  pc = "scaled" /\ OffsetExact /\ TwoDigits =>
    IF input.min < 0
    THEN Byte(input.min) <= -127 /\ Byte(input.min + input.range) >= 126
    ELSE Byte(input.min) = 0 /\ Byte(input.min + input.range) >= 252

(* The first half of that comment as it is written: "If y is min, x should *)
(* equal = 0 (or -128 if signed)" (line 197).                              *)
MinMeetsEnd == pc = "scaled" => Byte(input.min) = Lowest

(* Every call returns.                                                     *)
Ends == <>(pc \in {"illegal", "scaled"})
=============================================================================
