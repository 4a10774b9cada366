------------------------------ MODULE Numbers ------------------------------
(***************************************************************************)
(* The numbers of tables and trees: ByteToString for sizes, FormatTime for   *)
(* the times of the dump statistics.  Text is the number it says: a size in   *)
(* tenths of a unit, a time in microseconds.                                 *)
(***************************************************************************)
EXTENDS Integers

CONSTANTS
  Unit,      \* 1024
  Exact,     \* a float64 holds every whole number up to 2^53
  Sizes,     \* in bytes
  Durations  \* in microseconds

VARIABLES
  quantity,  \* a size or a duration
  numberPc,
  printed    \* what was made of it

numberVars == <<quantity, numberPc, printed>>

SizeSuffixes == <<"KiB", "MiB", "GiB", "TiB", "PiB", "EiB">>

(* What they stand for.                                                      *)
UnitSizes ==
  LET million == Unit * Unit
  IN <<Unit, million, million * Unit, million * million, million * million * Unit,
       million * million * million>>

(* What ByteToString is called with is an int64: less than 8 EiB.            *)
ASSUME NumbersAssumption ==
  /\ Unit \in Nat /\ Unit >= 8
  /\ Exact \in Nat /\ Exact >= 20 * Unit
  /\ \A b \in Sizes : b \in Nat /\ b < 8 * UnitSizes[6]
  /\ Durations \subseteq Nat

-----------------------------------------------------------------------------
(* The nearest whole number of n / d, the even one of two.                   *)
RoundEven(n, d) ==
  LET quotient == n \div d
      rest == 2 * (n % d)
  IN IF rest > d \/ (rest = d /\ quotient % 2 = 1) THEN quotient + 1 ELSE quotient

(* How far float64s are from one another at b.                               *)
Spacing(b) ==
  LET spacing[n \in 0..b] == IF n < Exact THEN 1 ELSE 2 * spacing[n \div 2]
  IN spacing[b]

Float64(b) == RoundEven(b, Spacing(b)) * Spacing(b)

(* mutant: the unit changes one byte late                                    *)
DividedLate(b) ==
  LET loop[n \in 0..b] ==
        IF n <= Unit THEN [div |-> Unit, exp |-> 0]
        ELSE [div |-> loop[n \div Unit].div * Unit, exp |-> loop[n \div Unit].exp + 1]
  IN loop[b \div Unit]

(* The loop's div and exp: divided by div, what is left is less than a unit.  *)
Divided(b) ==
  LET loop[n \in 0..b] ==
        IF n < Unit THEN [div |-> Unit, exp |-> 0]
        ELSE [div |-> loop[n \div Unit].div * Unit, exp |-> loop[n \div Unit].exp + 1]
  IN loop[b \div Unit]

(* %.1f of a float64 by a power of two, which is exact.                       *)
ByteToString(b) ==
  IF b < Unit THEN [tenths |-> 10 * b, unit |-> 1, suffix |-> "B"]
  ELSE LET by == Divided(b)
       IN [tenths |-> RoundEven(10 * Float64(b), by.div), unit |-> by.div,
           suffix |-> SizeSuffixes[by.exp + 1]]

(* The place of the fifth digit.                                             *)
Fifth(n) ==
  LET place[d \in Nat] == IF n < 100000 * 10^d THEN 10^d ELSE place[d + 1]
  IN place[0]

(* %.5g; where two numbers are as close, the binary fraction decides, and      *)
(* either may come out.                                                      *)
FiveDigits(n) ==
  {r \in {(n \div Fifth(n)) * Fifth(n), (n \div Fifth(n) + 1) * Fifth(n)} :
     2 * (IF r > n THEN r - n ELSE n - r) <= Fifth(n)}

(* strings.TrimRight(text, "0") of a whole number.                           *)
Trimmed(n) ==
  LET trim[k \in Nat] == IF k % 10 = 0 THEN trim[k \div 10] ELSE k
  IN trim[n]

(* %.5g has dropped the zeros of a fraction already.                         *)
TrimRight(r, unit) == IF r % unit = 0 THEN Trimmed(r \div unit) * unit ELSE r

FormatTime(n) ==
  IF n < 1000 THEN {n}
  ELSE LET unit == IF n < 1000000 THEN 1000 ELSE 1000000
       IN {TrimRight(r, unit) : r \in FiveDigits(n)}

-----------------------------------------------------------------------------
NumbersStart == numberPc = "format" /\ printed = 0

NumbersInit ==
  /\ quantity \in [kind : {"size"}, value : Sizes] \union [kind : {"time"}, value : Durations]
  /\ NumbersStart

FormatSize ==
  /\ numberPc = "format" /\ quantity.kind = "size"
  /\ printed' = ByteToString(quantity.value)
  /\ numberPc' = "done"
  /\ UNCHANGED quantity

FormatDuration ==
  /\ numberPc = "format" /\ quantity.kind = "time"
  /\ printed' \in FormatTime(quantity.value)
  /\ numberPc' = "done"
  /\ UNCHANGED quantity

NumbersNext == FormatSize \/ FormatDuration

NumbersSpec == NumbersInit /\ [][NumbersNext]_numberVars

-----------------------------------------------------------------------------
(* What ByteToString made of b is b, off by half of a tenth of the unit at most  *)
(* and by what float64 drops of more than 2^53 bytes.                         *)
ReadsBack(b, text) ==
  LET off == 10 * b - text.tenths * text.unit
      most == text.unit + (IF b < Exact THEN 0 ELSE 10 * Spacing(b))
  IN /\ 2 * off <= most /\ -2 * off <= most
     /\ \/ text.suffix = "B" /\ text.unit = 1
        \/ /\ b >= text.unit
           /\ \E k \in 1..6 : text.suffix = SizeSuffixes[k] /\ text.unit = UnitSizes[k]
     /\ b < Unit * text.unit
     /\ text.tenths <= 10 * Unit

(* A size is printed in the largest unit it has one of, with the suffix of that *)
(* unit, up to the last one, and reads back; the number before the suffix       *)
(* reaches the next unit by rounding alone.                                  *)
SizeReadsBack ==
  numberPc = "done" /\ quantity.kind = "size" => ReadsBack(quantity.value, printed)

(* The comment in FormatTime: it trims trailing zeros (and the dot), so what is *)
(* printed is the time, rounded to five digits.                              *)
TimeReadsBack ==
  numberPc = "done" /\ quantity.kind = "time" =>
    LET n == quantity.value
    IN 2 * (IF printed > n THEN printed - n ELSE n - printed) <= Fifth(n)
=============================================================================
