--------------------------- MODULE MemparseProofs ---------------------------
(***************************************************************************)
(* Proofs about memparse: the sizes it prints, for any unit; the dump of       *)
(* memory and the search in it, for any memory, pagemap, pattern, size of      *)
(* pages, rows and chunks.                                                   *)
(***************************************************************************)
EXTENDS MemoryDump, Numbers, SequenceTheorems, WellFoundedInduction, TLAPS

(***************************************************************************)
(* Numbers and sequences                                                   *)
(***************************************************************************)

LEMMA Appended ==
  ASSUME NEW S, NEW list \in Seq(S), NEW new \in S
  PROVE  /\ Append(list, new) \in Seq(S)
         /\ Len(Append(list, new)) = Len(list) + 1
         /\ Append(list, new)[Len(list) + 1] = new
         /\ \A i \in DOMAIN list : Append(list, new)[i] = list[i]
  OBVIOUS

LEMMA Times ==
  ASSUME NEW a \in Nat, NEW b \in Nat
  PROVE  a * b \in Nat
  OBVIOUS

LEMMA Positive ==
  ASSUME NEW a \in Nat \ {0}, NEW b \in Nat \ {0}
  PROVE  a * b \in Nat \ {0}
  OBVIOUS

LEMMA Monotone ==
  ASSUME NEW a \in Nat, NEW b \in Nat, NEW c \in Nat, a <= b
  PROVE  a * c <= b * c
<1>1. PICK d \in Nat : b = a + d
  <2>1. b - a \in Nat /\ b = a + (b - a)
    OBVIOUS
  <2> QED BY <2>1
<1>2. (a + d) * c = a * c + d * c
  OBVIOUS
<1>3. a * c \in Nat /\ d * c \in Nat
  BY Times
<1> QED BY <1>1, <1>2, <1>3

LEMMA Division ==
  ASSUME NEW a \in Nat, NEW b \in Nat \ {0}
  PROVE  /\ a \div b \in Nat /\ a % b \in 0..b - 1
         /\ a = (a \div b) * b + (a % b)
<1>1. a % b \in 0..b - 1
  OBVIOUS
<1>2. a \div b \in Int
  OBVIOUS
<1>3. a = (a \div b) * b + (a % b)
  <2>1. a = b * (a \div b) + (a % b)
    OBVIOUS
  <2> QED BY <1>2, <2>1
<1>4. a \div b >= 0
  BY <1>1, <1>2, <1>3
<1> QED BY <1>1, <1>2, <1>3, <1>4

LEMMA Quotient ==
  ASSUME NEW q \in Nat, NEW b \in Nat \ {0}, NEW r \in 0..b - 1
  PROVE  (q * b + r) \div b = q /\ (q * b + r) % b = r
  OBVIOUS

LEMMA Shifted ==
  ASSUME NEW q \in Nat, NEW b \in Nat \ {0}, NEW a \in Nat
  PROVE  (q * b + a) \div b = q + (a \div b) /\ (q * b + a) % b = a % b
<1>1. PICK k \in Nat, r \in 0..b - 1 : k = a \div b /\ r = a % b /\ a = k * b + r
  BY Division
<1>2. (q + k) * b = q * b + k * b
  OBVIOUS
<1>3. q * b \in Nat /\ k * b \in Nat
  BY Times
<1>4. q * b + a = (q + k) * b + r
  BY <1>1, <1>2, <1>3
<1>5. q + k \in Nat /\ r \in 0..b - 1
  BY <1>1
<1>6. ((q + k) * b + r) \div b = q + k /\ ((q + k) * b + r) % b = r
  BY <1>5, Quotient
<1> QED BY <1>1, <1>4, <1>6

LEMMA Bounded ==
  ASSUME NEW q \in Nat, NEW b \in Nat \ {0}, NEW a \in Nat
  PROVE  /\ a < q * b => a \div b < q
         /\ q * b <= a => q <= a \div b
<1>1. PICK k \in Nat, r \in 0..b - 1 : k = a \div b /\ r = a % b /\ a = k * b + r
  BY Division
<1>2. k * b \in Nat /\ q * b \in Nat /\ k \in Nat
  BY Times
<1>3. a < q * b => k < q
  <2> SUFFICES ASSUME q <= k PROVE ~(a < q * b)
    OBVIOUS
  <2>1. q * b <= k * b
    BY Monotone
  <2> QED BY <1>1, <1>2, <2>1
<1>4. q * b <= a => q <= k
  <2> SUFFICES ASSUME k + 1 <= q PROVE ~(q * b <= a)
    OBVIOUS
  <2>1. (k + 1) * b <= q * b
    BY Monotone
  <2>2. (k + 1) * b = k * b + b
    OBVIOUS
  <2> QED BY <1>1, <1>2, <2>1, <2>2
<1> QED BY <1>1, <1>3, <1>4

(* Every set of numbers that is not empty has a smallest one.                *)
LEMMA SmallestNumber ==
  ASSUME NEW T \in SUBSET Nat, T # {}
  PROVE  \E x \in T : \A y \in T : x <= y
<1>1. \A x, y \in Nat : y < x => <<y, x>> \in OpToRel(<, Nat)
  BY Zenon DEF OpToRel
<1>2. PICK R : IsWellFoundedOn(R, Nat) /\ \A x, y \in Nat : y < x => <<y, x>> \in R
  <2> DEFINE R == OpToRel(<, Nat)
  <2>1. IsWellFoundedOn(R, Nat)
    BY NatLessThanWellFounded, Zenon
  <2>2. \A x, y \in Nat : y < x => <<y, x>> \in R
    BY <1>1, Zenon
  <2> HIDE DEF R
  <2> WITNESS R
  <2> QED BY <2>1, <2>2, Zenon
<1>3. PICK x \in T : \A y \in T : ~(<<y, x>> \in R)
  BY <1>2, WFMin
<1>4. \A y \in T : ~(y < x)
  BY <1>2, <1>3
<1> QED BY <1>4

(* Induction, on a set of numbers.                                          *)
LEMMA AllNumbers ==
  ASSUME NEW T, 0 \in T, \A n \in Nat : n \in T => n + 1 \in T
  PROVE  \A n \in Nat : n \in T
<1> SUFFICES ASSUME NEW m \in Nat, m \notin T PROVE FALSE
  OBVIOUS
<1>1. PICK x \in Nat \ T : \A y \in Nat \ T : x <= y
  BY SmallestNumber
<1>2. x # 0 /\ x - 1 \in Nat
  BY <1>1
<1>3. x - 1 \in T
  BY <1>1, <1>2
<1>4. (x - 1) + 1 \in T
  BY <1>2, <1>3
<1> QED BY <1>1, <1>4

LEMMA Associative ==
  ASSUME NEW a \in Nat, NEW b \in Nat, NEW c \in Nat
  PROVE  (a * b) * c = a * (b * c)
<1> DEFINE T == {n \in Nat : (n * b) * c = n * (b * c)}
<1>1. 0 \in T
  OBVIOUS
<1>2. ASSUME NEW n \in Nat, n \in T PROVE n + 1 \in T
  <2> PICK p \in Nat : p = n * b
    BY Times
  <2> PICK q \in Nat : q = b * c
    BY Times
  <2>1. (n + 1) * b = p + b
    OBVIOUS
  <2>2. (p + b) * c = p * c + b * c
    OBVIOUS
  <2>3. (n + 1) * q = n * q + q
    OBVIOUS
  <2>4. p * c = n * q
    BY <1>2
  <2> QED BY <2>1, <2>2, <2>3, <2>4
<1>3. a \in T
  <2> HIDE DEF T
  <2> QED BY <1>1, <1>2, AllNumbers
<1> QED BY <1>3

-----------------------------------------------------------------------------
(***************************************************************************)
(* Sizes as text                                                           *)
(***************************************************************************)

(* A function that is given by what it is at a smaller number exists.         *)
Halves(g, S, start, F, b, base, limit) ==
  /\ g \in [0..b -> S]
  /\ \A n \in 0..b : g[n] = IF n < limit THEN start ELSE F[g[n \div base]]

LEMMA Halving ==
  ASSUME NEW S, NEW start \in S, NEW F \in [S -> S], NEW b \in Nat,
         NEW base \in Nat, base >= 2, NEW limit \in Nat \ {0}
  PROVE  \E g : Halves(g, S, start, F, b, base, limit)
<1> DEFINE Next(g, n) == IF n < limit THEN start ELSE F[g[n \div base]]
           T == {m \in Nat : \E g \in [0..b -> S] : \A n \in 0..b : n <= m => g[n] = Next(g, n)}
<1>1. \A n \in 0..b : n >= limit => n \div base \in 0..b /\ n \div base < n
  <2> SUFFICES ASSUME NEW n \in 0..b, n >= limit PROVE n \div base \in 0..b /\ n \div base < n
    OBVIOUS
  <2> PICK q \in Nat, r \in 0..base - 1 : q = n \div base /\ n = q * base + r
    BY Division
  <2>1. q < n
    <3>1. q * 2 <= q * base
      <4>1. 2 * q <= base * q
        BY Monotone
      <4> QED BY <4>1
    <3>2. q * base \in Nat /\ n >= 1
      BY Times
    <3> QED BY <3>1, <3>2
  <2> QED BY <2>1
<1>2. 0 \in T
  <2>1. [n \in 0..b |-> start] \in [0..b -> S]
    OBVIOUS
  <2>2. \A n \in 0..b : n <= 0 => n < limit
    OBVIOUS
  <2> QED BY <2>1, <2>2
<1>3. ASSUME NEW m \in Nat, m \in T PROVE m + 1 \in T
  <2>1. PICK g \in [0..b -> S] : \A n \in 0..b : n <= m => g[n] = Next(g, n)
    BY <1>3
  <2> DEFINE h == [n \in 0..b |-> IF n = m + 1 THEN Next(g, n) ELSE g[n]]
  <2>2. \A n \in 0..b : Next(g, n) \in S
    <3> TAKE n \in 0..b
    <3>1. CASE n < limit
      BY <3>1
    <3>2. CASE ~(n < limit)
      <4> PICK q \in 0..b : q = n \div base
        BY <1>1, <3>2
      <4>1. F[g[q]] \in S
        OBVIOUS
      <4> QED BY <3>2, <4>1
    <3> QED BY <3>1, <3>2
  <2>3. h \in [0..b -> S]
    BY <2>2
  <2>4. \A n \in 0..b : n <= m + 1 => Next(h, n) = Next(g, n)
    <3> TAKE n \in 0..b
    <3> HAVE n <= m + 1
    <3>1. CASE n < limit
      BY <3>1
    <3>2. CASE ~(n < limit)
      <4>a. n >= limit
        BY <3>2
      <4> PICK q \in 0..b : q = n \div base /\ q < n
        BY ONLY <1>1, <4>a, n \in 0..b
      <4>1. h[q] = g[q]
        OBVIOUS
      <4> HIDE DEF h
      <4> QED BY <3>2, <4>1
    <3> QED BY <3>1, <3>2
  <2>5. \A n \in 0..b : n <= m + 1 => h[n] = Next(g, n)
    BY <2>1
  <2>6. \A n \in 0..b : n <= m + 1 => h[n] = Next(h, n)
    BY <2>4, <2>5
  <2> HIDE DEF h, Next
  <2>7. \E f \in [0..b -> S] : \A n \in 0..b : n <= m + 1 => f[n] = Next(f, n)
    BY <2>3, <2>6, Zenon
  <2>8. m + 1 \in Nat
    OBVIOUS
  <2> QED BY <2>7, <2>8
<1>4. b \in T
  <2> HIDE DEF T
  <2> QED BY <1>2, <1>3, AllNumbers
<1>5. PICK g \in [0..b -> S] : \A n \in 0..b : n <= b => g[n] = Next(g, n)
  BY <1>4
<1>6. \A n \in 0..b : g[n] = IF n < limit THEN start ELSE F[g[n \div base]]
  BY <1>5
<1> QED BY <1>6 DEF Halves

LEMMA Quotients ==
  ASSUME NEW a \in Nat, NEW d \in Nat \ {0}
  PROVE  \E q \in Nat, r \in 0..d - 1 : q = a \div d /\ a = q * d + r
  BY Division

LEMMA Rounded ==
  ASSUME NEW n \in Nat, NEW d \in Nat \ {0}
  PROVE  \E r \in Nat : /\ r = RoundEven(n, d)
                        /\ 2 * n - 2 * (r * d) <= d /\ 2 * (r * d) - 2 * n <= d
                        /\ d = 1 => r = n
<1> PICK q \in Nat, m \in 0..d - 1 : q = n \div d /\ m = n % d /\ n = q * d + m
  BY Division
<1> PICK p \in Nat : p = q * d
  BY Times
<1> PICK r : r = RoundEven(n, d)
  OBVIOUS
<1>1. (q + 1) * d = p + d
  OBVIOUS
<1>2. \/ r = q /\ 2 * m <= d
      \/ r = q + 1 /\ 2 * m >= d
  <2>1. r = IF 2 * m > d \/ (2 * m = d /\ q % 2 = 1) THEN q + 1 ELSE q
    BY DEF RoundEven
  <2> QED BY <2>1
<1>3. r \in Nat
  BY <1>2
<1>4. r * d = p \/ r * d = p + d
  BY <1>1, <1>2
<1>5. 2 * n - 2 * (r * d) <= d /\ 2 * (r * d) - 2 * n <= d
  BY <1>1, <1>2
<1>6. d = 1 => r = n
  <2>1. d = 1 => m = 0 /\ p = q
    OBVIOUS
  <2> QED BY <1>2, <2>1
<1> QED BY <1>3, <1>5, <1>6

(* Float64s are whole numbers, up to Exact all of them, and further on at most  *)
(* 2 / Exact of their size apart.                                            *)
LEMMA Spaced ==
  ASSUME NEW b \in Nat
  PROVE  /\ Spacing(b) \in Nat \ {0}
         /\ b < Exact => Spacing(b) = 1
         /\ b >= Exact => Exact * Spacing(b) <= 2 * b
<1>1. Exact \in Nat \ {0}
  BY NumbersAssumption
<1> DEFINE twice == [x \in Nat \ {0} |-> 2 * x]
<1>2. twice \in [Nat \ {0} -> Nat \ {0}]
  OBVIOUS
<1> DEFINE Is(g) == g = [n \in 0..b |-> IF n < Exact THEN 1 ELSE 2 * g[n \div 2]]
<1>3. \E g : Is(g)
  <2>1. PICK g : Halves(g, Nat \ {0}, 1, twice, b, 2, Exact)
    <3> HIDE DEF twice
    <3>1. 1 \in Nat \ {0} /\ 2 \in Nat /\ 2 >= 2
      OBVIOUS
    <3> QED BY ONLY <1>1, <1>2, <3>1, b \in Nat, Halving
  <2>2. \A n \in 0..b : n \div 2 \in 0..b
    OBVIOUS
  <2>3. \A n \in 0..b : twice[g[n \div 2]] = 2 * g[n \div 2]
    BY <2>1, <2>2 DEF Halves
  <2>4. g = [n \in 0..b |-> IF n < Exact THEN 1 ELSE 2 * g[n \div 2]]
    BY <2>1, <2>3 DEF Halves
  <2> QED BY <2>4
<1>4. PICK g : Is(g) /\ Spacing(b) = g[b]
  <2>1. Is(CHOOSE g : Is(g))
    BY <1>3
  <2> QED BY <2>1 DEF Spacing
<1>5. \A n \in 0..b : g[n] = IF n < Exact THEN 1 ELSE 2 * g[n \div 2]
  BY <1>4
<1> DEFINE Good(n) == /\ g[n] \in Nat \ {0}
                      /\ n < Exact => g[n] = 1
                      /\ n >= Exact => Exact * g[n] <= 2 * n
           T == {m \in Nat : \A n \in 0..b : n <= m => Good(n)}
<1>6. 0 \in T
  BY <1>1, <1>5
<1>7. ASSUME NEW m \in Nat, m \in T PROVE m + 1 \in T
  <2> SUFFICES ASSUME NEW n \in 0..b, n = m + 1 PROVE Good(n)
    BY <1>7
  <2>1. CASE n < Exact
    BY <1>1, <1>5, <2>1
  <2>2. CASE ~(n < Exact)
    <3> PICK h \in Nat : h = n \div 2 /\ 2 * h <= n /\ h < n
      BY <1>1, <2>2
    <3>1. h \in 0..b /\ h <= m
      OBVIOUS
    <3>2. Good(h)
      BY <1>7, <3>1
    <3> PICK x \in Nat \ {0} : x = g[h]
      BY <3>2
    <3>3. g[n] = 2 * x
      BY <1>5, <2>2
    <3>4. Exact * x <= 2 * h \/ x = 1
      BY <1>1, <3>2
    <3>5. Exact * (2 * x) = 2 * (Exact * x)
      BY <1>1
    <3>6. Exact * x \in Nat
      BY <1>1, Times
    <3>7. Exact * (2 * x) <= 2 * n
      BY <1>1, <2>2, <3>4, <3>5, <3>6
    <3>8. g[n] \in Nat \ {0} /\ Exact * g[n] <= 2 * n
      BY <3>3, <3>7
    <3> QED BY ONLY <2>2, <3>8
  <2> QED BY <2>1, <2>2
<1>8. b \in T
  <2> HIDE DEF T
  <2> QED BY <1>6, <1>7, AllNumbers
<1>9. Good(b)
  BY <1>8
<1> HIDE DEF Is
<1> QED BY <1>4, <1>9

LEMMA Floated ==
  ASSUME NEW b \in Nat
  PROVE  \E f \in Nat : /\ f = Float64(b)
                        /\ b < Exact => f = b
                        /\ 2 * b - 2 * f <= Spacing(b) /\ 2 * f - 2 * b <= Spacing(b)
<1> PICK s \in Nat \ {0} : s = Spacing(b) /\ (b < Exact => s = 1)
  BY Spaced
<1> PICK r \in Nat : /\ r = RoundEven(b, s)
                     /\ 2 * b - 2 * (r * s) <= s /\ 2 * (r * s) - 2 * b <= s
                     /\ s = 1 => r = b
  BY Rounded
<1> PICK f \in Nat : f = r * s
  BY Times
<1>1. f = Float64(b)
  BY DEF Float64
<1>2. s = 1 => f = b
  OBVIOUS
<1> QED BY <1>1, <1>2

LEMMA UnitsGrow ==
  /\ \A k \in 1..6 : UnitSizes[k] \in Nat \ {0}
  /\ UnitSizes[1] = Unit /\ \A k \in 1..5 : UnitSizes[k + 1] = UnitSizes[k] * Unit
<1> PICK u \in Nat \ {0} : u = Unit
  BY NumbersAssumption
<1> PICK m \in Nat \ {0} : m = u * u
  BY Positive
<1>1. UnitSizes = <<u, m, m * u, m * m, m * m * u, m * m * m>>
  BY DEF UnitSizes
<1> PICK b \in Nat \ {0} : b = m * m
  BY Positive
<1>2. m * u \in Nat \ {0} /\ b * u \in Nat \ {0} /\ b * m \in Nat \ {0}
  BY Positive
<1>3. (m * u) * u = m * m
  BY Associative
<1>4. (b * u) * u = b * m
  BY Associative
<1>5. \A k \in 1..6 : k = 1 \/ k = 2 \/ k = 3 \/ k = 4 \/ k = 5 \/ k = 6
  OBVIOUS
<1>6. /\ UnitSizes[1] = u /\ UnitSizes[2] = m /\ UnitSizes[3] = m * u
      /\ UnitSizes[4] = b /\ UnitSizes[5] = b * u /\ UnitSizes[6] = b * m
  BY <1>1
<1>7. \A k \in 1..6 : UnitSizes[k] \in Nat \ {0}
  BY <1>2, <1>5, <1>6
<1>8. \A k \in 1..5 : UnitSizes[k + 1] = UnitSizes[k] * Unit
  <2>1. \A k \in 1..5 : k = 1 \/ k = 2 \/ k = 3 \/ k = 4 \/ k = 5
    OBVIOUS
  <2> QED BY <1>3, <1>4, <1>6, <2>1
<1> QED BY <1>6, <1>7, <1>8

(* The div and exp that the loop ends with: they belong together, and div is    *)
(* the largest unit that a size has one of.                                  *)
LEMMA LoopEnds ==
  ASSUME NEW b \in Nat, b >= Unit, b < 8 * UnitSizes[6]
  PROVE  \E k \in 1..6 : /\ Divided(b) = [div |-> UnitSizes[k], exp |-> k - 1]
                         /\ UnitSizes[k] <= b /\ b < UnitSizes[k] * Unit
<1> PICK u \in Nat \ {0} : u = Unit /\ u >= 8
  BY NumbersAssumption
<1> DEFINE Round == [div : Nat, exp : Nat]
           more == [x \in Round |-> [div |-> x.div * Unit, exp |-> x.exp + 1]]
           first == [div |-> Unit, exp |-> 0]
           Is(g) == g = [n \in 0..b |->
                      IF n < Unit THEN [div |-> Unit, exp |-> 0]
                      ELSE [div |-> g[n \div Unit].div * Unit, exp |-> g[n \div Unit].exp + 1]]
<1>1. first \in Round /\ more \in [Round -> Round]
  BY Times
<1>2. \A n \in 0..b : n \div u \in 0..b
  <2> TAKE n \in 0..b
  <2> PICK q \in Nat, r \in 0..u - 1 : q = n \div u /\ n = q * u + r
    BY ONLY n \in 0..b, b \in Nat, u \in Nat \ {0}, Quotients
  <2>1. 1 * q <= u * q
    BY Monotone
  <2>2. q * u \in Nat /\ u * q = q * u
    BY Times
  <2> QED BY <2>1, <2>2
<1>3. \E g : Is(g)
  <2> HIDE DEF first, more, Round
  <2>1. PICK g : Halves(g, Round, first, more, b, u, u)
    BY ONLY <1>1, u \in Nat \ {0}, u >= 8, b \in Nat, Halving
  <2>2. \A n \in 0..b : more[g[n \div u]]
                        = [div |-> g[n \div u].div * u, exp |-> g[n \div u].exp + 1]
    BY <1>2, <2>1 DEF more, Halves
  <2>3. g = [n \in 0..b |-> IF n < u THEN [div |-> u, exp |-> 0]
                            ELSE [div |-> g[n \div u].div * u, exp |-> g[n \div u].exp + 1]]
    BY <2>1, <2>2 DEF first, Halves
  <2> QED BY <2>3
<1>4. PICK g : Is(g) /\ Divided(b) = g[b \div u]
  <2>1. Is(CHOOSE g : Is(g))
    BY <1>3
  <2> QED BY <2>1 DEF Divided
<1>5. \A n \in 0..b :
        g[n] = IF n < u THEN [div |-> u, exp |-> 0]
               ELSE [div |-> g[n \div u].div * u, exp |-> g[n \div u].exp + 1]
  BY <1>4
<1> HIDE DEF Is
<1> DEFINE At(n, j) == /\ g[n] = [div |-> UnitSizes[j], exp |-> j - 1]
                       /\ n < UnitSizes[j] /\ (j = 1 \/ UnitSizes[j - 1] <= n)
           T == {k \in Nat : k + 1 \in 1..6 =>
                   \A n \in 0..b : n < UnitSizes[k + 1] => \E j \in 1..k + 1 : At(n, j)}
<1>6. \A n \in 0..b : n < u => At(n, 1)
  <2>1. UnitSizes[1] = u /\ 1 - 1 = 0
    BY UnitsGrow
  <2> QED BY <1>5, <2>1
<1>7. ASSUME NEW k \in 1..5, NEW n \in 0..b, n >= u, NEW j \in 1..k, At(n \div u, j)
      PROVE  At(n, j + 1)
  <2> PICK q \in Nat, r \in 0..u - 1 : q = n \div u /\ n = q * u + r
    BY ONLY n \in 0..b, b \in Nat, u \in Nat \ {0}, Quotients
  <2> PICK z \in Nat \ {0} : z = UnitSizes[j] /\ UnitSizes[j + 1] = z * u
    BY UnitsGrow
  <2>1. g[n] = [div |-> z * u, exp |-> (j - 1) + 1]
    <3>1. g[q] = [div |-> z, exp |-> j - 1]
      BY <1>7
    <3>2. g[q].div = z /\ g[q].exp = j - 1
      BY <3>1
    <3>3. ~(n < u)
      BY <1>7
    <3>4. g[n] = [div |-> g[q].div * u, exp |-> g[q].exp + 1]
      BY <1>5, <3>3
    <3> QED BY <3>2, <3>4
  <2>2. q < z
    BY <1>7
  <2>3. n < z * u
    <3>1. (q + 1) * u <= z * u
      BY <2>2, Monotone
    <3>2. (q + 1) * u = q * u + u
      OBVIOUS
    <3>3. q * u \in Nat /\ z * u \in Nat
      BY Times
    <3> QED BY <3>1, <3>2, <3>3
  <2>4. z <= n
    <3>1. CASE j = 1
      BY <1>7, <3>1, UnitsGrow
    <3>2. CASE j # 1
      <4> PICK y \in Nat \ {0} : y = UnitSizes[j - 1] /\ z = y * u
        <5>1. j - 1 \in 1..5 /\ (j - 1) + 1 = j
          BY <3>2
        <5> QED BY <5>1, UnitsGrow
      <4>1. y <= q
        BY <1>7, <3>2
      <4>2. y * u <= q * u
        BY <4>1, Monotone
      <4>3. q * u \in Nat
        BY Times
      <4> QED BY <4>2, <4>3
    <3> QED BY <3>1, <3>2
  <2>5. (j - 1) + 1 = (j + 1) - 1 /\ (j + 1) - 1 = j
    OBVIOUS
  <2> QED BY <2>1, <2>3, <2>4, <2>5
<1>8. 0 \in T
  BY <1>6, UnitsGrow
<1>9. ASSUME NEW k \in Nat, k \in T PROVE k + 1 \in T
  <2> HIDE DEF At
  <2> SUFFICES ASSUME (k + 1) + 1 \in 1..6, NEW n \in 0..b, n < UnitSizes[(k + 1) + 1]
               PROVE  \E j \in 1..(k + 1) + 1 : At(n, j)
    OBVIOUS
  <2> PICK K \in 1..5 : K = k + 1
    OBVIOUS
  <2>1. CASE n < u
    <3>1. 1 \in 1..(k + 1) + 1
      OBVIOUS
    <3> QED BY <1>6, <2>1, <3>1
  <2>2. CASE ~(n < u)
    <3> PICK q \in Nat, r \in 0..u - 1 : q = n \div u /\ n = q * u + r
      BY ONLY n \in 0..b, b \in Nat, u \in Nat \ {0}, Quotients
    <3> PICK z \in Nat \ {0} : z = UnitSizes[K] /\ UnitSizes[K + 1] = z * u
      BY UnitsGrow
    <3>1. q < z
      <4>1. n < z * u
        OBVIOUS
      <4> QED BY ONLY <4>1, q = n \div u, n \in 0..b, b \in Nat, Bounded
    <3>2. q \in 0..b
      BY <1>2
    <3>3. PICK j \in 1..K : At(q, j)
      BY <1>9, <3>1, <3>2
    <3>4. At(n, j + 1)
      <4>1. n >= u /\ j \in 1..K /\ At(n \div u, j)
        BY <2>2, <3>3
      <4> QED BY ONLY <1>7, <4>1, K \in 1..5, n \in 0..b
    <3>5. j + 1 \in 1..(k + 1) + 1
      OBVIOUS
    <3> QED BY <3>4, <3>5
  <2> QED BY <2>1, <2>2
<1>10. 5 \in T
  <2> HIDE DEF T
  <2> QED BY <1>8, <1>9, AllNumbers
<1>11. b \div u \in 0..b /\ b \div u < UnitSizes[6]
  <2> PICK z \in Nat \ {0} : z = UnitSizes[6]
    BY UnitsGrow
  <2>1. 8 * z <= u * z
    BY Monotone
  <2>2. u * z = z * u /\ z * u \in Nat
    BY Times
  <2>3. b < z * u
    BY <2>1, <2>2
  <2>4. b \div u < z
    BY <2>3, Bounded
  <2> QED BY <1>2, <2>4
<1>12. PICK j \in 1..6 : At(b \div u, j)
  <2> HIDE DEF At
  <2>1. 5 + 1 = 6 /\ 6 \in 1..6
    OBVIOUS
  <2>2. \A n \in 0..b : n < UnitSizes[6] => \E j \in 1..6 : At(n, j)
    BY <1>10, <2>1
  <2> QED BY <1>11, <2>2
<1>13. Divided(b) = [div |-> UnitSizes[j], exp |-> j - 1]
  BY <1>4, <1>12
<1> PICK q \in Nat, r \in 0..u - 1 : q = b \div u /\ b = q * u + r
  BY ONLY b \in Nat, u \in Nat \ {0}, Quotients
<1> PICK z \in Nat \ {0} : z = UnitSizes[j]
  BY UnitsGrow
<1>14. b < z * u
  <2>1. q < z
    BY <1>12
  <2>2. (q + 1) * u <= z * u
    BY <2>1, Monotone
  <2>3. (q + 1) * u = q * u + u
    OBVIOUS
  <2>4. q * u \in Nat /\ z * u \in Nat
    BY Times
  <2> QED BY <2>2, <2>3, <2>4
<1>15. z <= b
  <2>1. CASE j = 1
    BY <2>1, UnitsGrow
  <2>2. CASE j # 1
    <3> PICK y \in Nat \ {0} : y = UnitSizes[j - 1] /\ z = y * u
      <4>1. j - 1 \in 1..5 /\ (j - 1) + 1 = j
        BY <2>2
      <4> QED BY <4>1, UnitsGrow
    <3>1. y <= q
      BY <1>12, <2>2
    <3>2. y * u <= q * u
      BY <3>1, Monotone
    <3>3. q * u \in Nat
      BY Times
    <3> QED BY <3>2, <3>3
  <2> QED BY <2>1, <2>2
<1> QED BY <1>13, <1>14, <1>15

(* Sizes as they are printed, and durations.                                 *)
SizeInv ==
  /\ quantity \in [kind : {"size"}, value : Sizes] \union [kind : {"time"}, value : Durations]
  /\ SizeReadsBack
  /\ numberPc = "done" /\ quantity.kind = "size" => printed = ByteToString(quantity.value)

LEMMA BytePrinted ==
  ASSUME NEW b \in Sizes, NEW text, text = ByteToString(b)
  PROVE  ReadsBack(b, text)
<1>1. b \in Nat /\ b < 8 * UnitSizes[6] /\ Unit \in Nat \ {0} /\ Exact \in Nat /\ Exact >= 20 * Unit
  BY NumbersAssumption
<1> PICK u \in Nat \ {0} : u = Unit
  BY <1>1
<1> PICK x \in Nat : x = Exact /\ x >= 20 * u
  BY <1>1
<1>2. CASE b < u
  <2>1. text.tenths = 10 * b /\ text.unit = 1 /\ text.suffix = "B"
    BY <1>2 DEF ByteToString
  <2>2. b < x
    BY <1>1, <1>2
  <2>3. 10 * b - 10 * b * 1 = 0 /\ b < u * 1 /\ 10 * b <= 10 * u
    BY <1>1, <1>2
  <2> QED BY <1>1, <2>1, <2>2, <2>3 DEF ReadsBack
<1>3. CASE ~(b < u)
  <2>1. PICK k \in 1..6 : /\ Divided(b) = [div |-> UnitSizes[k], exp |-> k - 1]
                          /\ UnitSizes[k] <= b /\ b < UnitSizes[k] * u
    BY <1>1, <1>3, LoopEnds
  <2> PICK d \in Nat \ {0} : d = UnitSizes[k]
    BY UnitsGrow
  <2> PICK s \in Nat \ {0} : /\ s = Spacing(b)
                             /\ b < x => s = 1
                             /\ b >= x => x * s <= 2 * b
    BY <1>1, Spaced
  <2> PICK f \in Nat : /\ f = Float64(b) /\ (b < x => f = b)
                       /\ 2 * b - 2 * f <= s /\ 2 * f - 2 * b <= s
    BY <1>1, Floated
  <2> PICK n \in Nat : n = 10 * f
    OBVIOUS
  <2> PICK t \in Nat : t = RoundEven(n, d) /\ 2 * n - 2 * (t * d) <= d /\ 2 * (t * d) - 2 * n <= d
    BY Rounded
  <2> PICK p \in Nat : p = t * d
    BY Times
  <2>2. text.tenths = t /\ text.unit = d /\ text.suffix = SizeSuffixes[k]
    <3>1. (k - 1) + 1 = k
      OBVIOUS
    <3> QED BY <1>3, <2>1, <3>1 DEF ByteToString
  <2>3. 2 * (10 * b - p) <= d + (IF b < x THEN 0 ELSE 10 * s)
    BY <1>1
  <2>4. -2 * (10 * b - p) <= d + (IF b < x THEN 0 ELSE 10 * s)
    BY <1>1
  <2> PICK w \in Nat : w = d * u
    BY Times
  <2>5. d <= b /\ b < w
    BY <2>1
  <2>6. b >= x => 10 * s < d
    <3> SUFFICES ASSUME b >= x, d <= 10 * s PROVE FALSE
      OBVIOUS
    <3>1. (20 * u) * s <= x * s
      BY Monotone
    <3>2. (20 * u) * s = 2 * (u * (10 * s))
      OBVIOUS
    <3>3. d * u <= (10 * s) * u
      BY Monotone
    <3>4. (10 * s) * u = u * (10 * s)
      OBVIOUS
    <3>5. u * (10 * s) \in Nat /\ x * s \in Nat
      BY Times
    <3> QED BY <1>1, <2>5, <3>1, <3>2, <3>3, <3>4, <3>5
  <2>7. t <= 10 * u
    <3> SUFFICES ASSUME 10 * u + 1 <= t PROVE FALSE
      OBVIOUS
    <3>1. (10 * u + 1) * d <= t * d
      BY Monotone
    <3>2. (10 * u + 1) * d = 10 * (d * u) + d
      OBVIOUS
    <3>3. 10 * w + d <= p
      BY <3>1, <3>2
    <3> QED BY ONLY <1>1, <2>5, <2>6, <3>3, w \in Nat, p \in Nat, f \in Nat, n = 10 * f, d \in Nat \ {0},
                    s \in Nat \ {0}, x \in Nat, p = t * d, 2 * (t * d) - 2 * n <= d,
                    2 * f - 2 * b <= s, b < x => f = b
  <2>8. text.unit * u = u * text.unit /\ d * u = u * d
    BY <2>2
  <2>9. \E j \in 1..6 : text.suffix = SizeSuffixes[j] /\ text.unit = UnitSizes[j]
    BY <2>2
  <2> QED BY <2>2, <2>3, <2>4, <2>5, <2>7, <2>8, <2>9 DEF ReadsBack
<1> QED BY <1>2, <1>3

(* For any unit that is a size, and any size: what ByteToString prints reads    *)
(* back as that size, to half of a tenth of the unit.                        *)
THEOREM SizesReadBack == NumbersSpec => []SizeReadsBack
<1>1. NumbersInit => SizeInv
  BY DEF NumbersInit, NumbersStart, SizeInv, SizeReadsBack
<1>2. SizeInv /\ [NumbersNext]_numberVars => SizeInv'
  <2> SUFFICES ASSUME SizeInv, [NumbersNext]_numberVars PROVE SizeInv'
    OBVIOUS
  <2>1. CASE FormatSize
    <3>1. quantity' = quantity /\ quantity.value \in Sizes /\ printed' = ByteToString(quantity.value)
      BY <2>1 DEF FormatSize, SizeInv
    <3> PICK b \in Sizes : b = quantity.value
      BY <3>1
    <3> PICK text : text = ByteToString(b)
      OBVIOUS
    <3>2. quantity'.value = b /\ printed' = text
      BY <3>1
    <3>3. ReadsBack(b, text)
      BY BytePrinted
    <3>4. SizeReadsBack'
      BY <3>2, <3>3 DEF SizeReadsBack, ReadsBack
    <3> QED BY <3>1, <3>4 DEF SizeInv
  <2>2. CASE FormatDuration
    BY <2>2 DEF FormatDuration, SizeInv, SizeReadsBack
  <2>3. CASE UNCHANGED numberVars
    BY <2>3 DEF numberVars, SizeInv, SizeReadsBack
  <2> QED BY <2>1, <2>2, <2>3 DEF NumbersNext
<1>3. SizeInv => SizeReadsBack
  BY DEF SizeInv
<1> QED BY <1>1, <1>2, <1>3, PTL DEF NumbersSpec

-----------------------------------------------------------------------------
(***************************************************************************)
(* Offsets of entries                                                      *)
(***************************************************************************)

LEMMA EntriesType ==
  ASSUME mem \in Memory
  PROVE  /\ Len(mem.entries) \in Nat /\ DOMAIN mem.entries = 1..Len(mem.entries)
         /\ \A e \in DOMAIN mem.entries : /\ mem.entries[e].page \in Nat
                                          /\ mem.entries[e].pages \in Nat \ {0}
<1>1. mem.entries \in Seq(Entry)
  BY DEF Memory
<1>2. Len(mem.entries) \in Nat /\ DOMAIN mem.entries = 1..Len(mem.entries)
  BY <1>1
<1>3. \A e \in DOMAIN mem.entries : mem.entries[e] \in Entry
  BY <1>1
<1> QED BY <1>2, <1>3 DEF Entry

(* The offsets that Offset adds up exist.                                    *)
LEMMA OffsetRule ==
  ASSUME mem \in Memory
  PROVE  Offset = [e \in 1..Len(mem.entries) + 1 |->
                     IF e = 1 THEN 0 ELSE Offset[e - 1] + mem.entries[e - 1].pages]
<1> DEFINE N == Len(mem.entries)
           Next(g, e) == IF e = 1 THEN 0 ELSE g[e - 1] + mem.entries[e - 1].pages
           T == {n \in Nat : \E g \in [1..N + 1 -> Nat] :
                               \A e \in 1..N + 1 : e <= n => g[e] = Next(g, e)}
<1>1. N \in Nat /\ \A e \in 2..N + 1 : mem.entries[e - 1].pages \in Nat
  <2>1. \A e \in 2..Len(mem.entries) + 1 : e - 1 \in 1..Len(mem.entries)
    BY EntriesType
  <2> QED BY <2>1, EntriesType
<1>2. 0 \in T
  <2>1. [e \in 1..N + 1 |-> 0] \in [1..N + 1 -> Nat]
    OBVIOUS
  <2>2. \A e \in 1..N + 1 : ~(e <= 0)
    BY <1>1
  <2> QED BY <2>1, <2>2
<1>3. ASSUME NEW n \in Nat, n \in T PROVE n + 1 \in T
  <2>1. PICK g \in [1..N + 1 -> Nat] : \A e \in 1..N + 1 : e <= n => g[e] = Next(g, e)
    BY <1>3
  <2> HIDE DEF N
  <2> DEFINE h == [e \in 1..N + 1 |-> IF e = n + 1 THEN Next(g, e) ELSE g[e]]
  <2>2. \A e \in 1..N + 1 : e # 1 => e - 1 \in 1..N + 1 /\ e \in 2..N + 1
    BY <1>1
  <2>3. \A e \in 1..N + 1 : Next(g, e) \in Nat
    BY <1>1, <2>2
  <2>4. h \in [1..N + 1 -> Nat]
    BY <2>3
  <2>5. \A e \in 1..N + 1 : e <= n + 1 => Next(h, e) = Next(g, e)
    BY <1>1, <2>2
  <2>6. \A e \in 1..N + 1 : e <= n + 1 => h[e] = Next(g, e)
    BY <1>1, <2>1
  <2>7. \A e \in 1..N + 1 : e <= n + 1 => h[e] = Next(h, e)
    BY <2>5, <2>6
  <2> HIDE DEF h, Next
  <2>8. \E f \in [1..N + 1 -> Nat] : \A e \in 1..N + 1 : e <= n + 1 => f[e] = Next(f, e)
    BY <2>4, <2>7, Zenon
  <2>9. n + 1 \in Nat
    OBVIOUS
  <2> QED BY <2>8, <2>9
<1>4. N + 1 \in T
  <2> HIDE DEF T, N
  <2> QED BY <1>1, <1>2, <1>3, AllNumbers
<1>5. PICK g \in [1..N + 1 -> Nat] : \A e \in 1..N + 1 : e <= N + 1 => g[e] = Next(g, e)
  BY <1>4
<1>6. g = [e \in 1..N + 1 |-> IF e = 1 THEN 0 ELSE g[e - 1] + mem.entries[e - 1].pages]
  <2>1. \A e \in 1..N + 1 : g[e] = Next(g, e)
    BY <1>1, <1>5
  <2> HIDE DEF N
  <2> QED BY <2>1
<1>7. \E f : f = [e \in 1..Len(mem.entries) + 1 |->
                    IF e = 1 THEN 0 ELSE f[e - 1] + mem.entries[e - 1].pages]
  BY <1>6
<1> QED BY <1>7 DEF Offset

LEMMA Offsets ==
  ASSUME mem \in Memory
  PROVE  /\ Offset[1] = 0
         /\ \A e \in DOMAIN mem.entries : /\ Offset[e] \in Nat
                                          /\ Offset[e + 1] = Offset[e] + mem.entries[e].pages
<1>1. PICK N \in Nat : N = Len(mem.entries)
  BY EntriesType
<1>2. DOMAIN mem.entries = 1..N
  BY <1>1, EntriesType
<1>3. \A e \in 1..N + 1 : Offset[e] = IF e = 1 THEN 0 ELSE Offset[e - 1] + mem.entries[e - 1].pages
  BY ONLY <1>1, OffsetRule, mem \in Memory
<1>4. Offset[1] = 0
  BY <1>1, <1>3
<1>5. \A e \in 1..N : Offset[e + 1] = Offset[e] + mem.entries[e].pages
  <2> TAKE e \in 1..N
  <2>1. e + 1 \in 1..N + 1 /\ e + 1 # 1 /\ (e + 1) - 1 = e
    BY <1>1
  <2> QED BY <1>3, <2>1
<1> DEFINE T == {n \in Nat : n + 1 \in 1..N => Offset[n + 1] \in Nat}
<1>6. 0 \in T
  BY <1>4
<1>7. ASSUME NEW n \in Nat, n \in T PROVE n + 1 \in T
  <2> SUFFICES ASSUME (n + 1) + 1 \in 1..N PROVE Offset[(n + 1) + 1] \in Nat
    OBVIOUS
  <2>1. n + 1 \in 1..N
    BY <1>1
  <2>2. Offset[n + 1] \in Nat /\ mem.entries[n + 1].pages \in Nat
    BY <1>2, <1>7, <2>1, EntriesType
  <2> QED BY <1>5, <2>1, <2>2
<1>8. \A n \in Nat : n \in T
  <2> HIDE DEF T
  <2> QED BY <1>6, <1>7, AllNumbers
<1>9. \A e \in 1..N : Offset[e] \in Nat
  <2> TAKE e \in 1..N
  <2>1. e - 1 \in Nat /\ (e - 1) + 1 = e
    BY <1>1
  <2> QED BY <1>8, <2>1
<1> QED BY <1>2, <1>4, <1>5, <1>9
-----------------------------------------------------------------------------
(***************************************************************************)
(* What FindAllIndex returns                                               *)
(***************************************************************************)

(* The function that FoundFrom defines exists: what it is at a place depends  *)
(* on later places alone.                                                    *)
LEMMA ScanExists ==
  ASSUME NEW text, Len(text) \in Nat, Len(ask.pattern) \in Nat \ {0}
  PROVE  \E found : found = [i \in 1..Len(text) + 1 |->
           IF i > Len(text) THEN <<>>
           ELSE IF OccursAt(ask.pattern, text, i) THEN <<i>> \o found[i + Len(ask.pattern)]
           ELSE found[i + 1]]
<1> DEFINE L == Len(text)
           P == Len(ask.pattern)
           Next(g, i) == IF i > L THEN <<>>
                         ELSE IF OccursAt(ask.pattern, text, i) THEN <<i>> \o g[i + P]
                         ELSE g[i + 1]
           T == {n \in Nat : \E g \in [1..L + 1 -> Seq(Nat)] :
                               \A i \in 1..L + 1 : i + n > L + 1 => g[i] = Next(g, i)}
<1>a. L \in Nat /\ P \in Nat \ {0}
  OBVIOUS
<1>b. \A i \in 1..L + 1 : OccursAt(ask.pattern, text, i) => i + P <= L + 1
  <2> SUFFICES ASSUME NEW i \in 1..L + 1, OccursAt(ask.pattern, text, i) PROVE i + P <= L + 1
    OBVIOUS
  <2>1. i + P - 1 <= L
    BY DEF OccursAt
  <2> HIDE DEF L, P
  <2> QED BY <1>a, <2>1
<1>1. PICK p : p = ask.pattern
  OBVIOUS
<1>2. 0 \in T
  <2>1. [i \in 1..L + 1 |-> <<>>] \in [1..L + 1 -> Seq(Nat)]
    OBVIOUS
  <2>2. \A i \in 1..L + 1 : ~(i + 0 > L + 1)
    BY <1>a
  <2> QED BY <2>1, <2>2
<1>3. ASSUME NEW n \in Nat, n \in T PROVE n + 1 \in T
  <2>1. PICK g \in [1..L + 1 -> Seq(Nat)] : \A i \in 1..L + 1 : i + n > L + 1 => g[i] = Next(g, i)
    BY <1>3
  <2> HIDE DEF L, P
  <2> DEFINE h == [i \in 1..L + 1 |-> IF i + n = L + 1 THEN Next(g, i) ELSE g[i]]
  <2>2. \A i \in 1..L + 1 : i <= L => i + 1 \in 1..L + 1
    BY <1>a
  <2>3. \A i \in 1..L + 1 : OccursAt(ask.pattern, text, i) => i + P \in 1..L + 1
    BY <1>a, <1>b DEF P, L
  <2>4. \A i \in 1..L + 1 : Next(g, i) \in Seq(Nat)
    <3> TAKE i \in 1..L + 1
    <3>1. CASE i > L
      BY <3>1
    <3>2. CASE i <= L /\ OccursAt(ask.pattern, text, i)
      <4>1. g[i + P] \in Seq(Nat) /\ <<i>> \in Seq(Nat)
        BY <2>3, <3>2
      <4>2. <<i>> \o g[i + P] \in Seq(Nat)
        BY <4>1
      <4>3. ~(i > L)
        BY <1>a, <3>2
      <4> QED BY <3>2, <4>2, <4>3
    <3>3. CASE i <= L /\ ~OccursAt(ask.pattern, text, i)
      BY <1>a, <2>2, <3>3
    <3> QED BY <1>a, <3>1, <3>2, <3>3
  <2>5. h \in [1..L + 1 -> Seq(Nat)]
    BY <2>4
  <2>6. \A i \in 1..L + 1 : i + (n + 1) > L + 1 => Next(h, i) = Next(g, i)
    <3> SUFFICES ASSUME NEW i \in 1..L + 1, i + (n + 1) > L + 1 PROVE Next(h, i) = Next(g, i)
      OBVIOUS
    <3>1. i <= L => h[i + 1] = g[i + 1]
      BY <1>a, <2>2
    <3>2. OccursAt(ask.pattern, text, i) => h[i + P] = g[i + P]
      BY <1>a, <2>3 DEF P
    <3>3. i \in Nat /\ (~(i > L) => i <= L)
      BY <1>a
    <3> HIDE DEF h
    <3> QED BY <3>1, <3>2, <3>3
  <2>7. \A i \in 1..L + 1 : i + (n + 1) > L + 1 => h[i] = Next(g, i)
    <3> SUFFICES ASSUME NEW i \in 1..L + 1, i + (n + 1) > L + 1 PROVE h[i] = Next(g, i)
      OBVIOUS
    <3>1. i + n = L + 1 \/ i + n > L + 1
      BY <1>a
    <3>2. i + n = L + 1 => h[i] = Next(g, i)
      OBVIOUS
    <3>3. i + n > L + 1 => h[i] = g[i]
      BY <1>a
    <3> HIDE DEF h, Next
    <3> QED BY <2>1, <3>1, <3>2, <3>3
  <2>8. \A i \in 1..L + 1 : i + (n + 1) > L + 1 => h[i] = Next(h, i)
    BY <2>6, <2>7
  <2> HIDE DEF h, Next
  <2>9. \E f \in [1..L + 1 -> Seq(Nat)] : \A i \in 1..L + 1 : i + (n + 1) > L + 1 => f[i] = Next(f, i)
    BY <2>5, <2>8, Zenon
  <2>10. n + 1 \in Nat
    OBVIOUS
  <2> QED BY <2>9, <2>10
<1>4. L + 1 \in T
  <2>1. L + 1 \in Nat
    BY <1>a
  <2> HIDE DEF T, L
  <2> QED BY <1>2, <1>3, <2>1, AllNumbers
<1>5. PICK g \in [1..L + 1 -> Seq(Nat)] :
        \A i \in 1..L + 1 : i + (L + 1) > L + 1 => g[i] = Next(g, i)
  BY <1>4
<1>6. \A i \in 1..L + 1 : g[i] = Next(g, i)
  BY <1>a, <1>5
<1>7. g = [i \in 1..L + 1 |->
             IF i > L THEN <<>>
             ELSE IF OccursAt(ask.pattern, text, i) THEN <<i>> \o g[i + P]
             ELSE g[i + 1]]
  <2> HIDE DEF L, P
  <2> QED BY <1>6
<1> QED BY <1>7

(* The matches that are found from place i on: each is one, they are apart,    *)
(* and they cover every one there is.                                        *)
AllFound(found, text, i) ==
  /\ found \in Seq(i..Len(text))
  /\ \A k \in DOMAIN found : OccursAt(ask.pattern, text, found[k])
  /\ \A k, l \in DOMAIN found : k < l => found[k] + Len(ask.pattern) <= found[l]
  /\ \A j \in i..Len(text) : OccursAt(ask.pattern, text, j) =>
       \E k \in DOMAIN found : found[k] <= j /\ j < found[k] + Len(ask.pattern)

LEMMA FoundNone ==
  ASSUME NEW text, Len(text) \in Nat, NEW i \in Nat, i > Len(text)
  PROVE  AllFound(<<>>, text, i)
<1>1. \A j \in i..Len(text) : FALSE
  OBVIOUS
<1>2. <<>> \in Seq(i..Len(text)) /\ DOMAIN <<>> = {}
  OBVIOUS
<1> QED BY <1>1, <1>2 DEF AllFound

LEMMA FoundLater ==
  ASSUME NEW text, Len(text) \in Nat, NEW i \in 1..Len(text), NEW found,
         ~OccursAt(ask.pattern, text, i), AllFound(found, text, i + 1)
  PROVE  AllFound(found, text, i)
<1>1. i + 1..Len(text) \subseteq i..Len(text)
  OBVIOUS
<1>2. \A j \in i..Len(text) : j = i \/ j \in i + 1..Len(text)
  OBVIOUS
<1>3. found \in Seq(i..Len(text))
  BY <1>1 DEF AllFound
<1> QED BY <1>2, <1>3 DEF AllFound

LEMMA FoundHere ==
  ASSUME NEW text, Len(text) \in Nat, Len(ask.pattern) \in Nat \ {0}, NEW i \in 1..Len(text),
         NEW rest, OccursAt(ask.pattern, text, i), AllFound(rest, text, i + Len(ask.pattern))
  PROVE  AllFound(<<i>> \o rest, text, i)
<1> PICK P \in Nat \ {0} : P = Len(ask.pattern)
  OBVIOUS
<1> PICK L \in Nat : L = Len(text)
  OBVIOUS
<1> PICK all : all = <<i>> \o rest
  OBVIOUS
<1>1. rest \in Seq(i + P..L)
  BY DEF AllFound
<1>2. /\ rest \in Seq(i..L) /\ Len(rest) \in Nat /\ DOMAIN rest = 1..Len(rest)
      /\ \A k \in DOMAIN rest : rest[k] \in i + P..L
  <2>1. i + P..L \subseteq i..L
    OBVIOUS
  <2> QED BY <1>1, <2>1
<1>3. /\ all \in Seq(i..L) /\ DOMAIN all = 1..Len(rest) + 1 /\ all[1] = i
      /\ \A k \in DOMAIN rest : all[k + 1] = rest[k]
  <2>1. <<i>> \in Seq(i..L)
    OBVIOUS
  <2> QED BY <1>2, <2>1
<1>4. \A k \in DOMAIN all : k = 1 \/ (k - 1 \in DOMAIN rest /\ all[k] = rest[k - 1])
  <2> TAKE k \in DOMAIN all
  <2>1. k # 1 => k - 1 \in DOMAIN rest /\ (k - 1) + 1 = k
    BY <1>2, <1>3
  <2> QED BY <1>3, <2>1
<1>5. \A k \in DOMAIN all : OccursAt(ask.pattern, text, all[k])
  BY <1>3, <1>4 DEF AllFound
<1>6. ASSUME NEW k \in DOMAIN all, NEW l \in DOMAIN all, k < l
      PROVE  all[k] + P <= all[l]
  <2>1. l # 1 /\ l - 1 \in DOMAIN rest /\ all[l] = rest[l - 1]
    BY <1>2, <1>3, <1>4, <1>6
  <2>2. CASE k = 1
    BY <1>2, <1>3, <2>1, <2>2
  <2>3. CASE k # 1
    <3>1. k - 1 \in DOMAIN rest /\ all[k] = rest[k - 1]
      BY <1>4, <2>3
    <3>2. k - 1 < l - 1
      BY <1>3, <1>6
    <3> QED BY <2>1, <3>1, <3>2 DEF AllFound
  <2> QED BY <2>2, <2>3
<1>7. ASSUME NEW j \in i..L, OccursAt(ask.pattern, text, j)
      PROVE  \E k \in DOMAIN all : all[k] <= j /\ j < all[k] + P
  <2>1. CASE j < i + P
    <3>1. 1 \in DOMAIN all /\ all[1] = i
      BY <1>2, <1>3
    <3> QED BY <2>1, <3>1
  <2>2. CASE ~(j < i + P)
    <3>1. j \in i + P..L
      BY <2>2
    <3>2. PICK k \in DOMAIN rest : rest[k] <= j /\ j < rest[k] + P
      BY <1>7, <3>1 DEF AllFound
    <3>3. k + 1 \in DOMAIN all /\ all[k + 1] = rest[k]
      BY <1>2, <1>3
    <3> QED BY <3>2, <3>3
  <2> QED BY <2>1, <2>2
<1> QED BY <1>3, <1>5, <1>6, <1>7 DEF AllFound

LEMMA ScanFinds ==
  ASSUME NEW text, Len(text) \in Nat, Len(ask.pattern) \in Nat \ {0}
  PROVE  AllFound(FoundFrom(text), text, 1)
<1> DEFINE L == Len(text)
           P == Len(ask.pattern)
<1>a. L \in Nat /\ P \in Nat \ {0}
  OBVIOUS
<1>1. \E f : /\ f = [i \in 1..L + 1 |->
                       IF i > L THEN <<>>
                       ELSE IF OccursAt(ask.pattern, text, i) THEN <<i>> \o f[i + P]
                       ELSE f[i + 1]]
             /\ FoundFrom(text) = f[1]
  BY ScanExists DEF FoundFrom
<1>2. PICK f : /\ f = [i \in 1..L + 1 |->
                         IF i > L THEN <<>>
                         ELSE IF OccursAt(ask.pattern, text, i) THEN <<i>> \o f[i + P]
                         ELSE f[i + 1]]
               /\ FoundFrom(text) = f[1]
  BY <1>1
<1>3. \A i \in 1..L + 1 : f[i] = IF i > L THEN <<>>
                       ELSE IF OccursAt(ask.pattern, text, i) THEN <<i>> \o f[i + P]
                       ELSE f[i + 1]
  <2> HIDE DEF L, P
  <2> QED BY <1>2
<1> DEFINE T == {n \in Nat : \A i \in 1..L + 1 : i + n >= L + 1 => AllFound(f[i], text, i)}
<1>b. \A i \in 1..L + 1 : OccursAt(ask.pattern, text, i) => i + P <= L + 1
  <2> SUFFICES ASSUME NEW i \in 1..L + 1, OccursAt(ask.pattern, text, i) PROVE i + P <= L + 1
    OBVIOUS
  <2>1. i + P - 1 <= L
    BY DEF OccursAt
  <2> HIDE DEF L, P
  <2> QED BY <1>a, <2>1
<1>4. \A i \in 1..L + 1 : i > L => AllFound(f[i], text, i)
  <2> SUFFICES ASSUME NEW i \in 1..L + 1, i > L PROVE AllFound(f[i], text, i)
    OBVIOUS
  <2>1. f[i] = <<>>
    BY <1>3
  <2>2. i \in Nat
    BY <1>a
  <2> QED BY <2>1, <2>2, FoundNone
<1>5. 0 \in T
  <2>1. \A i \in 1..L + 1 : i + 0 >= L + 1 => i > L
    BY <1>a
  <2> QED BY <1>4, <2>1
<1>6. ASSUME NEW n \in Nat, n \in T PROVE n + 1 \in T
  <2>1. ASSUME NEW i \in 1..L + 1, i + (n + 1) >= L + 1, ~(i > L) PROVE AllFound(f[i], text, i)
    <3>1. i \in 1..L
      BY <1>a, <2>1
    <3>2. CASE OccursAt(ask.pattern, text, i)
      <4>1. i + P \in 1..L + 1 /\ (i + P) + n >= L + 1
        BY <1>a, <1>b, <2>1, <3>2
      <4>2. AllFound(f[i + P], text, i + P)
        BY <1>6, <4>1
      <4>3. f[i] = <<i>> \o f[i + P]
        BY <1>3, <2>1, <3>2
      <4> QED BY <3>1, <3>2, <4>2, <4>3, FoundHere
    <3>3. CASE ~OccursAt(ask.pattern, text, i)
      <4>1. i + 1 \in 1..L + 1 /\ (i + 1) + n >= L + 1
        BY <1>a, <2>1, <3>1
      <4>2. AllFound(f[i + 1], text, i + 1)
        BY <1>6, <4>1
      <4>3. f[i] = f[i + 1]
        BY <1>3, <2>1, <3>3
      <4> QED BY <3>1, <3>3, <4>2, <4>3, FoundLater
    <3> QED BY <3>2, <3>3
  <2>2. \A i \in 1..L + 1 : i + (n + 1) >= L + 1 => AllFound(f[i], text, i)
    BY <1>4, <2>1
  <2>3. n + 1 \in Nat
    OBVIOUS
  <2> QED BY <2>2, <2>3
<1>7. L + 1 \in T
  <2>1. L + 1 \in Nat
    BY <1>a
  <2> HIDE DEF T, L
  <2> QED BY <1>5, <1>6, <2>1, AllNumbers
<1>8. 1 \in 1..L + 1 /\ 1 + (L + 1) >= L + 1
  BY <1>a
<1> QED BY <1>2, <1>7, <1>8
-----------------------------------------------------------------------------
(***************************************************************************)
(* The text of a chunk                                                     *)
(***************************************************************************)

LEMMA PageSize == PageBytes \in Nat \ {0}
  BY Positive, MemoryAssumption DEF PageBytes

(* A page is where its entry says.                                           *)
LEMMA IndexOf ==
  ASSUME mem \in Memory, PagesApart(mem.entries), NEW e \in DOMAIN mem.entries,
         NEW n \in PageNumbers(e)
  PROVE  Index(n) = Offset[e] + n - mem.entries[e].page + 1
<1>1. ASSUME NEW f \in DOMAIN mem.entries, n \in PageNumbers(f) PROVE f = e
  <2>1. /\ mem.entries[e].page \in Nat /\ mem.entries[e].pages \in Nat
        /\ mem.entries[f].page \in Nat /\ mem.entries[f].pages \in Nat
    BY EntriesType
  <2>2. /\ mem.entries[e].page <= n /\ n < mem.entries[e].page + mem.entries[e].pages
        /\ mem.entries[f].page <= n /\ n < mem.entries[f].page + mem.entries[f].pages
        /\ n \in Nat
    BY <1>1, <2>1 DEF PageNumbers
  <2> QED BY <2>1, <2>2 DEF PagesApart
<1>2. (CHOOSE f \in DOMAIN mem.entries : n \in PageNumbers(f)) = e
  BY <1>1
<1> QED BY <1>2 DEF Index

LEMMA ChunkText ==
  ASSUME mem \in Memory, PagesApart(mem.entries), NEW e \in DOMAIN mem.entries,
         NEW first \in Nat, NEW n \in Nat, first + n <= mem.entries[e].pages,
         Offset[e] + first + n <= Len(mem.file), NEW text, text = Buffer(Offset[e] + first, n)
  PROVE  /\ n * PageBytes \in Nat /\ first * PageBytes \in Nat /\ Base(e) \in Nat
         /\ Len(text) = n * PageBytes /\ text \in Seq(Printable)
         /\ \A i \in 1..n * PageBytes : text[i] = ByteAt(Base(e) + first * PageBytes + i - 1)
<1> PICK B \in Nat \ {0} : B = PageBytes
  BY PageSize
<1> PICK page \in Nat, pages \in Nat : page = mem.entries[e].page /\ pages = mem.entries[e].pages
  BY EntriesType
<1> PICK off \in Nat : off = Offset[e]
  BY Offsets
<1>1. n * B \in Nat /\ first * B \in Nat /\ page * B \in Nat /\ Base(e) = page * B
  BY Times DEF Base
<1>2. text = [i \in 1..n * B |->
        LET b == mem.file[off + first + 1 + ((i - 1) \div B)][((i - 1) % B) + 1]
        IN IF b \in Printable THEN b ELSE Question]
  BY DEF Buffer
<1>3. ASSUME NEW i \in 1..n * B
      PROVE  /\ text[i] = ByteAt(Base(e) + first * B + i - 1)
             /\ text[i] \in Printable
  <2>1. PICK k \in Nat, r \in 0..B - 1 : k = (i - 1) \div B /\ r = (i - 1) % B
    <3>1. i - 1 \in Nat
      BY <1>1
    <3> QED BY <3>1, Division
  <2>2. k < n
    <3>1. i - 1 \in Nat /\ i - 1 < n * B
      BY <1>1
    <3> QED BY <2>1, <3>1, Bounded
  <2>3. Base(e) + first * B + i - 1 = (page + first) * B + (i - 1)
    <3>1. (page + first) * B = page * B + first * B
      OBVIOUS
    <3> QED BY <1>1, <3>1
  <2>4. /\ (Base(e) + first * B + i - 1) \div B = page + first + k
        /\ (Base(e) + first * B + i - 1) % B = r
    <3>1. i - 1 \in Nat /\ page + first \in Nat
      BY ONLY <1>1, i \in 1..n * B, page \in Nat, first \in Nat
    <3>2. PICK q \in Nat, a \in Nat : q = page + first /\ a = i - 1
      BY <3>1
    <3>3. (q * B + a) \div B = q + (a \div B) /\ (q * B + a) % B = a % B
      BY Shifted
    <3> QED BY <2>1, <2>3, <3>2, <3>3
  <2>5. page + first + k \in PageNumbers(e)
    <3>1. first + n <= pages
      OBVIOUS
    <3>2. page <= page + first + k /\ page + first + k <= page + pages - 1
      BY ONLY <2>2, <3>1, page \in Nat, pages \in Nat, first \in Nat, n \in Nat, k \in Nat
    <3>3. PageNumbers(e) = page..page + pages - 1
      BY DEF PageNumbers
    <3> QED BY <3>2, <3>3
  <2>6. Index(page + first + k) = off + first + 1 + k
    <3>1. Index(page + first + k) = off + (page + first + k) - page + 1
      BY <2>5, IndexOf
    <3>2. off + (page + first + k) - page + 1 = off + first + 1 + k
      BY ONLY page \in Nat, off \in Nat, first \in Nat, k \in Nat
    <3> QED BY <3>1, <3>2
  <2> DEFINE b == mem.file[off + first + 1 + k][r + 1]
  <2>7. text[i] = IF b \in Printable THEN b ELSE Question
    BY <1>2, <2>1
  <2>8. ByteAt(Base(e) + first * B + i - 1) = IF b \in Printable THEN b ELSE Question
    BY <2>4, <2>6 DEF ByteAt
  <2>9. Question \in Printable
    BY MemoryAssumption
  <2> QED BY <2>7, <2>8, <2>9
<1>4. text \in [1..n * B -> Printable]
  <2>1. \A i \in 1..n * B : text[i] \in Printable
    BY <1>3
  <2>2. DOMAIN text = 1..n * B /\ text = [i \in 1..n * B |-> text[i]]
    BY <1>2
  <2> QED BY <2>1, <2>2
<1>5. text \in Seq(Printable) /\ Len(text) = n * B
  BY <1>1, <1>4
<1> QED BY <1>1, <1>3, <1>5

(* A match in the text of a chunk is an occurrence in memory.                 *)
LEMMA ChunkMatches ==
  ASSUME mem \in Memory, PagesApart(mem.entries), NEW e \in DOMAIN mem.entries,
         NEW first \in Nat, NEW n \in Nat, first + n <= mem.entries[e].pages,
         Offset[e] + first + n <= Len(mem.file), NEW text, text = Buffer(Offset[e] + first, n),
         ask.pattern \in Seq(Printable), NEW j \in 1..Len(text)
  PROVE  OccursAt(ask.pattern, text, j) <=>
           /\ j + Len(ask.pattern) - 1 <= n * PageBytes
           /\ Holds(e, first * PageBytes + j - 1)
<1> PICK P \in Nat : P = Len(ask.pattern) /\ DOMAIN ask.pattern = 1..P
  OBVIOUS
<1>1. /\ n * PageBytes \in Nat /\ first * PageBytes \in Nat /\ Base(e) \in Nat
      /\ Len(text) = n * PageBytes
      /\ \A i \in 1..n * PageBytes : text[i] = ByteAt(Base(e) + first * PageBytes + i - 1)
  BY ChunkText
<1> PICK base \in Nat, size \in Nat, skip \in Nat :
      base = Base(e) /\ size = n * PageBytes /\ skip = first * PageBytes
  BY <1>1
<1>2. SUFFICES ASSUME j + P - 1 <= size
               PROVE  (\A k \in 1..P : text[j + k - 1] = ask.pattern[k])
                      <=> Holds(e, skip + j - 1)
  BY <1>1 DEF OccursAt
<1>3. ASSUME NEW k \in 1..P PROVE text[j + k - 1] = ByteAt(base + (skip + j - 1) + k - 1)
  <2>1. j + k - 1 \in 1..size
    <3>1. j \in 1..size
      BY <1>1
    <3> QED BY ONLY <1>2, <3>1, size \in Nat, P \in Nat, k \in 1..P
  <2>2. text[j + k - 1] = ByteAt(base + skip + (j + k - 1) - 1)
    BY <1>1, <2>1
  <2>3. base + skip + (j + k - 1) - 1 = base + (skip + j - 1) + k - 1
    BY <1>1
  <2> QED BY <2>2, <2>3
<1> QED BY <1>3 DEF Holds

-----------------------------------------------------------------------------
(***************************************************************************)
(* What the search finds in a chunk                                        *)
(***************************************************************************)

MatchType == [addr : Nat, text : Seq(Printable)]

(* The chunks of an entry up to its page p, and those of all entries before    *)
(* entry c, have all of an occurrence.                                       *)
Passed(c, p, e, i) ==
  Inside(e, i) /\ (e < c \/ (e = c /\ i + Len(ask.pattern) <= p * PageBytes))

(* What has been searched up to there and what the results say of it: each is  *)
(* an occurrence, they are in order, and every occurrence is covered by one or  *)
(* crosses the border of two chunks.                                         *)
Place(found, x, e, i) == found[x].addr = Base(e) + i /\ Inside(e, i) /\ Holds(e, i)
Sound(found, c, p) ==
  \A x \in DOMAIN found : \E e \in DOMAIN mem.entries : \E i \in Nat :
    Place(found, x, e, i) /\ Passed(c, p, e, i)
Ordered(found) ==
  \A x, y \in DOMAIN found : x < y =>
    \E e, f \in DOMAIN mem.entries :
      /\ \E i \in Nat : Place(found, x, e, i)
      /\ \E j \in Nat : Place(found, y, f, j)
      /\ e < f \/ (e = f /\ found[x].addr + Len(ask.pattern) <= found[y].addr)
Crosses(i) ==
  i \div (ChunkPages * PageBytes) # (i + Len(ask.pattern) - 1) \div (ChunkPages * PageBytes)
Covers(found, a) ==
  \E x \in DOMAIN found : found[x].addr <= a /\ a < found[x].addr + Len(ask.pattern)
Complete(found, c, p) ==
  \A e \in DOMAIN mem.entries : \A i \in Nat :
    Passed(c, p, e, i) /\ Holds(e, i) => Crosses(i) \/ Covers(found, Base(e) + i)

(* The matches of n pages of entry e, from its page p on.                     *)
OfChunk(new, e, p, n) ==
  /\ \A k \in DOMAIN new : \E i \in Nat :
       /\ Place(new, k, e, i)
       /\ p * PageBytes <= i /\ i + Len(ask.pattern) <= (p + n) * PageBytes
  /\ \A k, l \in DOMAIN new : k < l => new[k].addr + Len(ask.pattern) <= new[l].addr
  /\ \A i \in Nat :
       /\ p * PageBytes <= i /\ i + Len(ask.pattern) <= (p + n) * PageBytes
       /\ Holds(e, i)
       => Covers(new, Base(e) + i)

(* A chunk begins at a multiple of its size and before the end of its entry.   *)
AtChunk ==
  /\ entry \in DOMAIN mem.entries =>
       pos < mem.entries[entry].pages /\ \E k \in Nat : pos = k * ChunkPages
  /\ entry \notin DOMAIN mem.entries => pos = 0

LEMMA ChunkSizes ==
  ASSUME mem \in Memory, entry \in DOMAIN mem.entries, pos \in Nat, AtChunk
  PROVE  /\ ChunkSize \in Nat \ {0} /\ pos + ChunkSize <= mem.entries[entry].pages
         /\ pos + ChunkSize < mem.entries[entry].pages => ChunkSize = ChunkPages
<1>1. mem.entries[entry].pages \in Nat /\ pos < mem.entries[entry].pages
  BY EntriesType DEF AtChunk
<1>2. ChunkPages \in Nat \ {0}
  BY MemoryAssumption
<1> QED BY <1>1, <1>2 DEF ChunkSize

(* One match, as the search reports it.                                      *)
LEMMA MatchTyped ==
  ASSUME NEW text \in Seq(Printable), NEW i \in 1..Len(text), NEW start \in Nat,
         ask.context \in Nat, Len(ask.pattern) \in Nat \ {0}
  PROVE  Match(text, i, start) \in MatchType /\ Match(text, i, start).addr = start + i - 1
<1> PICK from : from = IF i > ask.context THEN i - ask.context ELSE 1
  OBVIOUS
<1> PICK last : last = i + Len(ask.pattern) - 1 + ask.context
  OBVIOUS
<1> PICK to : to = IF last < Len(text) THEN last ELSE Len(text)
  OBVIOUS
<1>1. Len(text) \in Nat
  OBVIOUS
<1>2. from \in 1..i /\ last \in Nat /\ last >= i
  BY <1>1
<1>3. to \in i..Len(text)
  BY <1>1, <1>2
<1>4. \A k \in from..to : text[k] \in Printable
  <2>1. \A k \in from..to : k \in 1..Len(text)
    BY <1>1, <1>2, <1>3
  <2> QED BY <2>1
<1>5. SubSeq(text, from, to) \in Seq(Printable)
  <2>1. from \in Int /\ to \in Int
    BY <1>1, <1>2, <1>3
  <2> QED BY <1>4, <2>1, SubSeqProperties
<1>6. Match(text, i, start) = [addr |-> start + i - 1, text |-> SubSeq(text, from, to)]
  BY DEF Match
<1>7. start + i - 1 \in Nat
  BY <1>1
<1> QED BY <1>5, <1>6, <1>7 DEF MatchType

LEMMA NewMatches ==
  ASSUME mem \in Memory, PagesApart(mem.entries), entry \in DOMAIN mem.entries, pos \in Nat,
         AtChunk, ask \in Request, ask.pattern # <<>>, SearchChunk
  PROVE  \E new \in Seq(MatchType) :
           matches' = matches \o new /\ OfChunk(new, entry, pos, ChunkSize)
<1> PICK n \in Nat \ {0} : n = ChunkSize /\ pos + n <= mem.entries[entry].pages
  BY ChunkSizes
<1> PICK text : text = Buffer(Offset[entry] + pos, n)
  OBVIOUS
<1> PICK found : found = FoundFrom(text)
  OBVIOUS
<1>1. /\ ask.pattern \in Seq(Printable) /\ ask.context \in Nat
      /\ Len(ask.pattern) \in Nat \ {0}
  <2>1. ask.pattern \in Seq(Printable) /\ ask.context \in Nat
    BY DEF Request
  <2> QED BY <2>1
<1>2. Offset[entry] + pos + n <= Len(mem.file)
  BY DEF SearchChunk
<1>3. /\ n * PageBytes \in Nat /\ pos * PageBytes \in Nat /\ Base(entry) \in Nat
      /\ Len(text) = n * PageBytes /\ text \in Seq(Printable)
  BY <1>2, ChunkText
<1> PICK P \in Nat \ {0} : P = Len(ask.pattern)
  BY <1>1
<1> PICK size \in Nat, skip \in Nat, base \in Nat :
      size = n * PageBytes /\ skip = pos * PageBytes /\ base = Base(entry)
  BY <1>3
<1>4. (pos + n) * PageBytes = skip + size
  BY PageSize
<1>5. AllFound(found, text, 1)
  <2>1. Len(text) \in Nat
    BY <1>3
  <2> QED BY <1>1, <2>1, ScanFinds
<1>6. /\ found \in Seq(1..size) /\ Len(found) \in Nat /\ DOMAIN found = 1..Len(found)
      /\ \A k \in DOMAIN found : found[k] \in 1..size
  <2>1. found \in Seq(1..size)
    BY <1>3, <1>5 DEF AllFound
  <2> QED BY <2>1
<1>7. PICK new : new = [k \in DOMAIN found |-> Match(text, found[k], base + skip)]
  OBVIOUS
<1>8. \A k \in DOMAIN found : new[k] \in MatchType /\ new[k].addr = base + skip + found[k] - 1
  <2> TAKE k \in DOMAIN found
  <2>1. PICK j \in 1..Len(text) : j = found[k]
    BY <1>3, <1>6
  <2>2. PICK start \in Nat : start = base + skip
    OBVIOUS
  <2>3. Match(text, j, start) \in MatchType /\ Match(text, j, start).addr = start + j - 1
    BY <1>1, <1>3, MatchTyped
  <2>4. new[k] = Match(text, j, start)
    BY <1>7, <2>1, <2>2
  <2> QED BY <2>1, <2>2, <2>3, <2>4
<1>9. DOMAIN new = 1..Len(found) /\ new \in Seq(MatchType)
  <2>1. DOMAIN new = 1..Len(found) /\ new = [k \in 1..Len(found) |-> new[k]]
    BY <1>6, <1>7
  <2>2. PICK m \in Nat : m = Len(found)
    BY <1>6
  <2>3. \A k \in 1..m : new[k] \in MatchType
    BY <1>6, <1>8, <2>2
  <2>4. new \in [1..m -> MatchType]
    BY ONLY <2>1, <2>2, <2>3
  <2>5. new \in Seq(MatchType)
    BY ONLY <2>4, m \in Nat
  <2> QED BY <2>1, <2>5
<1>10. matches' = matches \o new
  BY <1>7 DEF SearchChunk
<1>11. \A j \in 1..size : OccursAt(ask.pattern, text, j) <=>
                            j + P - 1 <= size /\ Holds(entry, skip + j - 1)
  BY <1>1, <1>2, <1>3, ChunkMatches
<1>a. skip + size <= mem.entries[entry].pages * PageBytes
  <2>1. mem.entries[entry].pages \in Nat /\ pos + n \in Nat /\ PageBytes \in Nat
    BY EntriesType, PageSize
  <2> QED BY <1>4, <2>1, Monotone
<1>12. ASSUME NEW k \in DOMAIN new
       PROVE  \E i \in Nat : /\ Place(new, k, entry, i)
                             /\ pos * PageBytes <= i /\ i + P <= (pos + n) * PageBytes
  <2>1. PICK j \in 1..size : j = found[k] /\ new[k].addr = base + skip + j - 1
    BY <1>6, <1>8, <1>9
  <2>2. j + P - 1 <= size /\ Holds(entry, skip + j - 1)
    BY <1>5, <1>6, <1>9, <1>11, <2>1 DEF AllFound
  <2>3. PICK i \in Nat : i = skip + j - 1
    OBVIOUS
  <2>4. skip <= i /\ i + P <= skip + size /\ new[k].addr = base + i
    <3>1. j + P - 1 <= size
      BY <2>2
    <3>2. skip + (j - 1) = i /\ base + skip + j - 1 = base + i
      BY ONLY <2>3, skip \in Nat, base \in Nat, j \in 1..size
    <3>3. skip <= i /\ i + P <= skip + size
      BY ONLY <2>3, <3>1, skip \in Nat, j \in 1..size, P \in Nat \ {0}, size \in Nat
    <3> QED BY <2>1, <3>2, <3>3
  <2>5. Inside(entry, i)
    <3>1. mem.entries[entry].pages * PageBytes \in Nat
      BY EntriesType, PageSize, Times
    <3>2. i + P <= mem.entries[entry].pages * PageBytes
      BY ONLY <1>a, <2>4, <3>1, skip \in Nat, size \in Nat, P \in Nat \ {0}, i \in Nat
    <3> QED BY <3>2 DEF Inside
  <2>6. Place(new, k, entry, i)
    BY <2>2, <2>3, <2>4, <2>5 DEF Place
  <2> QED BY <1>4, <2>4, <2>6
<1>13. ASSUME NEW k \in DOMAIN new, NEW l \in DOMAIN new, k < l
       PROVE  new[k].addr + P <= new[l].addr
  <2>1. found[k] + P <= found[l] /\ found[k] \in Nat /\ found[l] \in Nat
    BY <1>5, <1>6, <1>9, <1>13 DEF AllFound
  <2>2. new[k].addr = base + skip + found[k] - 1 /\ new[l].addr = base + skip + found[l] - 1
    BY <1>6, <1>8, <1>9
  <2>3. ASSUME NEW a \in Nat, NEW b \in Nat, a + P <= b
        PROVE  (base + skip + a - 1) + P <= base + skip + b - 1
    BY ONLY <2>3, base \in Nat, skip \in Nat, P \in Nat \ {0}
  <2> QED BY <2>1, <2>2, <2>3
<1>14. ASSUME NEW i \in Nat, pos * PageBytes <= i, i + P <= (pos + n) * PageBytes,
              Holds(entry, i)
       PROVE  Covers(new, base + i)
  <2>1. PICK j \in 1..size : i = skip + j - 1 /\ j + P - 1 <= size
    <3>1. i - skip + 1 \in 1..size /\ i = skip + (i - skip + 1) - 1
          /\ (i - skip + 1) + P - 1 <= size
      BY ONLY <1>4, <1>14, skip = pos * PageBytes, skip \in Nat, size \in Nat,
              P \in Nat \ {0}, i \in Nat
    <3> QED BY <3>1
  <2>2. OccursAt(ask.pattern, text, j)
    BY <1>11, <1>14, <2>1
  <2>3. PICK k \in DOMAIN found : found[k] <= j /\ j < found[k] + P
    BY <1>3, <1>5, <2>2 DEF AllFound
  <2>4. k \in DOMAIN new /\ new[k].addr = base + skip + found[k] - 1 /\ found[k] \in Nat
    <3>1. k \in DOMAIN new
      BY <1>6, <1>9
    <3>2. new[k].addr = base + skip + found[k] - 1
      BY <1>8
    <3>3. found[k] \in Nat
      BY <1>6
    <3> QED BY <3>1, <3>2, <3>3
  <2>5. new[k].addr <= base + i /\ base + i < new[k].addr + P
    <3>1. PICK f \in Nat : f = found[k] /\ new[k].addr = base + skip + f - 1
      BY <2>4
    <3>2. f <= j /\ j < f + P
      BY <2>3, <3>1
    <3>3. base + skip + f - 1 <= base + i /\ base + i < (base + skip + f - 1) + P
      BY ONLY <2>1, <3>2, f \in Nat, j \in 1..size, base \in Nat, skip \in Nat, P \in Nat \ {0}
    <3> QED BY <3>1, <3>3
  <2> QED BY <2>4, <2>5 DEF Covers
<1>15. OfChunk(new, entry, pos, n)
  BY <1>12, <1>13, <1>14 DEF OfChunk
<1> QED BY <1>9, <1>10, <1>15

-----------------------------------------------------------------------------
(* The lines that a dump may have.                                           *)
LineSet == {Line(a, Row(e, j)) : a \in Nat, e \in Nat, j \in Nat} \union {Star}

LinesInv ==
  /\ mem \in Memory /\ ask \in Request
  /\ dumpPc \in {"check", "entry", "row", "search", "done", "error"}
  /\ entry \in 1..Len(mem.entries) + 1
  /\ pos \in Nat /\ addr \in Nat /\ dup \in BOOLEAN
  /\ dumpPc \in {"entry", "row"} => Len(lines) = IF dumpPc = "row" THEN entry ELSE entry - 1
  /\ dumpPc = "row" =>
       entry <= Len(mem.entries) /\ pos <= RowCount(entry) /\ addr = Base(entry) + pos * RowBytes
  /\ lines \in Seq(Seq(LineSet))
  /\ dumpPc = "check" => entry = 1 /\ lines = <<>>

SearchTypes ==
  /\ PagesApart(mem.entries) /\ (ask.search => ask.pattern # <<>>)
  /\ matches \in Seq(MatchType)
  /\ dumpPc = "check" => pos = 0
  /\ dumpPc = "search" => ask.search /\ AtChunk

TypeInv ==
  /\ DumpTypeOK
  /\ lines \in Seq(Seq(LineSet))
  /\ dumpPc = "check" => entry = 1 /\ lines = <<>>
  /\ SearchTypes

LEMMA TypeParts == LinesInv /\ SearchTypes <=> TypeInv
  BY DEF LinesInv, SearchTypes, TypeInv, DumpTypeOK, MatchType

(* Memory does not change, so what is said of it stays true.                 *)
LEMMA SameMemory ==
  ASSUME mem' = mem
  PROVE  /\ \A e, j : Row(e, j)' = Row(e, j)
         /\ \A e : Base(e)' = Base(e) /\ RowCount(e)' = RowCount(e)
         /\ \A e, j : RowAddr(e, j)' = RowAddr(e, j)
         /\ LineSet' = LineSet
<1>1. \A e, j : Row(e, j)' = Row(e, j)
  BY DEF Row, Index, Offset, PageNumbers
<1>2. \A e : Base(e)' = Base(e) /\ RowCount(e)' = RowCount(e)
  BY DEF Base, RowCount
<1>3. \A e, j : RowAddr(e, j)' = RowAddr(e, j)
  BY <1>2 DEF RowAddr
<1>4. LineSet' = LineSet
  BY <1>1 DEF LineSet, Line, Star
<1> QED BY <1>1, <1>2, <1>3, <1>4

LEMMA EntryType ==
  ASSUME mem \in Memory, NEW e \in 1..Len(mem.entries)
  PROVE  Base(e) \in Nat /\ RowCount(e) \in Nat /\ mem.entries[e].pages \in Nat
<1>1. mem.entries \in Seq(Entry)
  BY DEF Memory
<1>2. mem.entries[e] \in Entry
  BY <1>1
<1>3. mem.entries[e].page \in Nat /\ mem.entries[e].pages \in Nat
  BY <1>2 DEF Entry
<1>4. PageBytes \in Nat /\ PageRows \in Nat
  BY MemoryAssumption, Times DEF PageBytes
<1> QED BY <1>3, <1>4, Times DEF Base, RowCount

-----------------------------------------------------------------------------
(***************************************************************************)
(* Types and addresses                                                     *)
(***************************************************************************)

LEMMA TypeInit == DumpInit => TypeInv
<1> SUFFICES ASSUME DumpInit PROVE LinesInv /\ SearchTypes
  BY TypeParts
<1>1. mem \in Memory /\ ask \in Request
  BY MemoryAssumption DEF DumpInit, DumpInput
<1>2. Len(mem.entries) \in Nat
  BY <1>1 DEF Memory
<1>3. dumpPc = "check" /\ entry = 1 /\ pos = 0 /\ addr = 0 /\ dup = FALSE /\ lines = <<>>
  BY DEF DumpInit, DumpStart
<1>4. lines \in Seq(Seq(LineSet))
  BY <1>3
<1>5. LinesInv
  <2>1. dumpPc = "check" /\ entry \in 1..Len(mem.entries) + 1 /\ pos \in Nat /\ addr \in Nat
    BY <1>2, <1>3
  <2>2. dup \in BOOLEAN
    BY <1>3
  <2> QED BY ONLY <1>1, <1>3, <1>4, <2>1, <2>2 DEF LinesInv
<1>6. PagesApart(mem.entries) /\ (ask.search => ask.pattern # <<>>)
  BY MemoryAssumption DEF DumpInit, DumpInput
<1>7. matches \in Seq(MatchType)
  BY DEF DumpInit, DumpStart
<1>8. SearchTypes
  BY <1>3, <1>6, <1>7 DEF SearchTypes
<1> QED BY <1>5, <1>8

LEMMA LinesStep == LinesInv /\ [DumpNext]_dumpVars => LinesInv'
<1> SUFFICES ASSUME LinesInv, [DumpNext]_dumpVars PROVE LinesInv'
  OBVIOUS
<1> USE DEF LinesInv
<1>0. mem' = mem /\ ask' = ask /\ LineSet' = LineSet /\ Len(mem.entries) \in Nat
  <2>1. mem' = mem /\ ask' = ask
    BY DEF DumpNext, DumpCheck, ReadEntry, ReadEntryFails, DumpRow, EntryDumped, DumpEnds,
           SearchChunk, SearchCutShort, dumpVars
  <2>2. Len(mem.entries) \in Nat
    BY DEF Memory
  <2> QED BY <2>1, <2>2, SameMemory
<1>b. \A e \in 1..Len(mem.entries) :
        Base(e)' = Base(e) /\ RowCount(e)' = RowCount(e) /\ Base(e) \in Nat /\ RowCount(e) \in Nat
  BY <1>0, SameMemory, EntryType
<1>1. CASE DumpCheck
  <2>1. /\ UNCHANGED <<entry, pos, addr, dup, lines>> /\ dumpPc = "check"
        /\ dumpPc' \in {"error", "search", "entry"}
    BY <1>1 DEF DumpCheck
  <2> QED BY <1>0, <2>1
<1>2. CASE ReadEntry
  <2>1. entry \in 1..Len(mem.entries) /\ entry' = entry /\ pos' = 0 /\ addr' = Base(entry)
        /\ dup' = FALSE /\ dumpPc' = "row"
    BY <1>0, <1>2 DEF ReadEntry
  <2>2. lines' \in Seq(Seq(LineSet)) /\ Len(lines') = entry
    <3>1. lines' = Append(lines, <<>>) /\ lines \in Seq(Seq(LineSet)) /\ Len(lines) = entry - 1
      BY <1>2 DEF ReadEntry
    <3>2. <<>> \in Seq(LineSet)
      OBVIOUS
    <3> QED BY <2>1, <3>1, <3>2, Appended
  <2>3. 0 * RowBytes = 0
    BY MemoryAssumption
  <2>4. pos' <= RowCount(entry)' /\ addr' = Base(entry)' + pos' * RowBytes
        /\ entry' <= Len(mem.entries')
    BY <1>0, <1>b, <2>1, <2>3
  <2>5. pos' \in Nat /\ addr' \in Nat
    BY <1>b, <2>1
  <2> QED BY <1>0, <2>1, <2>2, <2>4, <2>5
<1>3. CASE ReadEntryFails
  BY <1>0, <1>3 DEF ReadEntryFails
<1>4. CASE DumpRow
  <2>1. entry \in 1..Len(mem.entries) /\ UNCHANGED <<entry, dumpPc>> /\ dumpPc = "row"
        /\ pos' = pos + 1 /\ pos' <= RowCount(entry)
    BY <1>0, <1>b, <1>4 DEF DumpRow
  <2>2. addr' = Base(entry) + pos' * RowBytes /\ addr' \in Nat
    <3>1. addr' = addr + RowBytes /\ addr = Base(entry) + pos * RowBytes
      BY <1>4 DEF DumpRow, NextAddr
    <3>2. (pos + 1) * RowBytes = pos * RowBytes + RowBytes
      BY MemoryAssumption
    <3>3. pos * RowBytes \in Nat /\ RowBytes \in Nat
      BY MemoryAssumption, Times
    <3> QED BY <1>b, <2>1, <3>1, <3>2, <3>3
  <2>3. dup' \in BOOLEAN
    BY <1>4 DEF DumpRow, Duplicate
  <2>4. lines' \in Seq(Seq(LineSet)) /\ Len(lines') = Len(lines)
    <3> DEFINE row == Row(entry, pos + 1)
               new == IF ~(ask.compact /\ prev = AsciiOf(row)) THEN <<Line(addr, row)>>
                      ELSE IF dup THEN <<>> ELSE <<Star>>
    <3>1. new \in Seq(LineSet)
      <4>1. Line(addr, row) \in LineSet /\ Star \in LineSet
        BY <2>1 DEF LineSet
      <4> HIDE DEF row
      <4> QED BY <4>1
    <3>2. lines' = [lines EXCEPT ![entry] = @ \o new]
      BY <1>4 DEF DumpRow
    <3>3. lines \in Seq(Seq(LineSet)) /\ entry \in 1..Len(lines)
      BY <2>1
    <3> HIDE DEF new
    <3>4. lines[entry] \o new \in Seq(LineSet)
      BY <3>1, <3>3
    <3> QED BY ONLY <3>2, <3>3, <3>4
  <2> QED BY <1>0, <1>b, <2>1, <2>2, <2>3, <2>4
<1>5. CASE EntryDumped
  BY <1>0, <1>5 DEF EntryDumped
<1>6. CASE DumpEnds
  BY <1>0, <1>6 DEF DumpEnds
<1>7. CASE SearchChunk
  <2>1. entry \in 1..Len(mem.entries)
    BY <1>0, <1>7 DEF SearchChunk
  <2>2. pos' \in Nat /\ entry' \in 1..Len(mem.entries) + 1
    <3>1. CASE pos + ChunkSize < mem.entries[entry].pages
      <4>1. ChunkSize \in Nat
        BY <2>1, <3>1, EntryType, MemoryAssumption DEF ChunkSize
      <4> QED BY <1>7, <2>1, <3>1, <4>1 DEF SearchChunk, NextChunk
    <3>2. CASE ~(pos + ChunkSize < mem.entries[entry].pages)
      BY <1>0, <1>7, <2>1, <3>2 DEF SearchChunk, NextChunk
    <3> QED BY <3>1, <3>2
  <2>3. UNCHANGED <<dumpPc, addr, dup, lines>> /\ dumpPc = "search"
    BY <1>7 DEF SearchChunk
  <2> QED BY <1>0, <2>2, <2>3
<1>8. CASE SearchCutShort
  BY <1>0, <1>8 DEF SearchCutShort
<1>9. CASE UNCHANGED dumpVars
  <2>1. UNCHANGED <<dumpPc, entry, pos, addr, dup, lines>>
    BY <1>9 DEF dumpVars
  <2> QED BY <1>0, <1>b, <2>1
<1> QED BY <1>1, <1>2, <1>3, <1>4, <1>5, <1>6, <1>7, <1>8, <1>9 DEF DumpNext

LEMMA SearchTypesStep ==
  ASSUME LinesInv, SearchTypes, [DumpNext]_dumpVars
  PROVE  SearchTypes'
<1>1. mem' = mem /\ ask' = ask
  BY DEF DumpNext, DumpCheck, ReadEntry, ReadEntryFails, DumpRow, EntryDumped, DumpEnds,
         SearchChunk, SearchCutShort, dumpVars
<1>2. /\ PagesApart(mem.entries) /\ (ask.search => ask.pattern # <<>>)
      /\ matches \in Seq(MatchType)
      /\ mem \in Memory /\ ask \in Request /\ pos \in Nat
  BY DEF LinesInv, SearchTypes
<1> PICK N \in Nat : N = Len(mem.entries) /\ DOMAIN mem.entries = 1..N
  BY <1>2, EntriesType
<1>3. entry \in 1..N + 1
  BY DEF LinesInv
(* Where the next chunk of the search begins.                                *)
<1>4. ASSUME entry' = entry + 1, pos' = 0, entry \in 1..N
      PROVE  AtChunk'
  <2>1. \A e \in 1..N : mem.entries[e].pages \in Nat \ {0}
    BY <1>2, EntriesType
  <2>2. 0 = 0 * ChunkPages /\ 0 \in Nat
    BY MemoryAssumption
  <2> QED BY <1>1, <1>4, <2>1, <2>2 DEF AtChunk
<1>5. CASE DumpCheck
  <2>1. /\ UNCHANGED <<entry, pos, matches>> /\ dumpPc = "check" /\ dumpPc' # "check"
        /\ (dumpPc' = "search" => ask.search)
    BY <1>5 DEF DumpCheck
  <2>2. entry = 1 /\ pos = 0
    BY <2>1 DEF LinesInv, SearchTypes
  <2>3. AtChunk'
    <3>1. \A e \in 1..N : mem.entries[e].pages \in Nat \ {0}
      BY <1>2, EntriesType
    <3>2. 0 = 0 * ChunkPages /\ 0 \in Nat
      BY MemoryAssumption
    <3> QED BY <1>1, <2>1, <2>2, <3>1, <3>2 DEF AtChunk
  <2> QED BY <1>1, <1>2, <2>1, <2>3 DEF SearchTypes
<1>6. CASE SearchChunk
  <2>1. dumpPc = "search" /\ dumpPc' = "search" /\ entry \in 1..N
    BY <1>3, <1>6 DEF SearchChunk
  <2>2. ask.search /\ AtChunk
    BY <2>1 DEF SearchTypes
  <2> PICK n \in Nat \ {0} :
        /\ n = ChunkSize /\ pos + n <= mem.entries[entry].pages
        /\ pos + n < mem.entries[entry].pages => n = ChunkPages
    BY <1>2, <2>1, <2>2, ChunkSizes
  <2> PICK new \in Seq(MatchType) : matches' = matches \o new
    BY <1>2, <1>6, <2>1, <2>2, NewMatches
  <2>3. matches' \in Seq(MatchType)
    BY <1>2
  <2>4. AtChunk'
    <3>1. CASE pos + n < mem.entries[entry].pages
      <4>1. entry' = entry /\ pos' = pos + n /\ n = ChunkPages
        BY <1>6, <3>1 DEF SearchChunk, NextChunk
      <4>2. PICK k \in Nat : pos = k * ChunkPages
        BY <2>1, <2>2 DEF AtChunk
      <4>3. pos + n = (k + 1) * ChunkPages /\ k + 1 \in Nat
        BY <4>1, <4>2, MemoryAssumption
      <4> QED BY <1>1, <2>1, <3>1, <4>1, <4>3 DEF AtChunk
    <3>2. CASE ~(pos + n < mem.entries[entry].pages)
      <4>1. entry' = entry + 1 /\ pos' = 0
        BY <1>6, <3>2 DEF SearchChunk, NextChunk
      <4> QED BY <1>4, <2>1, <4>1
    <3> QED BY <3>1, <3>2
  <2> QED BY <1>1, <1>2, <2>1, <2>2, <2>3, <2>4 DEF SearchTypes
<1>7. CASE SearchCutShort
  <2>1. dumpPc = "search" /\ dumpPc' = "search" /\ entry \in 1..N /\ matches' = matches
        /\ entry' = entry + 1 /\ pos' = 0
    BY <1>3, <1>7 DEF SearchCutShort
  <2> QED BY <1>1, <1>2, <1>4, <2>1 DEF SearchTypes
<1>8. CASE ReadEntry \/ ReadEntryFails \/ DumpRow \/ EntryDumped \/ DumpEnds
  <2>1. matches' = matches /\ dumpPc' \in {"row", "error", "entry", "done"}
    BY <1>8 DEF ReadEntry, ReadEntryFails, DumpRow, EntryDumped, DumpEnds
  <2> QED BY <1>1, <1>2, <2>1 DEF SearchTypes
<1>9. CASE UNCHANGED dumpVars
  <2>1. UNCHANGED <<dumpPc, entry, pos, matches>>
    BY <1>9 DEF dumpVars
  <2>2. AtChunk' <=> AtChunk
    BY <1>1, <2>1 DEF AtChunk
  <2> QED BY <1>1, <1>2, <2>1, <2>2 DEF SearchTypes
<1> QED BY <1>5, <1>6, <1>7, <1>8, <1>9 DEF DumpNext

LEMMA TypeStep == TypeInv /\ [DumpNext]_dumpVars => TypeInv'
<1>1. (LinesInv /\ SearchTypes <=> TypeInv)'
  BY DEF LinesInv, SearchTypes, TypeInv, DumpTypeOK, MatchType
<1> QED BY <1>1, TypeParts, LinesStep, SearchTypesStep

(* For any memory and request: the address that hexdump prints next is that of *)
(* the row in the process, and every variable holds a value of its kind.      *)
THEOREM DumpTypeCorrect == DumpSpec => []DumpTypeOK
<1>1. TypeInv => DumpTypeOK
  BY DEF TypeInv
<1> QED BY <1>1, TypeInit, TypeStep, PTL DEF DumpSpec

-----------------------------------------------------------------------------
(***************************************************************************)
(* What a step does to the lines                                           *)
(***************************************************************************)

ModeInv ==
  /\ TypeInv
  /\ dumpPc \in {"entry", "row"} => ~ask.search
  /\ dumpPc = "search" => ask.search
  /\ dumpPc = "done" /\ ~ask.search => Len(lines) = Len(mem.entries)

LEMMA ModeInit == DumpInit => ModeInv
  BY TypeInit DEF ModeInv, DumpInit, DumpStart

LEMMA ModeStep == ModeInv /\ [DumpNext]_dumpVars => ModeInv'
<1> SUFFICES ASSUME ModeInv, [DumpNext]_dumpVars PROVE ModeInv'
  OBVIOUS
<1>1. TypeInv /\ TypeInv' /\ Len(mem.entries) \in Nat /\ entry \in 1..Len(mem.entries) + 1
  BY TypeStep DEF ModeInv, TypeInv, DumpTypeOK, Memory
<1> USE DEF ModeInv
<1>2. CASE DumpCheck
  BY <1>1, <1>2 DEF DumpCheck
<1>3. CASE DumpEnds
  <2>1. dumpPc = "entry" => Len(lines) = Len(mem.entries)
    BY <1>1, <1>3 DEF DumpEnds, TypeInv, DumpTypeOK
  <2> QED BY <1>1, <1>3, <2>1 DEF DumpEnds
<1>4. CASE ReadEntry \/ ReadEntryFails \/ DumpRow \/ EntryDumped \/ SearchChunk \/ SearchCutShort
  <2>1. mem' = mem /\ ask' = ask /\ dumpPc \in {"entry", "row", "search"}
        /\ (dumpPc' = "error" \/ (dumpPc' = "search" <=> dumpPc = "search"))
        /\ dumpPc' \in {"entry", "row", "search", "error"}
    BY <1>4 DEF ReadEntry, ReadEntryFails, DumpRow, EntryDumped, SearchChunk, SearchCutShort
  <2> QED BY <1>1, <2>1
<1>5. CASE UNCHANGED dumpVars
  BY <1>1, <1>5 DEF dumpVars
<1> QED BY <1>2, <1>3, <1>4, <1>5 DEF DumpNext

(* Steps that write no line and finish none.                                 *)
Quiet == UNCHANGED <<mem, ask, entry, pos, prev, dup, lines>>

LEMMA DumpSteps ==
  ASSUME ModeInv, [DumpNext]_dumpVars, ~ask.search
  PROVE  \/ Quiet /\ (dumpPc' = dumpPc \/ dumpPc' \in {"entry", "error", "done"})
         \/ ReadEntry \/ DumpRow \/ EntryDumped
<1>1. dumpPc # "search"
  BY DEF ModeInv
<1> QED BY <1>1 DEF DumpNext, dumpVars, Quiet, DumpCheck, ReadEntryFails, DumpEnds, SearchChunk,
                    SearchCutShort

(* ReadEntry begins the lines of an entry, EntryDumped finishes them.         *)
LEMMA EntrySteps ==
  ASSUME ModeInv, ReadEntry \/ EntryDumped
  PROVE  /\ UNCHANGED <<mem, ask>> /\ entry \in 1..Len(mem.entries)
         /\ ReadEntry => /\ entry' = entry /\ pos' = 0 /\ prev' = <<>> /\ dup' = FALSE
                         /\ dumpPc' = "row" /\ DOMAIN lines = 1..entry - 1
                         /\ DOMAIN lines' = 1..entry /\ lines'[entry] = <<>>
                         /\ \A e \in DOMAIN lines : lines'[e] = lines[e]
         /\ EntryDumped => /\ entry' = entry + 1 /\ pos = RowCount(entry) /\ lines' = lines
                           /\ dumpPc' = "entry" /\ dumpPc = "row" /\ DOMAIN lines = 1..entry
<1>1. entry \in 1..Len(mem.entries)
  BY DEF ModeInv, TypeInv, DumpTypeOK, ReadEntry, EntryDumped, Memory
<1>2. ASSUME ReadEntry
      PROVE  /\ Len(lines) = entry - 1 /\ lines' = Append(lines, <<>>)
             /\ entry' = entry /\ pos' = 0 /\ prev' = <<>> /\ dup' = FALSE /\ dumpPc' = "row"
  BY <1>2 DEF ModeInv, TypeInv, DumpTypeOK, ReadEntry
<1>3. lines \in Seq(Seq(LineSet)) /\ <<>> \in Seq(LineSet)
  BY DEF ModeInv, TypeInv
<1>4. ASSUME ReadEntry
      PROVE  /\ DOMAIN lines = 1..entry - 1 /\ DOMAIN lines' = 1..entry /\ lines'[entry] = <<>>
             /\ \A e \in DOMAIN lines : lines'[e] = lines[e]
  <2>1. Len(lines) = entry - 1 /\ lines' = Append(lines, <<>>)
    BY <1>2, <1>4
  <2>2. /\ lines' \in Seq(Seq(LineSet)) /\ Len(lines') = Len(lines) + 1
        /\ lines'[Len(lines) + 1] = <<>> /\ \A e \in DOMAIN lines : lines'[e] = lines[e]
    BY <1>3, <2>1, Appended
  <2>3. DOMAIN lines = 1..Len(lines) /\ DOMAIN lines' = 1..Len(lines')
    BY <1>3, <2>2
  <2>4. Len(lines) + 1 = entry
    BY <1>1, <2>1
  <2> QED BY <2>1, <2>2, <2>3, <2>4
<1>5. ASSUME EntryDumped
      PROVE  entry' = entry + 1 /\ pos = RowCount(entry) /\ lines' = lines
             /\ dumpPc' = "entry" /\ dumpPc = "row" /\ DOMAIN lines = 1..entry
  BY <1>3, <1>5 DEF EntryDumped, ModeInv, TypeInv, DumpTypeOK
<1>6. UNCHANGED <<mem, ask>>
  BY DEF ReadEntry, EntryDumped
<1> QED BY <1>1, <1>2, <1>4, <1>5, <1>6

(* DumpRow adds a line, or none, to those of its entry.                      *)
NewLines ==
  LET ascii == AsciiOf(Row(entry, pos + 1))
  IN IF ~(ask.compact /\ prev = ascii) THEN <<Line(RowAddr(entry, pos + 1), Row(entry, pos + 1))>>
     ELSE IF dup THEN <<>> ELSE <<Star>>

LEMMA RowStep ==
  ASSUME ModeInv, DumpRow
  PROVE  /\ UNCHANGED <<mem, ask, entry, dumpPc>> /\ dumpPc = "row"
         /\ entry \in 1..Len(mem.entries) /\ pos \in Nat /\ pos' = pos + 1 /\ pos' <= RowCount(entry)
         /\ DOMAIN lines = 1..entry /\ DOMAIN lines' = 1..entry
         /\ lines[entry] \in Seq(LineSet) /\ NewLines \in Seq(LineSet)
         /\ lines'[entry] = lines[entry] \o NewLines
         /\ \A e \in 1..entry : e # entry => lines'[e] = lines[e]
         /\ prev' = AsciiOf(Row(entry, pos + 1))
         /\ dup' = (ask.compact /\ prev = AsciiOf(Row(entry, pos + 1)))
<1>1. /\ UNCHANGED <<mem, ask, entry, dumpPc>> /\ dumpPc = "row" /\ pos \in Nat /\ pos' = pos + 1
      /\ prev' = AsciiOf(Row(entry, pos + 1))
      /\ dup' = (ask.compact /\ prev = AsciiOf(Row(entry, pos + 1)))
  BY DEF DumpRow, Duplicate, ModeInv, TypeInv, DumpTypeOK
<1>2. entry \in 1..Len(mem.entries) /\ lines \in Seq(Seq(LineSet)) /\ Len(lines) = entry
      /\ addr = Base(entry) + pos * RowBytes /\ addr \in Nat
  BY <1>1 DEF ModeInv, TypeInv, DumpTypeOK, Memory
<1>3. pos' <= RowCount(entry)
  <2>1. RowCount(entry) \in Nat
    BY <1>2, EntryType DEF ModeInv, TypeInv, DumpTypeOK
  <2>2. pos < RowCount(entry)
    BY DEF DumpRow
  <2> QED BY <1>1, <2>1, <2>2
<1>4. addr = RowAddr(entry, pos + 1)
  <2>1. (pos + 1) - 1 = pos
    BY <1>1
  <2> QED BY <1>2, <2>1 DEF RowAddr
<1>5. NewLines \in Seq(LineSet)
  <2>1. Line(addr, Row(entry, pos + 1)) \in LineSet /\ Star \in LineSet
    BY <1>1, <1>2 DEF LineSet
  <2> QED BY <1>4, <2>1 DEF NewLines
<1>6. lines' = [lines EXCEPT ![entry] = @ \o NewLines]
  BY <1>4 DEF DumpRow, NewLines
<1> QED BY <1>1, <1>2, <1>3, <1>5, <1>6

-----------------------------------------------------------------------------
(***************************************************************************)
(* The full dump                                                           *)
(***************************************************************************)

(* How many rows of an entry are dumped, after every kind of step.           *)
LEMMA DumpedSteps ==
  ASSUME ModeInv
  PROVE  /\ Quiet => \A e : Dumped(e)' = Dumped(e)
         /\ ReadEntry => Dumped(entry)' = 0 /\ \A e \in 1..entry - 1 : Dumped(e)' = Dumped(e)
         /\ EntryDumped => \A e \in 1..entry : Dumped(e)' = Dumped(e)
         /\ DumpRow => /\ Dumped(entry) = pos /\ Dumped(entry)' = pos + 1
                       /\ \A e \in 1..entry : e # entry => Dumped(e)' = Dumped(e)
<1>1. entry \in Nat
  BY DEF ModeInv, TypeInv, DumpTypeOK
<1>2. mem' = mem => \A e : RowCount(e)' = RowCount(e)
  BY SameMemory
<1>3. Quiet => \A e : Dumped(e)' = Dumped(e)
  BY <1>2 DEF Dumped, Quiet
<1>4. ASSUME ReadEntry
      PROVE  Dumped(entry)' = 0 /\ \A e \in 1..entry - 1 : Dumped(e)' = Dumped(e)
  BY <1>1, <1>2, <1>4, EntrySteps DEF Dumped
<1>5. ASSUME EntryDumped
      PROVE  \A e \in 1..entry : Dumped(e)' = Dumped(e)
  BY <1>1, <1>2, <1>5, EntrySteps DEF Dumped
<1>6. ASSUME DumpRow
      PROVE  /\ Dumped(entry) = pos /\ Dumped(entry)' = pos + 1
             /\ \A e \in 1..entry : e # entry => Dumped(e)' = Dumped(e)
  BY <1>1, <1>2, <1>6, RowStep DEF Dumped
<1> QED BY <1>3, <1>4, <1>5, <1>6

FullEntry(e) == lines[e] = [j \in 1..Dumped(e) |-> Line(RowAddr(e, j), Row(e, j))]
FullInv ==
  /\ ModeInv
  /\ ~ask.search /\ ~ask.compact => \A e \in DOMAIN lines : FullEntry(e)

(* An entry stays as it is while neither its lines nor their number change.   *)
LEMMA FullStays ==
  ASSUME NEW e, FullEntry(e), mem' = mem, lines'[e] = lines[e], Dumped(e)' = Dumped(e)
  PROVE  FullEntry(e)'
<1>1. \A j : Row(e, j)' = Row(e, j) /\ RowAddr(e, j)' = RowAddr(e, j)
  BY SameMemory
<1>2. [j \in 1..Dumped(e) |-> Line(RowAddr(e, j), Row(e, j))]'
        = [j \in 1..Dumped(e) |-> Line(RowAddr(e, j), Row(e, j))]
  BY <1>1 DEF Line
<1> QED BY <1>2 DEF FullEntry

LEMMA FullInit == DumpInit => FullInv
  BY ModeInit DEF FullInv, DumpInit, DumpStart

LEMMA FullStep == FullInv /\ [DumpNext]_dumpVars => FullInv'
<1> SUFFICES ASSUME FullInv, [DumpNext]_dumpVars, (~ask.search /\ ~ask.compact)'
             PROVE  \A e \in DOMAIN lines' : FullEntry(e)'
  BY ModeStep DEF FullInv
<1>0. ModeInv /\ ModeInv'
  BY ModeStep DEF FullInv
<1>1. ask' = ask /\ mem' = mem /\ ~ask.search /\ ~ask.compact
  BY DEF DumpNext, DumpCheck, ReadEntry, ReadEntryFails, DumpRow, EntryDumped, DumpEnds,
         SearchChunk, SearchCutShort, dumpVars
<1>2. \A e \in DOMAIN lines : FullEntry(e)
  BY <1>1 DEF FullInv
<1>3. CASE Quiet
  BY <1>0, <1>1, <1>2, <1>3, FullStays, DumpedSteps DEF Quiet
<1>4. CASE ReadEntry
  <2>1. /\ DOMAIN lines = 1..entry - 1 /\ DOMAIN lines' = 1..entry /\ lines'[entry] = <<>>
        /\ \A e \in DOMAIN lines : lines'[e] = lines[e]
        /\ entry \in Nat /\ entry' = entry
    <3>1. entry \in Nat
      BY <1>0 DEF ModeInv, TypeInv, DumpTypeOK
    <3> QED BY <1>0, <1>4, <3>1, EntrySteps
  <2>2. Dumped(entry)' = 0 /\ \A e \in 1..entry - 1 : Dumped(e)' = Dumped(e)
    BY <1>0, <1>4, DumpedSteps
  <2>3. \A e \in 1..entry - 1 : FullEntry(e)'
    BY <1>1, <1>2, <2>1, <2>2, FullStays
  <2>4. FullEntry(entry)'
    BY <2>1, <2>2 DEF FullEntry
  <2>5. \A e \in 1..entry : e \in 1..entry - 1 \/ e = entry
    BY <2>1
  <2> QED BY ONLY <2>1, <2>3, <2>4, <2>5
<1>5. CASE EntryDumped
  <2>1. lines' = lines /\ DOMAIN lines = 1..entry
    BY <1>0, <1>5, EntrySteps
  <2> QED BY <1>0, <1>1, <1>2, <1>5, <2>1, FullStays, DumpedSteps
<1>6. CASE DumpRow
  <2>1. /\ DOMAIN lines = 1..entry /\ DOMAIN lines' = 1..entry /\ entry' = entry
        /\ pos \in Nat /\ \A e \in 1..entry : e # entry => lines'[e] = lines[e]
        /\ lines'[entry] = lines[entry] \o NewLines /\ entry \in 1..entry
    BY <1>0, <1>6, RowStep
  <2>2. /\ Dumped(entry) = pos /\ Dumped(entry)' = pos + 1
        /\ \A e \in 1..entry : e # entry => Dumped(e)' = Dumped(e)
    BY <1>0, <1>6, DumpedSteps
  <2>3. \A e \in 1..entry : e # entry => FullEntry(e)'
    BY <1>1, <1>2, <2>1, <2>2, FullStays
  <2>4. lines[entry] = [j \in 1..pos |-> Line(RowAddr(entry, j), Row(entry, j))]
    BY <1>2, <2>1, <2>2 DEF FullEntry
  <2>5. NewLines = <<Line(RowAddr(entry, pos + 1), Row(entry, pos + 1))>>
    BY <1>1 DEF NewLines
  <2>6. lines'[entry] = [j \in 1..pos + 1 |-> Line(RowAddr(entry, j), Row(entry, j))]
    BY ONLY <2>1, <2>4, <2>5
  <2>7. \A j : Row(entry, j)' = Row(entry, j) /\ RowAddr(entry, j)' = RowAddr(entry, j)
    BY <1>1, <2>1, SameMemory
  <2>8. FullEntry(entry)'
    BY <2>1, <2>2, <2>6, <2>7 DEF FullEntry, Line
  <2> QED BY <2>1, <2>3, <2>8
<1> QED BY <1>0, <1>1, <1>3, <1>4, <1>5, <1>6, DumpSteps

(* For any memory, pagemap and size of rows and pages: the full dump has every *)
(* row of the entries read, at its address, and ends well only with all.      *)
THEOREM FullDumps == DumpSpec => []FullDumpExact
<1>1. FullInv => FullDumpExact
  <2> SUFFICES ASSUME FullInv, ~ask.search, ~ask.compact PROVE FullDumpExact
    BY DEF FullDumpExact
  <2>1. dumpPc = "done" => Len(lines) = Len(mem.entries)
    BY DEF FullInv, ModeInv
  <2>2. lines \in Seq(Seq(LineSet)) /\ mem.entries \in Seq(Entry)
    BY DEF FullInv, ModeInv, TypeInv, DumpTypeOK, Memory
  <2>3. dumpPc = "done" => DOMAIN lines = DOMAIN mem.entries
    BY <2>1, <2>2
  <2> QED BY <2>3 DEF FullInv, FullEntry, FullDumpExact
<1> QED BY <1>1, FullInit, FullStep, PTL DEF DumpSpec

-----------------------------------------------------------------------------
(***************************************************************************)
(* The compact dump                                                        *)
(***************************************************************************)

(* A reader of out finds the ASCII column of the row at address a.           *)
ToldBy(out, a, k) ==
  /\ out[k].kind = "row" /\ out[k].addr <= a
  /\ \A m \in k + 1..Len(out) : out[m].kind = "row" => out[m].addr > a
  /\ out[k].addr = a \/ (k < Len(out) /\ out[k + 1].kind = "star")
Told(out, a, ascii) ==
  \E k \in DOMAIN out : ToldBy(out, a, k) /\ AsciiOf(out[k].row) = ascii

LEMMA Joined ==
  ASSUME NEW S, NEW out \in Seq(S), NEW new \in Seq(S)
  PROVE  /\ out \o new \in Seq(S) /\ Len(out \o new) = Len(out) + Len(new)
         /\ DOMAIN (out \o new) = 1..Len(out) + Len(new)
         /\ \A k \in 1..Len(out) : (out \o new)[k] = out[k]
         /\ \A k \in Len(out) + 1..Len(out) + Len(new) :
              k - Len(out) \in DOMAIN new /\ (out \o new)[k] = new[k - Len(out)]
  OBVIOUS

(* More lines do not mislead the reader unless they have a row up to it.      *)
LEMMA ToldStays ==
  ASSUME NEW S, NEW out \in Seq(S), NEW new \in Seq(S), NEW a \in Nat, NEW ascii,
         Told(out, a, ascii),
         \A m \in DOMAIN new : new[m].kind = "row" => new[m].addr > a
  PROVE  Told(out \o new, a, ascii)
<1> DEFINE all == out \o new
<1>1. PICK k \in DOMAIN out : ToldBy(out, a, k) /\ AsciiOf(out[k].row) = ascii
  BY DEF Told
<1>2. /\ Len(all) = Len(out) + Len(new) /\ DOMAIN all = 1..Len(out) + Len(new)
      /\ \A i \in 1..Len(out) : all[i] = out[i]
      /\ \A i \in Len(out) + 1..Len(out) + Len(new) :
           i - Len(out) \in DOMAIN new /\ all[i] = new[i - Len(out)]
      /\ Len(out) \in Nat /\ Len(new) \in Nat /\ k \in 1..Len(out)
  BY Joined
<1> HIDE DEF all
<1>3. all[k] = out[k] /\ k \in DOMAIN all
  BY <1>2
<1>4. \A m \in k + 1..Len(all) : all[m].kind = "row" => all[m].addr > a
  <2> SUFFICES ASSUME NEW m \in k + 1..Len(all), all[m].kind = "row" PROVE all[m].addr > a
    OBVIOUS
  <2>1. CASE m \in k + 1..Len(out)
    BY <1>1, <1>2, <2>1 DEF ToldBy
  <2>2. CASE m \in Len(out) + 1..Len(out) + Len(new)
    BY <1>2, <2>2
  <2> QED BY <1>2, <2>1, <2>2
<1>5. k < Len(out) => k < Len(all) /\ all[k + 1] = out[k + 1]
  BY <1>2
<1>6. ToldBy(all, a, k) /\ AsciiOf(all[k].row) = ascii
  BY <1>1, <1>3, <1>4, <1>5 DEF ToldBy
<1>7. Told(all, a, ascii)
  BY <1>3, <1>6 DEF Told
<1> QED BY <1>7 DEF all

(* A row has a line of its own, or an asterisk, or is in a run that has one.  *)
LEMMA ToldByRow ==
  ASSUME NEW S, NEW out \in Seq(S), NEW a \in Nat, NEW row, Line(a, row) \in S
  PROVE  Told(out \o <<Line(a, row)>>, a, AsciiOf(row))
<1> DEFINE all == out \o <<Line(a, row)>>
           k == Len(out) + 1
<1>1. all[k] = Line(a, row) /\ k \in DOMAIN all /\ Len(all) = k /\ k \in Nat
  OBVIOUS
<1> HIDE DEF all, k
<1>2. ToldBy(all, a, k) /\ AsciiOf(all[k].row) = AsciiOf(row)
  BY <1>1 DEF ToldBy, Line
<1>3. Told(all, a, AsciiOf(row))
  BY <1>1, <1>2 DEF Told
<1> QED BY <1>3 DEF all

LEMMA ToldByRun ==
  ASSUME NEW S, NEW out \in Seq(S), NEW a \in Nat, Len(out) >= 2,
         out[Len(out)] = Star, out[Len(out) - 1].kind = "row", out[Len(out) - 1].addr <= a
  PROVE  Told(out, a, AsciiOf(out[Len(out) - 1].row))
<1> DEFINE k == Len(out) - 1
<1>1. k \in DOMAIN out /\ k < Len(out) /\ k + 1 = Len(out) /\ k \in Nat /\ Len(out) \in Nat
  OBVIOUS
<1>2. \A m \in k + 1..Len(out) : out[m] = Star
  BY <1>1
<1>3. Star.kind = "star"
  BY DEF Star
<1>4. out[k].kind = "row" /\ out[k].addr <= a /\ out[k + 1] = Star
  BY <1>1
<1> HIDE DEF k
<1>5. ToldBy(out, a, k)
  BY ONLY <1>1, <1>2, <1>3, <1>4 DEF ToldBy
<1>6. Told(out, a, AsciiOf(out[k].row))
  BY <1>1, <1>5 DEF Told
<1> QED BY <1>6 DEF k

LEMMA RowsAscend ==
  ASSUME mem \in Memory, NEW e \in 1..Len(mem.entries), NEW i \in Nat \ {0}, NEW j \in Nat \ {0}
  PROVE  RowAddr(e, i) \in Nat /\ (i < j => RowAddr(e, i) < RowAddr(e, j))
<1>1. Base(e) \in Nat /\ RowBytes \in Nat /\ RowBytes > 0
  BY EntryType, MemoryAssumption
<1>2. ASSUME NEW a \in Nat, NEW b \in Nat, a < b
      PROVE  a * RowBytes < b * RowBytes
  <2>1. PICK d \in Nat : d > 0 /\ b = a + d
    <3>1. b - a \in Nat /\ b - a > 0 /\ b = a + (b - a)
      BY <1>2
    <3> QED BY <3>1
  <2>2. (a + d) * RowBytes = a * RowBytes + d * RowBytes /\ d * RowBytes > 0
    BY <1>1, <2>1
  <2>3. a * RowBytes \in Nat /\ d * RowBytes \in Nat
    BY <1>1, Times
  <2> QED BY <2>1, <2>2, <2>3
<1>3. i - 1 \in Nat /\ j - 1 \in Nat
  OBVIOUS
<1>4. (i - 1) * RowBytes \in Nat /\ (j - 1) * RowBytes \in Nat
  BY <1>1, <1>3, Times
<1>5. i < j => (i - 1) * RowBytes < (j - 1) * RowBytes
  <2>1. i < j => i - 1 < j - 1
    OBVIOUS
  <2> QED BY <1>2, <1>3, <2>1
<1> QED BY <1>1, <1>4, <1>5 DEF RowAddr

LEMMA AsciiNotEmpty == \A e, j : AsciiOf(Row(e, j)) # <<>>
<1> SUFFICES ASSUME NEW e, NEW j PROVE AsciiOf(Row(e, j)) # <<>>
  OBVIOUS
<1>1. DOMAIN AsciiOf(Row(e, j)) = 1..RowBytes
  BY DEF AsciiOf, Row
<1>2. 1 \in 1..RowBytes
  BY MemoryAssumption
<1>3. DOMAIN <<>> = {}
  OBVIOUS
<1> QED BY <1>1, <1>2, <1>3

(* What hexdump remembers of the rows above is what the lines above say.      *)
TailInv ==
  dumpPc = "row" =>
    LET out == lines[entry] IN
    /\ pos = 0 => prev = <<>> /\ ~dup
    /\ pos > 0 => prev = AsciiOf(Row(entry, pos))
    /\ pos > 0 /\ ~dup => Len(out) >= 1 /\ out[Len(out)] = Line(RowAddr(entry, pos), Row(entry, pos))
    /\ dup => /\ Len(out) >= 2 /\ out[Len(out)] = Star
              /\ out[Len(out) - 1].kind = "row" /\ out[Len(out) - 1].addr <= RowAddr(entry, pos)
              /\ out[Len(out) - 1].addr \in Nat
              /\ AsciiOf(out[Len(out) - 1].row) = prev

CompactEntry(e) == \A j \in 1..Dumped(e) : Told(lines[e], RowAddr(e, j), AsciiOf(Row(e, j)))
CompactInv ==
  /\ ModeInv
  /\ ~ask.search /\ ask.compact => TailInv /\ \A e \in DOMAIN lines : CompactEntry(e)

LEMMA CompactStays ==
  ASSUME NEW e, CompactEntry(e), mem' = mem, lines'[e] = lines[e], Dumped(e)' = Dumped(e)
  PROVE  CompactEntry(e)'
<1>1. \A j : Row(e, j)' = Row(e, j) /\ RowAddr(e, j)' = RowAddr(e, j)
  BY SameMemory
<1>2. \A j : AsciiOf(Row(e, j))' = AsciiOf(Row(e, j))
  BY <1>1 DEF AsciiOf
<1> QED BY <1>1, <1>2 DEF CompactEntry, Told, ToldBy, AsciiOf

LEMMA CompactInit == DumpInit => CompactInv
  BY ModeInit DEF CompactInv, DumpInit, DumpStart, TailInv

(* One more row: where its reader looks, and what hexdump remembers of it.    *)
LEMMA CompactRow ==
  ASSUME ModeInv, DumpRow, ~ask.search, ask.compact, TailInv, CompactEntry(entry)
  PROVE  /\ \A j \in 1..pos + 1 :
              Told(lines'[entry], RowAddr(entry, j), AsciiOf(Row(entry, j)))
         /\ TailInv'
<1> DEFINE out == lines[entry]
           all == lines'[entry]
           ascii == AsciiOf(Row(entry, pos + 1))
           here == RowAddr(entry, pos + 1)
           line == Line(here, Row(entry, pos + 1))
<1>1. /\ UNCHANGED <<mem, ask, entry, dumpPc>> /\ dumpPc = "row" /\ pos \in Nat /\ pos' = pos + 1
      /\ entry \in 1..Len(mem.entries) /\ out \in Seq(LineSet) /\ NewLines \in Seq(LineSet)
      /\ all = out \o NewLines /\ prev' = ascii /\ dup' = (ask.compact /\ prev = ascii)
  BY RowStep
<1>2. mem \in Memory
  BY DEF ModeInv, TypeInv, DumpTypeOK
<1>3. here \in Nat /\ \A j \in 1..pos : RowAddr(entry, j) \in Nat /\ RowAddr(entry, j) < here
  BY <1>1, <1>2, RowsAscend
<1>4. \/ prev # ascii /\ NewLines = <<line>>
      \/ prev = ascii /\ ~dup /\ NewLines = <<Star>>
      \/ prev = ascii /\ dup /\ NewLines = <<>>
  BY DEF NewLines
<1>5. /\ pos = 0 => prev # ascii
      /\ pos > 0 => prev = AsciiOf(Row(entry, pos))
      /\ pos > 0 /\ ~dup => /\ Len(out) >= 1
                            /\ out[Len(out)] = Line(RowAddr(entry, pos), Row(entry, pos))
      /\ dup => /\ pos > 0 /\ Len(out) >= 2 /\ out[Len(out)] = Star
                /\ out[Len(out) - 1].kind = "row" /\ out[Len(out) - 1].addr <= RowAddr(entry, pos)
                /\ out[Len(out) - 1].addr \in Nat
                /\ AsciiOf(out[Len(out) - 1].row) = prev
  BY <1>1, AsciiNotEmpty DEF TailInv
<1>6. \A j \in 1..pos : Told(out, RowAddr(entry, j), AsciiOf(Row(entry, j)))
  <2>1. Dumped(entry) = pos
    BY <1>1 DEF Dumped
  <2> QED BY <2>1 DEF CompactEntry
<1>7. line.kind = "row" /\ line.addr = here /\ line.row = Row(entry, pos + 1) /\ Star.kind = "star"
  BY DEF Line, Star
<1>8. \A m \in DOMAIN NewLines : NewLines[m].kind = "row" => NewLines[m].addr = here
  <2> HIDE DEF line, here, ascii
  <2> QED BY <1>4, <1>7
<1>9. line \in LineSet /\ Star \in LineSet
  BY <1>1, <1>3 DEF LineSet
<1> HIDE DEF out, all, ascii, here, line
<1>10. \A j \in 1..pos : Told(all, RowAddr(entry, j), AsciiOf(Row(entry, j)))
  BY <1>1, <1>3, <1>6, <1>8, ToldStays
(* The row is told, and the lines end as hexdump remembers them.              *)
<1> DEFINE After ==
      /\ Told(all, here, ascii)
      /\ ~dup' => Len(all) >= 1 /\ all[Len(all)] = line
      /\ dup' => /\ Len(all) >= 2 /\ all[Len(all)] = Star
                 /\ all[Len(all) - 1].kind = "row" /\ all[Len(all) - 1].addr <= here
                 /\ all[Len(all) - 1].addr \in Nat
                 /\ AsciiOf(all[Len(all) - 1].row) = ascii
<1>11. ASSUME prev # ascii PROVE After
  <2>1. all = out \o <<line>> /\ ~dup'
    BY <1>1, <1>4, <1>11
  <2>2. Told(all, here, ascii)
    BY <1>1, <1>3, <1>9, <2>1, ToldByRow DEF line, ascii, here
  <2>3. Len(all) >= 1 /\ all[Len(all)] = line
    BY <1>1, <1>9, <2>1
  <2> QED BY <2>1, <2>2, <2>3
<1>12. ASSUME prev = ascii /\ ~dup PROVE After
  <2>1. all = out \o <<Star>> /\ dup' /\ pos > 0 /\ all \in Seq(LineSet)
    <3>1. all = out \o <<Star>> /\ dup'
      BY <1>1, <1>4, <1>12
    <3>2. pos > 0
      BY <1>1, <1>5, <1>12
    <3> QED BY <1>1, <1>9, <3>1, <3>2
  <2>2. Len(out) >= 1 /\ out[Len(out)] = Line(RowAddr(entry, pos), Row(entry, pos))
        /\ prev = AsciiOf(Row(entry, pos))
    BY <1>5, <1>12, <2>1
  <2>3. Len(all) = Len(out) + 1 /\ all[Len(all)] = Star /\ all[Len(out)] = out[Len(out)]
        /\ Len(out) \in Nat
    BY <1>1, <2>1, <2>2, Appended
  <2>4. Len(all) >= 2 /\ all[Len(all) - 1] = Line(RowAddr(entry, pos), Row(entry, pos))
    BY <2>2, <2>3
  <2>5. /\ all[Len(all) - 1].kind = "row" /\ all[Len(all) - 1].addr = RowAddr(entry, pos)
        /\ all[Len(all) - 1].row = Row(entry, pos)
    BY <2>4 DEF Line
  <2>6. RowAddr(entry, pos) \in Nat /\ RowAddr(entry, pos) <= here
    BY <1>1, <1>3, <2>1
  <2>7. AsciiOf(all[Len(all) - 1].row) = ascii
    BY <1>12, <2>2, <2>5
  <2>8. Told(all, here, ascii)
    BY <1>3, <2>1, <2>3, <2>4, <2>5, <2>6, <2>7, ToldByRun
  <2> QED BY <2>1, <2>3, <2>4, <2>5, <2>6, <2>7, <2>8
<1>13. ASSUME prev = ascii /\ dup PROVE After
  <2>1. all = out /\ dup' /\ pos > 0
    <3>1. all = out \o <<>> /\ dup'
      BY <1>1, <1>4, <1>13
    <3>2. pos > 0
      BY <1>5, <1>13
    <3> QED BY <1>1, <3>1, <3>2
  <2>2. /\ Len(all) >= 2 /\ all[Len(all)] = Star /\ all[Len(all) - 1].kind = "row"
        /\ all[Len(all) - 1].addr <= RowAddr(entry, pos) /\ all[Len(all) - 1].addr \in Nat
        /\ AsciiOf(all[Len(all) - 1].row) = ascii
    BY <1>5, <1>13, <2>1
  <2>3. RowAddr(entry, pos) \in Nat /\ RowAddr(entry, pos) <= here
    BY <1>1, <1>3, <2>1
  <2>4. all[Len(all) - 1].addr <= here
    BY <1>3, <2>2, <2>3
  <2>5. Told(all, here, ascii)
    BY <1>1, <1>3, <2>1, <2>2, <2>4, ToldByRun
  <2> QED BY <2>1, <2>2, <2>4, <2>5
<1>14. After
  BY <1>11, <1>12, <1>13
<1>15. \A j \in 1..pos + 1 : Told(all, RowAddr(entry, j), AsciiOf(Row(entry, j)))
  <2>1. \A j \in 1..pos + 1 : j \in 1..pos \/ j = pos + 1
    BY <1>1
  <2> QED BY <1>10, <1>14, <2>1 DEF here, ascii
<1>16. TailInv'
  <2>1. RowAddr(entry, pos)' = here /\ Row(entry, pos)' = Row(entry, pos + 1)
    BY <1>1, SameMemory DEF here
  <2>2. pos' > 0 /\ entry' = entry /\ prev' = AsciiOf(Row(entry, pos)')
    BY <1>1, <2>1 DEF ascii
  <2>3. Line(here, Row(entry, pos + 1)) = Line(RowAddr(entry, pos), Row(entry, pos))'
    BY <2>1 DEF Line
  <2>4. pos' # 0
    BY <1>1
  <2> QED BY <1>14, <2>1, <2>2, <2>3, <2>4 DEF TailInv, all, line, ascii, Star, Line, AsciiOf
<1> QED BY <1>15, <1>16 DEF all

LEMMA CompactStep == CompactInv /\ [DumpNext]_dumpVars => CompactInv'
<1> SUFFICES ASSUME CompactInv, [DumpNext]_dumpVars, (~ask.search /\ ask.compact)'
             PROVE  TailInv' /\ \A e \in DOMAIN lines' : CompactEntry(e)'
  BY ModeStep DEF CompactInv
<1>0. ModeInv
  BY DEF CompactInv
<1>1. ask' = ask /\ mem' = mem /\ ~ask.search /\ ask.compact
  BY DEF DumpNext, DumpCheck, ReadEntry, ReadEntryFails, DumpRow, EntryDumped, DumpEnds,
         SearchChunk, SearchCutShort, dumpVars
<1>2. TailInv /\ \A e \in DOMAIN lines : CompactEntry(e)
  BY <1>1 DEF CompactInv
<1>3. CASE Quiet /\ (dumpPc' = dumpPc \/ dumpPc' \in {"entry", "error", "done"})
  <2>1. \A e \in DOMAIN lines' : CompactEntry(e)'
    BY <1>0, <1>1, <1>2, <1>3, CompactStays, DumpedSteps DEF Quiet
  <2>2. TailInv'
    <3> SUFFICES ASSUME dumpPc' = "row" PROVE TailInv'
      BY DEF TailInv
    <3>1. dumpPc = "row" /\ UNCHANGED <<mem, entry, pos, prev, dup, lines>>
      BY <1>3 DEF Quiet
    <3>2. Row(entry, pos)' = Row(entry, pos) /\ RowAddr(entry, pos)' = RowAddr(entry, pos)
      BY <3>1, SameMemory
    <3>3. Line(RowAddr(entry, pos), Row(entry, pos))' = Line(RowAddr(entry, pos), Row(entry, pos))
      BY <3>2 DEF Line
    <3> QED BY <1>2, <3>1, <3>2, <3>3 DEF TailInv, AsciiOf, Star
  <2> QED BY <2>1, <2>2
<1>4. CASE ReadEntry
  <2>1. /\ DOMAIN lines = 1..entry - 1 /\ DOMAIN lines' = 1..entry /\ entry' = entry
        /\ \A e \in DOMAIN lines : lines'[e] = lines[e]
        /\ entry \in Nat /\ pos' = 0 /\ prev' = <<>> /\ dup' = FALSE
    <3>1. entry \in Nat
      BY <1>0 DEF ModeInv, TypeInv, DumpTypeOK
    <3> QED BY <1>0, <1>4, <3>1, EntrySteps
  <2>2. Dumped(entry)' = 0 /\ \A e \in 1..entry - 1 : Dumped(e)' = Dumped(e)
    BY <1>0, <1>4, DumpedSteps
  <2>3. \A e \in 1..entry - 1 : CompactEntry(e)'
    BY <1>1, <1>2, <2>1, <2>2, CompactStays
  <2>4. CompactEntry(entry)'
    BY <2>1, <2>2 DEF CompactEntry
  <2>5. \A e \in 1..entry : e \in 1..entry - 1 \/ e = entry
    BY <2>1
  <2>6. \A e \in DOMAIN lines' : CompactEntry(e)'
    BY ONLY <2>1, <2>3, <2>4, <2>5
  <2>7. TailInv'
    BY <2>1 DEF TailInv
  <2> QED BY <2>6, <2>7
<1>5. CASE EntryDumped
  <2>1. lines' = lines /\ DOMAIN lines = 1..entry /\ dumpPc' = "entry"
    BY <1>0, <1>5, EntrySteps
  <2>2. TailInv'
    BY <2>1 DEF TailInv
  <2> QED BY <1>0, <1>1, <1>2, <1>5, <2>1, <2>2, CompactStays, DumpedSteps
<1>6. CASE DumpRow
  <2>1. /\ DOMAIN lines = 1..entry /\ DOMAIN lines' = 1..entry /\ entry' = entry
        /\ \A e \in 1..entry : e # entry => lines'[e] = lines[e]
    BY <1>0, <1>6, RowStep
  <2>a. entry \in 1..entry /\ pos \in Nat /\ pos' = pos + 1
    <3>1. entry \in 1..Len(mem.entries) /\ pos \in Nat /\ pos' = pos + 1
      BY <1>0, <1>6, RowStep
    <3> QED BY <3>1
  <2>2. /\ Dumped(entry)' = pos + 1 /\ \A e \in 1..entry : e # entry => Dumped(e)' = Dumped(e)
    BY <1>0, <1>6, DumpedSteps
  <2>3. \A e \in 1..entry : e # entry => CompactEntry(e)'
    BY <1>1, <1>2, <2>1, <2>2, CompactStays
  <2>4. TailInv' /\ \A j \in 1..pos + 1 :
                      Told(lines'[entry], RowAddr(entry, j), AsciiOf(Row(entry, j)))
    BY <1>0, <1>1, <1>2, <1>6, <2>1, <2>a, CompactRow
  <2>5. \A j : AsciiOf(Row(entry, j))' = AsciiOf(Row(entry, j)) /\ RowAddr(entry, j)' = RowAddr(entry, j)
    BY <1>1, <2>1, SameMemory DEF AsciiOf
  <2>6. CompactEntry(entry)'
    <3>1. Dumped(entry)' = pos + 1
      BY <2>2
    <3>2. \A j \in 1..pos + 1 :
            Told(lines'[entry], RowAddr(entry, j)', AsciiOf(Row(entry, j))')
      BY <2>4, <2>5
    <3> QED BY <2>1, <3>1, <3>2 DEF CompactEntry, Told, ToldBy
  <2> QED BY <2>1, <2>3, <2>4, <2>6
<1> QED BY <1>0, <1>1, <1>3, <1>4, <1>5, <1>6, DumpSteps

(* For any memory, pagemap and size of rows and pages: the reader of a compact *)
(* dump finds the ASCII column of every row of the entries read.              *)
THEOREM CompactDumps == DumpSpec => []CompactReadsBack
<1>1. CompactInv => CompactReadsBack
  <2> SUFFICES ASSUME CompactInv, ~ask.search, ask.compact PROVE CompactReadsBack
    BY DEF CompactReadsBack
  <2>1. dumpPc = "done" => Len(lines) = Len(mem.entries)
    BY DEF CompactInv, ModeInv
  <2>2. lines \in Seq(Seq(LineSet)) /\ mem.entries \in Seq(Entry)
    BY DEF CompactInv, ModeInv, TypeInv, DumpTypeOK, Memory
  <2>3. dumpPc = "done" => DOMAIN lines = DOMAIN mem.entries
    BY <2>1, <2>2
  <2>4. \A e \in DOMAIN lines : \A j \in 1..Dumped(e) :
          \E k \in DOMAIN lines[e] :
            Tells(e, k, j) /\ AsciiOf(lines[e][k].row) = AsciiOf(Row(e, j))
    BY DEF CompactInv, CompactEntry, Told, ToldBy, Tells
  <2> QED BY <2>3, <2>4 DEF CompactReadsBack
<1> QED BY <1>1, CompactInit, CompactStep, PTL DEF DumpSpec

-----------------------------------------------------------------------------
(***************************************************************************)
(* The search                                                              *)
(***************************************************************************)

SearchedInv ==
  /\ Sound(matches, entry, pos) /\ Ordered(matches)
  /\ Offset[entry] + pos <= Len(mem.file) => Complete(matches, entry, pos)
  /\ dumpPc = "done" => entry = Len(mem.entries) + 1 /\ pos = 0
  /\ dumpPc = "check" => entry = 1 /\ pos = 0 /\ matches = <<>>

SearchInv == ModeInv /\ (ask.search => SearchedInv)

LEMMA PatternLength ==
  ASSUME TypeInv, ask.search
  PROVE  Len(ask.pattern) \in Nat \ {0} /\ ask.pattern \in Seq(Printable)
<1>1. ask.pattern \in Seq(Printable) /\ ask.pattern # <<>>
  BY DEF TypeInv, SearchTypes, DumpTypeOK, Request
<1> QED BY <1>1

LEMMA NothingPassed ==
  ASSUME Len(ask.pattern) \in Nat \ {0}, NEW e \in Nat \ {0}, NEW i \in Nat
  PROVE  ~Passed(1, 0, e, i)
<1>1. 0 * PageBytes = 0
  BY PageSize
<1>2. ~(i + Len(ask.pattern) <= 0) /\ ~(e < 1)
  OBVIOUS
<1> QED BY <1>1, <1>2 DEF Passed

LEMMA SearchInit == DumpInit => SearchInv
<1> SUFFICES ASSUME DumpInit, ask.search PROVE SearchedInv
  BY ModeInit DEF SearchInv
<1>1. TypeInv
  BY TypeInit
<1>2. entry = 1 /\ pos = 0 /\ matches = <<>> /\ dumpPc = "check"
  BY DEF DumpInit, DumpStart
<1>3. DOMAIN matches = {}
  BY <1>2
<1>4. Sound(matches, entry, pos) /\ Ordered(matches)
  BY <1>3 DEF Sound, Ordered
<1>5. Complete(matches, entry, pos)
  <2>1. \A e \in DOMAIN mem.entries : e \in Nat \ {0}
    BY <1>1, EntriesType DEF TypeInv, DumpTypeOK
  <2>2. \A e \in DOMAIN mem.entries : \A i \in Nat : ~Passed(1, 0, e, i)
    BY <1>1, <2>1, PatternLength, NothingPassed
  <2> QED BY <1>2, <2>2 DEF Complete
<1> QED BY <1>2, <1>4, <1>5 DEF SearchedInv

(* What is said of the results keeps its meaning as long as memory does.       *)
LEMMA SearchPrimed ==
  ASSUME mem' = mem, ask' = ask,
         NEW found, NEW c, NEW p, matches' = found, entry' = c, pos' = p
  PROVE  /\ Sound(found, c, p) => Sound(matches, entry, pos)'
         /\ Ordered(found) => Ordered(matches)'
         /\ Complete(found, c, p) => Complete(matches, entry, pos)'
         /\ Offset' = Offset
<1>1. \A e : Base(e)' = Base(e)
  BY DEF Base
<1>2. \A e, i : Inside(e, i)' <=> Inside(e, i)
  BY DEF Inside
<1>3. Offset' = Offset
  BY DEF Offset
<1>4. \A a : ByteAt(a)' = ByteAt(a)
  BY <1>3 DEF ByteAt, Index, PageNumbers
<1>5. \A e, i : Holds(e, i)' <=> Holds(e, i)
  BY <1>1, <1>4 DEF Holds
<1>6. \A x, e, i : Place(matches, x, e, i)' <=> Place(found, x, e, i)
  BY <1>1, <1>2, <1>5 DEF Place
<1>7. \A e, i : Passed(entry, pos, e, i)' <=> Passed(c, p, e, i)
  BY <1>2 DEF Passed
<1>8. \A a : Covers(matches, a)' <=> Covers(found, a)
  BY DEF Covers
<1>9. \A i : Crosses(i)' <=> Crosses(i)
  BY DEF Crosses
<1>10. Sound(found, c, p) => Sound(matches, entry, pos)'
  BY <1>6, <1>7 DEF Sound
<1>11. Ordered(found) => Ordered(matches)'
  BY <1>6 DEF Ordered
<1>12. Complete(found, c, p) => Complete(matches, entry, pos)'
  BY <1>1, <1>5, <1>7, <1>8, <1>9 DEF Complete
<1> QED BY <1>3, <1>10, <1>11, <1>12

(* After n pages of an entry the search goes on with the next, or with the     *)
(* next entry if these were the last.                                        *)
LEMMA PassedMore ==
  ASSUME mem \in Memory, entry \in DOMAIN mem.entries, pos \in Nat,
         Len(ask.pattern) \in Nat \ {0},
         NEW n \in Nat \ {0}, pos + n <= mem.entries[entry].pages, NEW c, NEW p,
         IF pos + n < mem.entries[entry].pages THEN c = entry /\ p = pos + n
                                               ELSE c = entry + 1 /\ p = 0
  PROVE  \A e \in DOMAIN mem.entries : \A i \in Nat :
           Passed(c, p, e, i) <=>
             \/ Passed(entry, pos, e, i)
             \/ Inside(e, i) /\ e = entry /\ i + Len(ask.pattern) <= (pos + n) * PageBytes
<1> PICK P \in Nat \ {0} : P = Len(ask.pattern)
  OBVIOUS
<1> PICK N \in Nat : DOMAIN mem.entries = 1..N
  BY EntriesType
<1>1. /\ pos * PageBytes \in Nat /\ (pos + n) * PageBytes \in Nat
      /\ pos * PageBytes <= (pos + n) * PageBytes
  <2>1. PageBytes \in Nat /\ pos + n \in Nat /\ pos <= pos + n
    BY PageSize
  <2> QED BY <2>1, Times, Monotone
<1> PICK from \in Nat, to \in Nat :
      from = pos * PageBytes /\ to = (pos + n) * PageBytes /\ from <= to
  BY <1>1
<1>2. mem.entries[entry].pages \in Nat
  BY EntriesType
<1>3. CASE pos + n < mem.entries[entry].pages
  <2>1. c = entry /\ p = pos + n
    BY <1>3
  <2> QED BY <2>1 DEF Passed
<1>4. CASE ~(pos + n < mem.entries[entry].pages)
  <2>1. c = entry + 1 /\ p = 0 /\ mem.entries[entry].pages = pos + n
    <3>1. c = entry + 1 /\ p = 0
      BY <1>4
    <3> PICK pages \in Nat : pages = mem.entries[entry].pages
      BY <1>2
    <3>2. pages = pos + n
      BY ONLY <1>4, pages = mem.entries[entry].pages, pages \in Nat, pos \in Nat,
              n \in Nat \ {0}, pos + n <= mem.entries[entry].pages
    <3> QED BY <3>1, <3>2
  <2>2. \A i : Inside(entry, i) <=> i + P <= to
    BY <2>1 DEF Inside
  <2>3. 0 * PageBytes = 0
    BY PageSize
  <2>4. \A i \in Nat : ~(i + P <= 0)
    OBVIOUS
  <2>5. \A e \in 1..N : (e < entry + 1 <=> (e < entry \/ e = entry))
    OBVIOUS
  <2> QED BY <2>1, <2>2, <2>3, <2>4, <2>5 DEF Passed
<1> QED BY <1>3, <1>4

(* An occurrence that begins before a chunk and ends in it crosses a border.   *)
LEMMA CrossesHere ==
  ASSUME entry \in DOMAIN mem.entries, AtChunk, Len(ask.pattern) \in Nat \ {0},
         NEW i \in Nat, i < pos * PageBytes, ~(i + Len(ask.pattern) <= pos * PageBytes)
  PROVE  Crosses(i)
<1> PICK k \in Nat : pos = k * ChunkPages
  BY DEF AtChunk
<1> PICK chunk \in Nat \ {0} : chunk = ChunkPages * PageBytes
  BY PageSize, MemoryAssumption, Positive
<1>1. pos * PageBytes = k * chunk
  BY PageSize, MemoryAssumption, Associative
<1>2. k * chunk \in Nat
  BY Times
<1>a. i + Len(ask.pattern) - 1 \in Nat
  BY ONLY i \in Nat, Len(ask.pattern) \in Nat \ {0}
<1> PICK last \in Nat : last = i + Len(ask.pattern) - 1
  BY <1>a, Zenon
<1>3. i < k * chunk /\ k * chunk <= last
  BY <1>1, <1>2
<1>4. i \div chunk < k /\ k <= last \div chunk
  BY <1>3, Bounded
<1>5. i \div chunk \in Nat /\ last \div chunk \in Nat
  BY Division
<1>6. i \div chunk # last \div chunk
  BY <1>4, <1>5
<1> QED BY <1>6 DEF Crosses

(* The results after one chunk more.                                         *)
LEMMA ChunkSearched ==
  ASSUME TypeInv, ask.search, entry \in DOMAIN mem.entries, AtChunk,
         Sound(matches, entry, pos), Ordered(matches),
         NEW n \in Nat \ {0}, pos + n <= mem.entries[entry].pages, NEW c, NEW p,
         IF pos + n < mem.entries[entry].pages THEN c = entry /\ p = pos + n
                                               ELSE c = entry + 1 /\ p = 0,
         NEW new \in Seq(MatchType), OfChunk(new, entry, pos, n),
         NEW all, all = matches \o new
  PROVE  /\ Sound(all, c, p) /\ Ordered(all)
         /\ Complete(matches, entry, pos) => Complete(all, c, p)
<1>1. /\ mem \in Memory /\ pos \in Nat /\ matches \in Seq(MatchType)
      /\ Len(ask.pattern) \in Nat \ {0}
  BY PatternLength DEF TypeInv, DumpTypeOK, MatchType
<1> PICK P \in Nat \ {0} : P = Len(ask.pattern)
  BY <1>1
<1> PICK N \in Nat : DOMAIN mem.entries = 1..N
  BY <1>1, EntriesType
<1>2. \A e \in DOMAIN mem.entries : \A i \in Nat :
        Passed(c, p, e, i) <=>
          \/ Passed(entry, pos, e, i)
          \/ Inside(e, i) /\ e = entry /\ i + P <= (pos + n) * PageBytes
  BY <1>1, PassedMore
<1>3. pos * PageBytes \in Nat /\ \A e \in DOMAIN mem.entries : Base(e) \in Nat
  <2>1. \A e \in DOMAIN mem.entries : mem.entries[e].page \in Nat
    BY <1>1, EntriesType
  <2> QED BY <1>1, <2>1, PageSize, Times DEF Base
<1> PICK L \in Nat, M \in Nat :
      L = Len(matches) /\ DOMAIN matches = 1..L /\ M = Len(new) /\ DOMAIN new = 1..M
  BY <1>1
<1>4. /\ DOMAIN all = 1..L + M
      /\ \A x \in 1..L : all[x] = matches[x]
      /\ \A k \in 1..M : all[L + k] = new[k]
  BY <1>1, ConcatProperties
<1>5. \A x \in 1..L + M : x \in 1..L \/ \E k \in 1..M : x = L + k
  <2> TAKE x \in 1..L + M
  <2>1. ~(x \in 1..L) => x - L \in 1..M /\ x = L + (x - L)
    OBVIOUS
  <2> QED BY <2>1
<1>6. \A x \in 1..L : \E e \in DOMAIN mem.entries : \E i \in Nat :
        Place(all, x, e, i) /\ Passed(entry, pos, e, i)
  <2> TAKE x \in 1..L
  <2>1. PICK e \in DOMAIN mem.entries, i \in Nat :
          Place(matches, x, e, i) /\ Passed(entry, pos, e, i)
    BY DEF Sound
  <2>2. Place(all, x, e, i)
    BY <1>4, <2>1 DEF Place
  <2> QED BY <2>1, <2>2
<1>7. \A k \in 1..M : \E i \in Nat :
        /\ Place(all, L + k, entry, i)
        /\ pos * PageBytes <= i /\ i + P <= (pos + n) * PageBytes
  <2> TAKE k \in 1..M
  <2>1. PICK i \in Nat :
          /\ Place(new, k, entry, i)
          /\ pos * PageBytes <= i /\ i + P <= (pos + n) * PageBytes
    BY DEF OfChunk
  <2>2. Place(all, L + k, entry, i)
    BY <1>4, <2>1 DEF Place
  <2> QED BY <2>1, <2>2
<1>8. Sound(all, c, p)
  <2>1. \A k \in 1..M : \E i \in Nat : Place(all, L + k, entry, i) /\ Passed(c, p, entry, i)
    BY <1>2, <1>7 DEF Place
  <2>2. \A x \in 1..L : \E e \in DOMAIN mem.entries : \E i \in Nat :
          Place(all, x, e, i) /\ Passed(c, p, e, i)
    BY <1>2, <1>6
  <2>3. ASSUME NEW x \in 1..L + M
        PROVE  \E e \in DOMAIN mem.entries : \E i \in Nat :
                 Place(all, x, e, i) /\ Passed(c, p, e, i)
    <3>1. CASE x \in 1..L
      BY <2>2, <3>1
    <3>2. CASE x \notin 1..L
      <4>1. PICK k \in 1..M : x = L + k
        BY <1>5, <3>2
      <4> QED BY <2>1, <4>1, Zenon
    <3> QED BY <3>1, <3>2
  <2>4. DOMAIN all = 1..L + M
    BY <1>4
  <2> QED BY ONLY <2>3, <2>4 DEF Sound
<1>9. ASSUME NEW x \in 1..L, NEW y \in 1..L, x < y
      PROVE  \E e, f \in DOMAIN mem.entries :
               /\ \E i \in Nat : Place(all, x, e, i)
               /\ \E j \in Nat : Place(all, y, f, j)
               /\ e < f \/ (e = f /\ all[x].addr + P <= all[y].addr)
  <2>1. PICK e \in DOMAIN mem.entries, f \in DOMAIN mem.entries :
           /\ \E i \in Nat : Place(matches, x, e, i)
           /\ \E j \in Nat : Place(matches, y, f, j)
           /\ e < f \/ (e = f /\ matches[x].addr + P <= matches[y].addr)
    BY <1>9 DEF Ordered
  <2>2. all[x] = matches[x] /\ all[y] = matches[y]
    BY <1>4
  <2> QED BY <2>1, <2>2 DEF Place
<1>10. ASSUME NEW x \in 1..L, NEW k \in 1..M
       PROVE  \E e, f \in DOMAIN mem.entries :
                /\ \E i \in Nat : Place(all, x, e, i)
                /\ \E j \in Nat : Place(all, L + k, f, j)
                /\ e < f \/ (e = f /\ all[x].addr + P <= all[L + k].addr)
  <2>1. PICK e \in DOMAIN mem.entries, i \in Nat :
          Place(all, x, e, i) /\ Passed(entry, pos, e, i)
    BY <1>6
  <2>2. PICK j \in Nat : Place(all, L + k, entry, j) /\ pos * PageBytes <= j
    BY <1>7
  <2>3. e < entry \/ (e = entry /\ i + P <= pos * PageBytes)
    BY <2>1 DEF Passed
  <2>4. ASSUME e = entry, i + P <= pos * PageBytes
        PROVE  all[x].addr + P <= all[L + k].addr
    <3>1. all[x].addr = Base(entry) + i /\ all[L + k].addr = Base(entry) + j
      BY <2>1, <2>2, <2>4 DEF Place
    <3> PICK base \in Nat, skip \in Nat : base = Base(entry) /\ skip = pos * PageBytes
      BY <1>3
    <3>2. (base + i) + P <= base + j
      BY ONLY <2>2, <2>4, skip = pos * PageBytes, skip \in Nat, base \in Nat, i \in Nat,
              j \in Nat, P \in Nat \ {0}
    <3> QED BY <3>1, <3>2
  <2> QED BY <2>1, <2>2, <2>3, <2>4
<1>11. ASSUME NEW k \in 1..M, NEW l \in 1..M, k < l
       PROVE  \E e, f \in DOMAIN mem.entries :
                /\ \E i \in Nat : Place(all, L + k, e, i)
                /\ \E j \in Nat : Place(all, L + l, f, j)
                /\ e < f \/ (e = f /\ all[L + k].addr + P <= all[L + l].addr)
  <2>1. new[k].addr + P <= new[l].addr
    BY <1>11 DEF OfChunk
  <2>2. all[L + k] = new[k] /\ all[L + l] = new[l]
    BY <1>4
  <2>3. all[L + k].addr + P <= all[L + l].addr
    BY <2>1, <2>2
  <2> QED BY <1>7, <2>3
<1>12. ASSUME NEW x \in 1..L + M, NEW y \in 1..L + M, x < y
       PROVE  \E e, f \in DOMAIN mem.entries :
                /\ \E i \in Nat : Place(all, x, e, i)
                /\ \E j \in Nat : Place(all, y, f, j)
                /\ e < f \/ (e = f /\ all[x].addr + P <= all[y].addr)
  <2>1. CASE x \in 1..L /\ y \in 1..L
    BY <1>9, <1>12, <2>1
  <2>2. CASE x \in 1..L /\ y \notin 1..L
    <3>1. PICK k \in 1..M : y = L + k
      BY <1>5, <2>2
    <3> QED BY <1>10, <2>2, <3>1
  <2>3. CASE x \notin 1..L
    <3>1. PICK k \in 1..M : x = L + k
      BY <1>5, <2>3
    <3>2. y \notin 1..L
      BY <1>12, <2>3
    <3>3. PICK l \in 1..M : y = L + l
      BY <1>5, <3>2
    <3>4. k < l
      BY <1>12, <3>1, <3>3
    <3> QED BY <1>11, <3>1, <3>3, <3>4
  <2> QED BY <2>1, <2>2, <2>3
<1>13. \A a : Covers(matches, a) \/ Covers(new, a) => Covers(all, a)
  <2> TAKE a
  <2>1. Covers(matches, a) => Covers(all, a)
    <3> SUFFICES ASSUME NEW x \in 1..L, matches[x].addr <= a, a < matches[x].addr + P
                 PROVE  Covers(all, a)
      BY DEF Covers
    <3>1. x \in DOMAIN all /\ all[x] = matches[x]
      BY <1>4
    <3> QED BY <3>1 DEF Covers
  <2>2. Covers(new, a) => Covers(all, a)
    <3> SUFFICES ASSUME NEW k \in 1..M, new[k].addr <= a, a < new[k].addr + P
                 PROVE  Covers(all, a)
      BY DEF Covers
    <3>1. L + k \in DOMAIN all /\ all[L + k] = new[k]
      BY <1>4
    <3> QED BY <3>1 DEF Covers
  <2> QED BY <2>1, <2>2
<1>14. ASSUME Complete(matches, entry, pos), NEW e \in DOMAIN mem.entries, NEW i \in Nat,
              Passed(c, p, e, i), Holds(e, i)
       PROVE  Crosses(i) \/ Covers(all, Base(e) + i)
  <2>1. CASE Passed(entry, pos, e, i)
    BY <1>13, <1>14, <2>1 DEF Complete
  <2>2. CASE ~Passed(entry, pos, e, i)
    <3>1. e = entry /\ i + P <= (pos + n) * PageBytes /\ Inside(e, i)
      BY <1>2, <1>14, <2>2
    <3>2. ~(i + P <= pos * PageBytes)
      BY <2>2, <3>1 DEF Passed
    <3>3. CASE i < pos * PageBytes
      BY <1>1, <3>2, <3>3, CrossesHere
    <3>4. CASE ~(i < pos * PageBytes)
      <4>1. pos * PageBytes <= i
        BY <1>3, <3>4
      <4>2. Covers(new, Base(entry) + i)
        BY <1>14, <3>1, <4>1 DEF OfChunk
      <4> QED BY <1>13, <3>1, <4>2
    <3> QED BY <3>3, <3>4
  <2> QED BY <2>1, <2>2
<1>15. Ordered(all)
  <2>1. DOMAIN all = 1..L + M
    BY <1>4
  <2> QED BY ONLY <1>12, <2>1, P = Len(ask.pattern) DEF Ordered
<1> QED BY <1>8, <1>14, <1>15 DEF Complete

LEMMA SearchStep == SearchInv /\ [DumpNext]_dumpVars => SearchInv'
<1> SUFFICES ASSUME SearchInv, [DumpNext]_dumpVars, ask'.search PROVE SearchedInv'
  BY ModeStep DEF SearchInv
<1>1. mem' = mem /\ ask' = ask /\ ask.search /\ ModeInv /\ TypeInv /\ SearchedInv
  <2>1. mem' = mem /\ ask' = ask
    BY DEF DumpNext, DumpCheck, ReadEntry, ReadEntryFails, DumpRow, EntryDumped, DumpEnds,
           SearchChunk, SearchCutShort, dumpVars
  <2> QED BY <2>1 DEF SearchInv, ModeInv
<1>2. TypeInv' /\ mem \in Memory /\ pos \in Nat /\ entry \in 1..Len(mem.entries) + 1
  <2>1. TypeInv'
    BY <1>1, TypeStep
  <2> QED BY <1>1, <2>1 DEF TypeInv, DumpTypeOK
<1> PICK N \in Nat : N = Len(mem.entries) /\ DOMAIN mem.entries = 1..N
  BY <1>2, EntriesType
<1>3. Offset' = Offset
  BY <1>1 DEF Offset
<1>4. CASE UNCHANGED <<entry, pos, matches>> /\ dumpPc' = dumpPc
  <2> PICK found, c, p : found = matches /\ c = entry /\ p = pos
    OBVIOUS
  <2>1. Sound(found, c, p) /\ Ordered(found)
        /\ (Offset[c] + p <= Len(mem.file) => Complete(found, c, p))
    BY <1>1 DEF SearchedInv
  <2>2. matches' = found /\ entry' = c /\ pos' = p
    BY <1>4
  <2>3. /\ Sound(matches, entry, pos)' /\ Ordered(matches)'
        /\ Complete(found, c, p) => Complete(matches, entry, pos)'
    BY <1>1, <2>1, <2>2, SearchPrimed
  <2> QED BY <1>1, <1>3, <1>4, <2>1, <2>2, <2>3 DEF SearchedInv
<1>5. CASE DumpCheck \/ DumpEnds
  <2>1. UNCHANGED <<entry, pos, matches>> /\ dumpPc' # "check"
        /\ (dumpPc' = "done" => dumpPc = "search" /\ entry > N)
    BY <1>1, <1>5 DEF DumpCheck, DumpEnds, ModeInv
  <2>2. dumpPc' = "done" => entry = N + 1 /\ pos = 0
    <3> SUFFICES ASSUME dumpPc' = "done" PROVE entry = N + 1 /\ pos = 0
      OBVIOUS
    <3>1. entry = N + 1 /\ entry \notin DOMAIN mem.entries
      BY <1>2, <2>1
    <3> QED BY <1>1, <2>1, <3>1 DEF TypeInv, SearchTypes, AtChunk
  <2> PICK found, c, p : found = matches /\ c = entry /\ p = pos
    OBVIOUS
  <2>3. Sound(found, c, p) /\ Ordered(found)
        /\ (Offset[c] + p <= Len(mem.file) => Complete(found, c, p))
    BY <1>1 DEF SearchedInv
  <2>4. /\ Sound(matches, entry, pos)' /\ Ordered(matches)'
        /\ Complete(found, c, p) => Complete(matches, entry, pos)'
    BY <1>1, <2>1, <2>3, SearchPrimed
  <2> QED BY <1>1, <1>3, <2>1, <2>2, <2>3, <2>4 DEF SearchedInv
<1>6. CASE SearchChunk
  <2>1. /\ entry \in DOMAIN mem.entries /\ AtChunk /\ dumpPc = "search" /\ dumpPc' = "search"
        /\ Offset[entry] + pos + ChunkSize <= Len(mem.file)
    <3>1. dumpPc = "search" /\ entry <= Len(mem.entries) /\ dumpPc' = dumpPc
          /\ Offset[entry] + pos + ChunkSize <= Len(mem.file)
      BY <1>6 DEF SearchChunk
    <3> QED BY <1>1, <1>2, <3>1 DEF TypeInv, SearchTypes
  <2> PICK n \in Nat \ {0} : n = ChunkSize /\ pos + n <= mem.entries[entry].pages
    BY <1>2, <2>1, ChunkSizes
  <2>2. ask \in Request /\ ask.pattern # <<>> /\ PagesApart(mem.entries)
    BY <1>1 DEF TypeInv, SearchTypes, DumpTypeOK
  <2> PICK new \in Seq(MatchType) : matches' = matches \o new /\ OfChunk(new, entry, pos, n)
    BY <1>2, <1>6, <2>1, <2>2, NewMatches
  <2> PICK c, p : IF pos + n < mem.entries[entry].pages THEN c = entry /\ p = pos + n
                                                         ELSE c = entry + 1 /\ p = 0
    <3>1. CASE pos + n < mem.entries[entry].pages
      BY <3>1
    <3>2. CASE ~(pos + n < mem.entries[entry].pages)
      BY <3>2
    <3> QED BY <3>1, <3>2
  <2>3. entry' = c /\ pos' = p
    BY <1>6 DEF SearchChunk, NextChunk
  <2> PICK all : all = matches \o new
    OBVIOUS
  <2>4. /\ Sound(all, c, p) /\ Ordered(all)
        /\ Complete(matches, entry, pos) => Complete(all, c, p)
    BY <1>1, <2>1, ChunkSearched DEF SearchedInv
  <2>5. matches' = all
    OBVIOUS
  <2>6. /\ Sound(matches, entry, pos)' /\ Ordered(matches)'
        /\ Complete(all, c, p) => Complete(matches, entry, pos)'
    BY <1>1, <2>3, <2>4, <2>5, SearchPrimed
  <2>7. Complete(matches, entry, pos)
    <3>1. Offset[entry] + pos <= Len(mem.file)
      <4>1. Offset[entry] \in Nat
        BY <1>2, <2>1, Offsets
      <4>2. Len(mem.file) \in Nat
        BY <1>2 DEF Memory
      <4>3. Offset[entry] + pos + n <= Len(mem.file)
        BY <2>1
      <4> QED BY ONLY <1>2, <4>1, <4>2, <4>3, n \in Nat \ {0}
    <3> QED BY <1>1, <3>1 DEF SearchedInv
  <2> QED BY <2>1, <2>4, <2>6, <2>7 DEF SearchedInv
<1>7. CASE SearchCutShort
  <2>1. /\ entry \in DOMAIN mem.entries /\ AtChunk /\ dumpPc = "search" /\ dumpPc' = "search"
        /\ Offset[entry] + pos + ChunkSize > Len(mem.file)
        /\ matches' = matches /\ entry' = entry + 1 /\ pos' = 0
    <3>1. dumpPc = "search" /\ entry <= Len(mem.entries) /\ dumpPc' = dumpPc
          /\ Offset[entry] + pos + ChunkSize > Len(mem.file)
          /\ matches' = matches /\ entry' = entry + 1 /\ pos' = 0
      BY <1>7 DEF SearchCutShort
    <3> QED BY <1>1, <1>2, <3>1 DEF TypeInv, SearchTypes
  <2> PICK n \in Nat \ {0} : n = ChunkSize /\ pos + n <= mem.entries[entry].pages
    BY <1>2, <2>1, ChunkSizes
  <2>2. ~(Offset'[entry'] + pos' <= Len(mem'.file))
    <3>1. Offset[entry] \in Nat /\ Offset[entry + 1] = Offset[entry] + mem.entries[entry].pages
      BY <1>2, <2>1, Offsets
    <3>2. Len(mem.file) \in Nat /\ mem.entries[entry].pages \in Nat
      BY <1>2, <2>1, EntriesType DEF Memory
    <3>3. Offset[entry + 1] + 0 > Len(mem.file)
      BY ONLY <1>2, <2>1, <3>1, <3>2, n \in Nat \ {0}, n = ChunkSize,
              pos + n <= mem.entries[entry].pages
    <3> QED BY <1>1, <1>3, <2>1, <3>1, <3>2, <3>3
  <2> PICK found, c, p : found = matches /\ c = entry + 1 /\ p = 0
    OBVIOUS
  <2>3. Sound(found, c, p) /\ Ordered(found)
    <3>1. Len(ask.pattern) \in Nat \ {0}
      BY <1>1, PatternLength
    <3>2. \A e \in DOMAIN mem.entries : \A i \in Nat :
            Passed(entry, pos, e, i) => Passed(c, p, e, i)
      <4>1. \A e \in 1..N : (e < entry \/ e = entry) => e < entry + 1
        BY <1>2
      <4> QED BY <1>2, <4>1 DEF Passed
    <3> QED BY <1>1, <3>2 DEF SearchedInv, Sound
  <2>4. matches' = found /\ entry' = c /\ pos' = p
    BY <2>1
  <2>5. Sound(matches, entry, pos)' /\ Ordered(matches)'
    BY <1>1, <2>3, <2>4, SearchPrimed
  <2> QED BY <2>1, <2>2, <2>5 DEF SearchedInv
<1>8. CASE UNCHANGED dumpVars
  BY <1>4, <1>8 DEF dumpVars
<1>9. ~(ReadEntry \/ ReadEntryFails \/ DumpRow \/ EntryDumped)
  BY <1>1 DEF ModeInv, ReadEntry, ReadEntryFails, DumpRow, EntryDumped
<1> QED BY <1>5, <1>6, <1>7, <1>8, <1>9 DEF DumpNext

(* For any memory, pagemap, pattern and size of pages and chunks: what the     *)
(* search reports is there and in order, and with all pages in the file it      *)
(* misses only what overlaps a result or crosses the border of two chunks.     *)
THEOREM SearchesExact == DumpSpec => []SearchExact
<1>1. SearchInv => SearchExact
  <2> SUFFICES ASSUME SearchInv, ask.search PROVE SearchExact
    BY DEF SearchExact
  <2>1. SearchedInv /\ TypeInv /\ mem \in Memory
    BY DEF SearchInv, ModeInv, TypeInv, DumpTypeOK
  <2> PICK P \in Nat \ {0} : P = Len(ask.pattern)
    BY <2>1, PatternLength
  <2> PICK N \in Nat : N = Len(mem.entries) /\ DOMAIN mem.entries = 1..N
    BY <2>1, EntriesType
  <2>2. ASSUME NEW x, NEW e \in DOMAIN mem.entries, NEW i \in Nat, Place(matches, x, e, i)
        PROVE  OccursIn(x, e)
    <3>1. mem.entries[e].pages * PageBytes \in Nat
      BY <2>1, EntriesType, PageSize, Times
    <3>2. i \in 0..mem.entries[e].pages * PageBytes - 1
      BY <2>2, <3>1 DEF Place, Inside
    <3> QED BY <2>2, <3>2 DEF Place, OccursIn
  <2>3. \A x \in DOMAIN matches : \E e \in DOMAIN mem.entries : OccursIn(x, e)
    BY <2>1, <2>2 DEF SearchedInv, Sound
  <2>4. \A x, y \in DOMAIN matches : x < y =>
          \E e, f \in DOMAIN mem.entries :
            /\ OccursIn(x, e) /\ OccursIn(y, f)
            /\ e < f \/ (e = f /\ matches[x].addr + Len(ask.pattern) <= matches[y].addr)
    BY <2>1, <2>2 DEF SearchedInv, Ordered
  <2>5. ASSUME dumpPc = "done", Offset[entry] <= Len(mem.file),
               NEW e \in DOMAIN mem.entries, NEW i \in 0..mem.entries[e].pages * PageBytes - 1,
               Inside(e, i), Holds(e, i)
        PROVE  Crosses(i) \/ Covers(matches, Base(e) + i)
    <3>1. entry = N + 1 /\ pos = 0
      BY <2>1, <2>5 DEF SearchedInv
    <3>2. Offset[entry] + pos <= Len(mem.file)
      <4>1. Offset[N + 1] \in Nat
        <5>1. CASE N = 0
          BY <2>1, <5>1, Offsets
        <5>2. CASE N # 0
          <6>1. N \in DOMAIN mem.entries
            BY <5>2
          <6>2. PICK o \in Nat, pages \in Nat :
                  o = Offset[N] /\ pages = mem.entries[N].pages /\ Offset[N + 1] = o + pages
            BY <2>1, <6>1, Offsets, EntriesType
          <6> QED BY <6>2
        <5> QED BY <5>1, <5>2
      <4> QED BY <2>5, <3>1, <4>1
    <3>3. Passed(entry, pos, e, i)
      BY <2>5, <3>1 DEF Passed
    <3>4. i \in Nat
      BY <2>1, EntriesType, PageSize, Times
    <3> QED BY <2>1, <2>5, <3>2, <3>3, <3>4 DEF SearchedInv, Complete
  <2> QED BY <2>3, <2>4, <2>5 DEF SearchExact, Crosses, Covers
<1> QED BY <1>1, SearchInit, SearchStep, PTL DEF DumpSpec
=============================================================================
