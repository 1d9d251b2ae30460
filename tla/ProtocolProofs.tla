---------------------------- MODULE ProtocolProofs ----------------------------
(***************************************************************************)
(* Facts about the operators of Protocol and Paths, which the proofs of    *)
(* the modules that parse, print and split texts rest on: numbers and      *)
(* their numerals, strtok's fields, and the two parts of a path.           *)
(***************************************************************************)
EXTENDS Protocol, Paths, SequenceTheorems, FiniteSetTheorems, WellFoundedInduction, TLAPS

-----------------------------------------------------------------------------
(* Numbers and texts *)

(***************************************************************************)
(* A set of numbers that is not empty has a lowest one.                    *)
(***************************************************************************)
LEMMA LowestExists ==
  ASSUME NEW S \in SUBSET Nat, S # {}
  PROVE  \E x \in S : \A y \in S : x <= y
<1> DEFINE Less == OpToRel(<, Nat)
<1>1. PICK x \in S : \A y \in S : <<y, x>> \notin Less
  <2>1. IsWellFoundedOn(Less, Nat)
    BY NatLessThanWellFounded, Zenon
  <2> HIDE DEF Less
  <2>2. QED
    BY <2>1, WFMin
<1>2. \A y \in S : ~(y < x)
  BY <1>1, Zenon DEF OpToRel
<1> HIDE DEF Less
<1>3. QED
  BY <1>2

\* Of an interval, the first.
LEMMA FirstExists ==
  ASSUME NEW a \in Nat, NEW b \in Nat, NEW S \in SUBSET (a .. b), S # {}
  PROVE  \E i \in S : \A j \in a .. i - 1 : j \notin S
<1>1. S \in SUBSET Nat
  OBVIOUS
<1>2. PICK i \in S : \A y \in S : i <= y
  BY <1>1, LowestExists
<1>3. \A j \in a .. i - 1 : j \notin S
  BY <1>1, <1>2
<1>4. QED
  BY <1>3

\* The powers of ten that a number of MaxDigits digits needs.
LEMMA PowerFacts == \A k \in 0 .. 9 : 10^k \in Nat /\ 10^k > 0
<1> SUFFICES ASSUME NEW k \in 0 .. 9 PROVE 10^k \in Nat /\ 10^k > 0
  OBVIOUS
<1>1. CASE k = 0
  <2>1. 10^0 = 1
    OBVIOUS
  <2>2. QED
    BY <1>1, <2>1
<1>2. CASE k = 1
  <2>1. 10^1 = 10
    OBVIOUS
  <2>2. QED
    BY <1>2, <2>1
<1>3. CASE k = 2
  <2>1. 10^2 = 100
    OBVIOUS
  <2>2. QED
    BY <1>3, <2>1
<1>4. CASE k = 3
  <2>1. 10^3 = 1000
    OBVIOUS
  <2>2. QED
    BY <1>4, <2>1
<1>5. CASE k = 4
  <2>1. 10^4 = 10000
    OBVIOUS
  <2>2. QED
    BY <1>5, <2>1
<1>6. CASE k = 5
  <2>1. 10^5 = 100000
    OBVIOUS
  <2>2. QED
    BY <1>6, <2>1
<1>7. CASE k = 6
  <2>1. 10^6 = 1000000
    OBVIOUS
  <2>2. QED
    BY <1>7, <2>1
<1>8. CASE k = 7
  <2>1. 10^7 = 10000000
    OBVIOUS
  <2>2. QED
    BY <1>8, <2>1
<1>9. CASE k = 8
  <2>1. 10^8 = 100000000
    OBVIOUS
  <2>2. QED
    BY <1>9, <2>1
<1>10. CASE k = 9
  <2>1. 10^9 = 1000000000
    OBVIOUS
  <2>2. QED
    BY <1>10, <2>1
<1>11. QED
  BY <1>1, <1>2, <1>3, <1>4, <1>5, <1>6, <1>7, <1>8, <1>9, <1>10

(***************************************************************************)
(* A number below the bound has a count of digits and a numeral.           *)
(***************************************************************************)
LEMMA DigitCountFacts ==
  ASSUME NEW n \in Nat, n < 10^MaxDigits
  PROVE  /\ DigitCount(n) \in 1 .. MaxDigits
         /\ n < 10^DigitCount(n)
         /\ DigitCount(n) = 1 \/ n >= 10^(DigitCount(n) - 1)
<1> DEFINE S == {k \in 1 .. 9 : n < 10^k}
<1>1. MaxDigits = 9
  BY DEF MaxDigits
<1>2. 9 \in S
  BY <1>1
<1>3. PICK k \in S : \A j \in 1 .. k - 1 : j \notin S
  <2>1. S \in SUBSET (1 .. 9) /\ S # {} /\ 1 \in Nat /\ 9 \in Nat
    BY <1>2
  <2> HIDE DEF S
  <2>2. QED
    BY <2>1, FirstExists
<1>4. k \in 1 .. MaxDigits /\ n < 10^k /\ (k = 1 \/ n >= 10^(k - 1))
  <2>1. k \in 1 .. 9 /\ n < 10^k
    BY <1>3
  <2>2. k # 1 => k - 1 \in 1 .. k - 1 /\ k - 1 \in 0 .. 9 /\ k - 1 \in 1 .. 9
    BY <2>1
  <2>3. k # 1 => ~(n < 10^(k - 1)) /\ 10^(k - 1) \in Nat
    BY <1>3, <2>2, PowerFacts
  <2>4. k # 1 => n >= 10^(k - 1)
    BY <2>3
  <2>5. QED
    BY <1>1, <2>1, <2>4
<1>5. QED
  BY <1>4 DEF DigitCount

-----------------------------------------------------------------------------
(* Numbers and their numerals *)

(***************************************************************************)
(* A digit stands for its value.                                           *)
(***************************************************************************)
LEMMA DigitFacts ==
  \A v \in 0 .. 9 : Digits[v + 1] \in ToSet(Digits) /\ DigitValue(Digits[v + 1]) = v
<1>1. \A v \in 0 .. 9, u \in 0 .. 9 : Digits[u + 1] = Digits[v + 1] => u = v
  BY DEF Digits
<1>2. ASSUME NEW v \in 0 .. 9 PROVE DigitValue(Digits[v + 1]) = v
  <2>1. \A u \in 0 .. 9 : Digits[u + 1] = Digits[v + 1] <=> u = v
    BY <1>1
  <2> HIDE DEF Digits
  <2>2. QED
    BY <2>1 DEF DigitValue
<1>3. \A v \in 0 .. 9 : Digits[v + 1] \in ToSet(Digits)
  BY DEF Digits, ToSet
<1>4. QED
  BY <1>2, <1>3

(***************************************************************************)
(* Ten times as much has one digit more.                                   *)
(***************************************************************************)
LEMMA PowerStep == \A k \in 1 .. 9 : 10^k = 10 * 10^(k - 1)
<1> SUFFICES ASSUME NEW k \in 1 .. 9 PROVE 10^k = 10 * 10^(k - 1)
  OBVIOUS
<1>1. /\ 10^0 = 1 /\ 10^1 = 10 /\ 10^2 = 100 /\ 10^3 = 1000 /\ 10^4 = 10000
      /\ 10^5 = 100000 /\ 10^6 = 1000000 /\ 10^7 = 10000000 /\ 10^8 = 100000000
      /\ 10^9 = 1000000000
  OBVIOUS
<1>2. k \in {1, 2, 3, 4, 5, 6, 7, 8, 9}
  OBVIOUS
<1>3. CASE k = 1
  <2>1. k - 1 = 0
    BY <1>3
  <2>2. QED
    BY <1>1, <1>3, <2>1
<1>4. CASE k = 2
  <2>1. k - 1 = 1
    BY <1>4
  <2>2. QED
    BY <1>1, <1>4, <2>1
<1>5. CASE k = 3
  <2>1. k - 1 = 2
    BY <1>5
  <2>2. QED
    BY <1>1, <1>5, <2>1
<1>6. CASE k = 4
  <2>1. k - 1 = 3
    BY <1>6
  <2>2. QED
    BY <1>1, <1>6, <2>1
<1>7. CASE k = 5
  <2>1. k - 1 = 4
    BY <1>7
  <2>2. QED
    BY <1>1, <1>7, <2>1
<1>8. CASE k = 6
  <2>1. k - 1 = 5
    BY <1>8
  <2>2. QED
    BY <1>1, <1>8, <2>1
<1>9. CASE k = 7
  <2>1. k - 1 = 6
    BY <1>9
  <2>2. QED
    BY <1>1, <1>9, <2>1
<1>10. CASE k = 8
  <2>1. k - 1 = 7
    BY <1>10
  <2>2. QED
    BY <1>1, <1>10, <2>1
<1>11. CASE k = 9
  <2>1. k - 1 = 8
    BY <1>11
  <2>2. QED
    BY <1>1, <1>11, <2>1
<1>12. QED
  BY <1>2, <1>3, <1>4, <1>5, <1>6, <1>7, <1>8, <1>9, <1>10, <1>11

(***************************************************************************)
(* A quotient by a power of ten and the next digit are the quotient by the *)
(* power before.                                                           *)
(***************************************************************************)
LEMMA QuotientStep ==
  ASSUME NEW n \in Nat, NEW m \in Nat, m > 0
  PROVE  n \div m = 10 * (n \div (10 * m)) + ((n \div m) % 10)
<1>1. PICK q \in Nat, r \in Nat : q = n \div m /\ r = n % m /\ n = m * q + r /\ r < m
  OBVIOUS
<1>2. PICK s \in Nat, d \in Nat : s = q \div 10 /\ d = q % 10 /\ q = 10 * s + d /\ d < 10
  OBVIOUS
<1>3. s = n \div (10 * m)
  <2>1. PICK M \in Nat : M = 10 * m /\ M > 0
    OBVIOUS
  <2>2. PICK z \in Nat, y \in Nat : z = n \div M /\ y = n % M /\ n = M * z + y /\ y < M
    BY <2>1
  <2>3. PICK x \in Nat : x = m * d + r
    OBVIOUS
  <2>4. m * d <= m * 9
    BY <1>2
  <2>5. x < M
    BY <1>1, <2>1, <2>3, <2>4
  <2>6. n = M * s + x
    <3>1. m * q = m * (10 * s + d)
      BY <1>2
    <3>2. m * (10 * s + d) = (10 * m) * s + m * d
      OBVIOUS
    <3>3. QED
      BY <1>1, <2>1, <2>3, <3>1, <3>2
  <2>7. s = z
    <3>1. CASE s < z
      <4>1. M * z >= M * (s + 1)
        BY <2>1, <3>1
      <4>2. M * (s + 1) = M * s + M
        OBVIOUS
      <4>3. QED
        BY <2>1, <2>2, <2>5, <2>6, <4>1, <4>2
    <3>2. CASE z < s
      <4>1. M * s >= M * (z + 1)
        BY <2>1, <3>2
      <4>2. M * (z + 1) = M * z + M
        OBVIOUS
      <4>3. QED
        BY <2>1, <2>2, <2>5, <2>6, <4>1, <4>2
    <3>3. QED
      BY <3>1, <3>2
  <2>8. QED
    BY <2>1, <2>2, <2>7
<1>4. QED
  BY <1>1, <1>2, <1>3

(***************************************************************************)
(* A numeral has at least one digit, and nothing but digits; each is that  *)
(* of its power of ten.                                                    *)
(***************************************************************************)
LEMMA NumeralDigits ==
  ASSUME NEW n \in Nat, n < 10^MaxDigits
  PROVE  /\ Numeral(n) \in Seq(ToSet(Digits))
         /\ Len(Numeral(n)) = DigitCount(n) /\ DigitCount(n) \in 1 .. 9
         /\ n < 10^DigitCount(n)
         /\ \A i \in 1 .. Len(Numeral(n)) :
              DigitValue(Numeral(n)[i]) = (n \div 10^(DigitCount(n) - i)) % 10
<1>1. PICK c : c = DigitCount(n)
  OBVIOUS
<1>2. c \in 1 .. 9 /\ n < 10^c
  BY <1>1, DigitCountFacts DEF MaxDigits
<1>3. ASSUME NEW i \in 1 .. c
      PROVE  (n \div 10^(c - i)) % 10 \in 0 .. 9
  <2>1. PICK m : m = 10^(c - i)
    OBVIOUS
  <2>2. c - i \in 0 .. 9
    BY <1>2, <1>3
  <2>3. m \in Nat /\ m > 0
    BY <2>1, <2>2, PowerFacts
  <2>4. PICK q \in Int : q = n \div m
    BY <2>3
  <2>5. q % 10 \in 0 .. 9
    OBVIOUS
  <2>6. QED
    BY <2>1, <2>4, <2>5
<1>4. Numeral(n) = [i \in 1 .. c |-> Digits[((n \div 10^(c - i)) % 10) + 1]]
  BY <1>1 DEF Numeral
<1>5. PICK s : s = Numeral(n)
  OBVIOUS
<1>6. \A i \in 1 .. c : /\ s[i] \in ToSet(Digits)
                        /\ DigitValue(s[i]) = (n \div 10^(c - i)) % 10
  <2> HIDE DEF Digits
  <2>1. QED
    BY <1>3, <1>4, <1>5, DigitFacts
<1>7. s = [i \in 1 .. c |-> s[i]] /\ c \in Nat
  BY <1>2, <1>4, <1>5
<1>8. s \in Seq(ToSet(Digits)) /\ Len(s) = c
  BY <1>6, <1>7, IsASeq
<1>9. QED
  BY <1>1, <1>2, <1>5, <1>6, <1>8

(***************************************************************************)
(* The digits of a numeral add up to its number: the sums of its first i   *)
(* digits are the quotients of the number by ever lower powers of ten.     *)
(***************************************************************************)
LEMMA NumeralValue ==
  ASSUME NEW n \in Nat, n < 10^MaxDigits
  PROVE  DigitsValue(Numeral(n)) = n
<1>1. PICK c, d : c = DigitCount(n) /\ d = Numeral(n)
  OBVIOUS
<1>2. /\ Len(d) = c /\ c \in 1 .. 9 /\ n < 10^c
      /\ \A i \in 1 .. c : DigitValue(d[i]) = (n \div 10^(c - i)) % 10
  BY <1>1, NumeralDigits
<1> DEFINE g == [i \in 0 .. c |-> n \div 10^(c - i)]
           Sums(f) == f = [i \in 0 .. c |-> IF i = 0 THEN 0 ELSE 10 * f[i - 1] + DigitValue(d[i])]
<1>3. \A i \in 0 .. c : 10^(c - i) \in Nat /\ 10^(c - i) > 0
  <2>1. \A i \in 0 .. c : c - i \in 0 .. 9
    BY <1>2
  <2>2. QED
    BY <2>1, PowerFacts
<1>4. g[0] = 0
  <2>1. PICK m \in Nat : m = 10^c
    BY <1>2, PowerFacts
  <2>2. n < m
    BY <1>2, <2>1
  <2>3. n \div m = 0
    BY <2>2
  <2>4. 0 \in 0 .. c /\ c - 0 = c
    BY <1>2
  <2>5. QED
    BY <2>1, <2>3, <2>4
<1>5. \A i \in 1 .. c : g[i] = 10 * g[i - 1] + DigitValue(d[i])
  <2> SUFFICES ASSUME NEW i \in 1 .. c
               PROVE  g[i] = 10 * g[i - 1] + DigitValue(d[i])
    OBVIOUS
  <2>1. PICK m \in Nat : m = 10^(c - i) /\ m > 0
    BY <1>3
  <2>2. c - i + 1 \in 1 .. 9 /\ (c - i + 1) - 1 = c - i /\ c - (i - 1) = c - i + 1
    BY <1>2
  <2>3. 10^(c - (i - 1)) = 10 * m
    BY <2>1, <2>2, PowerStep
  <2>4. n \div m = 10 * (n \div (10 * m)) + ((n \div m) % 10)
    BY <2>1, QuotientStep
  <2>5. i \in 0 .. c /\ i - 1 \in 0 .. c
    BY <1>2
  <2>6. g[i] = n \div m /\ g[i - 1] = n \div (10 * m)
    BY <2>1, <2>3, <2>5
  <2>7. DigitValue(d[i]) = (n \div m) % 10
    BY <1>2, <2>1
  <2> HIDE DEF g
  <2>8. QED
    BY <2>4, <2>6, <2>7
<1>6. Sums(g)
  <2>1. \A i \in 0 .. c : i # 0 => i \in 1 .. c
    BY <1>2
  <2>2. \A i \in 0 .. c : g[i] = IF i = 0 THEN 0 ELSE 10 * g[i - 1] + DigitValue(d[i])
    <3> HIDE DEF g
    <3>1. QED
      BY <1>4, <1>5, <2>1
  <2>3. g = [i \in 0 .. c |-> g[i]]
    OBVIOUS
  <2> HIDE DEF g
  <2>4. QED
    BY <2>2, <2>3
<1>7. PICK f : f = CHOOSE h : Sums(h)
  OBVIOUS
<1>8. Sums(f)
  <2> HIDE DEF Sums, g
  <2>1. QED
    BY <1>6, <1>7
<1>9. f[c] = g[c]
  <2> DEFINE S == {i \in 0 .. c : f[i] # g[i]}
  <2>1. S \in SUBSET Nat
    BY <1>2
  <2>2. SUFFICES ASSUME S # {} PROVE FALSE
    <3>1. c \in 0 .. c
      BY <1>2
    <3> HIDE DEF g
    <3>2. QED
      BY <3>1
  <2>3. PICK x \in S : \A y \in S : x <= y
    <3> HIDE DEF S
    <3>1. QED
      BY <2>1, <2>2, LowestExists
  <2>4. x \in 0 .. c /\ f[x] # g[x]
    BY <2>3
  <2>5. /\ f[x] = IF x = 0 THEN 0 ELSE 10 * f[x - 1] + DigitValue(d[x])
        /\ g[x] = IF x = 0 THEN 0 ELSE 10 * g[x - 1] + DigitValue(d[x])
    <3> HIDE DEF g
    <3>1. QED
      BY <1>6, <1>8, <2>4
  <2>6. x # 0
    BY <2>4, <2>5
  <2>7. x - 1 \in 0 .. c /\ ~(x <= x - 1)
    BY <1>2, <2>4, <2>6
  <2>8. f[x - 1] = g[x - 1]
    BY <2>3, <2>7
  <2> HIDE DEF g
  <2>9. QED
    BY <2>4, <2>5, <2>6, <2>8
<1>10. g[c] = n
  <2>1. c \in 0 .. c /\ c - c = 0 /\ 10^0 = 1
    BY <1>2
  <2>2. n \div 1 = n
    OBVIOUS
  <2>3. QED
    BY <2>1, <2>2
<1>11. DigitsValue(d) = f[c]
  BY <1>2, <1>7, Zenon DEF DigitsValue
<1>12. QED
  BY <1>1, <1>9, <1>10, <1>11

(***************************************************************************)
(* What sprintf prints with %ld, strtol reads back, for every number of    *)
(* at most MaxDigits digits (protocol.c:19-20, 128, 240).                  *)
(***************************************************************************)
THEOREM NumeralReadBack ==
  ASSUME NEW n \in Nat, n < 10^MaxDigits
  PROVE  StrToL(Numeral(n)) = n
<1>1. PICK d : d = Numeral(n)
  OBVIOUS
<1>2. d \in Seq(ToSet(Digits))
  BY <1>1, NumeralDigits
<1>3. {i \in 1 .. Len(d) : d[i] \notin ToSet(Digits)} = {}
  BY <1>2
<1>4. SelectInSeq(d, LAMBDA s : s \notin ToSet(Digits)) = 0
  BY <1>3 DEF SelectInSeq
<1>5. StrToL(d) = DigitsValue(d)
  BY <1>4 DEF StrToL
<1>6. QED
  BY <1>1, <1>5, NumeralValue

(***************************************************************************)
(* No digit and no command is a delimiter of fields or ends a string, and  *)
(* a command's string names it.                                            *)
(***************************************************************************)
Plain(s) == s \notin {Comma, NUL}

LEMMA PlainDigits == \A k \in 1 .. 10 : Plain(Digits[k])
<1>1. \A k \in 1 .. 10 : Digits[k] \in {"0", "1", "2", "3", "4", "5", "6", "7", "8", "9"}
  BY DEF Digits
<1>2. QED
  BY <1>1 DEF Plain, Comma, NUL

LEMMA CommandNames ==
  ASSUME NEW c \in ToSet(COMMAND_STRINGS)
  PROVE  /\ c # UNKNOWN /\ c # Comma /\ c # NUL
         /\ StrToCommandType(<<c>>) = c
<1>1. c = "WRITE" \/ c = "GET" \/ c = "RM" \/ c = "LS"
  BY DEF ToSet, COMMAND_STRINGS
<1>2. c # UNKNOWN /\ c # Comma /\ c # NUL
  BY <1>1 DEF UNKNOWN, Comma, NUL
<1>3. \A i \in 1 .. 4 : <<c>> # <<Digits[i]>>
  BY <1>1 DEF Digits
<1>4. \A i \in 1 .. 4 : <<c>> = <<COMMAND_STRINGS[i]>> <=> c = COMMAND_STRINGS[i]
  OBVIOUS
<1>5. \E i \in 1 .. 4 : c = COMMAND_STRINGS[i]
  BY <1>1 DEF COMMAND_STRINGS
<1>6. PICK named : named = {i \in 1 .. 4 : <<c>> \in {<<COMMAND_STRINGS[i]>>, <<Digits[i]>>}}
  OBVIOUS
<1>7. named = {i \in 1 .. 4 : c = COMMAND_STRINGS[i]}
  BY <1>3, <1>4, <1>6
<1>8. named # {} /\ c = COMMAND_STRINGS[CHOOSE i \in named : TRUE]
  BY <1>5, <1>7
<1>9. StrToCommandType(<<c>>) =
        IF named = {} THEN UNKNOWN ELSE COMMAND_STRINGS[CHOOSE i \in named : TRUE]
  BY <1>6 DEF StrToCommandType
<1>10. QED
  BY <1>2, <1>8, <1>9

-----------------------------------------------------------------------------
(* Fields *)

(***************************************************************************)
(* The three lowest of a finite set of numbers are those with one, two and *)
(* three numbers up to them.                                               *)
(***************************************************************************)
Rank(S, i) == Cardinality({j \in S : j <= i})
Nth(S, k) == CHOOSE i \in S : Rank(S, i) = k

LEMMA LowestThree ==
  ASSUME NEW S \in SUBSET Nat, NEW a \in S, NEW b \in S, NEW c \in S, NEW n \in Nat,
         a < b, b < c, \A i \in S : i <= n,
         \A i \in S : i <= c => i \in {a, b, c}
  PROVE  /\ Nth(S, 1) = a /\ Nth(S, 2) = b /\ Nth(S, 3) = c
         /\ Cardinality(S) \in Nat /\ Cardinality(S) >= 3
<1>1. IsFiniteSet(S) /\ IsFiniteSet({a}) /\ Cardinality({a}) = 1
  BY FS_BoundedSetOfNaturals, FS_Singleton
<1>2. IsFiniteSet({a, b}) /\ Cardinality({a, b}) = 2
  <2>1. {a, b} = {a} \cup {b} /\ b \notin {a}
    OBVIOUS
  <2>2. QED
    BY <1>1, <2>1, FS_AddElement
<1>3. IsFiniteSet({a, b, c}) /\ Cardinality({a, b, c}) = 3
  <2>1. {a, b, c} = {a, b} \cup {c} /\ c \notin {a, b}
    OBVIOUS
  <2>2. QED
    BY <1>2, <2>1, FS_AddElement
<1>0. a \in Nat /\ b \in Nat /\ c \in Nat /\ \A i \in S : i \in Nat
  OBVIOUS
<1>4. {j \in S : j <= a} = {a} /\ {j \in S : j <= b} = {a, b} /\ {j \in S : j <= c} = {a, b, c}
  <2>1. \A j \in S : /\ j <= a <=> j = a
                     /\ j <= b <=> j \in {a, b}
                     /\ j <= c <=> j \in {a, b, c}
    BY <1>0
  <2>2. QED
    BY <2>1
<1>5. Rank(S, a) = 1 /\ Rank(S, b) = 2 /\ Rank(S, c) = 3
  BY <1>1, <1>2, <1>3, <1>4 DEF Rank
<1>6. ASSUME NEW i \in S, i \notin {a, b, c}
      PROVE  Rank(S, i) \in Nat /\ Rank(S, i) >= 4
  <2>1. c <= i /\ a <= i /\ b <= i
    BY <1>0, <1>6
  <2>2. IsFiniteSet({a, b, c, i}) /\ Cardinality({a, b, c, i}) = 4
    <3>1. {a, b, c, i} = {a, b, c} \cup {i}
      OBVIOUS
    <3>2. QED
      BY <1>3, <1>6, <3>1, FS_AddElement
  <2>3. PICK T : T = {j \in S : j <= i}
    OBVIOUS
  <2>4. T \in SUBSET S /\ {a, b, c, i} \in SUBSET T
    BY <2>1, <2>3
  <2>5. IsFiniteSet(T)
    BY <1>1, <2>4, FS_Subset
  <2>6. Cardinality(T) \in Nat /\ 4 <= Cardinality(T)
    BY <2>2, <2>4, <2>5, FS_Subset, FS_CardinalityType
  <2>7. QED
    BY <2>3, <2>6 DEF Rank
<1>7. \A i \in S : /\ Rank(S, i) = 1 <=> i = a
                   /\ Rank(S, i) = 2 <=> i = b
                   /\ Rank(S, i) = 3 <=> i = c
  BY <1>5, <1>6
<1>8. Nth(S, 1) = a /\ Nth(S, 2) = b /\ Nth(S, 3) = c
  BY <1>7 DEF Nth
<1>9. Cardinality(S) \in Nat /\ 3 <= Cardinality(S)
  BY <1>1, <1>3, FS_Subset, FS_CardinalityType
<1>10. QED
  BY <1>8, <1>9

(***************************************************************************)
(* A part of a text is known by its symbols.                               *)
(***************************************************************************)
LEMMA PartIs ==
  ASSUME NEW A, NEW t \in Seq(A), NEW s \in Seq(A), NEW a \in 1 .. Len(t) + 1,
         a + Len(s) <= Len(t) + 1, \A i \in 1 .. Len(s) : t[a + i - 1] = s[i]
  PROVE  SubSeq(t, a, a + Len(s) - 1) = s
<1>1. PICK n \in Nat, k \in Nat, b \in Int : n = Len(t) /\ k = Len(s) /\ b = a + k - 1
  OBVIOUS
<1>2. a \in Int /\ b \in Int /\ \A i \in a .. b : i \in 1 .. n
  BY <1>1
<1>3. \A i \in a .. b : t[i] \in A
  BY <1>1, <1>2
<1>4. PICK x : x = SubSeq(t, a, b)
  OBVIOUS
<1>5. /\ SubSeq(t, a, b) \in Seq(A)
      /\ Len(SubSeq(t, a, b)) = IF a <= b THEN b - a + 1 ELSE 0
      /\ \A i \in 1 .. b - a + 1 : SubSeq(t, a, b)[i] = t[a + i - 1]
  BY ONLY <1>2, <1>3, SubSeqProperties
<1>6. b - a + 1 = k /\ (a <= b <=> k >= 1)
  BY <1>1
<1>7. x \in Seq(A) /\ Len(x) = k /\ \A i \in 1 .. k : x[i] = s[i]
  BY <1>1, <1>4, <1>5, <1>6
<1>8. x = s
  BY ONLY <1>1, <1>7, s \in Seq(A)
<1>9. QED
  BY <1>1, <1>4, <1>8

(***************************************************************************)
(* The first delimiter or end from some place on.                          *)
(***************************************************************************)
EndFrom(t, a, delim) == FirstFrom(t, a, LAMBDA c : c \in {delim, NUL})

LEMMA FieldEnd ==
  ASSUME NEW A, NEW t \in Seq(A), NEW a \in 1 .. Len(t) + 1, NEW e \in a .. Len(t) + 1, NEW delim,
         CharAt(t, e) \in {delim, NUL}, \A j \in a .. e - 1 : CharAt(t, j) \notin {delim, NUL}
  PROVE  EndFrom(t, a, delim) = e
<1>1. PICK n \in Nat : n = Len(t)
  OBVIOUS
<1>2. \A i \in a .. n + 1 : i # e => i \in a .. e - 1 \/ e \in a .. i - 1
  BY <1>1
<1>3. \A i \in a .. n + 1 :
        /\ CharAt(t, i) \in {delim, NUL}
        /\ \A j \in a .. i - 1 : ~(CharAt(t, j) \in {delim, NUL})
        <=> i = e
  BY <1>1, <1>2
<1>4. QED
  BY <1>1, <1>3 DEF FirstFrom, EndFrom

(***************************************************************************)
(* Two texts one after the other.                                          *)
(***************************************************************************)
LEMMA Joins ==
  ASSUME NEW A, NEW a \in Seq(A), NEW b \in Seq(A), NEW t, t = a \o b
  PROVE  /\ t \in Seq(A) /\ Len(t) = Len(a) + Len(b)
         /\ \A i \in 1 .. Len(a) : t[i] = a[i]
         /\ \A i \in 1 .. Len(b) : t[Len(a) + i] = b[i]
<1>1. PICK m \in Nat, n \in Nat : m = Len(a) /\ n = Len(b)
  OBVIOUS
<1>2. /\ t \in Seq(A) /\ Len(t) = m + n
      /\ \A i \in 1 .. m + n : t[i] = IF i <= m THEN a[i] ELSE b[i - m]
  BY <1>1, ConcatProperties
<1>3. \A i \in 1 .. m : i \in 1 .. m + n /\ i <= m
  OBVIOUS
<1>4. \A i \in 1 .. n : m + i \in 1 .. m + n /\ ~(m + i <= m) /\ m + i - m = i
  OBVIOUS
<1>5. QED
  BY <1>1, <1>2, <1>3, <1>4

(***************************************************************************)
(* What serializeRequest and serializeResponse make: a word, a number and  *)
(* the rest, between commas.                                               *)
(***************************************************************************)
Laid(A, t, word, num, rest) ==
  /\ t \in Seq(A) /\ num \in Seq(A) /\ rest \in Seq(A)
  /\ Len(t) = Len(num) + Len(rest) + 3
  /\ t[1] = word /\ t[2] = Comma /\ t[Len(num) + 3] = Comma
  /\ \A i \in 1 .. Len(num) : t[i + 2] = num[i]
  /\ \A i \in 1 .. Len(rest) : t[Len(num) + 3 + i] = rest[i]

LEMMA Serialized ==
  ASSUME NEW A, Comma \in A, NEW word \in A, NEW num \in Seq(A), NEW rest \in Seq(A)
  PROVE  Laid(A, <<word, Comma>> \o num \o <<Comma>> \o rest, word, num, rest)
<1> HIDE DEF Comma
<1>1. PICK m \in Nat, n \in Nat : m = Len(num) /\ n = Len(rest)
  OBVIOUS
<1>2. PICK p : p = <<word, Comma>>
  OBVIOUS
<1>3. p \in Seq(A) /\ Len(p) = 2 /\ p[1] = word /\ p[2] = Comma
  BY <1>2
<1>4. PICK q : q = p \o num
  OBVIOUS
<1>5. /\ q \in Seq(A) /\ Len(q) = 2 + m
      /\ \A i \in 1 .. 2 : q[i] = p[i]
      /\ \A i \in 1 .. m : q[2 + i] = num[i]
  <2>1. p \in Seq(A)
    BY <1>3
  <2>2. /\ q \in Seq(A) /\ Len(q) = Len(p) + Len(num)
        /\ \A i \in 1 .. Len(p) : q[i] = p[i]
        /\ \A i \in 1 .. Len(num) : q[Len(p) + i] = num[i]
    BY <1>4, <2>1, Joins
  <2>3. QED
    BY <1>1, <1>3, <2>2
<1>6. PICK r, o : r = q \o o /\ o = <<Comma>>
  OBVIOUS
<1>7. o \in Seq(A) /\ Len(o) = 1 /\ o[1] = Comma
  BY <1>6
<1>8. /\ r \in Seq(A) /\ Len(r) = (2 + m) + 1
      /\ \A i \in 1 .. 2 + m : r[i] = q[i]
      /\ \A i \in 1 .. 1 : r[2 + m + i] = o[i]
  BY <1>1, <1>5, <1>6, <1>7, Joins
<1>9. PICK t : t = r \o rest
  OBVIOUS
<1>10. /\ t \in Seq(A) /\ Len(t) = (3 + m) + n
       /\ \A i \in 1 .. 3 + m : t[i] = r[i]
       /\ \A i \in 1 .. n : t[3 + m + i] = rest[i]
  <2>1. r \in Seq(A)
    BY <1>8
  <2>2. QED
    <3>1. /\ t \in Seq(A) /\ Len(t) = Len(r) + Len(rest)
          /\ \A i \in 1 .. Len(r) : t[i] = r[i]
          /\ \A i \in 1 .. Len(rest) : t[Len(r) + i] = rest[i]
      BY <1>9, <2>1, Joins
    <3>2. QED
      BY <1>1, <1>8, <3>1
<1>11. t[1] = word /\ t[2] = Comma
  BY <1>3, <1>5, <1>8, <1>10
<1>12. t[m + 3] = Comma
  <2>1. m + 3 = 2 + m + 1 /\ m + 3 \in 1 .. 3 + m /\ 1 \in 1 .. 1
    OBVIOUS
  <2>2. QED
    BY <1>7, <1>8, <1>10, <2>1
<1>13. \A i \in 1 .. m : t[i + 2] = num[i]
  <2>1. \A i \in 1 .. m : i + 2 = 2 + i /\ 2 + i \in 1 .. 2 + m /\ 2 + i \in 1 .. 3 + m
    OBVIOUS
  <2>2. QED
    BY <1>5, <1>8, <1>10, <2>1
<1>14. \A i \in 1 .. n : t[m + 3 + i] = rest[i]
  <2>1. \A i \in 1 .. n : m + 3 + i = 3 + m + i
    OBVIOUS
  <2>2. QED
    BY <1>10, <2>1
<1>15. t = <<word, Comma>> \o num \o <<Comma>> \o rest
  BY <1>2, <1>4, <1>6, <1>9
<1>16. Laid(A, t, word, num, rest)
  BY <1>1, <1>10, <1>11, <1>12, <1>13, <1>14 DEF Laid
<1>17. QED
  BY <1>15, <1>16

(***************************************************************************)
(* Where the word, the number and the rest are.                            *)
(***************************************************************************)
PartsOf(t, word, num, rest, e) ==
  LET m == Len(num)
  IN /\ SubSeq(t, 1, 2 - 1) = <<word>>
     /\ SubSeq(t, 3, (m + 3) - 1) = num
     /\ SubSeq(t, m + 4, (m + 3 + e) - 1) = SubSeq(rest, 1, e - 1)

LEMMA LineParts ==
  ASSUME NEW A, NEW t, NEW word, NEW num, NEW rest, Laid(A, t, word, num, rest),
         NEW e \in 2 .. Len(rest) + 1
  PROVE  PartsOf(t, word, num, rest, e)
<1>1. PICK m \in Nat : m = Len(num)
  BY DEF Laid
<1>n. PICK n \in Nat : n = Len(rest)
  BY DEF Laid
<1>2. /\ Len(t) = m + n + 3 /\ t[1] = word
      /\ \A i \in 1 .. m : t[i + 2] = num[i]
      /\ \A i \in 1 .. n : t[m + 3 + i] = rest[i]
      /\ t \in Seq(A) /\ num \in Seq(A) /\ rest \in Seq(A)
  BY <1>1, <1>n DEF Laid
<1>3. SubSeq(t, 1, 2 - 1) = <<word>>
  <2>1. PICK w : w = <<word>>
    OBVIOUS
  <2>2. word \in A
    <3>1. 1 \in 1 .. Len(t)
      BY <1>2
    <3>2. QED
      BY <1>2, <3>1
  <2>3. w \in Seq(A) /\ Len(w) = 1 /\ w[1] = word
    BY <2>1, <2>2
  <2>4. /\ 1 \in 1 .. Len(t) + 1 /\ 1 + Len(w) <= Len(t) + 1
        /\ \A i \in 1 .. Len(w) : t[1 + i - 1] = w[i]
    BY <1>2, <2>3
  <2>5. SubSeq(t, 1, 1 + Len(w) - 1) = w
    BY <1>2, <2>3, <2>4, PartIs
  <2>6. 1 + Len(w) - 1 = 2 - 1
    BY <2>3
  <2>7. QED
    BY <2>1, <2>5, <2>6
<1>4. SubSeq(t, 3, (m + 3) - 1) = num
  <2>1. /\ 3 \in 1 .. Len(t) + 1 /\ 3 + Len(num) <= Len(t) + 1
    BY <1>1, <1>n, <1>2
  <2>2. \A i \in 1 .. Len(num) : t[3 + i - 1] = num[i]
    <3>1. \A i \in 1 .. Len(num) : i \in 1 .. m /\ 3 + i - 1 = i + 2
      BY <1>1, <1>n
    <3>2. QED
      BY <1>2, <3>1
  <2>3. SubSeq(t, 3, 3 + Len(num) - 1) = num
    BY <1>2, <2>1, <2>2, PartIs
  <2>4. 3 + Len(num) - 1 = (m + 3) - 1
    BY <1>1, <1>n
  <2>5. QED
    BY <2>3, <2>4
<1>5. SubSeq(t, m + 4, (m + 3 + e) - 1) = SubSeq(rest, 1, e - 1)
  <2>1. PICK s : s = SubSeq(rest, 1, e - 1)
    OBVIOUS
  <2>2. s \in Seq(A) /\ Len(s) = e - 1 /\ \A i \in 1 .. e - 1 : s[i] = rest[i]
    <3>1. /\ 1 \in Int /\ e - 1 \in Int /\ 1 <= e - 1 /\ (e - 1) - 1 + 1 = e - 1
          /\ \A i \in 1 .. e - 1 : i \in 1 .. n /\ 1 + i - 1 = i
      BY <1>1, <1>n
    <3>2. \A i \in 1 .. e - 1 : rest[i] \in A
      BY <1>1, <1>n, <1>2, <3>1
    <3>3. /\ SubSeq(rest, 1, e - 1) \in Seq(A)
          /\ Len(SubSeq(rest, 1, e - 1)) = IF 1 <= e - 1 THEN (e - 1) - 1 + 1 ELSE 0
          /\ \A i \in 1 .. (e - 1) - 1 + 1 : SubSeq(rest, 1, e - 1)[i] = rest[1 + i - 1]
      BY <3>1, <3>2, SubSeqProperties
    <3>4. QED
      BY <2>1, <3>1, <3>3
  <2>3. /\ m + 4 \in 1 .. Len(t) + 1 /\ m + 4 + Len(s) <= Len(t) + 1
    BY <1>1, <1>n, <1>2, <2>2
  <2>4. \A i \in 1 .. Len(s) : t[m + 4 + i - 1] = s[i]
    <3>1. \A i \in 1 .. Len(s) : i \in 1 .. n /\ i \in 1 .. e - 1 /\ m + 4 + i - 1 = m + 3 + i
      BY <1>1, <1>n, <2>2
    <3>2. QED
      BY <1>2, <2>2, <3>1
  <2>5. SubSeq(t, m + 4, m + 4 + Len(s) - 1) = s
    BY <1>2, <2>2, <2>3, <2>4, PartIs
  <2>6. m + 4 + Len(s) - 1 = (m + 3 + e) - 1
    BY <2>2
  <2>7. QED
    BY <2>1, <2>5, <2>6
<1>6. QED
  BY <1>1, <1>3, <1>4, <1>5 DEF PartsOf

(***************************************************************************)
(* The first three fields of such a text are its word, its number and the  *)
(* rest up to the first delimiter.                                         *)
(***************************************************************************)
PlainLine(A, t, word, num, rest) ==
  /\ Laid(A, t, word, num, rest)
  /\ Plain(word)
  /\ Len(num) >= 1 /\ \A i \in 1 .. Len(num) : Plain(num[i])
  /\ Len(rest) >= 1 /\ Plain(rest[1])

StartsIn(t) == {i \in 1 .. Len(t) : t[i] # Comma /\ CharAt(t, i - 1) \in {Comma, NUL}}

LEMMA LineStarts ==
  ASSUME NEW A, NEW t, NEW word, NEW num, NEW rest, PlainLine(A, t, word, num, rest)
  PROVE  /\ Nth(StartsIn(t), 1) = 1 /\ Nth(StartsIn(t), 2) = 3
         /\ Nth(StartsIn(t), 3) = Len(num) + 4
         /\ Cardinality(StartsIn(t)) \in Nat /\ Cardinality(StartsIn(t)) >= 3
<1>1. PICK m \in Nat, n \in Nat : m = Len(num) /\ n = Len(rest)
  BY DEF PlainLine, Laid
<1>2. /\ Len(t) = m + n + 3 /\ m >= 1 /\ n >= 1
      /\ t[1] = word /\ t[2] = Comma /\ t[m + 3] = Comma
      /\ \A i \in 1 .. m : t[i + 2] = num[i] /\ Plain(num[i])
      /\ \A i \in 1 .. n : t[m + 3 + i] = rest[i]
      /\ Plain(rest[1]) /\ Plain(word)
  BY <1>1 DEF PlainLine, Laid
<1>3. PICK S : S = StartsIn(t)
  OBVIOUS
<1>4. \A i \in 1 .. m + n + 3 :
        i \in S <=> t[i] # Comma /\ CharAt(t, i - 1) \in {Comma, NUL}
  BY <1>2, <1>3 DEF StartsIn
<1>5. \A i \in 1 .. m + n + 3 : CharAt(t, i) = t[i]
  BY <1>2 DEF CharAt
<1>6. 1 \in S
  <2>1. CharAt(t, 0) = NUL /\ 1 - 1 = 0 /\ 1 \in 1 .. m + n + 3
    BY <1>2 DEF CharAt
  <2>2. t[1] # Comma
    BY <1>2 DEF Plain
  <2>3. QED
    BY <1>4, <2>1, <2>2
<1>7. 3 \in S /\ 2 \notin S
  <2>1. CharAt(t, 2) = Comma /\ 3 - 1 = 2 /\ 3 \in 1 .. m + n + 3 /\ 2 \in 1 .. m + n + 3
    BY <1>2, <1>5
  <2>2. t[3] # Comma
    <3>1. 1 \in 1 .. m /\ 1 + 2 = 3
      BY <1>2
    <3>2. QED
      BY <1>2, <3>1 DEF Plain
  <2>3. QED
    BY <1>2, <1>4, <2>1, <2>2
<1>8. \A i \in 4 .. m + 3 : i \notin S
  <2> SUFFICES ASSUME NEW i \in 4 .. m + 3 PROVE i \notin S
    OBVIOUS
  <2>1. i - 3 \in 1 .. m /\ (i - 3) + 2 = i - 1 /\ i - 1 \in 1 .. m + n + 3 /\ i \in 1 .. m + n + 3
    OBVIOUS
  <2>2. t[i - 1] = num[i - 3] /\ Plain(num[i - 3])
    BY <1>2, <2>1
  <2>3. CharAt(t, i - 1) \notin {Comma, NUL}
    BY <1>5, <2>1, <2>2 DEF Plain
  <2>4. QED
    BY <1>4, <2>1, <2>3
<1>9. m + 4 \in S
  <2>1. /\ m + 4 \in 1 .. m + n + 3 /\ (m + 4) - 1 = m + 3 /\ m + 3 \in 1 .. m + n + 3
        /\ 1 \in 1 .. n /\ m + 3 + 1 = m + 4
    BY <1>2
  <2>2. t[m + 4] # Comma
    BY <1>2, <2>1 DEF Plain
  <2>3. CharAt(t, (m + 4) - 1) = Comma
    BY <1>2, <1>5, <2>1
  <2>4. QED
    BY <1>4, <2>1, <2>2, <2>3
<1>10. S \in SUBSET Nat /\ \A i \in S : i <= m + n + 3
  BY <1>2, <1>3 DEF StartsIn
<1>11. \A i \in S : i <= m + 4 => i \in {1, 3, m + 4}
  <2> SUFFICES ASSUME NEW i \in S, i <= m + 4 PROVE i \in {1, 3, m + 4}
    OBVIOUS
  <2>1. i \in 1 .. m + 4
    BY <1>2, <1>3 DEF StartsIn
  <2>2. i \notin 4 .. m + 3 /\ i # 2
    BY <1>7, <1>8
  <2>3. QED
    BY <2>1, <2>2
<1>12. /\ 1 \in S /\ 3 \in S /\ m + 4 \in S /\ 1 < 3 /\ 3 < m + 4 /\ m + n + 3 \in Nat
  BY <1>2, <1>6, <1>7, <1>9
<1>13. /\ Nth(S, 1) = 1 /\ Nth(S, 2) = 3 /\ Nth(S, 3) = m + 4
       /\ Cardinality(S) \in Nat /\ Cardinality(S) >= 3
  BY ONLY <1>10, <1>11, <1>12, LowestThree
<1>14. QED
  BY <1>1, <1>3, <1>13

FieldsAre(fields, word, num, rest, e) ==
  /\ Len(fields) \in Nat /\ Len(fields) >= 3
  /\ fields[1] = <<word>> /\ fields[2] = num /\ fields[3] = SubSeq(rest, 1, e - 1)

LEMMA LineFields ==
  ASSUME NEW A, NEW t, NEW word, NEW num, NEW rest, PlainLine(A, t, word, num, rest),
         NEW e \in 2 .. Len(rest) + 1, CharAt(rest, e) \in {Comma, NUL},
         \A j \in 1 .. e - 1 : Plain(rest[j])
  PROVE  FieldsAre(Fields(t, Comma), word, num, rest, e)
<1>0. PICK fields : fields = Fields(t, Comma)
  OBVIOUS
<1>1. PICK m \in Nat, n \in Nat : m = Len(num) /\ n = Len(rest)
  BY DEF PlainLine, Laid
<1>2. /\ Len(t) = m + n + 3 /\ m >= 1 /\ n >= 1
      /\ t[1] = word /\ t[2] = Comma /\ t[m + 3] = Comma
      /\ \A i \in 1 .. m : t[i + 2] = num[i] /\ Plain(num[i])
      /\ \A i \in 1 .. n : t[m + 3 + i] = rest[i]
      /\ Plain(word)
      /\ t \in Seq(A) /\ num \in Seq(A) /\ rest \in Seq(A)
  BY <1>1 DEF PlainLine, Laid
<1>3. \A i \in 1 .. m + n + 3 : CharAt(t, i) = t[i]
  BY <1>2 DEF CharAt
<1>t. t \in Seq(A)
  BY <1>2
<1>4. EndFrom(t, 1, Comma) = 2
  <2>1. 1 \in 1 .. Len(t) + 1 /\ 2 \in 1 .. Len(t) + 1
    BY <1>2
  <2>2. CharAt(t, 2) \in {Comma, NUL}
    BY <1>2, <1>3
  <2>3. \A j \in 1 .. 2 - 1 : CharAt(t, j) \notin {Comma, NUL}
    BY <1>2, <1>3 DEF Plain
  <2>4. QED
    BY ONLY <1>t, <2>1, <2>2, <2>3, FieldEnd
<1>5. EndFrom(t, 3, Comma) = m + 3
  <2>1. 3 \in 1 .. Len(t) + 1 /\ m + 3 \in 3 .. Len(t) + 1
    BY <1>2
  <2>2. CharAt(t, m + 3) \in {Comma, NUL}
    BY <1>2, <1>3
  <2>3. \A j \in 3 .. (m + 3) - 1 : CharAt(t, j) \notin {Comma, NUL}
    <3> SUFFICES ASSUME NEW j \in 3 .. (m + 3) - 1 PROVE CharAt(t, j) \notin {Comma, NUL}
      OBVIOUS
    <3>1. j - 2 \in 1 .. m /\ (j - 2) + 2 = j /\ j \in 1 .. m + n + 3
      OBVIOUS
    <3>2. t[j] = num[j - 2] /\ Plain(num[j - 2])
      BY <1>2, <3>1
    <3>3. QED
      BY <1>3, <3>1, <3>2 DEF Plain
  <2>4. QED
    BY ONLY <1>t, <2>1, <2>2, <2>3, FieldEnd
<1>6. EndFrom(t, m + 4, Comma) = m + 3 + e
  <2>1. m + 4 \in 1 .. Len(t) + 1 /\ m + 3 + e \in m + 4 .. Len(t) + 1
    BY <1>1, <1>2
  <2>2. CharAt(t, m + 3 + e) = CharAt(rest, e)
    <3>1. CASE e \in 1 .. n
      <4>1. m + 3 + e \in 1 .. m + n + 3
        BY <1>2, <3>1
      <4>2. QED
        BY <1>1, <1>2, <1>3, <3>1, <4>1 DEF CharAt
    <3>2. CASE e = n + 1
      <4>1. m + 3 + e \notin 1 .. m + n + 3 /\ e \notin 1 .. n
        BY <1>2, <3>2
      <4>2. QED
        BY <1>1, <1>2, <4>1 DEF CharAt
    <3>3. QED
      BY <1>1, <3>1, <3>2
  <2>3. \A j \in m + 4 .. (m + 3 + e) - 1 : CharAt(t, j) \notin {Comma, NUL}
    <3> SUFFICES ASSUME NEW j \in m + 4 .. (m + 3 + e) - 1 PROVE CharAt(t, j) \notin {Comma, NUL}
      OBVIOUS
    <3>1. /\ j - (m + 3) \in 1 .. n /\ m + 3 + (j - (m + 3)) = j /\ j \in 1 .. m + n + 3
          /\ j - (m + 3) \in 1 .. e - 1
      BY <1>1, <1>2
    <3>2. t[j] = rest[j - (m + 3)] /\ Plain(rest[j - (m + 3)])
      BY <1>2, <3>1
    <3>3. QED
      BY <1>3, <3>1, <3>2 DEF Plain
  <2>4. CharAt(t, m + 3 + e) \in {Comma, NUL}
    BY <2>2
  <2>5. QED
    BY ONLY <1>t, <2>1, <2>3, <2>4, FieldEnd
<1>7. PICK S, c : S = StartsIn(t) /\ c = Cardinality(S)
  OBVIOUS
<1>8. /\ Nth(S, 1) = 1 /\ Nth(S, 2) = 3 /\ Nth(S, 3) = m + 4 /\ c \in Nat /\ c >= 3
  BY <1>1, <1>7, LineStarts
<1>9. fields = [k \in 1 .. c |-> SubSeq(t, Nth(S, k), EndFrom(t, Nth(S, k), Comma) - 1)]
  BY <1>0, <1>7 DEF Fields, StartsIn, Nth, Rank, EndFrom
<1>10. Len(fields) = c /\ 1 \in 1 .. c /\ 2 \in 1 .. c /\ 3 \in 1 .. c
  BY <1>8, <1>9
<1>11. /\ fields[1] = SubSeq(t, 1, 2 - 1) /\ fields[2] = SubSeq(t, 3, (m + 3) - 1)
       /\ fields[3] = SubSeq(t, m + 4, (m + 3 + e) - 1)
  BY <1>4, <1>5, <1>6, <1>8, <1>9, <1>10
<1>12. /\ SubSeq(t, 1, 2 - 1) = <<word>> /\ SubSeq(t, 3, (m + 3) - 1) = num
       /\ SubSeq(t, m + 4, (m + 3 + e) - 1) = SubSeq(rest, 1, e - 1)
  <2>1. Laid(A, t, word, num, rest)
    BY DEF PlainLine
  <2>2. PartsOf(t, word, num, rest, e)
    BY <2>1, LineParts
  <2>3. QED
    BY <1>1, <2>2 DEF PartsOf
<1>13. QED
  BY <1>0, <1>8, <1>10, <1>11, <1>12 DEF FieldsAre

-----------------------------------------------------------------------------
(* One call of strtok *)

(***************************************************************************)
(* A call that starts at a field ends it with a NUL, and a call at the end *)
(* finds nothing.                                                          *)
(***************************************************************************)
LEMMA CallAtField ==
  ASSUME NEW A, NEW t \in Seq(A), NEW a \in 1 .. Len(t), NEW e \in a + 1 .. Len(t) + 1, NEW delim,
         delim # NUL, \A j \in a .. e - 1 : t[j] \notin {delim, NUL},
         CharAt(t, e) \in {delim, NUL}
  PROVE  Strtok(t, a, delim) =
           IF CharAt(t, e) = NUL THEN [token |-> a, next |-> e, text |-> t]
           ELSE [token |-> a, next |-> e + 1, text |-> [t EXCEPT ![e] = NUL]]
<1>1. PICK n \in Nat : n = Len(t)
  OBVIOUS
<1>2. PICK start : start = FirstFrom(t, a, LAMBDA c : c # delim)
  OBVIOUS
<1>3. \A j \in a .. e - 1 : CharAt(t, j) \notin {delim, NUL}
  BY <1>1 DEF CharAt
<1>4. CharAt(t, a) \notin {delim, NUL}
  BY <1>1, <1>3
<1>5. start = a
  <2>1. /\ a \in a .. Len(t) + 1
        /\ \A i \in a .. Len(t) + 1 : i # a => a \in a .. i - 1
        /\ a .. a - 1 = {}
    BY <1>1
  <2>2. QED
    BY <1>2, <1>4, <2>1 DEF FirstFrom
<1>6. PICK end : end = EndFrom(t, start, delim)
  OBVIOUS
<1>7. end = e
  <2>1. a \in 1 .. Len(t) + 1 /\ e \in a .. Len(t) + 1 /\ t \in Seq(A)
    BY <1>1
  <2>2. EndFrom(t, a, delim) = e
    BY ONLY <1>3, <2>1, CharAt(t, e) \in {delim, NUL}, FieldEnd
  <2>3. QED
    BY <1>5, <1>6, <2>2
<1>8. Strtok(t, a, delim) =
        IF CharAt(t, start) = NUL THEN [token |-> 0, next |-> start, text |-> t]
        ELSE IF CharAt(t, end) = NUL THEN [token |-> start, next |-> end, text |-> t]
        ELSE [token |-> start, next |-> end + 1, text |-> [t EXCEPT ![end] = NUL]]
  BY <1>2, <1>6 DEF Strtok, EndFrom
<1>9. QED
  BY <1>4, <1>5, <1>7, <1>8

LEMMA CallAtEnd ==
  ASSUME NEW A, NEW t \in Seq(A), NEW delim, delim # NUL
  PROVE  Strtok(t, Len(t) + 1, delim) = [token |-> 0, next |-> Len(t) + 1, text |-> t]
<1>1. PICK n \in Nat : n = Len(t)
  OBVIOUS
<1>2. PICK start : start = FirstFrom(t, n + 1, LAMBDA c : c # delim)
  OBVIOUS
<1>3. CharAt(t, n + 1) = NUL
  BY <1>1 DEF CharAt
<1>4. start = n + 1
  <2>1. n + 1 .. n + 1 = {n + 1} /\ n + 1 .. (n + 1) - 1 = {}
    OBVIOUS
  <2>2. QED
    BY <1>1, <1>2, <1>3, <2>1 DEF FirstFrom
<1>5. QED
  BY <1>1, <1>2, <1>3, <1>4 DEF Strtok

-----------------------------------------------------------------------------
(* The two parts of a path *)

(***************************************************************************)
(* The last slash is one, and none is after it; 0 when there is none.      *)
(***************************************************************************)
LEMMA LastSlashFacts ==
  ASSUME NEW A, NEW p \in Seq(A)
  PROVE  /\ LastSlash(p) \in 0 .. Len(p)
         /\ LastSlash(p) # 0 => p[LastSlash(p)] = Slash
         /\ \A i \in 1 .. Len(p) : p[i] = Slash => i <= LastSlash(p)
<1> DEFINE S == {0} \cup {i \in 1 .. Len(p) : p[i] = Slash}
<1>1. PICK n \in Nat : n = Len(p)
  OBVIOUS
<1>2. S \subseteq 0 .. n /\ 0 \in S
  BY <1>1
<1> DEFINE T == {n - i : i \in S}
<1>3. T \in SUBSET Nat /\ T # {}
  BY <1>2
<1>4. PICK t \in T : \A u \in T : t <= u
  <2> HIDE DEF T
  <2>1. QED
    BY <1>3, LowestExists
<1>5. PICK x \in S : t = n - x
  BY <1>4
<1>6. \A y \in S : x >= y
  <2> SUFFICES ASSUME NEW y \in S PROVE x >= y
    OBVIOUS
  <2>1. n - y \in T
    OBVIOUS
  <2>2. n - x <= n - y
    BY <1>4, <1>5, <2>1
  <2>3. x \in 0 .. n /\ y \in 0 .. n
    BY <1>2
  <2>4. QED
    BY <2>2, <2>3
<1>7. PICK m : m = Max(S)
  OBVIOUS
<1>8. m \in S /\ \A y \in S : m >= y
  BY <1>6, <1>7 DEF Max
<1>9. LastSlash(p) = m
  BY <1>7 DEF LastSlash
<1>10. m \in 0 .. n
  BY <1>2, <1>8
<1>11. m # 0 => p[m] = Slash
  BY <1>8
<1>12. \A i \in 1 .. Len(p) : p[i] = Slash => i <= m
  BY <1>1, <1>8, <1>10
<1>13. QED
  BY <1>1, <1>9, <1>10, <1>11, <1>12

(***************************************************************************)
(* A path with a slash is its directory, a slash, and its basename, in     *)
(* which there is none (utils.c:105-137).                                  *)
(***************************************************************************)
THEOREM SplitAndRejoined ==
  ASSUME NEW A, Slash \in A, NEW p \in Seq(A), \E i \in 1 .. Len(p) : p[i] = Slash
  PROVE  /\ ExtractDirectory(p) \o <<Slash>> \o ExtractBasename(p) = p
         /\ Slash \notin ToSet(ExtractBasename(p))
<1> HIDE DEF Slash
<1>1. PICK n \in Nat : n = Len(p)
  OBVIOUS
<1>2. PICK k \in 1 .. n : /\ k = LastSlash(p) /\ p[k] = Slash
                         /\ \A i \in 1 .. n : p[i] = Slash => i <= k
  <2>1. PICK i \in 1 .. n : p[i] = Slash
    BY <1>1
  <2>2. PICK l : l = LastSlash(p)
    OBVIOUS
  <2>3. /\ l \in 0 .. n
        /\ l # 0 => p[l] = Slash
        /\ \A j \in 1 .. n : p[j] = Slash => j <= l
    BY <1>1, <2>2, LastSlashFacts
  <2>4. l \in 1 .. n
    BY <2>1, <2>3
  <2>5. QED
    BY <2>2, <2>3, <2>4
<1>3. PICK d, b : d = ExtractDirectory(p) /\ b = ExtractBasename(p)
  OBVIOUS
<1>4. d \in Seq(A) /\ Len(d) = k - 1 /\ \A i \in 1 .. k - 1 : d[i] = p[i]
  <2>1. d = SubSeq(p, 1, k - 1)
    BY <1>2, <1>3 DEF ExtractDirectory
  <2>2. /\ k - 1 \in Int /\ (1 <= k - 1 <=> k # 1) /\ (k - 1) - 1 + 1 = k - 1
        /\ \A i \in 1 .. k - 1 : p[i] \in A /\ 1 + i - 1 = i
    BY <1>1
  <2>3. /\ SubSeq(p, 1, k - 1) \in Seq(A)
        /\ Len(SubSeq(p, 1, k - 1)) = IF 1 <= k - 1 THEN (k - 1) - 1 + 1 ELSE 0
        /\ \A i \in 1 .. (k - 1) - 1 + 1 : SubSeq(p, 1, k - 1)[i] = p[1 + i - 1]
    BY <2>2, SubSeqProperties
  <2>4. QED
    BY <2>1, <2>2, <2>3
<1>5. b \in Seq(A) /\ Len(b) = n - k /\ \A i \in 1 .. n - k : b[i] = p[k + i]
  <2>1. b = SubSeq(p, k + 1, n)
    BY <1>1, <1>2, <1>3 DEF ExtractBasename
  <2>2. /\ k + 1 \in Int /\ n \in Int /\ (k + 1 <= n <=> n - k # 0) /\ n - (k + 1) + 1 = n - k
        /\ \A i \in k + 1 .. n : p[i] \in A
        /\ \A i \in 1 .. n - k : (k + 1) + i - 1 = k + i
    BY <1>1
  <2>3. /\ SubSeq(p, k + 1, n) \in Seq(A)
        /\ Len(SubSeq(p, k + 1, n)) = IF k + 1 <= n THEN n - (k + 1) + 1 ELSE 0
        /\ \A i \in 1 .. n - (k + 1) + 1 : SubSeq(p, k + 1, n)[i] = p[(k + 1) + i - 1]
    BY <2>2, SubSeqProperties
  <2>4. QED
    BY <2>1, <2>2, <2>3
<1>6. PICK o : o = <<Slash>>
  OBVIOUS
<1>7. o \in Seq(A) /\ Len(o) = 1 /\ o[1] = Slash
  BY <1>6
<1>8. PICK q : q = d \o o
  OBVIOUS
<1>9. /\ q \in Seq(A) /\ Len(q) = Len(d) + Len(o)
      /\ \A i \in 1 .. Len(d) : q[i] = d[i]
      /\ \A i \in 1 .. Len(o) : q[Len(d) + i] = o[i]
  <2>1. d \in Seq(A) /\ o \in Seq(A)
    BY <1>4, <1>7
  <2>2. QED
    BY <1>8, <2>1, Joins
<1>10. /\ Len(q) = k /\ q[k] = Slash /\ \A i \in 1 .. k - 1 : q[i] = p[i]
  <2>1. 1 \in 1 .. 1 /\ (k - 1) + 1 = k
    OBVIOUS
  <2>2. QED
    BY <1>4, <1>7, <1>9, <2>1
<1>11. PICK r : r = q \o b
  OBVIOUS
<1>12. /\ r \in Seq(A) /\ Len(r) = Len(q) + Len(b)
       /\ \A i \in 1 .. Len(q) : r[i] = q[i]
       /\ \A i \in 1 .. Len(b) : r[Len(q) + i] = b[i]
  <2>1. q \in Seq(A) /\ b \in Seq(A)
    BY <1>5, <1>9
  <2>2. QED
    BY <1>11, <2>1, Joins
<1>13. Len(r) = n /\ \A i \in 1 .. n : r[i] = p[i]
  <2>1. Len(r) = n
    BY <1>5, <1>10, <1>12
  <2>2. ASSUME NEW i \in 1 .. n PROVE r[i] = p[i]
    <3>1. CASE i < k
      BY <1>10, <1>12, <3>1
    <3>2. CASE i = k
      BY <1>2, <1>10, <1>12, <3>2
    <3>3. CASE i > k
      <4>1. PICK j : j = i - k
        OBVIOUS
      <4>2. j \in 1 .. n - k /\ k + j = i
        BY <3>3, <4>1
      <4>3. r[k + j] = b[j]
        BY <1>5, <1>10, <1>12, <4>2
      <4>4. b[j] = p[k + j]
        BY <1>5, <4>2
      <4>5. QED
        BY ONLY <4>2, <4>3, <4>4
    <3>4. QED
      BY <3>1, <3>2, <3>3
  <2>3. QED
    BY <2>1, <2>2
<1>14. r = p
  BY <1>1, <1>12, <1>13
<1>15. \A i \in 1 .. Len(b) : b[i] # Slash
  <2>1. \A i \in 1 .. n - k : k + i \in 1 .. n /\ ~(k + i <= k)
    OBVIOUS
  <2>2. QED
    BY <1>2, <1>5, <2>1
<1>16. Slash \notin ToSet(b)
  BY <1>5, <1>15 DEF ToSet
<1>17. QED
  BY <1>3, <1>6, <1>8, <1>11, <1>14, <1>16
=============================================================================
