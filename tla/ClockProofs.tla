---------------------------- MODULE ClockProofs -----------------------------
(***************************************************************************)
(* Proofs about Clock, for a calendar of any number of fields of any size, *)
(* every zone, every threshold and every bound.                            *)
(***************************************************************************)
EXTENDS Clock, TLAPS

-----------------------------------------------------------------------------
(* Division with remainder.                                                *)

LEMMA Division ==
  ASSUME NEW a \in Int, NEW n \in Nat \ {0}
  PROVE  \E q, r \in Int :
           /\ q = a \div n
           /\ r = a % n
           /\ 0 <= r
           /\ r < n
           /\ a = n * q + r
<1>1. n \in Int /\ n > 0
  OBVIOUS
<1>2. PICK q \in Int, r \in Int : q = a \div n /\ r = a % n /\ a = n * q + r
  BY <1>1
<1>3. 0 <= a % n
  BY <1>1
<1>4. a % n < n
  BY <1>1
<1>5. 0 <= r /\ r < n
  BY <1>2, <1>3, <1>4, Zenon
<1> QED
  BY <1>2, <1>5, Zenon

\* A product with a positive factor is at least the factor, or not positive.
LEMMA MultipleStep ==
  ASSUME NEW n \in Nat \ {0}, NEW q \in Int
  PROVE  /\ n * q \in Int
         /\ q >= 1 => n * q >= n
         /\ q <= -1 => n * q <= -n
<1>1. n * q \in Int
  OBVIOUS
<1>2. ASSUME q >= 1 PROVE n * q >= n
  <2>1. n * (q - 1) >= 0
    BY <1>2
  <2>2. n * (q - 1) = n * q - n
    OBVIOUS
  <2> QED
    BY <2>1, <2>2
<1>3. ASSUME q <= -1 PROVE n * q <= -n
  <2>1. n * (-1 - q) >= 0
    BY <1>3
  <2>2. n * (-1 - q) = -n - n * q
    OBVIOUS
  <2> QED
    BY <2>1, <2>2
<1> QED
  BY <1>1, <1>2, <1>3

\* Quotient and remainder are unique.
LEMMA DivisionUnique ==
  ASSUME NEW a \in Int, NEW n \in Nat \ {0}, NEW q \in Int, NEW r \in Int,
         0 <= r, r < n, a = n * q + r
  PROVE  a \div n = q /\ a % n = r
<1>1. PICK p \in Int, s \in Int :
        p = a \div n /\ s = a % n /\ 0 <= s /\ s < n /\ a = n * p + s
  BY Division
<1>2. 0 <= s /\ s < n /\ a = n * p + s
  BY <1>1, Zenon
<1>3. n * (p - q) = n * p - n * q
  OBVIOUS
<1>4. n * (p - q) = r - s
  BY <1>2, <1>3
<1>5. ~(p - q >= 1) /\ ~(p - q <= -1)
  <2>1. p - q \in Int
    OBVIOUS
  <2>2. /\ p - q >= 1 => n * (p - q) >= n
        /\ p - q <= -1 => n * (p - q) <= -n
    BY <2>1, MultipleStep
  <2> QED
    BY <1>2, <1>4, <2>2
<1>6. p = q
  BY <1>5
<1>7. s = r
  BY <1>2, <1>6
<1> QED
  BY <1>1, <1>6, <1>7, Zenon

\* A whole number of turns does not change the remainder.
LEMMA ModTurns ==
  ASSUME NEW a \in Int, NEW n \in Nat \ {0}, NEW k \in Int
  PROVE  (a + n * k) % n = a % n
<1>1. PICK p \in Int, s \in Int :
        p = a \div n /\ s = a % n /\ 0 <= s /\ s < n /\ a = n * p + s
  BY Division
<1>2. 0 <= s /\ s < n /\ a = n * p + s
  BY <1>1, Zenon
<1>3. n * (p + k) = n * p + n * k
  OBVIOUS
<1>4. n * k \in Int /\ a + n * k \in Int /\ p + k \in Int
  OBVIOUS
<1>5. a + n * k = n * (p + k) + s
  BY <1>2, <1>3, <1>4
<1>6. (a + n * k) % n = s
  BY <1>2, <1>4, <1>5, DivisionUnique, Zenon
<1> QED
  BY <1>1, <1>6, Zenon

\* Only the remainder of a summand matters.
LEMMA ModSum ==
  ASSUME NEW a \in Int, NEW b \in Int, NEW n \in Nat \ {0}
  PROVE  ((a % n) + b) % n = (a + b) % n
<1>1. PICK p \in Int, s \in Int : p = a \div n /\ s = a % n /\ a = n * p + s
  BY Division
<1>2. a = n * p + s
  BY <1>1, Zenon
<1>3. a + b = (s + b) + n * p /\ s + b \in Int
  BY <1>2
<1>4. ((s + b) + n * p) % n = (s + b) % n
  BY <1>3, ModTurns, Zenon
<1> QED
  BY <1>1, <1>3, <1>4, Zenon

\* A small number is its own remainder, and has no quotient.
LEMMA ModSmall ==
  ASSUME NEW a \in Int, NEW n \in Nat \ {0}, 0 <= a, a < n
  PROVE  a \div n = 0 /\ a % n = a
<1>1. a = n * 0 + a
  OBVIOUS
<1> QED
  BY <1>1, DivisionUnique

-----------------------------------------------------------------------------
(* Fields of a calendar.                                                   *)

\* A product of positive numbers is positive.
LEMMA PositiveProduct ==
  ASSUME NEW a \in Nat \ {0}, NEW b \in Nat \ {0}
  PROVE  a * b \in Nat \ {0}
<1>1. a * b \in Nat
  OBVIOUS
<1>2. b >= 1 /\ b \in Int
  OBVIOUS
<1>3. a * b >= a
  BY <1>2, MultipleStep
<1> QED
  BY <1>1, <1>3

\* A digit in its range and a remainder in its range are less than the digit's
\* whole period.
LEMMA BelowPeriod ==
  ASSUME NEW W \in Nat \ {0}, NEW R \in Nat \ {0}, NEW d \in Int, NEW r \in Int,
         0 <= d, d < R, 0 <= r, r < W
  PROVE  /\ W * d + r \in Int
         /\ 0 <= W * d + r
         /\ W * d + r < W * R
<1>1. W * d + r \in Int /\ W * R \in Int /\ W * d \in Int
  OBVIOUS
<1>2. W * d >= 0
  OBVIOUS
<1>3. W * R - W * d >= W
  <2>1. R - d \in Int /\ R - d >= 1
    OBVIOUS
  <2>2. W * (R - d) >= W
    BY <2>1, MultipleStep
  <2>3. W * (R - d) = W * R - W * d
    OBVIOUS
  <2> QED
    BY <2>2, <2>3
<1> QED
  BY <1>1, <1>2, <1>3

\* What is put together from what is above a digit, the digit, and what is
\* below it.
LEMMA Compose ==
  ASSUME NEW W \in Nat \ {0}, NEW R \in Nat \ {0}, NEW c \in Int, NEW d \in Int,
         NEW r \in Int, 0 <= d, d < R, 0 <= r, r < W
  PROVE  /\ ((W * R) * c + (W * d + r)) \div (W * R) = c
         /\ ((W * R) * c + (W * d + r)) \div W = R * c + d
         /\ (((W * R) * c + (W * d + r)) \div W) % R = d
<1> SUFFICES ASSUME NEW w, w = (W * R) * c + (W * d + r)
             PROVE  /\ w \div (W * R) = c
                    /\ w \div W = R * c + d
                    /\ (w \div W) % R = d
  BY Zenon
<1>1. /\ W * d + r \in Int
      /\ 0 <= W * d + r
      /\ W * d + r < W * R
  BY BelowPeriod
<1>2. W * R \in Nat \ {0}
  BY PositiveProduct
<1>3. w \in Int
  OBVIOUS
<1>4. w \div (W * R) = c
  BY <1>1, <1>2, <1>3, DivisionUnique, Zenon
<1>5. R * c + d \in Int
  OBVIOUS
<1>6. w = W * (R * c + d) + r
  OBVIOUS
<1>7. w \div W = R * c + d
  BY <1>3, <1>5, <1>6, DivisionUnique, Zenon
<1>8. (R * c + d) % R = d
  BY <1>5, DivisionUnique, Zenon
<1> QED
  BY <1>4, <1>7, <1>8, Zenon

\* Every number is put together in this way.
LEMMA Decompose ==
  ASSUME NEW W \in Nat \ {0}, NEW R \in Nat \ {0}, NEW w \in Int
  PROVE  \E c, d, r \in Int :
           /\ 0 <= d
           /\ d < R
           /\ 0 <= r
           /\ r < W
           /\ w = (W * R) * c + (W * d + r)
<1>1. PICK q \in Int, r \in Int : 0 <= r /\ r < W /\ w = W * q + r
  BY Division
<1>2. PICK c \in Int, d \in Int : 0 <= d /\ d < R /\ q = R * c + d
  BY Division
<1>3. w = (W * R) * c + (W * d + r)
  BY <1>1, <1>2
<1> QED
  BY <1>1, <1>2, <1>3, Zenon

\* The units of the calendar: each is a whole number of the next, and of the
\* minute if it is not the second.
LEMMA UnitsDivide ==
  /\ Calendar \in Nat \ {0}
  /\ Len(Units) \in Nat /\ seconds \in Fields /\ 1 \in Fields
  /\ \A i \in Fields : /\ i + 1 \in 1 .. Len(Units)
                       /\ Units[i] \in Nat \ {0}
                       /\ Weight(i) \in Nat \ {0}
                       /\ Radix(i) \in Nat \ {0}
                       /\ Units[i] = Weight(i) * Radix(i)
  /\ Weight(seconds) = 1
<1>1. /\ Len(Units) \in Nat
      /\ Len(Units) > 1
      /\ \A i \in 1 .. Len(Units) : Units[i] \in Nat \ {0}
      /\ Units[Len(Units)] = 1
  BY CalendarAssumption
<1>2. Calendar \in Nat \ {0} /\ seconds \in Fields /\ 1 \in Fields
  BY <1>1 DEF Calendar, seconds, Fields
<1>3. Weight(seconds) = 1
  BY <1>1 DEF Weight, seconds
<1>4. ASSUME NEW i \in Fields
      PROVE  /\ i + 1 \in 1 .. Len(Units)
             /\ Units[i] \in Nat \ {0}
             /\ Weight(i) \in Nat \ {0}
             /\ Radix(i) \in Nat \ {0}
             /\ Units[i] = Weight(i) * Radix(i)
  <2>1. i \in 1 .. Len(Units) /\ i + 1 \in 1 .. Len(Units) /\ i < i + 1
    BY <1>1 DEF Fields
  <2>2. Units[i] \in Nat \ {0} /\ Weight(i) \in Nat \ {0}
    BY <1>1, <2>1 DEF Weight
  <2>3. Units[i] % Weight(i) = 0
    BY <2>1, CalendarAssumption DEF Weight
  <2>4. PICK q \in Int, r \in Int : /\ q = Units[i] \div Weight(i)
                                    /\ r = Units[i] % Weight(i)
                                    /\ Units[i] = Weight(i) * q + r
    <3>1. Units[i] \in Int
      BY <2>2
    <3> QED
      BY <2>2, <3>1, Division, Zenon
  <2>5. Radix(i) = q /\ r = 0
    BY <2>3, <2>4, Zenon DEF Radix, Weight
  <2>6. Weight(i) * q \in Int /\ Units[i] = Weight(i) * q
    BY <2>2, <2>4, <2>5
  <2>7. q >= 1
    <3>1. q = 0 => Weight(i) * q = 0
      BY <2>2
    <3>2. q <= -1 => Weight(i) * q <= -Weight(i)
      BY <2>2, MultipleStep
    <3> QED
      BY <2>2, <2>6, <3>1, <3>2
  <2> QED
    BY <2>1, <2>2, <2>5, <2>6, <2>7
<1> QED
  BY <1>1, <1>2, <1>3, <1>4

\* A register of the clock has one of its field's values.
LEMMA FieldRange ==
  ASSUME NEW w \in Int, NEW i \in Fields
  PROVE  EncodeRTC(w)[i] \in Int /\ 0 <= EncodeRTC(w)[i] /\ EncodeRTC(w)[i] < Radix(i)
<1>1. Weight(i) \in Nat \ {0} /\ Radix(i) \in Nat \ {0}
  BY UnitsDivide
<1>2. PICK q \in Int : q = w \div Weight(i)
  BY <1>1, Division, Zenon
<1>3. PICK d \in Int : d = q % Radix(i) /\ 0 <= d /\ d < Radix(i)
  BY <1>1, Division, Zenon
<1>4. EncodeRTC(w)[i] = d
  BY <1>2, <1>3, Zenon DEF EncodeRTC
<1> QED
  BY <1>3, <1>4, Zenon

\* A frame that sets one field of the clock leaves what is above it alone.
LEMMA SetField ==
  ASSUME NEW w \in Instants, NEW i \in Fields, NEW v \in Int, 0 <= v, v < Radix(i)
  PROVE  /\ withField(w, i, v) \in Instants
         /\ withField(w, i, v) \div Units[i] = w \div Units[i]
         /\ EncodeRTC(withField(w, i, v))[i] = v
<1> DEFINE x == withField(w, i, v)
           W == Weight(i)
           R == Radix(i)
<1>1. /\ W \in Nat \ {0} /\ R \in Nat \ {0} /\ Units[i] = W * R /\ Units[i] \in Nat \ {0}
      /\ Calendar \in Nat \ {0}
  BY UnitsDivide
<1>2. w \in Int /\ 0 <= w /\ w < Calendar
  BY <1>1 DEF Instants
<1> HIDE DEF W, R
<1>3. PICK c \in Int, d \in Int, r \in Int :
        /\ 0 <= d
        /\ d < R
        /\ 0 <= r
        /\ r < W
        /\ w = (W * R) * c + (W * d + r)
  BY <1>1, <1>2, Decompose
<1>4. w \div (W * R) = c /\ (w \div W) % R = d
  <2>1. /\ ((W * R) * c + (W * d + r)) \div (W * R) = c
        /\ (((W * R) * c + (W * d + r)) \div W) % R = d
    <3>1. 0 <= d /\ d < R /\ 0 <= r /\ r < W
      BY <1>3
    <3> QED
      BY <1>1, <3>1, Compose
  <2> QED
    BY <1>3, <2>1, Zenon
<1>5. EncodeRTC(w)[i] = d
  BY <1>4, Zenon DEF EncodeRTC, W, R
<1>6. x = w + (v - d) * W
  BY <1>5, Zenon DEF withField, W
<1> HIDE DEF x
<1>7. x \in Int /\ x = (W * R) * c + (W * v + r)
  BY <1>1, <1>2, <1>3, <1>6
<1>8. v < R
  BY DEF R
<1>9. x \div (W * R) = c /\ (x \div W) % R = v
  <2>1. /\ ((W * R) * c + (W * v + r)) \div (W * R) = c
        /\ (((W * R) * c + (W * v + r)) \div W) % R = v
    BY <1>1, <1>3, <1>8, Compose
  <2> QED
    BY <1>7, <2>1, Zenon
<1>10. EncodeRTC(x)[i] = v
  BY <1>9, Zenon DEF EncodeRTC, W, R
<1>11. x \in Instants
  <2> DEFINE U == W * R
             t == W * v + r
             u == W * d + r
  <2>1. t \in Int /\ 0 <= t /\ t < U
    BY <1>1, <1>3, <1>8, BelowPeriod
  <2>2. u \in Int /\ 0 <= u /\ u < U
    BY <1>1, <1>3, BelowPeriod
  <2>3. U \in Nat \ {0}
    BY <1>1
  <2>4. PICK k \in Int : Calendar = U * k
    <3>1. CASE i = 1
      <4>1. Calendar = U * 1
        BY <1>1, <3>1 DEF Calendar
      <4> QED
        BY <4>1
    <3>2. CASE i # 1
      <4>1. 1 \in 1 .. Len(Units) /\ i \in 1 .. Len(Units) /\ 1 < i
        BY <3>2, UnitsDivide DEF Fields
      <4>2. Calendar % Units[i] = 0
        BY <4>1, CalendarAssumption DEF Calendar
      <4>3. Calendar \in Int
        BY <1>1
      <4>4. PICK q \in Int, s \in Int : s = Calendar % Units[i] /\ Calendar = Units[i] * q + s
        BY <1>1, <4>3, Division
      <4>5. s = 0
        BY <4>2, <4>4, Zenon
      <4>6. Calendar = Units[i] * q
        BY <1>1, <4>4, <4>5
      <4> QED
        BY <1>1, <4>6, Zenon
    <3> QED
      BY <3>1, <3>2
  <2> HIDE DEF U, t, u
  <2>5. w = U * c + u /\ x = U * c + t
    BY <1>3, <1>7, Zenon DEF U, t, u
  <2>6. U * c \in Int /\ U * k \in Int
    BY <2>3
  <2>7. c >= 0
    <3>1. c <= -1 => U * c <= -U
      BY <2>3, MultipleStep
    <3> QED
      BY <1>2, <2>2, <2>3, <2>5, <2>6, <3>1
  <2>8. k - c >= 1
    <3>1. k - c \in Int /\ U * (k - c) = U * k - U * c
      BY <2>3
    <3>2. k - c <= -1 => U * (k - c) <= -U
      BY <2>3, <3>1, MultipleStep
    <3>3. k - c = 0 => U * (k - c) = 0
      BY <2>3
    <3>4. U * (k - c) > 0
      BY <1>2, <2>2, <2>4, <2>5, <2>6, <3>1
    <3> QED
      BY <2>3, <3>1, <3>2, <3>3, <3>4
  <2>9. U * k - U * c >= U
    <3>1. k - c \in Int /\ U * (k - c) = U * k - U * c
      BY <2>3
    <3>2. U * (k - c) >= U
      BY <2>3, <2>8, <3>1, MultipleStep
    <3> QED
      BY <3>1, <3>2
  <2>10. U * c >= 0
    BY <2>3, <2>7
  <2>11. 0 <= x /\ x < Calendar
    BY <1>1, <2>1, <2>3, <2>4, <2>5, <2>6, <2>9, <2>10
  <2> QED
    BY <1>1, <1>7, <2>11 DEF Instants
<1>12. x \div Units[i] = w \div Units[i]
  BY <1>1, <1>4, <1>9, Zenon
<1> QED
  BY <1>10, <1>11, <1>12 DEF x

\* What a clock shows down to a field is what it shows above it, and the field.
LEMMA NextDigit ==
  ASSUME NEW w \in Int, NEW i \in Fields
  PROVE  w \div Weight(i) = Radix(i) * (w \div Units[i]) + EncodeRTC(w)[i]
<1> DEFINE W == Weight(i)
           R == Radix(i)
<1>1. W \in Nat \ {0} /\ R \in Nat \ {0} /\ Units[i] = W * R
  BY UnitsDivide
<1>2. EncodeRTC(w)[i] = (w \div W) % R
  BY DEF EncodeRTC
<1> HIDE DEF W, R
<1>3. PICK c \in Int, d \in Int, r \in Int :
        /\ 0 <= d
        /\ d < R
        /\ 0 <= r
        /\ r < W
        /\ w = (W * R) * c + (W * d + r)
  BY <1>1, Decompose
<1>4. w \div (W * R) = c /\ w \div W = R * c + d /\ (w \div W) % R = d
  <2>1. /\ ((W * R) * c + (W * d + r)) \div (W * R) = c
        /\ ((W * R) * c + (W * d + r)) \div W = R * c + d
        /\ (((W * R) * c + (W * d + r)) \div W) % R = d
    <3>1. 0 <= d /\ d < R /\ 0 <= r /\ r < W
      BY <1>3
    <3> QED
      BY <1>1, <3>1, Compose
  <2> QED
    BY <1>3, <2>1, Zenon
<1>5. w \div Units[i] = c /\ EncodeRTC(w)[i] = d
  BY <1>1, <1>2, <1>4, Zenon
<1> QED
  BY <1>4, <1>5, Zenon DEF W, R

\* Every unit but the second is a whole number of minutes.
LEMMA WholeMinutes ==
  ASSUME NEW i \in Fields
  PROVE  \E k \in Int : Units[i] = Radix(seconds) * k
<1>1. /\ Len(Units) \in Nat /\ seconds \in Fields
      /\ Units[i] \in Nat \ {0} /\ Units[seconds] \in Nat \ {0}
  BY UnitsDivide
<1>2. Radix(seconds) = Units[seconds]
  <2>1. Weight(seconds) = 1 /\ Units[seconds] = Weight(seconds) * Radix(seconds)
        /\ Radix(seconds) \in Nat \ {0}
    BY UnitsDivide
  <2> QED
    BY <2>1
<1>3. CASE i = seconds
  <2>1. Units[i] = Units[seconds] * 1
    BY <1>1, <1>3
  <2> QED
    BY <1>2, <2>1
<1>4. CASE i # seconds
  <2>1. i \in 1 .. Len(Units) /\ seconds \in 1 .. Len(Units) /\ i < seconds
    BY <1>1, <1>4 DEF Fields, seconds
  <2>2. Units[i] % Units[seconds] = 0
    BY <2>1, CalendarAssumption
  <2>3. Units[i] \in Int
    BY <1>1
  <2>4. PICK q \in Int, r \in Int : r = Units[i] % Units[seconds]
                                    /\ Units[i] = Units[seconds] * q + r
    BY <1>1, <2>3, Division
  <2>5. r = 0
    BY <2>2, <2>4, Zenon
  <2>6. Units[i] = Units[seconds] * q
    BY <1>1, <2>4, <2>5
  <2> QED
    BY <1>2, <2>6, Zenon
<1> QED
  BY <1>3, <1>4

\* A second in which the seconds do not start over changes nothing above them.
LEMMA NoRollover ==
  ASSUME NEW w \in Instants, (w + 1) % Radix(seconds) # 0, NEW i \in Fields
  PROVE  (w + 1) \div Units[i] = w \div Units[i]
<1> DEFINE U == Units[i]
           S == Radix(seconds)
<1>1. U \in Nat \ {0} /\ S \in Nat \ {0} /\ Calendar \in Nat \ {0}
  BY UnitsDivide
<1>2. w \in Int
  BY <1>1 DEF Instants
<1>3. PICK k \in Int : U = S * k
  BY WholeMinutes
<1>4. (w + 1) % S # 0
  OBVIOUS
<1> HIDE DEF U, S
<1>5. PICK c \in Int, t \in Int :
        c = w \div U /\ t = w % U /\ 0 <= t /\ t < U /\ w = U * c + t
  BY <1>1, <1>2, Division
<1>6. 0 <= t /\ t < U /\ w = U * c + t
  BY <1>5, Zenon
<1>7. t + 1 # U
  <2>1. SUFFICES ASSUME t + 1 = U PROVE FALSE
    OBVIOUS
  <2>2. w + 1 = U * c + U
    BY <1>1, <1>6, <2>1
  <2>3. U * c + U = (S * k) * c + S * k
    BY <1>3, Zenon
  <2>4. (S * k) * c + S * k = S * (k * c + k) /\ k * c + k \in Int
    BY <1>1
  <2>5. w + 1 = S * (k * c + k) + 0
    BY <1>1, <1>2, <2>2, <2>3, <2>4
  <2>6. (w + 1) % S = 0
    <3>1. w + 1 \in Int /\ 0 < S /\ 0 <= 0
      BY <1>1, <1>2
    <3> QED
      BY <1>1, <2>4, <2>5, <3>1, DivisionUnique
  <2> QED
    BY <1>4, <2>6, Zenon
<1>8. w + 1 \in Int /\ t + 1 \in Int /\ 0 <= t + 1 /\ t + 1 < U /\ w + 1 = U * c + (t + 1)
  BY <1>1, <1>2, <1>6, <1>7
<1>9. (w + 1) \div U = c
  BY <1>1, <1>8, DivisionUnique, Zenon
<1> QED
  BY <1>5, <1>9, Zenon DEF U

\* Above the largest field there is nothing.
LEMMA NothingAbove ==
  ASSUME NEW w \in Instants
  PROVE  w \div Units[1] = 0 /\ w \div Calendar = 0
<1>1. Calendar \in Nat \ {0} /\ w \in Int /\ 0 <= w /\ w < Calendar
  BY UnitsDivide DEF Instants
<1>2. w \div Calendar = 0
  BY <1>1, ModSmall, Zenon
<1> QED
  BY <1>2 DEF Calendar

-----------------------------------------------------------------------------
(* How far two clocks are apart.                                           *)

Half == Calendar \div 2

LEMMA Halves ==
  /\ Calendar \in Nat \ {0}
  /\ Half \in Nat
  /\ 2 * Half <= Calendar
  /\ Calendar <= 2 * Half + 1
<1>1. Calendar \in Nat \ {0}
  BY UnitsDivide
<1> QED
  BY <1>1 DEF Half

\* A threshold and a job are short for the calendar.
LEMMA LagBound ==
  /\ Threshold \in Nat /\ MaxLag \in Nat
  /\ 2 * Threshold + 2 * MaxLag < Calendar
  /\ Threshold + MaxLag < Half + 1
<1>1. Threshold \in Nat
  BY ConfigAssumption
<1>2. MaxLag \in Nat /\ 2 * (Threshold + MaxLag) < Calendar
  BY ClockBoundAssumption
<1>3. 2 * Threshold + 2 * MaxLag < Calendar
  BY <1>1, <1>2, Halves
<1> QED
  BY <1>1, <1>2, <1>3, Halves

\* Drift is the difference, but for some turns of the calendar.
LEMMA DriftTurns ==
  ASSUME NEW a \in Int, NEW b \in Int
  PROVE  /\ Drift(a, b) \in Int
         /\ -Half <= Drift(a, b)
         /\ Drift(a, b) < Calendar - Half
         /\ \E k \in Int : a - b = Drift(a, b) + Calendar * k
<1> DEFINE y == a - b + Half
<1>1. y \in Int
  BY Halves
<1>2. PICK k \in Int, r \in Int :
        r = y % Calendar /\ 0 <= r /\ r < Calendar /\ y = Calendar * k + r
  BY <1>1, Halves, Division
<1>3. Drift(a, b) = r - Half
  BY <1>2, Zenon DEF Drift, Half
<1>4. 0 <= r /\ r < Calendar /\ a - b + Half = Calendar * k + r
  BY <1>2, Zenon
<1>5. Calendar * k \in Int
  BY Halves
<1>6. a - b = (r - Half) + Calendar * k
  BY <1>4, <1>5, Halves
<1>7. r - Half \in Int /\ -Half <= r - Half /\ r - Half < Calendar - Half
  BY <1>4, Halves
<1> QED
  BY <1>3, <1>6, <1>7, Zenon

\* Two numbers that differ by turns, and by less than one, are equal.
LEMMA SameTurn ==
  ASSUME NEW x \in Int, NEW y \in Int, NEW k \in Int, x = y + Calendar * k,
         x - y < Calendar, y - x < Calendar
  PROVE  x = y
<1>1. k >= 1 => Calendar * k >= Calendar
  BY Halves, MultipleStep
<1>2. k <= -1 => Calendar * k <= -Calendar
  BY Halves, MultipleStep
<1>3. k = 0 => Calendar * k = 0
  BY Halves
<1>4. Calendar * k \in Int
  BY Halves
<1> QED
  BY <1>1, <1>2, <1>3, <1>4, Halves

\* What is within half a turn is the drift.
LEMMA DriftIs ==
  ASSUME NEW a \in Int, NEW b \in Int, NEW x \in Int, NEW k \in Int,
         a - b = x + Calendar * k, -Half <= x, x < Calendar - Half
  PROVE  Drift(a, b) = x
<1> DEFINE d == Drift(a, b)
<1>1. PICK j \in Int : a - b = d + Calendar * j
  BY DriftTurns
<1>2. d \in Int /\ -Half <= d /\ d < Calendar - Half
  BY DriftTurns
<1> HIDE DEF d
<1>3. j - k \in Int /\ Calendar * (j - k) = Calendar * j - Calendar * k
      /\ Calendar * j \in Int /\ Calendar * k \in Int
  BY Halves
<1>4. x = d + Calendar * (j - k)
  BY <1>1, <1>2, <1>3, Halves
<1>5. x - d < Calendar /\ d - x < Calendar
  BY <1>2, Halves
<1>6. x = d
  BY <1>2, <1>3, <1>4, <1>5, SameTurn
<1> QED
  BY <1>6 DEF d

-----------------------------------------------------------------------------
(* Local time.                                                             *)

\* What the host's zone adds to an instant.
offset(t) == IF t \in summer THEN Shift ELSE 0

LEMMA LocalTurns ==
  ASSUME NEW t \in Int
  PROVE  /\ offset(t) \in Int
         /\ Local(t) = (t + offset(t)) % Calendar
         /\ Local(t) \in Instants
         /\ \E k \in Int : t + offset(t) = Local(t) + Calendar * k
<1>1. Shift \in Int
  BY CalendarAssumption, Halves DEF Instants
<1>2. offset(t) \in Int
  BY <1>1 DEF offset
<1>3. Local(t) = (t + offset(t)) % Calendar
  <2>1. t + 0 = t
    OBVIOUS
  <2>2. CASE t \in summer
    BY <2>2, Zenon DEF offset, Local
  <2>3. CASE t \notin summer
    <3>1. offset(t) = 0
      BY <2>3, Zenon DEF offset
    <3>2. Local(t) = t % Calendar
      BY <2>3, Zenon DEF Local
    <3> QED
      BY <2>1, <3>1, <3>2, Zenon
  <2> QED
    BY <2>2, <2>3
<1>4. t + offset(t) \in Int
  BY <1>2
<1>5. PICK k \in Int, r \in Int : /\ r = (t + offset(t)) % Calendar
                                  /\ 0 <= r
                                  /\ r < Calendar
                                  /\ t + offset(t) = Calendar * k + r
  BY <1>4, Halves, Division
<1>6. Local(t) = r
  BY <1>3, <1>5, Zenon
<1>7. 0 <= r /\ r < Calendar /\ t + offset(t) = Calendar * k + r
  BY <1>5, Zenon
<1>8. r \in Instants
  BY <1>7, Halves DEF Instants
<1>9. t + offset(t) = r + Calendar * k
  BY <1>2, <1>7, Halves
<1> QED
  BY <1>2, <1>3, <1>6, <1>8, <1>9, Zenon

\* Local time goes on by a second, unless the zone changes.
LEMMA LocalNext ==
  ASSUME NEW t \in Instants, NEW u \in Instants, u = (t + 1) % Calendar,
         t \in summer <=> u \in summer
  PROVE  Local(u) = (Local(t) + 1) % Calendar
<1>1. t \in Int /\ u \in Int /\ t + 1 \in Int /\ Calendar \in Nat \ {0}
  BY Halves DEF Instants
<1>2. PICK o \in Int : o = offset(t) /\ o = offset(u)
  BY <1>1, LocalTurns DEF offset
<1>3. Local(u) = (u + o) % Calendar /\ Local(t) = (t + o) % Calendar
  BY <1>1, <1>2, LocalTurns, Zenon
<1>4. (u + o) % Calendar = (t + 1 + o) % Calendar
  BY <1>1, ModSum, Zenon
<1>5. t + o \in Int /\ 1 \in Int
  BY <1>1
<1>6. (((t + o) % Calendar) + 1) % Calendar = (t + o + 1) % Calendar
  BY <1>1, <1>5, ModSum, Zenon
<1>7. t + o + 1 = t + 1 + o
  BY <1>1
<1> QED
  BY <1>3, <1>4, <1>6, <1>7, Zenon

LEMMA NextInstant ==
  ASSUME NEW t \in Instants
  PROVE  (t + 1) % Calendar \in Instants
<1>1. t + 1 \in Int /\ Calendar \in Nat \ {0}
  BY Halves DEF Instants
<1>2. PICK r \in Int : r = (t + 1) % Calendar /\ 0 <= r /\ r < Calendar
  BY <1>1, Division
<1>3. r \in Instants
  BY <1>2, Halves DEF Instants
<1> QED
  BY <1>2, <1>3, Zenon

\* The clock as it is decoded is an instant.
LEMMA DecodedInstant ==
  ASSUME NEW w \in Instants
  PROVE  DecodeRTC(w) \subseteq Instants
<1>1. w - Shift \in Int /\ Calendar \in Nat \ {0}
  BY CalendarAssumption, Halves DEF Instants
<1>2. PICK r \in Int : r = (w - Shift) % Calendar /\ 0 <= r /\ r < Calendar
  BY <1>1, Division
<1>3. r \in Instants
  BY <1>2, Halves DEF Instants
<1>4. (w - Shift) % Calendar \in Instants
  BY <1>2, <1>3, Zenon
<1> QED
  BY <1>4, Zenon DEF DecodeRTC

-----------------------------------------------------------------------------
(* Types.                                                                  *)

Budgets == [commands : Nat, mishaps : Nat, skews : Nat, rollovers : Nat]

LEMMA ZeroInstant == 0 \in Instants /\ 1 \in Fields
BY UnitsDivide DEF Instants

\* A job that is over leaves the registers of the sequence in their types.
LEMMA FinishType ==
  ASSUME NEW err \in BOOLEAN, Finish(err)
  PROVE  /\ pc' = "idle" /\ seen' \in Instants /\ target' \in Instants
         /\ field' \in Fields /\ retry' \in BOOLEAN /\ failed' \in BOOLEAN
         /\ lag' \in 0 .. MaxLag /\ clean' \in BOOLEAN
<1>1. 0 \in 0 .. MaxLag
  BY ClockBoundAssumption
<1> QED
  BY <1>1, ZeroInstant DEF Finish

\* The sequence that starts aims at the host's local time.
LEMMA SyncType ==
  ASSUME TypeOK, syncRTCTo
  PROVE  /\ pc' = "read" /\ seen' \in Instants /\ target' \in Instants
         /\ field' \in Fields /\ retry' \in BOOLEAN
         /\ lag' \in 0 .. MaxLag /\ clean' \in BOOLEAN
<1>1. 0 \in 0 .. MaxLag
  BY ClockBoundAssumption
<1>2. now \in Int
  BY Halves DEF TypeOK, Instants
<1>3. Local(now) \in Instants
  BY <1>2, LocalTurns
<1> QED
  BY <1>1, <1>3, ZeroInstant DEF syncRTCTo

LEMMA FailsType ==
  ASSUME TypeOK, GuardFails
  PROVE  /\ pc' \in {"idle", "read"} /\ seen' \in Instants /\ target' \in Instants
         /\ field' \in Fields /\ retry' \in BOOLEAN /\ failed' \in BOOLEAN
         /\ lag' \in 0 .. MaxLag /\ clean' \in BOOLEAN
<1>1. CASE ~retry
  BY <1>1 DEF GuardFails, TypeOK
<1>2. CASE retry
  <2>1. Finish(TRUE)
    BY <1>2 DEF GuardFails
  <2> QED
    BY <2>1, FinishType
<1> QED
  BY <1>1, <1>2

LEMMA DoneType ==
  ASSUME TypeOK, GuardDone
  PROVE  /\ pc' \in {"idle", "read"} /\ seen' \in Instants /\ target' \in Instants
         /\ field' \in Fields /\ retry' \in BOOLEAN /\ failed' \in BOOLEAN
         /\ lag' \in 0 .. MaxLag /\ clean' \in BOOLEAN
<1>1. CASE field # seconds
  <2>1. field + 1 \in Fields
    BY <1>1, UnitsDivide DEF TypeOK, Fields, seconds
  <2> QED
    BY <1>1, <2>1 DEF GuardDone, TypeOK
<1>2. CASE field = seconds
  <2>1. Finish(FALSE)
    BY <1>2 DEF GuardDone
  <2> QED
    BY <2>1, FinishType
<1> QED
  BY <1>1, <1>2

\* The frame that is written: a value of its field.
LEMMA WantedRange ==
  ASSUME TypeOK
  PROVE  /\ target \in Int /\ rtc \in Int /\ now \in Int
         /\ wanted \in Int /\ 0 <= wanted /\ wanted < Radix(field)
         /\ withField(rtc, field, wanted) \in Instants
         /\ withField(rtc, field, wanted) \div Units[field] = rtc \div Units[field]
<1>1. target \in Int /\ rtc \in Int /\ now \in Int
  BY Halves DEF TypeOK, Instants
<1>2. field \in Fields /\ rtc \in Instants
  BY DEF TypeOK
<1>3. wanted \in Int /\ 0 <= wanted /\ wanted < Radix(field)
  BY <1>1, <1>2, FieldRange DEF wanted
<1> QED
  BY <1>1, <1>2, <1>3, SetField

LEMMA MishapType ==
  ASSUME TypeOK, Mishap
  PROVE  budget' \in Budgets
BY DEF TypeOK, Mishap, Budgets

LEMMA InitType == Init => TypeOK
<1> SUFFICES ASSUME Init PROVE TypeOK
  OBVIOUS
<1>1. 0 \in 0 .. MaxLag /\ {MaxCommands, MaxMishaps, MaxSkews, MaxRollovers} \subseteq Nat
  BY ClockBoundAssumption
<1>2. now \in Instants /\ rtc \in Instants
  <2>1. now = 0 /\ 0 \in Int
    BY DEF Init
  <2>2. Local(now) \in Instants
    BY <2>1, LocalTurns
  <2> QED
    BY <2>1, <2>2, ZeroInstant DEF Init
<1> QED
  BY <1>1, <1>2, ZeroInstant DEF Init, TypeOK

\* Every action keeps the types.
LEMMA NextType == TypeOK /\ [Next]_vars => TypeOK'
<1> SUFFICES ASSUME TypeOK, [Next]_vars PROVE TypeOK'
  OBVIOUS
<1> USE DEF Budgets
<1>1. CASE SyncCommand
  <2>1. syncRTCTo /\ failed' = FALSE /\ UNCHANGED <<now, summer, rtc>>
    BY <1>1 DEF SyncCommand
  <2>2. budget' \in Budgets
    BY <1>1 DEF SyncCommand, TypeOK
  <2> QED
    BY <2>1, <2>2, SyncType DEF TypeOK
<1>2. CASE PollRead
  <2>1. seen' \in Instants
    BY <1>2, DecodedInstant DEF PollRead, TypeOK
  <2>2. 0 \in 0 .. MaxLag
    BY ClockBoundAssumption
  <2> QED
    BY <1>2, <2>1, <2>2 DEF PollRead, TypeOK
<1>3. CASE PollFails
  <2>1. Finish(TRUE) /\ UNCHANGED <<now, summer, rtc>> /\ budget' \in Budgets
    BY <1>3, MishapType DEF PollFails
  <2> QED
    BY <2>1, FinishType DEF TypeOK
<1>4. CASE MaybeSyncRTC
  <2>1. UNCHANGED <<now, summer, rtc, budget>>
    BY <1>4 DEF MaybeSyncRTC
  <2>2. CASE SyncEnabled /\ drifted
    <3>1. syncRTCTo /\ UNCHANGED failed
      BY <1>4, <2>2 DEF MaybeSyncRTC
    <3> QED
      BY <2>1, <3>1, SyncType DEF TypeOK
  <2>3. CASE ~(SyncEnabled /\ drifted)
    <3>1. Finish(FALSE)
      BY <1>4, <2>3 DEF MaybeSyncRTC
    <3> QED
      BY <2>1, <3>1, FinishType DEF TypeOK
  <2> QED
    BY <2>2, <2>3
<1>5. CASE GuardRead
  <2>1. UNCHANGED <<now, summer, rtc, budget>>
    BY <1>5 DEF GuardRead
  <2>2. CASE shown = wanted
    <3>1. GuardDone
      BY <1>5, <2>2 DEF GuardRead
    <3> QED
      BY <2>1, <3>1, DoneType DEF TypeOK
  <2>3. CASE shown # wanted
    BY <1>5, <2>3 DEF GuardRead, TypeOK
  <2> QED
    BY <2>2, <2>3
<1>6. CASE GuardReadFails
  <2>1. GuardFails /\ UNCHANGED <<now, summer, rtc>> /\ budget' \in Budgets
    BY <1>6, MishapType DEF GuardReadFails
  <2> QED
    BY <2>1, FailsType DEF TypeOK
<1>7. CASE GuardWrite
  <2>1. rtc' \in Instants
    BY <1>7, WantedRange DEF GuardWrite
  <2> QED
    BY <1>7, <2>1 DEF GuardWrite, TypeOK
<1>8. CASE GuardWriteFails
  <2>1. GuardFails /\ UNCHANGED <<now, summer>> /\ budget' \in Budgets
    BY <1>8, MishapType DEF GuardWriteFails
  <2>2. rtc' \in Instants
    BY <1>8, WantedRange DEF GuardWriteFails, TypeOK
  <2> QED
    BY <2>1, <2>2, FailsType DEF TypeOK
<1>9. CASE GuardConfirm
  <2>1. UNCHANGED <<now, summer, rtc, budget>>
    BY <1>9 DEF GuardConfirm
  <2>2. CASE shown = wanted
    <3>1. GuardDone
      BY <1>9, <2>2 DEF GuardConfirm
    <3> QED
      BY <2>1, <3>1, DoneType DEF TypeOK
  <2>3. CASE shown # wanted
    <3>1. Finish(TRUE)
      BY <1>9, <2>3 DEF GuardConfirm
    <3> QED
      BY <2>1, <3>1, FinishType DEF TypeOK
  <2> QED
    BY <2>2, <2>3
<1>10. CASE GuardConfirmFails
  <2>1. Finish(TRUE) /\ UNCHANGED <<now, summer, rtc>> /\ budget' \in Budgets
    BY <1>10, MishapType DEF GuardConfirmFails
  <2> QED
    BY <2>1, FinishType DEF TypeOK
<1>11. CASE Tick
  <2>1. now' \in Instants /\ rtc' \in Instants
    BY <1>11, NextInstant DEF Tick, TypeOK
  <2>2. UNCHANGED <<summer, pc, seen, target, field, retry, failed>>
    BY <1>11 DEF Tick
  <2>3. lag' \in 0 .. MaxLag
    <3>1. lag' = lag \/ (lag < MaxLag /\ lag' = lag + 1)
      BY <1>11 DEF Tick
    <3> QED
      BY <3>1, ClockBoundAssumption DEF TypeOK
  <2>4. clean' \in BOOLEAN
    <3>1. UNCHANGED clean
          \/ clean' = (clean /\ ~rollsOver /\ (now \in summer <=> now' \in summer))
      BY <1>11 DEF Tick
    <3> QED
      BY <3>1, Zenon DEF TypeOK
  <2>5. budget' \in Budgets
    <3>1. UNCHANGED budget
          \/ (budget.rollovers > 0 /\ budget' = [budget EXCEPT !.rollovers = @ - 1])
      BY <1>11 DEF Tick
    <3> QED
      BY <3>1 DEF TypeOK
  <2> QED
    BY <2>1, <2>2, <2>3, <2>4, <2>5 DEF TypeOK
<1>12. CASE Skew
  <2>1. budget' \in Budgets
    BY <1>12 DEF Skew, TypeOK
  <2>2. clean' \in BOOLEAN
    BY <1>12, Zenon DEF Skew
  <2>3. rtc' \in Instants /\ UNCHANGED <<now, summer, pc, seen, target, field, retry, failed, lag>>
    BY <1>12 DEF Skew
  <2> QED
    BY <2>1, <2>2, <2>3 DEF TypeOK
<1>13. CASE Restart
  <2>1. Finish(TRUE) /\ UNCHANGED <<now, summer, rtc>> /\ budget' \in Budgets
    BY <1>13, MishapType DEF Restart
  <2> QED
    BY <2>1, FinishType DEF TypeOK
<1>14. CASE UNCHANGED vars
  BY <1>14 DEF vars, TypeOK
<1> QED
  BY <1>1, <1>2, <1>3, <1>4, <1>5, <1>6, <1>7, <1>8, <1>9, <1>10, <1>11, <1>12, <1>13, <1>14
  DEF Next, Work, Guard

\* Clocks, registers and bounds stay in their ranges: a register of the clock
\* that is written by itself (guard.go Guard) leaves a time the calendar has.
THEOREM TypeCorrect == Spec => []TypeOK
BY InitType, NextType, PTL DEF Spec

-----------------------------------------------------------------------------
(* The sequence.                                                           *)

\* The target is the host's local time of as many seconds ago as the sequence
\* has taken.
Aged == Syncing /\ clean => target = (Local(now) - lag) % Calendar

\* Above the register under guard the inverter's clock shows the target.
AboveIsSet == Syncing /\ clean => rtc \div Units[field] = target \div Units[field]

Inv == TypeOK /\ Aged /\ AboveIsSet

\* A sequence that starts has both.
LEMMA StartInv ==
  ASSUME TypeOK, syncRTCTo, UNCHANGED <<now, summer, rtc>>
  PROVE  Aged' /\ AboveIsSet'
<1>1. now \in Int /\ Calendar \in Nat \ {0} /\ rtc \in Instants
  BY Halves DEF TypeOK, Instants
<1>2. Local(now) \in Instants
  BY <1>1, LocalTurns
<1>3. Local(now)' = Local(now)
  BY DEF Local
<1>4. target' = Local(now) /\ lag' = 0 /\ field' = 1
  BY DEF syncRTCTo
<1>5. Aged'
  <2>1. Local(now) \in Int /\ 0 <= Local(now) /\ Local(now) < Calendar
    BY <1>1, <1>2 DEF Instants
  <2>2. Local(now) % Calendar = Local(now)
    BY <1>1, <2>1, ModSmall, Zenon
  <2>3. Local(now) - 0 = Local(now)
    BY <2>1
  <2>4. (Local(now)' - lag') % Calendar = target'
    BY <1>3, <1>4, <2>2, <2>3, Zenon
  <2> QED
    BY <2>4, Zenon DEF Aged
<1>6. AboveIsSet'
  <2>1. rtc' = rtc
    OBVIOUS
  <2>2. rtc \div Units[1] = 0 /\ Local(now) \div Units[1] = 0
    BY <1>1, <1>2, NothingAbove, Zenon
  <2>3. rtc' \div Units[field'] = target' \div Units[field']
    BY <1>4, <2>1, <2>2, Zenon
  <2> QED
    BY <2>3, Zenon DEF AboveIsSet
<1> QED
  BY <1>5, <1>6

\* Outside of a sequence there is nothing to keep.
LEMMA RestInv ==
  ASSUME pc' \notin {"read", "write", "confirm"} \/ ~clean'
  PROVE  Aged' /\ AboveIsSet'
BY DEF Aged, AboveIsSet, Syncing

LEMMA FinishInv ==
  ASSUME NEW err, Finish(err)
  PROVE  Aged' /\ AboveIsSet'
<1>1. pc' \notin {"read", "write", "confirm"}
  BY DEF Finish
<1> QED
  BY <1>1, RestInv

\* A step of the sequence that leaves the register under guard, and what is
\* above it.
LEMMA StayInv ==
  ASSUME Inv, Syncing, UNCHANGED <<now, summer, target, field, lag, clean>>,
         rtc' \div Units[field] = rtc \div Units[field]
  PROVE  Aged' /\ AboveIsSet'
<1>1. Local(now)' = Local(now)
  BY DEF Local
<1>2. Aged'
  <2>1. ASSUME clean PROVE target = (Local(now) - lag) % Calendar
    BY <2>1 DEF Inv, Aged
  <2> QED
    BY <1>1, <2>1 DEF Aged
<1>3. AboveIsSet'
  <2>1. ASSUME clean PROVE rtc \div Units[field] = target \div Units[field]
    BY <2>1 DEF Inv, AboveIsSet
  <2>2. field' = field /\ target' = target /\ clean' = clean
    OBVIOUS
  <2>3. ASSUME clean' PROVE rtc' \div Units[field'] = target' \div Units[field']
    BY <2>1, <2>2, <2>3, Zenon
  <2> QED
    BY <2>3, Zenon DEF AboveIsSet
<1> QED
  BY <1>2, <1>3

LEMMA FailsInv ==
  ASSUME Inv, Syncing, GuardFails, UNCHANGED <<now, summer>>,
         rtc' \div Units[field] = rtc \div Units[field]
  PROVE  Aged' /\ AboveIsSet'
<1>1. CASE ~retry
  <2>1. UNCHANGED <<now, summer, target, field, lag, clean>>
    BY <1>1 DEF GuardFails
  <2> QED
    BY <2>1, StayInv
<1>2. CASE retry
  <2>1. Finish(TRUE)
    BY <1>2 DEF GuardFails
  <2> QED
    BY <2>1, FinishInv
<1> QED
  BY <1>1, <1>2

\* The register under guard shows its target: it joins what is above the next.
LEMMA FieldIsSet ==
  ASSUME Inv, Syncing, clean, shown = wanted
  PROVE  rtc \div Weight(field) = target \div Weight(field)
<1>1. field \in Fields /\ rtc \in Int /\ target \in Int
  BY WantedRange DEF Inv, TypeOK
<1>2. rtc \div Units[field] = target \div Units[field]
  BY DEF Inv, AboveIsSet
<1>3. EncodeRTC(rtc)[field] = EncodeRTC(target)[field]
  BY DEF shown, wanted
<1>4. rtc \div Weight(field) = Radix(field) * (rtc \div Units[field]) + EncodeRTC(rtc)[field]
  BY <1>1, NextDigit, Zenon
<1>5. target \div Weight(field)
        = Radix(field) * (target \div Units[field]) + EncodeRTC(target)[field]
  BY <1>1, NextDigit, Zenon
<1> QED
  BY <1>2, <1>3, <1>4, <1>5, Zenon

LEMMA DoneInv ==
  ASSUME Inv, Syncing, GuardDone, shown = wanted, UNCHANGED <<now, summer, rtc>>
  PROVE  Aged' /\ AboveIsSet'
<1>1. CASE field = seconds
  <2>1. Finish(FALSE)
    BY <1>1 DEF GuardDone
  <2> QED
    BY <2>1, FinishInv
<1>2. CASE field # seconds
  <2>1. UNCHANGED <<target, lag, clean>> /\ field' = field + 1 /\ pc' = "read"
    BY <1>2 DEF GuardDone
  <2>2. Local(now)' = Local(now)
    BY DEF Local
  <2>3. Aged'
    <3>1. ASSUME clean PROVE target = (Local(now) - lag) % Calendar
      BY <3>1 DEF Inv, Aged
    <3> QED
      BY <2>1, <2>2, <3>1 DEF Aged
  <2>4. AboveIsSet'
    <3>1. ASSUME clean PROVE rtc \div Units[field + 1] = target \div Units[field + 1]
      BY <3>1, FieldIsSet DEF Weight
    <3>2. ASSUME clean' PROVE rtc' \div Units[field'] = target' \div Units[field']
      <4>1. clean /\ rtc' = rtc /\ target' = target /\ field' = field + 1
        BY <2>1, <3>2
      <4> QED
        BY <3>1, <4>1, Zenon
    <3> QED
      BY <3>2, Zenon DEF AboveIsSet
  <2> QED
    BY <2>3, <2>4
<1> QED
  BY <1>1, <1>2

\* A second that passes ages the target by one, and what does not roll over
\* stays set.
LEMMA TickInv ==
  ASSUME Inv, Tick, Syncing
  PROVE  Aged' /\ AboveIsSet'
<1>1. CASE ~clean'
  BY <1>1, RestInv
<1>2. CASE clean'
  <2>1. /\ now' = (now + 1) % Calendar
        /\ rtc' = (rtc + 1) % Calendar
        /\ lag' = lag + 1
        /\ UNCHANGED <<summer, target, field>>
    BY DEF Tick, Syncing
  <2>2. clean /\ ~rollsOver /\ (now \in summer <=> now' \in summer)
    BY <1>2 DEF Tick, Syncing
  <2>3. /\ now \in Instants /\ rtc \in Instants /\ field \in Fields
        /\ lag \in Int /\ Calendar \in Nat \ {0}
    BY Halves DEF Inv, TypeOK
  <2>4. now' \in Instants
    BY <2>1, <2>3, NextInstant, Zenon
  <2>5. Aged'
    <3> DEFINE L == Local(now)
    <3>1. Local(now') = (L + 1) % Calendar
      BY <2>1, <2>2, <2>3, <2>4, LocalNext, Zenon
    <3>2. Local(now)' = Local(now')
      BY <2>1 DEF Local
    <3>3. L \in Int
      <4>1. now \in Int
        BY <2>3 DEF Instants
      <4>2. L \in Instants
        BY <4>1, LocalTurns
      <4> QED
        BY <2>3, <4>2 DEF Instants
    <3>4. target = (L - lag) % Calendar
      BY <2>2 DEF Inv, Aged
    <3> HIDE DEF L
    <3>5. L + 1 \in Int /\ -(lag + 1) \in Int
      BY <2>3, <3>3
    <3>6. (((L + 1) % Calendar) + (-(lag + 1))) % Calendar = (L + 1 + (-(lag + 1))) % Calendar
      BY <2>3, <3>5, ModSum, Zenon
    <3>7. L + 1 + (-(lag + 1)) = L - lag
      BY <2>3, <3>3
    <3>8. PICK m \in Int : m = (L + 1) % Calendar
      BY <2>3, <3>5, Division
    <3>9. m - (lag + 1) = m + (-(lag + 1))
      BY <2>3
    <3>10. (m - (lag + 1)) % Calendar = target
      BY <3>4, <3>6, <3>7, <3>8, <3>9, Zenon
    <3>11. (Local(now)' - lag') % Calendar = target'
      BY <2>1, <3>1, <3>2, <3>8, <3>10, Zenon
    <3> QED
      BY <3>11, Zenon DEF Aged
  <2>6. AboveIsSet'
    <3>1. (rtc + 1) % Radix(seconds) # 0
      BY <2>2 DEF rollsOver, Syncing
    <3>2. \A i \in Fields : (rtc + 1) \div Units[i] = rtc \div Units[i]
      BY <2>3, <3>1, NoRollover, Zenon
    <3>3. rtc' = rtc + 1
      <4>1. (rtc + 1) \div Units[1] = 0
        BY <2>3, <3>2, NothingAbove, ZeroInstant, Zenon
      <4>2. (rtc + 1) \div Calendar = 0 /\ rtc + 1 \in Int
        BY <2>3, <4>1 DEF Calendar, Instants
      <4>3. PICK q \in Int, r \in Int : /\ q = (rtc + 1) \div Calendar
                                        /\ r = (rtc + 1) % Calendar
                                        /\ rtc + 1 = Calendar * q + r
        BY <2>3, <4>2, Division
      <4>4. q = 0 /\ rtc + 1 = Calendar * q + r
        BY <4>2, <4>3, Zenon
      <4>5. rtc + 1 = r
        BY <2>3, <4>4
      <4> QED
        BY <2>1, <4>3, <4>5, Zenon
    <3>4. rtc \div Units[field] = target \div Units[field]
      BY <2>2 DEF Inv, AboveIsSet
    <3>5. rtc' \div Units[field'] = target' \div Units[field']
      <4>1. field' = field /\ target' = target
        BY <2>1
      <4> QED
        BY <2>3, <3>2, <3>3, <3>4, <4>1, Zenon
    <3> QED
      BY <3>5, Zenon DEF AboveIsSet
  <2> QED
    BY <2>5, <2>6
<1> QED
  BY <1>1, <1>2

LEMMA Inductive ==
  /\ Init => Inv
  /\ Inv /\ [Next]_vars => Inv'
<1>1. Init => Inv
  BY InitType DEF Init, Inv, Aged, AboveIsSet, Syncing
<1>2. ASSUME Inv, [Next]_vars PROVE Aged' /\ AboveIsSet'
  <2>0. TypeOK
    BY <1>2 DEF Inv
  <2>1. CASE SyncCommand
    BY <2>0, <2>1, StartInv DEF SyncCommand
  <2>2. CASE PollRead
    <3>1. pc' \notin {"read", "write", "confirm"}
      BY <2>2 DEF PollRead
    <3> QED
      BY <3>1, RestInv
  <2>3. CASE PollFails
    BY <2>3, FinishInv DEF PollFails
  <2>4. CASE MaybeSyncRTC
    <3>1. UNCHANGED <<now, summer, rtc>> /\ (syncRTCTo \/ Finish(FALSE))
      BY <2>4 DEF MaybeSyncRTC
    <3> QED
      BY <2>0, <3>1, StartInv, FinishInv
  <2>5. CASE GuardRead
    <3>1. Syncing /\ UNCHANGED <<now, summer, rtc>>
      BY <2>5 DEF GuardRead, Syncing
    <3>2. CASE shown = wanted
      <4>1. GuardDone
        BY <2>5, <3>2 DEF GuardRead
      <4> QED
        BY <1>2, <3>1, <3>2, <4>1, DoneInv
    <3>3. CASE shown # wanted
      <4>1. UNCHANGED <<now, summer, target, field, lag, clean>>
        BY <2>5, <3>3 DEF GuardRead
      <4> QED
        BY <1>2, <3>1, <4>1, StayInv
    <3> QED
      BY <3>2, <3>3
  <2>6. CASE GuardReadFails
    <3>1. Syncing /\ GuardFails /\ UNCHANGED <<now, summer, rtc>>
      BY <2>6 DEF GuardReadFails, Syncing
    <3> QED
      BY <1>2, <3>1, FailsInv
  <2>7. CASE GuardWrite
    <3>1. Syncing /\ UNCHANGED <<now, summer, target, field, lag, clean>>
      BY <2>7 DEF GuardWrite, Syncing
    <3>2. rtc' \div Units[field] = rtc \div Units[field]
      BY <2>0, <2>7, WantedRange DEF GuardWrite
    <3> QED
      BY <1>2, <3>1, <3>2, StayInv
  <2>8. CASE GuardWriteFails
    <3>1. Syncing /\ GuardFails /\ UNCHANGED <<now, summer>>
      BY <2>8 DEF GuardWriteFails, Syncing
    <3>2. rtc' \div Units[field] = rtc \div Units[field]
      BY <2>0, <2>8, WantedRange DEF GuardWriteFails
    <3> QED
      BY <1>2, <3>1, <3>2, FailsInv
  <2>9. CASE GuardConfirm
    <3>1. Syncing /\ UNCHANGED <<now, summer, rtc>>
      BY <2>9 DEF GuardConfirm, Syncing
    <3>2. CASE shown = wanted
      <4>1. GuardDone
        BY <2>9, <3>2 DEF GuardConfirm
      <4> QED
        BY <1>2, <3>1, <3>2, <4>1, DoneInv
    <3>3. CASE shown # wanted
      <4>1. Finish(TRUE)
        BY <2>9, <3>3 DEF GuardConfirm
      <4> QED
        BY <4>1, FinishInv
    <3> QED
      BY <3>2, <3>3
  <2>10. CASE GuardConfirmFails
    BY <2>10, FinishInv DEF GuardConfirmFails
  <2>11. CASE Tick
    <3>1. CASE Syncing
      BY <1>2, <2>11, <3>1, TickInv
    <3>2. CASE ~Syncing
      <4>1. pc' \notin {"read", "write", "confirm"}
        BY <2>11, <3>2 DEF Tick, Syncing
      <4> QED
        BY <4>1, RestInv
    <3> QED
      BY <3>1, <3>2
  <2>12. CASE Skew
    <3>1. pc' \notin {"read", "write", "confirm"} \/ ~clean'
      BY <2>12 DEF Skew
    <3> QED
      BY <3>1, RestInv
  <2>13. CASE Restart
    BY <2>13, FinishInv DEF Restart
  <2>14. CASE UNCHANGED vars
    BY <1>2, <2>14 DEF vars, Inv, Aged, AboveIsSet, Syncing, Local
  <2> QED
    BY <1>2, <2>1, <2>2, <2>3, <2>4, <2>5, <2>6, <2>7, <2>8, <2>9, <2>10, <2>11, <2>12,
       <2>13, <2>14
    DEF Next, Work, Guard
<1> QED
  BY <1>1, <1>2, NextType DEF Inv

\* At the end of a sequence the clock shows the target, which is as old as the
\* sequence is long.
LEMMA SequenceEnds ==
  ASSUME Inv, Syncing, clean, shown = wanted, field = seconds
  PROVE  Drift(rtc, Local(now)) = -lag
<1>1. /\ rtc \in Int /\ target \in Int /\ now \in Int
      /\ lag \in Int /\ 0 <= lag /\ 2 * lag <= Calendar
      /\ Calendar \in Nat \ {0}
  BY WantedRange, Halves, LagBound DEF Inv, TypeOK
<1>2. rtc = target
  <2>1. rtc \div Weight(seconds) = target \div Weight(seconds)
    BY FieldIsSet
  <2>2. Weight(seconds) = 1
    BY UnitsDivide
  <2>3. rtc \div 1 = rtc /\ target \div 1 = target
    BY <1>1
  <2> QED
    BY <2>1, <2>2, <2>3, Zenon
<1> DEFINE L == Local(now)
<1>3. L \in Int
  <2>1. L \in Instants
    BY <1>1, LocalTurns
  <2> QED
    BY <1>1, <2>1 DEF Instants
<1>4. target = (L - lag) % Calendar
  BY DEF Inv, Aged
<1> HIDE DEF L
<1>5. L - lag \in Int
  BY <1>1, <1>3
<1>6. PICK k \in Int, r \in Int : r = (L - lag) % Calendar /\ L - lag = Calendar * k + r
  BY <1>1, <1>5, Division
<1>7. rtc = r
  BY <1>2, <1>4, <1>6, Zenon
<1>8. L - lag = Calendar * k + r
  BY <1>6, Zenon
<1>9. Calendar * k \in Int /\ Calendar * (-k) = -(Calendar * k)
  BY <1>1
<1>10. rtc - L = -lag + Calendar * (-k)
  BY <1>1, <1>3, <1>7, <1>8, <1>9
<1>11. -lag \in Int /\ -k \in Int /\ -Half <= -lag /\ -lag < Calendar - Half
  BY <1>1, Halves
<1> QED
  BY <1>1, <1>3, <1>10, <1>11, DriftIs DEF L

\* SyncSetsClock for every calendar and every zone: a sync that reports success
\* (syncRTCTo, writeRegisters, Guard) leaves the clock behind the host by exactly
\* the seconds it took, however many of its frames failed or were retried.
THEOREM SyncIsExact == Spec => SyncSetsClock
<1>1. ASSUME Inv, [Next]_vars
      PROVE  [Syncing /\ pc' = "idle" /\ ~failed' /\ clean
                => Drift(rtc', Local(now')) \in (-lag) .. 0]_vars
  <2> SUFFICES ASSUME Next, Syncing, pc' = "idle", ~failed', clean
               PROVE  Drift(rtc', Local(now')) \in (-lag) .. 0
    BY <1>1 DEF vars
  <2>1. ~SyncCommand /\ ~PollRead /\ ~PollFails /\ ~MaybeSyncRTC
    BY DEF SyncCommand, PollRead, PollFails, MaybeSyncRTC, Syncing
  <2>2. ~Restart /\ ~GuardConfirmFails /\ ~GuardWrite
    BY DEF Restart, GuardConfirmFails, Finish, GuardWrite
  <2>3. ~GuardReadFails /\ ~GuardWriteFails
    BY DEF GuardReadFails, GuardWriteFails, GuardFails, Finish
  <2>4. ~Tick /\ ~Skew
    BY DEF Tick, Skew, Syncing
  <2>5. GuardRead \/ GuardConfirm
    BY <2>1, <2>2, <2>3, <2>4 DEF Next, Work, Guard
  <2>6. shown = wanted /\ field = seconds /\ UNCHANGED <<now, summer, rtc>>
    BY <2>5 DEF GuardRead, GuardConfirm, GuardDone, Finish
  <2>7. Drift(rtc, Local(now)) = -lag
    BY <1>1, <2>6, SequenceEnds
  <2>8. Drift(rtc', Local(now')) = Drift(rtc, Local(now))
    BY <2>6
  <2>9. lag \in Int /\ 0 <= lag
    BY <1>1, ClockBoundAssumption DEF Inv, TypeOK
  <2> QED
    BY <2>7, <2>8, <2>9
<1> QED
  BY <1>1, Inductive, PTL DEF Spec, SyncSetsClock

\* What the decision compares is the error of the clock less the seconds since
\* it was read; where that is more than half a turn, it is off either way round.
LEMMA StaleDistance ==
  ASSUME TypeOK, SameOffset
  PROVE  drifted <=> Error > Threshold + lag \/ Error < lag - Threshold
<1>1. /\ rtc \in Int /\ seen \in Int /\ now \in Int
      /\ lag \in Int /\ 0 <= lag /\ lag <= MaxLag
      /\ Calendar \in Nat \ {0}
  BY Halves, ClockBoundAssumption DEF TypeOK, Instants
<1>2. PICK o \in Int : o = offset(seen) /\ o = offset(now)
  BY <1>1, LocalTurns DEF offset, SameOffset
<1> DEFINE S == Local(seen)
           L == Local(now)
           E == Drift(rtc, L)
<1>3. S \in Int /\ L \in Int
  <2>1. S \in Instants /\ L \in Instants
    BY <1>1, LocalTurns
  <2> QED
    BY <1>1, <2>1 DEF Instants
<1>4. PICK j \in Int : seen + o = S + Calendar * j
  BY <1>1, <1>2, LocalTurns
<1>5. PICK k \in Int : now + o = L + Calendar * k
  BY <1>1, <1>2, LocalTurns
<1>6. PICK m \in Int, r \in Int : r = (rtc - lag) % Calendar /\ rtc - lag = Calendar * m + r
  <2>1. rtc - lag \in Int /\ Calendar \in Nat \ {0}
    BY <1>1
  <2>2. PICK m \in Int, r \in Int : /\ m = (rtc - lag) \div Calendar
                                    /\ r = (rtc - lag) % Calendar
                                    /\ 0 <= r
                                    /\ r < Calendar
                                    /\ rtc - lag = Calendar * m + r
    BY <2>1, Division, Zenon
  <2> QED
    BY <2>2, Zenon
<1>7. S = r
  BY <1>6, Zenon DEF SameOffset
<1>8. E \in Int /\ -Half <= E /\ E < Calendar - Half
  BY <1>1, <1>3, DriftTurns
<1>9. PICK n \in Int : rtc - L = E + Calendar * n
  BY <1>1, <1>3, DriftTurns
<1> HIDE DEF S, L, E
<1>10. rtc - lag = Calendar * m + S
  BY <1>6, <1>7, Zenon
<1> DEFINE t == n + j - k - m
<1>11. t \in Int
  OBVIOUS
<1>12. Calendar * t = Calendar * n + Calendar * j - Calendar * k - Calendar * m
  BY <1>1
<1>13. /\ Calendar * n \in Int /\ Calendar * j \in Int
       /\ Calendar * k \in Int /\ Calendar * m \in Int
  BY <1>1
<1> HIDE DEF t
<1>14. seen - now = (E - lag) + Calendar * t
  BY <1>1, <1>3, <1>4, <1>5, <1>8, <1>9, <1>10, <1>12, <1>13
<1>15. E - lag \in Int
  BY <1>1, <1>8
<1>16. Threshold \in Nat /\ MaxLag \in Nat /\ Threshold + MaxLag < Half + 1
  BY LagBound
<1>17. CASE -Half <= E - lag
  <2>1. E - lag < Calendar - Half
    BY <1>1, <1>8, Halves
  <2>2. Drift(seen, now) = E - lag
    BY <1>1, <1>11, <1>14, <1>15, <1>17, <2>1, DriftIs
  <2>3. abs(E - lag) > Threshold <=> E > Threshold + lag \/ E < lag - Threshold
    BY <1>1, <1>8, <1>16 DEF abs
  <2>4. drifted <=> E > Threshold + lag \/ E < lag - Threshold
    BY <2>2, <2>3, Zenon DEF drifted
  <2> QED
    BY <2>4, Zenon DEF Error, E, L
<1>18. CASE E - lag < -Half
  <2> DEFINE x == E - lag + Calendar
  <2>1. x \in Int /\ -Half <= x /\ x < Calendar - Half /\ x > Threshold
    BY <1>1, <1>8, <1>18, Halves, LagBound
  <2>2. t - 1 \in Int /\ Calendar * (t - 1) = Calendar * t - Calendar /\ Calendar * t \in Int
    BY <1>1, <1>11
  <2>3. seen - now = x + Calendar * (t - 1)
    BY <1>1, <1>8, <1>14, <2>2
  <2> HIDE DEF x
  <2>4. Drift(seen, now) = x
    BY <1>1, <2>1, <2>2, <2>3, DriftIs
  <2>5. abs(x) > Threshold
    BY <1>16, <2>1 DEF abs
  <2>6. E < lag - Threshold
    BY <1>1, <1>8, <1>16, <1>18, Halves
  <2>7. drifted
    BY <2>4, <2>5, Zenon DEF drifted
  <2> QED
    BY <2>6, <2>7, Zenon DEF Error, E, L
<1> QED
  BY <1>1, <1>8, <1>17, <1>18, Halves

\* SyncsWhenOff for every calendar, zone and threshold, and for jobs that take
\* longer than the threshold: the sync of a poll (maybeSyncRTC) is decided on a
\* clock read earlier, and errs by the seconds in between and no more.
THEOREM FiresOnDrift == Spec => SyncsWhenOff
<1>1. ASSUME TypeOK, [Next]_vars
      PROVE  [Decides /\ SyncEnabled /\ clean /\ SameOffset
                => (Fires <=> Error > Threshold + lag \/ Error < lag - Threshold)]_vars
  <2> SUFFICES ASSUME Next, Decides, SyncEnabled, SameOffset
               PROVE  Fires <=> Error > Threshold + lag \/ Error < lag - Threshold
    BY <1>1 DEF vars
  <2>1. pc = "polled" /\ pc' # "polled" /\ ~failed'
    BY DEF Decides
  <2>2. ~SyncCommand /\ ~PollRead /\ ~PollFails /\ ~Restart
    BY <2>1 DEF SyncCommand, PollRead, PollFails, Restart, Finish
  <2>3. ~Guard
    BY <2>1 DEF Guard, GuardRead, GuardReadFails, GuardWrite, GuardWriteFails, GuardConfirm,
                GuardConfirmFails
  <2>4. ~Tick /\ ~Skew
    BY <2>1 DEF Tick, Skew
  <2>5. MaybeSyncRTC
    BY <2>2, <2>3, <2>4 DEF Next, Work
  <2>6. Fires <=> drifted
    <3>1. CASE drifted
      BY <2>1, <2>5, <3>1 DEF MaybeSyncRTC, syncRTCTo, Fires
    <3>2. CASE ~drifted
      BY <2>1, <2>5, <3>2 DEF MaybeSyncRTC, Finish, Fires
    <3> QED
      BY <3>1, <3>2
  <2> QED
    BY <1>1, <2>6, StaleDistance
<1> QED
  BY <1>1, TypeCorrect, PTL DEF Spec, SyncsWhenOff

=============================================================================
