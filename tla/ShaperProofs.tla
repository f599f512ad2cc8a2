---------------------------- MODULE ShaperProofs ----------------------------
(***************************************************************************)
(* Proofs about Shaper: for every speed, size of frames, resolution of the *)
(* clock and width of the words that satisfy ShaperAssumption.             *)
(***************************************************************************)
EXTENDS Shaper, TLAPS

\* Bytes per second, plus one for the rounding of shaper_avail()'s division.
Rate == max_speed + 1

\* The largest size is one of the sizes.
LEMMA MaxSizeFact == MaxSize \in Nat /\ \A n \in Sizes : n \in Nat /\ n <= MaxSize
<1>1. PICK m \in Sizes : \A n \in Sizes : n <= m
  BY ShaperAssumption
<1>2. \E x \in Sizes : \A y \in Sizes : x >= y
  BY <1>1, ShaperAssumption
<1>3. MaxSize \in Sizes /\ \A y \in Sizes : MaxSize >= y
  BY <1>2 DEF MaxSize, Max
<1> QED
  BY <1>3, ShaperAssumption

\* Products keep the order.
LEMMA Monotone ==
  ASSUME NEW a \in Int, NEW b \in Int, NEW c \in Nat, a <= b
  PROVE  a * c <= b * c
  OBVIOUS

\* What a quotient says of the dividend.
LEMMA Quotient ==
  ASSUME NEW b \in Nat, NEW t \in Nat \ {0}, NEW q \in Nat, b \div t <= q
  PROVE  b < (q + 1) * t
<1>1. b \div t \in Nat
  OBVIOUS
<1>2. b < (b \div t + 1) * t
  OBVIOUS
<1>3. (b \div t + 1) * t <= (q + 1) * t
  BY <1>1, Monotone
<1> QED
  BY <1>1, <1>2, <1>3

----------------------------------------------------------------------------
\* last_time is not in the future unless the clock was set back.
AgeOK == ~back => age \in Nat

\* Within a window no more is counted than a second and a frame.
BytesBound == ~back => bytes <= max_speed + MaxSize

\* Nor more than its age, or one tick, allows, and a frame.
AtLeast1(n) == IF n = 0 THEN 1 ELSE n
CountBound == ~back => bytes * Sec <= Rate * AtLeast1(age) + MaxSize * Sec

Inv == TypeOK /\ AgeOK /\ BytesBound /\ CountBound /\ WindowBound

\* bytes * 1000 fits into a word as long as the count is bounded.
LEMMA NotOverflown ==
  ASSUME TypeOK, BytesBound
  PROVE  NoOverflow
<1> SUFFICES ASSUME ~back PROVE bytes * Sec < Word
  BY DEF NoOverflow
<1>1. bytes \in Nat /\ bytes <= max_speed + 2 + MaxSize
  BY ShaperAssumption, MaxSizeFact DEF TypeOK, CountsOK, BytesBound
<1>2. bytes * Sec <= (max_speed + 2 + MaxSize) * Sec
  BY <1>1, Monotone, ShaperAssumption, MaxSizeFact
<1>3. bytes * Sec \in Nat /\ (max_speed + 2 + MaxSize) * Sec \in Nat
  BY <1>1, ShaperAssumption, MaxSizeFact
<1> QED
  BY <1>2, <1>3, ShaperAssumption

\* What shaper_avail() has found out when it agrees.
LEMMA SpeedKept ==
  ASSUME Inv, ~back, speed <= max_speed
  PROVE  bytes * Sec < Rate * AtLeast1(age)
<1> DEFINE b == bytes * Sec
           t == AtLeast1(age)
<1>1. b \in Nat /\ b < Word
  BY NotOverflown, ShaperAssumption DEF Inv, TypeOK, CountsOK, NoOverflow
<1>2. age \in Nat /\ age < Word
  BY ShaperAssumption DEF Inv, TypeOK, CountsOK, AgeOK
<1>3. b % Word = b
  BY <1>1, ShaperAssumption
<1>4. tv2ms(age) = t /\ t \in Nat \ {0}
  BY <1>2, ShaperAssumption DEF tv2ms, AtLeast1
<1>5. b \div t <= max_speed
  BY <1>3, <1>4 DEF speed
<1> HIDE DEF b, t
<1>6. b < (max_speed + 1) * t
  BY <1>1, <1>4, <1>5, Quotient, ShaperAssumption
<1> QED
  BY <1>6 DEF Rate, b, t

\* The window's bound, for any count and age.
Bound(b, a) == Positive(b * Sec + Rate * (Sec - a))

\* What is left of a number once it is not negative.
LEMMA PositiveFact ==
  ASSUME NEW n \in Int
  PROVE  Positive(n) \in Nat /\ Positive(n) >= n
  BY DEF Positive

\* The products in the bounds: their types and how they distribute.
LEMMA ProductsFact ==
  ASSUME NEW b \in Nat, NEW a \in Int
  PROVE  /\ Rate \in Nat \ {0}
         /\ b * Sec \in Nat /\ Rate * a \in Int /\ Rate * (Sec - a) \in Int
         /\ Rate * Sec \in Nat /\ MaxSize * Sec \in Nat
         /\ Rate * (Sec - a) = Rate * Sec - Rate * a
         /\ Rate * (Sec - (a + 1)) = Rate * (Sec - a) - Rate
         /\ Bound(b, a) \in Nat
<1>1. Rate \in Nat \ {0} /\ b * Sec \in Nat /\ Rate * a \in Int
  BY ShaperAssumption DEF Rate
<1>2. Rate * Sec \in Nat /\ MaxSize * Sec \in Nat /\ Rate * (Sec - a) \in Int
  BY <1>1, ShaperAssumption, MaxSizeFact
<1>3. Rate * (Sec - a) = Rate * Sec - Rate * a
  BY <1>1, ShaperAssumption
<1>4. Rate * (Sec - (a + 1)) = Rate * (Sec - a) - Rate
  BY <1>1, ShaperAssumption
<1>5. Bound(b, a) \in Nat
  BY <1>1, <1>2, PositiveFact DEF Bound
<1> QED
  BY <1>1, <1>2, <1>3, <1>4, <1>5

\* Before the first frame nothing is counted and the last window is long over.
LEMMA InitInv == Init => Inv
<1> SUFFICES ASSUME Init PROVE Inv
  OBVIOUS
<1> USE ShaperAssumption DEF Init
<1>1. TypeOK /\ AgeOK
  <2>1. CountsOK
    BY DEF CountsOK
  <2>2. FlagsOK
    BY DEF FlagsOK
  <2>3. AgeOK
    BY DEF AgeOK
  <2> QED
    BY <2>1, <2>2, <2>3 DEF TypeOK
<1>2. BytesBound
  BY MaxSizeFact DEF BytesBound
<1>3. bytes \in Nat /\ age \in Nat
  OBVIOUS
<1>4. CountBound
  <2>1. AtLeast1(age) \in Nat /\ Rate \in Nat
    BY <1>3 DEF AtLeast1, Rate
  <2>2. Rate * AtLeast1(age) \in Nat /\ MaxSize * Sec \in Nat /\ bytes * Sec = 0
    BY <2>1, MaxSizeFact
  <2> QED
    BY <2>2 DEF CountBound
<1>5. WindowBound
  BY <1>3, ProductsFact DEF WindowBound, Bound, Rate
<1> QED
  BY <1>1, <1>2, <1>4, <1>5 DEF Inv

\* A frame in a window that goes on: it began in this second of the clock.
LEMMA AcceptInWindow ==
  ASSUME Inv, NEW n \in Sizes, Accept(n), ~NewSecond
  PROVE  Inv'
<1> USE ShaperAssumption DEF Accept
<1>1. n \in Nat /\ n <= MaxSize /\ MaxSize \in Nat
  BY MaxSizeFact
<1>2. bytes' = bytes + n /\ age' = age /\ back' = back /\ bucket' = bucket + n * Sec
  OBVIOUS
<1>3. bytes \in Nat /\ bucket \in Nat /\ age \in Int /\ n * Sec \in Nat
  BY <1>1 DEF Inv, TypeOK, CountsOK
<1>4. TypeOK' /\ AgeOK'
  <2>1. CountsOK'
    BY <1>1, <1>2, <1>3 DEF Inv, TypeOK, CountsOK
  <2>2. FlagsOK'
    BY <1>2 DEF Inv, TypeOK, FlagsOK
  <2>3. AgeOK'
    BY <1>2 DEF Inv, AgeOK
  <2> QED
    BY <2>1, <2>2, <2>3 DEF TypeOK
<1>5. CASE back
  BY <1>2, <1>4, <1>5 DEF Inv, BytesBound, CountBound, WindowBound
<1>6. CASE ~back
  <2>1. bytes * Sec < Rate * AtLeast1(age)
    BY <1>6, SpeedKept
  <2>2. age \in Nat /\ age < Sec /\ AtLeast1(age) \in Nat /\ AtLeast1(age) <= Sec
    BY <1>6 DEF Inv, AgeOK, TypeOK, CountsOK, NewSecond, AtLeast1
  <2>3. bytes' * Sec = bytes * Sec + n * Sec
    BY <1>1, <1>2, <1>3
  <2>4. n * Sec <= MaxSize * Sec
    BY <1>1, Monotone
  <2>5. Rate \in Nat /\ Rate * AtLeast1(age) \in Nat /\ bytes * Sec \in Nat
    BY <1>3, <2>2, ProductsFact
  <2>6. BytesBound'
    <3>1. Rate * AtLeast1(age) <= Rate * Sec
      BY <2>2, <2>5
    <3>2. bytes * Sec < Rate * Sec
      BY <2>1, <2>5, <3>1
    <3>3. bytes < Rate
      BY <3>2, <2>5, <1>3
    <3> QED
      BY <3>3, <1>1, <1>2, <1>3 DEF BytesBound, Rate
  <2>7. CountBound'
    BY <2>1, <2>3, <2>4, <2>5, <1>1, <1>2, <1>3 DEF CountBound
  <2>8. WindowBound'
    <3>1. Rate * (Sec - age) \in Nat
      BY <2>2, <2>5
    <3>2. bucket <= bytes * Sec + Rate * (Sec - age)
      BY <3>1, <2>5, <1>6 DEF Inv, WindowBound, Positive, Rate
    <3>3. bucket' <= bytes' * Sec + Rate * (Sec - age')
      BY <3>1, <3>2, <2>3, <2>5, <1>2, <1>3
    <3> QED
      BY <3>3, <3>1, <2>3, <2>5, <1>2, <1>3 DEF WindowBound, Positive, Rate
  <2> QED
    BY <1>4, <2>6, <2>7, <2>8 DEF Inv
<1> QED
  BY <1>5, <1>6

\* A frame that begins a window: what the last one counted took its time.
LEMMA AcceptNewWindow ==
  ASSUME Inv, NEW n \in Sizes, Accept(n), NewSecond
  PROVE  Inv'
<1> USE ShaperAssumption DEF Accept
<1>1. n \in Nat /\ n <= MaxSize /\ MaxSize \in Nat
  BY MaxSizeFact
<1>2. bytes' = n /\ age' = 0 /\ back' = back /\ bucket' = bucket + n * Sec
  OBVIOUS
<1>3. bytes \in Nat /\ bucket \in Nat /\ age \in Int /\ n * Sec \in Nat
  BY <1>1 DEF Inv, TypeOK, CountsOK
<1>4. TypeOK' /\ AgeOK'
  <2>1. CountsOK'
    BY <1>1, <1>2, <1>3 DEF Inv, TypeOK, CountsOK
  <2>2. FlagsOK'
    BY <1>2 DEF Inv, TypeOK, FlagsOK
  <2>3. AgeOK'
    BY <1>2 DEF AgeOK
  <2> QED
    BY <2>1, <2>2, <2>3 DEF TypeOK
<1>5. BytesBound'
  BY <1>1, <1>2 DEF BytesBound
<1>6. CountBound'
  <2>1. n * Sec <= MaxSize * Sec
    BY <1>1, Monotone
  <2>2. AtLeast1(age') = 1 /\ Rate \in Nat
    BY <1>2 DEF AtLeast1, Rate
  <2> QED
    BY <2>1, <2>2, <1>1, <1>2, <1>3 DEF CountBound
<1>7. WindowBound'
  <2> SUFFICES ASSUME ~back PROVE bucket' <= Positive(n * Sec + Rate * Sec)
    BY <1>2 DEF WindowBound, Rate
  <2>1. age \in Nat \ {0} /\ AtLeast1(age) = age
    BY DEF Inv, AgeOK, TypeOK, CountsOK, NewSecond, AtLeast1
  <2>2. bytes * Sec < Rate * age
    BY <2>1, SpeedKept
  <2>3. /\ Rate * age \in Int /\ bytes * Sec \in Nat /\ Rate * Sec \in Nat
        /\ Rate * (Sec - age) = Rate * Sec - Rate * age
    BY <1>3, ProductsFact
  <2>4. bucket <= Rate * Sec
    <3>1. bucket <= Positive(bytes * Sec + Rate * (Sec - age))
      BY DEF Inv, WindowBound, Rate
    <3>2. bytes * Sec + Rate * (Sec - age) < Rate * Sec
      BY <2>2, <2>3
    <3>3. Positive(bytes * Sec + Rate * (Sec - age)) <= Rate * Sec
      BY <3>2, <2>3 DEF Positive
    <3> QED
      BY <3>1, <3>3, <2>3, <1>3, PositiveFact
  <2> QED
    BY <2>3, <2>4, <1>2, <1>3, PositiveFact
<1> QED
  BY <1>4, <1>5, <1>6, <1>7 DEF Inv

\* Time empties the bucket as fast as the window grows old.
LEMMA TickInv ==
  ASSUME Inv, Tick
  PROVE  Inv'
<1> USE ShaperAssumption DEF Tick
<1>1. bytes \in Nat /\ bucket \in Nat /\ age \in Int /\ age' = age + 1 /\ bytes' = bytes
  BY DEF Inv, TypeOK, CountsOK
<1>2. TypeOK' /\ AgeOK'
  <2>1. CountsOK'
    <3>1. ms' \in 0 .. Sec - 1
      BY DEF Inv, TypeOK, CountsOK
    <3>2. age' \in Int /\ age' <= MaxAge /\ bucket' \in Nat
      BY <1>1
    <3> QED
      BY <3>1, <3>2, <1>1 DEF CountsOK
  <2>2. FlagsOK'
    BY DEF Inv, TypeOK, FlagsOK
  <2>3. AgeOK'
    BY <1>1 DEF Inv, AgeOK
  <2> QED
    BY <2>1, <2>2, <2>3 DEF TypeOK
<1>3. BytesBound'
  BY <1>1 DEF Inv, BytesBound
<1>4. CASE back
  BY <1>2, <1>3, <1>4 DEF Inv, CountBound, WindowBound
<1>5. CASE ~back
  <2>1. /\ Rate \in Nat \ {0} /\ bytes * Sec \in Nat /\ Rate * (Sec - age) \in Int
        /\ Rate * (Sec - (age + 1)) = Rate * (Sec - age) - Rate
        /\ MaxSize * Sec \in Nat
    BY <1>1, ProductsFact
  <2>2. CountBound'
    <3>1. age \in Nat
      BY <1>5 DEF Inv, AgeOK
    <3>2. AtLeast1(age) \in Nat /\ AtLeast1(age') \in Nat /\ AtLeast1(age) <= AtLeast1(age')
      BY <1>1, <3>1 DEF AtLeast1
    <3>3. Rate * AtLeast1(age) <= Rate * AtLeast1(age')
      BY <2>1, <3>2
    <3>4. Rate * AtLeast1(age) \in Nat /\ Rate * AtLeast1(age') \in Nat
      BY <2>1, <3>2
    <3> QED
      BY <1>1, <1>5, <2>1, <3>3, <3>4 DEF Inv, CountBound
  <2>3. WindowBound'
    <3>1. bucket <= Positive(bytes * Sec + Rate * (Sec - age))
      BY <1>5 DEF Inv, WindowBound, Rate
    <3>2. bucket' = IF bucket > Rate THEN bucket - Rate ELSE 0
      BY DEF Rate
    <3>3. bucket' <= Positive(bytes * Sec + Rate * (Sec - age) - Rate)
      BY <3>1, <3>2, <2>1, <1>1 DEF Positive
    <3> QED
      BY <3>3, <2>1, <1>1 DEF WindowBound, Rate
  <2> QED
    BY <1>2, <1>3, <2>2, <2>3 DEF Inv
<1> QED
  BY <1>4, <1>5

\* A new session of the process starts with an empty bucket.
LEMMA RestartInv ==
  ASSUME Inv, Restart
  PROVE  Inv'
<1> USE ShaperAssumption DEF Restart
<1>1. age \in Int /\ age' = age /\ bytes' = 0 /\ bucket' = 0
  BY DEF Inv, TypeOK, CountsOK
<1>2. ~back' => age \in Nat
  <2>1. ~back' => ~(age < 0)
    BY Zenon
  <2>2. ~(age < 0) => age \in Nat
    BY <1>1
  <2> QED
    BY <2>1, <2>2
<1>3. TypeOK' /\ AgeOK'
  <2>1. CountsOK'
    BY <1>1 DEF Inv, TypeOK, CountsOK
  <2>2. FlagsOK'
    <3>1. back' \in BOOLEAN
      <4> DEFINE P == age < 0
      <4>1. back' = P
        OBVIOUS
      <4>2. P \in BOOLEAN
        BY <1>1
      <4> HIDE DEF P
      <4> QED
        BY <4>1, <4>2
    <3> QED
      BY <3>1 DEF FlagsOK
  <2>3. AgeOK'
    BY <1>1, <1>2 DEF AgeOK
  <2> QED
    BY <2>1, <2>2, <2>3 DEF TypeOK
<1>4. BytesBound'
  BY <1>1, MaxSizeFact DEF BytesBound
<1>5. CountBound'
  <2> SUFFICES ASSUME ~back' PROVE 0 <= Rate * AtLeast1(age) + MaxSize * Sec
    BY <1>1 DEF CountBound
  <2>1. age \in Nat
    BY <1>2
  <2>2. AtLeast1(age) \in Nat /\ Rate \in Nat /\ MaxSize \in Nat
    BY <2>1, MaxSizeFact DEF AtLeast1, Rate
  <2>3. Rate * AtLeast1(age) \in Nat /\ MaxSize * Sec \in Nat
    BY <2>2
  <2> QED
    BY <2>3
<1>6. WindowBound'
  <2>1. Bound(0, age) \in Nat
    BY <1>1, ProductsFact
  <2> QED
    BY <1>1, <2>1 DEF WindowBound, Bound, Rate
<1> QED
  BY <1>3, <1>4, <1>5, <1>6 DEF Inv

\* Nothing is claimed of a session in which the clock was set back.
LEMMA SetBackInv ==
  ASSUME Inv, NEW t \in 1 .. MaxBack, SetBack(t)
  PROVE  Inv'
<1> USE ShaperAssumption DEF SetBack
<1>1. CountsOK'
  <2>1. ms' \in 0 .. Sec - 1
    BY DEF Inv, TypeOK, CountsOK
  <2>2. age' \in Int /\ age' <= MaxAge
    BY DEF Inv, TypeOK, CountsOK
  <2> QED
    BY <2>1, <2>2 DEF Inv, TypeOK, CountsOK
<1>2. FlagsOK'
  BY DEF Inv, TypeOK, FlagsOK
<1> QED
  BY <1>1, <1>2 DEF Inv, TypeOK, AgeOK, BytesBound, CountBound, WindowBound

\* A frame that waits changes none of what the bounds are about.
LEMMA RefuseInv ==
  ASSUME Inv, Refuse \/ UNCHANGED vars
  PROVE  Inv'
<1>1. UNCHANGED <<ms, age, bytes, back, bucket>> /\ refused' \in BOOLEAN
  BY DEF Refuse, vars, Inv, TypeOK, FlagsOK
<1>2. CountsOK'
  BY <1>1 DEF Inv, TypeOK, CountsOK
<1>3. FlagsOK'
  BY <1>1 DEF Inv, TypeOK, FlagsOK
<1>4. AgeOK' /\ BytesBound' /\ CountBound'
  BY <1>1 DEF Inv, AgeOK, BytesBound, CountBound
<1>5. WindowBound'
  BY <1>1 DEF Inv, WindowBound
<1> QED
  BY <1>2, <1>3, <1>4, <1>5 DEF Inv, TypeOK

\* Every step keeps the inductive invariant.
LEMMA NextInv == Inv /\ [Next]_vars => Inv'
<1> SUFFICES ASSUME Inv, [Next]_vars PROVE Inv'
  OBVIOUS
<1>1. CASE \E n \in Sizes : Accept(n)
  BY <1>1, AcceptInWindow, AcceptNewWindow
<1>2. CASE Refuse \/ UNCHANGED vars
  BY <1>2, RefuseInv
<1>3. CASE Restart
  BY <1>3, RestartInv
<1>4. CASE Tick
  BY <1>4, TickInv
<1>5. CASE \E t \in 1 .. MaxBack : SetBack(t)
  BY <1>5, SetBackInv
<1> QED
  BY <1>1, <1>2, <1>3, <1>4, <1>5 DEF Next

\* The inductive invariant holds in every reachable state.
LEMMA Invariance == Spec => []Inv
<1> QED
  BY InitInv, NextInv, PTL DEF Spec

----------------------------------------------------------------------------
\* The counters of lfd_shaper.c keep their types: bytes is never negative.
THEOREM TypeCorrect == Spec => []TypeOK
<1>1. Inv => TypeOK
  BY DEF Inv
<1> QED
  BY <1>1, Invariance, PTL

\* What was sent above the speed is paid for by the present window.
THEOREM WindowBounded == Spec => []WindowBound
<1>1. Inv => WindowBound
  BY DEF Inv
<1> QED
  BY <1>1, Invariance, PTL

\* shaper_avail()'s product does not overflow as long as the clock is sane.
THEOREM NeverOverflows == Spec => []NoOverflow
<1>1. Inv => NoOverflow
  BY NotOverflown DEF Inv
<1> QED
  BY <1>1, Invariance, PTL

\* In every interval the shaper lets through what max_speed allows, and no more
\* than a second and a frame beyond it.
THEOREM RateBounded == Spec => []RateBound
<1>1. ASSUME Inv PROVE RateBound
  <2> SUFFICES ASSUME ~back
               PROVE  bucket <= Rate * (Sec + 1) + MaxSize * Sec
    BY DEF RateBound, Rate
  <2>1. bytes \in Nat /\ bucket \in Nat /\ age \in Nat /\ age \in Int
    BY <1>1 DEF Inv, TypeOK, CountsOK, AgeOK
  <2>2. /\ Rate \in Nat \ {0} /\ bytes * Sec \in Nat /\ Rate * age \in Int
        /\ Rate * Sec \in Nat /\ MaxSize * Sec \in Nat
        /\ Rate * (Sec - age) = Rate * Sec - Rate * age
    BY <2>1, ProductsFact
  <2>3. Rate * AtLeast1(age) <= Rate * age + Rate
    <3>1. CASE age = 0
      BY <3>1, <2>2 DEF AtLeast1
    <3>2. CASE age # 0
      BY <3>2, <2>2 DEF AtLeast1
    <3> QED
      BY <3>1, <3>2
  <2>4. Rate * AtLeast1(age) \in Nat
    BY <2>1, <2>2 DEF AtLeast1
  <2>5. bytes * Sec <= Rate * AtLeast1(age) + MaxSize * Sec
    BY <1>1 DEF Inv, CountBound
  <2>6. bytes * Sec + Rate * (Sec - age) <= Rate * Sec + Rate + MaxSize * Sec
    BY <2>2, <2>3, <2>4, <2>5
  <2>7. bucket <= Positive(bytes * Sec + Rate * (Sec - age))
    BY <1>1 DEF Inv, WindowBound, Rate
  <2>8. bucket <= Rate * Sec + Rate + MaxSize * Sec
    BY <2>1, <2>2, <2>6, <2>7 DEF Positive
  <2>9. Rate * (Sec + 1) = Rate * Sec + Rate
    BY <2>2, ShaperAssumption
  <2> QED
    BY <2>8, <2>9
<1> QED
  BY <1>1, Invariance, PTL
=============================================================================
