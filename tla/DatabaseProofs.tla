---------------------------- MODULE DatabaseProofs ----------------------------
(***************************************************************************)
(* For every set of texts, endings and times, every clock and zone, and    *)
(* any number of statements: whose result and error CPGDatabase keeps, and *)
(* what comes back of a time.                                              *)
(***************************************************************************)
EXTENDS Database, SequenceTheorems, WellFoundedInduction, TLAPS

-----------------------------------------------------------------------------
(* Division by a product: the fields of a time are cut off one by one      *)

(* A quotient and a remainder are the only ones.                           *)
LEMMA DivUnique ==
    ASSUME NEW m \in Nat \ {0}, NEW p \in Int, NEW k \in Int, 0 <= k, k < m
    PROVE  (m * p + k) \div m = p /\ (m * p + k) % m = k
OBVIOUS

(* A natural number is made of its quotient and its remainder.             *)
LEMMA DivMod ==
    ASSUME NEW a \in Nat, NEW m \in Nat \ {0}
    PROVE  /\ a \div m \in Nat /\ a % m \in Nat /\ a % m < m
           /\ a = m * (a \div m) + (a % m)
<1>1. a \div m \in Nat
  OBVIOUS
<1>2. a % m \in 0 .. m - 1
  OBVIOUS
<1>3. a = m * (a \div m) + (a % m)
  OBVIOUS
<1>4. QED BY <1>1, <1>2, <1>3

(* Dividing by b and then by c is dividing by their product.               *)
LEMMA DivDiv ==
    \A a \in Nat : \A b, c \in Nat \ {0} : a \div (b * c) = (a \div b) \div c
<1> SUFFICES ASSUME NEW a \in Nat, NEW b \in Nat \ {0}, NEW c \in Nat \ {0}
             PROVE  a \div (b * c) = (a \div b) \div c
  OBVIOUS
<1> DEFINE q == a \div b
           r == a % b
           p == q \div c
           s == q % c
<1>1. q \in Nat /\ r \in Nat /\ r < b /\ a = b * q + r
  BY DivMod
<1>2. p \in Nat /\ s \in Nat /\ s < c /\ q = c * p + s
  BY <1>1, DivMod
<1>3. b * c \in Nat \ {0}
  OBVIOUS
<1> HIDE DEF q, r, p, s
<1>4. a = (b * c) * p + (b * s + r)
  BY <1>1, <1>2
<1>5. 0 <= b * s + r /\ b * s + r < b * c /\ b * s + r \in Int
  <2>1. b * s >= 0 /\ b * s \in Int
    BY <1>2
  <2>2. b * (c - 1 - s) >= 0
    BY <1>2
  <2>3. b * s <= b * c - b
    BY <2>2, <1>2
  <2>4. QED BY <1>1, <2>1, <2>3
<1>6. a \div (b * c) = p
  BY <1>2, <1>3, <1>4, <1>5, DivUnique
<1>7. QED BY <1>6 DEF p, q

-----------------------------------------------------------------------------
(* The two conversions of a time                                           *)

(* The scale of the clock is positive.                                     *)
LEMMA ClockType ==
    /\ SECONDS \in Nat \ {0} /\ HOUR \in Nat \ {0} /\ HOURS \in Nat \ {0}
    /\ OneHour \in Nat \ {0} /\ ZONE \in Nat
BY ClockAssumption DEF OneHour

(* What comes back of a time: itself, or an hour later in summer.          *)
LEMMA ThereAndBack ==
    ASSUME NEW t \in Nat
    PROVE  TimeStamp2Long(Long2TimeStamp(t))
             = t + (IF IsSummer(t) THEN OneHour ELSE 0)
<1> DEFINE shift == IF IsSummer(t) THEN OneHour ELSE 0
           local == t + ZONE + shift
           tm == localtime(t)
           minutes == local \div SECONDS
           hours == minutes \div HOUR
<1>1. shift \in Nat /\ local \in Nat
  BY ClockType
<1>2. /\ minutes \in Nat
      /\ local = SECONDS * minutes + (local % SECONDS)
  BY <1>1, ClockType, DivMod
<1>3. /\ hours \in Nat
      /\ minutes = HOUR * hours + (minutes % HOUR)
  BY <1>2, ClockType, DivMod
<1>4. hours = HOURS * (hours \div HOURS) + (hours % HOURS)
  BY <1>3, ClockType, DivMod
<1>5. local \div OneHour = hours
  BY <1>1, ClockType, DivDiv DEF OneHour
<1>6. local \div (OneHour * HOURS) = hours \div HOURS
  <2>1. local \div (OneHour * HOURS) = (local \div OneHour) \div HOURS
    <3> HIDE DEF local
    <3>1. OneHour \in Nat \ {0} /\ HOURS \in Nat \ {0}
      BY ClockType
    <3>2. QED BY <1>1, <3>1, DivDiv, Zenon
  <2>2. QED BY <1>5, <2>1
<1>7. /\ tm.day = hours \div HOURS /\ tm.hour = hours % HOURS
      /\ tm.min = minutes % HOUR /\ tm.sec = local % SECONDS
  BY <1>5, <1>6 DEF localtime
<1>8. TimeStamp2Long(Long2TimeStamp(t))
        = ((tm.day * HOURS + tm.hour) * HOUR + tm.min) * SECONDS + tm.sec - ZONE
  BY DEF TimeStamp2Long, Long2TimeStamp, mktimeStandard
<1> HIDE DEF tm, hours, minutes, local, shift
<1>9. tm.day * HOURS + tm.hour = hours
  <2>1. (hours \div HOURS) * HOURS = HOURS * (hours \div HOURS)
    BY <1>3, ClockType
  <2>2. QED BY <1>4, <1>7, <2>1
<1>10. hours * HOUR + tm.min = minutes
  BY <1>3, <1>7, ClockType
<1>11. minutes * SECONDS + tm.sec = local
  BY <1>2, <1>7, ClockType
<1>12. TimeStamp2Long(Long2TimeStamp(t)) = local - ZONE
  <2>1. TimeStamp2Long(Long2TimeStamp(t))
          = (hours * HOUR + tm.min) * SECONDS + tm.sec - ZONE
    BY <1>8, <1>9
  <2>2. TimeStamp2Long(Long2TimeStamp(t)) = minutes * SECONDS + tm.sec - ZONE
    BY <1>10, <2>1
  <2>3. minutes * SECONDS \in Int /\ tm.sec \in Int
    BY <1>1, <1>2, <1>7, ClockType
  <2>4. QED BY <1>11, <2>2, <2>3, ClockType
<1>13. QED BY <1>1, <1>12, ClockType DEF local, shift

-----------------------------------------------------------------------------
(* Loops over a text: a state is carried from character to character       *)

(* Every set of natural numbers that is not empty has a least element.     *)
LEMMA LeastElement ==
    ASSUME NEW T \in SUBSET Nat, T # {}
    PROVE  \E n \in T : \A m \in T : n <= m
<1> DEFINE R == OpToRel(<, Nat)
<1>1. IsWellFoundedOn(R, Nat)
  BY NatLessThanWellFounded
<1>2. \A x, y \in Nat : x < y => <<x, y>> \in R
  BY DEF OpToRel
<1> HIDE DEF R
<1>3. PICK n \in T : \A m \in T : ~(<<m, n>> \in R)
  BY <1>1, WFMin
<1>4. ASSUME NEW m \in T PROVE n <= m
  <2>1. n \in Nat /\ m \in Nat
    OBVIOUS
  <2>2. ~(m < n)
    BY <1>2, <1>3, <2>1
  <2>3. QED BY <2>1, <2>2
<1>5. QED BY <1>4

(* f is the loop's state before each character of s, when a step takes     *)
(* state and character through F.                                          *)
Runs(f, F, b, s) ==
    f = [i \in 0 .. Len(s) |-> IF i = 0 THEN b ELSE F[<<f[i - 1], s[i]>>]]

(* There is one run at most.                                               *)
LEMMA RunUnique ==
    ASSUME NEW F, NEW b, NEW C, NEW s \in Seq(C),
           NEW f, Runs(f, F, b, s), NEW g, Runs(g, F, b, s)
    PROVE  f = g
<1> DEFINE T == {i \in 0 .. Len(s) : f[i] # g[i]}
<1>0. Len(s) \in Nat
  OBVIOUS
<1>1. \A i \in 0 .. Len(s) : /\ f[i] = IF i = 0 THEN b ELSE F[<<f[i - 1], s[i]>>]
                             /\ g[i] = IF i = 0 THEN b ELSE F[<<g[i - 1], s[i]>>]
  BY DEF Runs
<1>2. T = {}
  <2> SUFFICES ASSUME T # {} PROVE FALSE
    OBVIOUS
  <2>1. T \in SUBSET Nat
    BY <1>0
  <2>2. PICK i \in T : \A j \in T : i <= j
    BY <2>1, LeastElement
  <2>3. i \in 0 .. Len(s) /\ i # 0
    BY <1>1
  <2>4. i - 1 \in 0 .. Len(s) /\ ~(i <= i - 1)
    BY <1>0, <2>3
  <2>5. f[i - 1] = g[i - 1]
    BY <2>2, <2>4
  <2> QED
    BY <1>1, <2>3, <2>5
<1>3. \A i \in 0 .. Len(s) : f[i] = g[i]
  BY <1>2
<1>4. /\ f = [i \in 0 .. Len(s) |-> IF i = 0 THEN b ELSE F[<<f[i - 1], s[i]>>]]
      /\ g = [i \in 0 .. Len(s) |-> IF i = 0 THEN b ELSE F[<<g[i - 1], s[i]>>]]
  BY DEF Runs
<1>5. /\ f = [i \in 0 .. Len(s) |-> f[i]]
      /\ g = [i \in 0 .. Len(s) |-> g[i]]
  BY <1>4
<1> QED
  BY <1>3, <1>5

(* F takes a state of A and a character of C to a state of A.              *)
Loop(A, C, F) == F \in [A \X C -> A]

(* There is one over every text.                                           *)
LEMMA RunExists ==
    ASSUME NEW A, NEW C, NEW F, Loop(A, C, F), NEW b \in A, NEW s \in Seq(C)
    PROVE  \E f \in [0 .. Len(s) -> A] : Runs(f, F, b, s)
<1> DEFINE P(n) == \E f \in [0 .. n -> A] :
                     f = [i \in 0 .. n |-> IF i = 0 THEN b ELSE F[<<f[i - 1], s[i]>>]]
           T == {n \in 0 .. Len(s) : ~P(n)}
<1>0. Len(s) \in Nat
  OBVIOUS
<1>1. P(0)
  <2> DEFINE f == [i \in 0 .. 0 |-> b]
  <2>1. f = [i \in 0 .. 0 |-> IF i = 0 THEN b ELSE F[<<f[i - 1], s[i]>>]]
    OBVIOUS
  <2> QED
    BY <2>1
<1>2. ASSUME NEW n \in 1 .. Len(s), P(n - 1) PROVE P(n)
  <2>0. n \in Nat /\ n # 0 /\ n - 1 \in Nat /\ n - 1 \in 0 .. n - 1
    BY <1>0
  <2>1. PICK f \in [0 .. n - 1 -> A] :
          f = [i \in 0 .. n - 1 |-> IF i = 0 THEN b ELSE F[<<f[i - 1], s[i]>>]]
    BY <1>2
  <2> DEFINE g == [i \in 0 .. n |-> IF i = n THEN F[<<f[n - 1], s[n]>>] ELSE f[i]]
  <2>2. f[n - 1] \in A /\ s[n] \in C
    BY <1>0, <2>0, ElementOfSeq
  <2>3. F[<<f[n - 1], s[n]>>] \in A
    BY <2>2 DEF Loop
  <2>4. \A i \in 0 .. n : i # n => i \in 0 .. n - 1
    BY <1>0, <2>0
  <2>5. g \in [0 .. n -> A]
    BY <2>3, <2>4
  <2>6. \A i \in 0 .. n : g[i] = IF i = 0 THEN b ELSE F[<<g[i - 1], s[i]>>]
    <3> SUFFICES ASSUME NEW i \in 0 .. n
                 PROVE  g[i] = IF i = 0 THEN b ELSE F[<<g[i - 1], s[i]>>]
      OBVIOUS
    <3>1. CASE i = n
      <4>1. n - 1 \in 0 .. n /\ n - 1 # n
        BY <1>0, <2>0
      <4> QED
        BY <2>0, <3>1, <4>1
    <3>2. CASE i # n
      <4>1. g[i] = f[i] /\ i \in 0 .. n - 1
        BY <2>4, <3>2
      <4>2. f[i] = IF i = 0 THEN b ELSE F[<<f[i - 1], s[i]>>]
        BY <2>1, <4>1
      <4>3. i # 0 => i - 1 \in 0 .. n /\ i - 1 # n
        BY <1>0, <3>2
      <4> QED
        BY <4>1, <4>2, <4>3
    <3> QED
      BY <3>1, <3>2
  <2>7. g = [i \in 0 .. n |-> IF i = 0 THEN b ELSE F[<<g[i - 1], s[i]>>]]
    BY <2>6
  <2> HIDE DEF g
  <2> QED
    BY <2>5, <2>7
<1> HIDE DEF P
<1>3. T = {}
  <2> SUFFICES ASSUME T # {} PROVE FALSE
    OBVIOUS
  <2>1. T \in SUBSET Nat
    BY <1>0
  <2>2. PICK n \in T : \A j \in T : n <= j
    BY <2>1, LeastElement
  <2>3. n \in 1 .. Len(s)
    <3>1. n \in 0 .. Len(s) /\ n # 0
      BY <1>1
    <3> QED
      BY <1>0, <3>1
  <2>4. n - 1 \in 0 .. Len(s) /\ ~(n <= n - 1)
    BY <1>0, <2>3
  <2>5. P(n - 1)
    BY <2>2, <2>4
  <2> QED
    BY <1>2, <2>2, <2>3, <2>5
<1>4. P(Len(s))
  BY <1>0, <1>3
<1> QED
  BY <1>4 DEF Runs, P

(* Where the loop is behind the last character of s.                       *)
Run(F, b, s) == (CHOOSE f : Runs(f, F, b, s))[Len(s)]

(* A run may be taken for the run.                                         *)
LEMMA RunIs ==
    ASSUME NEW F, NEW b, NEW C, NEW s \in Seq(C), NEW f, Runs(f, F, b, s)
    PROVE  Run(F, b, s) = f[Len(s)]
<1>1. Runs(CHOOSE g : Runs(g, F, b, s), F, b, s)
  OBVIOUS
<1>2. (CHOOSE g : Runs(g, F, b, s)) = f
  BY <1>1, RunUnique
<1> QED
  BY <1>2 DEF Run

(* The state is one of the loop's.                                         *)
LEMMA RunType ==
    ASSUME NEW A, NEW C, NEW F, Loop(A, C, F), NEW b \in A, NEW s \in Seq(C)
    PROVE  Run(F, b, s) \in A
<1>1. PICK f \in [0 .. Len(s) -> A] : Runs(f, F, b, s)
  BY RunExists
<1>2. Run(F, b, s) = f[Len(s)] /\ Len(s) \in 0 .. Len(s)
  BY <1>1, RunIs
<1> QED
  BY <1>2

(* A loop over nothing stays where it is.                                  *)
LEMMA RunEmpty ==
    ASSUME NEW F, NEW b
    PROVE  Run(F, b, << >>) = b
<1> DEFINE f == [i \in 0 .. 0 |-> b]
<1>1. << >> \in Seq({}) /\ Len(<< >>) = 0
  OBVIOUS
<1>2. f = [i \in 0 .. Len(<< >>) |-> IF i = 0 THEN b ELSE F[<<f[i - 1], << >>[i]>>]]
  BY <1>1
<1>3. Runs(f, F, b, << >>)
  BY <1>2 DEF Runs
<1>4. Run(F, b, << >>) = f[0]
  <2> HIDE DEF f
  <2> QED
    BY <1>1, <1>3, RunIs
<1> QED
  BY <1>4

(* One more character is one more step.                                    *)
LEMMA RunAppend ==
    ASSUME NEW A, NEW C, NEW F, Loop(A, C, F), NEW b \in A,
           NEW s \in Seq(C), NEW c \in C
    PROVE  Run(F, b, Append(s, c)) = F[<<Run(F, b, s), c>>]
<1> DEFINE t == Append(s, c)
<1>1. /\ t \in Seq(C) /\ Len(t) = Len(s) + 1 /\ Len(s) \in Nat
      /\ t[Len(t)] = c /\ \A i \in 1 .. Len(s) : t[i] = s[i]
  OBVIOUS
<1> HIDE DEF t
<1>2. PICK f \in [0 .. Len(s) -> A] : Runs(f, F, b, s)
  BY RunExists
<1>3. PICK g \in [0 .. Len(t) -> A] : Runs(g, F, b, t)
  BY <1>1, RunExists
<1> DEFINE h == [i \in 0 .. Len(s) |-> g[i]]
<1>4. \A i \in 0 .. Len(t) : g[i] = IF i = 0 THEN b ELSE F[<<g[i - 1], t[i]>>]
  BY <1>3 DEF Runs
<1>5. Runs(h, F, b, s)
  <2>1. \A i \in 0 .. Len(s) : h[i] = IF i = 0 THEN b ELSE F[<<h[i - 1], s[i]>>]
    <3> SUFFICES ASSUME NEW i \in 0 .. Len(s)
                 PROVE  h[i] = IF i = 0 THEN b ELSE F[<<h[i - 1], s[i]>>]
      OBVIOUS
    <3>1. i \in 0 .. Len(t) /\ (i # 0 => i \in 1 .. Len(s) /\ i - 1 \in 0 .. Len(s))
      BY <1>1
    <3>2. g[i] = IF i = 0 THEN b ELSE F[<<g[i - 1], t[i]>>]
      BY <1>4, <3>1
    <3> QED
      BY <1>1, <3>1, <3>2
  <2>2. h = [i \in 0 .. Len(s) |-> IF i = 0 THEN b ELSE F[<<h[i - 1], s[i]>>]]
    BY <2>1
  <2> QED
    BY <2>2 DEF Runs
<1>6. h = f
  BY <1>2, <1>5, RunUnique
<1>7. Run(F, b, s) = g[Len(s)] /\ Run(F, b, t) = g[Len(t)]
  <2>1. Run(F, b, s) = h[Len(s)]
    BY <1>5, RunIs
  <2>2. Run(F, b, t) = g[Len(t)]
    BY <1>1, <1>3, RunIs
  <2> QED
    BY <1>1, <2>1, <2>2
<1>8. g[Len(t)] = F[<<g[Len(s)], c>>]
  <2>1. Len(t) \in 0 .. Len(t) /\ Len(t) # 0 /\ Len(t) - 1 = Len(s)
    BY <1>1
  <2> QED
    BY <1>1, <1>4, <2>1
<1> QED
  BY <1>7, <1>8 DEF t

(* A loop over two texts goes on over the second where the first has left  *)
(* it.                                                                     *)
LEMMA RunConcat ==
    ASSUME NEW A, NEW C, NEW F, Loop(A, C, F), NEW b \in A,
           NEW s \in Seq(C), NEW t \in Seq(C)
    PROVE  Run(F, b, s \o t) = Run(F, Run(F, b, s), t)
<1> DEFINE pre(n) == SubSeq(t, 1, n)
           T == {n \in 0 .. Len(t) : Run(F, b, s \o pre(n)) # Run(F, Run(F, b, s), pre(n))}
<1>a. \A a \in A : /\ Run(F, a, << >>) = a
                   /\ \A u \in Seq(C) : Run(F, a, u) \in A
                   /\ \A u \in Seq(C), c \in C : Run(F, a, Append(u, c)) = F[<<Run(F, a, u), c>>]
  <2> SUFFICES ASSUME NEW a \in A
               PROVE  /\ Run(F, a, << >>) = a
                      /\ \A u \in Seq(C) : Run(F, a, u) \in A
                      /\ \A u \in Seq(C), c \in C :
                           Run(F, a, Append(u, c)) = F[<<Run(F, a, u), c>>]
    OBVIOUS
  <2>1. Run(F, a, << >>) = a
    BY RunEmpty
  <2>2. ASSUME NEW u \in Seq(C) PROVE Run(F, a, u) \in A
    BY RunType
  <2>3. ASSUME NEW u \in Seq(C), NEW c \in C
        PROVE  Run(F, a, Append(u, c)) = F[<<Run(F, a, u), c>>]
    BY RunAppend
  <2> QED
    BY <2>1, <2>2, <2>3
<1>0. Len(t) \in Nat /\ Run(F, b, s) \in A
  <2>1. Run(F, b, s) \in A
    BY <1>a
  <2> QED
    BY <2>1
<1>1. pre(0) = << >> /\ s \o << >> = s
  BY <1>0
<1>2. 0 \notin T
  BY <1>0, <1>1, <1>a
<1>3. T = {}
  <2> SUFFICES ASSUME T # {} PROVE FALSE
    OBVIOUS
  <2>1. T \in SUBSET Nat
    BY <1>0
  <2>2. PICK n \in T : \A j \in T : n <= j
    BY <2>1, LeastElement
  <2>3. n \in 1 .. Len(t)
    BY <1>0, <1>2
  <2>4. n - 1 \in 0 .. Len(t) /\ ~(n <= n - 1)
    BY <1>0, <2>3
  <2>5. Run(F, b, s \o pre(n - 1)) = Run(F, Run(F, b, s), pre(n - 1))
    BY <2>2, <2>4
  <2>6. /\ pre(n - 1) \in Seq(C) /\ t[n] \in C
        /\ pre(n) = Append(pre(n - 1), t[n])
    <3>1. pre(n) = Append(SubSeq(t, 1, n - 1), t[n])
      BY <1>0, <2>3, SubSeqRecursiveSecond
    <3> QED
      BY <1>0, <2>3, <3>1
  <2>7. s \o pre(n) = Append(s \o pre(n - 1), t[n]) /\ s \o pre(n - 1) \in Seq(C)
    <3> DEFINE u == pre(n - 1)
    <3> HIDE DEF u, pre, T
    <3>1. s \o Append(u, t[n]) = Append(s \o u, t[n])
      BY <2>6
    <3> QED
      BY <2>6, <3>1 DEF u
  <2> HIDE DEF pre, T
  <2>8. Run(F, b, s \o pre(n)) = F[<<Run(F, b, s \o pre(n - 1)), t[n]>>]
    <3> DEFINE u == s \o pre(n - 1)
    <3> HIDE DEF u
    <3>1. Run(F, b, Append(u, t[n])) = F[<<Run(F, b, u), t[n]>>]
      BY <2>6, <2>7, <1>a DEF u
    <3> QED
      BY <2>7, <3>1 DEF u
  <2>9. Run(F, Run(F, b, s), pre(n)) = F[<<Run(F, Run(F, b, s), pre(n - 1)), t[n]>>]
    <3> DEFINE u == pre(n - 1)
               a == Run(F, b, s)
    <3> HIDE DEF u, a
    <3>1. u \in Seq(C) /\ a \in A
      BY <1>0, <2>6 DEF u, a
    <3>2. Run(F, a, Append(u, t[n])) = F[<<Run(F, a, u), t[n]>>]
      BY <2>6, <3>1, <1>a
    <3> QED
      BY <2>6, <3>2 DEF u, a
  <2>10. n \notin T
    BY <2>5, <2>8, <2>9 DEF T
  <2> QED
    BY <2>2, <2>10
<1>4. pre(Len(t)) = t
  BY <1>0
<1>5. Run(F, b, s \o pre(Len(t))) = Run(F, Run(F, b, s), pre(Len(t)))
  <2> HIDE DEF pre
  <2>1. Len(t) \in 0 .. Len(t)
    BY <1>0
  <2> QED
    BY <1>3, <2>1
<1> QED
  BY <1>4, <1>5

-----------------------------------------------------------------------------
(* The loops of the text functions are such loops                          *)

(* FlattenSeq appends one part after another.                              *)
Join(C) == [p \in Seq(C) \X Seq(C) |-> p[1] \o p[2]]

(* It takes two texts to a text.                                           *)
LEMMA JoinLoops ==
    ASSUME NEW C
    PROVE  /\ Loop(Seq(C), Seq(C), Join(C))
           /\ \A u, v \in Seq(C) : Join(C)[<<u, v>>] = u \o v
<1>1. \A p \in Seq(C) \X Seq(C) : p[1] \o p[2] \in Seq(C)
  BY ConcatProperties
<1>2. Loop(Seq(C), Seq(C), Join(C))
  BY <1>1 DEF Loop, Join
<1>3. ASSUME NEW u \in Seq(C), NEW v \in Seq(C) PROVE Join(C)[<<u, v>>] = u \o v
  BY DEF Join
<1> QED
  BY <1>2, <1>3

(* What FlattenSeq makes of a sequence of parts is what that loop makes.   *)
LEMMA FlattenIsRun ==
    ASSUME NEW C, NEW seqs \in Seq(Seq(C))
    PROVE  FlattenSeq(seqs) = Run(Join(C), << >>, seqs)
<1> DEFINE n == Len(seqs)
           Q(g) == g = [i \in 1 .. n |-> IF i = 1 THEN seqs[i] ELSE g[i - 1] \o seqs[i]]
<1>0. n \in Nat /\ << >> \in Seq(C) /\ \A i \in 1 .. n : seqs[i] \in Seq(C)
  OBVIOUS
<1>1. PICK f \in [0 .. n -> Seq(C)] : Runs(f, Join(C), << >>, seqs)
  BY <1>0, JoinLoops, RunExists
<1>2. Run(Join(C), << >>, seqs) = f[n]
  BY <1>1, RunIs
<1>3. f[0] = << >> /\ \A i \in 1 .. n : f[i] = f[i - 1] \o seqs[i]
  <2>1. \A i \in 0 .. n : f[i] = IF i = 0 THEN << >> ELSE Join(C)[<<f[i - 1], seqs[i]>>]
    BY <1>1 DEF Runs
  <2>2. ASSUME NEW i \in 1 .. n PROVE f[i] = f[i - 1] \o seqs[i]
    <3>1. i \in 0 .. n /\ i # 0 /\ i - 1 \in 0 .. n
      BY <1>0
    <3>2. f[i - 1] \in Seq(C) /\ seqs[i] \in Seq(C)
      BY <1>0, <3>1
    <3>3. f[i] = Join(C)[<<f[i - 1], seqs[i]>>]
      BY <2>1, <3>1
    <3> QED
      BY <3>2, <3>3, JoinLoops
  <2>3. 0 \in 0 .. n
    BY <1>0
  <2>4. f[0] = << >>
    BY <2>1, <2>3
  <2> QED
    BY <2>2, <2>4
<1>4. CASE n = 0
  <2>1. FlattenSeq(seqs) = seqs /\ seqs = << >>
    BY <1>4 DEF FlattenSeq
  <2> QED
    BY <1>2, <1>3, <1>4, <2>1
<1>5. CASE n # 0
  <2> DEFINE h == [i \in 1 .. n |-> f[i]]
  <2>1. Q(h)
    <3>1. ASSUME NEW i \in 1 .. n
          PROVE  h[i] = IF i = 1 THEN seqs[i] ELSE h[i - 1] \o seqs[i]
      <4>1. CASE i = 1
        <5>1. f[1] = << >> \o seqs[1] /\ seqs[1] \in Seq(C)
          <6>1. 1 \in 1 .. n /\ 1 - 1 = 0
            BY <1>0, <4>1
          <6>2. f[1] = f[0] \o seqs[1]
            BY <1>3, <6>1
          <6> QED
            BY <1>0, <1>3, <6>1, <6>2
        <5>2. << >> \o seqs[1] = seqs[1]
          BY <5>1, ConcatEmptySeq
        <5> QED
          BY <4>1, <5>1, <5>2
      <4>2. CASE i # 1
        <5>1. i - 1 \in 1 .. n
          BY <1>0, <4>2
        <5> QED
          BY <1>3, <4>2, <5>1
      <4> QED
        BY <4>1, <4>2
    <3> QED
      BY <3>1
  <2>2. ASSUME NEW g, Q(g) PROVE g = h
    <3> DEFINE T == {i \in 1 .. n : g[i] # h[i]}
    <3>1. \A i \in 1 .. n : g[i] = IF i = 1 THEN seqs[i] ELSE g[i - 1] \o seqs[i]
      BY <2>2
    <3>2. \A i \in 1 .. n : h[i] = IF i = 1 THEN seqs[i] ELSE h[i - 1] \o seqs[i]
      BY <2>1
    <3>3. T = {}
      <4> HIDE DEF h
      <4> SUFFICES ASSUME T # {} PROVE FALSE
        OBVIOUS
      <4>1. T \in SUBSET Nat
        BY <1>0
      <4>2. PICK i \in T : \A j \in T : i <= j
        BY <4>1, LeastElement
      <4>3. i \in 1 .. n /\ i # 1
        BY <3>1, <3>2
      <4>4. i - 1 \in 1 .. n /\ ~(i <= i - 1)
        BY <1>0, <4>3
      <4>5. g[i - 1] = h[i - 1]
        BY <4>2, <4>4
      <4> QED
        BY <3>1, <3>2, <4>3, <4>5
    <3>4. g = [i \in 1 .. n |-> g[i]]
      BY <2>2
    <3> QED
      BY <3>3, <3>4
  <2>3. (CHOOSE g : Q(g)) = h
    <3> HIDE DEF Q, h
    <3>1. Q(CHOOSE g : Q(g))
      BY <2>1
    <3> QED
      BY <2>2, <3>1
  <2>4. FlattenSeq(seqs) = (CHOOSE g : Q(g))[n]
    BY <1>5 DEF FlattenSeq
  <2>5. n \in 1 .. n
    BY <1>0, <1>5
  <2> QED
    BY <1>2, <2>3, <2>4, <2>5
<1> QED
  BY <1>4, <1>5

(* FixMultibyte's loop: the first n characters, escaped.                   *)
Escaped(s, n) == FlattenSeq([i \in 1 .. n |-> Escape(s[i])])

(* It starts from nothing and appends one escaped character a time.        *)
LEMMA EscapedGrows ==
    ASSUME NEW s \in Seq(CharClass)
    PROVE  /\ Escaped(s, 0) = << >>
           /\ \A n \in 0 .. Len(s) : Escaped(s, n) \in Seq(CharClass)
           /\ \A n \in 1 .. Len(s) : Escaped(s, n) = Escaped(s, n - 1) \o Escape(s[n])
<1> DEFINE parts(n) == [i \in 1 .. n |-> Escape(s[i])]
<1>0. Len(s) \in Nat /\ \A i \in 1 .. Len(s) : s[i] \in CharClass
  OBVIOUS
<1>1. \A c \in CharClass : Escape(c) \in Seq(CharClass)
  BY DEF Escape
<1>2. \A n \in 0 .. Len(s) : parts(n) \in Seq(Seq(CharClass)) /\ Len(parts(n)) = n
  BY <1>0, <1>1
<1>3. \A n \in 1 .. Len(s) : parts(n) = Append(parts(n - 1), Escape(s[n]))
  BY <1>0, <1>1
<1>4. \A n \in 0 .. Len(s) : Escaped(s, n) = Run(Join(CharClass), << >>, parts(n))
  <2> HIDE DEF parts
  <2> SUFFICES ASSUME NEW n \in 0 .. Len(s)
               PROVE  Escaped(s, n) = Run(Join(CharClass), << >>, parts(n))
    OBVIOUS
  <2>1. Escaped(s, n) = FlattenSeq(parts(n))
    BY DEF Escaped, parts
  <2> QED
    BY <1>2, <2>1, FlattenIsRun
<1>5. Loop(Seq(CharClass), Seq(CharClass), Join(CharClass)) /\ << >> \in Seq(CharClass)
  BY JoinLoops
<1> HIDE DEF parts
<1>6. Escaped(s, 0) = << >>
  <2>1. 0 \in 0 .. Len(s)
    BY <1>0
  <2>2. parts(0) = << >>
    BY <1>2, <2>1
  <2> QED
    BY <1>4, <2>1, <2>2, RunEmpty
<1>7. ASSUME NEW n \in 0 .. Len(s) PROVE Escaped(s, n) \in Seq(CharClass)
  <2> DEFINE u == parts(n)
  <2>1. u \in Seq(Seq(CharClass)) /\ Escaped(s, n) = Run(Join(CharClass), << >>, u)
    BY <1>2, <1>4
  <2> HIDE DEF u
  <2> QED
    BY <1>5, <2>1, RunType
<1>8. ASSUME NEW n \in 1 .. Len(s) PROVE Escaped(s, n) = Escaped(s, n - 1) \o Escape(s[n])
  <2>1. n \in 0 .. Len(s) /\ n - 1 \in 0 .. Len(s)
    BY <1>0
  <2> DEFINE u == parts(n - 1)
             x == Escape(s[n])
  <2>2. u \in Seq(Seq(CharClass)) /\ x \in Seq(CharClass)
    BY <1>0, <1>1, <1>2, <2>1
  <2>3. parts(n) = Append(u, x)
    BY <1>3
  <2> HIDE DEF u, x
  <2>4. Run(Join(CharClass), << >>, Append(u, x))
          = Join(CharClass)[<<Run(Join(CharClass), << >>, u), x>>]
    <3> DEFINE J == Join(CharClass)
               S == Seq(CharClass)
    <3>1. Loop(S, S, J) /\ << >> \in S /\ u \in Seq(S) /\ x \in S
      BY <1>5, <2>2
    <3> HIDE DEF J, S
    <3>2. Run(J, << >>, Append(u, x)) = J[<<Run(J, << >>, u), x>>]
      BY <3>1, RunAppend
    <3> QED
      BY <3>2 DEF J
  <2>5. Run(Join(CharClass), << >>, u) \in Seq(CharClass)
    BY <1>5, <2>2, RunType
  <2>6. Run(Join(CharClass), << >>, Append(u, x)) = Run(Join(CharClass), << >>, u) \o x
    BY <2>2, <2>4, <2>5, JoinLoops
  <2> QED
    BY <1>4, <2>1, <2>3, <2>6 DEF u, x
<1> QED
  BY <1>6, <1>7, <1>8

(* TestInjection's loop, and the states it can be in.                      *)
ScanState == {"outside", "quoted", "escape", "escapeQuoted", "semicolon", "suspect"}
Scanner   == [p \in ScanState \X CharClass |-> Scan(p[1], p[2])]

(* A step of the scan leads from one of these states to another.           *)
LEMMA ScannerLoops ==
    /\ Loop(ScanState, CharClass, Scanner)
    /\ \A at \in ScanState, c \in CharClass :
         Scanner[<<at, c>>] = Scan(at, c) /\ Scan(at, c) \in ScanState
<1>1. ASSUME NEW at \in ScanState, NEW c \in CharClass PROVE Scan(at, c) \in ScanState
  BY DEF Scan, ScanState
<1>2. Loop(ScanState, CharClass, Scanner)
  BY <1>1 DEF Loop, Scanner
<1>3. ASSUME NEW at \in ScanState, NEW c \in CharClass
      PROVE  Scanner[<<at, c>>] = Scan(at, c)
  BY DEF Scanner
<1> QED
  BY <1>1, <1>2, <1>3

(* TestInjection is where the loop is behind a statement's last character. *)
LEMMA TestIsRun ==
    ASSUME NEW s \in Seq(CharClass)
    PROVE  TestInjection(s) <=> Run(Scanner, "outside", s) = "suspect"
<1> DEFINE n == Len(s)
           Q(g) == g = [i \in 0 .. n |-> IF i = 0 THEN "outside" ELSE Scan(g[i - 1], s[i])]
<1>0. n \in Nat /\ "outside" \in ScanState /\ \A i \in 1 .. n : s[i] \in CharClass
  BY DEF ScanState
<1>1. PICK f \in [0 .. n -> ScanState] : Runs(f, Scanner, "outside", s)
  BY <1>0, ScannerLoops, RunExists
<1>2. Run(Scanner, "outside", s) = f[n]
  BY <1>1, RunIs
<1>3. Q(f)
  <2>1. \A i \in 0 .. n : f[i] = IF i = 0 THEN "outside" ELSE Scanner[<<f[i - 1], s[i]>>]
    BY <1>1 DEF Runs
  <2>2. ASSUME NEW i \in 0 .. n
        PROVE  f[i] = IF i = 0 THEN "outside" ELSE Scan(f[i - 1], s[i])
    <3>1. CASE i = 0
      BY <2>1, <3>1
    <3>2. CASE i # 0
      <4>1. i \in 1 .. n /\ i - 1 \in 0 .. n
        BY <1>0, <3>2
      <4>2. Scanner[<<f[i - 1], s[i]>>] = Scan(f[i - 1], s[i])
        BY <1>0, <4>1, ScannerLoops
      <4> QED
        BY <2>1, <3>2, <4>2
    <3> QED
      BY <3>1, <3>2
  <2>3. f = [i \in 0 .. n |-> f[i]]
    OBVIOUS
  <2> QED
    BY <2>2, <2>3
<1>4. ASSUME NEW g, Q(g) PROVE g = f
  <2> DEFINE T == {i \in 0 .. n : g[i] # f[i]}
  <2>1. \A i \in 0 .. n : g[i] = IF i = 0 THEN "outside" ELSE Scan(g[i - 1], s[i])
    BY <1>4
  <2>2. \A i \in 0 .. n : f[i] = IF i = 0 THEN "outside" ELSE Scan(f[i - 1], s[i])
    BY <1>3
  <2>3. T = {}
    <3> SUFFICES ASSUME T # {} PROVE FALSE
      OBVIOUS
    <3>1. T \in SUBSET Nat
      BY <1>0
    <3>2. PICK i \in T : \A j \in T : i <= j
      BY <3>1, LeastElement
    <3>3. i \in 0 .. n /\ i # 0
      BY <2>1, <2>2
    <3>4. i - 1 \in 0 .. n /\ ~(i <= i - 1)
      BY <1>0, <3>3
    <3>5. g[i - 1] = f[i - 1]
      BY <3>2, <3>4
    <3> QED
      BY <2>1, <2>2, <3>3, <3>5
  <2>4. g = [i \in 0 .. n |-> g[i]] /\ f = [i \in 0 .. n |-> f[i]]
    BY <1>4
  <2> QED
    BY <2>3, <2>4
<1>5. (CHOOSE g : Q(g)) = f
  <2> HIDE DEF Q
  <2>1. Q(CHOOSE g : Q(g))
    BY <1>3
  <2> QED
    BY <1>4, <2>1
<1>6. TestInjection(s) <=> (CHOOSE g : Q(g))[n] = "suspect"
  BY DEF TestInjection
<1> QED
  BY <1>2, <1>5, <1>6

(* The server's reading loop, and what it can have read.                   *)
ReadState == [text : Seq(CharClass), rest : Seq(CharClass),
              pending : {"no", "quote", "backslash"}, closed : BOOLEAN]
Reader    == [p \in ReadState \X CharClass |-> Read(p[1], p[2])]

(* The server, too, goes from one of its states to another.                *)
LEMMA ReaderLoops ==
    /\ Loop(ReadState, CharClass, Reader)
    /\ \A r \in ReadState, c \in CharClass : Reader[<<r, c>>] = Read(r, c)
    /\ NothingRead \in ReadState
<1>1. ASSUME NEW r \in ReadState, NEW c \in CharClass PROVE Read(r, c) \in ReadState
  <2>1. Append(r.text, c) \in Seq(CharClass) /\ Append(r.rest, c) \in Seq(CharClass)
    BY DEF ReadState
  <2> QED
    BY <2>1 DEF Read, ReadState
<1>2. Loop(ReadState, CharClass, Reader)
  BY <1>1 DEF Loop, Reader
<1>3. ASSUME NEW r \in ReadState, NEW c \in CharClass PROVE Reader[<<r, c>>] = Read(r, c)
  BY DEF Reader
<1>4. NothingRead \in ReadState
  BY DEF NothingRead, ReadState
<1> QED
  BY <1>2, <1>3, <1>4

(* And what it reads is where its loop ends.                               *)
LEMMA ReadsIsRun ==
    ASSUME NEW s \in Seq(CharClass)
    PROVE  ServerReads(s) = Run(Reader, NothingRead, s)
<1> DEFINE n == Len(s)
           Q(g) == g = [i \in 0 .. n |-> IF i = 0 THEN NothingRead ELSE Read(g[i - 1], s[i])]
<1>0. n \in Nat /\ NothingRead \in ReadState /\ \A i \in 1 .. n : s[i] \in CharClass
  BY ReaderLoops
<1>1. PICK f \in [0 .. n -> ReadState] : Runs(f, Reader, NothingRead, s)
  BY <1>0, ReaderLoops, RunExists
<1>2. Run(Reader, NothingRead, s) = f[n]
  BY <1>1, RunIs
<1>3. Q(f)
  <2>1. \A i \in 0 .. n : f[i] = IF i = 0 THEN NothingRead ELSE Reader[<<f[i - 1], s[i]>>]
    BY <1>1 DEF Runs
  <2>2. ASSUME NEW i \in 0 .. n
        PROVE  f[i] = IF i = 0 THEN NothingRead ELSE Read(f[i - 1], s[i])
    <3>1. CASE i = 0
      BY <2>1, <3>1
    <3>2. CASE i # 0
      <4>1. i \in 1 .. n /\ i - 1 \in 0 .. n
        BY <1>0, <3>2
      <4>2. Reader[<<f[i - 1], s[i]>>] = Read(f[i - 1], s[i])
        BY <1>0, <4>1, ReaderLoops
      <4> QED
        BY <2>1, <3>2, <4>2
    <3> QED
      BY <3>1, <3>2
  <2>3. f = [i \in 0 .. n |-> f[i]]
    OBVIOUS
  <2> QED
    BY <2>2, <2>3
<1>4. ASSUME NEW g, Q(g) PROVE g = f
  <2> DEFINE T == {i \in 0 .. n : g[i] # f[i]}
  <2>1. \A i \in 0 .. n : g[i] = IF i = 0 THEN NothingRead ELSE Read(g[i - 1], s[i])
    BY <1>4
  <2>2. \A i \in 0 .. n : f[i] = IF i = 0 THEN NothingRead ELSE Read(f[i - 1], s[i])
    BY <1>3
  <2>3. T = {}
    <3> SUFFICES ASSUME T # {} PROVE FALSE
      OBVIOUS
    <3>1. T \in SUBSET Nat
      BY <1>0
    <3>2. PICK i \in T : \A j \in T : i <= j
      BY <3>1, LeastElement
    <3>3. i \in 0 .. n /\ i # 0
      BY <2>1, <2>2
    <3>4. i - 1 \in 0 .. n /\ ~(i <= i - 1)
      BY <1>0, <3>3
    <3>5. g[i - 1] = f[i - 1]
      BY <3>2, <3>4
    <3> QED
      BY <2>1, <2>2, <3>3, <3>5
  <2>4. g = [i \in 0 .. n |-> g[i]] /\ f = [i \in 0 .. n |-> f[i]]
    BY <1>4
  <2> QED
    BY <2>3, <2>4
<1>5. (CHOOSE g : Q(g)) = f
  <2> HIDE DEF Q
  <2>1. Q(CHOOSE g : Q(g))
    BY <1>3
  <2> QED
    BY <1>4, <2>1
<1>6. ServerReads(s) = (CHOOSE g : Q(g))[n]
  BY DEF ServerReads
<1> QED
  BY <1>2, <1>5, <1>6

(* A loop over one character, two or three.                                *)
LEMMA RunOne ==
    ASSUME NEW A, NEW C, NEW F, Loop(A, C, F), NEW b \in A, NEW c \in C
    PROVE  Run(F, b, <<c>>) = F[<<b, c>>]
<1> DEFINE z == << >>
<1>1. z \in Seq(C) /\ <<c>> = Append(z, c) /\ Run(F, b, z) = b
  BY RunEmpty
<1> HIDE DEF z
<1>2. Run(F, b, Append(z, c)) = F[<<Run(F, b, z), c>>]
  BY <1>1, RunAppend
<1> QED
  BY <1>1, <1>2

(* Two characters.                                                         *)
LEMMA RunTwo ==
    ASSUME NEW A, NEW C, NEW F, Loop(A, C, F), NEW b \in A, NEW c \in C, NEW d \in C
    PROVE  Run(F, b, <<c, d>>) = F[<<F[<<b, c>>], d>>]
<1> DEFINE z == <<c>>
<1>1. z \in Seq(C) /\ <<c, d>> = Append(z, d)
  OBVIOUS
<1>2. Run(F, b, z) = F[<<b, c>>]
  BY RunOne
<1> HIDE DEF z
<1>3. Run(F, b, Append(z, d)) = F[<<Run(F, b, z), d>>]
  BY <1>1, RunAppend
<1> QED
  BY <1>1, <1>2, <1>3

(* Three characters.                                                       *)
LEMMA RunThree ==
    ASSUME NEW A, NEW C, NEW F, Loop(A, C, F), NEW b \in A,
           NEW c \in C, NEW d \in C, NEW e \in C
    PROVE  Run(F, b, <<c, d, e>>) = F[<<F[<<F[<<b, c>>], d>>], e>>]
<1> DEFINE z == <<c, d>>
<1>1. z \in Seq(C) /\ <<c, d, e>> = Append(z, e)
  OBVIOUS
<1>2. Run(F, b, z) = F[<<F[<<b, c>>], d>>]
  BY RunTwo
<1> HIDE DEF z
<1>3. Run(F, b, Append(z, e)) = F[<<Run(F, b, z), e>>]
  BY <1>1, RunAppend
<1> QED
  BY <1>1, <1>2, <1>3

-----------------------------------------------------------------------------
(* The guard and the literal                                               *)

(* What TestInjection has seen behind an escaped value is the quote before *)
(* it: no character of the value opens, closes or ends anything.           *)
LEMMA ScanEscaped ==
    ASSUME NEW s \in Seq(CharClass), NEW n \in 0 .. Len(s)
    PROVE  Run(Scanner, "quoted", Escaped(s, n)) = "quoted"
<1> DEFINE T == {k \in 0 .. Len(s) : Run(Scanner, "quoted", Escaped(s, k)) # "quoted"}
<1>0. Len(s) \in Nat /\ "quoted" \in ScanState
  BY DEF ScanState
<1>1. Loop(ScanState, CharClass, Scanner)
  BY ScannerLoops
<1>2. ASSUME NEW c \in CharClass PROVE Run(Scanner, "quoted", Escape(c)) = "quoted"
  <2>1. /\ Run(Scanner, "quoted", <<c>>) = Scanner[<<"quoted", c>>]
        /\ Run(Scanner, "quoted", <<c, c>>) = Scanner[<<Scanner[<<"quoted", c>>], c>>]
    <3>1. Run(Scanner, "quoted", <<c>>) = Scanner[<<"quoted", c>>]
      BY <1>0, <1>1, RunOne
    <3>2. Run(Scanner, "quoted", <<c, c>>) = Scanner[<<Scanner[<<"quoted", c>>], c>>]
      BY <1>0, <1>1, RunTwo
    <3> QED
      BY <3>1, <3>2
  <2>2. Scanner[<<"quoted", c>>] = Scan("quoted", c)
    BY <1>0, ScannerLoops
  <2>3. CASE c \in {"quote", "backslash"}
    <3>1. Scan("quoted", c) = IF c = "quote" THEN "outside" ELSE "escapeQuoted"
      BY <2>3 DEF Scan
    <3>2. Scanner[<<Scan("quoted", c), c>>] = Scan(Scan("quoted", c), c)
      BY <1>0, ScannerLoops
    <3>3. Scan("outside", "quote") = "quoted" /\ Scan("escapeQuoted", c) = "quoted"
      <4>1. Scan("outside", "quote") = "quoted"
        BY DEF Scan
      <4>2. Scan("escapeQuoted", c) = "quoted"
        BY DEF Scan
      <4> QED
        BY <4>1, <4>2
    <3>4. Scan(Scan("quoted", c), c) = "quoted"
      BY <2>3, <3>1, <3>3
    <3> QED
      BY <2>1, <2>2, <2>3, <3>2, <3>4 DEF Escape
  <2>4. CASE c \notin {"quote", "backslash"}
    <3>1. Scan("quoted", c) = "quoted"
      BY <2>4 DEF Scan
    <3> QED
      BY <2>1, <2>2, <2>4, <3>1 DEF Escape
  <2> QED
    BY <2>3, <2>4
<1>3. T = {}
  <2> SUFFICES ASSUME T # {} PROVE FALSE
    OBVIOUS
  <2>1. T \in SUBSET Nat
    BY <1>0
  <2>2. PICK k \in T : \A j \in T : k <= j
    BY <2>1, LeastElement
  <2>3. k \in 0 .. Len(s) /\ k # 0
    <3>1. Run(Scanner, "quoted", Escaped(s, 0)) = "quoted"
      BY EscapedGrows, RunEmpty
    <3> QED
      BY <3>1
  <2>4. k \in 1 .. Len(s) /\ k - 1 \in 0 .. Len(s) /\ ~(k <= k - 1)
    BY <1>0, <2>3
  <2> DEFINE u == Escaped(s, k - 1)
             x == Escape(s[k])
  <2>5. /\ u \in Seq(CharClass) /\ s[k] \in CharClass /\ x \in Seq(CharClass)
        /\ Escaped(s, k) = u \o x
    <3>1. u \in Seq(CharClass) /\ Escaped(s, k) = u \o x
      BY <2>4, EscapedGrows
    <3>2. s[k] \in CharClass
      BY <2>4, ElementOfSeq
    <3>3. x \in Seq(CharClass)
      BY <3>2 DEF Escape
    <3> QED
      BY <3>1, <3>2, <3>3
  <2>6. Run(Scanner, "quoted", u) = "quoted"
    BY <2>2, <2>4
  <2>7. Run(Scanner, "quoted", x) = "quoted"
    BY <1>2, <2>5
  <2>8. Run(Scanner, "quoted", u \o x) = Run(Scanner, Run(Scanner, "quoted", u), x)
    <3> HIDE DEF u, x
    <3> QED
      BY <1>0, <1>1, <2>5, RunConcat
  <2>9. Run(Scanner, "quoted", Escaped(s, k)) = "quoted"
    <3> HIDE DEF u, x
    <3> QED
      BY <2>5, <2>6, <2>7, <2>8
  <2> QED
    BY <2>2, <2>9
<1> QED
  BY <1>3

(* Where FixMultibyte cuts a text, and whether it writes the dots.         *)
Cut(s, n) == IF Len(s) > n THEN n + 1 ELSE Len(s)
Tail3(s, n) == IF Len(s) > n + 1 THEN Dots ELSE << >>

(* What FixMultibyte returns is the part kept, escaped, and the dots.      *)
LEMMA FixParts ==
    ASSUME NEW s \in Seq(CharClass), NEW n \in Nat
    PROVE  /\ FixMultibyte(s, n) = Escaped(s, Cut(s, n)) \o Tail3(s, n)
           /\ Cut(s, n) \in 0 .. Len(s)
           /\ Escaped(s, Cut(s, n)) \in Seq(CharClass)
           /\ Tail3(s, n) \in Seq(CharClass)
           /\ FixMultibyte(s, n) \in Seq(CharClass)
<1>1. FixMultibyte(s, n) = Escaped(s, Cut(s, n)) \o Tail3(s, n)
  BY DEF FixMultibyte, Escaped, Cut, Tail3
<1>2. Cut(s, n) \in 0 .. Len(s)
  BY DEF Cut
<1>3. Escaped(s, Cut(s, n)) \in Seq(CharClass)
  BY <1>2, EscapedGrows
<1>4. Tail3(s, n) \in Seq(CharClass)
  <2>1. "letter" \in CharClass
    BY DEF CharClass
  <2>2. Dots \in Seq(CharClass) /\ << >> \in Seq(CharClass)
    BY <2>1 DEF Dots
  <2> QED
    BY <2>2 DEF Tail3
<1> QED
  BY <1>1, <1>2, <1>3, <1>4, ConcatProperties

(* TestInjection judges a statement around an escaped value as it judges   *)
(* what is written behind the literal, whatever the value.                 *)
LEMMA GuardIgnoresValue ==
    ASSUME NEW s \in Seq(CharClass), NEW n \in Nat, NEW e \in Seq(CharClass)
    PROVE  TestInjection(Opening \o FixMultibyte(s, n) \o <<"quote">> \o e)
             <=> TestInjection(e)
<1> DEFINE w == FixMultibyte(s, n)
           u == Escaped(s, Cut(s, n))
           x == Tail3(s, n)
           q == <<"quote">>
<1>0. /\ Loop(ScanState, CharClass, Scanner) /\ "outside" \in ScanState
      /\ "quoted" \in ScanState /\ "letter" \in CharClass /\ "quote" \in CharClass
  BY ScannerLoops DEF ScanState, CharClass
<1>1. /\ u \in Seq(CharClass) /\ x \in Seq(CharClass) /\ w \in Seq(CharClass) /\ w = u \o x
      /\ q \in Seq(CharClass) /\ Opening \in Seq(CharClass)
      /\ Opening \o w \in Seq(CharClass) /\ Opening \o w \o q \in Seq(CharClass)
      /\ Opening \o w \o q \o e \in Seq(CharClass)
  <2>1. u \in Seq(CharClass) /\ x \in Seq(CharClass) /\ w \in Seq(CharClass) /\ w = u \o x
    BY FixParts
  <2>2. q \in Seq(CharClass) /\ Opening \in Seq(CharClass)
    BY <1>0 DEF Opening
  <2> HIDE DEF u, x, w, q
  <2>3. Opening \o w \in Seq(CharClass)
    BY <2>1, <2>2, ConcatProperties
  <2>4. Opening \o w \o q \in Seq(CharClass)
    BY <2>2, <2>3, ConcatProperties
  <2>5. Opening \o w \o q \o e \in Seq(CharClass)
    BY <2>4, ConcatProperties
  <2> QED
    BY <2>1, <2>2, <2>3, <2>4, <2>5
<1>2. Run(Scanner, "outside", Opening) = "quoted"
  <2>1. Run(Scanner, "outside", Opening)
          = Scanner[<<Scanner[<<"outside", "letter">>], "quote">>]
    BY <1>0, RunTwo DEF Opening
  <2>2. Scanner[<<"outside", "letter">>] = "outside"
    BY <1>0, ScannerLoops DEF Scan
  <2>3. Scanner[<<"outside", "quote">>] = "quoted"
    BY <1>0, ScannerLoops DEF Scan
  <2> QED
    BY <2>1, <2>2, <2>3
<1>3. Run(Scanner, "quoted", x) = "quoted"
  <2>1. CASE x = << >>
    BY <2>1, RunEmpty
  <2>2. CASE x = <<"letter", "letter", "letter">>
    <3>1. Scanner[<<"quoted", "letter">>] = "quoted"
      BY <1>0, ScannerLoops DEF Scan
    <3> HIDE DEF x
    <3>2. Run(Scanner, "quoted", x)
            = Scanner[<<Scanner[<<Scanner[<<"quoted", "letter">>], "letter">>], "letter">>]
      BY <1>0, <2>2, RunThree
    <3> QED
      BY <3>1, <3>2
  <2> QED
    BY <2>1, <2>2 DEF Tail3, Dots
<1>4. Run(Scanner, "quoted", u) = "quoted"
  BY FixParts, ScanEscaped
<1> HIDE DEF u, x, w
<1>5. Run(Scanner, "quoted", w) = "quoted"
  <2>1. Run(Scanner, "quoted", u \o x) = Run(Scanner, Run(Scanner, "quoted", u), x)
    BY <1>0, <1>1, RunConcat
  <2> QED
    BY <1>1, <1>3, <1>4, <2>1
<1>6. Run(Scanner, "outside", Opening \o w) = "quoted"
  <2>1. Run(Scanner, "outside", Opening \o w)
          = Run(Scanner, Run(Scanner, "outside", Opening), w)
    <3> DEFINE y == Opening
    <3>1. /\ Loop(ScanState, CharClass, Scanner) /\ "outside" \in ScanState
          /\ y \in Seq(CharClass) /\ w \in Seq(CharClass)
      BY <1>0, <1>1
    <3> HIDE DEF y
    <3>2. Run(Scanner, "outside", y \o w) = Run(Scanner, Run(Scanner, "outside", y), w)
      BY <3>1, RunConcat
    <3> QED
      BY <3>2 DEF y
  <2> QED
    BY <1>2, <1>5, <2>1
<1>7. Run(Scanner, "quoted", q) = "outside"
  <2>1. Scanner[<<"quoted", "quote">>] = "outside"
    BY <1>0, ScannerLoops DEF Scan
  <2>2. Run(Scanner, "quoted", q) = Scanner[<<"quoted", "quote">>]
    BY <1>0, RunOne
  <2> QED
    BY <2>1, <2>2
<1> HIDE DEF q
<1>8. Run(Scanner, "outside", Opening \o w \o q) = "outside"
  <2>1. Run(Scanner, "outside", (Opening \o w) \o q)
          = Run(Scanner, Run(Scanner, "outside", Opening \o w), q)
    <3> DEFINE y == Opening \o w
    <3>1. /\ Loop(ScanState, CharClass, Scanner) /\ "outside" \in ScanState
          /\ y \in Seq(CharClass) /\ q \in Seq(CharClass)
      BY <1>0, <1>1
    <3> HIDE DEF y
    <3>2. Run(Scanner, "outside", y \o q) = Run(Scanner, Run(Scanner, "outside", y), q)
      BY <3>1, RunConcat
    <3> QED
      BY <3>2 DEF y
  <2> QED
    BY <1>6, <1>7, <2>1
<1>9. Run(Scanner, "outside", Opening \o w \o q \o e) = Run(Scanner, "outside", e)
  <2>1. Run(Scanner, "outside", (Opening \o w \o q) \o e)
          = Run(Scanner, Run(Scanner, "outside", Opening \o w \o q), e)
    <3> DEFINE y == Opening \o w \o q
    <3>1. /\ Loop(ScanState, CharClass, Scanner) /\ "outside" \in ScanState
          /\ y \in Seq(CharClass) /\ e \in Seq(CharClass)
      BY <1>0, <1>1
    <3> HIDE DEF y
    <3>2. Run(Scanner, "outside", y \o e) = Run(Scanner, Run(Scanner, "outside", y), e)
      BY <3>1, RunConcat
    <3> QED
      BY <3>2 DEF y
  <2> QED
    BY <1>8, <2>1
<1>10. TestInjection(Opening \o w \o q \o e) <=> TestInjection(e)
  BY <1>1, <1>9, TestIsRun
<1> QED
  BY <1>10 DEF w, q

(* Of a text without quotes and backslashes TestInjection finds the first  *)
(* semicolon, and then anything but a blank.                               *)
LEMMA GuardOnPlain ==
    ASSUME NEW e \in Seq(CharClass \ {"quote", "backslash"})
    PROVE  TestInjection(e) <=> SecondStatement(e, LAMBDA c : c # "space")
<1> DEFINE Semi(k) == \E i \in 1 .. k : e[i] = "semicolon"
           Second(k) == \E i \in 1 .. k, j \in 1 .. k :
                          e[i] = "semicolon" /\ i < j /\ e[j] # "space"
           State(k) == IF Second(k) THEN "suspect" ELSE IF Semi(k) THEN "semicolon" ELSE "outside"
           pre(k) == SubSeq(e, 1, k)
           T == {k \in 0 .. Len(e) : Run(Scanner, "outside", pre(k)) # State(k)}
<1>0. /\ Len(e) \in Nat /\ e \in Seq(CharClass)
      /\ \A k \in 1 .. Len(e) : e[k] \in CharClass \ {"quote", "backslash"}
  OBVIOUS
<1>1. Loop(ScanState, CharClass, Scanner) /\ "outside" \in ScanState
  BY ScannerLoops DEF ScanState
<1>2. Run(Scanner, "outside", pre(0)) = State(0)
  <2>1. pre(0) = << >>
    BY <1>0
  <2>2. ~Second(0) /\ ~Semi(0)
    OBVIOUS
  <2> HIDE DEF pre
  <2> QED
    BY <2>1, <2>2, RunEmpty
<1>3. ASSUME NEW k \in 1 .. Len(e), Run(Scanner, "outside", pre(k - 1)) = State(k - 1)
      PROVE  Run(Scanner, "outside", pre(k)) = State(k)
  <2>1. pre(k - 1) \in Seq(CharClass) /\ pre(k) = Append(pre(k - 1), e[k])
    <3>1. pre(k) = Append(SubSeq(e, 1, k - 1), e[k])
      BY <1>0, SubSeqRecursiveSecond
    <3> QED
      BY <1>0, <3>1
  <2>2. Run(Scanner, "outside", pre(k)) = Scanner[<<State(k - 1), e[k]>>]
    <3> DEFINE u == pre(k - 1)
               c == e[k]
    <3>1. u \in Seq(CharClass) /\ c \in CharClass /\ pre(k) = Append(u, c)
      BY <1>0, <2>1
    <3>2. Run(Scanner, "outside", u) = State(k - 1)
      BY <1>3
    <3> HIDE DEF u, c, State
    <3>3. Run(Scanner, "outside", Append(u, c)) = Scanner[<<Run(Scanner, "outside", u), c>>]
      BY <1>1, <3>1, RunAppend
    <3> QED
      BY <3>1, <3>2, <3>3 DEF c
  <2>3. Scanner[<<State(k - 1), e[k]>>] = Scan(State(k - 1), e[k])
    <3>1. State(k - 1) \in ScanState
      BY DEF ScanState
    <3> HIDE DEF State
    <3> QED
      BY <1>0, <3>1, ScannerLoops
  <2>4. Semi(k) <=> Semi(k - 1) \/ e[k] = "semicolon"
    BY <1>0
  <2>5. Second(k) <=> Second(k - 1) \/ (Semi(k - 1) /\ e[k] # "space")
    <3>1. \A i \in 1 .. k : i # k => i \in 1 .. k - 1 /\ i < k
      BY <1>0
    <3>2. \A i \in 1 .. k - 1 : i \in 1 .. k /\ i < k /\ ~(k < i)
      BY <1>0
    <3>3. k \in 1 .. k /\ ~(k < k)
      BY <1>0
    <3> QED
      BY <3>1, <3>2, <3>3
  <2>6. Second(k - 1) => Semi(k - 1)
    OBVIOUS
  <2>7. Scan(State(k - 1), e[k]) = State(k)
    <3>1. e[k] # "quote" /\ e[k] # "backslash"
      BY <1>0
    <3> HIDE DEF Semi, Second
    <3> QED
      BY <2>4, <2>5, <2>6, <3>1 DEF Scan
  <2> QED
    BY <2>2, <2>3, <2>7
<1>4. T = {}
  <2> HIDE DEF State, pre
  <2> SUFFICES ASSUME T # {} PROVE FALSE
    OBVIOUS
  <2>1. T \in SUBSET Nat
    BY <1>0
  <2>2. PICK k \in T : \A j \in T : k <= j
    BY <2>1, LeastElement
  <2>3. k \in 0 .. Len(e) /\ k # 0
    BY <1>2
  <2>4. k \in 1 .. Len(e) /\ k - 1 \in 0 .. Len(e) /\ ~(k <= k - 1)
    BY <1>0, <2>3
  <2>5. Run(Scanner, "outside", pre(k - 1)) = State(k - 1)
    BY <2>2, <2>4
  <2> QED
    BY <1>3, <2>2, <2>4, <2>5
<1>5. pre(Len(e)) = e
  BY <1>0
<1>6. Run(Scanner, "outside", pre(Len(e))) = State(Len(e))
  <2> HIDE DEF State, pre
  <2> QED
    BY <1>0, <1>4
<1>7. TestInjection(e) <=> State(Len(e)) = "suspect"
  <2> HIDE DEF State, pre
  <2> QED
    BY <1>0, <1>5, <1>6, TestIsRun
<1>8. State(Len(e)) = "suspect" <=> Second(Len(e))
  OBVIOUS
<1>9. Second(Len(e)) <=> SecondStatement(e, LAMBDA c : c # "space")
  BY DEF SecondStatement
<1> QED
  BY <1>7, <1>8, <1>9

(* The server inside a literal that has given it the text t, and behind    *)
(* the quote that may close it, with what follows as rest.                 *)
Inside(t)       == [text |-> t, rest |-> << >>, pending |-> "no", closed |-> FALSE]
AtQuote(t)      == [text |-> t, rest |-> << >>, pending |-> "quote", closed |-> FALSE]
Behind(t, rest) == [text |-> t, rest |-> rest, pending |-> "quote", closed |-> TRUE]

(* These are states of the reading loop, and what one character makes of   *)
(* them.                                                                   *)
LEMMA ReadSteps ==
    ASSUME NEW t \in Seq(CharClass), NEW rest \in Seq(CharClass), NEW c \in CharClass
    PROVE  /\ {Inside(t), AtQuote(t), Behind(t, rest)} \subseteq ReadState
           /\ c \notin {"quote", "backslash"} => Read(Inside(t), c) = Inside(Append(t, c))
           /\ c \in {"quote", "backslash"} =>
                Read(Read(Inside(t), c), c) = Inside(Append(t, c))
           /\ Read(Inside(t), "quote") = AtQuote(t)
           /\ c # "quote" => Read(AtQuote(t), c) = Behind(t, <<c>>)
           /\ Read(Behind(t, rest), c) = Behind(t, Append(rest, c))
<1>1. {Inside(t), AtQuote(t), Behind(t, rest)} \subseteq ReadState
  BY DEF Inside, AtQuote, Behind, ReadState
<1>2. ASSUME c \notin {"quote", "backslash"} PROVE Read(Inside(t), c) = Inside(Append(t, c))
  BY <1>2 DEF Read, Inside
<1>3. ASSUME c = "quote" PROVE Read(Inside(t), c) = AtQuote(t)
  BY <1>3 DEF Read, Inside, AtQuote
<1>4. ASSUME c = "quote" PROVE Read(AtQuote(t), c) = Inside(Append(t, c))
  BY <1>4 DEF Read, Inside, AtQuote
<1>5. ASSUME c = "backslash" PROVE Read(Read(Inside(t), c), c) = Inside(Append(t, c))
  <2>1. Read(Inside(t), c)
          = [text |-> t, rest |-> << >>, pending |-> "backslash", closed |-> FALSE]
    BY <1>5 DEF Read, Inside
  <2>2. Read([text |-> t, rest |-> << >>, pending |-> "backslash", closed |-> FALSE], c)
          = Inside(Append(t, c))
    BY <1>5 DEF Read, Inside
  <2> QED
    BY <2>1, <2>2
<1>6. Read(Inside(t), "quote") = AtQuote(t)
  BY DEF Read, Inside, AtQuote
<1>7. ASSUME c # "quote" PROVE Read(AtQuote(t), c) = Behind(t, <<c>>)
  <2>1. Append(<< >>, c) = <<c>>
    OBVIOUS
  <2> QED
    BY <1>7, <2>1 DEF Read, AtQuote, Behind
<1>8. Read(Behind(t, rest), c) = Behind(t, Append(rest, c))
  BY DEF Read, Behind
<1> QED
  BY <1>1, <1>2, <1>3, <1>4, <1>5, <1>6, <1>7, <1>8

(* What the server has read of an escaped value is the value.              *)
LEMMA ReadEscaped ==
    ASSUME NEW s \in Seq(CharClass), NEW n \in 0 .. Len(s)
    PROVE  Run(Reader, NothingRead, Escaped(s, n)) = Inside(SubSeq(s, 1, n))
<1> DEFINE pre(k) == SubSeq(s, 1, k)
           T == {k \in 0 .. Len(s) :
                   Run(Reader, NothingRead, Escaped(s, k)) # Inside(pre(k))}
<1>0. Len(s) \in Nat /\ NothingRead \in ReadState /\ NothingRead = Inside(<< >>)
  BY ReaderLoops DEF NothingRead, Inside
<1>1. Loop(ReadState, CharClass, Reader)
  BY ReaderLoops
<1>2. ASSUME NEW t \in Seq(CharClass), NEW c \in CharClass
      PROVE  Run(Reader, Inside(t), Escape(c)) = Inside(Append(t, c))
  <2>1. Inside(t) \in ReadState
    BY <1>2, ReadSteps
  <2>2. Reader[<<Inside(t), c>>] = Read(Inside(t), c)
    BY <2>1, ReaderLoops
  <2>3. CASE c \in {"quote", "backslash"}
    <3>1. Run(Reader, Inside(t), <<c, c>>) = Reader[<<Reader[<<Inside(t), c>>], c>>]
      BY <1>1, <2>1, RunTwo
    <3>2. Read(Inside(t), c) \in ReadState
      BY <1>1, <2>1, <2>2 DEF Loop
    <3>3. Reader[<<Read(Inside(t), c), c>>] = Read(Read(Inside(t), c), c)
      BY <3>2, ReaderLoops
    <3>4. Read(Read(Inside(t), c), c) = Inside(Append(t, c))
      BY <2>3, ReadSteps
    <3> QED
      BY <2>2, <2>3, <3>1, <3>3, <3>4 DEF Escape
  <2>4. CASE c \notin {"quote", "backslash"}
    <3>1. Run(Reader, Inside(t), <<c>>) = Reader[<<Inside(t), c>>]
      BY <1>1, <2>1, RunOne
    <3>2. Read(Inside(t), c) = Inside(Append(t, c))
      BY <2>4, ReadSteps
    <3> QED
      BY <2>2, <2>4, <3>1, <3>2 DEF Escape
  <2> QED
    BY <2>3, <2>4
<1>3. T = {}
  <2> SUFFICES ASSUME T # {} PROVE FALSE
    OBVIOUS
  <2>1. T \in SUBSET Nat
    BY <1>0
  <2>2. PICK k \in T : \A j \in T : k <= j
    BY <2>1, LeastElement
  <2>3. k \in 0 .. Len(s) /\ k # 0
    <3>1. Escaped(s, 0) = << >> /\ pre(0) = << >>
      BY <1>0, EscapedGrows
    <3>2. Run(Reader, NothingRead, Escaped(s, 0)) = Inside(pre(0))
      <4> HIDE DEF pre
      <4> QED
        BY <1>0, <3>1, RunEmpty
    <3> QED
      BY <3>2
  <2>4. k \in 1 .. Len(s) /\ k - 1 \in 0 .. Len(s) /\ ~(k <= k - 1)
    BY <1>0, <2>3
  <2> DEFINE u == Escaped(s, k - 1)
             x == Escape(s[k])
  <2>5. /\ u \in Seq(CharClass) /\ s[k] \in CharClass /\ x \in Seq(CharClass)
        /\ Escaped(s, k) = u \o x
    <3>1. u \in Seq(CharClass) /\ Escaped(s, k) = u \o x
      BY <2>4, EscapedGrows
    <3>2. s[k] \in CharClass
      BY <2>4, ElementOfSeq
    <3>3. x \in Seq(CharClass)
      BY <3>2 DEF Escape
    <3> QED
      BY <3>1, <3>2, <3>3
  <2>6. pre(k - 1) \in Seq(CharClass) /\ pre(k) = Append(pre(k - 1), s[k])
    <3>1. pre(k) = Append(SubSeq(s, 1, k - 1), s[k])
      BY <1>0, <2>4, SubSeqRecursiveSecond
    <3> QED
      BY <1>0, <2>4, <3>1
  <2>7. Run(Reader, NothingRead, u) = Inside(pre(k - 1))
    BY <2>2, <2>4
  <2> HIDE DEF pre
  <2>8. Run(Reader, Inside(pre(k - 1)), x) = Inside(pre(k))
    BY <1>2, <2>5, <2>6
  <2> HIDE DEF u, x
  <2>9. Run(Reader, NothingRead, u \o x) = Run(Reader, Run(Reader, NothingRead, u), x)
    BY <1>0, <1>1, <2>5, RunConcat
  <2>10. Run(Reader, NothingRead, Escaped(s, k)) = Inside(pre(k))
    BY <2>5, <2>7, <2>8, <2>9
  <2> QED
    BY <2>2, <2>10
<1> QED
  BY <1>3

(* And behind the literal it reads the ending, whatever it is but for a    *)
(* quote at its start, which would be the second one of an escape.         *)
LEMMA ReadEnding ==
    ASSUME NEW t \in Seq(CharClass), NEW e \in Seq(CharClass),
           e # << >>, e[1] # "quote"
    PROVE  Run(Reader, AtQuote(t), e) = Behind(t, e)
<1> DEFINE pre(k) == SubSeq(e, 1, k)
           T == {k \in 1 .. Len(e) : Run(Reader, AtQuote(t), pre(k)) # Behind(t, pre(k))}
<1>0. Len(e) \in Nat /\ Len(e) # 0 /\ \A k \in 1 .. Len(e) : e[k] \in CharClass
  OBVIOUS
<1>1. Loop(ReadState, CharClass, Reader)
  BY ReaderLoops
<1>2. AtQuote(t) \in ReadState
  BY <1>0 DEF AtQuote, ReadState
<1>3. Run(Reader, AtQuote(t), pre(1)) = Behind(t, pre(1))
  <2>1. e[1] \in CharClass
    BY <1>0
  <2>2. pre(1) = <<e[1]>>
    <3>1. 1 \in 1 .. Len(e) /\ pre(1) = Append(SubSeq(e, 1, 1 - 1), e[1])
      BY <1>0, SubSeqRecursiveSecond
    <3>2. SubSeq(e, 1, 1 - 1) = << >>
      BY <1>0
    <3> DEFINE c == e[1]
    <3> HIDE DEF pre, c
    <3>3. Append(<< >>, c) = <<c>>
      OBVIOUS
    <3> QED
      BY <3>1, <3>2, <3>3 DEF c
  <2> HIDE DEF pre
  <2>3. Run(Reader, AtQuote(t), <<e[1]>>) = Reader[<<AtQuote(t), e[1]>>]
    BY <1>1, <1>2, <2>1, RunOne
  <2>4. Reader[<<AtQuote(t), e[1]>>] = Read(AtQuote(t), e[1])
    BY <1>2, <2>1, ReaderLoops
  <2>5. Read(AtQuote(t), e[1]) = Behind(t, <<e[1]>>)
    BY <2>1, ReadSteps
  <2> QED
    BY <2>2, <2>3, <2>4, <2>5
<1>4. T = {}
  <2> SUFFICES ASSUME T # {} PROVE FALSE
    OBVIOUS
  <2>1. T \in SUBSET Nat
    BY <1>0
  <2>2. PICK k \in T : \A j \in T : k <= j
    BY <2>1, LeastElement
  <2>3. k \in 1 .. Len(e) /\ k # 1
    BY <1>3
  <2>4. k - 1 \in 1 .. Len(e) /\ ~(k <= k - 1)
    BY <1>0, <2>3
  <2>5. Run(Reader, AtQuote(t), pre(k - 1)) = Behind(t, pre(k - 1))
    BY <2>2, <2>4
  <2>6. /\ pre(k - 1) \in Seq(CharClass) /\ e[k] \in CharClass
        /\ pre(k) = Append(pre(k - 1), e[k])
    <3>1. pre(k) = Append(SubSeq(e, 1, k - 1), e[k])
      BY <1>0, <2>3, SubSeqRecursiveSecond
    <3> QED
      BY <1>0, <2>3, <3>1
  <2> HIDE DEF pre
  <2>7. Run(Reader, AtQuote(t), Append(pre(k - 1), e[k]))
          = Reader[<<Run(Reader, AtQuote(t), pre(k - 1)), e[k]>>]
    <3> DEFINE u == pre(k - 1)
               c == e[k]
    <3>1. u \in Seq(CharClass) /\ c \in CharClass
      BY <2>6
    <3> HIDE DEF u, c
    <3>2. Run(Reader, AtQuote(t), Append(u, c)) = Reader[<<Run(Reader, AtQuote(t), u), c>>]
      BY <1>1, <1>2, <3>1, RunAppend
    <3> QED
      BY <3>2 DEF u, c
  <2>8. Reader[<<Behind(t, pre(k - 1)), e[k]>>] = Read(Behind(t, pre(k - 1)), e[k])
    <3>1. Behind(t, pre(k - 1)) \in ReadState
      BY <2>6 DEF Behind, ReadState
    <3> QED
      BY <2>6, <3>1, ReaderLoops
  <2>9. Read(Behind(t, pre(k - 1)), e[k]) = Behind(t, pre(k))
    BY <2>6, ReadSteps
  <2>10. Run(Reader, AtQuote(t), pre(k)) = Behind(t, pre(k))
    BY <2>5, <2>6, <2>7, <2>8, <2>9
  <2> QED
    BY <2>2, <2>10
<1>5. pre(Len(e)) = e /\ Len(e) \in 1 .. Len(e)
  BY <1>0
<1>6. Run(Reader, AtQuote(t), pre(Len(e))) = Behind(t, pre(Len(e)))
  <2> HIDE DEF pre
  <2> QED
    BY <1>4, <1>5
<1> QED
  BY <1>5, <1>6

(* A character appended three times.                                       *)
LEMMA ThreeMore ==
    ASSUME NEW C, NEW s \in Seq(C), NEW c \in C
    PROVE  Append(Append(Append(s, c), c), c) = s \o <<c, c, c>>
OBVIOUS

(* What the server reads of a literal and of what follows it.              *)
LEMMA ReadLiteral ==
    ASSUME NEW s \in Seq(CharClass), NEW n \in Nat, NEW e \in Seq(CharClass),
           e # << >> => e[1] # "quote"
    PROVE  ServerReads(FixMultibyte(s, n) \o <<"quote">> \o e)
             = LET t == IF Len(s) > n + 1 THEN SubSeq(s, 1, n + 1) \o Dots ELSE s
               IN  IF e = << >> THEN AtQuote(t) ELSE Behind(t, e)
<1> DEFINE w == FixMultibyte(s, n)
           u == Escaped(s, Cut(s, n))
           x == Tail3(s, n)
           q == <<"quote">>
           t == IF Len(s) > n + 1 THEN SubSeq(s, 1, n + 1) \o Dots ELSE s
           p == SubSeq(s, 1, Cut(s, n))
<1>0. /\ Loop(ReadState, CharClass, Reader) /\ NothingRead \in ReadState
      /\ "letter" \in CharClass /\ "quote" \in CharClass
  BY ReaderLoops DEF CharClass
<1>1. /\ u \in Seq(CharClass) /\ x \in Seq(CharClass) /\ w \in Seq(CharClass) /\ w = u \o x
      /\ q \in Seq(CharClass) /\ w \o q \in Seq(CharClass) /\ (w \o q) \o e \in Seq(CharClass)
  <2>1. u \in Seq(CharClass) /\ x \in Seq(CharClass) /\ w \in Seq(CharClass) /\ w = u \o x
    BY FixParts
  <2>2. q \in Seq(CharClass)
    BY <1>0
  <2> HIDE DEF u, x, w, q
  <2>3. w \o q \in Seq(CharClass)
    BY <2>1, <2>2, ConcatProperties
  <2>4. (w \o q) \o e \in Seq(CharClass)
    BY <2>3, ConcatProperties
  <2> QED
    BY <2>1, <2>2, <2>3, <2>4
<1>2. p \in Seq(CharClass) /\ t \in Seq(CharClass)
  <2>1. Cut(s, n) \in 0 .. Len(s)
    BY FixParts
  <2>2. p \in Seq(CharClass)
    BY <2>1
  <2>3. Len(s) > n + 1 => SubSeq(s, 1, n + 1) \in Seq(CharClass)
    OBVIOUS
  <2>4. Dots \in Seq(CharClass)
    BY <1>0 DEF Dots
  <2>5. Len(s) > n + 1 => SubSeq(s, 1, n + 1) \o Dots \in Seq(CharClass)
    BY <2>3, <2>4, ConcatProperties
  <2> QED
    BY <2>2, <2>5
<1>3. Run(Reader, NothingRead, u) = Inside(p)
  BY FixParts, ReadEscaped
<1>4. Run(Reader, Inside(p), x) = Inside(t)
  <2>1. CASE Len(s) > n + 1
    <3>1. x = <<"letter", "letter", "letter">> /\ t = p \o x
      <4>1. x = Dots /\ Dots = <<"letter", "letter", "letter">>
        BY <2>1 DEF Tail3, Dots
      <4>2. Len(s) > n /\ Cut(s, n) = n + 1
        BY <2>1 DEF Cut
      <4> HIDE DEF x
      <4>3. t = SubSeq(s, 1, n + 1) \o Dots /\ p = SubSeq(s, 1, n + 1)
        BY <2>1, <4>2
      <4> QED
        BY <4>1, <4>3
    <3> DEFINE p1 == Append(p, "letter")
               p2 == Append(p1, "letter")
               p3 == Append(p2, "letter")
    <3>2. p1 \in Seq(CharClass) /\ p2 \in Seq(CharClass) /\ p3 = p \o x
      <4>1. p1 \in Seq(CharClass) /\ p2 \in Seq(CharClass)
        BY <1>0, <1>2
      <4> HIDE DEF p, x
      <4>2. p3 = p \o x
        BY <1>0, <1>2, <3>1, ThreeMore
      <4> QED
        BY <4>1, <4>2
    <3> HIDE DEF p, x, t
    <3>3. /\ Inside(p) \in ReadState
          /\ Reader[<<Inside(p), "letter">>] = Inside(p1)
          /\ Reader[<<Inside(p1), "letter">>] = Inside(p2)
          /\ Reader[<<Inside(p2), "letter">>] = Inside(p3)
      <4> HIDE DEF p1, p2, p3
      <4>0. /\ p1 = Append(p, "letter") /\ p2 = Append(p1, "letter")
            /\ p3 = Append(p2, "letter")
        BY DEF p1, p2, p3
      <4>1. ASSUME NEW v \in Seq(CharClass)
            PROVE  /\ Inside(v) \in ReadState
                   /\ Reader[<<Inside(v), "letter">>] = Inside(Append(v, "letter"))
        <5>1. Inside(v) \in ReadState
          BY DEF Inside, ReadState
        <5>2. Read(Inside(v), "letter") = Inside(Append(v, "letter"))
          BY <1>0, ReadSteps
        <5>3. Reader[<<Inside(v), "letter">>] = Read(Inside(v), "letter")
          BY <1>0, <5>1, ReaderLoops
        <5> QED
          BY <5>1, <5>2, <5>3
      <4> QED
        BY <1>2, <3>2, <4>0, <4>1
    <3> HIDE DEF p1, p2, p3
    <3>4. Run(Reader, Inside(p), <<"letter", "letter", "letter">>)
            = Reader[<<Reader[<<Reader[<<Inside(p), "letter">>], "letter">>], "letter">>]
      BY <1>0, <3>3, RunThree
    <3> QED
      BY <3>1, <3>2, <3>3, <3>4
  <2>2. CASE ~(Len(s) > n + 1)
    <3>1. Cut(s, n) = Len(s)
      BY <2>2 DEF Cut
    <3>2. x = << >> /\ p = s /\ t = s
      BY <2>2, <3>1 DEF Tail3
    <3> QED
      BY <3>2, RunEmpty
  <2> QED
    BY <2>1, <2>2
<1>5. AtQuote(t) \in ReadState /\ Run(Reader, Inside(t), q) = AtQuote(t)
  <2> HIDE DEF t
  <2>1. Inside(t) \in ReadState /\ AtQuote(t) \in ReadState
    BY <1>2 DEF Inside, AtQuote, ReadState
  <2>2. Run(Reader, Inside(t), q) = Reader[<<Inside(t), "quote">>]
    BY <1>0, <2>1, RunOne
  <2>3. Reader[<<Inside(t), "quote">>] = Read(Inside(t), "quote")
    BY <1>0, <2>1, ReaderLoops
  <2>4. Read(Inside(t), "quote") = AtQuote(t)
    BY <1>0, <1>2, ReadSteps
  <2> QED
    BY <2>1, <2>2, <2>3, <2>4
<1> HIDE DEF w, u, x, q, t, p
<1>6. Run(Reader, NothingRead, w) = Inside(t)
  <2>1. Run(Reader, NothingRead, u \o x) = Run(Reader, Run(Reader, NothingRead, u), x)
    BY <1>0, <1>1, RunConcat
  <2> QED
    BY <1>1, <1>3, <1>4, <2>1
<1>7. Run(Reader, NothingRead, w \o q) = AtQuote(t)
  <2>1. Run(Reader, NothingRead, w \o q) = Run(Reader, Run(Reader, NothingRead, w), q)
    <3>1. w \in Seq(CharClass) /\ q \in Seq(CharClass)
      BY <1>1
    <3> QED
      BY <1>0, <3>1, RunConcat
  <2> QED
    BY <1>5, <1>6, <2>1
<1>8. Run(Reader, NothingRead, (w \o q) \o e) = Run(Reader, AtQuote(t), e)
  <2> DEFINE y == w \o q
  <2>1. y \in Seq(CharClass)
    BY <1>1
  <2> HIDE DEF y
  <2>2. Run(Reader, NothingRead, y \o e) = Run(Reader, Run(Reader, NothingRead, y), e)
    BY <1>0, <2>1, RunConcat
  <2> QED
    BY <1>7, <2>2 DEF y
<1>9. Run(Reader, AtQuote(t), e) = IF e = << >> THEN AtQuote(t) ELSE Behind(t, e)
  BY <1>2, RunEmpty, ReadEnding
<1>10. ServerReads((w \o q) \o e) = IF e = << >> THEN AtQuote(t) ELSE Behind(t, e)
  BY <1>1, <1>8, <1>9, ReadsIsRun
<1> QED
  BY <1>10 DEF w, q, t

-----------------------------------------------------------------------------
(* A caller has a text or a time, and a time read back is one of its own.  *)
Caller ==
    /\ value \in Text \cup Time
    /\ readTime # Unread =>
         /\ value \in Time
         /\ readTime = value.time + (IF IsSummer(value.time) THEN OneHour ELSE 0)

(* A time is not taken for a text, and is a number.                        *)
LEMMA ValueKinds ==
    ASSUME value \in Text \cup Time
    PROVE  /\ IsText <=> value \in Text
           /\ ~IsText => value \in Time /\ value.time \in Nat
<1>1. CASE value \in Text
  <2>1. DOMAIN value = {"text", "maxSize", "ending"}
    BY <1>1 DEF Text
  <2>2. QED BY <1>1, <2>1 DEF IsText
<1>2. CASE value \in Time
  <2>1. DOMAIN value = {"time"} /\ value.time \in Nat
    BY <1>2, CallerAssumption DEF Time
  <2>2. value \notin Text
    <3>1. ASSUME value \in Text PROVE "text" \in DOMAIN value
      BY <3>1 DEF Text
    <3>2. QED BY <3>1, <2>1
  <2>3. QED BY <1>2, <2>1, <2>2 DEF IsText
<1>3. QED BY <1>1, <1>2

(* The statement is the caller's, and the guard's last verdict was on it.  *)
Written ==
    /\ statement = Statement(value)
    /\ last.exec = "ExecTuplesOk" => (last.rejected <=> TestInjection(statement))

(* What the object holds between two calls.                                *)
Held ==
    /\ OneResult
    /\ calls \in 0 .. MaxCalls
    /\ m_lastResult \in {Null} \cup [call : 1 .. calls, status : ExecStatusType]

Inv == Caller /\ Written /\ TypeOK /\ Held /\ AnswerIsOwn

(* The invariant holds at the start.                                       *)
LEMMA Initially == Init => Inv
<1> SUFFICES ASSUME Init PROVE Inv
  OBVIOUS
<1>1. Caller
  BY DEF Init, Caller
<1>2. TypeOK
  BY CallerAssumption DEF Init, TypeOK, Null, Unread
<1>3. Held
  BY CallerAssumption DEF Init, Held, OneResult, Null
<1>4. AnswerIsOwn
  BY DEF Init, AnswerIsOwn
<1>5. Written
  BY DEF Init, Written
<1>6. QED BY <1>1, <1>2, <1>3, <1>4, <1>5 DEF Inv

(* Steps that touch neither the caller nor the result keep it.             *)
LEMMA OtherSteps ==
    ASSUME Inv, CPGDatabase \/ ConnectionLost \/ UNCHANGED vars
    PROVE  Inv'
<1> USE DEF Inv
<1>1. CASE CPGDatabase
  BY <1>1 DEF CPGDatabase, Caller, Written, TypeOK, Held, AnswerIsOwn, OneResult,
              IsText, callerVars
<1>2. CASE ConnectionLost
  BY <1>2 DEF ConnectionLost, Caller, Written, TypeOK, Held, AnswerIsOwn, OneResult,
              callerVars
<1>3. CASE UNCHANGED vars
  BY <1>3 DEF vars, Caller, Written, TypeOK, Held, AnswerIsOwn, OneResult, callerVars
<1>4. QED BY <1>1, <1>2, <1>3

(* A statement the guard refuses changes neither result nor error.         *)
LEMMA RejectStep ==
    ASSUME Inv, Called, NEW exec \in {"ExecTuplesOk", "ExecCommandOk"}, Reject(exec),
           exec = "ExecTuplesOk" => TestInjection(statement)
    PROVE  Inv'
<1> USE DEF Inv, Called, Reject
<1>1. Caller'
  BY DEF Caller, callerVars
<1>2. calls \in 0 .. MaxCalls /\ calls' \in 0 .. MaxCalls /\ calls' = calls + 1
  BY CallerAssumption DEF Held
<1>3. TypeOK'
  BY <1>2 DEF TypeOK, callerVars
<1>4. Held'
  BY <1>2 DEF Held, OneResult
<1>5. AnswerIsOwn'
  BY DEF AnswerIsOwn
<1>6. Written'
  BY DEF Written, callerVars
<1>7. QED BY <1>1, <1>3, <1>4, <1>5, <1>6

(* A statement that reaches the server replaces the result, or records its *)
(* own error, or both.                                                     *)
LEMMA ExecuteStep ==
    ASSUME Inv, Called, NEW exec \in {"ExecTuplesOk", "ExecCommandOk"}, Execute(exec),
           exec = "ExecTuplesOk" => ~TestInjection(statement)
    PROVE  Inv'
<1> USE DEF Inv, Called
<1>1. PICK answer \in PQexec :
        /\ Keep(answer) /\ SetErrorMsg(answer)
        /\ last' = [exec |-> exec, rejected |-> FALSE, answer |-> answer,
                    ok |-> ~Failed(answer)]
  BY DEF Execute
<1>2. calls \in 0 .. MaxCalls /\ calls' \in 0 .. MaxCalls /\ calls' = calls + 1
  BY CallerAssumption DEF Held
<1>3. \/ answer = Null
      \/ answer \in [call : {calls + 1}, status : ExecStatusType]
  BY DEF PQexec, ExecStatusType
<1>4. Null.call = 0 /\ Null \notin [call : 1 .. MaxCalls, status : ExecStatusType]
  BY CallerAssumption DEF Null
<1>w. Written'
  BY <1>1 DEF Written, callerVars
<1>5. CASE answer = Null
  <2>1. UNCHANGED <<m_lastResult, results>> /\ m_errorMsg' = calls + 1
    BY <1>1, <1>5 DEF Keep, SetErrorMsg, Failed
  <2>2. ~last'.ok
    BY <1>1, <1>5 DEF Failed
  <2>3. Caller'
    BY DEF Caller, callerVars
  <2>4. TypeOK'
    BY <1>2, <2>1 DEF TypeOK, callerVars
  <2>5. Held'
    BY <1>2, <2>1 DEF Held, OneResult
  <2>6. AnswerIsOwn'
    BY <1>2, <2>1, <2>2 DEF AnswerIsOwn
  <2>7. QED BY <1>w, <2>3, <2>4, <2>5, <2>6
<1>6. CASE answer \in [call : {calls + 1}, status : ExecStatusType]
  <2>0. answer # Null /\ answer.call = calls + 1
        /\ answer \in [call : 1 .. calls', status : ExecStatusType]
        /\ answer \in [call : 1 .. MaxCalls, status : ExecStatusType]
    BY <1>2, <1>4, <1>6
  <2>1. m_lastResult' = answer /\ results' = (results \ {m_lastResult}) \cup {answer}
    BY <1>1, <2>0 DEF Keep
  <2>2. results' = {answer}
    BY <2>1 DEF Held, OneResult
  <2>3. m_errorMsg' = IF last'.ok THEN m_errorMsg ELSE calls + 1
    BY <1>1 DEF SetErrorMsg
  <2>4. last'.answer = answer
    BY <1>1
  <2>5. Caller'
    BY DEF Caller, callerVars
  <2>6. TypeOK'
    BY <1>2, <2>0, <2>1, <2>2, <2>3 DEF TypeOK, callerVars
  <2>7. Held'
    BY <1>2, <2>0, <2>1, <2>2 DEF Held, OneResult
  <2>8. AnswerIsOwn'
    BY <1>2, <2>0, <2>1, <2>3, <2>4 DEF AnswerIsOwn
  <2>9. QED BY <1>w, <2>5, <2>6, <2>7, <2>8
<1>7. QED BY <1>3, <1>5, <1>6

(* A time read back is the caller's own, or that and an hour.              *)
LEMMA ReadTimeStep ==
    ASSUME Inv, ReadTime
    PROVE  Inv'
<1> USE DEF Inv, ReadTime
<1>1. value \in Time /\ value.time \in Nat
  BY ValueKinds DEF Caller
<1>2. readTime' = value.time + (IF IsSummer(value.time) THEN OneHour ELSE 0)
  BY <1>1, ThereAndBack
<1>3. Caller'
  BY <1>1, <1>2 DEF Caller
<1>4. TypeOK'
  BY <1>1, <1>2, ClockType DEF TypeOK
<1>5. Held' /\ AnswerIsOwn'
  BY DEF Held, OneResult, AnswerIsOwn
<1>6. Written'
  BY DEF Written
<1>7. QED BY <1>3, <1>4, <1>5, <1>6

(* The destructor deletes the one result there is.                         *)
LEMMA DestroyStep ==
    ASSUME Inv, Destroy
    PROVE  Inv'
<1> USE DEF Inv, Destroy
<1>1. Caller'
  BY DEF Caller, callerVars
<1>2. results' = {}
  BY DEF Held, OneResult
<1>3. TypeOK'
  BY <1>2, CallerAssumption DEF TypeOK, callerVars
<1>4. Held'
  BY <1>2 DEF Held, OneResult
<1>5. AnswerIsOwn'
  BY DEF AnswerIsOwn
<1>6. Written'
  BY DEF Written, callerVars
<1>7. QED BY <1>1, <1>3, <1>4, <1>5, <1>6

(* Every step keeps the invariant.                                         *)
LEMMA StepKeeps == Inv /\ [Next]_vars => Inv'
<1> SUFFICES ASSUME Inv, [Next]_vars PROVE Inv'
  OBVIOUS
<1>1. CASE ExecTuplesOk
  BY <1>1, RejectStep, ExecuteStep DEF ExecTuplesOk
<1>2. CASE ExecCommandOk
  BY <1>2, RejectStep, ExecuteStep DEF ExecCommandOk
<1>3. QED BY <1>1, <1>2, OtherSteps, ReadTimeStep, DestroyStep DEF Next

(* So it always holds.                                                     *)
LEMMA Invariance == Spec => []Inv
BY Initially, StepKeeps, PTL DEF Spec

-----------------------------------------------------------------------------
(* The object and its caller keep their types; a result that is kept is    *)
(* one that is allocated.                                                  *)
THEOREM TypeCorrect == Spec => []TypeOK
<1>1. Inv => TypeOK
  BY DEF Inv
<1>2. QED BY <1>1, Invariance, PTL

(* No result is lost or deleted twice, over any number of statements.      *)
THEOREM ResultsCorrect == Spec => []OneResult
<1>1. Inv => OneResult
  BY DEF Inv, Held
<1>2. QED BY <1>1, Invariance, PTL

(* A result or an error text is never that of an earlier statement.        *)
THEOREM AnswersCorrect == Spec => []AnswerIsOwn
<1>1. Inv => AnswerIsOwn
  BY DEF Inv
<1>2. QED BY <1>1, Invariance, PTL

(* Every instant of standard time comes back as itself and every other one *)
(* within an hour, in every zone and however long minutes, hours and days  *)
(* are.                                                                    *)
THEOREM TimesCorrect == Spec => []StandardTimeKept
<1>1. Inv => StandardTimeKept
  <2> SUFFICES ASSUME Inv, readTime # Unread
               PROVE  /\ ~IsSummer(value.time) => readTime = value.time
                      /\ readTime - value.time \in 0 .. OneHour
    BY DEF StandardTimeKept
  <2>1. value.time \in Nat
    BY CallerAssumption DEF Inv, Caller, Time
  <2>2. QED BY <2>1, ClockType DEF Inv, Caller
<1>2. QED BY <1>1, Invariance, PTL

(* What is behind the first part of a text is the second.                  *)
LEMMA BehindPrefix ==
    ASSUME NEW C, NEW a \in Seq(C), NEW r \in Seq(C), Len(r) >= 1
    PROVE  SubSeq(a \o r, Len(a) + 1, Len(a) + Len(r)) = r
<1> DEFINE m == Len(a) + 1
           n == Len(a) + Len(r)
<1>1. /\ m \in Len(a) + 1 .. Len(a) + Len(r) /\ n \in Len(a) + 1 .. Len(a) + Len(r)
      /\ m - Len(a) = 1 /\ n - Len(a) = Len(r)
  OBVIOUS
<1> HIDE DEF m, n
<1>2. SubSeq(a \o r, m, n) = SubSeq(r, m - Len(a), n - Len(a))
  BY <1>1, SubSeqOfConcat2
<1>3. SubSeq(r, 1, Len(r)) = r
  BY SubSeqFull
<1> QED
  BY <1>1, <1>2, <1>3 DEF m, n

(* What the callers must see to: behind a literal they never write a quote *)
(* first, which would be the second of an escape...                        *)
EndingsApart == \A e \in Endings : e # << >> => e[1] # "quote"

(* ... and, for the guard to find their own semicolons, no further literal. *)
EndingsPlain == Endings \subseteq Seq(CharClass \ {"quote", "backslash"})

(* Every value of every length, escaped and cut at any limit, is read back *)
(* by the server as that value, and the statement resumes behind it where  *)
(* the caller's own ending begins.                                         *)
THEOREM LiteralCorrect ==
    ASSUME EndingsApart
    PROVE  Spec => []LiteralReadsBack
<1>1. Inv => LiteralReadsBack
  <2> SUFFICES ASSUME Inv, IsText PROVE LiteralReadsBack
    BY DEF LiteralReadsBack
  <2> DEFINE s == value.text
             n == value.maxSize
             e == value.ending
             w == FixMultibyte(s, n)
             literal == w \o <<"quote">> \o e
             t == IF Len(s) > n + 1 THEN SubSeq(s, 1, n + 1) \o Dots ELSE s
  <2>1. value \in Text
    BY ValueKinds DEF Inv, Caller
  <2>2. /\ s \in Seq(CharClass) /\ n \in Nat /\ e \in Seq(CharClass)
        /\ e # << >> => e[1] # "quote"
    BY <2>1, CallerAssumption DEF Text, EndingsApart
  <2>3. statement = Opening \o w \o <<"quote">> \o e
    BY DEF Inv, Written, Statement, IsText
  <2>4. /\ w \in Seq(CharClass) /\ <<"quote">> \in Seq(CharClass)
        /\ Opening \in Seq(CharClass) /\ Len(Opening) = 2
    BY <2>2, FixParts DEF Opening, CharClass
  <2>5. SubSeq(statement, Len(Opening) + 1, Len(statement)) = literal
    <3> HIDE DEF w, e
    <3> DEFINE q == <<"quote">>
    <3>0. e \in Seq(CharClass) /\ q \in Seq(CharClass)
      BY <2>2, <2>4 DEF e
    <3> HIDE DEF q
    <3>1. w \o q \in Seq(CharClass) /\ w \o q \o e \in Seq(CharClass)
      BY <2>4, <3>0, ConcatProperties
    <3>2. Opening \o w \o q = Opening \o (w \o q)
      BY <2>4, <3>0, ConcatAssociative
    <3>3. (Opening \o (w \o q)) \o e = Opening \o ((w \o q) \o e)
      BY <2>4, <3>0, <3>1, ConcatAssociative
    <3>4. statement = Opening \o (w \o q \o e)
      BY <2>3, <3>2, <3>3 DEF q
    <3> DEFINE r == w \o q \o e
    <3>5. r \in Seq(CharClass) /\ Len(r) >= 1
      <4>1. Len(w \o q) = Len(w) + Len(q) /\ Len(q) = 1
        BY <2>4, <3>0, ConcatProperties DEF q
      <4>2. Len(w \o q \o e) = Len(w \o q) + Len(e)
        BY <3>0, <3>1, ConcatProperties
      <4> QED
        BY <2>4, <3>0, <3>1, <4>1, <4>2
    <3> HIDE DEF r
    <3>6. SubSeq(Opening \o r, Len(Opening) + 1, Len(Opening \o r)) = r
      <4>1. Opening \o r \in Seq(CharClass) /\ Len(Opening \o r) = Len(Opening) + Len(r)
        BY <2>4, <3>5, ConcatProperties
      <4>2. SubSeq(Opening \o r, Len(Opening) + 1, Len(Opening) + Len(r)) = r
        BY <2>4, <3>5, BehindPrefix
      <4> QED
        BY <4>1, <4>2
    <3> QED
      BY <3>4, <3>6 DEF r, q
  <2>6. ServerReads(literal) = IF e = << >> THEN AtQuote(t) ELSE Behind(t, e)
    <3> HIDE DEF s, n, e
    <3> QED
      BY <2>2, ReadLiteral
  <2> DEFINE read == ServerReads(SubSeq(statement, Len(Opening) + 1, Len(statement)))
  <2>7. read = IF e = << >> THEN AtQuote(t) ELSE Behind(t, e)
    BY <2>5, <2>6
  <2> HIDE DEF read, literal, w
  <2>8. read.text = t
    BY <2>7 DEF AtQuote, Behind
  <2>9. IF e = << >> THEN read.pending = "quote" /\ ~read.closed
                    ELSE read.closed /\ read.rest = e
    BY <2>7 DEF AtQuote, Behind
  <2>10. t = IF Len(s) > n + 1 THEN SubSeq(s, 1, n + 1) \o Dots ELSE s
    OBVIOUS
  <2> QED
    BY <2>8, <2>9, <2>10 DEF LiteralReadsBack, read
<1>2. QED BY <1>1, Invariance, PTL

(* TestInjection refuses a statement for what its author wrote behind the  *)
(* literal, and never for the value in it, whatever the value.             *)
THEOREM GuardCorrect ==
    ASSUME EndingsPlain
    PROVE  Spec => []GuardSeesOnlyTheEnding
<1>1. Inv => GuardSeesOnlyTheEnding
  <2>0. SecondStatement(value.ending, LAMBDA c : c \notin WhiteSpace)
          => SecondStatement(value.ending, LAMBDA c : c # "space")
    BY DEF SecondStatement, WhiteSpace
  <2> SUFFICES ASSUME Inv, last.exec = "ExecTuplesOk"
               PROVE  TestInjection(statement) <=>
                        IsText /\ SecondStatement(value.ending, LAMBDA c : c # "space")
    BY <2>0 DEF GuardSeesOnlyTheEnding, Inv, Written
  <2>1. CASE IsText
    <3>1. value \in Text
      BY <2>1, ValueKinds DEF Inv, Caller
    <3>2. /\ value.text \in Seq(CharClass) /\ value.maxSize \in Nat
          /\ value.ending \in Seq(CharClass)
          /\ value.ending \in Seq(CharClass \ {"quote", "backslash"})
      BY <3>1, CallerAssumption DEF Text, EndingsPlain
    <3>3. statement = Opening \o FixMultibyte(value.text, value.maxSize) \o <<"quote">>
                        \o value.ending
      BY <2>1 DEF Inv, Written, Statement, IsText
    <3>4. TestInjection(statement) <=> TestInjection(value.ending)
      BY <3>2, <3>3, GuardIgnoresValue
    <3>5. TestInjection(value.ending)
            <=> SecondStatement(value.ending, LAMBDA c : c # "space")
      BY <3>2, GuardOnPlain
    <3> QED
      BY <2>1, <3>4, <3>5
  <2>2. CASE ~IsText
    <3>1. statement = Opening \o <<"letter", "space", "letter", "quote">>
      BY <2>2 DEF Inv, Written, Statement, IsText
    <3>2. ~TestInjection(statement)
      <4> DEFINE x == <<"letter", "space", "letter">>
      <4>1. /\ Loop(ScanState, CharClass, Scanner)
            /\ "outside" \in ScanState /\ "quoted" \in ScanState
            /\ "letter" \in CharClass /\ "space" \in CharClass /\ "quote" \in CharClass
        BY ScannerLoops DEF ScanState, CharClass
      <4>2. /\ Opening = <<"letter", "quote">>
            /\ x \in Seq(CharClass) /\ Opening \in Seq(CharClass)
            /\ <<"letter", "space", "letter", "quote">> = Append(x, "quote")
            /\ Append(x, "quote") \in Seq(CharClass)
        BY <4>1 DEF Opening
      <4>3. /\ Scanner[<<"outside", "letter">>] = "outside"
            /\ Scanner[<<"outside", "quote">>] = "quoted"
            /\ Scanner[<<"quoted", "letter">>] = "quoted"
            /\ Scanner[<<"quoted", "space">>] = "quoted"
            /\ Scanner[<<"quoted", "quote">>] = "outside"
        BY <4>1, ScannerLoops DEF Scan
      <4>4. Run(Scanner, "outside", Opening)
              = Scanner[<<Scanner[<<"outside", "letter">>], "quote">>]
        BY <4>1, RunTwo DEF Opening
      <4>5. Run(Scanner, "quoted", x)
              = Scanner[<<Scanner[<<Scanner[<<"quoted", "letter">>], "space">>], "letter">>]
        BY <4>1, RunThree
      <4> HIDE DEF x
      <4>6. Run(Scanner, "quoted", Append(x, "quote"))
              = Scanner[<<Run(Scanner, "quoted", x), "quote">>]
        BY <4>1, <4>2, RunAppend
      <4> DEFINE y == Append(x, "quote")
      <4>7. y \in Seq(CharClass) /\ Run(Scanner, "quoted", y) = "outside"
        BY <4>2, <4>3, <4>5, <4>6
      <4> HIDE DEF y
      <4>8. Run(Scanner, "outside", Opening \o y)
              = Run(Scanner, Run(Scanner, "outside", Opening), y)
        <5>1. /\ Loop(ScanState, CharClass, Scanner) /\ "outside" \in ScanState
              /\ Opening \in Seq(CharClass) /\ y \in Seq(CharClass)
          BY <4>1, <4>2, <4>7
        <5> QED
          BY <5>1, RunConcat
      <4>9. Run(Scanner, "outside", Opening \o y) = "outside"
        BY <4>3, <4>4, <4>7, <4>8
      <4>10. statement = Opening \o y /\ Opening \o y \in Seq(CharClass)
        BY <3>1, <4>2, <4>7, ConcatProperties DEF y
      <4>11. TestInjection(statement) <=> Run(Scanner, "outside", statement) = "suspect"
        BY <4>10, TestIsRun
      <4> QED
        BY <4>9, <4>10, <4>11
    <3> QED
      BY <2>2, <3>2
  <2> QED
    BY <2>1, <2>2
<1>2. QED BY <1>1, Invariance, PTL
=============================================================================
