-------------------------- MODULE SmoothingProofs --------------------------
(***************************************************************************)
(* Proofs about Smoothing, for face threads of any length and with any     *)
(* gaps, and for any squares inside a frame of any size.                   *)
(***************************************************************************)
EXTENDS Smoothing, SequenceTheorems, WellFoundedInduction, TLAPS

-----------------------------------------------------------------------------
(* Least and greatest numbers *)

LEMMA LeastExists ==
  ASSUME NEW S, S \subseteq Nat, S # {}
  PROVE  \E x \in S : \A y \in S : x <= y
  <1> DEFINE R == {ss \in Nat \X Nat : ss[1] < ss[2]}
  <1>1. IsWellFoundedOn(R, Nat)
    BY NatLessThanWellFounded, Zenon DEF OpToRel
  <1> HIDE DEF R
  <1>2. PICK x \in S : \A y \in S : ~ (<<y, x>> \in R)
    BY <1>1, WFMin
  <1>3. ASSUME NEW y \in S PROVE x <= y
    <2>1. <<y, x>> \notin R
      BY <1>2
    <2>2. y \in Nat /\ x \in Nat
      OBVIOUS
    <2> QED BY <2>1, <2>2 DEF R
  <1> QED BY <1>3

LEMMA GreatestExists ==
  ASSUME NEW S, S \subseteq Nat, S # {}, NEW b \in Nat, \A x \in S : x <= b
  PROVE  \E x \in S : \A y \in S : y <= x
  <1> DEFINE T == {b - x : x \in S}
  <1>1. T \subseteq Nat
    OBVIOUS
  <1>2. T # {}
    BY Zenon
  <1>3. PICK t \in T : \A u \in T : t <= u
    BY <1>1, <1>2, LeastExists
  <1>4. PICK x \in S : t = b - x
    BY <1>3
  <1>5. ASSUME NEW y \in S PROVE y <= x
    <2>1. t <= b - y
      <3>1. b - y \in T
        BY Zenon
      <3> QED BY <1>3, <3>1
    <2>2. x \in Nat /\ y \in Nat
      OBVIOUS
    <2> QED BY <1>4, <2>1, <2>2
  <1> QED BY <1>5

\* Of the numbers under a bound, Min and Max are the least and the greatest.
LEMMA Extremes ==
  ASSUME NEW S, S \subseteq Nat, S # {}, NEW b \in Nat, \A x \in S : x <= b
  PROVE  /\ Min(S) \in Nat /\ Max(S) \in Nat
         /\ \A x \in S : x \in Min(S) .. Max(S)
  <1>1. Min(S) \in S /\ \A y \in S : Min(S) <= y
    BY LeastExists DEF Min
  <1>2. \E x \in S : \A y \in S : x >= y
    BY GreatestExists
  <1>3. Max(S) \in S /\ \A y \in S : Max(S) >= y
    BY <1>2 DEF Max
  <1>4. Min(S) \in Nat /\ Max(S) \in Nat
    BY <1>1, <1>3
  <1> QED BY <1>1, <1>3, <1>4

-----------------------------------------------------------------------------
(* Rounding *)

LEMMA Division ==
  ASSUME NEW p \in Int, NEW q \in Nat, q > 0
  PROVE  /\ p \div q \in Int /\ p % q \in Int
         /\ p = q * (p \div q) + (p % q)
         /\ 0 <= p % q /\ p % q < q
  OBVIOUS

\* my_round moves the numerator by at most q / 2, up only to the next multiple.
LEMMA Rounding ==
  ASSUME NEW p \in Int, NEW q \in Nat, q > 0
  PROVE  LET z == my_round(p, q)
             r == p % q
         IN /\ z \in Int
            /\ \/ 2 * r < q /\ q * z = p - r
               \/ 2 * r >= q /\ q * z = p - r + q
  <1> DEFINE d == p \div q
             r == p % q
             e == (-p) \div q
             s == (-p) % q
  <1>1. /\ d \in Int /\ r \in Int /\ p = q * d + r /\ 0 <= r /\ r < q
    BY Division
  <1>2. /\ e \in Int /\ s \in Int /\ -p = q * e + s /\ 0 <= s /\ s < q
    BY Division
  <1>3. CASE 2 * r < q
    BY <1>1, <1>3 DEF my_round
  <1>4. CASE 2 * r >= q
    <2>1. my_round(p, q) = -e
      BY <1>1, <1>4 DEF my_round
    <2> HIDE DEF d, r, e, s
    <2>2. q * (d + e) = -(r + s)
      BY <1>1, <1>2
    <2>3. 0 < r
      BY <1>1, <1>4
    <2>4. d + e = -1
      <3> DEFINE f == d + e
      <3>1. f \in Int /\ q * f = -(r + s)
        BY <1>1, <1>2, <2>2
      <3> HIDE DEF f
      <3>2. f < 0
        BY <1>1, <1>2, <2>3, <3>1
      <3>3. f > -2
        <4> SUFFICES ASSUME f <= -2 PROVE FALSE
          BY <3>1
        <4>1. q * f <= q * (-2)
          BY <3>1
        <4> QED BY <1>1, <1>2, <3>1, <4>1
      <3> QED BY <3>1, <3>2, <3>3 DEF f
    <2>5. r + s = q
      BY <1>1, <1>2, <2>2, <2>4
    <2>6. q * (-e) = p + s
      BY <1>2
    <2> QED BY <1>1, <1>2, <1>4, <2>1, <2>5, <2>6 DEF r
  <1> QED BY <1>1, <1>3, <1>4

\* Cancels a factor.
LEMMA Cancel ==
  ASSUME NEW q \in Nat, q > 0, NEW a \in Int, NEW b \in Int, q * a < q * b + q
  PROVE  a <= b
  <1> SUFFICES ASSUME b + 1 <= a PROVE FALSE
    OBVIOUS
  <1>1. q * (b + 1) <= q * a
    OBVIOUS
  <1> QED BY <1>1

LEMMA RoundedBetween ==
  ASSUME NEW p \in Int, NEW q \in Nat, q > 0, NEW lo \in Int, NEW hi \in Int,
         q * lo <= p, p <= q * hi
  PROVE  my_round(p, q) \in lo .. hi
  <1> DEFINE z == my_round(p, q)
             r == p % q
  <1>1. z \in Int /\ (q * z = p - r \/ (2 * r >= q /\ q * z = p - r + q))
    BY Rounding
  <1>2. r \in Int /\ 0 <= r /\ r < q
    BY Division
  <1> HIDE DEF z, r
  <1>3. q * lo \in Int /\ q * hi \in Int /\ q * z \in Int
    BY <1>1
  <1>4. q * lo < q * z + q /\ q * z < q * hi + q
    BY <1>1, <1>2, <1>3
  <1>5. lo <= z /\ z <= hi
    BY <1>1, <1>4, Cancel
  <1> QED BY <1>1, <1>5 DEF z

\* Rounding adds at most a half, and a half only to a tie.
LEMMA RoundedUp ==
  ASSUME NEW p \in Int, NEW q \in Nat, q > 0
  PROVE  /\ my_round(p, q) \in Int
         /\ 2 * (q * my_round(p, q)) <= 2 * p + q
         /\ 2 * (q * my_round(p, q)) = 2 * p + q => 2 * (p % q) = q
  <1> DEFINE z == my_round(p, q)
             r == p % q
  <1>1. z \in Int /\ ((2 * r < q /\ q * z = p - r) \/ (2 * r >= q /\ q * z = p - r + q))
    BY Rounding
  <1>2. r \in Int /\ 0 <= r /\ r < q
    BY Division
  <1> HIDE DEF z, r
  <1> QED BY <1>1, <1>2 DEF z, r

-----------------------------------------------------------------------------
(* Averages *)

LEMMA TotalAtMost ==
  ASSUME NEW v \in [1 .. 7 -> Int], NEW w \in [1 .. 7 -> Int],
         \A d \in 1 .. 7 : v[d] <= w[d]
  PROVE  Total(v) \in Int /\ Total(w) \in Int /\ Total(v) <= Total(w)
  BY DEF Total

LEMMA TotalSum ==
  ASSUME NEW v \in [1 .. 7 -> Nat], NEW w \in [1 .. 7 -> Nat]
  PROVE  /\ [d \in 1 .. 7 |-> v[d] + w[d]] \in [1 .. 7 -> Nat]
         /\ Total([d \in 1 .. 7 |-> v[d] + w[d]]) = Total(v) + Total(w)
  BY DEF Total

LEMMA TotalScaled ==
  ASSUME NEW w \in [1 .. 7 -> Int], NEW c \in Int
  PROVE  Total([d \in 1 .. 7 |-> c * w[d]]) = Total(w) * c
  BY DEF Total

LEMMA TotalIsNat ==
  ASSUME NEW w \in [1 .. 7 -> Nat]
  PROVE  Total(w) \in Nat
  BY DEF Total

LEMMA TotalPositive ==
  ASSUME NEW w \in [1 .. 7 -> Nat], NEW d \in 1 .. 7, w[d] > 0
  PROVE  Total(w) \in Nat /\ Total(w) > 0
  <1>1. \A e \in 1 .. 7 : w[e] \in Nat
    OBVIOUS
  <1>2. \/ d = 1 \/ d = 2 \/ d = 3 \/ d = 4 \/ d = 5 \/ d = 6 \/ d = 7
    OBVIOUS
  <1> QED BY <1>1, <1>2 DEF Total

\* What Convolution sums: the entries of X under the taps of a window of size
\* leny at k, and their weights; all taps of the filter weigh 1.
Inside(n, leny, k, d) == d <= leny /\ k + leny \div 2 - d + 1 \in 1 .. n
Entries(X, n, leny, k) ==
  [d \in 1 .. 7 |-> IF Inside(n, leny, k, d) THEN X[k + leny \div 2 - d + 1] ELSE 0]
Taps(n, leny, k) == [d \in 1 .. 7 |-> IF Inside(n, leny, k, d) THEN 1 ELSE 0]

LEMMA ConvolutionIs ==
  ASSUME NEW n \in Nat, NEW X \in [1 .. n -> Nat], NEW leny \in {3, 7}, NEW k \in 1 .. n
  PROVE  /\ Entries(X, n, leny, k) \in [1 .. 7 -> Nat]
         /\ Taps(n, leny, k) \in [1 .. 7 -> Nat]
         /\ Total(Taps(n, leny, k)) \in Nat /\ Total(Taps(n, leny, k)) > 0
         /\ Convolution(X, SIZE_FILT, leny, k) =
              my_round(Total(Entries(X, n, leny, k)), Total(Taps(n, leny, k)))
  <1>1. \A d \in 1 .. 7 : Inside(n, leny, k, d) => k + leny \div 2 - d + 1 \in 1 .. n
    BY DEF Inside
  <1>2. Entries(X, n, leny, k) \in [1 .. 7 -> Nat]
    BY <1>1 DEF Entries
  <1>3. Taps(n, leny, k) \in [1 .. 7 -> Nat]
    BY DEF Taps
  <1>4. leny \div 2 \in {1, 3} /\ leny \div 2 + 1 \in 1 .. 7 /\ leny \div 2 + 1 <= leny
    OBVIOUS
  <1>5. Inside(n, leny, k, leny \div 2 + 1)
    BY <1>4 DEF Inside
  <1>6. Total(Taps(n, leny, k)) \in Nat /\ Total(Taps(n, leny, k)) > 0
    <2>1. Taps(n, leny, k)[leny \div 2 + 1] > 0
      BY <1>4, <1>5 DEF Taps
    <2> QED BY <1>3, <1>4, <2>1, TotalPositive
  <1>7. \A d \in 1 .. 7 : SIZE_FILT[d] = 1
    BY DEF SIZE_FILT
  <1>8. \A d \in 1 .. 7 : Inside(n, leny, k, d) =>
          X[k + leny \div 2 - d + 1] * SIZE_FILT[d] = X[k + leny \div 2 - d + 1]
    <2> SUFFICES ASSUME NEW d \in 1 .. 7, Inside(n, leny, k, d)
                 PROVE  X[k + leny \div 2 - d + 1] * SIZE_FILT[d]
                          = X[k + leny \div 2 - d + 1]
      OBVIOUS
    <2> DEFINE v == X[k + leny \div 2 - d + 1]
    <2>1. v \in Nat /\ SIZE_FILT[d] = 1
      BY <1>1, <1>7
    <2> HIDE DEF v
    <2>2. v * SIZE_FILT[d] = v
      BY <2>1
    <2> QED BY <2>2 DEF v
  <1>9. DOMAIN X = 1 .. n
    OBVIOUS
  <1>10. [d \in 1 .. 7 |-> IF d <= leny /\ k + leny \div 2 - d + 1 \in DOMAIN X
                           THEN X[k + leny \div 2 - d + 1] * SIZE_FILT[d] ELSE 0]
           = Entries(X, n, leny, k)
    BY <1>8, <1>9 DEF Entries, Inside
  <1>11. [d \in 1 .. 7 |-> IF d <= leny /\ k + leny \div 2 - d + 1 \in DOMAIN X
                           THEN SIZE_FILT[d] ELSE 0]
           = Taps(n, leny, k)
    BY <1>7, <1>9 DEF Taps, Inside
  <1>12. Convolution(X, SIZE_FILT, leny, k) =
           my_round(Total(Entries(X, n, leny, k)), Total(Taps(n, leny, k)))
    BY <1>10, <1>11 DEF Convolution
  <1> QED BY <1>2, <1>3, <1>6, <1>12

\* An average lies in every range that holds all entries, because it is divided
\* by the weights of the entries it really used.
LEMMA AverageInRange ==
  ASSUME NEW n \in Nat, NEW X \in [1 .. n -> Nat], NEW leny \in {3, 7}, NEW k \in 1 .. n,
         NEW lo \in Nat, NEW hi \in Nat, \A j \in 1 .. n : X[j] \in lo .. hi
  PROVE  Convolution(X, SIZE_FILT, leny, k) \in lo .. hi
  <1> DEFINE E == Entries(X, n, leny, k)
             T == Taps(n, leny, k)
             L == [d \in 1 .. 7 |-> lo * T[d]]
             H == [d \in 1 .. 7 |-> hi * T[d]]
  <1>1. /\ E \in [1 .. 7 -> Nat] /\ T \in [1 .. 7 -> Nat]
        /\ Total(T) \in Nat /\ Total(T) > 0
        /\ Convolution(X, SIZE_FILT, leny, k) = my_round(Total(E), Total(T))
    BY ConvolutionIs
  <1>2. ASSUME NEW d \in 1 .. 7 PROVE lo * T[d] <= E[d] /\ E[d] <= hi * T[d]
    <2>1. CASE Inside(n, leny, k, d)
      <3>1. X[k + leny \div 2 - d + 1] \in lo .. hi
        BY <2>1 DEF Inside
      <3>2. T[d] = 1 /\ E[d] = X[k + leny \div 2 - d + 1]
        BY <2>1 DEF Taps, Entries
      <3> QED BY <3>1, <3>2
    <2>2. CASE ~ Inside(n, leny, k, d)
      <3>1. T[d] = 0 /\ E[d] = 0
        BY <2>2 DEF Taps, Entries
      <3> QED BY <3>1
    <2> QED BY <2>1, <2>2
  <1> HIDE DEF E, T
  <1>3. L \in [1 .. 7 -> Int] /\ H \in [1 .. 7 -> Int]
    <2>1. \A d \in 1 .. 7 : T[d] \in Nat
      BY <1>1
    <2>2. \A a, b \in Nat : a * b \in Int
      OBVIOUS
    <2>3. \A d \in 1 .. 7 : lo * T[d] \in Int /\ hi * T[d] \in Int
      BY <2>1, <2>2, Zenon
    <2> QED BY <2>3
  <1>4. E \in [1 .. 7 -> Int] /\ T \in [1 .. 7 -> Int]
    BY <1>1
  <1>5. Total(L) <= Total(E) /\ Total(E) <= Total(H) /\ Total(E) \in Int
    <2>1. \A d \in 1 .. 7 : L[d] <= E[d] /\ E[d] <= H[d]
      BY <1>2
    <2> HIDE DEF L, H
    <2> QED BY <1>3, <1>4, <2>1, TotalAtMost
  <1>6. Total(L) = Total(T) * lo /\ Total(H) = Total(T) * hi
    <2>1. lo \in Int /\ hi \in Int
      OBVIOUS
    <2>2. Total(L) = Total(T) * lo
      BY <1>4, <2>1, TotalScaled, Zenon
    <2>3. Total(H) = Total(T) * hi
      BY <1>4, <2>1, TotalScaled, Zenon
    <2> QED BY <2>2, <2>3
  <1> HIDE DEF L, H
  <1>7. Total(T) * lo <= Total(E) /\ Total(E) <= Total(T) * hi
    BY <1>5, <1>6
  <1> DEFINE p == Total(E)
             q == Total(T)
  <1>8. p \in Int /\ q \in Nat /\ q > 0 /\ q * lo <= p /\ p <= q * hi
    BY <1>1, <1>5, <1>7
  <1>9. lo \in Int /\ hi \in Int
    OBVIOUS
  <1> HIDE DEF p, q
  <1>10. my_round(p, q) \in lo .. hi
    BY <1>8, <1>9, RoundedBetween
  <1> QED BY <1>1, <1>10 DEF p, q

LEMMA AverageIsNat ==
  ASSUME NEW n \in Nat, NEW X \in [1 .. n -> Nat], NEW leny \in {3, 7}, NEW k \in 1 .. n
  PROVE  Convolution(X, SIZE_FILT, leny, k) \in Nat
  <1> DEFINE p == Total(Entries(X, n, leny, k))
             q == Total(Taps(n, leny, k))
  <1>1. /\ Entries(X, n, leny, k) \in [1 .. 7 -> Nat]
        /\ q \in Nat /\ q > 0
        /\ Convolution(X, SIZE_FILT, leny, k) = my_round(p, q)
    BY ConvolutionIs
  <1>2. p \in Nat
    BY <1>1, TotalIsNat
  <1> HIDE DEF p, q
  <1>3. q * 0 <= p /\ p <= q * p /\ 0 \in Int /\ p \in Int
    BY <1>1, <1>2
  <1>4. my_round(p, q) \in 0 .. p
    BY <1>1, <1>3, RoundedBetween
  <1> QED BY <1>1, <1>2, <1>4

-----------------------------------------------------------------------------
(* The missing faces *)

Face == [frame_id : Nat, x : Nat, y : Nat, width : Nat, height : Nat]

LEMMA StepBetween ==
  ASSUME NEW a \in Nat, NEW b \in Nat, NEW gap \in Nat, gap > 0, NEW i \in 0 .. gap
  PROVE  a + my_round(i * (b - a), gap) \in (a .. b) \cup (b .. a)
  <1> DEFINE e == b - a
             p == i * e
  <1>1. e \in Int /\ i \in Nat /\ p \in Int /\ 0 \in Int
    OBVIOUS
  <1>2. CASE a <= b
    <2>1. e >= 0
      BY <1>2
    <2> HIDE DEF e
    <2>2. 0 <= i * e /\ i * e <= gap * e
      BY <1>1, <2>1
    <2>3. gap * 0 <= p /\ p <= gap * e
      BY <2>2
    <2> HIDE DEF p
    <2>4. my_round(p, gap) \in 0 .. e
      BY <1>1, <2>3, RoundedBetween
    <2>5. a + my_round(p, gap) \in a .. b
      BY <1>1, <2>4 DEF e
    <2> QED BY <2>5 DEF p, e
  <1>3. CASE b < a
    <2>1. e <= 0
      BY <1>3
    <2> HIDE DEF e
    <2>2. i * e <= 0 /\ gap * e <= i * e
      <3>1. (gap - i) * e <= 0
        BY <1>1, <2>1
      <3>2. (gap - i) * e = gap * e - i * e
        BY <1>1
      <3> QED BY <1>1, <2>1, <3>1, <3>2
    <2>3. gap * e <= p /\ p <= gap * 0
      BY <2>2
    <2> HIDE DEF p
    <2>4. my_round(p, gap) \in e .. 0
      BY <1>1, <2>3, RoundedBetween
    <2>5. a + my_round(p, gap) \in b .. a
      BY <1>1, <2>4 DEF e
    <2> QED BY <2>5 DEF p, e
  <1> QED BY <1>2, <1>3

\* An added face is a face, and each of its members lies between those of its
\* neighbours.
LEMMA BetweenLies ==
  ASSUME NEW p \in Face, NEW q \in Face, NEW i \in Nat,
         p.frame_id < q.frame_id, p.frame_id + i <= q.frame_id
  PROVE  /\ Between(p, q, i) \in Face
         /\ Between(p, q, i).frame_id = p.frame_id + i
         /\ \A m \in Members : Between(p, q, i)[m] \in (p[m] .. q[m]) \cup (q[m] .. p[m])
  <1> DEFINE gap == q.frame_id - p.frame_id
             b == Between(p, q, i)
  <1>1. gap \in Nat /\ gap > 0 /\ i \in 0 .. gap
    BY DEF Face
  <1>2. /\ p.x \in Nat /\ p.y \in Nat /\ p.width \in Nat /\ p.height \in Nat
        /\ q.x \in Nat /\ q.y \in Nat /\ q.width \in Nat /\ q.height \in Nat
        /\ p.frame_id \in Nat
    BY DEF Face
  <1>3. b = [frame_id |-> p.frame_id + i,
             x        |-> p.x + my_round(i * (q.x - p.x), gap),
             y        |-> p.y + my_round(i * (q.y - p.y), gap),
             width    |-> p.width + my_round(i * (q.width - p.width), gap),
             height   |-> p.height + my_round(i * (q.height - p.height), gap)]
    BY Zenon DEF Between
  <1> HIDE DEF gap, b
  <1>4. /\ b.frame_id = p.frame_id + i
        /\ b.x      \in (p.x .. q.x) \cup (q.x .. p.x)
        /\ b.y      \in (p.y .. q.y) \cup (q.y .. p.y)
        /\ b.width  \in (p.width .. q.width) \cup (q.width .. p.width)
        /\ b.height \in (p.height .. q.height) \cup (q.height .. p.height)
    <2>1. b.x \in (p.x .. q.x) \cup (q.x .. p.x)
      BY <1>1, <1>2, <1>3, StepBetween
    <2>2. b.y \in (p.y .. q.y) \cup (q.y .. p.y)
      BY <1>1, <1>2, <1>3, StepBetween
    <2>3. b.width \in (p.width .. q.width) \cup (q.width .. p.width)
      BY <1>1, <1>2, <1>3, StepBetween
    <2>4. b.height \in (p.height .. q.height) \cup (q.height .. p.height)
      BY <1>1, <1>2, <1>3, StepBetween
    <2> QED BY <1>3, <2>1, <2>2, <2>3, <2>4
  <1>5. b \in Face
    BY <1>2, <1>3, <1>4 DEF Face
  <1>6. \A m \in Members : b[m] \in (p[m] .. q[m]) \cup (q[m] .. p[m])
    BY <1>4 DEF Members
  <1> QED BY <1>4, <1>5, <1>6 DEF b

First  == _pFaces[1].frame_id
Frames == _pFaces[Len(_pFaces)].frame_id - First + 1

\* The faces of a thread, oldest first, inside the frame.
ThreadInv ==
  /\ _pFaces \in Seq(Face)
  /\ Len(_pFaces) > 0
  /\ \A i, j \in DOMAIN _pFaces : i < j => _pFaces[i].frame_id < _pFaces[j].frame_id
  /\ \A i \in DOMAIN _pFaces :
       /\ _pFaces[i].x + _pFaces[i].width <= FrameSize
       /\ _pFaces[i].y + _pFaces[i].height <= FrameSize

\* The copy of the saver: one face for every frame.
CopyInv ==
  /\ stage \in {"fill", "insert", "x", "y", "width", "height", "done"}
  /\ stage = "fill" => my_faces = _pFaces /\ prev_itr = 1 /\ itr = 2 /\ nth = 1
  /\ Filled =>
       /\ my_faces \in [1 .. Frames -> Face]
       /\ \A k \in 1 .. Frames : my_faces[k].frame_id = First + k - 1

\* Face k of the copy is a detected one, or was added between two of them.
Detected(k) == \E i \in DOMAIN _pFaces : my_faces[k] = _pFaces[i]
Added(k) ==
  \E i \in 1 .. Len(_pFaces) - 1 :
    /\ _pFaces[i].frame_id < First + k - 1
    /\ First + k - 1 < _pFaces[i + 1].frame_id
    /\ my_faces[k] = Between(_pFaces[i], _pFaces[i + 1], First + k - 1 - _pFaces[i].frame_id)

FilledInv == stage = "x" => \A k \in 1 .. Frames : Detected(k) \/ Added(k)

\* The face of the thread to which prev_itr points: those after it are all still
\* to come, one place of the copy for each.
At == Len(_pFaces) - 1 - Len(my_faces) + itr

\* The loop of addMissingFrames: before itr the copy has a face for every frame,
\* from itr on it is what is left of the thread.
LoopInv ==
  stage = "insert" =>
    /\ my_faces \in Seq(Face)
    /\ prev_itr \in 1 .. Len(my_faces)
    /\ itr \in prev_itr + 1 .. Len(my_faces) + 1
    /\ nth = itr - prev_itr
    /\ At \in 1 .. Len(_pFaces)
    /\ my_faces[prev_itr] = _pFaces[At]
    /\ itr <= Len(my_faces) => nth <= diff
    /\ itr > Len(my_faces) => nth = 1
    /\ \A k \in itr .. Len(my_faces) : my_faces[k] = _pFaces[At + 1 + k - itr]
    /\ \A k \in 1 .. itr - 1 : /\ my_faces[k].frame_id = First + k - 1
                               /\ Detected(k) \/ Added(k)

LEMMA ThreadFacts ==
  ASSUME ThreadInv
  PROVE  /\ Len(_pFaces) \in Nat /\ Len(_pFaces) > 0
         /\ DOMAIN _pFaces = 1 .. Len(_pFaces)
         /\ \A i \in 1 .. Len(_pFaces) : _pFaces[i] \in Face /\ _pFaces[i].frame_id \in Nat
         /\ First \in Nat /\ Frames \in Nat /\ Frames > 0
         /\ \A i \in 1 .. Len(_pFaces) : _pFaces[i].frame_id \in First .. First + Frames - 1
         /\ _pFaces[Len(_pFaces)].frame_id = First + Frames - 1
  <1>1. /\ Len(_pFaces) \in Nat /\ Len(_pFaces) > 0
        /\ DOMAIN _pFaces = 1 .. Len(_pFaces)
        /\ \A i \in 1 .. Len(_pFaces) : _pFaces[i] \in Face
    BY LenProperties, ElementOfSeq DEF ThreadInv
  <1>2. \A i \in 1 .. Len(_pFaces) : _pFaces[i].frame_id \in Nat
    BY <1>1 DEF Face
  <1>3. 1 \in 1 .. Len(_pFaces) /\ Len(_pFaces) \in 1 .. Len(_pFaces)
    BY <1>1
  <1>4. \A i \in 1 .. Len(_pFaces) :
          /\ _pFaces[1].frame_id <= _pFaces[i].frame_id
          /\ _pFaces[i].frame_id <= _pFaces[Len(_pFaces)].frame_id
    <2> SUFFICES ASSUME NEW i \in 1 .. Len(_pFaces)
                 PROVE  /\ _pFaces[1].frame_id <= _pFaces[i].frame_id
                        /\ _pFaces[i].frame_id <= _pFaces[Len(_pFaces)].frame_id
      OBVIOUS
    <2>1. \A k, j \in 1 .. Len(_pFaces) : k <= j =>
            _pFaces[k].frame_id <= _pFaces[j].frame_id
      <3> SUFFICES ASSUME NEW k \in 1 .. Len(_pFaces), NEW j \in 1 .. Len(_pFaces), k <= j
                   PROVE  _pFaces[k].frame_id <= _pFaces[j].frame_id
        OBVIOUS
      <3>1. k = j \/ k < j
        OBVIOUS
      <3>2. k < j => _pFaces[k].frame_id < _pFaces[j].frame_id
        BY <1>1 DEF ThreadInv
      <3> QED BY <1>2, <3>1, <3>2
    <2>2. 1 <= i /\ i <= Len(_pFaces)
      BY <1>1
    <2> QED BY <1>3, <2>1, <2>2
  <1>5. First \in Nat
    BY <1>2, <1>3 DEF First
  <1>6. Frames \in Nat /\ Frames > 0
        /\ _pFaces[Len(_pFaces)].frame_id = First + Frames - 1
    BY <1>2, <1>3, <1>4 DEF First, Frames
  <1>7. \A i \in 1 .. Len(_pFaces) : _pFaces[i].frame_id \in First .. First + Frames - 1
    BY <1>2, <1>4, <1>5, <1>6 DEF First
  <1> QED BY <1>1, <1>2, <1>5, <1>6, <1>7

\* Where a frame lies between two faces, and that it lies in one gap only.
LEMMA InGap ==
  ASSUME NEW f \in Nat, NEW k \in Nat, NEW a \in Nat, NEW b \in Nat,
         a <= f + k - 1, f + k - 1 <= b
  PROVE  /\ f + k - 1 - a \in Nat
         /\ a + (f + k - 1 - a) = f + k - 1
         /\ a + (f + k - 1 - a) <= b
         /\ b - a \in Nat /\ f + k - 1 - a <= b - a
  OBVIOUS

LEMMA SameGap ==
  ASSUME ThreadInv, NEW i \in 1 .. Len(_pFaces) - 1, NEW j \in 1 .. Len(_pFaces) - 1,
         _pFaces[i].frame_id < _pFaces[j + 1].frame_id,
         _pFaces[j].frame_id < _pFaces[i + 1].frame_id
  PROVE  i = j
  <1> DEFINE n == Len(_pFaces)
             id(h) == _pFaces[h].frame_id
  <1>1. n \in Nat /\ \A h \in 1 .. n : id(h) \in Nat
    BY ThreadFacts
  <1>2. \A g, h \in 1 .. n : g < h => id(g) < id(h)
    BY ThreadFacts DEF ThreadInv
  <1>3. i \in 1 .. n /\ i + 1 \in 1 .. n /\ j \in 1 .. n /\ j + 1 \in 1 .. n
    BY <1>1
  <1>4. id(i) < id(j + 1) /\ id(j) < id(i + 1)
    OBVIOUS
  <1> HIDE DEF id, n
  <1>5. ~ (j + 1 < i) /\ ~ (i + 1 < j)
    BY <1>1, <1>2, <1>3, <1>4
  <1>6. j + 1 # i /\ i + 1 # j
    BY <1>1, <1>3, <1>4
  <1> QED BY <1>3, <1>5, <1>6

LEMMA NoneInside ==
  ASSUME ThreadInv, NEW i \in 1 .. Len(_pFaces) - 1, NEW j \in 1 .. Len(_pFaces),
         _pFaces[i].frame_id < _pFaces[j].frame_id,
         _pFaces[j].frame_id < _pFaces[i + 1].frame_id
  PROVE  FALSE
  <1> DEFINE n == Len(_pFaces)
             id(h) == _pFaces[h].frame_id
  <1>1. n \in Nat /\ \A h \in 1 .. n : id(h) \in Nat
    BY ThreadFacts
  <1>2. \A g, h \in 1 .. n : g < h => id(g) < id(h)
    BY ThreadFacts DEF ThreadInv
  <1>3. i \in 1 .. n /\ i + 1 \in 1 .. n /\ j \in 1 .. n
    BY <1>1
  <1>4. id(i) < id(j) /\ id(j) < id(i + 1)
    OBVIOUS
  <1> HIDE DEF id, n
  <1>5. ~ (j < i) /\ ~ (i + 1 < j)
    BY <1>1, <1>2, <1>3, <1>4
  <1>6. j # i /\ i + 1 # j
    BY <1>1, <1>3, <1>4
  <1> QED BY <1>1, <1>3, <1>5, <1>6

\* As many faces as frames: there is one in every frame, since the ids increase.
LEMMA NoGap ==
  ASSUME ThreadInv, Frames = Len(_pFaces), NEW k \in 1 .. Len(_pFaces)
  PROVE  _pFaces[k].frame_id = First + k - 1
  <1> DEFINE n == Len(_pFaces)
             id(h) == _pFaces[h].frame_id
  <1>1. /\ n \in Nat /\ n > 0 /\ First \in Nat /\ \A h \in 1 .. n : id(h) \in Nat
        /\ id(1) = First /\ id(n) = First + n - 1
    BY ThreadFacts DEF First
  <1>2. \A g, h \in 1 .. n : g < h => id(g) < id(h)
    BY ThreadFacts DEF ThreadInv
  <1> HIDE DEF id, n
  <1>3. \A h \in 1 .. n : First + h - 1 <= id(h)
    <2> DEFINE S == {h \in 1 .. n : id(h) < First + h - 1}
    <2> SUFFICES ASSUME S # {} PROVE FALSE
      <3>1. ASSUME NEW h \in 1 .. n, h \notin S PROVE First + h - 1 <= id(h)
        <4>1. id(h) \in Nat /\ First + h - 1 \in Int /\ ~ (id(h) < First + h - 1)
          BY <1>1, <3>1
        <4> QED BY <4>1
      <3> QED BY <3>1
    <2>1. S \subseteq Nat
      BY <1>1
    <2>2. PICK h \in S : \A g \in S : h <= g
      BY <2>1, LeastExists
    <2>3. h \in 1 .. n /\ h # 1 /\ id(h) < First + h - 1
      BY <1>1, <2>2
    <2>4. h - 1 \in 1 .. n /\ h - 1 \notin S
      BY <1>1, <2>2, <2>3
    <2>5. /\ h \in Nat /\ id(h) \in Nat /\ id(h - 1) \in Nat
          /\ First \in Nat /\ h - 1 < h
      BY <1>1, <2>3, <2>4
    <2>6. ~ (id(h - 1) < First + (h - 1) - 1)
      BY <2>4
    <2>7. id(h - 1) < id(h)
      BY <1>2, <2>3, <2>4, <2>5
    <2>8. id(h) < First + h - 1
      BY <2>3
    <2> QED BY <2>5, <2>6, <2>7, <2>8
  <1>4. \A h \in 1 .. n : id(h) <= First + h - 1
    <2> DEFINE S == {h \in 1 .. n : id(h) > First + h - 1}
    <2> SUFFICES ASSUME S # {} PROVE FALSE
      <3>1. ASSUME NEW h \in 1 .. n, h \notin S PROVE id(h) <= First + h - 1
        <4>1. id(h) \in Nat /\ First + h - 1 \in Int /\ ~ (id(h) > First + h - 1)
          BY <1>1, <3>1
        <4> QED BY <4>1
      <3> QED BY <3>1
    <2>1. S \subseteq Nat /\ \A h \in S : h <= n
      BY <1>1
    <2>2. PICK h \in S : \A g \in S : g <= h
      BY <1>1, <2>1, GreatestExists
    <2>3. h \in 1 .. n /\ h # n /\ id(h) > First + h - 1
      BY <1>1, <2>2
    <2>4. h + 1 \in 1 .. n /\ h + 1 \notin S
      BY <1>1, <2>2, <2>3
    <2>5. /\ h \in Nat /\ id(h) \in Nat /\ id(h + 1) \in Nat
          /\ First \in Nat /\ h < h + 1
      BY <1>1, <2>3, <2>4
    <2>6. ~ (id(h + 1) > First + (h + 1) - 1)
      BY <2>4
    <2>7. id(h) < id(h + 1)
      BY <1>2, <2>3, <2>4, <2>5
    <2>8. id(h) > First + h - 1
      BY <2>3
    <2> QED BY <2>5, <2>6, <2>7, <2>8
  <1>5. k \in 1 .. n
    BY DEF n
  <1>6. id(k) = First + k - 1
    <2>1. First + k - 1 <= id(k) /\ id(k) <= First + k - 1
      BY <1>3, <1>4, <1>5
    <2>2. id(k) \in Nat /\ First + k - 1 \in Int
      BY <1>1, <1>5
    <2> QED BY <2>1, <2>2
  <1> QED BY <1>6 DEF id

\* list::insert puts the new face before itr and moves nothing before it.
WithInserted(t, s, k, e) ==
  /\ t \in Seq(Face)
  /\ Len(t) = Len(s) + 1
  /\ \A j \in 1 .. Len(s) + 1 :
       t[j] = IF j < k THEN s[j] ELSE IF j = k THEN e ELSE s[j - 1]

LEMMA Inserted ==
  ASSUME NEW s \in Seq(Face), NEW k \in 1 .. Len(s), NEW e \in Face
  PROVE  WithInserted(InsertAt(s, k, e), s, k, e)
  <1> DEFINE n == Len(s)
             a == SubSeq(s, 1, k - 1)
             b == a \o <<e>>
             c == SubSeq(s, k, n)
  <1>1. n \in Nat /\ k \in Nat /\ 1 <= k /\ k <= n
    BY LenProperties
  <1>2. a \in Seq(Face) /\ Len(a) = k - 1 /\ \A j \in 1 .. k - 1 : a[j] = s[j]
    BY <1>1
  <1>3. /\ c \in Seq(Face) /\ Len(c) = n - k + 1
        /\ \A j \in 1 .. n - k + 1 : c[j] = s[k + j - 1]
    BY <1>1
  <1>4. InsertAt(s, k, e) = b \o c
    BY DEF InsertAt
  <1> HIDE DEF a, c
  <1>5. /\ b \in Seq(Face) /\ Len(b) = k
        /\ \A j \in 1 .. k - 1 : b[j] = s[j]
        /\ b[k] = e
    <2>1. <<e>> \in Seq(Face) /\ Len(<<e>>) = 1 /\ <<e>>[1] = e
      OBVIOUS
    <2>2. /\ b \in Seq(Face) /\ Len(b) = Len(a) + Len(<<e>>)
          /\ \A j \in 1 .. Len(a) + Len(<<e>>) :
               b[j] = IF j <= Len(a) THEN a[j] ELSE <<e>>[j - Len(a)]
      BY <1>2, <2>1, ConcatProperties
    <2> HIDE DEF b
    <2>3. Len(b) = k /\ \A j \in 1 .. k : b[j] = IF j <= k - 1 THEN a[j] ELSE <<e>>[j - (k - 1)]
      BY <1>1, <1>2, <2>1, <2>2
    <2>4. b[k] = e
      <3>1. k \in 1 .. k /\ ~ (k <= k - 1) /\ k - (k - 1) = 1
        BY <1>1
      <3> QED BY <2>1, <2>3, <3>1
    <2> QED BY <1>1, <1>2, <2>2, <2>3, <2>4
  <1> HIDE DEF b
  <1>6. /\ b \o c \in Seq(Face) /\ Len(b \o c) = n + 1
        /\ \A j \in 1 .. n + 1 : (b \o c)[j] = IF j <= k THEN b[j] ELSE c[j - k]
    <2>1. /\ b \o c \in Seq(Face) /\ Len(b \o c) = Len(b) + Len(c)
          /\ \A j \in 1 .. Len(b) + Len(c) :
               (b \o c)[j] = IF j <= Len(b) THEN b[j] ELSE c[j - Len(b)]
      BY <1>3, <1>5, ConcatProperties
    <2>2. Len(b) = k /\ Len(b) + Len(c) = n + 1
      BY <1>1, <1>3, <1>5
    <2> QED BY <2>1, <2>2
  <1> DEFINE t == b \o c
  <1> HIDE DEF t
  <1>7. ASSUME NEW j \in 1 .. n + 1
        PROVE  t[j] = IF j < k THEN s[j] ELSE IF j = k THEN e ELSE s[j - 1]
    <2>1. t[j] = IF j <= k THEN b[j] ELSE c[j - k]
      BY <1>6 DEF t
    <2>2. CASE j \in 1 .. k - 1
      BY <1>1, <1>5, <2>1, <2>2
    <2>3. CASE j = k
      BY <1>1, <1>5, <2>1, <2>3
    <2>4. CASE j \in k + 1 .. n + 1
      <3>1. j - k \in 1 .. n - k + 1 /\ k + (j - k) - 1 = j - 1 /\ ~ (j <= k)
        BY <1>1, <2>4
      <3>2. t[j] = s[j - 1]
        BY <1>3, <2>1, <3>1
      <3> QED BY <3>1, <3>2
    <2> QED BY <1>1, <2>2, <2>3, <2>4
  <1> QED BY <1>4, <1>6, <1>7 DEF t, WithInserted

LEMMA ThreadUnchanged ==
  ASSUME ThreadInv, UNCHANGED _pFaces
  PROVE  ThreadInv' /\ First' = First /\ Frames' = Frames
  BY DEF ThreadInv, First, Frames

LEMMA InitInv == Init => ThreadInv /\ CopyInv
  <1> SUFFICES ASSUME Init PROVE ThreadInv /\ CopyInv
    OBVIOUS
  <1> DEFINE Square == {q \in [x : Position, y : Position, s : Size] :
                          q.x + q.s <= FrameSize /\ q.y + q.s <= FrameSize}
  <1>1. PICK ids \in FrameIds : \E square \in [DOMAIN ids -> Square] :
          _pFaces = [i \in DOMAIN ids |->
            SquareFace(ids[i], square[i].x, square[i].y, square[i].s)]
    BY Zenon DEF Init
  <1>2. PICK square \in [DOMAIN ids -> Square] :
          _pFaces = [i \in DOMAIN ids |->
            SquareFace(ids[i], square[i].x, square[i].y, square[i].s)]
    BY <1>1
  <1> DEFINE n == Len(ids)
  <1>3. /\ ids \in Seq(Nat) /\ ids # <<>>
        /\ \A i, j \in DOMAIN ids : i < j => ids[i] < ids[j]
    BY SmoothingAssumption
  <1>4. n \in Nat /\ DOMAIN ids = 1 .. n /\ \A i \in 1 .. n : ids[i] \in Nat
    BY <1>3, LenProperties, ElementOfSeq
  <1>5. n > 0
    BY <1>3, <1>4, EmptySeq
  <1> HIDE DEF n
  <1>6. ASSUME NEW i \in 1 .. n
        PROVE  /\ _pFaces[i] \in Face
               /\ _pFaces[i].frame_id = ids[i]
               /\ _pFaces[i].x + _pFaces[i].width <= FrameSize
               /\ _pFaces[i].y + _pFaces[i].height <= FrameSize
    <2>1. square[i] \in Square
      BY <1>2, <1>4
    <2>2. /\ square[i].x \in Position /\ square[i].y \in Position /\ square[i].s \in Size
          /\ square[i].x + square[i].s <= FrameSize
          /\ square[i].y + square[i].s <= FrameSize
      BY <2>1
    <2>3. square[i].x \in Nat /\ square[i].y \in Nat /\ square[i].s \in Nat
      BY <2>2, SmoothingAssumption
    <2>4. _pFaces[i] = SquareFace(ids[i], square[i].x, square[i].y, square[i].s)
      BY <1>2, <1>4
    <2> QED BY <1>4, <2>2, <2>3, <2>4 DEF SquareFace, Face
  <1>7. DOMAIN _pFaces = 1 .. n
    BY <1>2, <1>4
  <1>8. _pFaces \in [1 .. n -> Face]
    <2>1. _pFaces = [i \in 1 .. n |-> _pFaces[i]]
      BY <1>2, <1>4
    <2> QED BY <1>6, <2>1
  <1>9. _pFaces \in Seq(Face) /\ Len(_pFaces) = n
    BY <1>4, <1>7, <1>8, SeqDef, LenProperties
  <1>10. ThreadInv
    BY <1>3, <1>4, <1>5, <1>6, <1>7, <1>9 DEF ThreadInv
  <1> QED BY <1>10 DEF Init, CopyInv, Filled

\* Early, when no frame misses, or with the iterators at the first two faces.
LEMMA StartLoop ==
  ASSUME ThreadInv, CopyInv, FillStart
  PROVE  CopyInv' /\ LoopInv' /\ FilledInv'
  <1> DEFINE n == Len(_pFaces)
  <1>1. /\ n \in Nat /\ n > 0 /\ DOMAIN _pFaces = 1 .. n
        /\ First \in Nat /\ Frames \in Nat /\ _pFaces \in Seq(Face)
        /\ \A h \in 1 .. n : _pFaces[h] \in Face /\ _pFaces[h].frame_id \in Nat
    BY ThreadFacts DEF ThreadInv
  <1>2. /\ my_faces = _pFaces /\ prev_itr = 1 /\ itr = 2 /\ nth = 1
        /\ _pFaces' = _pFaces /\ my_faces' = my_faces
        /\ prev_itr' = prev_itr /\ itr' = itr /\ nth' = nth
        /\ stage' = IF Frames = n THEN "x" ELSE "insert"
    <2>1. my_faces = _pFaces /\ prev_itr = 1 /\ itr = 2 /\ nth = 1
      BY DEF FillStart, CopyInv
    <2>2. Head(my_faces) = _pFaces[1] /\ Last(my_faces) = _pFaces[n]
      BY <1>1, <2>1 DEF Last
    <2>3. stage' = IF Frames = n THEN "x" ELSE "insert"
      BY <2>1, <2>2 DEF FillStart, Frames, First
    <2> QED BY <2>1, <2>3 DEF FillStart, iterators
  <1>3. First' = First /\ Frames' = Frames
    BY <1>2, ThreadUnchanged
  <1>4. CASE Frames = n
    <2>1. stage' = "x"
      BY <1>2, <1>4
    <2>2. \A k \in 1 .. Frames : my_faces[k].frame_id = First + k - 1
      BY <1>2, <1>4, NoGap
    <2>3. my_faces \in [1 .. Frames -> Face]
      BY <1>1, <1>2, <1>4
    <2>4. CopyInv'
      BY <1>2, <1>3, <2>1, <2>2, <2>3 DEF CopyInv, Filled
    <2>5. FilledInv' /\ LoopInv'
      BY <1>1, <1>2, <1>3, <1>4, <2>1 DEF FilledInv, LoopInv, Detected
    <2> QED BY <2>4, <2>5
  <1>5. CASE Frames # n
    <2>1. stage' = "insert"
      BY <1>2, <1>5
    <2>2. CopyInv' /\ FilledInv'
      BY <2>1 DEF CopyInv, FilledInv, Filled
    <2>3. At' = 1
      <3>1. Len(_pFaces') = n /\ Len(my_faces') = n /\ itr' = 2
        BY <1>2
      <3> QED BY <1>1, <3>1 DEF At
    <2>4. itr <= n => nth <= diff
      <3> SUFFICES ASSUME 2 <= n PROVE 1 <= _pFaces[2].frame_id - _pFaces[1].frame_id
        BY <1>2 DEF diff
      <3>1. 1 \in 1 .. n /\ 2 \in 1 .. n
        BY <1>1
      <3>2. _pFaces[1].frame_id < _pFaces[2].frame_id
        BY <1>1, <3>1 DEF ThreadInv
      <3> QED BY <1>1, <3>1, <3>2
    <2>5. my_faces[1].frame_id = First + 1 - 1 /\ Detected(1)
      <3>1. my_faces[1] = _pFaces[1] /\ 1 \in DOMAIN _pFaces
        <4>1. n \in Nat /\ n > 0 /\ DOMAIN _pFaces = 1 .. n /\ my_faces = _pFaces
          BY <1>1, <1>2
        <4> HIDE DEF n
        <4> QED BY <4>1
      <3>2. Detected(1)
        BY <3>1 DEF Detected
      <3> QED BY <1>1, <3>1, <3>2 DEF First
    <2>6. diff' = diff /\ Detected(1)' = Detected(1)
      BY <1>2 DEF diff, Detected
    <2>7. \A k \in 2 .. n : k \in 1 .. n /\ 1 + 1 + k - 2 = k
      OBVIOUS
    <2>8. /\ prev_itr' = 1 /\ itr' = 2 /\ nth' = 1 /\ 1 \in 1 .. n
          /\ 2 \in 1 + 1 .. n + 1 /\ 1 = 2 - 1
          /\ my_faces' = _pFaces /\ _pFaces' = _pFaces
          /\ \A k \in 1 .. 2 - 1 : k = 1
      <3>1. n \in Nat /\ n > 0
        BY <1>1
      <3> HIDE DEF n
      <3> QED BY <1>2, <3>1
    <2> HIDE DEF n
    <2>9. LoopInv'
      BY <1>1, <1>2, <1>3, <2>1, <2>3, <2>4, <2>5, <2>6, <2>7, <2>8 DEF LoopInv, n
    <2> QED BY <2>2, <2>9
  <1> QED BY <1>4, <1>5

\* What the loop knows at a pair of faces.
LEMMA PairFacts ==
  ASSUME ThreadInv, LoopInv, AtPair
  PROVE  LET n == Len(_pFaces)
             p == _pFaces[At]
             q == _pFaces[At + 1]
         IN /\ n \in Nat /\ Len(my_faces) \in Nat /\ First \in Nat
            /\ At \in 1 .. n - 1 /\ At + 1 \in 1 .. n
            /\ itr \in 1 .. Len(my_faces) /\ prev_itr \in 1 .. itr - 1
            /\ nth \in Nat /\ nth > 0 /\ nth = itr - prev_itr
            /\ p \in Face /\ q \in Face /\ p.frame_id \in Nat /\ q.frame_id \in Nat
            /\ my_faces[prev_itr] = p /\ my_faces[itr] = q
            /\ diff = q.frame_id - p.frame_id /\ nth <= diff
            /\ p.frame_id + nth = First + itr - 1
            /\ p.frame_id < q.frame_id
  <1> DEFINE n == Len(_pFaces)
             m == Len(my_faces)
             p == _pFaces[At]
             q == _pFaces[At + 1]
  <1>1. /\ stage = "insert" /\ itr <= m
        /\ my_faces \in Seq(Face)
        /\ prev_itr \in 1 .. m
        /\ itr \in prev_itr + 1 .. m + 1
        /\ nth = itr - prev_itr
        /\ At \in 1 .. n
        /\ my_faces[prev_itr] = p
        /\ nth <= diff
        /\ \A k \in itr .. m : my_faces[k] = _pFaces[At + 1 + k - itr]
        /\ \A k \in 1 .. itr - 1 : my_faces[k].frame_id = First + k - 1
    BY DEF LoopInv, AtPair
  <1>2. /\ n \in Nat /\ First \in Nat
        /\ \A h \in 1 .. n : _pFaces[h] \in Face /\ _pFaces[h].frame_id \in Nat
    BY ThreadFacts
  <1>3. m \in Nat
    BY <1>1, LenProperties
  <1>4. /\ itr \in 1 .. m /\ prev_itr \in 1 .. itr - 1 /\ nth \in Nat /\ nth > 0
    BY <1>1, <1>3
  <1>5. At = n - 1 - m + itr
    BY DEF At
  <1>6. At \in 1 .. n - 1 /\ At + 1 \in 1 .. n
    BY <1>1, <1>2, <1>3, <1>4, <1>5
  <1>7. p \in Face /\ q \in Face /\ p.frame_id \in Nat /\ q.frame_id \in Nat
    BY <1>1, <1>2, <1>6
  <1>8. my_faces[itr] = q
    <2>1. itr \in itr .. m /\ At + 1 + itr - itr = At + 1
      BY <1>1, <1>4, <1>6
    <2> QED BY <1>1, <2>1
  <1>9. diff = q.frame_id - p.frame_id
    BY <1>1, <1>8 DEF diff
  <1>10. p.frame_id = First + prev_itr - 1
    BY <1>1, <1>4
  <1> HIDE DEF p, q, n, m
  <1>11. p.frame_id + nth = First + itr - 1 /\ p.frame_id < q.frame_id
    BY <1>1, <1>2, <1>4, <1>7, <1>9, <1>10
  <1> QED BY <1>1, <1>2, <1>3, <1>4, <1>6, <1>7, <1>8, <1>9, <1>11 DEF p, q, n, m

\* One turn of the inner loop, then the step of the outer one.
LEMMA InsertKeeps ==
  ASSUME ThreadInv, LoopInv, InsertFace
  PROVE  LoopInv'
  <1> DEFINE n == Len(_pFaces)
             m == Len(my_faces)
             p == _pFaces[At]
             q == _pFaces[At + 1]
             f == Between(p, q, nth)
  <1>1. /\ n \in Nat /\ m \in Nat /\ First \in Nat
        /\ At \in 1 .. n - 1 /\ At + 1 \in 1 .. n
        /\ itr \in 1 .. m /\ prev_itr \in 1 .. itr - 1
        /\ nth \in Nat /\ nth > 0 /\ nth = itr - prev_itr
        /\ p \in Face /\ q \in Face /\ p.frame_id \in Nat /\ q.frame_id \in Nat
        /\ my_faces[prev_itr] = p /\ my_faces[itr] = q
        /\ diff = q.frame_id - p.frame_id
        /\ p.frame_id + nth = First + itr - 1
        /\ p.frame_id < q.frame_id
    BY PairFacts DEF InsertFace
  <1>2. /\ stage = "insert" /\ nth < diff
        /\ my_faces' = InsertAt(my_faces, itr, f)
        /\ itr' = itr + 1 /\ nth' = nth + 1
        /\ _pFaces' = _pFaces /\ stage' = stage /\ prev_itr' = prev_itr
    BY <1>1 DEF InsertFace, AtPair
  <1>3. /\ my_faces \in Seq(Face)
        /\ \A k \in itr .. m : my_faces[k] = _pFaces[At + 1 + k - itr]
        /\ \A k \in 1 .. itr - 1 : my_faces[k].frame_id = First + k - 1
        /\ \A k \in 1 .. itr - 1 : Detected(k) \/ Added(k)
    BY <1>2 DEF LoopInv
  <1>4. p.frame_id + nth <= q.frame_id
    <2> DEFINE a == p.frame_id
               b == q.frame_id
    <2>1. a \in Nat /\ b \in Nat /\ nth \in Nat /\ nth < b - a
      BY <1>1, <1>2
    <2> HIDE DEF a, b
    <2>2. a + nth <= b
      BY <2>1
    <2> QED BY <2>2 DEF a, b
  <1>5. f \in Face /\ f.frame_id = p.frame_id + nth
    BY <1>1, <1>4, BetweenLies
  <1> HIDE DEF f, p, q
  <1>6. /\ my_faces' \in Seq(Face) /\ Len(my_faces') = m + 1
        /\ \A j \in 1 .. m + 1 :
             my_faces'[j] = IF j < itr THEN my_faces[j]
                            ELSE IF j = itr THEN f ELSE my_faces[j - 1]
    <2>1. itr \in 1 .. Len(my_faces) /\ my_faces \in Seq(Face) /\ f \in Face
      BY <1>1, <1>3, <1>5
    <2>2. WithInserted(InsertAt(my_faces, itr, f), my_faces, itr, f)
      BY <2>1, Inserted
    <2> QED BY <1>2, <2>2 DEF WithInserted
  <1> HIDE DEF m
  <1>7. First' = First /\ At' = At
    BY <1>1, <1>2, <1>6 DEF First, At, m
  <1>8. /\ \A k \in 1 .. itr - 1 : my_faces'[k] = my_faces[k]
        /\ my_faces'[itr] = f
        /\ \A k \in itr .. m : my_faces'[k + 1] = my_faces[k]
    <2>1. m \in Nat /\ itr \in 1 .. m
      BY <1>1
    <2>2. \A k \in 1 .. itr - 1 : my_faces'[k] = my_faces[k]
      BY <1>6, <2>1
    <2>3. my_faces'[itr] = f
      BY <1>6, <2>1
    <2>4. ASSUME NEW k \in itr .. m
          PROVE  my_faces'[k + 1] = my_faces[k]
      <3>1. k + 1 \in 1 .. m + 1 /\ ~ (k + 1 < itr) /\ k + 1 # itr /\ k + 1 - 1 = k
        BY <2>1
      <3> QED BY <1>6, <3>1
    <2> QED BY <2>2, <2>3, <2>4
  <1>9. my_faces'[prev_itr] = p /\ my_faces'[itr + 1] = q
    <2>1. m \in Nat /\ itr \in 1 .. m
      BY <1>1
    <2>2. itr \in itr .. m
      BY <2>1
    <2>3. my_faces'[itr + 1] = my_faces[itr]
      BY <1>8, <2>2
    <2>4. my_faces'[prev_itr] = my_faces[prev_itr]
      BY <1>1, <1>8
    <2> QED BY <1>1, <2>3, <2>4
  <1>10. nth + 1 <= diff'
    <2>1. diff' = q.frame_id - p.frame_id
      BY <1>2, <1>9 DEF diff
    <2> QED BY <1>1, <1>2, <2>1
  <1>11. \A k \in itr + 1 .. m + 1 : my_faces'[k] = _pFaces[At + 1 + k - (itr + 1)]
    <2> SUFFICES ASSUME NEW k \in itr + 1 .. m + 1
                 PROVE  my_faces'[k] = _pFaces[At + 1 + k - (itr + 1)]
      OBVIOUS
    <2>1. /\ k - 1 \in itr .. m /\ (k - 1) + 1 = k
          /\ At + 1 + (k - 1) - itr = At + 1 + k - (itr + 1)
      BY <1>1
    <2>2. my_faces'[k] = my_faces[k - 1]
      BY <1>8, <2>1
    <2>3. my_faces[k - 1] = _pFaces[At + 1 + (k - 1) - itr]
      BY <1>3, <2>1
    <2> QED BY <2>1, <2>2, <2>3
  <1>12. ASSUME NEW k \in 1 .. itr
         PROVE  /\ my_faces'[k].frame_id = First + k - 1
                /\ Detected(k)' \/ Added(k)'
    <2>1. CASE k \in 1 .. itr - 1
      BY <1>2, <1>3, <1>7, <1>8, <2>1 DEF Detected, Added
    <2>2. CASE k = itr
      <3>1. my_faces'[k].frame_id = First + k - 1
        BY <1>1, <1>5, <1>8, <2>2
      <3>2. /\ First + k - 1 - p.frame_id = nth
            /\ p.frame_id < First + k - 1 /\ First + k - 1 < q.frame_id
        <4> DEFINE a == p.frame_id
                   b == q.frame_id
        <4>1. /\ a \in Nat /\ b \in Nat /\ First \in Nat /\ k \in Nat
              /\ nth \in Nat /\ nth > 0 /\ nth < b - a
              /\ a + nth = First + k - 1
          BY <1>1, <1>2, <2>2
        <4> HIDE DEF a, b
        <4>2. First + k - 1 - a = nth /\ a < First + k - 1 /\ First + k - 1 < b
          BY <4>1
        <4> QED BY <4>2 DEF a, b
      <3>3. my_faces'[k] = Between(_pFaces[At], _pFaces[At + 1],
                                   First + k - 1 - _pFaces[At].frame_id)
        BY <1>8, <2>2, <3>2 DEF f, p, q
      <3>4. Added(k)'
        BY <1>1, <1>2, <1>7, <3>2, <3>3 DEF Added, p, q
      <3> QED BY <3>1, <3>4
    <2> QED BY <1>1, <2>1, <2>2
  <1>13. /\ prev_itr \in 1 .. m + 1 /\ itr + 1 \in prev_itr + 1 .. m + 2
         /\ nth + 1 = itr + 1 - prev_itr /\ At \in 1 .. n
         /\ ~ (itr + 1 > m + 1)
    BY <1>1
  <1>14. \A k \in 1 .. itr + 1 - 1 : k \in 1 .. itr
    BY <1>1
  <1>15. \A k \in 1 .. itr + 1 - 1 :
           /\ my_faces'[k].frame_id = First + k - 1
           /\ Detected(k)' \/ Added(k)'
    BY <1>12, <1>14
  <1>16. /\ Len(my_faces') = m + 1 /\ _pFaces'[At'] = p /\ my_faces'[prev_itr'] = p
    BY <1>2, <1>6, <1>7, <1>9 DEF p
  <1> HIDE DEF n
  <1>17. Len(_pFaces') = n
    BY <1>2 DEF n
  <1>18. /\ my_faces' \in Seq(Face)
         /\ prev_itr' \in 1 .. Len(my_faces')
         /\ itr' \in prev_itr' + 1 .. Len(my_faces') + 1
         /\ nth' = itr' - prev_itr'
         /\ At' \in 1 .. Len(_pFaces')
         /\ my_faces'[prev_itr'] = _pFaces'[At']
    <2>1. /\ itr' = itr + 1 /\ nth' = nth + 1 /\ prev_itr' = prev_itr /\ m + 1 + 1 = m + 2
      BY <1>1, <1>2
    <2>2. my_faces' \in Seq(Face) /\ Len(my_faces') = m + 1
      BY <1>6
    <2>3. prev_itr' \in 1 .. Len(my_faces') /\ itr' \in prev_itr' + 1 .. Len(my_faces') + 1
      BY <1>13, <2>1, <2>2
    <2>4. nth' = itr' - prev_itr'
      <3>1. itr \in Nat /\ prev_itr \in Nat /\ nth \in Nat
        BY <1>1
      <3> QED BY <1>13, <2>1, <3>1
    <2>5. At' \in 1 .. Len(_pFaces')
      BY <1>7, <1>13, <1>17
    <2>6. my_faces'[prev_itr'] = _pFaces'[At']
      BY <1>16
    <2> QED BY <2>2, <2>3, <2>4, <2>5, <2>6
  <1>19. itr' <= Len(my_faces') => nth' <= diff'
    BY <1>2, <1>10
  <1>20. itr' > Len(my_faces') => nth' = 1
    BY <1>2, <1>13, <1>16
  <1>21. \A k \in itr' .. Len(my_faces') : my_faces'[k] = _pFaces'[At' + 1 + k - itr']
    BY <1>2, <1>7, <1>11, <1>16
  <1>22. \A k \in 1 .. itr' - 1 :
           /\ my_faces'[k].frame_id = First' + k - 1
           /\ Detected(k)' \/ Added(k)'
    <2>1. itr' = itr + 1 /\ First' = First /\ itr \in Nat
      BY <1>1, <1>2, <1>7
    <2> QED BY <1>15, <2>1
  <1> QED BY <1>18, <1>19, <1>20, <1>21, <1>22 DEF LoopInv

LEMMA NextPairKeeps ==
  ASSUME ThreadInv, LoopInv, NextPair
  PROVE  LoopInv'
  <1> DEFINE n == Len(_pFaces)
             m == Len(my_faces)
  <1>1. /\ n \in Nat /\ m \in Nat /\ First \in Nat
        /\ At \in 1 .. n - 1 /\ At + 1 \in 1 .. n
        /\ itr \in 1 .. m /\ nth \in Nat
        /\ _pFaces[At].frame_id \in Nat /\ _pFaces[At + 1].frame_id \in Nat
        /\ my_faces[itr] = _pFaces[At + 1]
        /\ diff = _pFaces[At + 1].frame_id - _pFaces[At].frame_id /\ nth <= diff
        /\ _pFaces[At].frame_id + nth = First + itr - 1
    BY PairFacts DEF NextPair
  <1>2. /\ stage = "insert" /\ nth >= diff
        /\ prev_itr' = itr /\ itr' = itr + 1 /\ nth' = 1
        /\ _pFaces' = _pFaces /\ my_faces' = my_faces /\ stage' = stage
    BY DEF NextPair, AtPair
  <1>3. /\ my_faces \in Seq(Face)
        /\ \A k \in itr .. m : my_faces[k] = _pFaces[At + 1 + k - itr]
        /\ \A k \in 1 .. itr - 1 : my_faces[k].frame_id = First + k - 1
        /\ \A k \in 1 .. itr - 1 : Detected(k) \/ Added(k)
    BY <1>2 DEF LoopInv
  <1> HIDE DEF m
  <1>4. First' = First /\ At' = At + 1
    BY <1>1, <1>2 DEF First, At, m
  <1>5. my_faces[itr].frame_id = First + itr - 1
    <2> DEFINE a == _pFaces[At].frame_id
               b == _pFaces[At + 1].frame_id
    <2>1. /\ a \in Nat /\ b \in Nat /\ diff = b - a /\ nth <= diff /\ nth >= diff
          /\ a + nth = First + itr - 1 /\ my_faces[itr].frame_id = b
      BY <1>1, <1>2
    <2> HIDE DEF a, b
    <2> QED BY <1>1, <2>1
  <1>6. \A k \in itr + 1 .. m : my_faces[k] = _pFaces[At + 1 + 1 + k - (itr + 1)]
    <2> SUFFICES ASSUME NEW k \in itr + 1 .. m
                 PROVE  my_faces[k] = _pFaces[At + 1 + 1 + k - (itr + 1)]
      OBVIOUS
    <2>1. k \in itr .. m /\ At + 1 + k - itr = At + 1 + 1 + k - (itr + 1)
      BY <1>1
    <2> QED BY <1>3, <2>1
  <1>7. ASSUME NEW k \in 1 .. itr
        PROVE  /\ my_faces'[k].frame_id = First + k - 1
               /\ Detected(k)' \/ Added(k)'
    <2>1. CASE k \in 1 .. itr - 1
      BY <1>2, <1>3, <1>4, <2>1 DEF Detected, Added
    <2>2. CASE k = itr
      <3>1. DOMAIN _pFaces = 1 .. n
        BY ThreadFacts
      <3>2. Detected(k)'
        BY <1>1, <1>2, <2>2, <3>1 DEF Detected
      <3> QED BY <1>2, <1>5, <2>2, <3>2
    <2> QED BY <1>1, <2>1, <2>2
  <1>8. itr + 1 <= m => 1 <= diff'
    <2> SUFFICES ASSUME itr + 1 <= m PROVE 1 <= diff'
      OBVIOUS
    <2>1. At + 2 \in 1 .. n /\ my_faces[itr + 1] = _pFaces[At + 2]
      <3>1. itr + 1 \in itr .. m /\ At + 1 + (itr + 1) - itr = At + 2
        BY <1>1
      <3>2. At + 2 <= n
        BY <1>1 DEF At, m
      <3> QED BY <1>1, <1>3, <3>1, <3>2
    <2>2. _pFaces[At + 1].frame_id < _pFaces[At + 2].frame_id
      <3>1. \A i, j \in 1 .. n : i < j => _pFaces[i].frame_id < _pFaces[j].frame_id
        BY ThreadFacts DEF ThreadInv
      <3>2. At + 1 < At + 2
        BY <1>1
      <3> HIDE DEF n
      <3> QED BY <1>1, <2>1, <3>1, <3>2
    <2>3. diff' = _pFaces[At + 2].frame_id - _pFaces[At + 1].frame_id
      BY <1>1, <1>2, <2>1 DEF diff
    <2>4. _pFaces[At + 2].frame_id \in Nat /\ _pFaces[At + 1].frame_id \in Nat
      BY <1>1, <2>1, ThreadFacts
    <2> QED BY <2>2, <2>3, <2>4
  <1>9. /\ itr \in 1 .. m /\ itr + 1 \in itr + 1 .. m + 1 /\ 1 = itr + 1 - itr
        /\ \A k \in 1 .. itr + 1 - 1 : k \in 1 .. itr
    BY <1>1
  <1> QED BY <1>1, <1>2, <1>3, <1>4, <1>6, <1>7, <1>8, <1>9 DEF LoopInv, m

\* Past the last face the thread is used up and the copy is filled.
LEMMA EndFills ==
  ASSUME ThreadInv, LoopInv, FillEnd
  PROVE  CopyInv' /\ LoopInv' /\ FilledInv'
  <1> DEFINE n == Len(_pFaces)
             m == Len(my_faces)
  <1>1. /\ stage = "insert" /\ stage' = "x" /\ itr > m
        /\ _pFaces' = _pFaces /\ my_faces' = my_faces
    BY DEF FillEnd
  <1>2. /\ my_faces \in Seq(Face)
        /\ prev_itr \in 1 .. m
        /\ itr \in prev_itr + 1 .. m + 1
        /\ nth = itr - prev_itr /\ nth = 1
        /\ my_faces[prev_itr] = _pFaces[At]
        /\ \A k \in 1 .. itr - 1 : my_faces[k].frame_id = First + k - 1
        /\ \A k \in 1 .. itr - 1 : Detected(k) \/ Added(k)
    BY <1>1 DEF LoopInv
  <1>3. /\ n \in Nat /\ First \in Nat /\ Frames \in Nat
        /\ _pFaces[n].frame_id = First + Frames - 1
    BY ThreadFacts
  <1>4. m \in Nat
    BY <1>2, LenProperties
  <1>5. itr = m + 1 /\ prev_itr = m /\ At = n
    BY <1>1, <1>2, <1>3, <1>4 DEF At
  <1>6. m = Frames
    <2>1. m \in 1 .. itr - 1
      BY <1>2, <1>4, <1>5
    <2>2. my_faces[m].frame_id = First + m - 1 /\ my_faces[m] = _pFaces[n]
      BY <1>2, <1>5, <2>1
    <2> QED BY <1>3, <1>4, <2>2
  <1>7. itr - 1 = Frames
    BY <1>4, <1>5, <1>6
  <1>8. Frames' = Frames /\ First' = First
    BY <1>1, ThreadUnchanged
  <1>9. my_faces \in [1 .. Frames -> Face]
    BY <1>2, <1>4, <1>6, LenProperties
  <1>10. CopyInv'
    BY <1>1, <1>2, <1>7, <1>8, <1>9 DEF CopyInv, Filled
  <1>11. LoopInv' /\ FilledInv'
    BY <1>1, <1>2, <1>7, <1>8 DEF LoopInv, FilledInv, Detected, Added
  <1> QED BY <1>10, <1>11

\* A block of smoothFaceSeries replaces one member of every face by its average.
Averages(m, leny) ==
  [k \in 1 .. Frames |->
     Convolution([j \in 1 .. Frames |-> my_faces[j][m]], SIZE_FILT, leny, k)]

LEMMA SmoothReplaces ==
  ASSUME ThreadInv, CopyInv, Filled, UNCHANGED _pFaces,
         stage' \in {"y", "width", "height", "done"},
         NEW m \in Members, NEW leny \in {3, 7}, Smooth(m, leny)
  PROVE  /\ CopyInv'
         /\ [j \in 1 .. Frames |-> my_faces[j][m]] \in [1 .. Frames -> Nat]
         /\ \A k \in 1 .. Frames :
              /\ my_faces'[k][m] = Averages(m, leny)[k]
              /\ \A o \in Members \ {m} : my_faces'[k][o] = my_faces[k][o]
  <1> DEFINE X == [j \in 1 .. Frames |-> my_faces[j][m]]
             A == Averages(m, leny)
  <1>1. Frames' = Frames /\ First' = First /\ Frames \in Nat
    BY ThreadUnchanged, ThreadFacts
  <1>2. /\ my_faces \in [1 .. Frames -> Face] /\ DOMAIN my_faces = 1 .. Frames
        /\ \A k \in 1 .. Frames : my_faces[k] \in Face /\ my_faces[k].frame_id = First + k - 1
    BY DEF CopyInv
  <1>3. \A k \in 1 .. Frames : my_faces[k][m] \in Nat
    BY <1>2 DEF Face, Members
  <1>4. X \in [1 .. Frames -> Nat]
    BY <1>3
  <1>5. my_faces' = [k \in 1 .. Frames |-> [my_faces[k] EXCEPT ![m] = A[k]]]
    BY <1>2 DEF Smooth, Averages
  <1>6. \A k \in 1 .. Frames : A[k] \in Nat
    BY <1>1, <1>4, AverageIsNat DEF Averages
  <1> HIDE DEF X, A
  <1>7. ASSUME NEW k \in 1 .. Frames
        PROVE  /\ my_faces'[k] \in Face
               /\ my_faces'[k].frame_id = First + k - 1
               /\ my_faces'[k][m] = A[k]
               /\ \A o \in Members \ {m} : my_faces'[k][o] = my_faces[k][o]
    <2>1. my_faces'[k] = [my_faces[k] EXCEPT ![m] = A[k]]
      BY <1>5
    <2>2. my_faces[k] \in Face /\ my_faces[k].frame_id = First + k - 1 /\ A[k] \in Nat
      BY <1>2, <1>6
    <2>3. m = "x" \/ m = "y" \/ m = "width" \/ m = "height"
      BY DEF Members
    <2> QED BY <2>1, <2>2, <2>3 DEF Face, Members
  <1>8. my_faces' \in [1 .. Frames -> Face]
    <2>1. my_faces' = [k \in 1 .. Frames |-> my_faces'[k]]
      BY <1>5
    <2> QED BY <1>7, <2>1
  <1>9. CopyInv'
    BY <1>1, <1>7, <1>8 DEF CopyInv
  <1> QED BY <1>4, <1>7, <1>9 DEF X, A

\* What holds of the copy in every state, and with it the first two properties.
ShapeInv == ThreadInv /\ CopyInv /\ LoopInv /\ FilledInv

LEMMA ShapeKept == ShapeInv /\ [Next]_vars => ShapeInv'
  <1> SUFFICES ASSUME ShapeInv, [Next]_vars PROVE ShapeInv'
    OBVIOUS
  <1> USE DEF ShapeInv
  <1>1. UNCHANGED _pFaces
    BY DEF Next, vars, FillStart, InsertFace, NextPair, FillEnd, SmoothX, SmoothY, SmoothWidth, SmoothHeight, Done
  <1>2. ThreadInv' /\ First' = First /\ Frames' = Frames
    BY <1>1, ThreadUnchanged
  <1>3. CASE FillStart
    BY <1>2, <1>3, StartLoop
  <1>4. CASE InsertFace
    <2>1. LoopInv' /\ stage' = "insert"
      BY <1>4, InsertKeeps DEF InsertFace, AtPair
    <2> QED BY <1>2, <2>1 DEF CopyInv, FilledInv, Filled
  <1>5. CASE NextPair
    <2>1. LoopInv' /\ stage' = "insert"
      BY <1>5, NextPairKeeps DEF NextPair, AtPair
    <2> QED BY <1>2, <2>1 DEF CopyInv, FilledInv, Filled
  <1>6. CASE FillEnd
    BY <1>2, <1>6, EndFills
  <1>7. CASE SmoothX
    <2>1. CopyInv' /\ stage' = "y"
      BY <1>1, <1>7, SmoothReplaces DEF SmoothX, Members, Filled, SIZE_FILT
    <2> QED BY <1>2, <2>1 DEF FilledInv, LoopInv
  <1>8. CASE SmoothY
    <2>1. CopyInv' /\ stage' = "width"
      BY <1>1, <1>8, SmoothReplaces DEF SmoothY, Members, Filled, SIZE_FILT
    <2> QED BY <1>2, <2>1 DEF FilledInv, LoopInv
  <1>9. CASE SmoothWidth
    <2>1. CopyInv' /\ stage' = "height"
      BY <1>1, <1>9, SmoothReplaces DEF SmoothWidth, Members, Filled, SIZE_FILT
    <2> QED BY <1>2, <2>1 DEF FilledInv, LoopInv
  <1>10. CASE SmoothHeight
    <2>1. CopyInv' /\ stage' = "done"
      BY <1>1, <1>10, SmoothReplaces DEF SmoothHeight, Members, Filled, LOCATION_FILT
    <2> QED BY <1>2, <2>1 DEF FilledInv, LoopInv
  <1>11. CASE UNCHANGED vars
    <2>1. UNCHANGED <<_pFaces, my_faces, stage, prev_itr, itr, nth>>
      BY <1>11 DEF vars, iterators
    <2>2. CopyInv'
      BY <1>2, <2>1 DEF CopyInv, Filled
    <2>3. FilledInv'
      BY <1>2, <2>1 DEF FilledInv, Detected, Added
    <2>4. LoopInv'
      BY <1>2, <2>1 DEF LoopInv, Detected, Added, At, diff
    <2> QED BY <1>2, <2>2, <2>3, <2>4
  <1> QED BY <1>3, <1>4, <1>5, <1>6, <1>7, <1>8, <1>9, <1>10, <1>11 DEF Next, Done

LEMMA ShapeAlways == Spec => []ShapeInv
  <1>1. Init => ShapeInv
    BY InitInv DEF Init, ShapeInv, LoopInv, FilledInv
  <1> QED BY <1>1, ShapeKept, PTL DEF Spec

\* The two iterators and the count of addMissingFrames leave exactly one face for
\* every frame from the first to the last face of the thread, in order, its early
\* return included.
THEOREM OneFacePerFrame == Spec => []EveryFrameHasAFace
  <1>1. ShapeInv => EveryFrameHasAFace
    <2> SUFFICES ASSUME ShapeInv, Filled
                 PROVE  /\ Len(my_faces) = _pFaces[Len(_pFaces)].frame_id - First + 1
                        /\ \A k \in DOMAIN my_faces : my_faces[k].frame_id = First + k - 1
      BY DEF EveryFrameHasAFace, First
    <2>1. /\ my_faces \in [1 .. Frames -> Face]
          /\ \A k \in 1 .. Frames : my_faces[k].frame_id = First + k - 1
      BY DEF ShapeInv, CopyInv
    <2>2. Frames \in Nat
      BY ThreadFacts DEF ShapeInv
    <2>3. my_faces \in Seq(Face)
      BY <2>1, <2>2, SeqDef
    <2>4. DOMAIN my_faces = 1 .. Frames /\ DOMAIN my_faces = 1 .. Len(my_faces)
          /\ Len(my_faces) \in Nat
      BY <2>1, <2>3, LenProperties
    <2>5. Len(my_faces) = Frames
      BY <2>2, <2>4
    <2> QED BY <2>1, <2>4, <2>5 DEF Frames
  <1> QED BY <1>1, ShapeAlways, PTL

\* No detected face is lost or moved by the interpolation, and an added face
\* lies between its neighbours in every member, after rounding
\* (addMissingFrames).
THEOREM AddedFacesBetween == Spec => []InterpolatedBetween
  <1>1. ShapeInv => InterpolatedBetween
    <2> SUFFICES ASSUME ShapeInv, stage = "x" PROVE InterpolatedBetween
      BY DEF InterpolatedBetween
    <2> DEFINE n == Len(_pFaces)
               id(i) == _pFaces[i].frame_id
    <2>1. /\ n \in Nat /\ n > 0 /\ DOMAIN _pFaces = 1 .. n
          /\ First \in Nat /\ Frames \in Nat /\ Frames > 0
          /\ \A i \in 1 .. n : /\ _pFaces[i] \in Face /\ id(i) \in Nat
                               /\ id(i) \in First .. First + Frames - 1
      BY ThreadFacts DEF ShapeInv
    <2>2. \A i, j \in 1 .. n : i < j => id(i) < id(j)
      BY <2>1 DEF ShapeInv, ThreadInv
    <2>3. /\ DOMAIN my_faces = 1 .. Frames
          /\ \A k \in 1 .. Frames : my_faces[k].frame_id = First + k - 1
          /\ \A k \in 1 .. Frames : Detected(k) \/ Added(k)
      BY DEF ShapeInv, CopyInv, FilledInv, Filled
    <2>4. ASSUME NEW i \in 1 .. n, NEW k \in 1 .. Frames, First + k - 1 = id(i)
          PROVE  my_faces[k] = _pFaces[i]
      <3>1. CASE Detected(k)
        <4>1. PICK j \in 1 .. n : my_faces[k] = _pFaces[j]
          BY <2>1, <3>1 DEF Detected
        <4>2. id(j) = id(i)
          BY <2>3, <2>4, <4>1
        <4>3. i = j
          BY <2>1, <2>2, <4>2
        <4> QED BY <4>1, <4>3
      <3>2. CASE Added(k)
        <4>1. PICK j \in 1 .. n - 1 : id(j) < id(i) /\ id(i) < id(j + 1)
          BY <2>4, <3>2 DEF Added
        <4>2. j + 1 \in 1 .. n /\ j \in 1 .. n
          BY <2>1
        <4>3. i > j /\ i < j + 1
          BY <2>1, <2>2, <4>1, <4>2
        <4> QED BY <2>1, <4>3
      <3> QED BY <2>3, <3>1, <3>2
    <2>5. ASSUME NEW i \in 1 .. n
          PROVE  \E k \in 1 .. Frames : my_faces[k] = _pFaces[i]
      <3>1. id(i) - First + 1 \in 1 .. Frames /\ First + (id(i) - First + 1) - 1 = id(i)
        BY <2>1
      <3> QED BY <2>4, <3>1
    <2>6. ASSUME NEW i \in 1 .. n - 1, NEW k \in 1 .. Frames,
                 my_faces[k].frame_id \in id(i) .. id(i + 1), NEW m \in Members
          PROVE  my_faces[k][m] \in (_pFaces[i][m] .. _pFaces[i + 1][m])
                                     \cup (_pFaces[i + 1][m] .. _pFaces[i][m])
      <3> DEFINE p == _pFaces[i]
                 q == _pFaces[i + 1]
      <3>1. /\ i \in 1 .. n /\ i + 1 \in 1 .. n
            /\ p \in Face /\ q \in Face /\ id(i) < id(i + 1)
        BY <2>1, <2>2
      <3>2. p[m] \in Nat /\ q[m] \in Nat
        BY <3>1 DEF Face, Members
      <3>3. id(i) <= First + k - 1 /\ First + k - 1 <= id(i + 1)
        BY <2>1, <2>3, <2>6, <3>1
      <3>4. CASE First + k - 1 = id(i)
        BY <2>4, <3>1, <3>2, <3>4
      <3>5. CASE First + k - 1 = id(i + 1)
        BY <2>4, <3>1, <3>2, <3>5
      <3>6. CASE id(i) < First + k - 1 /\ First + k - 1 < id(i + 1)
        <4>1. ~ Detected(k)
          <5> SUFFICES ASSUME Detected(k) PROVE FALSE
            OBVIOUS
          <5>1. PICK j \in 1 .. n : my_faces[k] = _pFaces[j]
            BY <2>1 DEF Detected
          <5>2. id(i) < id(j) /\ id(j) < id(i + 1)
            BY <2>3, <3>6, <5>1
          <5> QED BY <2>1, <5>2, NoneInside DEF ShapeInv
        <4>2. PICK j \in 1 .. n - 1 :
                /\ id(j) < First + k - 1 /\ First + k - 1 < id(j + 1)
                /\ my_faces[k] = Between(_pFaces[j], _pFaces[j + 1], First + k - 1 - id(j))
          BY <2>3, <4>1 DEF Added
        <4>3. j = i
          <5>1. j \in 1 .. n /\ j + 1 \in 1 .. n
            BY <2>1
          <5>2. id(i) < id(j + 1) /\ id(j) < id(i + 1)
            <6>1. /\ id(i) \in Nat /\ id(i + 1) \in Nat /\ id(j) \in Nat /\ id(j + 1) \in Nat
                  /\ First + k - 1 \in Int
              BY <2>1, <3>1, <5>1
            <6>2. /\ id(i) < First + k - 1 /\ First + k - 1 < id(i + 1)
                  /\ id(j) < First + k - 1 /\ First + k - 1 < id(j + 1)
              BY <3>6, <4>2
            <6> HIDE DEF id
            <6> QED BY <6>1, <6>2
          <5> QED BY <5>2, SameGap DEF ShapeInv
        <4> DEFINE d == First + k - 1 - id(i)
        <4>4. d \in Nat /\ id(i) + d <= id(i + 1)
          <5> DEFINE a == id(i)
                     b == id(i + 1)
          <5>1. First \in Nat /\ k \in Nat /\ a \in Nat /\ b \in Nat
            BY <2>1, <3>1
          <5>2. a <= First + k - 1 /\ First + k - 1 <= b /\ d = First + k - 1 - a
            BY <3>3
          <5> HIDE DEF a, b, d
          <5>3. d \in Nat /\ a + d <= b
            BY <5>1, <5>2
          <5> QED BY <5>3 DEF a, b
        <4>5. my_faces[k] = Between(p, q, d)
          BY <4>2, <4>3
        <4> HIDE DEF d
        <4> QED BY <3>1, <4>4, <4>5, BetweenLies
      <3> QED BY <2>1, <3>1, <3>3, <3>4, <3>5, <3>6
    <2> QED BY <2>1, <2>3, <2>5, <2>6 DEF InterpolatedBetween
  <1> QED BY <1>1, ShapeAlways, PTL

-----------------------------------------------------------------------------
(* The range of the detected values *)

DetectedIn(m, lo, hi) == \A i \in DOMAIN _pFaces : _pFaces[i][m] \in lo .. hi
CopyIn(m, lo, hi)     == \A k \in 1 .. Frames : my_faces[k][m] \in lo .. hi

\* Every range that holds the detected values of a member holds all values of it
\* in the copy.
RangeInv ==
  Filled =>
    \A m \in Members : \A lo, hi \in Nat : DetectedIn(m, lo, hi) => CopyIn(m, lo, hi)

LEMMA FillInRange ==
  ASSUME ShapeInv, ShapeInv', stage' = "x", UNCHANGED _pFaces
  PROVE  RangeInv'
  <1>1. /\ _pFaces' = _pFaces /\ Frames' = Frames /\ First' = First
    BY ThreadUnchanged DEF ShapeInv
  <1>2. \A k \in 1 .. Frames : Detected(k)' \/ Added(k)'
    BY <1>1 DEF ShapeInv, FilledInv
  <1>3. SUFFICES ASSUME NEW m \in Members, NEW lo \in Nat, NEW hi \in Nat,
                        DetectedIn(m, lo, hi), NEW k \in 1 .. Frames
                 PROVE  my_faces'[k][m] \in lo .. hi
    BY <1>1 DEF RangeInv, DetectedIn, CopyIn
  <1> DEFINE n == Len(_pFaces)
             id(i) == _pFaces[i].frame_id
  <1>4. /\ n \in Nat /\ DOMAIN _pFaces = 1 .. n /\ First \in Nat
        /\ \A i \in 1 .. n : _pFaces[i] \in Face /\ id(i) \in Nat
    BY ThreadFacts DEF ShapeInv
  <1>5. CASE Detected(k)'
    BY <1>1, <1>3, <1>5 DEF Detected, DetectedIn
  <1>6. CASE Added(k)'
    <2>1. PICK i \in 1 .. n - 1 :
            /\ id(i) < First + k - 1 /\ First + k - 1 < id(i + 1)
            /\ my_faces'[k] = Between(_pFaces[i], _pFaces[i + 1], First + k - 1 - id(i))
      BY <1>1, <1>6 DEF Added
    <2> DEFINE p == _pFaces[i]
               q == _pFaces[i + 1]
               d == First + k - 1 - id(i)
    <2>2. i \in 1 .. n /\ i + 1 \in 1 .. n /\ p \in Face /\ q \in Face
      BY <1>4
    <2>3. d \in Nat /\ p.frame_id < q.frame_id /\ p.frame_id + d <= q.frame_id
      <3>1. /\ id(i) \in Nat /\ id(i + 1) \in Nat /\ k \in Nat
            /\ id(i) <= First + k - 1 /\ First + k - 1 <= id(i + 1) /\ id(i) < id(i + 1)
        BY <1>4, <2>1, <2>2
      <3> QED BY <1>4, <3>1, InGap
    <2>4. p[m] \in lo .. hi /\ q[m] \in lo .. hi
      BY <1>3, <1>4, <2>2 DEF DetectedIn
    <2>5. my_faces'[k] = Between(p, q, d)
      BY <2>1
    <2> HIDE DEF p, q, d
    <2>6. my_faces'[k][m] \in (p[m] .. q[m]) \cup (q[m] .. p[m])
      BY <2>2, <2>3, <2>5, BetweenLies
    <2> QED BY <2>4, <2>6
  <1> QED BY <1>2, <1>5, <1>6

LEMMA SmoothInRange ==
  ASSUME ShapeInv, RangeInv, Filled, UNCHANGED _pFaces,
         stage' \in {"y", "width", "height", "done"},
         NEW m \in Members, NEW leny \in {3, 7}, Smooth(m, leny)
  PROVE  RangeInv'
  <1>1. Frames' = Frames /\ Frames \in Nat
    BY ThreadUnchanged, ThreadFacts DEF ShapeInv
  <1>2. SUFFICES ASSUME NEW o \in Members, NEW lo \in Nat, NEW hi \in Nat,
                        DetectedIn(o, lo, hi), NEW k \in 1 .. Frames
                 PROVE  my_faces'[k][o] \in lo .. hi
    BY <1>1 DEF RangeInv, DetectedIn, CopyIn
  <1> DEFINE X == [j \in 1 .. Frames |-> my_faces[j][m]]
  <1>3. /\ X \in [1 .. Frames -> Nat]
        /\ my_faces'[k][m] = Averages(m, leny)[k]
        /\ o # m => my_faces'[k][o] = my_faces[k][o]
    BY SmoothReplaces DEF ShapeInv
  <1>4. \A j \in 1 .. Frames : my_faces[j][o] \in lo .. hi
    BY <1>2 DEF RangeInv, CopyIn
  <1>5. CASE o # m
    BY <1>3, <1>4, <1>5
  <1>6. CASE o = m
    <2>1. \A j \in 1 .. Frames : X[j] \in lo .. hi
      BY <1>4, <1>6
    <2>2. Averages(m, leny)[k] = Convolution(X, SIZE_FILT, leny, k)
      BY DEF Averages
    <2> HIDE DEF X
    <2>3. Convolution(X, SIZE_FILT, leny, k) \in lo .. hi
      BY <1>1, <1>3, <2>1, AverageInRange
    <2> QED BY <1>3, <1>6, <2>2, <2>3
  <1> QED BY <1>5, <1>6

\* No smoothed value leaves the range of the detected ones, at the ends of the
\* list too, where the window is cut (smoothFaceSeries, LinearConvolutionSame).
THEOREM AveragesInRange == Spec => []SmoothedInRange
  <1>1. Init => RangeInv
    BY DEF Init, RangeInv, Filled
  <1>2. ShapeInv /\ RangeInv /\ [Next]_vars => RangeInv'
    <2> SUFFICES ASSUME ShapeInv, RangeInv, [Next]_vars PROVE RangeInv'
      OBVIOUS
    <2>1. CASE FillStart \/ InsertFace \/ NextPair \/ FillEnd
      <3>1. UNCHANGED _pFaces /\ (stage' = "x" \/ ~ Filled')
        BY <2>1 DEF FillStart, InsertFace, NextPair, FillEnd, AtPair, Filled
      <3>2. ShapeInv'
        BY ShapeKept
      <3> QED BY <3>1, <3>2, FillInRange DEF RangeInv
    <2>2. CASE SmoothX
      BY <2>2, SmoothInRange DEF SmoothX, Members, Filled, SIZE_FILT
    <2>3. CASE SmoothY
      BY <2>3, SmoothInRange DEF SmoothY, Members, Filled, SIZE_FILT
    <2>4. CASE SmoothWidth
      BY <2>4, SmoothInRange DEF SmoothWidth, Members, Filled, SIZE_FILT
    <2>5. CASE SmoothHeight
      BY <2>5, SmoothInRange DEF SmoothHeight, Members, Filled, LOCATION_FILT
    <2>6. CASE UNCHANGED vars
      BY <2>6 DEF vars, RangeInv, DetectedIn, CopyIn, Frames, First, Filled
    <2> QED BY <2>1, <2>2, <2>3, <2>4, <2>5, <2>6 DEF Next, Done
  <1>3. ShapeInv /\ RangeInv => SmoothedInRange
    <2> SUFFICES ASSUME ShapeInv, RangeInv, stage = "done", NEW m \in Members,
                        NEW k \in DOMAIN my_faces
                 PROVE  my_faces[k][m] \in Min({_pFaces[i][m] : i \in DOMAIN _pFaces})
                                           .. Max({_pFaces[i][m] : i \in DOMAIN _pFaces})
      BY DEF SmoothedInRange
    <2> DEFINE D == {_pFaces[i][m] : i \in DOMAIN _pFaces}
    <2>1. /\ 1 \in DOMAIN _pFaces
          /\ \A i \in DOMAIN _pFaces : _pFaces[i] \in Face
      BY ThreadFacts DEF ShapeInv
    <2>2. \A i \in DOMAIN _pFaces : _pFaces[i][m] \in Nat /\ _pFaces[i][m] <= FrameSize
      <3> SUFFICES ASSUME NEW i \in DOMAIN _pFaces
                   PROVE  _pFaces[i][m] \in Nat /\ _pFaces[i][m] <= FrameSize
        OBVIOUS
      <3>1. /\ _pFaces[i].x \in Nat /\ _pFaces[i].y \in Nat
            /\ _pFaces[i].width \in Nat /\ _pFaces[i].height \in Nat
        BY <2>1 DEF Face
      <3>2. /\ _pFaces[i].x + _pFaces[i].width <= FrameSize
            /\ _pFaces[i].y + _pFaces[i].height <= FrameSize
        BY DEF ShapeInv, ThreadInv
      <3>3. /\ _pFaces[i].x <= FrameSize /\ _pFaces[i].y <= FrameSize
            /\ _pFaces[i].width <= FrameSize /\ _pFaces[i].height <= FrameSize
        BY <3>1, <3>2, SmoothingAssumption
      <3> QED BY <3>1, <3>3 DEF Members
    <2>3. D \subseteq Nat /\ \A v \in D : v <= FrameSize
      BY <2>2
    <2>4. D # {} /\ \A i \in DOMAIN _pFaces : _pFaces[i][m] \in D
      BY <2>1
    <2> HIDE DEF D
    <2>5. /\ Min(D) \in Nat /\ Max(D) \in Nat
          /\ \A v \in D : v \in Min(D) .. Max(D)
      BY <2>3, <2>4, SmoothingAssumption, Extremes
    <2>6. DetectedIn(m, Min(D), Max(D))
      BY <2>4, <2>5 DEF DetectedIn
    <2>7. CopyIn(m, Min(D), Max(D))
      BY <2>5, <2>6 DEF RangeInv, Filled
    <2>8. k \in 1 .. Frames
      BY DEF ShapeInv, CopyInv, Filled
    <2> QED BY <2>7, <2>8 DEF CopyIn, D
  <1> QED BY <1>1, <1>2, <1>3, ShapeAlways, PTL DEF Spec

-----------------------------------------------------------------------------
(* The right edge *)

\* Step i of q from a to b, and whether its rounding is a tie.
Step(a, b, i, q) == a + my_round(i * (b - a), q)
Tie(a, b, i, q)  == 2 * ((i * (b - a)) % q) = q

\* Two members interpolated together keep their sum, but for the rounding: both
\* must be ties to gain one.
LEMMA SumBetween ==
  ASSUME NEW a \in Nat, NEW b \in Nat, NEW c \in Nat, NEW d \in Nat, NEW F \in Nat,
         a + c <= F, b + d <= F,
         NEW q \in Nat, q > 0, NEW i \in Nat, i <= q
  PROVE  /\ Step(a, b, i, q) + Step(c, d, i, q) <= F + 1
         /\ Step(a, b, i, q) + Step(c, d, i, q) = F + 1 => Tie(a, b, i, q)
  <1> DEFINE u == i * (b - a)
             v == i * (d - c)
             R == my_round(u, q)
             S == my_round(v, q)
             s == (a + R) + (c + S)
  <1>1. u \in Int /\ v \in Int
    OBVIOUS
  <1>2. (q * (a + c) + u) + v <= q * F
    <2>1. (q - i) * (a + c) <= (q - i) * F
      OBVIOUS
    <2>2. i * (b + d) <= i * F
      OBVIOUS
    <2>3. (q * (a + c) + u) + v = (q - i) * (a + c) + i * (b + d)
      OBVIOUS
    <2>4. q * F = (q - i) * F + i * F
      OBVIOUS
    <2> DEFINE g == (q - i) * (a + c)
               h == (q - i) * F
               e == i * (b + d)
               f == i * F
    <2>5. g \in Int /\ h \in Int /\ e \in Int /\ f \in Int
      OBVIOUS
    <2> HIDE DEF g, h, e, f, u, v
    <2>6. g + e <= h + f
      BY <2>1, <2>2, <2>5 DEF g, h, e, f
    <2> QED BY <2>3, <2>4, <2>6 DEF g, h, e, f
  <1> DEFINE tie == 2 * (u % q) = q
  <1> HIDE DEF u, v
  <1>3. /\ R \in Int /\ 2 * (q * R) <= 2 * u + q
        /\ 2 * (q * R) = 2 * u + q => tie
    BY <1>1, RoundedUp
  <1>4. S \in Int /\ 2 * (q * S) <= 2 * v + q
    BY <1>1, RoundedUp
  <1> HIDE DEF R, S, tie
  <1>5. s \in Int /\ q * s = (q * (a + c) + q * R) + q * S
    BY <1>3, <1>4
  <1>6. /\ q * R \in Int /\ q * S \in Int /\ q * s \in Int
        /\ q * F \in Int /\ q * (a + c) \in Int
    BY <1>3, <1>4, <1>5
  <1>7. 2 * (q * s) <= 2 * (q * F) + 2 * q
    BY <1>1, <1>2, <1>3, <1>4, <1>5, <1>6
  <1>8. q * (F + 1) = q * F + q
    OBVIOUS
  <1>9. s <= F + 1
    <2>1. q * s < q * (F + 1) + q
      BY <1>6, <1>7, <1>8
    <2> HIDE DEF s
    <2> QED BY <1>5, <2>1, Cancel
  <1>10. ASSUME s = F + 1 PROVE tie
    <2>1. q * s = q * F + q
      BY <1>8, <1>10
    <2>2. 2 * (q * R) = 2 * u + q
      BY <1>1, <1>2, <1>3, <1>4, <1>5, <1>6, <2>1
    <2> QED BY <1>3, <2>2
  <1>11. s = Step(a, b, i, q) + Step(c, d, i, q) /\ (tie <=> Tie(a, b, i, q))
    BY Zenon DEF Step, Tie, tie, R, S, u, v
  <1> HIDE DEF s
  <1> QED BY <1>9, <1>10, <1>11

\* Two steps in a row cannot both be ties.
LEMMA NoTwoTies ==
  ASSUME NEW a \in Nat, NEW b \in Nat, NEW q \in Nat, q > 0, NEW i \in Nat,
         Tie(a, b, i, q), Tie(a, b, i + 1, q)
  PROVE  FALSE
  <1> DEFINE e == b - a
  <1>1. e \in Int /\ 2 * ((i * e) % q) = q /\ 2 * (((i + 1) * e) % q) = q
    BY DEF Tie
  <1> HIDE DEF e
  <1> DEFINE u == i * e
             w == (i + 1) * e
             D == u \div q
             G == w \div q
             r == u % q
  <1>2. u \in Int /\ w \in Int /\ w = u + e
    BY <1>1
  <1>3. D \in Int /\ r \in Int /\ u = q * D + r
    BY <1>2, Division
  <1>4. G \in Int /\ w % q \in Int /\ w = q * G + (w % q)
    BY <1>2, Division
  <1>5. w % q = r
    BY <1>1, <1>3, <1>4
  <1> HIDE DEF D, G
  <1>6. 2 * r = q
    BY <1>1
  <1> HIDE DEF r
  <1>7. e = q * G - q * D
    BY <1>1, <1>2, <1>3, <1>4, <1>5
  <1>8. e = q * (G - D)
    BY <1>1, <1>3, <1>4, <1>7
  <1> DEFINE z == i * (G - D) - D
  <1>9. z \in Int
    BY <1>3, <1>4
  <1>10. r = q * z
    <2>1. i * e = q * (i * (G - D))
      BY <1>1, <1>3, <1>4, <1>8
    <2>2. q * z = q * (i * (G - D)) - q * D
      BY <1>3, <1>4
    <2> QED BY <1>3, <1>4, <2>1, <2>2
  <1> HIDE DEF z
  <1>11. q * (2 * z) = q
    BY <1>6, <1>9, <1>10
  <1>12. 2 * z <= 1 /\ 1 <= 2 * z
    BY <1>9, <1>11, Cancel
  <1> QED BY <1>9, <1>12

Edge(k) == my_faces[k].x + my_faces[k].width

\* Once the list is filled, the right edge passes the frame by one at most, and
\* not in two frames in a row.
LEMMA EdgeFilled ==
  ASSUME ShapeInv, stage = "x", NEW k \in 1 .. Frames
  PROVE  /\ Edge(k) <= FrameSize + 1
         /\ \E j \in 1 .. Frames : j \in k - 1 .. k + 1 /\ Edge(j) <= FrameSize
  <1> DEFINE n == Len(_pFaces)
             id(i) == _pFaces[i].frame_id
             gap(i) == id(i + 1) - id(i)
  <1>1. /\ n \in Nat /\ DOMAIN _pFaces = 1 .. n /\ First \in Nat /\ Frames \in Nat
        /\ \A i \in 1 .. n : /\ _pFaces[i] \in Face /\ id(i) \in Nat
                             /\ id(i) \in First .. First + Frames - 1
    BY ThreadFacts DEF ShapeInv
  <1>2. \A i, j \in 1 .. n : i < j => id(i) < id(j)
    BY <1>1 DEF ShapeInv, ThreadInv
  <1>3. FrameSize \in Nat
    BY SmoothingAssumption
  <1>4. ASSUME NEW j \in 1 .. Frames, Detected(j) PROVE Edge(j) <= FrameSize
    BY <1>4 DEF Detected, Edge, ShapeInv, ThreadInv
  <1>5. ASSUME NEW j \in 1 .. Frames, NEW i \in 1 .. n - 1,
               id(i) < First + j - 1, First + j - 1 < id(i + 1),
               my_faces[j] = Between(_pFaces[i], _pFaces[i + 1], First + j - 1 - id(i))
        PROVE  /\ Edge(j) <= FrameSize + 1
               /\ Edge(j) = FrameSize + 1 =>
                    Tie(_pFaces[i].x, _pFaces[i + 1].x, First + j - 1 - id(i), gap(i))
    <2> DEFINE p == _pFaces[i]
               q == _pFaces[i + 1]
               t == First + j - 1 - id(i)
               g == gap(i)
    <2>1. i \in 1 .. n /\ i + 1 \in 1 .. n /\ p \in Face /\ q \in Face
      BY <1>1
    <2>2. t \in Nat /\ g \in Nat /\ g > 0 /\ t <= g
      <3> DEFINE a == id(i)
                 b == id(i + 1)
                 f == First + j - 1
      <3>1. a \in Nat /\ b \in Nat /\ f \in Int
        BY <1>1, <2>1
      <3>2. a < f /\ f < b
        BY <1>5
      <3>3. t = f - a /\ g = b - a
        BY <1>1, <3>1
      <3> HIDE DEF a, b, f, t, g
      <3> QED BY <3>1, <3>2, <3>3
    <2>3. /\ p.x \in Nat /\ q.x \in Nat /\ p.width \in Nat /\ q.width \in Nat
          /\ p.x + p.width <= FrameSize /\ q.x + q.width <= FrameSize
      BY <1>1, <2>1 DEF Face, ShapeInv, ThreadInv
    <2>4. /\ my_faces[j].x = Step(p.x, q.x, t, g)
          /\ my_faces[j].width = Step(p.width, q.width, t, g)
      BY <1>5 DEF Between, Step
    <2> HIDE DEF p, q, t, g
    <2>5. /\ Step(p.x, q.x, t, g) + Step(p.width, q.width, t, g) <= FrameSize + 1
          /\ Step(p.x, q.x, t, g) + Step(p.width, q.width, t, g) = FrameSize + 1
               => Tie(p.x, q.x, t, g)
      BY <1>3, <2>2, <2>3, SumBetween
    <2>6. Edge(j) = Step(p.x, q.x, t, g) + Step(p.width, q.width, t, g)
      BY <2>4 DEF Edge
    <2>7. Edge(j) <= FrameSize + 1 /\ (Edge(j) = FrameSize + 1 => Tie(p.x, q.x, t, g))
      BY <2>5, <2>6, Zenon
    <2> QED BY <2>7 DEF p, q, t, g
  <1>6. \A j \in 1 .. Frames : Detected(j) \/ Added(j)
    BY DEF ShapeInv, FilledInv
  <1>7. \A j \in 1 .. Frames : Edge(j) \in Nat
    BY DEF ShapeInv, CopyInv, Edge, Face, Filled
  <1>8. CASE Detected(k)
    <2>1. Edge(k) <= FrameSize /\ k \in k - 1 .. k + 1
      BY <1>1, <1>4, <1>8
    <2> QED BY <1>3, <1>7, <2>1
  <1>9. CASE Added(k)
    <2>1. PICK i \in 1 .. n - 1 :
            /\ id(i) < First + k - 1 /\ First + k - 1 < id(i + 1)
            /\ my_faces[k] = Between(_pFaces[i], _pFaces[i + 1], First + k - 1 - id(i))
      BY <1>9 DEF Added
    <2>2. i \in 1 .. n /\ i + 1 \in 1 .. n
      BY <1>1
    <2>3. Edge(k) <= FrameSize + 1
      BY <1>5, <2>1
    <2>4. k + 1 \in 1 .. Frames /\ k + 1 \in k - 1 .. k + 1 /\ k \in k - 1 .. k + 1
      <3>1. id(i + 1) \in Nat /\ id(i + 1) <= First + Frames - 1
        BY <1>1, <2>2
      <3>2. First + k - 1 < id(i + 1)
        BY <2>1
      <3> HIDE DEF id
      <3> QED BY <1>1, <3>1, <3>2
    <2>5. CASE Edge(k) <= FrameSize
      BY <2>3, <2>4, <2>5
    <2>6. CASE Edge(k + 1) <= FrameSize
      BY <2>3, <2>4, <2>6
    <2>7. ASSUME Edge(k) > FrameSize, Edge(k + 1) > FrameSize PROVE FALSE
      <3>1. Edge(k) = FrameSize + 1
        BY <1>3, <1>7, <2>3, <2>7
      <3>2. ~ Detected(k + 1)
        BY <1>3, <1>4, <1>7, <2>4, <2>7
      <3>3. PICK h \in 1 .. n - 1 :
              /\ id(h) < First + (k + 1) - 1 /\ First + (k + 1) - 1 < id(h + 1)
              /\ my_faces[k + 1] = Between(_pFaces[h], _pFaces[h + 1],
                                           First + (k + 1) - 1 - id(h))
        BY <1>6, <2>4, <3>2 DEF Added
      <3>4. h \in 1 .. n /\ h + 1 \in 1 .. n
        BY <1>1
      <3>5. Edge(k + 1) = FrameSize + 1
        <4>1. Edge(k + 1) <= FrameSize + 1
          BY <1>5, <2>4, <3>3
        <4> QED BY <1>3, <1>7, <2>4, <2>7, <4>1
      <3>6. h = i
        <4>1. /\ id(i) \in Nat /\ id(i + 1) \in Nat /\ id(h) \in Nat /\ id(h + 1) \in Nat
          BY <1>1, <2>2, <3>4
        <4>2. id(i) < id(h + 1) /\ id(h) < id(i + 1)
          <5>1. /\ id(i) < First + k - 1 /\ First + k - 1 < id(i + 1)
                /\ id(h) < First + (k + 1) - 1 /\ First + (k + 1) - 1 < id(h + 1)
            BY <2>1, <3>3
          <5> HIDE DEF id
          <5> QED BY <1>1, <4>1, <5>1
        <4> QED BY <4>2, SameGap DEF ShapeInv
      <3> DEFINE u == _pFaces[i].x
                 v == _pFaces[i + 1].x
                 t == First + k - 1 - id(i)
                 g == gap(i)
      <3>7. Tie(u, v, t, g)
        BY <1>5, <2>1, <3>1
      <3>8. Tie(u, v, First + (k + 1) - 1 - id(i), g)
        BY <1>5, <2>4, <3>3, <3>5, <3>6
      <3>9. First + (k + 1) - 1 - id(i) = t + 1
        BY <1>1, <2>2
      <3>10. t \in Nat /\ g \in Nat /\ g > 0
        <4> DEFINE a == id(i)
                   b == id(i + 1)
                   f == First + k - 1
        <4>1. a \in Nat /\ b \in Nat /\ f \in Int
          BY <1>1, <2>2
        <4>2. a < f /\ f < b
          BY <2>1
        <4>3. t = f - a /\ g = b - a
          BY <1>1, <4>1
        <4> HIDE DEF a, b, f, t, g
        <4> QED BY <4>1, <4>2, <4>3
      <3>11. u \in Nat /\ v \in Nat
        <4>1. _pFaces[i] \in Face /\ _pFaces[i + 1] \in Face
          BY <1>1, <2>2
        <4> QED BY <4>1 DEF Face
      <3> HIDE DEF u, v, t, g
      <3>12. Tie(u, v, t + 1, g)
        BY <3>8, <3>9
      <3> QED BY <3>7, <3>10, <3>11, <3>12, NoTwoTies
    <2> QED BY <1>3, <1>7, <2>4, <2>5, <2>6, <2>7
  <1> QED BY <1>6, <1>8, <1>9

\* Where the sum of two sequences passes F by one at most, and does not near k,
\* the sum over the window at k stays below the one of a window of F + 1.
LEMMA WindowSum ==
  ASSUME NEW n \in Nat, NEW X \in [1 .. n -> Nat], NEW W \in [1 .. n -> Nat],
         NEW F \in Nat, NEW k \in 1 .. n,
         \A j \in 1 .. n : X[j] + W[j] <= F + 1,
         NEW j0 \in 1 .. n, j0 \in k - 1 .. k + 1, X[j0] + W[j0] <= F
  PROVE  Total(Entries(X, n, 7, k)) + Total(Entries(W, n, 7, k)) + 1
           <= Total(Taps(n, 7, k)) * (F + 1)
  <1> DEFINE A == Entries(X, n, 7, k)
             B == Entries(W, n, 7, k)
             T == Taps(n, 7, k)
             d0 == k + 4 - j0
             one == [d \in 1 .. 7 |-> IF d = d0 THEN 1 ELSE 0]
             AB == [d \in 1 .. 7 |-> A[d] + B[d]]
             S == [d \in 1 .. 7 |-> AB[d] + one[d]]
             H == [d \in 1 .. 7 |-> (F + 1) * T[d]]
  <1>1. A \in [1 .. 7 -> Nat] /\ B \in [1 .. 7 -> Nat] /\ T \in [1 .. 7 -> Nat]
    BY ConvolutionIs
  <1>2. d0 \in 3 .. 5
    OBVIOUS
  <1>3. ASSUME NEW d \in 1 .. 7
        PROVE  A[d] + B[d] + (IF d = d0 THEN 1 ELSE 0) <= (F + 1) * T[d]
    <2> DEFINE j == k + 3 - d + 1
    <2>1. Inside(n, 7, k, d) <=> j \in 1 .. n
      BY DEF Inside
    <2>2. CASE j \in 1 .. n
      <3>1. A[d] = X[j] /\ B[d] = W[j] /\ T[d] = 1
        BY <2>1, <2>2 DEF Entries, Taps
      <3>2. X[j] \in Nat /\ W[j] \in Nat /\ X[j] + W[j] <= F + 1
        BY <2>2
      <3>3. d = d0 => j = j0
        OBVIOUS
      <3>4. d = d0 => X[j] + W[j] <= F
        BY <3>3
      <3> HIDE DEF A, B, T, d0, j
      <3>5. (F + 1) * T[d] = F + 1
        BY <3>1
      <3>6. A[d] + B[d] + (IF d = d0 THEN 1 ELSE 0) <= F + 1
        BY <3>1, <3>2, <3>4
      <3> QED BY <3>5, <3>6
    <2>3. CASE j \notin 1 .. n
      <3>1. A[d] = 0 /\ B[d] = 0 /\ T[d] = 0
        BY <2>1, <2>3 DEF Entries, Taps
      <3>2. d # d0
        BY <2>3
      <3> HIDE DEF A, B, T, d0
      <3> QED BY <3>1, <3>2
    <2> QED BY <2>2, <2>3
  <1> HIDE DEF A, B, T, d0
  <1>4. one \in [1 .. 7 -> Nat] /\ Total(one) = 1
    BY <1>2 DEF Total
  <1>5. \A d \in 1 .. 7 : A[d] + B[d] + one[d] <= (F + 1) * T[d]
    BY <1>3
  <1> HIDE DEF one
  <1>6. AB \in [1 .. 7 -> Nat] /\ Total(AB) = Total(A) + Total(B)
    BY <1>1, TotalSum, Zenon
  <1>7. \A d \in 1 .. 7 : AB[d] = A[d] + B[d]
    OBVIOUS
  <1> HIDE DEF AB
  <1>8. S \in [1 .. 7 -> Nat] /\ Total(S) = Total(AB) + Total(one)
    BY <1>4, <1>6, TotalSum, Zenon
  <1>9. \A d \in 1 .. 7 : S[d] = AB[d] + one[d]
    OBVIOUS
  <1>10. H \in [1 .. 7 -> Int]
    <2>1. \A d \in 1 .. 7 : T[d] \in Nat
      BY <1>1
    <2>2. \A a, b \in Nat : a * b \in Int
      OBVIOUS
    <2>3. F + 1 \in Nat
      OBVIOUS
    <2>4. \A d \in 1 .. 7 : (F + 1) * T[d] \in Int
      BY <2>1, <2>2, <2>3, Zenon
    <2> QED BY <2>4
  <1>11. \A d \in 1 .. 7 : S[d] <= H[d]
    BY <1>5, <1>7, <1>9
  <1>12. Total(S) = Total(A) + Total(B) + 1
    BY <1>4, <1>6, <1>8
  <1>13. Total(H) = Total(T) * (F + 1)
    <2>1. F + 1 \in Int /\ T \in [1 .. 7 -> Int]
      BY <1>1
    <2> QED BY <2>1, TotalScaled, Zenon
  <1> HIDE DEF S, H
  <1>14. Total(S) <= Total(H)
    <2>1. S \in [1 .. 7 -> Int]
      BY <1>8
    <2> QED BY <1>10, <1>11, <2>1, TotalAtMost
  <1> QED BY <1>12, <1>13, <1>14 DEF A, B, T

Lefts  == [k \in 1 .. Frames |-> my_faces[k].x]
Widths == [k \in 1 .. Frames |-> my_faces[k].width]
Weight(k) == Total(Taps(Frames, 7, k))
WidthSum(k) == Total(Entries(Widths, Frames, 7, k))

\* Between the smoothing of x and that of width, x is compared with the widths
\* that its window will have.
EdgeInv ==
  /\ stage \in {"y", "width"} =>
       \A k \in 1 .. Frames :
         2 * (Weight(k) * my_faces[k].x) + 2 * WidthSum(k) + 2
           <= Weight(k) * (2 * FrameSize + 3)
  /\ stage \in {"height", "done"} =>
       \A k \in 1 .. Frames : Edge(k) <= FrameSize + 1

LEMMA CopyTypes ==
  ASSUME ShapeInv, Filled
  PROVE  /\ Frames \in Nat
         /\ Lefts \in [1 .. Frames -> Nat] /\ Widths \in [1 .. Frames -> Nat]
         /\ \A k \in 1 .. Frames : /\ my_faces[k].x \in Nat /\ my_faces[k].width \in Nat
                                   /\ Weight(k) \in Nat /\ Weight(k) > 0
                                   /\ WidthSum(k) \in Nat
  <1>1. Frames \in Nat /\ \A k \in 1 .. Frames : my_faces[k] \in Face
    BY ThreadFacts DEF ShapeInv, CopyInv
  <1>2. \A k \in 1 .. Frames : my_faces[k].x \in Nat /\ my_faces[k].width \in Nat
    BY <1>1 DEF Face
  <1>3. Lefts \in [1 .. Frames -> Nat] /\ Widths \in [1 .. Frames -> Nat]
    BY <1>2 DEF Lefts, Widths
  <1>4. ASSUME NEW k \in 1 .. Frames
        PROVE  Weight(k) \in Nat /\ Weight(k) > 0 /\ WidthSum(k) \in Nat
    <2>1. /\ Entries(Widths, Frames, 7, k) \in [1 .. 7 -> Nat]
          /\ Weight(k) \in Nat /\ Weight(k) > 0
      BY <1>1, <1>3, ConvolutionIs DEF Weight
    <2> QED BY <2>1, TotalIsNat DEF WidthSum
  <1> QED BY <1>1, <1>2, <1>3, <1>4

LEMMA SmoothXEdge ==
  ASSUME ShapeInv, SmoothX
  PROVE  EdgeInv'
  <1>1. stage = "x" /\ stage' = "y" /\ _pFaces' = _pFaces /\ Smooth("x", 7)
    BY DEF SmoothX, SIZE_FILT
  <1>2. /\ Frames \in Nat /\ Frames' = Frames
        /\ Lefts \in [1 .. Frames -> Nat] /\ Widths \in [1 .. Frames -> Nat]
    BY <1>1, ThreadUnchanged, CopyTypes DEF ShapeInv, Filled
  <1>3. \A k \in 1 .. Frames : /\ my_faces'[k].x = Averages("x", 7)[k]
                               /\ my_faces'[k].width = my_faces[k].width
    BY <1>1, SmoothReplaces DEF ShapeInv, Members, Filled
  <1>4. Widths' = Widths
    BY <1>2, <1>3 DEF Widths
  <1>5. \A k \in 1 .. Frames : Weight(k)' = Weight(k) /\ WidthSum(k)' = WidthSum(k)
    BY <1>2, <1>4 DEF Weight, WidthSum
  <1>6. ASSUME NEW k \in 1 .. Frames
        PROVE  2 * (Weight(k) * my_faces'[k].x) + 2 * WidthSum(k) + 2
                 <= Weight(k) * (2 * FrameSize + 3)
    <2> DEFINE N == Weight(k)
               P == Total(Entries(Lefts, Frames, 7, k))
               Q == WidthSum(k)
               z == my_faces'[k].x
    <2>1. N \in Nat /\ N > 0 /\ Q \in Nat /\ FrameSize \in Nat
      BY <1>1, CopyTypes, SmoothingAssumption DEF Filled
    <2>2. P \in Nat
      BY <1>2, ConvolutionIs, TotalIsNat
    <2>3. z = my_round(P, N)
      <3>1. Averages("x", 7)[k] = Convolution(Lefts, SIZE_FILT, 7, k)
        BY DEF Averages, Lefts
      <3> QED BY <1>2, <1>3, <3>1, ConvolutionIs DEF Weight
    <2>4. P + Q + 1 <= N * (FrameSize + 1)
      <3>1. \A j \in 1 .. Frames : Lefts[j] + Widths[j] <= FrameSize + 1
        BY <1>1, EdgeFilled DEF Edge, Lefts, Widths
      <3>2. PICK j0 \in 1 .. Frames : j0 \in k - 1 .. k + 1 /\ Edge(j0) <= FrameSize
        BY <1>1, EdgeFilled
      <3>3. Lefts[j0] + Widths[j0] <= FrameSize
        BY <3>2 DEF Edge, Lefts, Widths
      <3> QED BY <1>2, <2>1, <3>1, <3>2, <3>3, WindowSum DEF Weight, WidthSum
    <2> HIDE DEF N, P, Q, z
    <2>5. z \in Int /\ 2 * (N * z) <= 2 * P + N
      BY <2>1, <2>2, <2>3, RoundedUp
    <2>6. N * (2 * FrameSize + 3) = 2 * (N * (FrameSize + 1)) + N
      BY <2>1
    <2>7. N * z \in Int /\ N * (FrameSize + 1) \in Int
      BY <2>1, <2>5
    <2>8. 2 * (N * z) + 2 * Q + 2 <= N * (2 * FrameSize + 3)
      BY <2>1, <2>2, <2>4, <2>5, <2>6, <2>7
    <2> QED BY <2>8 DEF N, Q, z
  <1> QED BY <1>1, <1>2, <1>5, <1>6 DEF EdgeInv

LEMMA SmoothWidthEdge ==
  ASSUME ShapeInv, EdgeInv, SmoothWidth
  PROVE  EdgeInv'
  <1>1. stage = "width" /\ stage' = "height" /\ _pFaces' = _pFaces /\ Smooth("width", 7)
    BY DEF SmoothWidth, SIZE_FILT
  <1>2. /\ Frames \in Nat /\ Frames' = Frames
        /\ Lefts \in [1 .. Frames -> Nat] /\ Widths \in [1 .. Frames -> Nat]
    BY <1>1, ThreadUnchanged, CopyTypes DEF ShapeInv, Filled
  <1>3. \A k \in 1 .. Frames : /\ my_faces'[k].width = Averages("width", 7)[k]
                               /\ my_faces'[k].x = my_faces[k].x
    BY <1>1, SmoothReplaces DEF ShapeInv, Members, Filled
  <1>4. ASSUME NEW k \in 1 .. Frames
        PROVE  my_faces'[k].x + my_faces'[k].width <= FrameSize + 1
    <2> DEFINE N == Weight(k)
               Q == WidthSum(k)
               x == my_faces[k].x
               z == my_faces'[k].width
    <2>1. N \in Nat /\ N > 0 /\ Q \in Nat /\ FrameSize \in Nat /\ x \in Nat
      BY <1>1, CopyTypes, SmoothingAssumption DEF Filled
    <2>2. z = my_round(Q, N)
      <3>1. Averages("width", 7)[k] = Convolution(Widths, SIZE_FILT, 7, k)
        BY DEF Averages, Widths
      <3> QED BY <1>2, <1>3, <3>1, ConvolutionIs DEF Weight, WidthSum
    <2>3. 2 * (N * x) + 2 * Q + 2 <= N * (2 * FrameSize + 3)
      BY <1>1 DEF EdgeInv
    <2> HIDE DEF N, Q, x, z
    <2>4. z \in Int /\ 2 * (N * z) <= 2 * Q + N
      BY <2>1, <2>2, RoundedUp
    <2>5. /\ N * (2 * FrameSize + 3) + N = 2 * (N * (FrameSize + 1)) + 2 * N
          /\ N * (x + z) = N * x + N * z
      BY <2>1, <2>4
    <2>6. N * z \in Int /\ N * x \in Int /\ N * (x + z) \in Int
          /\ N * (FrameSize + 1) \in Int /\ N * (2 * FrameSize + 3) \in Int
      BY <2>1, <2>4
    <2>7. N * (x + z) < N * (FrameSize + 1) + N
      BY <2>1, <2>3, <2>4, <2>5, <2>6
    <2>8. x + z <= FrameSize + 1
      BY <2>1, <2>4, <2>7, Cancel
    <2> QED BY <1>3, <2>8 DEF x, z
  <1> QED BY <1>1, <1>2, <1>4 DEF EdgeInv, Edge

LEMMA OtherMembersEdge ==
  ASSUME ShapeInv, EdgeInv, SmoothY \/ SmoothHeight
  PROVE  EdgeInv'
  <1>1. /\ _pFaces' = _pFaces
        /\ \/ stage = "y" /\ stage' = "width" /\ Smooth("y", 7)
           \/ stage = "height" /\ stage' = "done" /\ Smooth("height", 3)
    BY DEF SmoothY, SmoothHeight, SIZE_FILT, LOCATION_FILT
  <1>2. Frames \in Nat /\ Frames' = Frames
    BY <1>1, ThreadUnchanged, ThreadFacts DEF ShapeInv
  <1>3. \A k \in 1 .. Frames : /\ my_faces'[k].x = my_faces[k].x
                               /\ my_faces'[k].width = my_faces[k].width
    BY <1>1, SmoothReplaces DEF ShapeInv, Members, Filled
  <1>4. Widths' = Widths
    BY <1>2, <1>3 DEF Widths
  <1>5. \A k \in 1 .. Frames :
          Weight(k)' = Weight(k) /\ WidthSum(k)' = WidthSum(k) /\ Edge(k)' = Edge(k)
    BY <1>2, <1>3, <1>4 DEF Weight, WidthSum, Edge
  <1> QED BY <1>1, <1>2, <1>3, <1>5 DEF EdgeInv

\* The right edge of a smoothed rectangle passes the frame by one at most,
\* though x and width were rounded twice each (addMissingFrames,
\* smoothFaceSeries).
THEOREM EdgeWithinOne == Spec => []RightEdgeInFrame
  <1>1. Init => EdgeInv
    BY DEF Init, EdgeInv
  <1>2. ShapeInv /\ EdgeInv /\ [Next]_vars => EdgeInv'
    <2> SUFFICES ASSUME ShapeInv, EdgeInv, [Next]_vars PROVE EdgeInv'
      OBVIOUS
    <2>1. CASE FillStart \/ InsertFace \/ NextPair \/ FillEnd
      BY <2>1 DEF FillStart, InsertFace, NextPair, FillEnd, AtPair, EdgeInv
    <2>2. CASE SmoothX
      BY <2>2, SmoothXEdge
    <2>3. CASE SmoothY
      BY <2>3, OtherMembersEdge
    <2>4. CASE SmoothWidth
      BY <2>4, SmoothWidthEdge
    <2>5. CASE SmoothHeight
      BY <2>5, OtherMembersEdge
    <2>6. CASE UNCHANGED vars
      BY <2>6 DEF vars, EdgeInv, Edge, Weight, WidthSum, Widths, Frames, First
    <2> QED BY <2>1, <2>2, <2>3, <2>4, <2>5, <2>6 DEF Next, Done
  <1>3. ShapeInv /\ EdgeInv => RightEdgeInFrame
    BY DEF ShapeInv, CopyInv, EdgeInv, Edge, RightEdgeInFrame, Filled
  <1> QED BY <1>1, <1>2, <1>3, ShapeAlways, PTL DEF Spec

=============================================================================
