------------------------------ MODULE UtilProofs ------------------------------
(***************************************************************************)
(* Numbers to text and back, the search for a bit, the calendar, the two    *)
(* checksums and the functions on strings do what they promise, for words   *)
(* of every even size, bytes of every size and blocks and texts of every    *)
(* length.                                                                  *)
(*                                                                          *)
(* Recursive functions, folds and minima are defined by CHOOSE: each is     *)
(* first shown to exist (Recursion, SetFold, LeastNatural), and then what   *)
(* it computes by induction on its argument.                                *)
(***************************************************************************)
EXTENDS Util, FiniteSetTheorems, WellFoundedInduction, SequenceTheorems, TLAPS

-----------------------------------------------------------------------------
(* A set of numbers has a least one. *)
LEMMA LeastNatural ==
    ASSUME NEW S \in SUBSET Nat, S # {}
    PROVE  \E k \in S : \A j \in S : k <= j
<1> DEFINE R == {p \in Nat \X Nat : p[1] < p[2]}
<1>1. IsWellFoundedOn(R, Nat)
  BY NatLessThanWellFounded DEF OpToRel
<1>2. PICK x \in S : \A y \in S : <<y, x>> \notin R
  BY <1>1, WFMin
<1>3. ASSUME NEW y \in S PROVE x <= y
  <2>1. x \in Nat /\ y \in Nat
    OBVIOUS
  <2>2. ~ (y < x)
    BY <1>2, <2>1
  <2> QED BY <2>1, <2>2
<1> QED BY <1>3

(* A function on S that is b where it stops, on T, and is elsewhere told by *)
(* its value at a place that is nearer to an end.                           *)
Told(f, S, T, b, k, n) == \A x \in S : f[x] = IF x \in T THEN b[x] ELSE k[x][f[n[x]]]

LEMMA Recursion ==
    ASSUME NEW S, NEW V, NEW m \in [S -> Nat], NEW T \in SUBSET S,
           NEW b \in [S -> V], NEW n \in [S -> S], NEW k \in [S -> [V -> V]],
           \A x \in S \ T : m[n[x]] < m[x]
    PROVE  \E f \in [S -> V] : Told(f, S, T, b, k, n)
<1> DEFINE Rhs(g, x) == IF x \in T THEN b[x] ELSE k[x][g[n[x]]]
           To(g, N) == g \in [S -> V] /\ \A x \in S : m[x] < N => g[x] = Rhs(g, x)
           Bad == {N \in Nat : ~\E g : To(g, N)}
<1>1. ASSUME NEW g \in [S -> V], NEW x \in S PROVE Rhs(g, x) \in V
  OBVIOUS
<1>2. ASSUME NEW g, NEW h, NEW N \in Nat, To(g, N), To(h, N)
      PROVE  \A x \in S : m[x] < N => g[x] = h[x]
  <2> DEFINE Apart == {j \in Nat : \E x \in S : m[x] = j /\ j < N /\ g[x] # h[x]}
  <2> SUFFICES ASSUME Apart # {} PROVE FALSE
    OBVIOUS
  <2>1. PICK j \in Apart : \A i \in Apart : j <= i
    BY LeastNatural
  <2>2. PICK x \in S : m[x] = j /\ j < N /\ g[x] # h[x]
    BY <2>1
  <2>3. g[x] = Rhs(g, x) /\ h[x] = Rhs(h, x)
    BY <1>2, <2>2
  <2>4. x \notin T
    BY <2>2, <2>3
  <2>5. n[x] \in S /\ m[n[x]] \in Nat /\ m[n[x]] < j
    BY <2>2, <2>4
  <2>6. g[n[x]] = h[n[x]]
    <3>1. m[n[x]] \notin Apart
      <4> HIDE DEF Apart
      <4> QED BY <2>1, <2>2, <2>5
    <3> QED BY <2>2, <2>5, <3>1
  <2> QED BY <2>2, <2>3, <2>6
<1>3. Bad = {}
  <2> SUFFICES ASSUME Bad # {} PROVE FALSE
    OBVIOUS
  <2>1. PICK N \in Bad : \A j \in Bad : N <= j
    BY LeastNatural
  <2>2. N \in Nat /\ ~\E g : To(g, N)
    OBVIOUS
  <2>3. N # 0
    <3>1. To(b, 0)
      OBVIOUS
    <3> QED BY <2>2, <3>1
  <2>4. N - 1 \in Nat /\ N - 1 \notin Bad
    <3> HIDE DEF Bad
    <3> QED BY <2>1, <2>2, <2>3
  <2>5. PICK f : To(f, N - 1)
    BY <2>4
  <2> DEFINE g == [x \in S |-> IF m[x] < N - 1 THEN f[x] ELSE Rhs(f, x)]
  <2>6. g \in [S -> V]
    BY <1>1, <2>5
  <2>7. ASSUME NEW x \in S, m[x] < N PROVE g[x] = Rhs(g, x)
    <3>1. g[x] = Rhs(f, x)
      BY <2>5
    <3>2. CASE x \in T
      BY <3>1, <3>2
    <3>3. CASE x \notin T
      <4>1. n[x] \in S /\ m[n[x]] < N - 1
        <5>1. n[x] \in S /\ m[n[x]] \in Nat /\ m[x] \in Nat /\ m[n[x]] < m[x]
          BY <3>3
        <5> QED BY <2>2, <2>7, <5>1
      <4>2. g[n[x]] = f[n[x]]
        BY <4>1
      <4> HIDE DEF g
      <4> QED BY <3>1, <4>2
    <3> QED BY <3>2, <3>3
  <2>8. To(g, N)
    <3> HIDE DEF g
    <3> QED BY <2>6, <2>7
  <2> QED BY <2>2, <2>8
<1> DEFINE F(N) == CHOOSE g : To(g, N)
           f == [x \in S |-> F(m[x] + 1)[x]]
<1>4. \A N \in Nat : To(F(N), N)
  <2> SUFFICES ASSUME NEW N \in Nat PROVE To(F(N), N)
    OBVIOUS
  <2>1. \E g : To(g, N)
    BY <1>3
  <2> HIDE DEF To
  <2> QED BY <2>1
<1>5. ASSUME NEW x \in S
      PROVE  m[x] + 1 \in Nat /\ F(m[x] + 1) \in [S -> V] /\ f[x] = F(m[x] + 1)[x]
  <2>1. m[x] + 1 \in Nat
    OBVIOUS
  <2> HIDE DEF F
  <2> QED BY <1>4, <2>1
<1> HIDE DEF F
<1>6. f \in [S -> V]
  <2>1. \A x \in S : F(m[x] + 1)[x] \in V
    BY <1>5
  <2> QED BY <2>1
<1>7. ASSUME NEW x \in S PROVE f[x] = Rhs(f, x)
  <2> DEFINE G == F(m[x] + 1)
  <2>1. f[x] = Rhs(G, x)
    <3>1. To(G, m[x] + 1) /\ m[x] < m[x] + 1
      BY <1>4, <1>5
    <3> QED BY <1>5, <3>1
  <2>2. CASE x \in T
    BY <2>1, <2>2
  <2>3. CASE x \notin T
    <3> DEFINE y == n[x]
               H == F(m[y] + 1)
    <3>1. y \in S /\ m[y] \in Nat /\ m[x] \in Nat /\ m[y] < m[x]
      BY <2>3
    <3>2. To(G, m[y] + 1) /\ To(H, m[y] + 1)
      <4>1. To(G, m[x] + 1) /\ To(H, m[y] + 1)
        BY <1>4, <3>1
      <4>2. \A z \in S : m[z] \in Nat
        OBVIOUS
      <4> HIDE DEF G, H, y
      <4> QED BY <3>1, <4>1, <4>2
    <3>3. G[y] = H[y]
      <4>1. m[y] + 1 \in Nat /\ m[y] < m[y] + 1
        BY <3>1
      <4> HIDE DEF G, H, y, To
      <4> QED BY <1>2, <3>1, <3>2, <4>1
    <3>4. f[y] = H[y]
      BY <1>5, <3>1
    <3> HIDE DEF f, G, H
    <3> QED BY <2>1, <2>3, <3>3, <3>4
  <2> QED BY <2>2, <2>3
<1> HIDE DEF f
<1>8. Told(f, S, T, b, k, n)
  BY <1>7 DEF Told
<1> QED BY <1>6, <1>8

(* Induction up to n: P is the set of numbers of which something holds. *)
LEMMA Induct ==
    ASSUME NEW n \in Nat, NEW P, 0 \in P, \A i \in 0..(n - 1) : i \in P => i + 1 \in P
    PROVE  \A i \in 0..n : i \in P
<1> DEFINE Bad == {i \in Nat : i <= n /\ i \notin P}
<1> SUFFICES ASSUME Bad # {} PROVE FALSE
  OBVIOUS
<1>1. PICK i \in Bad : \A j \in Bad : i <= j
  BY LeastNatural
<1>2. i \in Nat /\ i <= n /\ i \notin P /\ i # 0
  OBVIOUS
<1>3. i - 1 \in Nat /\ i - 1 \notin Bad
  <2> HIDE DEF Bad
  <2> QED BY <1>1, <1>2
<1>4. i - 1 \in P /\ i - 1 \in 0..(n - 1)
  BY <1>2, <1>3
<1> QED BY <1>2, <1>4

(* The last index of a set of them is what FoldLeft takes first. *)
LEMMA MaxChosen ==
    ASSUME NEW n \in Nat, NEW s \in SUBSET (1..n), s # {}
    PROVE  Max(s) \in s /\ \A y \in s : y <= Max(s)
<1> DEFINE S == {n - y : y \in s}
<1>1. S \in SUBSET Nat /\ S # {}
  <2>1. \A y \in s : y \in 1..n /\ n - y \in Nat
    OBVIOUS
  <2> QED BY <2>1
<1>2. PICK k \in S : \A j \in S : k <= j
  BY <1>1, LeastNatural
<1>3. PICK x \in s : k = n - x
  BY <1>2
<1>4. \A y \in s : n - x <= n - y
  BY <1>2, <1>3
<1>5. \A y \in s : x >= y
  BY <1>4
<1>6. \E z \in s : \A y \in s : z >= y
  BY <1>5
<1>7. Max(s) \in s /\ \A y \in s : Max(s) >= y
  BY <1>6 DEF Max
<1> QED BY <1>7

LEMMA MaxIs ==
    ASSUME NEW n \in Nat, NEW i \in 1..n
    PROVE  Max(1..i) = i /\ (1..i) \ {i} = 1..(i - 1)
<1>1. 1..i \in SUBSET (1..n) /\ 1..i # {}
  OBVIOUS
<1>2. Max(1..i) \in 1..i /\ \A y \in 1..i : y <= Max(1..i)
  BY <1>1, MaxChosen
<1>3. Max(1..i) = i
  BY <1>2
<1> QED BY <1>3

(* A function that folds the steps k over the indices, and that there is    *)
(* one.                                                                     *)
Folds(g, n, b, k) == \A s \in SUBSET (1..n) :
    g[s] = IF s = {} THEN b ELSE k[Max(s)][g[s \ {Max(s)}]]

LEMMA SetFold ==
    ASSUME NEW n \in Nat, NEW V, NEW b \in V, NEW k \in [1..n -> [V -> V]]
    PROVE  \E g \in [SUBSET (1..n) -> V] : Folds(g, n, b, k)
<1> DEFINE S == SUBSET (1..n)
           m == [s \in S |-> Cardinality(s)]
           T == {{}}
           bb == [s \in S |-> b]
           nx == [s \in S |-> IF s = {} THEN {} ELSE s \ {Max(s)}]
           id == [v \in V |-> v]
           K == [s \in S |-> IF s = {} THEN id ELSE k[Max(s)]]
<1>1. ASSUME NEW s \in S PROVE IsFiniteSet(s) /\ Cardinality(s) \in Nat
  <2>1. IsFiniteSet(1..n)
    BY FS_Interval
  <2> QED BY <2>1, FS_Subset, FS_CardinalityType
<1>2. \A s \in S : s # {} => Max(s) \in s /\ Max(s) \in 1..n /\ s \ {Max(s)} \in S
  BY MaxChosen
<1>3. m \in [S -> Nat] /\ T \in SUBSET S /\ bb \in [S -> V]
  BY <1>1
<1>4. nx \in [S -> S]
  BY <1>2
<1>5. K \in [S -> [V -> V]]
  <2>1. id \in [V -> V]
    OBVIOUS
  <2> HIDE DEF id
  <2> QED BY <1>2, <2>1
<1>6. \A x \in S \ T : m[nx[x]] < m[x]
  <2> SUFFICES ASSUME NEW x \in S, x # {} PROVE m[nx[x]] < m[x]
    OBVIOUS
  <2>1. nx[x] = x \ {Max(x)} /\ Max(x) \in x /\ nx[x] \in S
    BY <1>2
  <2>2. Cardinality(x \ {Max(x)}) = Cardinality(x) - 1
    BY <1>1, <2>1, FS_RemoveElement
  <2> HIDE DEF nx
  <2>3. m[nx[x]] = Cardinality(x) - 1 /\ m[x] = Cardinality(x)
    BY <2>1, <2>2
  <2> QED BY <1>1, <2>3
<1> HIDE DEF m, T, bb, nx, K, S
<1>7. PICK g \in [S -> V] : Told(g, S, T, bb, K, nx)
  BY <1>3, <1>4, <1>5, <1>6, Recursion
<1>8. ASSUME NEW s \in S
      PROVE  g[s] = IF s = {} THEN b ELSE k[Max(s)][g[s \ {Max(s)}]]
  <2>1. g[s] = IF s \in T THEN bb[s] ELSE K[s][g[nx[s]]]
    BY <1>7 DEF Told
  <2> QED BY <2>1 DEF T, bb, K, nx
<1>9. Folds(g, n, b, k)
  BY <1>8 DEF S, Folds
<1> QED BY <1>7, <1>9 DEF S

-----------------------------------------------------------------------------
(* The calendar.                                                            *)
LeapDay(y) == IF IsLeapYear(y) THEN 1 ELSE 0

LEMMA LeapDaysStep ==
    ASSUME NEW y \in Nat
    PROVE  /\ LeapDays(y) - LeapDays(y - 1) = LeapDay(y)
           /\ LeapDays(y) \in Int /\ LeapDays(y - 1) \in Int
<1>1. y \div 4 - (y - 1) \div 4 = IF y % 4 = 0 THEN 1 ELSE 0
  OBVIOUS
<1>2. y \div 100 - (y - 1) \div 100 = IF y % 100 = 0 THEN 1 ELSE 0
  OBVIOUS
<1>3. y \div 400 - (y - 1) \div 400 = IF y % 400 = 0 THEN 1 ELSE 0
  OBVIOUS
<1>4. (y % 400 = 0 => y % 100 = 0) /\ (y % 100 = 0 => y % 4 = 0)
  OBVIOUS
<1> QED BY <1>1, <1>2, <1>3, <1>4 DEF LeapDays, LeapDay, IsLeapYear

LEMMA YearDays ==
    ASSUME NEW y \in Nat
    PROVE  /\ DaysInYear(y) = 365 + LeapDay(y) /\ LeapDay(y) \in {0, 1}
           /\ DaysInYear(y) \in Nat /\ DaysInYear(y) > 0
BY DEF DaysInYear, LeapDay

(* A month begins where the one before it ends. *)
LEMMA MonthBegins ==
    ASSUME NEW y \in Nat, NEW k \in 0..10
    PROVE  /\ Begin(y, k + 1) = Begin(y, k) + GetMonthSize(y, k)
           /\ GetMonthSize(y, k) \in Nat /\ GetMonthSize(y, k) > 0
           /\ Begin(y, k) \in Int /\ Begin(y, 0) = 0
<1>1. Leap(y) \in {0, 1} /\ (IsLeapYear(y) <=> Leap(y) = 1)
  BY LeapDaysStep DEF LeapDay, Leap
<1> QED BY <1>1 DEF Begin, GetMonthSize

YearPlaces == [unit : Nat, day : Nat]
LEMMA PlaceIs ==
    ASSUME NEW u, NEW d
    PROVE  /\ Place(u, d).unit = u /\ Place(u, d).day = d
           /\ \A U, D : u \in U /\ d \in D => Place(u, d) \in [unit : U, day : D]
BY DEF Place

(* The year is found, and no day lost on the way. *)
YearStep(g, at) ==
    IF at.day < DaysInYear(at.unit) THEN at
    ELSE g[Place(at.unit + 1, at.day - DaysInYear(at.unit))]

LEMMA YearExists == \E g : g = [at \in YearPlaces |-> YearStep(g, at)]
<1> DEFINE S == YearPlaces
           m == [at \in S |-> at.day]
           T == {at \in S : at.day < DaysInYear(at.unit)}
           b == [at \in S |-> at]
           n == [at \in S |-> IF at \in T THEN at
                              ELSE Place(at.unit + 1, at.day - DaysInYear(at.unit))]
           k == [at \in S |-> b]
<1>1. \A at \in S : /\ at.day \in Nat /\ at.unit \in Nat /\ at.unit + 1 \in Nat
                    /\ DaysInYear(at.unit) \in Nat /\ DaysInYear(at.unit) > 0
  BY YearDays DEF YearPlaces
<1>2. ASSUME NEW at \in S, at \notin T
      PROVE  /\ Place(at.unit + 1, at.day - DaysInYear(at.unit)) \in S
             /\ at.day - DaysInYear(at.unit) < at.day
  <2>1. at.day - DaysInYear(at.unit) \in Nat /\ at.day - DaysInYear(at.unit) < at.day
    BY <1>1, <1>2
  <2> QED BY <1>1, <2>1, PlaceIs DEF YearPlaces
<1>3. m \in [S -> Nat] /\ T \in SUBSET S /\ b \in [S -> S]
  BY <1>1
<1>4. k \in [S -> [S -> S]]
  BY <1>3
<1>5. n \in [S -> S]
  BY <1>2
<1>6. \A x \in S \ T : m[n[x]] < m[x]
  <2> SUFFICES ASSUME NEW x \in S, x \notin T PROVE m[n[x]] < m[x]
    OBVIOUS
  <2>1. n[x] = Place(x.unit + 1, x.day - DaysInYear(x.unit)) /\ n[x] \in S
    BY <1>2
  <2> HIDE DEF n
  <2>2. m[n[x]] = x.day - DaysInYear(x.unit) /\ m[x] = x.day
    BY <2>1, PlaceIs
  <2> QED BY <1>2, <2>2
<1> HIDE DEF S, m, T, b, n, k
<1>7. PICK g \in [S -> S] : Told(g, S, T, b, k, n)
  BY <1>3, <1>4, <1>5, <1>6, Recursion
<1>8. ASSUME NEW at \in S PROVE g[at] = YearStep(g, at)
  <2>1. g[at] = IF at \in T THEN b[at] ELSE k[at][g[n[at]]]
    BY <1>7 DEF Told
  <2>2. CASE at \in T
    BY <2>1, <2>2 DEF T, b, YearStep
  <2>3. CASE at \notin T
    <3>1. n[at] = Place(at.unit + 1, at.day - DaysInYear(at.unit)) /\ n[at] \in S
      BY <1>5, <2>3 DEF n
    <3>2. k[at][g[n[at]]] = g[n[at]]
      BY <3>1 DEF k, b
    <3>3. ~(at.day < DaysInYear(at.unit))
      BY <2>3 DEF T
    <3> QED BY <2>1, <2>3, <3>1, <3>2, <3>3 DEF YearStep
  <2> QED BY <2>2, <2>3
<1>9. g = [at \in S |-> YearStep(g, at)]
  <2>1. g = [at \in S |-> g[at]]
    OBVIOUS
  <2> QED BY <1>8, <2>1, Zenon
<1> QED BY <1>9 DEF S

LEMMA YearIs ==
    ASSUME NEW day \in Nat
    PROVE  LET in == YearOf(day)
           IN  /\ in \in YearPlaces /\ in.day < DaysInYear(in.unit)
               /\ day = (365 * (in.unit - 1970)
                             + (LeapDays(in.unit - 1) - LeapDays(1969))) + in.day
<1> DEFINE Is(g) == g = [at \in YearPlaces |-> YearStep(g, at)]
           G == CHOOSE g : Is(g)
           Count(at) == (365 * at.unit + LeapDays(at.unit - 1)) + at.day
           Good(at) == /\ G[at] \in YearPlaces /\ G[at].day < DaysInYear(G[at].unit)
                       /\ Count(G[at]) = Count(at)
           Bad == {d \in Nat : \E at \in YearPlaces : at.day = d /\ ~Good(at)}
<1>1. Is(G)
  <2>1. \E g : Is(g)
    BY YearExists
  <2> HIDE DEF Is
  <2> QED BY <2>1
<1>2. ASSUME NEW at \in YearPlaces PROVE G[at] = YearStep(G, at)
  <2> HIDE DEF G
  <2> DEFINE F(x) == YearStep(G, x)
  <2>1. G = [x \in YearPlaces |-> F(x)]
    BY <1>1
  <2> HIDE DEF F
  <2>2. G[at] = F(at)
    BY <2>1, Zenon
  <2> QED BY <2>2 DEF F
<1>3. YearOf(day) = G[Place(1970, day)]
  BY DEF YearOf, YearStep, YearPlaces
<1> HIDE DEF G, Is
<1>4. Bad = {}
  <2> SUFFICES ASSUME Bad # {} PROVE FALSE
    OBVIOUS
  <2>1. PICK d \in Bad : \A j \in Bad : d <= j
    BY LeastNatural
  <2>2. PICK at \in YearPlaces : at.day = d /\ ~Good(at)
    BY <2>1
  <2>3. at.day \in Nat /\ at.unit \in Nat
    BY DEF YearPlaces
  <2>4. CASE at.day < DaysInYear(at.unit)
    BY <1>2, <2>2, <2>4 DEF YearStep
  <2>5. CASE ~(at.day < DaysInYear(at.unit))
    <3> DEFINE to == Place(at.unit + 1, at.day - DaysInYear(at.unit))
    <3>1. G[at] = G[to]
      BY <1>2, <2>5 DEF YearStep
    <3>2. /\ to \in YearPlaces /\ to.day \in Nat /\ to.day < d
          /\ to.unit = at.unit + 1 /\ to.day = at.day - DaysInYear(at.unit)
      <4>1. /\ at.unit + 1 \in Nat /\ at.day - DaysInYear(at.unit) \in Nat
            /\ at.day - DaysInYear(at.unit) < d
        BY <2>2, <2>3, <2>5, YearDays
      <4> QED BY <4>1, PlaceIs DEF YearPlaces
    <3> HIDE DEF to
    <3>3. Good(to)
      <4>1. to.day \notin Bad
        <5> HIDE DEF Bad
        <5> QED BY <2>1, <2>2, <2>3, <3>2
      <4> QED BY <3>2, <4>1
    <3>4. Count(to) = Count(at)
      <4>1. /\ LeapDays(at.unit) - LeapDays(at.unit - 1) = LeapDay(at.unit)
            /\ LeapDays(at.unit) \in Int /\ LeapDays(at.unit - 1) \in Int
            /\ DaysInYear(at.unit) = 365 + LeapDay(at.unit) /\ LeapDay(at.unit) \in {0, 1}
        BY <2>3, LeapDaysStep, YearDays
      <4>2. to.unit - 1 = at.unit
        BY <2>3, <3>2
      <4>3. LeapDays(to.unit - 1) = LeapDays(at.unit - 1) + LeapDay(at.unit)
        BY <4>1, <4>2
      <4>4. to.unit = at.unit + 1 /\ to.day = (at.day - 365) - LeapDay(at.unit)
        BY <2>3, <3>2, <4>1
      <4> DEFINE u == at.unit
                 x == LeapDays(at.unit - 1)
                 y == LeapDay(at.unit)
      <4>5. Count(to) = (365 * (u + 1) + (x + y)) + ((at.day - 365) - y)
        BY <4>3, <4>4
      <4>6. u \in Int /\ x \in Int /\ y \in Int /\ at.day \in Int
        BY <2>3, <4>1
      <4>7. Count(at) = (365 * u + x) + at.day
        OBVIOUS
      <4> HIDE DEF u, x, y, Count
      <4> QED BY <4>5, <4>6, <4>7
    <3> QED BY <2>2, <3>1, <3>3, <3>4
  <2> QED BY <2>4, <2>5
<1> DEFINE start == Place(1970, day)
<1>5. start \in YearPlaces /\ start.unit = 1970 /\ start.day = day
  <2>1. start.unit = 1970 /\ start.day = day
    BY PlaceIs
  <2>2. start \in YearPlaces
    BY DEF Place, YearPlaces
  <2> QED BY <2>1, <2>2
<1> HIDE DEF start
<1>6. Good(start)
  <2> HIDE DEF Good
  <2>1. start.day \in Nat
    BY <1>5
  <2>2. ~Good(start) => start.day \in Bad
    BY <1>5, <2>1
  <2> HIDE DEF Bad
  <2> QED BY <1>4, <2>2
<1> DEFINE in == G[start]
<1>7. /\ in \in YearPlaces /\ in.day < DaysInYear(in.unit)
      /\ Count(in) = Count(start)
  BY <1>6
<1>8. in.unit \in Nat /\ in.day \in Nat
  BY <1>7 DEF YearPlaces
<1> HIDE DEF in
<1>9. LeapDays(in.unit - 1) \in Int /\ LeapDays(1969) \in Int
  BY <1>8, LeapDaysStep
<1>10. Count(start) = (365 * 1970 + LeapDays(1969)) + day
  BY <1>5
<1>11. day = (365 * (in.unit - 1970)
                  + (LeapDays(in.unit - 1) - LeapDays(1969))) + in.day
  BY <1>7, <1>8, <1>9, <1>10
<1>12. YearOf(day) = in
  BY <1>3 DEF in, start
<1> QED BY <1>7, <1>11, <1>12

(* The month is found likewise.                                             *)
Months == [unit : 0..11, day : Nat]
MonthStep(g, year, at) ==
    IF at.day < GetMonthSize(year, at.unit) \/ at.unit = 11 THEN at
    ELSE g[Place(at.unit + 1, at.day - GetMonthSize(year, at.unit))]

LEMMA MonthNext ==
    ASSUME NEW y \in Nat, NEW at \in Months,
           ~(at.day < GetMonthSize(y, at.unit) \/ at.unit = 11)
    PROVE  LET to == Place(at.unit + 1, at.day - GetMonthSize(y, at.unit))
           IN  /\ to \in Months /\ to.unit = at.unit + 1 /\ to.day < at.day
               /\ to.day = at.day - GetMonthSize(y, at.unit)
               /\ Begin(y, to.unit) + to.day = Begin(y, at.unit) + at.day
<1> DEFINE s == GetMonthSize(y, at.unit)
           to == Place(at.unit + 1, at.day - s)
<1>1. at.unit \in 0..10 /\ at.day \in Nat
  BY DEF Months
<1>2. /\ Begin(y, at.unit + 1) = Begin(y, at.unit) + s
      /\ s \in Nat /\ s > 0 /\ Begin(y, at.unit) \in Int
  BY <1>1, MonthBegins
<1> HIDE DEF s
<1>3. at.day - s \in Nat /\ at.unit + 1 \in 0..11
  BY <1>1, <1>2 DEF s
<1>4. to \in Months /\ to.unit = at.unit + 1 /\ to.day = at.day - s
  BY <1>3, PlaceIs DEF Months
<1>5. Begin(y, to.unit) + to.day = Begin(y, at.unit) + at.day
  <2>1. Begin(y, to.unit) = Begin(y, at.unit) + s
    BY <1>2, <1>4
  <2> HIDE DEF to
  <2> QED BY <1>1, <1>2, <1>4, <2>1
<1>6. to.day < at.day
  BY <1>1, <1>2, <1>4
<1> QED BY <1>4, <1>5, <1>6 DEF s

LEMMA MonthExists ==
    ASSUME NEW y \in Nat
    PROVE  \E g : g = [at \in Months |-> MonthStep(g, y, at)]
<1> DEFINE S == Months
           m == [at \in S |-> at.day]
           T == {at \in S : at.day < GetMonthSize(y, at.unit) \/ at.unit = 11}
           b == [at \in S |-> at]
           n == [at \in S |-> IF at \in T THEN at
                              ELSE Place(at.unit + 1, at.day - GetMonthSize(y, at.unit))]
           k == [at \in S |-> b]
<1>1. ASSUME NEW at \in S, at \notin T
      PROVE  /\ Place(at.unit + 1, at.day - GetMonthSize(y, at.unit)) \in S
             /\ Place(at.unit + 1, at.day - GetMonthSize(y, at.unit)).day < at.day
  BY <1>1, MonthNext
<1>2. m \in [S -> Nat] /\ T \in SUBSET S /\ b \in [S -> S]
  BY DEF Months
<1>3. k \in [S -> [S -> S]]
  BY <1>2
<1>4. n \in [S -> S]
  BY <1>1
<1>5. \A x \in S \ T : m[n[x]] < m[x]
  <2> SUFFICES ASSUME NEW x \in S, x \notin T PROVE m[n[x]] < m[x]
    OBVIOUS
  <2>1. /\ n[x] = Place(x.unit + 1, x.day - GetMonthSize(y, x.unit)) /\ n[x] \in S
        /\ Place(x.unit + 1, x.day - GetMonthSize(y, x.unit)).day < x.day
    BY <1>1
  <2> HIDE DEF n
  <2> QED BY <2>1
<1> HIDE DEF S, m, T, b, n, k
<1>6. PICK g \in [S -> S] : Told(g, S, T, b, k, n)
  BY <1>2, <1>3, <1>4, <1>5, Recursion
<1>7. ASSUME NEW at \in S PROVE g[at] = MonthStep(g, y, at)
  <2>1. g[at] = IF at \in T THEN b[at] ELSE k[at][g[n[at]]]
    BY <1>6 DEF Told
  <2>2. CASE at \in T
    BY <2>1, <2>2 DEF T, b, MonthStep
  <2>3. CASE at \notin T
    <3>1. /\ n[at] = Place(at.unit + 1, at.day - GetMonthSize(y, at.unit))
          /\ n[at] \in S
      BY <1>4, <2>3 DEF n
    <3>2. k[at][g[n[at]]] = g[n[at]]
      BY <3>1 DEF k, b
    <3>3. ~(at.day < GetMonthSize(y, at.unit) \/ at.unit = 11)
      BY <2>3 DEF T
    <3> QED BY <2>1, <2>3, <3>1, <3>2, <3>3 DEF MonthStep
  <2> QED BY <2>2, <2>3
<1>8. g = [at \in S |-> MonthStep(g, y, at)]
  <2>1. g = [at \in S |-> g[at]]
    OBVIOUS
  <2> QED BY <1>7, <2>1, Zenon
<1> QED BY <1>8 DEF S

LEMMA MonthIs ==
    ASSUME NEW y \in Nat, NEW yday \in Nat
    PROVE  LET month == MonthOf(y, yday)
           IN  /\ month \in Months /\ yday = Begin(y, month.unit) + month.day
               /\ month.unit < 11 => month.day < GetMonthSize(y, month.unit)
<1> DEFINE Is(g) == g = [at \in Months |-> MonthStep(g, y, at)]
           G == CHOOSE g : Is(g)
           Count(at) == Begin(y, at.unit) + at.day
           Good(at) == /\ G[at] \in Months /\ Count(G[at]) = Count(at)
                       /\ G[at].unit < 11 => G[at].day < GetMonthSize(y, G[at].unit)
           Bad == {d \in Nat : \E at \in Months : at.day = d /\ ~Good(at)}
<1>1. Is(G)
  <2>1. \E g : Is(g)
    BY MonthExists
  <2> HIDE DEF Is
  <2> QED BY <2>1
<1>2. ASSUME NEW at \in Months PROVE G[at] = MonthStep(G, y, at)
  <2> HIDE DEF G
  <2> DEFINE F(x) == MonthStep(G, y, x)
  <2>1. G = [x \in Months |-> F(x)]
    BY <1>1
  <2> HIDE DEF F
  <2>2. G[at] = F(at)
    BY <2>1, Zenon
  <2> QED BY <2>2 DEF F
<1>3. MonthOf(y, yday) = G[Place(0, yday)]
  BY DEF MonthOf, MonthStep, Months
<1> HIDE DEF G, Is
<1>4. Bad = {}
  <2> SUFFICES ASSUME Bad # {} PROVE FALSE
    OBVIOUS
  <2>1. PICK d \in Bad : \A j \in Bad : d <= j
    BY LeastNatural
  <2>2. PICK at \in Months : at.day = d /\ ~Good(at)
    BY <2>1
  <2>3. at.day \in Nat /\ at.unit \in 0..11
    BY DEF Months
  <2>4. CASE at.day < GetMonthSize(y, at.unit) \/ at.unit = 11
    BY <1>2, <2>2, <2>3, <2>4 DEF MonthStep
  <2>5. CASE ~(at.day < GetMonthSize(y, at.unit) \/ at.unit = 11)
    <3> DEFINE to == Place(at.unit + 1, at.day - GetMonthSize(y, at.unit))
    <3>1. G[at] = G[to]
      BY <1>2, <2>5 DEF MonthStep
    <3>2. to \in Months /\ to.day < d /\ Count(to) = Count(at)
      BY <2>2, <2>5, MonthNext
    <3>3. to.day \in Nat
      BY <3>2 DEF Months
    <3> HIDE DEF to
    <3>4. Good(to)
      <4>1. to.day \notin Bad
        <5> HIDE DEF Bad
        <5> QED BY <2>1, <2>2, <2>3, <3>2, <3>3
      <4> QED BY <3>2, <3>3, <4>1
    <3> HIDE DEF Count
    <3> QED BY <2>2, <3>1, <3>2, <3>4
  <2> QED BY <2>4, <2>5
<1> DEFINE start == Place(0, yday)
<1>5. start \in Months /\ start.unit = 0 /\ start.day = yday
  <2>1. start.unit = 0 /\ start.day = yday
    BY PlaceIs
  <2>2. start \in Months
    BY DEF Place, Months
  <2> QED BY <2>1, <2>2
<1> HIDE DEF start
<1>6. Good(start)
  <2> HIDE DEF Good
  <2>1. start.day \in Nat
    BY <1>5
  <2>2. ~Good(start) => start.day \in Bad
    BY <1>5, <2>1
  <2> HIDE DEF Bad
  <2> QED BY <1>4, <2>2
<1>7. Count(start) = yday
  BY <1>5, MonthBegins
<1> QED BY <1>3, <1>6, <1>7 DEF start

(* A date is its day's.                                                     *)
LEMMA DateExact ==
    ASSUME NEW day \in Nat, NEW tod \in Nat
    PROVE  DateOf(day, tod, ToCalendar(day, tod))
<1> DEFINE in == YearOf(day)
           y == in.unit
           month == MonthOf(y, in.day)
           m == month.unit
           date == ToCalendar(day, tod)
<1>1. /\ in \in YearPlaces /\ in.day < DaysInYear(y)
      /\ day = (365 * (y - 1970) + (LeapDays(y - 1) - LeapDays(1969))) + in.day
  BY YearIs
<1>2. y \in Nat /\ in.day \in Nat
  BY <1>1 DEF YearPlaces
<1>3. /\ month \in Months /\ in.day = Begin(y, m) + month.day
      /\ m < 11 => month.day < GetMonthSize(y, m)
  BY <1>2, MonthIs
<1>4. m \in 0..11 /\ month.day \in Nat
  BY <1>3 DEF Months
<1>5. /\ date.year + 1900 = y /\ date.yday = in.day /\ date.mon = m
      /\ date.mday = month.day + 1 /\ date.sec = tod % 60
      /\ date.min = (tod % 3600) \div 60 /\ date.hour = tod \div 3600
  BY <1>2 DEF ToCalendar
<1> HIDE DEF in, date
<1>6. /\ LeapDays(y) - LeapDays(y - 1) = LeapDay(y) /\ LeapDays(y - 1) \in Int
      /\ DaysInYear(y) = 365 + LeapDay(y) /\ LeapDays(1969) \in Int
      /\ LeapDay(y) \in {0, 1}
  BY <1>2, LeapDaysStep, YearDays
<1>7. m < 11 => in.day < Begin(y, m + 1)
  <2> SUFFICES ASSUME m < 11 PROVE in.day < Begin(y, m + 1)
    OBVIOUS
  <2>1. m \in 0..10
    BY <1>4
  <2>2. Begin(y, m + 1) = Begin(y, m) + GetMonthSize(y, m) /\ Begin(y, m) \in Int
        /\ GetMonthSize(y, m) \in Nat
    BY <1>2, <2>1, MonthBegins
  <2> HIDE DEF m, month, y
  <2> QED BY <1>2, <1>3, <1>4, <2>2
<1>8. /\ (date.hour * 60 + date.min) * 60 + date.sec = tod
      /\ date.min < 60 /\ date.sec < 60
  BY <1>5
<1>9. Begin(y, m) \in Int
  BY <1>4, <1>6 DEF Begin, Leap
<1>10. in.day = Begin(y, m) + ((month.day + 1) - 1)
  <2> HIDE DEF m, month, y
  <2> QED BY <1>3, <1>4, <1>9
<1>11. in.day < 365 + Leap(y)
  BY <1>1, <1>6 DEF Leap
<1> HIDE DEF m, month, y
<1>12. DateOf(day, tod, date)
  BY <1>1, <1>4, <1>5, <1>7, <1>8, <1>10, <1>11 DEF DateOf
<1> QED BY <1>12 DEF date

-----------------------------------------------------------------------------
(* The search by halving: the next mask to look at, and one step.           *)
MaskSet == [width : Nat, first : Nat]
HalfMask(w, mask) ==
    LET low == Mask(mask.width \div 2, mask.first)
    IN  IF Masked(low) \subseteq w THEN Mask(low.width, low.first + low.width) ELSE low
HalveStep(g, w, mask) ==
    IF mask.width = 0 THEN -1
    ELSE IF w \cap Masked(mask) = {} THEN mask.first ELSE g[HalfMask(w, mask)]

LEMMA HalfMaskIs ==
    ASSUME NEW w, NEW mask \in MaskSet, mask.width # 0
    PROVE  LET h == mask.width \div 2
               low == mask.first..((mask.first + h) - 1)
               to == HalfMask(w, mask)
           IN  /\ h \in Nat /\ h < mask.width
               /\ to \in MaskSet /\ to.width = h
               /\ to.first = IF low \subseteq w THEN mask.first + h ELSE mask.first
<1>1. mask.width \in Nat /\ mask.first \in Nat
  BY DEF MaskSet
<1> DEFINE h == mask.width \div 2
<1>2. h \in Nat /\ h < mask.width
  BY <1>1
<1> HIDE DEF h
<1>3. mask.first + h \in Nat
  BY <1>1, <1>2
<1>4. HalfMask(w, mask) = IF mask.first..((mask.first + h) - 1) \subseteq w
                          THEN Mask(h, mask.first + h) ELSE Mask(h, mask.first)
  BY DEF HalfMask, Masked, Mask, h
<1>5. \A f \in Nat : /\ Mask(h, f) \in MaskSet
                     /\ Mask(h, f).width = h /\ Mask(h, f).first = f
  BY <1>2 DEF Mask, MaskSet
<1>6. /\ HalfMask(w, mask) \in MaskSet /\ HalfMask(w, mask).width = h
      /\ HalfMask(w, mask).first = IF mask.first..((mask.first + h) - 1) \subseteq w
                                   THEN mask.first + h ELSE mask.first
  BY <1>1, <1>3, <1>4, <1>5
<1> QED BY <1>2, <1>6 DEF h

LEMMA HalveExists ==
    ASSUME NEW w
    PROVE  \E g : g = [mask \in MaskSet |-> HalveStep(g, w, mask)]
<1> DEFINE S == MaskSet
           m == [mask \in S |-> mask.width]
           T == {mask \in S : mask.width = 0 \/ w \cap Masked(mask) = {}}
           b == [mask \in S |-> IF mask.width = 0 THEN -1 ELSE mask.first]
           n == [mask \in S |-> IF mask \in T THEN mask ELSE HalfMask(w, mask)]
           id == [v \in Int |-> v]
           k == [mask \in S |-> id]
<1>1. \A mask \in S : mask.width \in Nat /\ mask.first \in Nat
  BY DEF MaskSet
<1>2. ASSUME NEW mask \in S, mask \notin T
      PROVE  HalfMask(w, mask) \in S /\ HalfMask(w, mask).width < mask.width
  <2>1. mask.width # 0
    BY <1>2
  <2> HIDE DEF T
  <2> QED BY <2>1, HalfMaskIs
<1>3. m \in [S -> Nat] /\ T \in SUBSET S /\ b \in [S -> Int]
  BY <1>1
<1>4. k \in [S -> [Int -> Int]]
  OBVIOUS
<1>5. n \in [S -> S]
  BY <1>2
<1>6. \A x \in S \ T : m[n[x]] < m[x]
  <2> SUFFICES ASSUME NEW x \in S, x \notin T PROVE m[n[x]] < m[x]
    OBVIOUS
  <2>1. n[x] = HalfMask(w, x) /\ n[x] \in S /\ HalfMask(w, x).width < x.width
    BY <1>2
  <2> HIDE DEF n
  <2> QED BY <2>1
<1> HIDE DEF S, m, T, b, n, k
<1>7. PICK g \in [S -> Int] : Told(g, S, T, b, k, n)
  BY <1>3, <1>4, <1>5, <1>6, Recursion
<1>8. ASSUME NEW mask \in S PROVE g[mask] = HalveStep(g, w, mask)
  <2>1. g[mask] = IF mask \in T THEN b[mask] ELSE k[mask][g[n[mask]]]
    BY <1>7 DEF Told
  <2>2. CASE mask \in T
    BY <2>1, <2>2 DEF T, b, HalveStep
  <2>3. CASE mask \notin T
    <3>1. n[mask] = HalfMask(w, mask) /\ n[mask] \in S
      BY <1>5, <2>3 DEF n
    <3>2. k[mask][g[n[mask]]] = g[n[mask]]
      BY <3>1 DEF k
    <3>3. ~(mask.width = 0 \/ w \cap Masked(mask) = {})
      BY <2>3 DEF T
    <3> QED BY <2>1, <2>3, <3>1, <3>2, <3>3 DEF HalveStep
  <2> QED BY <2>2, <2>3
<1>9. g = [mask \in S |-> HalveStep(g, w, mask)]
  <2>1. g = [mask \in S |-> g[mask]]
    OBVIOUS
  <2> QED BY <1>8, <2>1, Zenon
<1> QED BY <1>9 DEF S

(* The search finds the least clear bit of a word.                          *)
Sought(r, w, n) ==
    LET sought == (0..(n - 1)) \ w
    IN  IF sought = {} THEN r = -1
        ELSE r \in sought /\ \A c \in sought : r <= c

LEMMA SearchIs ==
    ASSUME UtilAssumption, Width \in Nat, NEW w
    PROVE  Sought(ffcw(w), w, Width)
<1> DEFINE Is(g) == g = [mask \in MaskSet |-> HalveStep(g, w, mask)]
           G == CHOOSE g : Is(g)
           Filled(mask) == mask.first..((mask.first + mask.width) - 1) \subseteq w
           Least(r) == r \in Nat /\ r \notin w /\ 0..(r - 1) \subseteq w
           In(r, mask) == r \in mask.first..((mask.first + mask.width) - 1)
<1>1. PICK W \in SUBSET (1..Width) :
          Width \in W /\ \A n \in W : n = 1 \/ (n % 2 = 0 /\ n \div 2 \in W)
  BY DEF UtilAssumption
<1> DEFINE Good(mask) == /\ Filled(mask) => G[mask] = -1
                         /\ /\ mask.width \in W /\ 0..(mask.first - 1) \subseteq w
                            /\ ~Filled(mask)
                            => Least(G[mask]) /\ In(G[mask], mask)
           Bad == {d \in Nat : \E mask \in MaskSet : mask.width = d /\ ~Good(mask)}
<1>2. Is(G)
  <2>1. \E g : Is(g)
    BY HalveExists
  <2> HIDE DEF Is
  <2> QED BY <2>1
<1>3. ASSUME NEW mask \in MaskSet PROVE G[mask] = HalveStep(G, w, mask)
  <2> HIDE DEF G
  <2> DEFINE F(x) == HalveStep(G, w, x)
  <2>1. G = [x \in MaskSet |-> F(x)]
    BY <1>2
  <2> HIDE DEF F
  <2>2. G[mask] = F(mask)
    BY <2>1, Zenon
  <2> QED BY <2>2 DEF F
<1>4. ffcw(w) = G[Mask(Width, 0)]
  BY DEF ffcw, HalveStep, HalfMask, MaskSet
<1> HIDE DEF G, Is
<1>5. Bad = {}
  <2> SUFFICES ASSUME Bad # {} PROVE FALSE
    OBVIOUS
  <2>1. PICK d \in Bad : \A j \in Bad : d <= j
    BY LeastNatural
  <2>2. PICK mask \in MaskSet : mask.width = d /\ ~Good(mask)
    BY <2>1
  <2>3. mask.width \in Nat /\ mask.first \in Nat
    BY DEF MaskSet
  <2> DEFINE f == mask.first
             n == mask.width
             to == HalfMask(w, mask)
             h == n \div 2
  <2>4. CASE n = 0
    <3>1. G[mask] = -1 /\ n \notin W
      BY <1>3, <2>4 DEF HalveStep
    <3>2. Filled(mask)
      BY <2>3, <2>4
    <3> QED BY <2>2, <3>1, <3>2
  <2>5. CASE n # 0 /\ w \cap Masked(mask) = {}
    <3>1. G[mask] = f
      BY <1>3, <2>5 DEF HalveStep
    <3>2. f \notin w /\ In(f, mask)
      <4>1. f \in f..((f + n) - 1)
        BY <2>3, <2>5
      <4> QED BY <2>5, <4>1 DEF Masked
    <3> QED BY <2>2, <2>3, <3>1, <3>2
  <2>6. CASE n # 0 /\ w \cap Masked(mask) # {}
    <3>1. G[mask] = G[to]
      BY <1>3, <2>6 DEF HalveStep
    <3>2. /\ h \in Nat /\ h < n /\ to \in MaskSet /\ to.width = h
          /\ to.first = IF f..((f + h) - 1) \subseteq w THEN f + h ELSE f
      BY <2>6, HalfMaskIs
    <3> HIDE DEF to, h
    <3>3. Good(to)
      <4>1. to.width \notin Bad
        <5> HIDE DEF Bad
        <5> QED BY <2>1, <2>2, <2>3, <3>2
      <4> HIDE DEF Good
      <4> QED BY <3>2, <4>1
    <3>4. ASSUME Filled(mask) PROVE G[mask] = -1
      <4>1. \A j \in f..((f + h) - 1) : j \in f..((f + n) - 1)
        BY <2>3, <3>2
      <4>2. to.first = f + h
        BY <3>2, <3>4, <4>1
      <4>3. \A j \in to.first..((to.first + to.width) - 1) : j \in f..((f + n) - 1)
        BY <2>3, <3>2, <4>2 DEF h
      <4>4. Filled(to)
        BY <3>4, <4>3
      <4> QED BY <3>1, <3>3, <4>4
    <3>5. ASSUME n \in W, 0..(f - 1) \subseteq w, ~Filled(mask)
          PROVE  Least(G[mask]) /\ In(G[mask], mask)
      <4>1. n # 1
        <5>1. ASSUME n = 1 PROVE FALSE
          <6>1. f..((f + n) - 1) = {f}
            BY <2>3, <5>1
          <6>2. f \in w
            BY <2>6, <6>1 DEF Masked
          <6> QED BY <3>5, <6>1, <6>2
        <5> QED BY <5>1
      <4>2. n = 2 * h /\ h \in W
        BY <1>1, <2>3, <3>5, <4>1 DEF h
      <4>3. 0..(to.first - 1) \subseteq w /\ ~Filled(to)
        <5>1. CASE f..((f + h) - 1) \subseteq w
          <6>1. to.first = f + h
            BY <3>2, <5>1
          <6>2. \A j \in 0..(to.first - 1) : j \in 0..(f - 1) \/ j \in f..((f + h) - 1)
            BY <2>3, <3>2, <6>1
          <6>3. PICK j \in f..((f + n) - 1) : j \notin w
            BY <3>5
          <6>4. j \in to.first..((to.first + to.width) - 1)
            <7>1. j \notin f..((f + h) - 1)
              BY <5>1, <6>3
            <7> QED BY <2>3, <3>2, <4>2, <6>1, <6>3, <7>1
          <6> QED BY <3>5, <5>1, <6>2, <6>3, <6>4
        <5>2. CASE ~(f..((f + h) - 1) \subseteq w)
          <6>1. to.first = f
            BY <3>2, <5>2
          <6> QED BY <3>2, <3>5, <5>2, <6>1
        <5> QED BY <5>1, <5>2
      <4>4. Least(G[to]) /\ In(G[to], to)
        BY <3>2, <3>3, <4>2, <4>3
      <4>5. to.first >= f /\ to.first + to.width <= f + n /\ to.first \in Int
        BY <2>3, <3>2, <4>2
      <4>6. In(G[to], mask)
        BY <2>3, <3>2, <4>4, <4>5
      <4> QED BY <3>1, <4>4, <4>6
    <3> QED BY <2>2, <3>4, <3>5
  <2> QED BY <2>4, <2>5, <2>6
<1> DEFINE all == Mask(Width, 0)
<1>6. all \in MaskSet /\ all.width = Width /\ all.first = 0
  BY DEF Mask, MaskSet
<1> HIDE DEF all
<1>7. Good(all)
  <2> HIDE DEF Good
  <2> QED BY <1>5, <1>6
<1>8. all.first..((all.first + all.width) - 1) = 0..(Width - 1) /\ 0..(0 - 1) = {}
  BY <1>6
<1>9. CASE (0..(Width - 1)) \ w = {}
  BY <1>4, <1>7, <1>8, <1>9 DEF Sought, all
<1>10. CASE (0..(Width - 1)) \ w # {}
  <2>1. Least(G[all]) /\ In(G[all], all)
    BY <1>1, <1>6, <1>7, <1>8, <1>10
  <2> DEFINE r == G[all]
  <2>2. r \in Nat /\ r \notin w /\ 0..(r - 1) \subseteq w /\ r \in 0..(Width - 1)
    BY <1>8, <2>1
  <2> HIDE DEF r
  <2>3. ASSUME NEW c \in (0..(Width - 1)) \ w PROVE r <= c
    <3>1. c \notin 0..(r - 1) /\ c \in Int /\ c >= 0
      BY <2>2
    <3> QED BY <2>2, <3>1
  <2>4. Sought(r, w, Width)
    BY <1>10, <2>2, <2>3 DEF Sought
  <2> QED BY <1>4, <2>4 DEF r, all
<1> QED BY <1>9, <1>10

-----------------------------------------------------------------------------
(* Division, and the multiples of what is divided by.                       *)
LEMMA DivMod ==
    ASSUME NEW a \in Nat, NEW m \in Nat, m > 0
    PROVE  /\ a = m * (a \div m) + (a % m)
           /\ a % m \in 0..(m - 1) /\ a \div m \in Nat
<1>1. a % m = a - m * (a \div m)
  BY SMTT(30)
<1>2. a % m \in 0..(m - 1) /\ a \div m \in Nat
  OBVIOUS
<1>3. m * (a \div m) \in Int
  BY <1>2
<1> DEFINE p == m * (a \div m)
           r == a % m
<1>4. p \in Int /\ r \in Int /\ r = a - p
  BY <1>1, <1>2, <1>3
<1>5. a = p + r
  <2> HIDE DEF p, r
  <2> QED BY <1>4
<1>6. a = m * (a \div m) + (a % m)
  BY <1>5
<1> QED BY <1>2, <1>6

LEMMA OneMultiple ==
    ASSUME NEW j \in Int, NEW f \in Nat, j * f \in 1..f
    PROVE  j * f = f
<1>1. CASE j <= 0
  BY <1>1
<1>2. CASE j >= 1
  <2>1. (j - 1) * f >= 0
    BY <1>2
  <2>2. j * f = (j - 1) * f + f
    OBVIOUS
  <2> QED BY <2>1, <2>2
<1> QED BY <1>1, <1>2

-----------------------------------------------------------------------------
(* Folding the carries in keeps the sum modulo Full, and a sum that is not  *)
(* zero does not become zero.                                               *)
FoldedStep(g, s) == IF s > Full THEN g[(s % (Full + 1)) + (s \div (Full + 1))] ELSE s

LEMMA FullIs ==
    ASSUME UtilAssumption
    PROVE  Full \in Nat /\ Full >= 1 /\ Full + 1 = ByteSize * ByteSize
<1>1. ByteSize \in Nat /\ ByteSize >= 2
  BY DEF UtilAssumption
<1>2. ByteSize * ByteSize >= 2 * ByteSize /\ ByteSize * ByteSize \in Nat
  BY <1>1
<1> QED BY <1>1, <1>2 DEF Full

LEMMA Carried ==
    ASSUME UtilAssumption, NEW s \in Nat, s > Full
    PROVE  LET t == (s % (Full + 1)) + (s \div (Full + 1))
           IN  /\ t \in Nat /\ t < s /\ t > 0
               /\ \E q \in Int : s = t + q * Full
<1> DEFINE r == s % (Full + 1)
           q == s \div (Full + 1)
<1>1. Full \in Nat /\ Full >= 1
  BY FullIs
<1>2. s = (Full + 1) * q + r /\ r \in 0..Full /\ q \in Nat
  BY <1>1, DivMod
<1> HIDE DEF r, q
<1>3. (Full + 1) * q = q + q * Full /\ q * Full \in Int
  BY <1>1, <1>2
<1>4. q # 0
  BY <1>1, <1>2
<1>5. q * Full >= 1
  BY <1>1, <1>2, <1>4
<1> DEFINE p == q * Full
<1>6. s = (q + p) + r /\ p \in Int /\ p >= 1
  BY <1>2, <1>3, <1>5
<1>7. r + q \in Nat /\ r + q < s /\ r + q > 0 /\ s = (r + q) + p
  <2> HIDE DEF p
  <2> QED BY <1>1, <1>2, <1>4, <1>6
<1>8. \E x \in Int : s = (r + q) + x * Full
  BY <1>2, <1>7
<1> QED BY <1>7, <1>8 DEF r, q

LEMMA FoldedExists ==
    ASSUME UtilAssumption
    PROVE  \E g : g = [s \in Nat |-> FoldedStep(g, s)]
<1> DEFINE to(s) == (s % (Full + 1)) + (s \div (Full + 1))
           m == [s \in Nat |-> s]
           T == {s \in Nat : ~(s > Full)}
           b == [s \in Nat |-> s]
           n == [s \in Nat |-> IF s \in T THEN s ELSE to(s)]
           k == [s \in Nat |-> b]
<1>1. \A s \in Nat : s > Full => to(s) \in Nat /\ to(s) < s
  BY Carried
<1> HIDE DEF to
<1>2. m \in [Nat -> Nat] /\ T \in SUBSET Nat /\ b \in [Nat -> Nat]
  OBVIOUS
<1>3. k \in [Nat -> [Nat -> Nat]]
  OBVIOUS
<1>4. n \in [Nat -> Nat]
  BY <1>1
<1>5. \A x \in Nat \ T : m[n[x]] < m[x]
  BY <1>1
<1> HIDE DEF m, T, b, n, k
<1>6. PICK g \in [Nat -> Nat] : Told(g, Nat, T, b, k, n)
  BY <1>2, <1>3, <1>4, <1>5, Recursion
<1>7. ASSUME NEW s \in Nat PROVE g[s] = FoldedStep(g, s)
  <2>1. g[s] = IF s \in T THEN b[s] ELSE k[s][g[n[s]]]
    BY <1>6 DEF Told
  <2>2. CASE s \in T
    BY <2>1, <2>2 DEF T, b, FoldedStep
  <2>3. CASE s \notin T
    <3>1. n[s] = to(s) /\ n[s] \in Nat
      BY <1>4, <2>3 DEF n
    <3>2. k[s][g[n[s]]] = g[n[s]]
      BY <3>1 DEF k, b
    <3>3. s > Full
      BY <2>3 DEF T
    <3> QED BY <2>1, <2>3, <3>1, <3>2, <3>3 DEF FoldedStep, to
  <2> QED BY <2>2, <2>3
<1>8. g = [s \in Nat |-> FoldedStep(g, s)]
  <2>1. g = [s \in Nat |-> g[s]]
    OBVIOUS
  <2> QED BY <1>7, <2>1, Zenon
<1> QED BY <1>8

FoldedSum == CHOOSE g : g = [s \in Nat |-> FoldedStep(g, s)]

LEMMA FoldedIs ==
    ASSUME UtilAssumption, NEW sum \in Nat
    PROVE  /\ FoldedSum[sum] \in 0..Full
           /\ FoldedSum[sum] = 0 <=> sum = 0
           /\ \E q \in Int : sum = FoldedSum[sum] + q * Full
<1> DEFINE Is(g) == g = [s \in Nat |-> FoldedStep(g, s)]
           G == CHOOSE g : Is(g)
           Good(s) == /\ G[s] \in 0..Full /\ (G[s] = 0 <=> s = 0)
                      /\ \E q \in Int : s = G[s] + q * Full
           Bad == {s \in Nat : ~Good(s)}
<1>1. Is(G)
  <2>1. \E g : Is(g)
    BY FoldedExists
  <2> HIDE DEF Is
  <2> QED BY <2>1
<1>2. ASSUME NEW s \in Nat PROVE G[s] = FoldedStep(G, s)
  <2> HIDE DEF G
  <2> DEFINE F(x) == FoldedStep(G, x)
  <2>1. G = [x \in Nat |-> F(x)]
    BY <1>1
  <2> HIDE DEF F
  <2>2. G[s] = F(s)
    BY <2>1, Zenon
  <2> QED BY <2>2 DEF F
<1>3. FoldedSum = G
  BY DEF FoldedSum
<1> HIDE DEF G, Is
<1>4. Full \in Nat /\ Full >= 1
  BY FullIs
<1>5. Bad = {}
  <2> SUFFICES ASSUME Bad # {} PROVE FALSE
    OBVIOUS
  <2>1. PICK s \in Bad : \A j \in Bad : s <= j
    BY LeastNatural
  <2>2. s \in Nat /\ ~Good(s)
    OBVIOUS
  <2>3. CASE ~(s > Full)
    <3>1. G[s] = s
      BY <1>2, <2>2, <2>3 DEF FoldedStep
    <3>2. s = s + 0 * Full
      BY <1>4, <2>2
    <3>3. \E q \in Int : s = s + q * Full
      BY <3>2
    <3> QED BY <1>4, <2>2, <2>3, <3>1, <3>3
  <2>4. CASE s > Full
    <3> DEFINE t == (s % (Full + 1)) + (s \div (Full + 1))
    <3>1. /\ t \in Nat /\ t < s /\ t > 0
          /\ \E q \in Int : s = t + q * Full
      BY <2>2, <2>4, Carried
    <3>2. G[s] = G[t]
      BY <1>2, <2>2, <2>4 DEF FoldedStep
    <3> HIDE DEF t
    <3>3. Good(t)
      <4>1. t \notin Bad
        <5> HIDE DEF Bad
        <5> QED BY <2>1, <2>2, <3>1
      <4> QED BY <3>1, <4>1
    <3>4. PICK q \in Int : s = t + q * Full
      BY <3>1
    <3>5. PICK p \in Int : t = G[t] + p * Full
      BY <3>3
    <3>6. G[t] \in Int
      BY <3>3, <1>4
    <3>7. s = G[t] + (p + q) * Full
      BY <1>4, <3>4, <3>5, <3>6
    <3>8. Good(s)
      <4>1. \E x \in Int : s = G[s] + x * Full
        BY <3>2, <3>7
      <4>2. s # 0 /\ G[s] # 0 /\ G[s] \in 0..Full
        BY <2>2, <2>4, <1>4, <3>1, <3>2, <3>3
      <4> QED BY <4>1, <4>2
    <3> QED BY <2>2, <3>8
  <2> QED BY <2>3, <2>4
<1>6. Good(sum)
  BY <1>5
<1> QED BY <1>3, <1>6

(* What the bytes of a block add to its sum, one after the other.           *)
Weight(block, i) == IF i % 2 = 1 THEN block[i] * ByteSize ELSE block[i]
Indices(block) == [i \in DOMAIN block |-> i]
SumStep(g, block, sum, s) ==
    IF s = {} THEN sum ELSE g[s \ {Max(s)}] + Weight(block, Indices(block)[Max(s)])
Total(block, sum) ==
    LET g == CHOOSE f : f = [s \in SUBSET DOMAIN Indices(block) |-> SumStep(f, block, sum, s)]
    IN  g[DOMAIN Indices(block)]
Adds(h, block, sum) ==
    /\ h[0] = sum
    /\ \A i \in 1..Len(block) : h[i] = h[i - 1] + Weight(block, i) /\ h[i - 1] \in Nat

LEMMA WeightIs ==
    ASSUME UtilAssumption, NEW block \in Seq(Nat), NEW i \in 1..Len(block)
    PROVE  Weight(block, i) \in Nat
<1>1. block[i] \in Nat /\ ByteSize \in Nat
  BY DEF UtilAssumption
<1>2. block[i] * ByteSize \in Nat
  BY <1>1
<1> QED BY <1>1, <1>2 DEF Weight

LEMMA ipcksumIs ==
    ASSUME NEW block, NEW sum
    PROVE  ipcksum(block, sum) = FoldedSum[Total(block, sum)]
BY DEF ipcksum, FoldLeftDomain, FoldLeft, MapThenFoldSet, FoldedSum, FoldedStep,
       Total, SumStep, Weight, Indices

LEMMA TotalIs ==
    ASSUME UtilAssumption, NEW block \in Seq(Nat), NEW sum \in Nat
    PROVE  \E h : /\ Adds(h, block, sum)
                 /\ Total(block, sum) = h[Len(block)] /\ h[Len(block)] \in Nat
<1> DEFINE n == Len(block)
           Is(f) == f = [s \in SUBSET DOMAIN Indices(block) |-> SumStep(f, block, sum, s)]
           k == [i \in 1..n |-> [v \in Nat |-> v + Weight(block, i)]]
           G == CHOOSE f : Is(f)
           h == [i \in 0..n |-> G[1..i]]
<1>1. /\ n \in Nat /\ DOMAIN block = 1..n /\ DOMAIN Indices(block) = 1..n
      /\ \A i \in 1..n : Indices(block)[i] = i
  BY DEF Indices
<1>2. \A i \in 1..n : Weight(block, i) \in Nat
  BY WeightIs
<1>3. k \in [1..n -> [Nat -> Nat]]
  <2> HIDE DEF n
  <2> QED BY <1>2
<1>4. PICK g \in [SUBSET (1..n) -> Nat] : Folds(g, n, sum, k)
  <2> HIDE DEF n, k, Is, G, h
  <2>1. n \in Nat /\ sum \in Nat
    BY <1>1
  <2> QED BY <1>3, <2>1, SetFold, Zenon
<1> HIDE DEF n
<1>5. ASSUME NEW s \in SUBSET (1..n) PROVE g[s] = SumStep(g, block, sum, s)
  <2>1. CASE s = {}
    BY <1>4, <2>1 DEF SumStep, Folds
  <2>2. CASE s # {}
    <3>1. Max(s) \in 1..n
      BY <1>1, <2>2, MaxChosen
    <3>2. k[Max(s)] = [v \in Nat |-> v + Weight(block, Max(s))]
      BY <3>1
    <3>3. g[s \ {Max(s)}] \in Nat
      OBVIOUS
    <3>4. g[s] = k[Max(s)][g[s \ {Max(s)}]]
      BY <1>4, <2>2 DEF Folds
    <3> QED BY <1>1, <2>2, <3>1, <3>2, <3>3, <3>4 DEF SumStep
  <2> QED BY <2>1, <2>2
<1>6. Is(G)
  <2>1. g = [s \in SUBSET (1..n) |-> g[s]]
    OBVIOUS
  <2>2. g = [s \in SUBSET (1..n) |-> SumStep(g, block, sum, s)]
    BY <1>5, <2>1, Zenon
  <2>3. Is(g)
    BY <1>1, <2>2
  <2> HIDE DEF Is
  <2> QED BY <2>3
<1>7. ASSUME NEW s \in SUBSET (1..n) PROVE G[s] = SumStep(G, block, sum, s)
  <2> HIDE DEF G
  <2> DEFINE F(x) == SumStep(G, block, sum, x)
  <2>1. G = [x \in SUBSET (1..n) |-> F(x)]
    BY <1>1, <1>6
  <2> HIDE DEF F
  <2>2. G[s] = F(s)
    BY <2>1, Zenon
  <2> QED BY <2>2 DEF F
<1>8. Total(block, sum) = G[1..n]
  BY <1>1 DEF Total
<1> HIDE DEF G, Is
<1>9. h[0] = sum
  <2>1. 1..0 = {} /\ {} \in SUBSET (1..n) /\ 0 \in 0..n
    BY <1>1
  <2>2. G[{}] = sum
    BY <1>7, <2>1 DEF SumStep
  <2> QED BY <2>1, <2>2
<1>10. ASSUME NEW i \in 1..n PROVE h[i] = h[i - 1] + Weight(block, i)
  <2>1. 1..i \in SUBSET (1..n) /\ i \in 1..i /\ i \in 0..n /\ i - 1 \in 0..n
    BY <1>1
  <2>2. Max(1..i) = i /\ (1..i) \ {i} = 1..(i - 1)
    BY <1>1, MaxIs
  <2>3. G[1..i] = SumStep(G, block, sum, 1..i)
    BY <1>7, <2>1
  <2>4. G[1..i] = G[1..(i - 1)] + Weight(block, i)
    BY <1>1, <2>1, <2>2, <2>3 DEF SumStep
  <2> QED BY <2>1, <2>4
<1>11. h[n] = G[1..n]
  BY <1>1
<1> HIDE DEF h
<1>12. \A i \in 0..n : h[i] \in Nat
  <2> DEFINE P == {i \in 0..n : h[i] \in Nat}
  <2>1. 0 \in P
    BY <1>1, <1>9
  <2>2. ASSUME NEW i \in 0..(n - 1), i \in P PROVE i + 1 \in P
    <3>1. i + 1 \in 1..n /\ (i + 1) - 1 = i
      BY <1>1
    <3>2. h[i + 1] = h[i] + Weight(block, i + 1)
      BY <1>10, <3>1
    <3> QED BY <1>2, <2>2, <3>1, <3>2
  <2> HIDE DEF P
  <2>3. \A i \in 0..n : i \in P
    BY <1>1, <2>1, <2>2, Induct
  <2> QED BY <2>3 DEF P
<1>13. Adds(h, block, sum)
  <2>1. \A i \in 1..n : i - 1 \in 0..n
    BY <1>1
  <2> QED BY <1>9, <1>10, <1>12, <2>1 DEF Adds, n
<1>14. Total(block, sum) = h[Len(block)] /\ h[Len(block)] \in Nat
  BY <1>1, <1>8, <1>11, <1>12 DEF n
<1> QED BY <1>13, <1>14

(* Two bytes before a block add their word to its sum.                      *)
LEMMA TotalWith ==
    ASSUME UtilAssumption, NEW block \in Seq(Nat), NEW sum \in Nat,
           NEW hi \in Nat, NEW lo \in Nat
    PROVE  /\ Total(<<hi, lo>> \o block, sum) = Total(block, sum) + (hi * ByteSize + lo)
           /\ Total(block, sum) \in Nat /\ hi * ByteSize \in Nat
<1> DEFINE with == <<hi, lo>> \o block
           n == Len(block)
           r == hi * ByteSize + lo
<1>1. PICK h : /\ Adds(h, block, sum)
               /\ Total(block, sum) = h[Len(block)] /\ h[Len(block)] \in Nat
  BY TotalIs
<1>2. /\ with \in Seq(Nat) /\ Len(with) = n + 2 /\ n \in Nat
      /\ with[1] = hi /\ with[2] = lo /\ \A i \in 1..n : with[i + 2] = block[i]
  OBVIOUS
<1> HIDE DEF with, n
<1>3. PICK g : /\ Adds(g, with, sum)
               /\ Total(with, sum) = g[Len(with)] /\ g[Len(with)] \in Nat
  BY <1>2, TotalIs
<1>4. ByteSize \in Nat /\ hi * ByteSize \in Nat
  BY DEF UtilAssumption
<1>5. g[2] = sum + r
  <2>1. 1 \in 1..Len(with) /\ 2 \in 1..Len(with)
    BY <1>2
  <2>2. g[0] = sum /\ g[1] = g[0] + Weight(with, 1) /\ g[2] = g[1] + Weight(with, 2)
    BY <1>3, <2>1 DEF Adds
  <2>3. Weight(with, 1) = hi * ByteSize /\ Weight(with, 2) = lo
    BY <1>2 DEF Weight
  <2> QED BY <1>4, <2>2, <2>3
<1>6. r \in Nat
  BY <1>4
<1> HIDE DEF r
<1> DEFINE P == {i \in 0..n : g[i + 2] = h[i] + r}
<1>7. 0 \in P
  BY <1>1, <1>2, <1>5 DEF Adds
<1>8. ASSUME NEW i \in 0..(n - 1), i \in P PROVE i + 1 \in P
  <2>1. /\ i + 1 \in 1..n /\ i + 3 \in 1..(n + 2) /\ i \in Nat
        /\ (i + 1) - 1 = i /\ (i + 3) - 1 = i + 2 /\ (i + 1) + 2 = i + 3
    BY <1>2
  <2>2. h[i + 1] = h[i] + Weight(block, i + 1) /\ h[i] \in Nat
    BY <1>1, <2>1 DEF Adds, n
  <2>3. g[i + 3] = g[i + 2] + Weight(with, i + 3)
    BY <1>2, <1>3, <2>1 DEF Adds
  <2>4. Weight(with, i + 3) = Weight(block, i + 1)
    <3>1. with[i + 3] = block[i + 1]
      BY <1>2, <2>1
    <3>2. (i + 3) % 2 = (i + 1) % 2
      BY <2>1
    <3> QED BY <3>1, <3>2 DEF Weight
  <2>5. Weight(block, i + 1) \in Nat
    BY <2>1, WeightIs DEF n
  <2>6. g[i + 3] = h[i + 1] + r
    BY <1>6, <1>8, <2>2, <2>3, <2>4, <2>5
  <2> QED BY <1>2, <2>1, <2>6
<1> HIDE DEF P
<1>9. \A i \in 0..n : i \in P
  BY <1>2, <1>7, <1>8, Induct
<1>10. g[n + 2] = h[n] + r
  BY <1>2, <1>9 DEF P
<1> QED BY <1>1, <1>2, <1>3, <1>4, <1>10 DEF with, n, r

(* A block with its checksum in place sums to all ones, and the checksum is *)
(* never 0.                                                                 *)
LEMMA SumExact ==
    ASSUME UtilAssumption, NEW block \in Seq(Nat), NEW sum \in Nat
    PROVE  LET r == CSum(block, sum)
           IN  /\ r \in 1..Full
               /\ ipcksum(<<r \div ByteSize, r % ByteSize>> \o block, sum) = Full
<1> DEFINE t == Total(block, sum)
           f == FoldedSum[t]
           r == CSum(block, sum)
           hi == r \div ByteSize
           lo == r % ByteSize
           g == FoldedSum[t + r]
<1>1. t \in Nat
  BY TotalWith
<1>2. f \in 0..Full /\ (f = 0 <=> t = 0) /\ \E q \in Int : t = f + q * Full
  BY <1>1, FoldedIs
<1>3. r = IF f = Full THEN Full ELSE Full - f
  BY ipcksumIs DEF CSum
<1>4. Full \in Nat /\ Full >= 1
  BY FullIs
<1> HIDE DEF f, t
<1>5. r \in 1..Full
  BY <1>2, <1>3, <1>4
<1>6. hi \in Nat /\ lo \in Nat /\ hi * ByteSize + lo = r
  <2> HIDE DEF r
  <2>1. r \in Nat /\ ByteSize \in Nat /\ ByteSize > 0
    BY <1>4, <1>5 DEF UtilAssumption
  <2>2. r = ByteSize * hi + lo /\ lo \in 0..(ByteSize - 1) /\ hi \in Nat
    BY <2>1, DivMod
  <2> HIDE DEF hi, lo
  <2> QED BY <2>1, <2>2
<1> HIDE DEF r, hi, lo
<1>7. ipcksum(<<hi, lo>> \o block, sum) = g
  <2>1. Total(<<hi, lo>> \o block, sum) = t + r
    BY <1>6, TotalWith DEF t
  <2>2. ipcksum(<<hi, lo>> \o block, sum) = FoldedSum[Total(<<hi, lo>> \o block, sum)]
    BY ONLY ipcksumIs
  <2> QED BY <2>1, <2>2
<1>8. t + r \in Nat /\ t + r > 0
  BY <1>1, <1>4, <1>5
<1>9. g \in 0..Full /\ g # 0 /\ \E q \in Int : t + r = g + q * Full
  BY <1>8, FoldedIs
<1> HIDE DEF g
<1>10. PICK q \in Int : t = f + q * Full
  BY <1>2
<1>11. PICK p \in Int : t + r = g + p * Full
  BY <1>9
<1>12. g = ((q - p) + IF f = Full THEN 2 ELSE 1) * Full
  <2>1. f \in Int /\ g \in Int
    BY <1>2, <1>4, <1>9
  <2>2. CASE f = Full
    BY <1>3, <1>4, <1>10, <1>11, <2>1, <2>2
  <2>3. CASE f # Full
    BY <1>3, <1>4, <1>10, <1>11, <2>1, <2>3
  <2> QED BY <2>2, <2>3
<1>13. g = Full
  <2> DEFINE j == (q - p) + IF f = Full THEN 2 ELSE 1
  <2>1. j \in Int
    OBVIOUS
  <2>2. g = j * Full /\ j * Full \in 1..Full
    BY <1>4, <1>9, <1>12
  <2> HIDE DEF j
  <2> QED BY <1>4, <2>1, <2>2, OneMultiple
<1> QED BY <1>5, <1>7, <1>13 DEF r, hi, lo

-----------------------------------------------------------------------------
(* The CRC.  One bit of it, and what a byte of the message does.            *)
Words == SUBSET (0..15)
Bytes == SUBSET (0..7)
Up(c) == {b + 1 : b \in c \ {15}}
High(d) == {b + 8 : b \in d}
CrcStep(c) == IF 15 \in c THEN Xor(Up(c), {0, 5, 12}) ELSE Up(c)
Eight == <<1, 2, 3, 4, 5, 6, 7, 8>>
CrcFold(g, from, s) == IF s = {} THEN from ELSE CrcStep(g[s \ {Max(s)}])
Steps(h, from, to) ==
    /\ h[0] = from /\ h[8] = to
    /\ \A i \in 0..7 : h[i] \in Words /\ h[i + 1] = CrcStep(h[i])

LEMMA XorIs ==
    ASSUME NEW a, NEW b, NEW c
    PROVE  /\ \A x : x \in Xor(a, b) <=> (x \in a) # (x \in b)
           /\ Xor(a, b) = Xor(a, c) => b = c
           /\ Xor(a, b) = Xor(c, b) => a = c
           /\ Xor(a, a) = {} /\ (Xor(a, b) = a => b = {})
BY DEF Xor

LEMMA XorWords ==
    ASSUME NEW U, NEW a \in SUBSET U, NEW b \in SUBSET U
    PROVE  Xor(a, b) \in SUBSET U
BY DEF Xor

LEMMA UpIs ==
    ASSUME NEW c \in Words
    PROVE  /\ Up(c) \in Words /\ 0 \notin Up(c)
           /\ \A x \in 0..14 : x + 1 \in Up(c) <=> x \in c
<1>1. \A b \in c \ {15} : b + 1 \in 1..15
  BY DEF Words
<1>2. \A x \in 0..14 : x + 1 \in Up(c) => x \in c
  <2> SUFFICES ASSUME NEW x \in 0..14, x + 1 \in Up(c) PROVE x \in c
    OBVIOUS
  <2>1. PICK b \in c \ {15} : x + 1 = b + 1
    BY DEF Up
  <2>2. b \in Int
    BY DEF Words
  <2>3. x = b
    BY <2>1, <2>2
  <2> QED BY <2>3
<1>3. Up(c) \subseteq 1..15
  BY <1>1 DEF Up
<1>4. \A x \in 0..14 : x \in c => x + 1 \in Up(c)
  BY DEF Up
<1> QED BY <1>2, <1>3, <1>4 DEF Words

LEMMA CrcStepIs ==
    ASSUME NEW c \in Words
    PROVE  CrcStep(c) \in Words /\ (0 \in CrcStep(c) <=> 15 \in c)
<1>1. {0, 5, 12} \in Words
  BY DEF Words
<1>2. Up(c) \in Words /\ 0 \notin Up(c)
  BY UpIs
<1>3. Xor(Up(c), {0, 5, 12}) \in Words /\ 0 \in Xor(Up(c), {0, 5, 12})
  BY <1>1, <1>2, XorWords, XorIs DEF Words
<1> QED BY <1>2, <1>3 DEF CrcStep

(* No two words become the same. *)
LEMMA CrcStepApart ==
    ASSUME NEW c \in Words, NEW d \in Words, CrcStep(c) = CrcStep(d)
    PROVE  c = d
<1>1. 15 \in c <=> 15 \in d
  BY CrcStepIs
<1>2. Up(c) = Up(d)
  <2>1. CASE 15 \in c
    <3>1. Xor(Up(c), {0, 5, 12}) = Xor(Up(d), {0, 5, 12})
      BY <1>1, <2>1 DEF CrcStep
    <3> QED BY <3>1, XorIs
  <2>2. CASE 15 \notin c
    BY <1>1, <2>2 DEF CrcStep
  <2> QED BY <2>1, <2>2
<1>3. \A x \in 0..14 : x \in c <=> x \in d
  BY <1>2, UpIs
<1>4. \A x \in c \cup d : x = 15 \/ x \in 0..14
  BY DEF Words
<1> QED BY <1>1, <1>3, <1>4

LEMMA HighWord ==
    ASSUME NEW c \in Words, NEW d \in Bytes
    PROVE  Xor(c, High(d)) \in Words /\ High(d) \in Words
<1>1. High(d) \in Words
  BY DEF High, Words, Bytes
<1> QED BY <1>1, XorWords DEF Words

LEMMA UpdateIs ==
    ASSUME NEW c \in Words, NEW d \in Bytes
    PROVE  Update(c, d) \in Words /\ \E h : Steps(h, Xor(c, High(d)), Update(c, d))
<1> DEFINE from == Xor(c, High(d))
           Is(f) == f = [s \in SUBSET DOMAIN Eight |-> CrcFold(f, from, s)]
           step == [v \in Words |-> CrcStep(v)]
           k == [i \in 1..8 |-> step]
           G == CHOOSE f : Is(f)
           h == [i \in 0..8 |-> G[1..i]]
<1>1. DOMAIN Eight = 1..8
  BY DEF Eight
<1>2. step \in [Words -> Words]
  BY CrcStepIs
<1>3. k \in [1..8 -> [Words -> Words]]
  <2> HIDE DEF step
  <2> QED BY <1>2
<1>4. from \in Words
  BY HighWord
<1>5. Update(c, d) = G[1..8]
  BY <1>1 DEF Update, FoldLeft, MapThenFoldSet, CrcFold, CrcStep, Up, High, Eight
<1> HIDE DEF from
<1>6. PICK g \in [SUBSET (1..8) -> Words] : Folds(g, 8, from, k)
  <2> HIDE DEF k, Is, G, h
  <2>1. 8 \in Nat
    OBVIOUS
  <2> QED BY <1>3, <1>4, <2>1, SetFold, Zenon
<1>7. ASSUME NEW s \in SUBSET (1..8) PROVE g[s] = CrcFold(g, from, s)
  <2>1. CASE s = {}
    BY <1>6, <2>1 DEF CrcFold, Folds
  <2>2. CASE s # {}
    <3>1. Max(s) \in 1..8
      BY <2>2, MaxChosen
    <3>2. k[Max(s)] = step
      BY <3>1
    <3>3. g[s \ {Max(s)}] \in Words
      OBVIOUS
    <3>4. g[s] = k[Max(s)][g[s \ {Max(s)}]]
      BY <1>6, <2>2 DEF Folds
    <3> QED BY <2>2, <3>2, <3>3, <3>4 DEF CrcFold
  <2> QED BY <2>1, <2>2
<1>8. Is(G)
  <2>1. g = [s \in SUBSET (1..8) |-> g[s]]
    OBVIOUS
  <2>2. g = [s \in SUBSET (1..8) |-> CrcFold(g, from, s)]
    BY <1>7, <2>1, Zenon
  <2>3. Is(g)
    BY <1>1, <2>2
  <2> HIDE DEF Is
  <2> QED BY <2>3
<1>9. ASSUME NEW s \in SUBSET (1..8) PROVE G[s] = CrcFold(G, from, s)
  <2> HIDE DEF G
  <2> DEFINE F(x) == CrcFold(G, from, x)
  <2>1. G = [x \in SUBSET (1..8) |-> F(x)]
    BY <1>1, <1>8
  <2> HIDE DEF F
  <2>2. G[s] = F(s)
    BY <2>1, Zenon
  <2> QED BY <2>2 DEF F
<1> HIDE DEF G, Is
<1>10. h[0] = from
  <2>1. 1..0 = {} /\ {} \in SUBSET (1..8) /\ 0 \in 0..8
    OBVIOUS
  <2>2. G[{}] = from
    BY <1>9, <2>1 DEF CrcFold
  <2> QED BY <2>1, <2>2
<1>11. ASSUME NEW i \in 0..7 PROVE h[i + 1] = CrcStep(h[i])
  <2>1. /\ 1..(i + 1) \in SUBSET (1..8) /\ i + 1 \in 1..(i + 1) /\ i + 1 \in 1..8
        /\ i + 1 \in 0..8 /\ i \in 0..8 /\ (i + 1) - 1 = i
    OBVIOUS
  <2>2. Max(1..(i + 1)) = i + 1 /\ (1..(i + 1)) \ {i + 1} = 1..i
    BY <2>1, MaxIs
  <2>3. G[1..(i + 1)] = CrcFold(G, from, 1..(i + 1))
    BY <1>9, <2>1
  <2>4. G[1..(i + 1)] = CrcStep(G[1..i])
    BY <2>1, <2>2, <2>3 DEF CrcFold
  <2> QED BY <2>1, <2>4
<1>12. h[8] = Update(c, d)
  BY <1>5
<1> HIDE DEF h
<1>13. \A i \in 0..8 : h[i] \in Words
  <2> DEFINE P == {i \in 0..8 : h[i] \in Words}
  <2>1. 0 \in P
    BY <1>4, <1>10
  <2>2. ASSUME NEW i \in 0..(8 - 1), i \in P PROVE i + 1 \in P
    <3>1. i \in 0..7 /\ i + 1 \in 0..8 /\ h[i] \in Words
      BY <2>2
    <3> QED BY <1>11, <3>1, CrcStepIs
  <2>3. 8 \in Nat
    OBVIOUS
  <2> HIDE DEF P
  <2>4. \A i \in 0..8 : i \in P
    BY <2>1, <2>2, <2>3, Induct
  <2> QED BY <2>4 DEF P
<1>14. Steps(h, from, Update(c, d))
  BY <1>10, <1>11, <1>12, <1>13 DEF Steps
<1> QED BY <1>12, <1>13, <1>14 DEF from

(* What a word becomes tells what it was. *)
LEMMA StepsApart ==
    ASSUME NEW g, NEW a, NEW x, Steps(g, a, x), NEW h, NEW b, NEW y, Steps(h, b, y),
           x = y
    PROVE  a = b
<1> DEFINE P == {i \in 0..8 : g[8 - i] = h[8 - i]}
<1>1. 0 \in P
  BY DEF Steps
<1>2. ASSUME NEW i \in 0..(8 - 1), i \in P PROVE i + 1 \in P
  <2>1. /\ 8 - (i + 1) \in 0..7 /\ (8 - (i + 1)) + 1 = 8 - i
        /\ g[8 - i] = h[8 - i] /\ i + 1 \in 0..8
    BY <1>2
  <2> DEFINE j == 8 - (i + 1)
  <2>2. /\ g[j] \in Words /\ h[j] \in Words
        /\ g[j + 1] = CrcStep(g[j]) /\ h[j + 1] = CrcStep(h[j])
    BY <2>1 DEF Steps
  <2>3. CrcStep(g[j]) = CrcStep(h[j])
    BY <2>1, <2>2
  <2> HIDE DEF j
  <2>4. g[j] = h[j]
    BY <2>2, <2>3, CrcStepApart
  <2> QED BY <2>1, <2>4 DEF j
<1>3. 8 \in Nat
  OBVIOUS
<1> HIDE DEF P
<1>4. \A i \in 0..8 : i \in P
  BY <1>1, <1>2, <1>3, Induct
<1>5. g[8 - 8] = h[8 - 8]
  BY <1>4 DEF P
<1> QED BY <1>5 DEF Steps

LEMMA HighApart ==
    ASSUME NEW d \in Bytes, NEW e \in Bytes, High(d) = High(e)
    PROVE  d = e
<1>1. \A x \in 0..7, s \in Bytes : x + 8 \in High(s) <=> x \in s
  <2> SUFFICES ASSUME NEW x \in 0..7, NEW s \in Bytes
               PROVE  x + 8 \in High(s) <=> x \in s
    OBVIOUS
  <2>1. ASSUME x + 8 \in High(s) PROVE x \in s
    <3>1. PICK b \in s : x + 8 = b + 8
      BY <2>1 DEF High
    <3>2. b \in Int
      BY DEF Bytes
    <3> QED BY <3>1, <3>2
  <2> QED BY <2>1 DEF High
<1>2. \A x \in 0..7 : x \in d <=> x \in e
  BY <1>1
<1> QED BY <1>2 DEF Bytes

LEMMA UpdateApart ==
    ASSUME NEW c \in Words, NEW c2 \in Words, NEW d \in Bytes, NEW d2 \in Bytes,
           Update(c, d) = Update(c2, d2), c = c2 \/ d = d2
    PROVE  c = c2 /\ d = d2
<1>1. PICK g : Steps(g, Xor(c, High(d)), Update(c, d))
  BY UpdateIs
<1>2. PICK h : Steps(h, Xor(c2, High(d2)), Update(c2, d2))
  BY UpdateIs
<1>3. Xor(c, High(d)) = Xor(c2, High(d2))
  BY <1>1, <1>2, StepsApart
<1>4. CASE c = c2
  BY <1>3, <1>4, XorIs, HighApart
<1>5. CASE d = d2
  BY <1>3, <1>5, XorIs
<1> QED BY <1>4, <1>5

(* A word without its upper half is only moved up. *)
LEMMA StepsUp ==
    ASSUME NEW d \in Bytes, NEW h, NEW to, Steps(h, d, to)
    PROVE  to = High(d)
<1> DEFINE Moved(i) == {b + i : b \in d}
           P == {i \in 0..8 : h[i] = Moved(i)}
<1>1. \A b \in d : b \in 0..7
  BY DEF Bytes
<1>2. 0 \in P
  <2>1. Moved(0) = d
    BY <1>1
  <2> QED BY <2>1 DEF Steps
<1>3. ASSUME NEW i \in 0..(8 - 1), i \in P PROVE i + 1 \in P
  <2>1. h[i] = Moved(i) /\ h[i + 1] = CrcStep(h[i])
    BY <1>3 DEF Steps
  <2>2. 15 \notin Moved(i)
    BY <1>1
  <2>3. CrcStep(h[i]) = Up(Moved(i))
    BY <2>1, <2>2 DEF CrcStep
  <2>4. Up(Moved(i)) = {b + 1 : b \in Moved(i)}
    BY <2>2 DEF Up
  <2>5. {b + 1 : b \in Moved(i)} = Moved(i + 1)
    <3>1. \A b \in d : (b + i) + 1 = b + (i + 1)
      BY <1>1
    <3> QED BY <3>1
  <2> HIDE DEF Moved
  <2> QED BY <2>1, <2>3, <2>4, <2>5
<1>4. 8 \in Nat
  OBVIOUS
<1> HIDE DEF P
<1>5. \A i \in 0..8 : i \in P
  BY <1>2, <1>3, <1>4, Induct
<1>6. h[8] = Moved(8)
  BY <1>5 DEF P
<1> QED BY <1>6 DEF Steps, High

(* Its own CRC brings a word to zero. *)
Upper(r) == {b - 8 : b \in r \ (0..7)}
LEMMA UpdateZero ==
    ASSUME NEW r \in Words
    PROVE  /\ Upper(r) \in Bytes /\ r \cap 0..7 \in Bytes
           /\ Update(Update(r, Upper(r)), r \cap 0..7) = {}
<1> DEFINE low == r \cap 0..7
           up == Upper(r)
<1>1. \A b \in r : b \in 0..15
  BY DEF Words
<1>2. up \in Bytes /\ low \in Bytes /\ low \in Words
  BY <1>1 DEF Upper, Bytes, Words
<1>3. Xor(r, High(up)) = low
  <2>1. High(up) = r \ (0..7)
    <3>1. \A b \in r \ (0..7) : (b - 8) + 8 = b
      BY <1>1
    <3> QED BY <3>1 DEF High, Upper
  <2> QED BY <2>1 DEF Xor
<1> HIDE DEF low, up
<1>4. Update(r, up) = High(low)
  <2>1. PICK h : Steps(h, low, Update(r, up))
    BY <1>2, <1>3, UpdateIs
  <2> QED BY <1>2, <2>1, StepsUp
<1>5. Update(High(low), low) = {}
  <2>1. High(low) \in Words
    BY <1>2, HighWord
  <2>2. Xor(High(low), High(low)) = {}
    BY XorIs
  <2>3. PICK h : Steps(h, {}, Update(High(low), low))
    BY <1>2, <2>1, <2>2, UpdateIs
  <2>4. {} \in Bytes /\ High({}) = {}
    BY DEF Bytes, High
  <2> QED BY <2>3, <2>4, StepsUp
<1> QED BY <1>2, <1>4, <1>5 DEF low, up

(* The CRC of a message, byte after byte. *)
ChecksumFold(g, block, initial, s) ==
    IF s = {} THEN initial ELSE Update(g[s \ {Max(s)}], block[Max(s)])
Updates(h, block, initial) ==
    /\ h[0] = initial /\ \A i \in 0..Len(block) : h[i] \in Words
    /\ \A i \in 1..Len(block) : h[i] = Update(h[i - 1], block[i])

LEMMA ChecksumIs ==
    ASSUME NEW block \in Seq(Bytes), NEW initial \in Words
    PROVE  \E h : Updates(h, block, initial) /\ Checksum(block, initial) = h[Len(block)]
<1> DEFINE n == Len(block)
           Is(f) == f = [s \in SUBSET DOMAIN block |-> ChecksumFold(f, block, initial, s)]
           k == [i \in 1..n |-> [v \in Words |-> Update(v, block[i])]]
           G == CHOOSE f : Is(f)
           h == [i \in 0..n |-> G[1..i]]
<1>1. n \in Nat /\ DOMAIN block = 1..n /\ \A i \in 1..n : block[i] \in Bytes
  OBVIOUS
<1>2. \A v \in Words, d \in Bytes : Update(v, d) \in Words
  BY UpdateIs
<1>3. k \in [1..n -> [Words -> Words]]
  <2> HIDE DEF n
  <2> QED BY <1>1, <1>2
<1>4. Checksum(block, initial) = G[1..n]
  BY <1>1 DEF Checksum, FoldLeft, MapThenFoldSet, ChecksumFold
<1>5. PICK g \in [SUBSET (1..n) -> Words] : Folds(g, n, initial, k)
  <2> HIDE DEF n, k, Is, G, h
  <2> QED BY <1>1, <1>3, SetFold, Zenon
<1> HIDE DEF n
<1>6. ASSUME NEW s \in SUBSET (1..n) PROVE g[s] = ChecksumFold(g, block, initial, s)
  <2>1. CASE s = {}
    BY <1>5, <2>1 DEF ChecksumFold, Folds
  <2>2. CASE s # {}
    <3>1. Max(s) \in 1..n
      BY <1>1, <2>2, MaxChosen
    <3>2. k[Max(s)] = [v \in Words |-> Update(v, block[Max(s)])]
      BY <3>1
    <3>3. g[s \ {Max(s)}] \in Words
      OBVIOUS
    <3>4. g[s] = k[Max(s)][g[s \ {Max(s)}]]
      BY <1>5, <2>2 DEF Folds
    <3> QED BY <2>2, <3>2, <3>3, <3>4 DEF ChecksumFold
  <2> QED BY <2>1, <2>2
<1>7. Is(G)
  <2>1. g = [s \in SUBSET (1..n) |-> g[s]]
    OBVIOUS
  <2>2. g = [s \in SUBSET (1..n) |-> ChecksumFold(g, block, initial, s)]
    BY <1>6, <2>1, Zenon
  <2>3. Is(g)
    BY <1>1, <2>2
  <2> HIDE DEF Is
  <2> QED BY <2>3
<1>8. ASSUME NEW s \in SUBSET (1..n) PROVE G[s] = ChecksumFold(G, block, initial, s)
  <2> HIDE DEF G
  <2> DEFINE F(x) == ChecksumFold(G, block, initial, x)
  <2>1. G = [x \in SUBSET (1..n) |-> F(x)]
    BY <1>1, <1>7
  <2> HIDE DEF F
  <2>2. G[s] = F(s)
    BY <2>1, Zenon
  <2> QED BY <2>2 DEF F
<1> HIDE DEF G, Is
<1>9. h[0] = initial
  <2>1. 1..0 = {} /\ {} \in SUBSET (1..n) /\ 0 \in 0..n
    BY <1>1
  <2>2. G[{}] = initial
    BY <1>8, <2>1 DEF ChecksumFold
  <2> QED BY <2>1, <2>2
<1>10. ASSUME NEW i \in 1..n PROVE h[i] = Update(h[i - 1], block[i])
  <2>1. 1..i \in SUBSET (1..n) /\ i \in 1..i /\ i \in 0..n /\ i - 1 \in 0..n
    BY <1>1
  <2>2. Max(1..i) = i /\ (1..i) \ {i} = 1..(i - 1)
    BY <1>1, MaxIs
  <2>3. G[1..i] = ChecksumFold(G, block, initial, 1..i)
    BY <1>8, <2>1
  <2>4. G[1..i] = Update(G[1..(i - 1)], block[i])
    BY <2>1, <2>2, <2>3 DEF ChecksumFold
  <2> QED BY <2>1, <2>4
<1>11. h[n] = G[1..n]
  BY <1>1
<1> HIDE DEF h
<1>12. \A i \in 0..n : h[i] \in Words
  <2> DEFINE P == {i \in 0..n : h[i] \in Words}
  <2>1. 0 \in P
    BY <1>1, <1>9
  <2>2. ASSUME NEW i \in 0..(n - 1), i \in P PROVE i + 1 \in P
    <3>1. i + 1 \in 1..n /\ (i + 1) - 1 = i /\ i + 1 \in 0..n /\ h[i] \in Words
      BY <1>1, <2>2
    <3> QED BY <1>1, <1>2, <1>10, <3>1
  <2> HIDE DEF P
  <2>3. \A i \in 0..n : i \in P
    BY <1>1, <2>1, <2>2, Induct
  <2> QED BY <2>3 DEF P
<1>13. Updates(h, block, initial)
  BY <1>9, <1>10, <1>12 DEF Updates, n
<1> QED BY <1>4, <1>11, <1>13 DEF n

LEMMA UpdatesAlike ==
    ASSUME NEW a \in Seq(Bytes), NEW b \in Seq(Bytes), NEW g, NEW h, NEW initial,
           Updates(g, a, initial), Updates(h, b, initial),
           NEW n \in Nat, n <= Len(a), n <= Len(b), \A i \in 1..n : a[i] = b[i]
    PROVE  g[n] = h[n]
<1> DEFINE P == {i \in 0..n : g[i] = h[i]}
<1>1. 0 \in P
  BY DEF Updates
<1>2. ASSUME NEW i \in 0..(n - 1), i \in P PROVE i + 1 \in P
  <2>1. /\ i + 1 \in 1..n /\ i + 1 \in 1..Len(a) /\ i + 1 \in 1..Len(b)
        /\ (i + 1) - 1 = i /\ i + 1 \in 0..n
    OBVIOUS
  <2>2. g[i + 1] = Update(g[i], a[i + 1]) /\ h[i + 1] = Update(h[i], b[i + 1])
    BY <2>1 DEF Updates
  <2> QED BY <1>2, <2>1, <2>2
<1> HIDE DEF P
<1>3. \A i \in 0..n : i \in P
  BY <1>1, <1>2, Induct
<1> QED BY <1>3 DEF P

(* A message followed by its CRC has CRC 0. *)
LEMMA ChecksumZero ==
    ASSUME NEW block \in Seq(Bytes), NEW initial \in Words
    PROVE  LET r == Checksum(block, initial)
           IN  Checksum(block \o <<Upper(r), r \cap 0..7>>, initial) = {}
<1> DEFINE r == Checksum(block, initial)
           n == Len(block)
           up == Upper(r)
           low == r \cap 0..7
           with == block \o <<up, low>>
<1>1. PICK g : Updates(g, block, initial) /\ r = g[n]
  BY ChecksumIs
<1>2. n \in Nat
  OBVIOUS
<1>3. r \in Words
  BY <1>1, <1>2 DEF Updates
<1> HIDE DEF r
<1>4. up \in Bytes /\ low \in Bytes /\ Update(Update(r, up), low) = {}
  BY <1>3, UpdateZero
<1> HIDE DEF up, low
<1>5. /\ with \in Seq(Bytes) /\ Len(with) = n + 2
      /\ with[n + 1] = up /\ with[n + 2] = low /\ \A i \in 1..n : with[i] = block[i]
  BY <1>4
<1> HIDE DEF n, with
<1>6. PICK h : Updates(h, with, initial) /\ Checksum(with, initial) = h[Len(with)]
  BY <1>5, ChecksumIs
<1>7. h[n] = r
  <2>1. n <= Len(block) /\ n <= Len(with)
    BY <1>2, <1>5 DEF n
  <2>2. \A i \in 1..n : block[i] = with[i]
    BY <1>5
  <2> QED BY <1>1, <1>2, <1>5, <1>6, <2>1, <2>2, UpdatesAlike
<1>8. h[n + 1] = Update(r, up)
  <2>1. n + 1 \in 1..Len(with) /\ (n + 1) - 1 = n
    BY <1>2, <1>5
  <2> QED BY <1>5, <1>6, <1>7, <2>1 DEF Updates
<1>9. h[n + 2] = {}
  <2>1. n + 2 \in 1..Len(with) /\ (n + 2) - 1 = n + 1
    BY <1>2, <1>5
  <2> QED BY <1>4, <1>5, <1>6, <1>8, <2>1 DEF Updates
<1> QED BY <1>5, <1>6, <1>9 DEF with, up, low, r

(* With a byte changed it has another. *)
LEMMA ChecksumApart ==
    ASSUME NEW block \in Seq(Bytes), NEW initial \in Words,
           NEW at \in DOMAIN block, NEW e \in Bytes \ {{}}
    PROVE  Checksum([block EXCEPT ![at] = Xor(@, e)], initial) # Checksum(block, initial)
<1> DEFINE n == Len(block)
           with == [block EXCEPT ![at] = Xor(@, e)]
<1>1. n \in Nat /\ at \in 1..n /\ block[at] \in Bytes
  OBVIOUS
<1>2. Xor(block[at], e) \in Bytes /\ Xor(block[at], e) # block[at]
  <2> DEFINE a == block[at]
  <2>1. a \in Bytes
    BY <1>1
  <2> HIDE DEF a
  <2>2. Xor(a, e) \in Bytes
    BY <2>1, XorWords DEF Bytes
  <2>3. Xor(a, e) = a => e = {}
    BY XorIs
  <2> QED BY <2>2, <2>3 DEF a
<1>3. /\ with \in Seq(Bytes) /\ Len(with) = n /\ with[at] = Xor(block[at], e)
      /\ \A i \in 1..n : i # at => with[i] = block[i]
  <2> DEFINE x == Xor(block[at], e)
  <2>1. x \in Bytes
    BY <1>2
  <2> HIDE DEF x
  <2>2. with = [block EXCEPT ![at] = x]
    BY <1>1 DEF x
  <2>3. with \in Seq(Bytes) /\ Len(with) = n
    <3> HIDE DEF with
    <3> QED BY <1>1, <2>1, <2>2, ExceptSeq
  <2>4. DOMAIN block = 1..n
    OBVIOUS
  <2> QED BY <1>1, <2>2, <2>3, <2>4 DEF x
<1>4. \A i \in 1..n : with[i] \in Bytes /\ block[i] \in Bytes
  BY <1>3
<1> HIDE DEF n, with
<1>5. PICK g : Updates(g, block, initial) /\ Checksum(block, initial) = g[n]
  BY ChecksumIs DEF n
<1>6. PICK h : Updates(h, with, initial) /\ Checksum(with, initial) = h[n]
  BY <1>3, ChecksumIs
<1>7. ASSUME NEW i \in 1..n
      PROVE  /\ g[i] = Update(g[i - 1], block[i]) /\ h[i] = Update(h[i - 1], with[i])
             /\ g[i] \in Words /\ h[i] \in Words /\ g[i - 1] \in Words /\ h[i - 1] \in Words
  <2>1. i \in 0..n /\ i - 1 \in 0..n
    BY <1>1
  <2> QED BY <1>3, <1>5, <1>6, <2>1 DEF Updates, n
<1>8. g[at - 1] = h[at - 1]
  <2>1. at - 1 \in Nat /\ at - 1 <= Len(block) /\ at - 1 <= Len(with)
    BY <1>1, <1>3 DEF n
  <2>2. \A i \in 1..(at - 1) : i \in 1..n /\ i # at
    BY <1>1
  <2>3. \A i \in 1..(at - 1) : block[i] = with[i]
    BY <1>3, <2>2
  <2>4. /\ block \in Seq(Bytes) /\ Updates(g, block, initial)
        /\ with \in Seq(Bytes) /\ Updates(h, with, initial)
    BY <1>3, <1>5, <1>6
  <2> QED BY ONLY <2>1, <2>3, <2>4, UpdatesAlike
<1> DEFINE P == {i \in 0..(n - at) : g[at + i] # h[at + i]}
<1>9. 0 \in P
  <2>1. g[at] # h[at]
    BY <1>1, <1>2, <1>3, <1>4, <1>7, <1>8, UpdateApart
  <2> QED BY <1>1, <2>1
<1>10. ASSUME NEW i \in 0..((n - at) - 1), i \in P PROVE i + 1 \in P
  <2> DEFINE j == at + (i + 1)
  <2>1. j \in 1..n /\ j # at /\ j - 1 = at + i /\ i + 1 \in 0..(n - at)
    BY <1>1
  <2>2. g[at + i] # h[at + i]
    BY <1>10
  <2> HIDE DEF j
  <2>3. /\ g[j] = Update(g[j - 1], block[j]) /\ h[j] = Update(h[j - 1], block[j])
        /\ g[j - 1] \in Words /\ h[j - 1] \in Words /\ block[j] \in Bytes
    BY <1>3, <1>4, <1>7, <2>1
  <2>4. g[j] # h[j]
    BY <2>1, <2>2, <2>3, UpdateApart
  <2> QED BY <2>1, <2>4 DEF j
<1>11. n - at \in Nat
  BY <1>1
<1> HIDE DEF P
<1>12. \A i \in 0..(n - at) : i \in P
  BY <1>9, <1>10, <1>11, Induct
<1>13. g[n] # h[n]
  <2>1. n - at \in 0..(n - at) /\ at + (n - at) = n
    BY <1>1
  <2> QED BY <1>12, <2>1 DEF P
<1> QED BY <1>5, <1>6, <1>13 DEF with

-----------------------------------------------------------------------------
(* Numbers as text.  The digits of a radix, and what they are worth.        *)
Radixes == {10, 16}
DigitChars(radix) == (48..57) \cup IF radix = 16 THEN 97..102 ELSE {}

LEMMA DigitIs ==
    ASSUME NEW radix \in Radixes, NEW d \in 0..(radix - 1)
    PROVE  Digit(d) \in DigitChars(radix) /\ ParseHexDigit(Digit(d)) = d
<1>1. CASE d <= 9
  <2>1. Digit(d) = d + 48 /\ d + 48 \in 48..57
    BY <1>1 DEF Digit, Radixes
  <2> DEFINE c == d + 48
  <2>2. Digit(d) = c /\ c \in 48..57 /\ c - 48 = d
    BY <2>1 DEF Radixes
  <2> HIDE DEF c
  <2>3. ToUpper(c) = c /\ c \notin 65..70
    BY <2>2 DEF ToUpper
  <2>4. ParseHexDigit(c) = c - 48
    BY <2>2, <2>3 DEF ParseHexDigit
  <2> QED BY <2>2, <2>4 DEF DigitChars
<1>2. CASE d > 9
  <2>1. radix = 16 /\ d \in 10..15
    BY <1>2 DEF Radixes
  <2> DEFINE c == (d - 10) + 97
  <2>2. Digit(d) = c
    BY <1>2, <2>1 DEF Digit
  <2>3. c \in 97..102 /\ c - 32 \in 65..70 /\ ((c - 32) - 65) + 10 = d
    BY <2>1
  <2> HIDE DEF c
  <2>4. ToUpper(c) = c - 32 /\ c \notin 48..57
    BY <2>3 DEF ToUpper
  <2>5. ParseHexDigit(c) = ((c - 32) - 65) + 10
    BY <2>3, <2>4 DEF ParseHexDigit
  <2> QED BY <2>1, <2>2, <2>3, <2>5 DEF DigitChars
<1> QED BY <1>1, <1>2 DEF Radixes

LEMMA DigitCharIs ==
    ASSUME NEW radix \in Radixes, NEW c \in DigitChars(radix)
    PROVE  /\ c \in Nat /\ ParseHexDigit(c) \in Nat
           /\ c \notin 1..32 /\ c # 45 /\ c # 43 /\ ToUpper(c) # 88
<1>1. CASE c \in 48..57
  BY <1>1 DEF ParseHexDigit, ToUpper
<1>2. CASE c \in 97..102
  <2>1. ToUpper(c) = c - 32 /\ c \notin 48..57 /\ c - 32 \in 65..70
    BY <1>2 DEF ToUpper
  <2>2. ParseHexDigit(c) = ((c - 32) - 65) + 10
    BY <2>1 DEF ParseHexDigit
  <2> QED BY <1>2, <2>1, <2>2
<1> QED BY <1>1, <1>2 DEF DigitChars

(* The values of the digits so far, as strto adds them up. *)
Counts(h, s, radix) ==
    /\ h[0] = 0
    /\ \A i \in 1..Len(s) :
           h[i - 1] \in Nat /\ h[i] = (h[i - 1] * radix + ParseHexDigit(s[i])) % Word
Worth(s, radix, v) == \E h : Counts(h, s, radix) /\ h[Len(s)] = v /\ v \in Nat

LEMMA WorthOne ==
    ASSUME UtilAssumption, NEW radix \in Radixes, NEW d \in 0..(radix - 1)
    PROVE  Worth(<<Digit(d)>>, radix, d % Word)
<1> DEFINE h == [i \in 0..1 |-> IF i = 0 THEN 0 ELSE d % Word]
           s == <<Digit(d)>>
<1>1. h[0] = 0 /\ h[1] = d % Word
  OBVIOUS
<1>2. Len(s) = 1 /\ s[1] = Digit(d)
  OBVIOUS
<1>3. ParseHexDigit(s[1]) = d /\ d \in Nat /\ radix \in Nat /\ d % Word \in Nat
  BY <1>2, DigitIs DEF Radixes, UtilAssumption
<1> HIDE DEF h, s
<1>4. 0 * radix + ParseHexDigit(s[1]) = d
  BY <1>3
<1>5. Counts(h, s, radix)
  <2>1. \A i \in 1..Len(s) : i = 1 /\ i - 1 = 0
    BY <1>2
  <2>2. h[0] \in Nat /\ h[1] = (h[0] * radix + ParseHexDigit(s[1])) % Word
    BY <1>1, <1>4
  <2> QED BY <1>1, <2>1, <2>2 DEF Counts
<1>6. Worth(s, radix, d % Word)
  BY <1>1, <1>2, <1>3, <1>5 DEF Worth
<1> QED BY <1>6 DEF s

LEMMA WorthMore ==
    ASSUME UtilAssumption, NEW radix \in Radixes, NEW s \in Seq(DigitChars(radix)),
           NEW v \in Nat, Worth(s, radix, v), NEW d \in 0..(radix - 1)
    PROVE  Worth(Append(s, Digit(d)), radix, (v * radix + d) % Word)
<1> DEFINE n == Len(s)
           t == Append(s, Digit(d))
           x == (v * radix + d) % Word
<1>1. PICK h : Counts(h, s, radix) /\ h[n] = v
  BY DEF Worth
<1> DEFINE g == [i \in 0..(n + 1) |-> IF i = n + 1 THEN x ELSE h[i]]
<1>2. n \in Nat /\ Len(t) = n + 1 /\ t[n + 1] = Digit(d) /\ \A i \in 1..n : t[i] = s[i]
  OBVIOUS
<1>3. ParseHexDigit(t[n + 1]) = d
  BY <1>2, DigitIs
<1>4. x \in Nat
  <2>1. v * radix + d \in Nat /\ Word \in Nat /\ Word > 0
    BY DEF Radixes, UtilAssumption
  <2> QED BY <2>1
<1> HIDE DEF n, t, x
<1>5. g[n + 1] = x /\ \A i \in 0..n : g[i] = h[i]
  BY <1>2
<1> HIDE DEF g
<1>6. \A i \in 1..n : /\ h[i - 1] \in Nat
                      /\ h[i] = (h[i - 1] * radix + ParseHexDigit(s[i])) % Word
  BY <1>1 DEF Counts, n
<1>7. ASSUME NEW i \in 1..(n + 1)
      PROVE  /\ g[i - 1] \in Nat
             /\ g[i] = (g[i - 1] * radix + ParseHexDigit(t[i])) % Word
  <2>1. CASE i = n + 1
    <3>1. g[n] = v /\ (n + 1) - 1 = n
      BY <1>1, <1>2, <1>5
    <3> QED BY <1>3, <1>5, <2>1, <3>1 DEF x
  <2>2. CASE i # n + 1
    <3>1. i \in 1..n /\ i \in 0..n /\ i - 1 \in 0..n
      BY <1>2, <2>2
    <3>2. g[i] = h[i] /\ g[i - 1] = h[i - 1] /\ t[i] = s[i]
      BY <1>2, <1>5, <3>1
    <3> QED BY <1>6, <3>1, <3>2
  <2> QED BY <2>1, <2>2
<1>8. g[0] = 0
  BY <1>1, <1>2, <1>5 DEF Counts
<1>9. Counts(g, t, radix)
  BY <1>2, <1>7, <1>8 DEF Counts
<1>10. Worth(t, radix, x)
  BY <1>2, <1>4, <1>5, <1>9 DEF Worth
<1> QED BY <1>10 DEF t, x

(* What FormatNumber shows of a magnitude.                                  *)
ShownStep(g, radix, v) ==
    IF v < radix THEN <<Digit(v)>>
    ELSE Append(g[v \div radix], Digit(v % radix))

LEMMA DigitsOf ==
    ASSUME NEW radix \in Radixes, NEW v \in Nat
    PROVE  /\ v = (v \div radix) * radix + (v % radix) /\ v % radix \in 0..(radix - 1)
           /\ v \div radix \in Nat /\ (v >= radix => v \div radix < v)
<1>1. radix = 10 \/ radix = 16
  BY DEF Radixes
<1>2. CASE radix = 10
  BY <1>2
<1>3. CASE radix = 16
  BY <1>3
<1> QED BY <1>1, <1>2, <1>3

LEMMA ShownExists ==
    ASSUME UtilAssumption, NEW radix \in Radixes
    PROVE  \E g : g = [v \in 0..Word |-> ShownStep(g, radix, v)]
<1> DEFINE S == 0..Word
           V == Seq(DigitChars(radix))
           m == [v \in S |-> v]
           T == {v \in S : v < radix}
           b == [v \in S |-> IF v \in T THEN <<Digit(v)>> ELSE <<>>]
           n == [v \in S |-> IF v \in T THEN v ELSE v \div radix]
           k == [v \in S |-> [s \in V |-> Append(s, Digit(v % radix))]]
<1>1. Word \in Nat /\ radix \in Nat
  BY DEF UtilAssumption, Radixes
<1>2. \A v \in S : v \in Nat /\ (v \notin T => v >= radix)
  BY <1>1
<1>3. ASSUME NEW v \in S, v \notin T PROVE v \div radix \in S /\ v \div radix < v
  <2>1. v \in Nat /\ v >= radix
    BY <1>2, <1>3
  <2>2. v \div radix \in Nat /\ v \div radix < v
    BY <2>1, DigitsOf
  <2> QED BY <1>1, <2>1, <2>2
<1>4. m \in [S -> Nat] /\ T \in SUBSET S
  BY <1>1
<1>5. b \in [S -> V]
  <2>1. ASSUME NEW v \in T PROVE <<Digit(v)>> \in V
    <3>1. v \in 0..(radix - 1)
      BY <1>1
    <3>2. Digit(v) \in DigitChars(radix)
      BY <3>1, DigitIs
    <3> QED BY <3>2
  <2>2. <<>> \in V
    OBVIOUS
  <2> HIDE DEF T, V
  <2> QED BY <2>1, <2>2
<1>6. k \in [S -> [V -> V]]
  <2> SUFFICES ASSUME NEW v \in S, NEW s \in V PROVE Append(s, Digit(v % radix)) \in V
    OBVIOUS
  <2>1. Digit(v % radix) \in DigitChars(radix)
    BY <1>2, DigitsOf, DigitIs
  <2> QED BY <2>1
<1>7. n \in [S -> S]
  BY <1>3
<1>8. \A x \in S \ T : m[n[x]] < m[x]
  <2> SUFFICES ASSUME NEW x \in S, x \notin T PROVE m[n[x]] < m[x]
    OBVIOUS
  <2>1. n[x] = x \div radix /\ n[x] \in S /\ x \div radix < x
    BY <1>3
  <2> HIDE DEF n
  <2> QED BY <2>1
<1> HIDE DEF S, V, m, T, b, n, k
<1>9. PICK g \in [S -> V] : Told(g, S, T, b, k, n)
  BY <1>4, <1>5, <1>6, <1>7, <1>8, Recursion
<1>10. ASSUME NEW v \in S PROVE g[v] = ShownStep(g, radix, v)
  <2>1. g[v] = IF v \in T THEN b[v] ELSE k[v][g[n[v]]]
    BY <1>9 DEF Told
  <2>2. CASE v \in T
    BY <2>1, <2>2 DEF T, b, ShownStep
  <2>3. CASE v \notin T
    <3>1. n[v] = v \div radix /\ n[v] \in S /\ g[n[v]] \in V
      BY <1>7, <2>3 DEF n
    <3>2. k[v][g[n[v]]] = Append(g[n[v]], Digit(v % radix))
      BY <3>1 DEF k
    <3>3. ~(v < radix)
      BY <2>3 DEF T
    <3> QED BY <2>1, <2>3, <3>1, <3>2, <3>3 DEF ShownStep
  <2> QED BY <2>2, <2>3
<1>11. g = [v \in S |-> ShownStep(g, radix, v)]
  <2>1. g = [v \in S |-> g[v]]
    OBVIOUS
  <2> QED BY <1>10, <2>1, Zenon
<1> QED BY <1>11 DEF S

ShownOf(radix, v) ==
    LET g == CHOOSE f : f = [x \in 0..Word |-> ShownStep(f, radix, x)] IN g[v]

LEMMA ShownIs ==
    ASSUME UtilAssumption, NEW radix \in Radixes, NEW v \in 0..Word
    PROVE  LET s == ShownOf(radix, v)
           IN  s \in Seq(DigitChars(radix)) /\ Len(s) >= 1 /\ Worth(s, radix, v % Word)
<1> DEFINE Is(f) == f = [x \in 0..Word |-> ShownStep(f, radix, x)]
           G == CHOOSE f : Is(f)
           Good(x) == /\ G[x] \in Seq(DigitChars(radix)) /\ Len(G[x]) >= 1
                      /\ Worth(G[x], radix, x % Word)
           Bad == {x \in 0..Word : ~Good(x)}
<1>1. Is(G)
  <2>1. \E g : Is(g)
    BY ShownExists
  <2> HIDE DEF Is
  <2> QED BY <2>1
<1>2. ASSUME NEW x \in 0..Word PROVE G[x] = ShownStep(G, radix, x)
  <2> HIDE DEF G
  <2> DEFINE F(y) == ShownStep(G, radix, y)
  <2>1. G = [y \in 0..Word |-> F(y)]
    BY <1>1
  <2> HIDE DEF F
  <2>2. G[x] = F(x)
    BY <2>1, Zenon
  <2> QED BY <2>2 DEF F
<1>3. ShownOf(radix, v) = G[v]
  BY DEF ShownOf
<1> HIDE DEF G, Is
<1>4. Word \in Nat /\ Word > 0 /\ radix \in Nat /\ radix > 1
  BY DEF UtilAssumption, Radixes
<1>5. Bad = {}
  <2> SUFFICES ASSUME Bad # {} PROVE FALSE
    OBVIOUS
  <2>1. Bad \in SUBSET Nat
    BY <1>4
  <2>2. PICK x \in Bad : \A j \in Bad : x <= j
    BY <2>1, LeastNatural
  <2>3. x \in 0..Word /\ x \in Nat /\ ~Good(x)
    BY <2>1
  <2>4. G[x] = ShownStep(G, radix, x)
    BY <1>2, <2>3
  <2>5. CASE x < radix
    <3>1. G[x] = <<Digit(x)>> /\ x \in 0..(radix - 1)
      <4> HIDE DEF Bad, Good
      <4>1. x \in 0..(radix - 1)
        BY <1>4, <2>3, <2>5
      <4> QED BY <2>5, <2>4, <4>1 DEF ShownStep
    <3>2. Digit(x) \in DigitChars(radix)
      BY <3>1, DigitIs
    <3>3. Worth(<<Digit(x)>>, radix, x % Word)
      BY <3>1, WorthOne
    <3>4. <<Digit(x)>> \in Seq(DigitChars(radix)) /\ Len(<<Digit(x)>>) >= 1
      BY <3>2
    <3> QED BY <2>3, <3>1, <3>3, <3>4
  <2>6. CASE x >= radix
    <3> DEFINE q == x \div radix
               d == x % radix
    <3>1. x = q * radix + d /\ d \in 0..(radix - 1) /\ q \in Nat /\ q < x
      BY <2>3, <2>6, DigitsOf
    <3>2. G[x] = Append(G[q], Digit(d))
      <4> HIDE DEF Bad, Good
      <4>1. ~(x < radix)
        BY <1>4, <2>3, <2>6
      <4> QED BY <2>4, <4>1 DEF ShownStep
    <3> HIDE DEF q, d
    <3>3. q \in 0..Word /\ q < Word
      BY <1>4, <2>3, <3>1
    <3>4. Good(q)
      <4>1. q \notin Bad
        <5> HIDE DEF Bad
        <5> QED BY <2>2, <2>3, <3>1
      <4> HIDE DEF Good
      <4> QED BY <3>3, <4>1
    <3>5. q % Word = q
      BY <1>4, <3>1, <3>3
    <3>6. Digit(d) \in DigitChars(radix)
      BY <3>1, DigitIs
    <3>7. Worth(G[x], radix, x % Word)
      <4> DEFINE s == G[q]
      <4>1. s \in Seq(DigitChars(radix)) /\ Worth(s, radix, q)
        BY <3>4, <3>5
      <4> HIDE DEF s
      <4>2. Worth(Append(s, Digit(d)), radix, (q * radix + d) % Word)
        BY <3>1, <4>1, WorthMore
      <4> QED BY <3>1, <3>2, <4>2 DEF s
    <3>8. G[x] \in Seq(DigitChars(radix)) /\ Len(G[x]) >= 1
      <4>1. G[q] \in Seq(DigitChars(radix))
        BY <3>4
      <4> QED BY <3>2, <3>6, <4>1
    <3> QED BY <2>3, <3>7, <3>8
  <2> QED BY <1>4, <2>3, <2>5, <2>6
<1>6. Good(v)
  BY <1>5
<1> QED BY <1>3, <1>6

(* Zeros before a number do not change it. *)
LEMMA WorthPadded ==
    ASSUME UtilAssumption, NEW radix \in Radixes, NEW s \in Seq(DigitChars(radix)),
           NEW v, Worth(s, radix, v), NEW z \in Seq({48})
    PROVE  Worth(z \o s, radix, v)
<1> DEFINE n == Len(s)
           p == Len(z)
           t == z \o s
<1>1. PICK h : Counts(h, s, radix) /\ h[n] = v /\ v \in Nat
  BY DEF Worth
<1> DEFINE g == [i \in 0..(p + n) |-> IF i <= p THEN 0 ELSE h[i - p]]
<1>2. /\ n \in Nat /\ p \in Nat /\ Len(t) = p + n
      /\ \A i \in 1..p : t[i] = 48
      /\ \A i \in (p + 1)..(p + n) : t[i] = s[i - p] /\ i - p \in 1..n
  <2>1. n \in Nat /\ p \in Nat /\ Len(t) = p + n
    OBVIOUS
  <2>2. ASSUME NEW i \in 1..p PROVE t[i] = 48
    <3>1. t[i] = z[i] /\ z[i] \in {48}
      OBVIOUS
    <3> QED BY <3>1
  <2>3. ASSUME NEW i \in (p + 1)..(p + n) PROVE t[i] = s[i - p] /\ i - p \in 1..n
    OBVIOUS
  <2> QED BY <2>1, <2>2, <2>3
<1> HIDE DEF n, p, t
<1>3. /\ \A i \in 0..p : g[i] = 0
      /\ \A i \in (p + 1)..(p + n) : g[i] = h[i - p]
  BY <1>2
<1> HIDE DEF g
<1>4. h[0] = 0 /\ \A i \in 1..n : /\ h[i - 1] \in Nat
                                  /\ h[i] = (h[i - 1] * radix + ParseHexDigit(s[i])) % Word
  BY <1>1 DEF Counts, n
<1>5. ASSUME NEW i \in 1..(p + n)
      PROVE  /\ g[i - 1] \in Nat
             /\ g[i] = (g[i - 1] * radix + ParseHexDigit(t[i])) % Word
  <2>1. CASE i <= p
    <3>1. g[i] = 0 /\ g[i - 1] = 0 /\ t[i] = 48
      <4>1. i \in 0..p /\ i - 1 \in 0..p /\ i \in 1..p
        BY <1>2, <2>1
      <4> QED BY <1>2, <1>3, <4>1
    <3>2. ParseHexDigit(48) = 0
      BY DEF ParseHexDigit, ToUpper
    <3>3. 0 * radix + 0 = 0 /\ 0 % Word = 0
      BY DEF Radixes, UtilAssumption
    <3> QED BY <3>1, <3>2, <3>3
  <2>2. CASE i > p
    <3>1. i \in (p + 1)..(p + n)
      BY <1>2, <2>2
    <3> DEFINE j == i - p
    <3>2. j \in 1..n /\ g[i] = h[j] /\ t[i] = s[j]
      BY <1>2, <1>3, <3>1
    <3>3. g[i - 1] = h[j - 1]
      <4>1. CASE i = p + 1
        <5>1. j - 1 = 0 /\ i - 1 \in 0..p
          BY <1>2, <4>1
        <5> QED BY <1>3, <1>4, <5>1
      <4>2. CASE i # p + 1
        <5>1. i - 1 \in (p + 1)..(p + n) /\ (i - 1) - p = j - 1
          BY <1>2, <3>1, <4>2
        <5> QED BY <1>3, <5>1
      <4> QED BY <4>1, <4>2
    <3> HIDE DEF j
    <3> QED BY <1>4, <3>2, <3>3
  <2> QED BY <1>2, <2>1, <2>2
<1>6. g[0] = 0
  BY <1>2, <1>3
<1>7. g[p + n] = v
  <2>1. CASE n = 0
    <3>1. p + n \in 0..p
      BY <1>2, <2>1
    <3> QED BY <1>1, <1>3, <1>4, <2>1, <3>1
  <2>2. CASE n # 0
    <3>1. p + n \in (p + 1)..(p + n) /\ (p + n) - p = n
      BY <1>2, <2>2
    <3> QED BY <1>1, <1>3, <3>1
  <2> QED BY <2>1, <2>2
<1>8. Counts(g, t, radix)
  BY <1>2, <1>5, <1>6 DEF Counts
<1>9. Worth(t, radix, v)
  BY <1>1, <1>2, <1>7, <1>8 DEF Worth
<1> QED BY <1>9 DEF t

(* What strto adds up is what the digits are worth.                         *)
Value(s, radix) == FoldLeft(LAMBDA r, c : (r * radix + ParseHexDigit(c)) % Word, 0, s)
ValueFold(g, s, radix, t) ==
    IF t = {} THEN 0
    ELSE (g[t \ {Max(t)}] * radix + ParseHexDigit(s[Max(t)])) % Word

LEMMA ValueIs ==
    ASSUME UtilAssumption, NEW radix \in Radixes, NEW s \in Seq(DigitChars(radix)),
           NEW v, Worth(s, radix, v)
    PROVE  Value(s, radix) = v
<1> DEFINE n == Len(s)
           Is(f) == f = [t \in SUBSET DOMAIN s |-> ValueFold(f, s, radix, t)]
           Next1(r, i) == (r * radix + ParseHexDigit(s[i])) % Word
           k == [i \in 1..n |-> [r \in Nat |-> Next1(r, i)]]
           G == CHOOSE f : Is(f)
<1>1. n \in Nat /\ DOMAIN s = 1..n /\ \A i \in 1..n : s[i] \in DigitChars(radix)
  OBVIOUS
<1>2. \A r \in Nat, i \in 1..n : Next1(r, i) \in Nat
  <2> HIDE DEF n
  <2> SUFFICES ASSUME NEW r \in Nat, NEW i \in 1..n
               PROVE  (r * radix + ParseHexDigit(s[i])) % Word \in Nat
    OBVIOUS
  <2>1. ParseHexDigit(s[i]) \in Nat
    BY <1>1, DigitCharIs
  <2>2. r * radix \in Nat /\ Word \in Nat /\ Word > 0
    BY DEF Radixes, UtilAssumption
  <2> QED BY <2>1, <2>2
<1>3. k \in [1..n -> [Nat -> Nat]]
  <2> HIDE DEF n, Next1
  <2> QED BY <1>2
<1>4. Value(s, radix) = G[1..n]
  BY <1>1 DEF Value, FoldLeft, MapThenFoldSet, ValueFold
<1>5. PICK g \in [SUBSET (1..n) -> Nat] : Folds(g, n, 0, k)
  <2> HIDE DEF n, k, Is, G
  <2>1. 0 \in Nat
    OBVIOUS
  <2> QED BY <1>1, <1>3, <2>1, SetFold, Zenon
<1> HIDE DEF n
<1>6. ASSUME NEW t \in SUBSET (1..n) PROVE g[t] = ValueFold(g, s, radix, t)
  <2>1. CASE t = {}
    BY <1>5, <2>1 DEF ValueFold, Folds
  <2>2. CASE t # {}
    <3>1. Max(t) \in 1..n
      BY <1>1, <2>2, MaxChosen
    <3>2. k[Max(t)] = [r \in Nat |-> Next1(r, Max(t))]
      BY <3>1
    <3>3. g[t \ {Max(t)}] \in Nat
      OBVIOUS
    <3>4. g[t] = k[Max(t)][g[t \ {Max(t)}]]
      BY <1>5, <2>2 DEF Folds
    <3>5. g[t] = Next1(g[t \ {Max(t)}], Max(t))
      <4> HIDE DEF Next1
      <4> QED BY <3>2, <3>3, <3>4
    <3> QED BY <2>2, <3>5 DEF ValueFold
  <2> QED BY <2>1, <2>2
<1>7. Is(G)
  <2>1. g = [t \in SUBSET (1..n) |-> g[t]]
    OBVIOUS
  <2>2. g = [t \in SUBSET (1..n) |-> ValueFold(g, s, radix, t)]
    BY <1>6, <2>1, Zenon
  <2>3. Is(g)
    BY <1>1, <2>2
  <2> HIDE DEF Is
  <2> QED BY <2>3
<1>8. ASSUME NEW t \in SUBSET (1..n) PROVE G[t] = ValueFold(G, s, radix, t)
  <2> HIDE DEF G
  <2> DEFINE F(x) == ValueFold(G, s, radix, x)
  <2>1. G = [x \in SUBSET (1..n) |-> F(x)]
    BY <1>1, <1>7
  <2> HIDE DEF F
  <2>2. G[t] = F(t)
    BY <2>1, Zenon
  <2> QED BY <2>2 DEF F
<1> HIDE DEF G, Is, k
<1>9. PICK h : Counts(h, s, radix) /\ h[n] = v
  BY DEF Worth, n
<1> DEFINE P == {i \in 0..n : G[1..i] = h[i]}
<1>10. 0 \in P
  <2>1. 1..0 = {} /\ {} \in SUBSET (1..n) /\ 0 \in 0..n
    BY <1>1
  <2>2. G[{}] = 0
    BY <1>8, <2>1 DEF ValueFold
  <2> QED BY <1>9, <2>1, <2>2 DEF Counts
<1>11. ASSUME NEW i \in 0..(n - 1), i \in P PROVE i + 1 \in P
  <2> DEFINE j == i + 1
  <2>1. 1..j \in SUBSET (1..n) /\ j \in 1..j /\ j \in 1..n /\ j - 1 = i /\ j \in 0..n
    BY <1>1
  <2> HIDE DEF j
  <2>2. Max(1..j) = j /\ (1..j) \ {j} = 1..(j - 1)
    BY <1>1, <2>1, MaxIs
  <2>3. G[1..j] = ValueFold(G, s, radix, 1..j)
    BY <1>8, <2>1
  <2>4. G[1..j] = Next1(G[1..i], j)
    BY <2>1, <2>2, <2>3 DEF ValueFold
  <2>5. h[j] = Next1(h[i], j)
    BY <1>9, <2>1 DEF Counts, n
  <2> HIDE DEF Next1
  <2> QED BY <1>11, <2>1, <2>4, <2>5 DEF j
<1> HIDE DEF P
<1>12. \A i \in 0..n : i \in P
  BY <1>1, <1>10, <1>11, Induct
<1> QED BY <1>1, <1>4, <1>9, <1>12 DEF P

LEMMA FirstNotIs ==
    ASSUME NEW s, Len(s) \in Nat, NEW Skip, NEW i \in Nat, NEW j \in i..(Len(s) + 1),
           \A k \in i..(j - 1) : s[k] \in Skip, j = Len(s) + 1 \/ s[j] \notin Skip
    PROVE  FirstNot(s, i, Skip) = j
<1> DEFINE n == Len(s)
           At1(x) == (\A k \in i..(x - 1) : s[k] \in Skip) /\ (x = n + 1 \/ s[x] \notin Skip)
<1>1. ASSUME NEW x \in i..(n + 1), At1(x) PROVE x = j
  <2>1. x \in Int /\ j \in Int /\ n \in Nat
    OBVIOUS
  <2>2. CASE x < j
    <3>1. x \in i..(j - 1) /\ x # n + 1
      BY <2>1, <2>2
    <3> QED BY <1>1, <3>1
  <2>3. CASE j < x
    <3>1. j \in i..(x - 1) /\ j # n + 1
      BY <2>1, <2>3
    <3> QED BY <1>1, <3>1
  <2> QED BY <2>1, <2>2, <2>3
<1>2. At1(j)
  OBVIOUS
<1>3. FirstNot(s, i, Skip) = CHOOSE x \in i..(n + 1) : At1(x)
  BY DEF FirstNot
<1> HIDE DEF At1, n
<1>4. j \in i..(n + 1)
  BY DEF n
<1> QED BY <1>1, <1>2, <1>3, <1>4

(* strto of blanks, perhaps a minus sign, and digits. *)
LEMMA strtoIs ==
    ASSUME NEW radix \in Radixes, NEW s \in Seq(Int), NEW neg \in BOOLEAN,
           NEW sign \in 1..Len(s), \A i \in 1..(sign - 1) : s[i] \in 1..32,
           neg => s[sign] = 45,
           NEW from \in 1..Len(s), from = IF neg THEN sign + 1 ELSE sign,
           \A i \in from..Len(s) : s[i] \in DigitChars(radix)
    PROVE  strto(s, radix) =
               LET x == Value(SubSeq(s, from, Len(s)), radix)
               IN  <<IF neg THEN (Word - x) % Word ELSE x, Len(s) + 1>>
<1> DEFINE n == Len(s)
           sign1 == FirstNot(s, 1, 1..32)
           neg1 == At(s, sign1) = 45
           first == IF neg1 \/ At(s, sign1) = 43 THEN sign1 + 1 ELSE sign1
           hex == radix \in {0, 16} /\ At(s, first) = 48 /\ ToUpper(At(s, first + 1)) = 88
           from1 == IF hex THEN first + 2 ELSE first
           radix1 == IF hex THEN 16 ELSE IF radix = 0 THEN 10 ELSE radix
           maxdigit == IF radix1 >= 10 THEN 57 ELSE radix1 - 1
           end == FirstNot(s, from1, (48..maxdigit) \cup
                                     IF radix1 = 16 THEN (65..70) \cup (97..102) ELSE {})
           sum == Value(SubSeq(s, from1, end - 1), radix1)
<1>1. strto(s, radix) = <<IF neg1 THEN (Word - sum) % Word ELSE sum, end>>
  BY DEF strto, Value
<1>2. n \in Nat /\ DOMAIN s = 1..n
  OBVIOUS
<1> HIDE DEF sum, end, maxdigit, radix1, from1, hex, first, neg1, sign1
<1>3. \A i \in from..n : /\ s[i] \notin 1..32 /\ s[i] # 45 /\ s[i] # 43
                         /\ ToUpper(s[i]) # 88
  BY DigitCharIs
<1>4. s[sign] \notin 1..32 /\ s[sign] # 43 /\ (neg <=> s[sign] = 45)
  <2>1. CASE neg
    <3>1. s[sign] = 45
      BY <2>1
    <3> DEFINE c == s[sign]
    <3> HIDE DEF c
    <3>2. c = 45
      BY <3>1 DEF c
    <3>3. c \notin 1..32 /\ c # 43 /\ (neg <=> c = 45)
      BY <2>1, <3>2
    <3> QED BY <3>3 DEF c
  <2>2. CASE ~neg
    <3>1. sign \in from..n
      BY <1>2, <2>2
    <3> QED BY <1>3, <2>2, <3>1
  <2> QED BY <2>1, <2>2
<1>5. sign1 = sign
  <2>1. sign \in 1..(Len(s) + 1) /\ Len(s) \in Nat /\ 1 \in Nat
    BY <1>2
  <2> QED BY <1>4, <2>1, FirstNotIs DEF sign1
<1>6. (neg1 <=> neg) /\ At(s, sign1) # 43
  BY <1>2, <1>4, <1>5 DEF neg1, At
<1>7. first = from
  BY <1>5, <1>6 DEF first
<1>8. ~hex
  <2>1. ToUpper(At(s, from + 1)) # 88
    <3>1. CASE from + 1 \in 1..n
      <4>1. from + 1 \in from..n
        BY <1>2, <3>1
      <4> QED BY <1>2, <1>3, <3>1, <4>1 DEF At
    <3>2. CASE from + 1 \notin 1..n
      BY <1>2, <3>2 DEF At, ToUpper
    <3> QED BY <3>1, <3>2
  <2> QED BY <1>7, <2>1 DEF hex
<1>9. from1 = from /\ radix1 = radix /\ maxdigit = 57
  BY <1>7, <1>8 DEF from1, radix1, maxdigit, Radixes
<1>10. end = n + 1
  <2> DEFINE Skip == (48..maxdigit) \cup IF radix1 = 16 THEN (65..70) \cup (97..102) ELSE {}
  <2>1. DigitChars(radix) \subseteq Skip
    BY <1>9 DEF DigitChars
  <2>2. end = FirstNot(s, from, Skip)
    BY <1>9 DEF end
  <2> HIDE DEF Skip
  <2>3. /\ n + 1 \in from..(Len(s) + 1) /\ Len(s) \in Nat /\ from \in Nat
        /\ (n + 1) - 1 = n
    BY <1>2
  <2>4. \A i \in from..((n + 1) - 1) : s[i] \in Skip
    BY <2>1, <2>3
  <2> DEFINE j == n + 1
  <2>5. j \in from..(Len(s) + 1) /\ j = Len(s) + 1 /\ \A i \in from..(j - 1) : s[i] \in Skip
    BY <2>3, <2>4
  <2> HIDE DEF j
  <2>6. FirstNot(s, from, Skip) = j
    BY <2>3, <2>5, FirstNotIs
  <2> QED BY <2>2, <2>6 DEF j
<1>11. sum = Value(SubSeq(s, from, n), radix)
  <2>1. end - 1 = n
    BY <1>2, <1>10
  <2> QED BY <1>9, <2>1 DEF sum
<1> QED BY <1>1, <1>6, <1>10, <1>11

Pads(k, pad) == [i \in 1..k |-> pad]
Minus(neg) == IF neg THEN <<45>> ELSE <<>>

LEMMA PadIs ==
    ASSUME NEW k \in Int, NEW pad \in Nat
    PROVE  /\ Pads(k, pad) \in Seq({pad}) /\ Len(Pads(k, pad)) \in Nat
           /\ \A i \in 1..Len(Pads(k, pad)) : Pads(k, pad)[i] = pad
<1> DEFINE p == Pads(k, pad)
<1>1. CASE k > 0
  <2>1. k \in Nat /\ p \in [1..k -> {pad}]
    BY <1>1 DEF Pads
  <2>2. p \in Seq({pad}) /\ Len(p) = k
    <3> HIDE DEF p
    <3> QED BY <2>1
  <2> QED BY <2>1, <2>2 DEF Pads
<1>2. CASE k <= 0
  <2>1. 1..k = {} /\ 1..0 = {}
    BY <1>2
  <2>2. p = <<>>
    BY <2>1 DEF Pads
  <2> HIDE DEF p
  <2>3. p \in Seq({pad}) /\ Len(p) = 0
    BY <2>2
  <2>4. \A i \in 1..Len(p) : p[i] = pad
    BY <2>1, <2>3
  <2> QED BY <2>3, <2>4 DEF p
<1> QED BY <1>1, <1>2

LEMMA MinusIs ==
    ASSUME NEW neg \in BOOLEAN
    PROVE  /\ Minus(neg) \in Seq(Int) /\ Len(Minus(neg)) = (IF neg THEN 1 ELSE 0)
           /\ neg => Minus(neg)[1] = 45
<1>1. CASE neg
  <2> DEFINE x == <<45>>
  <2>1. x \in Seq(Int) /\ Len(x) = 1 /\ x[1] = 45
    OBVIOUS
  <2>2. Minus(neg) = x
    BY <1>1 DEF Minus
  <2> HIDE DEF x
  <2> QED BY <1>1, <2>1, <2>2
<1>2. CASE ~neg
  <2>1. Minus(neg) = <<>>
    BY <1>2 DEF Minus
  <2> QED BY <1>2, <2>1
<1> QED BY <1>1, <1>2

Joined(r, x, y) ==
    /\ r \in Seq(Int) /\ Len(r) = Len(x) + Len(y)
    /\ \A i \in 1..Len(x) : r[i] = x[i]
    /\ \A i \in 1..Len(y) : r[Len(x) + i] = y[i]

LEMMA JoinedIs ==
    ASSUME NEW x \in Seq(Int), NEW y \in Seq(Int)
    PROVE  Joined(x \o y, x, y)
<1> DEFINE r == x \o y
           m == Len(x)
           p == Len(y)
<1>1. m \in Nat /\ p \in Nat
  OBVIOUS
<1>2. r \in Seq(Int) /\ Len(r) = m + p
  OBVIOUS
<1>3. \A i \in 1..(m + p) : r[i] = IF i <= m THEN x[i] ELSE y[i - m]
  BY ConcatProperties
<1> HIDE DEF r, m, p
<1>4. ASSUME NEW i \in 1..m PROVE r[i] = x[i]
  <2>1. i \in 1..(m + p) /\ i <= m
    BY <1>1
  <2> QED BY <1>3, <2>1
<1>5. ASSUME NEW i \in 1..p PROVE r[m + i] = y[i]
  <2> DEFINE j == m + i
  <2>1. j \in 1..(m + p) /\ ~(j <= m) /\ j - m = i
    BY <1>1
  <2> HIDE DEF j
  <2>2. r[j] = y[j - m]
    BY <1>3, <2>1
  <2> QED BY <2>1, <2>2 DEF j
<1> QED BY <1>2, <1>4, <1>5 DEF Joined, r, m, p

LEMMA ThreeParts ==
    ASSUME NEW x \in Seq(Int), NEW y \in Seq(Int), NEW z \in Seq(Int)
    PROVE  Joined(x \o y, x, y) /\ Joined((x \o y) \o z, x \o y, z)
BY JoinedIs DEF Joined

LEMMA SuffixIs ==
    ASSUME NEW r \in Seq(Int), NEW t \in Seq(Int), NEW from \in 1..Len(r),
           Len(r) = (from - 1) + Len(t), \A i \in 1..Len(t) : r[(from - 1) + i] = t[i]
    PROVE  SubSeq(r, from, Len(r)) = t
<1> DEFINE n == Len(t)
           q == SubSeq(r, from, Len(r))
<1>1. n \in Nat /\ (Len(r) - from) + 1 = n /\ Len(r) \in Nat
  OBVIOUS
<1>2. q = [i \in 1..n |-> r[(i + from) - 1]]
  BY <1>1
<1>3. t = [i \in 1..n |-> t[i]]
  OBVIOUS
<1>4. \A i \in 1..n : r[(i + from) - 1] = t[i]
  <2> SUFFICES ASSUME NEW i \in 1..n PROVE r[(i + from) - 1] = t[i]
    OBVIOUS
  <2>1. (i + from) - 1 = (from - 1) + i
    BY <1>1
  <2> QED BY <2>1
<1> HIDE DEF n, q
<1>5. q = t
  BY <1>2, <1>3, <1>4
<1> QED BY <1>5 DEF q

(* A number reads back as itself.                                           *)
LEMMA NumberReadsBack ==
    ASSUME UtilAssumption, NEW val \in 0..(Word - 1), NEW unsigned \in BOOLEAN,
           NEW pad \in {32, 48}, NEW radix \in Radixes, NEW digits \in Nat
    PROVE  LET r == FormatNumber(val, unsigned, pad, radix, digits)
           IN  \/ strto(r, radix) = <<val, Len(r) + 1>>
               \/ pad = 32 /\ r[1] = 45 /\ r[2] = 32
<1> DEFINE neg == ~unsigned /\ val >= Word \div 2
           v == Magnitude(val, neg)
           body == ShownOf(radix, v)
           minus == Minus(neg)
           k == digits - Len(body)
           pads == Pads(k, pad)
           r == minus \o pads \o body
<1>1. FormatNumber(val, unsigned, pad, radix, digits) = r
  BY DEF FormatNumber, ShownOf, ShownStep, Minus, Pads
<1>2. Word \in Nat /\ Word >= 2 /\ Word \div 2 >= 1 /\ neg \in BOOLEAN
  BY DEF UtilAssumption
<1>3. v \in 0..Word /\ v % Word \in Nat
      /\ val = IF neg THEN (Word - (v % Word)) % Word ELSE v % Word
  <2>1. CASE neg
    <3>1. v = Word - val /\ v \in 1..(Word - 1) /\ v % Word = v
      BY <1>2, <2>1 DEF Magnitude
    <3>2. Word - v = val /\ val % Word = val
      BY <1>2, <3>1
    <3> QED BY <1>2, <2>1, <3>1, <3>2
  <2>2. CASE ~neg
    <3>1. v = val /\ val % Word = val
      BY <1>2, <2>2 DEF Magnitude
    <3> QED BY <1>2, <2>2, <3>1
  <2> QED BY <2>1, <2>2
<1> HIDE DEF v
<1>4. /\ body \in Seq(DigitChars(radix)) /\ Len(body) >= 1 /\ Len(body) \in Nat
      /\ Worth(body, radix, v % Word)
  BY <1>3, ShownIs
<1> HIDE DEF body
<1>5. k \in Int
  BY <1>4
<1> HIDE DEF k
<1>6. pads \in Seq({pad}) /\ Len(pads) \in Nat /\ \A i \in 1..Len(pads) : pads[i] = pad
  BY <1>5, PadIs
<1>7. minus \in Seq(Int) /\ Len(minus) = (IF neg THEN 1 ELSE 0)
  BY <1>2, MinusIs
<1>8. neg => minus[1] = 45
  BY <1>2, MinusIs
<1> HIDE DEF minus, pads, neg
<1> DEFINE m == Len(minus)
           p == Len(pads)
           b == Len(body)
<1>9. \A c \in DigitChars(radix) : c \in Int
  BY DigitCharIs
<1>10. m \in Nat /\ p \in Nat /\ b \in Nat /\ b >= 1
  BY <1>4, <1>6, <1>7
<1>11. /\ r \in Seq(Int) /\ Len(r) = (m + p) + b
       /\ \A i \in 1..m : r[i] = minus[i]
       /\ \A i \in 1..p : r[m + i] = pads[i]
       /\ \A i \in 1..b : r[(m + p) + i] = body[i]
  <2> DEFINE mp == minus \o pads
  <2>1. body \in Seq(Int) /\ pads \in Seq(Int) /\ minus \in Seq(Int)
    BY <1>4, <1>6, <1>7, <1>9
  <2>2. Joined(mp, minus, pads) /\ Joined(mp \o body, mp, body)
    BY <2>1, ThreeParts
  <2>3. mp \o body = r
    BY <2>1
  <2> HIDE DEF mp, r
  <2>4. Joined(r, mp, body)
    BY <2>2, <2>3
  <2>5. /\ Len(mp) = m + p /\ \A i \in 1..m : mp[i] = minus[i]
        /\ \A i \in 1..p : mp[m + i] = pads[i]
    BY <2>2 DEF Joined
  <2>6. /\ r \in Seq(Int) /\ Len(r) = Len(mp) + b
        /\ \A i \in 1..Len(mp) : r[i] = mp[i]
        /\ \A i \in 1..b : r[Len(mp) + i] = body[i]
    BY <2>4 DEF Joined
  <2> HIDE DEF m, p, b
  <2>7. ASSUME NEW i \in 1..m PROVE r[i] = minus[i]
    <3>1. i \in 1..(m + p)
      BY <1>10
    <3> QED BY <2>5, <2>6, <3>1
  <2>8. ASSUME NEW i \in 1..p PROVE r[m + i] = pads[i]
    <3>1. m + i \in 1..(m + p)
      BY <1>10
    <3> QED BY <2>5, <2>6, <3>1
  <2> QED BY <2>5, <2>6, <2>7, <2>8
<1> HIDE DEF r, m, p, b
<1>12. \A i \in (m + 1)..(m + p) : r[i] = pad
  <2> SUFFICES ASSUME NEW i \in (m + 1)..(m + p) PROVE r[i] = pad
    OBVIOUS
  <2> DEFINE j == i - m
  <2>1. j \in 1..p /\ m + j = i
    BY <1>10
  <2> HIDE DEF j
  <2> QED BY <1>6, <1>11, <2>1 DEF p
<1>13. \A i \in ((m + p) + 1)..((m + p) + b) : r[i] \in DigitChars(radix)
  <2> SUFFICES ASSUME NEW i \in ((m + p) + 1)..((m + p) + b)
               PROVE  r[i] \in DigitChars(radix)
    OBVIOUS
  <2> DEFINE j == i - (m + p)
  <2>1. j \in 1..b /\ (m + p) + j = i
    BY <1>10
  <2> HIDE DEF j
  <2>2. body[j] \in DigitChars(radix)
    BY <1>4, <2>1 DEF b
  <2> QED BY <1>11, <2>1, <2>2
<1>14. neg => m = 1 /\ r[1] = 45
  <2>1. neg => m = 1 /\ 1 \in 1..m
    BY <1>7 DEF m
  <2> QED BY <1>8, <1>11, <2>1
<1> DEFINE Good(sign, from, t) ==
               /\ sign \in 1..Len(r) /\ from \in 1..Len(r)
               /\ from = (IF neg THEN sign + 1 ELSE sign)
               /\ \A i \in 1..(sign - 1) : r[i] \in 1..32
               /\ \A i \in from..Len(r) : r[i] \in DigitChars(radix)
               /\ neg => r[sign] = 45
               /\ t \in Seq(DigitChars(radix)) /\ Worth(t, radix, v % Word)
               /\ Len(r) = (from - 1) + Len(t)
               /\ \A i \in 1..Len(t) : r[(from - 1) + i] = t[i]
<1>15. ASSUME NEW sign, NEW from, NEW t, Good(sign, from, t)
       PROVE  strto(r, radix) = <<val, Len(r) + 1>>
  <2>1. t \in Seq(Int)
    BY <1>9, <1>15
  <2>2. SubSeq(r, from, Len(r)) = t
    <3>1. from \in 1..Len(r) /\ Len(r) = (from - 1) + Len(t)
      BY <1>15
    <3>2. \A i \in 1..Len(t) : r[(from - 1) + i] = t[i]
      BY <1>15
    <3>3. r \in Seq(Int)
      BY <1>11
    <3> HIDE DEF Good
    <3> QED BY <2>1, <3>1, <3>2, <3>3, SuffixIs
  <2>3. Value(t, radix) = v % Word
    BY <1>15, ValueIs
  <2>4. strto(r, radix) = LET x == Value(SubSeq(r, from, Len(r)), radix)
                          IN  <<IF neg THEN (Word - x) % Word ELSE x, Len(r) + 1>>
    BY <1>2, <1>11, <1>15, strtoIs
  <2>5. strto(r, radix) = <<IF neg THEN (Word - (v % Word)) % Word ELSE v % Word, Len(r) + 1>>
    BY <2>2, <2>3, <2>4
  <2> QED BY <1>3, <2>5
<1>16. CASE pad = 32 /\ neg /\ p >= 1
  <2>1. 2 \in (m + 1)..(m + p)
    BY <1>10, <1>14, <1>16
  <2> QED BY <1>1, <1>12, <1>14, <1>16, <2>1
<1>17. CASE pad = 48
  <2> DEFINE t == pads \o body
             from == m + 1
  <2>1. pads \in Seq({48}) /\ {48} \subseteq DigitChars(radix)
    BY <1>6, <1>17 DEF DigitChars
  <2>2. pads \in Seq(DigitChars(radix))
    BY <2>1
  <2>3. t \in Seq(DigitChars(radix)) /\ Worth(t, radix, v % Word)
    BY <1>4, <2>1, <2>2, WorthPadded
  <2>4. Joined(t, pads, body)
    <3>1. pads \in Seq(Int) /\ body \in Seq(Int)
      BY <1>4, <1>9, <2>2
    <3> HIDE DEF Good
    <3> QED BY <3>1, JoinedIs
  <2> HIDE DEF t
  <2>5. Len(t) = p + b /\ (\A i \in 1..p : t[i] = pads[i]) /\ \A i \in 1..b : t[p + i] = body[i]
    BY <2>4 DEF Joined, p, b
  <2>6. ASSUME NEW i \in 1..Len(t) PROVE r[m + i] = t[i]
    <3>1. CASE i <= p
      <4>1. i \in 1..p
        BY <1>10, <2>5, <3>1
      <4> QED BY <1>11, <2>5, <4>1
    <3>2. CASE i > p
      <4> DEFINE j == i - p
      <4>1. j \in 1..b /\ p + j = i /\ (m + p) + j = m + i
        BY <1>10, <2>5, <3>2
      <4> HIDE DEF j
      <4>2. r[(m + p) + j] = t[p + j]
        BY <1>11, <2>5, <4>1
      <4> QED BY <4>1, <4>2
    <3> QED BY <1>10, <2>5, <3>1, <3>2
  <2>7. from - 1 = m /\ from \in 1..Len(r) /\ Len(r) = m + Len(t) /\ 1 \in 1..Len(r)
    <3> HIDE DEF Good
    <3>1. Len(r) = (m + p) + b /\ Len(t) = p + b
      BY <1>11, <2>5
    <3> QED BY <1>10, <3>1
  <2>8. from = IF neg THEN 1 + 1 ELSE 1
    BY <1>7 DEF m
  <2>9. \A i \in from..Len(r) : r[i] \in DigitChars(radix)
    <3> SUFFICES ASSUME NEW i \in from..Len(r) PROVE r[i] \in DigitChars(radix)
      OBVIOUS
    <3> DEFINE j == i - m
    <3> HIDE DEF Good
    <3>0. Len(t) \in Nat /\ Len(r) = m + Len(t) /\ i \in (m + 1)..Len(r)
      BY <1>10, <2>5, <2>7
    <3> HIDE DEF t
    <3>1. j \in 1..Len(t) /\ m + j = i
      BY <1>10, <3>0
    <3> HIDE DEF j, from
    <3>2. t[j] \in DigitChars(radix)
      BY <2>3, <3>1
    <3> QED BY <2>6, <3>1, <3>2
  <2>10. \A i \in 1..Len(t) : r[(from - 1) + i] = t[i]
    BY <2>6, <2>7
  <2>11. Len(r) = (from - 1) + Len(t) /\ \A i \in 1..(1 - 1) : r[i] \in 1..32
    BY <2>7
  <2> HIDE DEF from
  <2>12. Good(1, from, t)
    BY <1>14, <2>3, <2>7, <2>8, <2>9, <2>10, <2>11
  <2> HIDE DEF Good
  <2> QED BY <1>1, <1>15, <2>12
<1>18. CASE pad = 32 /\ ~(neg /\ p >= 1)
  <2> DEFINE from == (m + p) + 1
             sign == IF neg THEN 1 ELSE p + 1
  <2>1. from - 1 = m + p /\ from \in 1..Len(r) /\ Len(r) = (m + p) + b
    BY <1>10, <1>11
  <2>2. m = IF neg THEN 1 ELSE 0
    BY <1>7 DEF m
  <2>3. from = (IF neg THEN sign + 1 ELSE sign) /\ sign \in 1..Len(r)
    BY <1>2, <1>10, <1>11, <1>18, <2>2
  <2>4. \A i \in 1..(sign - 1) : r[i] \in 1..32
    <3> SUFFICES ASSUME NEW i \in 1..(sign - 1) PROVE r[i] \in 1..32
      OBVIOUS
    <3>1. CASE neg
      BY <3>1
    <3>2. CASE ~neg
      <4>1. i \in (m + 1)..(m + p)
        BY <1>10, <2>2, <3>2
      <4>2. r[i] = 32
        BY <1>12, <1>18, <4>1
      <4> QED BY <4>2
    <3> QED BY <3>1, <3>2
  <2>5. neg => r[sign] = 45
    BY <1>14
  <2>6. \A i \in from..Len(r) : r[i] \in DigitChars(radix)
    BY <1>13, <2>1
  <2>7. Len(body) = b /\ \A i \in 1..b : r[(from - 1) + i] = body[i]
    BY <1>11, <2>1 DEF b
  <2> HIDE DEF from, sign
  <2>8. Good(sign, from, body)
    BY <1>4, <2>1, <2>3, <2>4, <2>5, <2>6, <2>7
  <2> HIDE DEF Good
  <2> QED BY <1>1, <1>15, <2>8
<1> QED BY <1>16, <1>17, <1>18

LEMMA TextsAre ==
    ASSUME NEW S, NEW n \in Nat, NEW s \in Texts(S, n)
    PROVE  s \in Seq(S)
<1>1. PICK m \in 0..n : s \in [1..m -> S]
  BY DEF Texts, BoundedSeq, SeqOf
<1>2. m \in Nat
  OBVIOUS
<1> QED BY <1>1, <1>2

LEMMA SeqLarger ==
    ASSUME NEW S, NEW T, S \subseteq T, NEW s \in Seq(S)
    PROVE  s \in Seq(T)
OBVIOUS

LEMMA SearchBoth ==
    ASSUME UtilAssumption, NEW w \in SUBSET (0..(Width - 1))
    PROVE  /\ Sought(ffcw(w), w, Width)
           /\ Sought(ffsw(w), (0..(Width - 1)) \ w, Width)
           /\ (0..(Width - 1)) \ ((0..(Width - 1)) \ w) = w
<1>1. Width \in Nat
  BY DEF UtilAssumption
<1>2. \A x : Sought(ffcw(x), x, Width)
  BY <1>1, SearchIs
<1> QED BY <1>2 DEF ffsw

(* Each of the functions does what it promises, for all of its arguments    *)
(* that a behaviour calls it with.                                          *)
THEOREM NumbersExactHolds == UtilAssumption => (Spec => []NumbersExact)
<1> SUFFICES ASSUME UtilAssumption PROVE Spec => []NumbersExact
  OBVIOUS
<1>1. Init => NumbersExact
  <2> SUFFICES ASSUME Init PROVE NumbersExact
    OBVIOUS
  <2>1. call[1] = "none"
    BY DEF Init
  <2> QED BY <2>1 DEF NumbersExact
<1>2. ASSUME NumbersExact, [Next]_vars PROVE NumbersExact'
  <2>1. CASE CallsNumber
    <3>0. PICK val \in 0..(Word - 1), unsigned \in BOOLEAN, pad \in {32, 48}, radix \in {10, 16},
               digits \in 0..3 :
               Called(<<"FormatNumber", val, unsigned, pad, radix>>,
                      FormatNumber(val, unsigned, pad, radix, digits))
      BY <2>1 DEF CallsNumber
    <3>1. /\ call'[1] = "FormatNumber" /\ call'[2] = val /\ call'[4] = pad
          /\ call'[5] = radix /\ result' = FormatNumber(val, unsigned, pad, radix, digits)
      BY <3>0 DEF Called
    <3>2. digits \in Nat /\ radix \in Radixes
      BY DEF Radixes
    <3> DEFINE r == FormatNumber(val, unsigned, pad, radix, digits)
    <3>3. strto(r, radix) = <<val, Len(r) + 1>> \/ (pad = 32 /\ r[1] = 45 /\ r[2] = 32)
      BY <3>2, NumberReadsBack
    <3>4. result' = r
      BY <3>1
    <3> HIDE DEF r
    <3>5. \/ strto(result', radix) = <<val, Len(result') + 1>>
          \/ pad = 32 /\ result'[1] = 45 /\ result'[2] = 32
      BY <3>3, <3>4
    <3> QED BY <3>1, <3>5 DEF NumbersExact
  <2>2. CASE CallsSearch
    <3>0. PICK w \in SUBSET (0..(Width - 1)) :
               Called(<<"ffcw", w>>, ffcw(w)) \/ Called(<<"ffsw", w>>, ffsw(w))
      BY <2>2 DEF CallsSearch
    <3>1. CASE Called(<<"ffcw", w>>, ffcw(w))
      <4>1. call'[1] = "ffcw" /\ call'[2] = w /\ result' = ffcw(w)
        BY <3>1 DEF Called
      <4>2. Sought(result', w, Width)
        BY <4>1, SearchBoth
      <4> QED BY <4>1, <4>2 DEF NumbersExact, Sought
    <3>2. CASE Called(<<"ffsw", w>>, ffsw(w))
      <4>1. call'[1] = "ffsw" /\ call'[2] = w /\ result' = ffsw(w)
        BY <3>2 DEF Called
      <4>2. Sought(result', (0..(Width - 1)) \ w, Width)
            /\ (0..(Width - 1)) \ ((0..(Width - 1)) \ w) = w
        BY <4>1, SearchBoth
      <4> QED BY <4>1, <4>2 DEF NumbersExact, Sought
    <3> QED BY <3>0, <3>1, <3>2
  <2>3. CASE CallsCalendar
    <3>0. PICK day \in Days, tod \in {0, 3599, 86399} :
               Called(<<"ToCalendar", day, tod>>, ToCalendar(day, tod))
      BY <2>3 DEF CallsCalendar
    <3>1. /\ call'[1] = "ToCalendar" /\ call'[2] = day /\ call'[3] = tod
          /\ result' = ToCalendar(day, tod)
      BY <3>0 DEF Called
    <3>2. day \in Nat /\ tod \in Nat
      BY DEF UtilAssumption
    <3>3. DateOf(day, tod, ToCalendar(day, tod))
      BY <3>2, DateExact
    <3> QED BY <3>1, <3>3 DEF NumbersExact
  <2>4. CASE CallsSum
    <3>0. PICK block \in Texts(0..(ByteSize - 1), MaxText + 1), sum \in {0, 3, Full + 1, 3 * Full} :
               Called(<<"CSum", block, sum>>, CSum(block, sum))
      BY <2>4 DEF CallsSum
    <3>1. /\ call'[1] = "CSum" /\ call'[2] = block /\ call'[3] = sum
          /\ result' = CSum(block, sum)
      BY <3>0 DEF Called
    <3>2. block \in Seq(Nat)
      <4>1. MaxText + 1 \in Nat
        BY DEF UtilAssumption
      <4>2. block \in Seq(0..(ByteSize - 1))
        BY <4>1, TextsAre
      <4>3. 0..(ByteSize - 1) \subseteq Nat
        OBVIOUS
      <4> QED BY <4>2, <4>3, SeqLarger
    <3>3. sum \in Nat
      BY FullIs
    <3>4. /\ result' \in 1..Full
          /\ ipcksum(<<result' \div ByteSize, result' % ByteSize>> \o block, sum) = Full
      BY <3>1, <3>2, <3>3, SumExact
    <3> QED BY <3>1, <3>4 DEF NumbersExact
  <2>5. CASE CallsCrc
    <3>0. PICK block \in Texts(SUBSET {0, 3, 7}, 2), initial \in {{}, 0..15} :
               Called(<<"Checksum", block, initial>>, Checksum(block, initial))
      BY <2>5 DEF CallsCrc
    <3>1. /\ call'[1] = "Checksum" /\ call'[2] = block /\ call'[3] = initial
          /\ result' = Checksum(block, initial)
      BY <3>0 DEF Called
    <3>2. block \in Seq(Bytes)
      <4>1. block \in Seq(SUBSET {0, 3, 7})
        BY TextsAre
      <4>2. SUBSET {0, 3, 7} \subseteq Bytes
        BY DEF Bytes
      <4> QED BY <4>1, <4>2, SeqLarger
    <3>3. initial \in Words
      BY DEF Words
    <3>4. Checksum(block \o <<{b - 8 : b \in result' \ (0..7)}, result' \cap 0..7>>,
                   initial) = {}
      BY <3>1, <3>2, <3>3, ChecksumZero DEF Upper
    <3>5. \A i \in DOMAIN block : \A e \in (SUBSET (0..7)) \ {{}} :
              Checksum([block EXCEPT ![i] = Xor(@, e)], initial) # result'
      BY <3>1, <3>2, <3>3, ChecksumApart DEF Bytes
    <3> QED BY <3>1, <3>4, <3>5 DEF NumbersExact
  <2>6. ASSUME NEW c, NEW r, Called(c, r),
               c[1] \in {"UrlEncode", "UrlDecode", "Split", "strcmp"}
        PROVE  NumbersExact'
    BY <2>6 DEF Called, NumbersExact
  <2>7. CASE UNCHANGED vars
    BY <1>2, <2>7 DEF vars, NumbersExact
  <2>8. CASE CallsEscape
    <3>0. PICK s \in Texts(Chars, MaxText) : \/ Called(<<"UrlEncode", s>>, UrlEncode(s))
                                            \/ Called(<<"UrlDecode", s>>, UrlDecode(s))
      BY <2>8 DEF CallsEscape
    <3> QED BY <2>6, <3>0
  <2>9. CASE CallsSplit
    <3>0. PICK s, d, n : Called(<<"Split", s, d, n>>, Split(s, d, n))
      BY <2>9 DEF CallsSplit
    <3> QED BY <2>6, <3>0
  <2>10. CASE CallsCompare
    <3>0. PICK s1, s2, fold : Called(<<"strcmp", s1, s2, fold>>, strcmp(s1, s2, fold))
      BY <2>10 DEF CallsCompare
    <3> QED BY <2>6, <3>0
  <2> QED BY <1>2, <2>1, <2>2, <2>3, <2>4, <2>5, <2>7, <2>8, <2>9, <2>10 DEF Next
<1> QED BY <1>1, <1>2, PTL DEF Spec

-----------------------------------------------------------------------------
(* Escapes.  What a character is encoded as, and all up to one.             *)
Escaped(c) == c <= 32 \/ c >= 127 \/ c \in Reserved
Code(c) == IF Escaped(c) THEN <<37, UpperDigit(c \div 16), UpperDigit(c % 16)>> ELSE <<c>>
Shown == (33..126) \ (Reserved \ {37})
EncodeFold(g, s, t) == IF t = {} THEN <<>> ELSE g[t \ {Max(t)}] \o Code(s[Max(t)])
Encodes(h, s) ==
    /\ h[0] = <<>> /\ \A i \in 0..Len(s) : h[i] \in Seq(Shown)
    /\ \A i \in 1..Len(s) : h[i] = h[i - 1] \o Code(s[i])

LEMMA UpperDigitIs ==
    ASSUME NEW d \in 0..15
    PROVE  UpperDigit(d) \in Shown /\ ParseHexDigit(UpperDigit(d)) = d
<1>1. UpperDigit(d) = IF d <= 9 THEN d + 48 ELSE d + 55
  BY DEF UpperDigit, ToUpper, Digit
<1>2. UpperDigit(d) \in (48..57) \cup (65..70)
  BY <1>1
<1>3. UpperDigit(d) \in Shown
  BY <1>2 DEF Shown, Reserved
<1>4. ParseHexDigit(UpperDigit(d)) = d
  <2>1. CASE d <= 9
    <3> DEFINE c == UpperDigit(d)
    <3>1. c = d + 48 /\ c \in 48..57
      BY <1>1, <2>1
    <3> HIDE DEF c
    <3>2. ToUpper(c) = c /\ c \notin 65..70
      BY <3>1 DEF ToUpper
    <3>3. ParseHexDigit(c) = c - 48
      BY <3>1, <3>2 DEF ParseHexDigit
    <3> QED BY <3>1, <3>3 DEF c
  <2>2. CASE d > 9
    <3> DEFINE c == UpperDigit(d)
    <3>1. c = d + 55 /\ c \in 65..70
      BY <1>1, <2>2
    <3>2. ToUpper(c) = c /\ c \notin 48..57
      BY <3>1 DEF ToUpper
    <3> HIDE DEF c
    <3>3. ParseHexDigit(c) = (ToUpper(c) - 65) + 10
      BY <3>1, <3>2 DEF ParseHexDigit
    <3> QED BY <3>1, <3>2, <3>3 DEF c
  <2> QED BY <2>1, <2>2
<1> QED BY <1>3, <1>4

LEMMA CodeIs ==
    ASSUME NEW c \in 1..255
    PROVE  /\ Code(c) \in Seq(Shown)
           /\ Escaped(c) => /\ Len(Code(c)) = 3 /\ Code(c)[1] = 37
                            /\ ParseHexDigit(Code(c)[2]) = c \div 16
                            /\ ParseHexDigit(Code(c)[3]) = c % 16
           /\ ~Escaped(c) => Code(c) = <<c>> /\ c # 37
<1>1. c \div 16 \in 0..15 /\ c % 16 \in 0..15
  OBVIOUS
<1>2. CASE Escaped(c)
  <2> DEFINE u == UpperDigit(c \div 16)
             v == UpperDigit(c % 16)
  <2>1. u \in Shown /\ ParseHexDigit(u) = c \div 16
    BY <1>1, UpperDigitIs
  <2>2. v \in Shown /\ ParseHexDigit(v) = c % 16
    BY <1>1, UpperDigitIs
  <2>3. Code(c) = <<37, u, v>>
    BY <1>2 DEF Code
  <2>4. 37 \in Shown
    BY DEF Shown
  <2> HIDE DEF u, v
  <2> QED BY <1>2, <2>1, <2>2, <2>3, <2>4
<1>3. CASE ~Escaped(c)
  <2>1. Code(c) = <<c>>
    BY <1>3 DEF Code
  <2>2. c \in 33..126 /\ c \notin Reserved
    BY <1>3 DEF Escaped
  <2>3. c # 37 /\ c \in Shown
    BY <2>2 DEF Reserved, Shown
  <2> QED BY <1>3, <2>1, <2>3
<1> QED BY <1>2, <1>3

LEMMA EncodeIs ==
    ASSUME NEW s \in Seq(1..255)
    PROVE  \E h : Encodes(h, s) /\ UrlEncode(s) = h[Len(s)]
<1> DEFINE n == Len(s)
           V == Seq(Shown)
           Is(f) == f = [t \in SUBSET DOMAIN s |-> EncodeFold(f, s, t)]
           k == [i \in 1..n |-> [v \in V |-> v \o Code(s[i])]]
           G == CHOOSE f : Is(f)
           h == [i \in 0..n |-> G[1..i]]
<1>1. n \in Nat /\ DOMAIN s = 1..n /\ \A i \in 1..n : s[i] \in 1..255
  BY LenProperties, ElementOfSeq
<1>2. \A v \in V, c \in 1..255 : v \o Code(c) \in V
  <2> SUFFICES ASSUME NEW v \in V, NEW c \in 1..255 PROVE v \o Code(c) \in V
    OBVIOUS
  <2>1. Code(c) \in Seq(Shown)
    BY CodeIs
  <2> QED BY <2>1, ConcatProperties
<1>3. k \in [1..n -> [V -> V]]
  <2> HIDE DEF n, V
  <2>1. \A v \in V, i \in 1..n : v \o Code(s[i]) \in V
    BY <1>1, <1>2
  <2> QED BY <2>1
<1>4. UrlEncode(s) = G[1..n]
  BY <1>1 DEF UrlEncode, FoldLeft, MapThenFoldSet, EncodeFold, Code, Escaped
<1>0. <<>> \in V
  OBVIOUS
<1> HIDE DEF V
<1>5. PICK g \in [SUBSET (1..n) -> V] : Folds(g, n, <<>>, k)
  <2> HIDE DEF n, k, Is, G, h
  <2> QED BY <1>0, <1>1, <1>3, SetFold, Zenon
<1> HIDE DEF n
<1>6. ASSUME NEW t \in SUBSET (1..n) PROVE g[t] = EncodeFold(g, s, t)
  <2>1. CASE t = {}
    BY <1>5, <2>1 DEF EncodeFold, Folds
  <2>2. CASE t # {}
    <3>1. Max(t) \in 1..n
      BY <1>1, <2>2, MaxChosen
    <3>2. k[Max(t)] = [v \in V |-> v \o Code(s[Max(t)])]
      BY <3>1
    <3>3. g[t \ {Max(t)}] \in V
      OBVIOUS
    <3>4. g[t] = k[Max(t)][g[t \ {Max(t)}]]
      BY <1>5, <2>2 DEF Folds
    <3> QED BY <2>2, <3>2, <3>3, <3>4 DEF EncodeFold
  <2> QED BY <2>1, <2>2
<1>7. Is(G)
  <2>1. g = [t \in SUBSET (1..n) |-> g[t]]
    OBVIOUS
  <2>2. g = [t \in SUBSET (1..n) |-> EncodeFold(g, s, t)]
    BY <1>6, <2>1, Zenon
  <2>3. Is(g)
    BY <1>1, <2>2
  <2> HIDE DEF Is
  <2> QED BY <2>3
<1>8. ASSUME NEW t \in SUBSET (1..n) PROVE G[t] = EncodeFold(G, s, t)
  <2> HIDE DEF G
  <2> DEFINE F(x) == EncodeFold(G, s, x)
  <2>1. G = [x \in SUBSET (1..n) |-> F(x)]
    BY <1>1, <1>7
  <2> HIDE DEF F
  <2>2. G[t] = F(t)
    BY <2>1, Zenon
  <2> QED BY <2>2 DEF F
<1> HIDE DEF G, Is
<1>9. h[0] = <<>>
  <2>1. 1..0 = {} /\ {} \in SUBSET (1..n) /\ 0 \in 0..n
    BY <1>1
  <2>2. G[{}] = <<>>
    BY <1>8, <2>1 DEF EncodeFold
  <2> QED BY <2>1, <2>2
<1>10. ASSUME NEW i \in 1..n PROVE h[i] = h[i - 1] \o Code(s[i])
  <2>1. 1..i \in SUBSET (1..n) /\ i \in 1..i /\ i \in 0..n /\ i - 1 \in 0..n
    BY <1>1
  <2>2. Max(1..i) = i /\ (1..i) \ {i} = 1..(i - 1)
    BY <1>1, MaxIs
  <2>3. G[1..i] = EncodeFold(G, s, 1..i)
    BY <1>8, <2>1
  <2>4. G[1..i] = G[1..(i - 1)] \o Code(s[i])
    BY <2>1, <2>2, <2>3 DEF EncodeFold
  <2> QED BY <2>1, <2>4
<1>11. h[n] = G[1..n]
  BY <1>1
<1> HIDE DEF h
<1>12. \A i \in 0..n : h[i] \in V
  <2> DEFINE P == {i \in 0..n : h[i] \in V}
  <2>1. 0 \in P
    BY <1>0, <1>1, <1>9
  <2>2. ASSUME NEW i \in 0..(n - 1), i \in P PROVE i + 1 \in P
    <3>1. i + 1 \in 1..n /\ (i + 1) - 1 = i /\ i + 1 \in 0..n /\ h[i] \in V
      BY <1>1, <2>2
    <3> QED BY <1>1, <1>2, <1>10, <3>1
  <2> HIDE DEF P
  <2>3. \A i \in 0..n : i \in P
    BY <1>1, <2>1, <2>2, Induct
  <2> QED BY <2>3 DEF P
<1>13. Encodes(h, s)
  BY <1>9, <1>10, <1>12 DEF Encodes, n, V
<1> QED BY <1>4, <1>11, <1>13 DEF n

(* Decoding goes from place to place: over an escape with two digits, or    *)
(* over one character.                                                      *)
Spots == Nat \ {0}
Pair(s, i) ==
    /\ Escapes(s, i)
    /\ ParseHexDigit(At(s, i + 1)) # -1 /\ ParseHexDigit(At(s, i + 2)) # -1
DecodeHead(s, i) ==
    IF Pair(s, i) THEN ParseHexDigit(At(s, i + 1)) * 16 + ParseHexDigit(At(s, i + 2)) ELSE s[i]
DecodeNext(s, i) == IF Pair(s, i) THEN i + 3 ELSE i + 1
DecodeStep(g, s, i) ==
    IF i > Len(s) THEN <<>>
    ELSE IF ~Escapes(s, i) THEN <<s[i]>> \o g[i + 1]
    ELSE LET d1 == ParseHexDigit(At(s, i + 1))
             d2 == ParseHexDigit(At(s, i + 2))
         IN  IF d1 # -1 /\ d2 # -1 THEN <<d1 * 16 + d2>> \o g[i + 3]
             ELSE <<37>> \o g[i + 1]
Decodes(g, s) == \A i \in Spots :
    g[i] = IF i > Len(s) THEN <<>> ELSE <<DecodeHead(s, i)>> \o g[DecodeNext(s, i)]

LEMMA DecodeStepIs ==
    ASSUME NEW s, NEW i, NEW g
    PROVE  DecodeStep(g, s, i) =
               IF i > Len(s) THEN <<>> ELSE <<DecodeHead(s, i)>> \o g[DecodeNext(s, i)]
<1>1. CASE Pair(s, i)
  BY <1>1 DEF Pair, DecodeStep, DecodeHead, DecodeNext
<1>2. CASE ~Pair(s, i)
  <2>1. Escapes(s, i) => s[i] = 37
    BY DEF Escapes
  <2> QED BY <1>2, <2>1 DEF Pair, DecodeStep, DecodeHead, DecodeNext
<1> QED BY <1>1, <1>2

LEMMA HexIs ==
    ASSUME NEW c \in Int
    PROVE  ParseHexDigit(c) \in Int
<1>1. CASE c \in 48..57
  <2>1. ToUpper(c) = c /\ c \notin 65..70
    BY <1>1 DEF ToUpper
  <2>2. ParseHexDigit(c) = c - 48
    BY <1>1, <2>1 DEF ParseHexDigit
  <2> QED BY <2>2
<1>2. CASE c \notin 48..57 /\ ToUpper(c) \in 65..70
  <2>1. ParseHexDigit(c) = (ToUpper(c) - 65) + 10
    BY <1>2 DEF ParseHexDigit
  <2> QED BY <1>2, <2>1
<1>3. CASE c \notin 48..57 /\ ToUpper(c) \notin 65..70
  <2>1. ParseHexDigit(c) = -1
    BY <1>3 DEF ParseHexDigit
  <2> QED BY <2>1
<1> QED BY <1>1, <1>2, <1>3

LEMMA PairFits ==
    ASSUME NEW s \in Seq(Int), NEW i \in 1..Len(s), Pair(s, i)
    PROVE  s[i] = 37 /\ i + 2 <= Len(s)
<1>1. Len(s) \in Nat /\ DOMAIN s = 1..Len(s)
  OBVIOUS
<1>2. s[i] = 37 /\ (Len(s) < 2 \/ i <= Len(s) - 2)
  BY DEF Pair, Escapes
<1>3. ~(Len(s) < 2)
  <2> SUFFICES ASSUME Len(s) < 2 PROVE FALSE
    OBVIOUS
  <2>1. i + 1 \notin DOMAIN s
    BY <1>1
  <2>2. At(s, i + 1) = 0
    BY <2>1 DEF At
  <2>3. ToUpper(0) = 0
    BY DEF ToUpper
  <2>4. ParseHexDigit(0) = -1
    BY <2>3 DEF ParseHexDigit
  <2> QED BY <2>2, <2>4 DEF Pair
<1> QED BY <1>1, <1>2, <1>3

LEMMA DecodeStays ==
    ASSUME NEW s \in Seq(Int), NEW i \in Spots, ~(i > Len(s))
    PROVE  /\ DecodeHead(s, i) \in Int
           /\ DecodeNext(s, i) \in Spots /\ DecodeNext(s, i) > i
           /\ DecodeNext(s, i) <= Len(s) + 1
<1>1. i \in 1..Len(s) /\ Len(s) \in Nat /\ s[i] \in Int
  BY LenProperties, ElementOfSeq DEF Spots
<1>2. CASE Pair(s, i)
  <2>1. i + 2 <= Len(s)
    BY <1>1, <1>2, PairFits
  <2>2. i + 1 \in 1..Len(s) /\ i + 2 \in 1..Len(s)
    BY <1>1, <2>1
  <2>3. s[i + 1] \in Int /\ s[i + 2] \in Int /\ DOMAIN s = 1..Len(s)
    BY <2>2, ElementOfSeq, LenProperties
  <2>4. At(s, i + 1) \in Int /\ At(s, i + 2) \in Int
    BY <2>2, <2>3 DEF At
  <2>5. ParseHexDigit(At(s, i + 1)) \in Int /\ ParseHexDigit(At(s, i + 2)) \in Int
    BY <2>4, HexIs
  <2>6. DecodeHead(s, i) \in Int
    BY <1>2, <2>5 DEF DecodeHead
  <2>7. DecodeNext(s, i) = i + 3
    BY <1>2 DEF DecodeNext
  <2> QED BY <1>1, <2>1, <2>6, <2>7 DEF Spots
<1>3. CASE ~Pair(s, i)
  <2>1. DecodeHead(s, i) = s[i] /\ DecodeNext(s, i) = i + 1
    BY <1>3 DEF DecodeHead, DecodeNext
  <2> QED BY <1>1, <2>1 DEF Spots
<1> QED BY <1>2, <1>3

LEMMA DecodeIs ==
    ASSUME NEW s \in Seq(Int)
    PROVE  \E g \in [Spots -> Seq(Int)] : Decodes(g, s) /\ UrlDecode(s) = g[1]
<1> DEFINE V == Seq(Int)
           m == [i \in Spots |-> IF i > Len(s) THEN 0 ELSE (Len(s) + 1) - i]
           T == {i \in Spots : i > Len(s)}
           b == [i \in Spots |-> <<>>]
           n == [i \in Spots |-> IF i \in T THEN i ELSE DecodeNext(s, i)]
           k == [i \in Spots |-> [v \in V |-> IF i \in T THEN v ELSE <<DecodeHead(s, i)>> \o v]]
           Is(f) == f = [i \in Spots |-> DecodeStep(f, s, i)]
           G == CHOOSE f : Is(f)
<1>1. Len(s) \in Nat /\ \A i \in Spots : i \in Nat /\ i >= 1
  BY LenProperties DEF Spots
<1>2. \A i \in Spots : i \notin T => /\ DecodeHead(s, i) \in Int /\ DecodeNext(s, i) \in Spots
                                     /\ DecodeNext(s, i) > i
  BY DecodeStays
<1>3. m \in [Spots -> Nat] /\ T \in SUBSET Spots /\ b \in [Spots -> V]
  BY <1>1
<1>4. n \in [Spots -> Spots]
  BY <1>2
<1>5. k \in [Spots -> [V -> V]]
  <2> SUFFICES ASSUME NEW i \in Spots, i \notin T, NEW v \in V
               PROVE  <<DecodeHead(s, i)>> \o v \in V
    OBVIOUS
  <2>1. <<DecodeHead(s, i)>> \in Seq(Int)
    BY <1>2
  <2> QED BY <2>1, ConcatProperties
<1>6. \A x \in Spots \ T : m[n[x]] < m[x]
  <2> SUFFICES ASSUME NEW x \in Spots, x \notin T PROVE m[n[x]] < m[x]
    OBVIOUS
  <2>1. n[x] \in Spots /\ n[x] > x /\ ~(x > Len(s))
    BY <1>2
  <2> HIDE DEF n
  <2>2. m[x] = (Len(s) + 1) - x /\ m[n[x]] = IF n[x] > Len(s) THEN 0 ELSE (Len(s) + 1) - n[x]
    BY <2>1
  <2> HIDE DEF m
  <2> QED BY <1>1, <2>1, <2>2
<1> HIDE DEF V, m, T, b, n, k
<1>7. PICK g \in [Spots -> V] : Told(g, Spots, T, b, k, n)
  BY <1>3, <1>4, <1>5, <1>6, Recursion
<1>8. ASSUME NEW i \in Spots PROVE g[i] = DecodeStep(g, s, i)
  <2>1. g[i] = IF i \in T THEN b[i] ELSE k[i][g[n[i]]]
    BY <1>7 DEF Told
  <2>2. DecodeStep(g, s, i) =
            IF i > Len(s) THEN <<>> ELSE <<DecodeHead(s, i)>> \o g[DecodeNext(s, i)]
    BY DecodeStepIs
  <2>3. CASE i \in T
    BY <2>1, <2>2, <2>3 DEF T, b
  <2>4. CASE i \notin T
    <3>1. n[i] = DecodeNext(s, i) /\ n[i] \in Spots /\ g[n[i]] \in V
      BY <1>4, <2>4 DEF n
    <3>2. k[i][g[n[i]]] = <<DecodeHead(s, i)>> \o g[n[i]]
      BY <2>4, <3>1 DEF k
    <3>3. ~(i > Len(s))
      BY <2>4 DEF T
    <3> QED BY <2>1, <2>2, <2>4, <3>1, <3>2, <3>3
  <2> QED BY <2>3, <2>4
<1>9. Is(G)
  <2>1. g = [i \in Spots |-> g[i]]
    OBVIOUS
  <2>2. g = [i \in Spots |-> DecodeStep(g, s, i)]
    BY <1>8, <2>1, Zenon
  <2>3. Is(g)
    BY <2>2
  <2> HIDE DEF Is
  <2> QED BY <2>3
<1>10. UrlDecode(s) = G[1]
  BY DEF UrlDecode, DecodeStep, Spots
<1> HIDE DEF G, Is
<1>11. ASSUME NEW i \in Spots PROVE G[i] = DecodeStep(G, s, i)
  <2> DEFINE F(x) == DecodeStep(G, s, x)
  <2>1. G = [x \in Spots |-> F(x)]
    BY <1>9 DEF Is
  <2> HIDE DEF F
  <2>2. G[i] = F(i)
    BY <2>1, Zenon
  <2> QED BY <2>2 DEF F
<1>12. Decodes(G, s)
  BY <1>11, DecodeStepIs DEF Decodes
<1>13. \A i \in Spots : G[i] \in V
  <2> DEFINE Bad == {m[i] : i \in {j \in Spots : G[j] \notin V}}
  <2> SUFFICES ASSUME Bad # {} PROVE FALSE
    OBVIOUS
  <2>1. Bad \in SUBSET Nat
    BY <1>3
  <2>2. PICK y \in Bad : \A z \in Bad : y <= z
    BY <2>1, LeastNatural
  <2>3. PICK i \in Spots : y = m[i] /\ G[i] \notin V
    OBVIOUS
  <2>4. G[i] = IF i > Len(s) THEN <<>> ELSE <<DecodeHead(s, i)>> \o G[DecodeNext(s, i)]
    BY <1>12 DEF Decodes
  <2>5. i \notin T
    <3>1. <<>> \in V
      BY DEF V
    <3> QED BY <2>3, <2>4, <3>1 DEF T
  <2>6. n[i] = DecodeNext(s, i) /\ n[i] \in Spots /\ m[n[i]] < m[i]
    BY <1>4, <1>6, <2>5 DEF n
  <2>7. G[n[i]] \in V
    <3>1. m[n[i]] \notin Bad
      <4>1. m[n[i]] \in Int /\ m[i] \in Int
        BY <1>3, <2>6
      <4> HIDE DEF Bad
      <4> QED BY <2>2, <2>3, <2>6, <4>1
    <3> QED BY <2>6, <3>1
  <2>8. ~(i > Len(s))
    BY <2>5 DEF T
  <2>9. <<DecodeHead(s, i)>> \in Seq(Int)
    BY <1>2, <2>5
  <2>10. G[i] \in V
    BY <2>4, <2>6, <2>7, <2>8, <2>9, ConcatProperties DEF V
  <2> QED BY <2>3, <2>10
<1>14. G \in [Spots -> V]
  <2>1. G = [i \in Spots |-> DecodeStep(G, s, i)]
    BY <1>9 DEF Is
  <2>2. G = [i \in Spots |-> G[i]]
    BY <1>11, <2>1, Zenon
  <2> QED BY <1>13, <2>2
<1> QED BY <1>10, <1>12, <1>14 DEF V

LEMMA ShownAre == /\ Shown \in SUBSET Int
                  /\ \A c \in Shown : c \in 33..126 /\ c \notin Reserved \ {37}
BY DEF Shown

(* What is encoded stays in front of what follows. *)
LEMMA EncodePrefix ==
    ASSUME NEW s \in Seq(1..255), NEW h, Encodes(h, s), NEW i \in 0..Len(s)
    PROVE  /\ Len(h[i]) \in Nat /\ Len(h[i]) <= Len(h[Len(s)])
           /\ \A p \in 1..Len(h[i]) : h[Len(s)][p] = h[i][p]
<1> DEFINE n == Len(s)
           L == Len(h[i])
           P == {d \in 0..(n - i) : L <= Len(h[i + d]) /\ \A p \in 1..L : h[i + d][p] = h[i][p]}
<1>1. n \in Nat /\ i \in Int /\ n - i \in Nat
  BY LenProperties
<1>2. \A j \in 0..n : h[j] \in Seq(Shown) /\ Len(h[j]) \in Nat
  BY LenProperties DEF Encodes
<1>3. 0 \in P
  <2>1. i + 0 = i
    BY <1>1
  <2> QED BY <1>1, <1>2, <2>1
<1>4. ASSUME NEW d \in 0..((n - i) - 1), d \in P PROVE d + 1 \in P
  <2> DEFINE j == i + d
             c == s[j + 1]
  <2>1. /\ j \in 0..n /\ j + 1 \in 1..n /\ j + 1 \in 0..n
        /\ i + (d + 1) = j + 1 /\ d + 1 \in 0..(n - i)
    BY <1>1
  <2>2. h[j + 1] = h[j] \o Code(c)
    <3>1. \A x \in 1..n : h[x] = h[x - 1] \o Code(s[x])
      BY DEF Encodes
    <3>2. (j + 1) - 1 = j
      BY <2>1
    <3> QED BY <2>1, <3>1, <3>2
  <2>3. c \in 1..255
    BY <2>1, ElementOfSeq
  <2>4. Code(c) \in Seq(Shown)
    BY <2>3, CodeIs
  <2>5. h[j] \in Seq(Shown) /\ L <= Len(h[j]) /\ \A p \in 1..L : h[j][p] = h[i][p]
    BY <1>2, <1>4, <2>1
  <2> HIDE DEF j, c, L
  <2>6. Len(h[j]) \in Nat /\ Len(Code(c)) \in Nat /\ L \in Nat
    BY <1>2, <2>4, <2>5, LenProperties DEF L
  <2>7. /\ Len(h[j + 1]) = Len(h[j]) + Len(Code(c))
        /\ \A p \in 1..Len(h[j]) : h[j + 1][p] = h[j][p]
    <3>1. Len(h[j] \o Code(c)) = Len(h[j]) + Len(Code(c))
      BY <2>4, <2>5, ConcatProperties
    <3>2. \A p \in 1..(Len(h[j]) + Len(Code(c))) :
              (h[j] \o Code(c))[p] = IF p <= Len(h[j]) THEN h[j][p] ELSE Code(c)[p - Len(h[j])]
      BY <2>4, <2>5, ConcatProperties
    <3> QED BY <2>2, <2>6, <3>1, <3>2
  <2>8. L <= Len(h[j + 1]) /\ \A p \in 1..L : h[j + 1][p] = h[i][p]
    BY <2>5, <2>6, <2>7
  <2> QED BY <2>1, <2>8
<1>5. \A d \in 0..(n - i) : d \in P
  <2> HIDE DEF P
  <2> QED BY <1>1, <1>3, <1>4, Induct
<1>6. n - i \in P
  <2>1. n - i \in 0..(n - i)
    BY <1>1
  <2> QED BY <1>5, <2>1
<1>7. i + (n - i) = n
  BY <1>1
<1>8. Len(h[i]) \in Nat
  BY <1>2
<1> QED BY <1>6, <1>7, <1>8

(* Where a character is encoded it is decoded, and decoding goes on where   *)
(* the next one is.                                                         *)
LEMMA CodeRead ==
    ASSUME NEW s \in Seq(1..255), NEW h, Encodes(h, s), NEW i \in 1..Len(s)
    PROVE  LET e == h[Len(s)]
               p == Len(h[i - 1]) + 1
           IN  /\ p \in Spots /\ ~(p > Len(e))
               /\ DecodeHead(e, p) = s[i] /\ DecodeNext(e, p) = Len(h[i]) + 1
<1> DEFINE e == h[Len(s)]
           q == Len(h[i - 1])
           p == q + 1
           c == s[i]
           w == Code(c)
           l == Len(w)
<1>1. Len(s) \in Nat /\ i - 1 \in 0..Len(s) /\ i \in 0..Len(s) /\ Len(s) \in 0..Len(s)
  BY LenProperties
<1>2. c \in 1..255
  BY ElementOfSeq
<1>3. w \in Seq(Shown) /\ l \in Nat
  BY <1>2, CodeIs, LenProperties
<1>4. h[i] = h[i - 1] \o w /\ h[i - 1] \in Seq(Shown) /\ e \in Seq(Shown)
  BY <1>1 DEF Encodes
<1>5. q \in Nat /\ Len(e) \in Nat /\ DOMAIN e = 1..Len(e)
  BY <1>4, LenProperties
<1>6. Len(h[i]) = q + l
  BY <1>3, <1>4, ConcatProperties
<1>7. \A x \in 1..(q + l) : h[i][x] = IF x <= q THEN h[i - 1][x] ELSE w[x - q]
  BY <1>3, <1>4, ConcatProperties
<1>8. q + l <= Len(e)
  BY <1>1, <1>6, EncodePrefix
<1>9. \A x \in 1..(q + l) : e[x] = h[i][x]
  <2>1. \A x \in 1..Len(h[i]) : h[Len(s)][x] = h[i][x]
    BY <1>1, EncodePrefix
  <2> HIDE DEF q, l, w, c
  <2> QED BY <1>6, <2>1
<1> HIDE DEF e, q, l, w, c
<1>10. \A x \in 1..l : e[q + x] = w[x]
  <2> SUFFICES ASSUME NEW x \in 1..l PROVE e[q + x] = w[x]
    OBVIOUS
  <2>1. q + x \in 1..(q + l) /\ ~(q + x <= q) /\ (q + x) - q = x
    BY <1>3, <1>5
  <2> QED BY <1>7, <1>9, <2>1
<1>11. CASE Escaped(c)
  <2>1. l = 3
    BY <1>2, <1>11, CodeIs DEF l, w
  <2>2. w[1] = 37 /\ ParseHexDigit(w[2]) = c \div 16 /\ ParseHexDigit(w[3]) = c % 16
    BY <1>2, <1>11, CodeIs DEF w
  <2>3. e[q + 1] = 37 /\ e[q + 2] = w[2] /\ e[q + 3] = w[3]
    BY <1>10, <2>1, <2>2
  <2>4. q + 2 \in DOMAIN e /\ q + 3 \in DOMAIN e /\ p + 1 = q + 2 /\ p + 2 = q + 3
    BY <1>5, <1>8, <2>1
  <2>5. At(e, p + 1) = w[2] /\ At(e, p + 2) = w[3]
    BY <2>3, <2>4 DEF At
  <2>6. Escapes(e, p)
    <3>1. e[p] = 37 /\ p <= Len(e) - 2
      BY <1>5, <1>8, <2>1, <2>3
    <3> QED BY <3>1 DEF Escapes
  <2>7. c \div 16 \in 0..15 /\ c % 16 \in 0..15 /\ (c \div 16) * 16 + (c % 16) = c
    BY <1>2
  <2>8. Pair(e, p)
    <3>1. c \div 16 # -1 /\ c % 16 # -1
      BY <2>7
    <3> HIDE DEF p
    <3> QED BY <2>2, <2>5, <2>6, <3>1 DEF Pair
  <2>9. DecodeHead(e, p) = c
    <3> HIDE DEF p
    <3> QED BY <2>2, <2>5, <2>7, <2>8 DEF DecodeHead
  <2>10. DecodeNext(e, p) = Len(h[i]) + 1
    BY <1>5, <1>6, <2>1, <2>8 DEF DecodeNext
  <2>11. p \in Spots /\ ~(p > Len(e))
    BY <1>5, <1>8, <2>1 DEF Spots
  <2> QED BY <2>9, <2>10, <2>11 DEF e, q, c
<1>12. CASE ~Escaped(c)
  <2>1. w = <<c>> /\ c # 37
    BY <1>2, <1>12, CodeIs DEF w
  <2>2. l = 1 /\ w[1] = c
    BY <2>1 DEF l
  <2>3. e[p] = c
    BY <1>10, <2>2
  <2>4. ~Pair(e, p)
    BY <2>1, <2>3 DEF Pair, Escapes
  <2>5. DecodeHead(e, p) = c
    BY <2>3, <2>4 DEF DecodeHead
  <2>6. DecodeNext(e, p) = Len(h[i]) + 1
    BY <1>5, <1>6, <2>2, <2>4 DEF DecodeNext
  <2>7. p \in Spots /\ ~(p > Len(e))
    BY <1>5, <1>8, <2>2 DEF Spots
  <2> QED BY <2>5, <2>6, <2>7 DEF e, q, c
<1> QED BY <1>11, <1>12

(* A string is what its encoding decodes to, which has only characters that *)
(* may be shown.                                                            *)
LEMMA DecodeEncoded ==
    ASSUME NEW s \in Seq(1..255)
    PROVE  /\ UrlDecode(UrlEncode(s)) = s
           /\ \A c \in Range(UrlEncode(s)) : c \in 33..126 /\ c \notin Reserved \ {37}
<1> DEFINE n == Len(s)
<1>1. PICK h : Encodes(h, s) /\ UrlEncode(s) = h[n]
  BY EncodeIs
<1> DEFINE e == h[n]
<1>2. n \in Nat /\ n \in 0..n
  BY LenProperties
<1>3. e \in Seq(Shown)
  BY <1>1, <1>2 DEF Encodes
<1>4. e \in Seq(Int)
  BY <1>3, SeqLarger, ShownAre
<1>5. PICK g \in [Spots -> Seq(Int)] : Decodes(g, e) /\ UrlDecode(e) = g[1]
  BY <1>4, DecodeIs
<1> DEFINE P == {d \in 0..n : g[Len(h[n - d]) + 1] = SubSeq(s, (n - d) + 1, n)}
<1>6. 0 \in P
  <2>1. Len(e) \in Nat /\ n - 0 = n
    BY <1>2, <1>3, LenProperties
  <2>2. Len(e) + 1 \in Spots /\ Len(e) + 1 > Len(e)
    BY <2>1 DEF Spots
  <2> HIDE DEF e, n
  <2>3. g[Len(e) + 1] = <<>>
    BY <1>5, <2>2 DEF Decodes
  <2>4. SubSeq(s, n + 1, n) = <<>>
    BY <1>2, SubSeqEmpty
  <2>5. h[n - 0] = e /\ (n - 0) + 1 = n + 1
    BY <2>1 DEF e
  <2>6. 0 \in 0..n
    BY <1>2
  <2> QED BY <2>3, <2>4, <2>5, <2>6
<1>7. ASSUME NEW d \in 0..(n - 1), d \in P PROVE d + 1 \in P
  <2> DEFINE i == n - d
             p == Len(h[i - 1]) + 1
  <2>1. i \in 1..n /\ d + 1 \in 0..n /\ n - (d + 1) = i - 1 /\ (i - 1) + 1 = i
    BY <1>2
  <2>2. p \in Spots /\ ~(p > Len(e)) /\ DecodeHead(e, p) = s[i] /\ DecodeNext(e, p) = Len(h[i]) + 1
    BY <1>1, <2>1, CodeRead
  <2>3. g[p] = IF p > Len(e) THEN <<>> ELSE <<DecodeHead(e, p)>> \o g[DecodeNext(e, p)]
    BY <1>5, <2>2 DEF Decodes
  <2>4. g[Len(h[i]) + 1] = SubSeq(s, i + 1, n)
    BY <1>7
  <2> HIDE DEF i, p, e
  <2>5. g[p] = <<s[i]>> \o SubSeq(s, i + 1, n)
    BY <2>2, <2>3, <2>4
  <2>6. <<s[i]>> \o SubSeq(s, i + 1, n) = SubSeq(s, i, n)
    <3>1. n \in i..n
      BY <1>2, <2>1
    <3> QED BY <2>1, <3>1, SubSeqRecursiveFirst DEF n
  <2> QED BY <2>1, <2>5, <2>6 DEF p
<1>8. \A d \in 0..n : d \in P
  <2> HIDE DEF P
  <2> QED BY <1>2, <1>6, <1>7, Induct
<1>9. g[Len(h[0]) + 1] = SubSeq(s, 1, n)
  <2>1. n - n = 0 /\ (n - n) + 1 = 1 /\ n \in P
    BY <1>2, <1>8
  <2> HIDE DEF n
  <2> QED BY <2>1
<1>10. g[1] = s
  <2>1. Len(h[0]) + 1 = 1
    BY <1>1 DEF Encodes
  <2>2. SubSeq(s, 1, n) = s
    BY SubSeqFull
  <2> QED BY <1>9, <2>1, <2>2
<1>11. ASSUME NEW c \in Range(e) PROVE c \in 33..126 /\ c \notin Reserved \ {37}
  <2>1. PICK x \in DOMAIN e : c = e[x]
    BY DEF Range
  <2>2. e[x] \in Shown
    BY <1>3, LenProperties, ElementOfSeq
  <2> QED BY <2>1, <2>2, ShownAre
<1> QED BY <1>1, <1>5, <1>10, <1>11

LEMMA DecodeNotLonger ==
    ASSUME NEW s \in Seq(Int)
    PROVE  Len(UrlDecode(s)) <= Len(s)
<1> DEFINE n == Len(s)
<1>1. PICK g \in [Spots -> Seq(Int)] : Decodes(g, s) /\ UrlDecode(s) = g[1]
  BY DecodeIs
<1>2. n \in Nat
  BY LenProperties
<1> DEFINE Bad == {m \in 0..n : ~(Len(g[(n + 1) - m]) <= m)}
<1>3. Bad = {}
  <2> SUFFICES ASSUME Bad # {} PROVE FALSE
    OBVIOUS
  <2>1. Bad \in SUBSET Nat
    BY <1>2
  <2>2. PICK m \in Bad : \A k \in Bad : m <= k
    BY <2>1, LeastNatural
  <2> DEFINE i == (n + 1) - m
             j == DecodeNext(s, i)
  <2>3. m \in 0..n /\ ~(Len(g[i]) <= m)
    OBVIOUS
  <2>4. i \in Spots /\ i \in Nat /\ i = (n + 1) - m
    BY <1>2, <2>3 DEF Spots
  <2> HIDE DEF Bad, i
  <2>5. g[i] = IF i > n THEN <<>> ELSE <<DecodeHead(s, i)>> \o g[j]
    BY <1>1, <2>4 DEF Decodes
  <2>6. CASE i > n
    <3>1. Len(g[i]) = 0
      BY <2>5, <2>6
    <3> QED BY <2>3, <3>1
  <2>7. CASE ~(i > n)
    <3>1. DecodeHead(s, i) \in Int /\ j \in Spots /\ j > i /\ j <= n + 1
      BY <2>4, <2>7, DecodeStays
    <3> HIDE DEF j
    <3> DEFINE k == (n + 1) - j
    <3>2. k \in 0..n /\ k < m /\ (n + 1) - k = j
      BY <1>2, <2>3, <2>4, <3>1 DEF Spots
    <3>3. k \notin Bad
      BY <2>2, <2>3, <3>2
    <3>4. Len(g[j]) <= k
      BY <3>2, <3>3 DEF Bad
    <3>5. g[j] \in Seq(Int) /\ <<DecodeHead(s, i)>> \in Seq(Int) /\ Len(<<DecodeHead(s, i)>>) = 1
      BY <1>1, <3>1
    <3>6. Len(g[i]) = 1 + Len(g[j])
      BY <2>5, <2>7, <3>5, ConcatProperties
    <3>7. Len(g[j]) \in Nat
      BY <3>5, LenProperties
    <3> QED BY <2>3, <3>2, <3>4, <3>6, <3>7
  <2> QED BY <2>6, <2>7
<1>4. n \in 0..n /\ (n + 1) - n = 1 /\ n \notin Bad
  BY <1>2, <1>3
<1>5. Len(g[1]) <= n
  BY <1>4
<1> QED BY <1>1, <1>5

-----------------------------------------------------------------------------
(* Comparison of strings: by the first place where the characters compared  *)
(* differ or both end.                                                      *)
Letters(s, fold) == IF fold THEN [i \in DOMAIN s |-> ToUpper(s[i])] ELSE s
Precedes(s, t) == \E n \in 0..Len(s) :
    /\ n < Len(t) /\ SubSeq(s, 1, n) = SubSeq(t, 1, n)
    /\ n = Len(s) \/ s[n + 1] < t[n + 1]
KeyAt(s, i, fold) == IF fold THEN ToUpper(At(s, i)) ELSE At(s, i)
Verdict(c, d) == IF c = d THEN 0 ELSE IF c < d THEN -1 ELSE 1
CompareStep(g, s1, s2, fold, i) ==
    LET c1 == KeyAt(s1, i, fold)
        c2 == KeyAt(s2, i, fold)
    IN  IF c1 # 0 /\ c2 # 0
        THEN IF c1 > c2 THEN 1 ELSE IF c1 < c2 THEN -1 ELSE g[i + 1]
        ELSE IF c1 = 0 /\ c2 = 0 THEN 0 ELSE IF c1 = 0 THEN -1 ELSE 1

LEMMA KeysAre ==
    ASSUME NEW s \in Seq(1..255), NEW fold \in BOOLEAN
    PROVE  /\ Letters(s, fold) \in Seq(1..255)
           /\ \A i \in Spots : KeyAt(s, i, fold) = At(Letters(s, fold), i)
<1>1. Len(s) \in Nat /\ DOMAIN s = 1..Len(s)
  BY LenProperties
<1>2. \A i \in 1..Len(s) : s[i] \in 1..255
  BY ElementOfSeq
<1>3. CASE ~fold
  BY <1>3 DEF Letters, KeyAt
<1>4. CASE fold
  <2>1. \A c \in 1..255 : ToUpper(c) \in 1..255
    BY DEF ToUpper
  <2> DEFINE a == [i \in 1..Len(s) |-> ToUpper(s[i])]
  <2>2. Letters(s, fold) = a
    BY <1>1, <1>4 DEF Letters
  <2>3. a \in Seq(1..255)
    <3>1. \A i \in 1..Len(s) : ToUpper(s[i]) \in 1..255
      BY <1>2, <2>1
    <3>2. a \in [1..Len(s) -> 1..255]
      BY <3>1
    <3> DEFINE B == 1..255
    <3>3. a \in [1..Len(s) -> B]
      BY <3>2
    <3> HIDE DEF a, B
    <3>4. a \in Seq(B)
      BY <1>1, <3>3
    <3> QED BY <3>4 DEF B
  <2>4. ASSUME NEW i \in Spots PROVE KeyAt(s, i, fold) = At(a, i)
    <3>1. CASE i \in 1..Len(s)
      BY <1>1, <1>4, <3>1 DEF KeyAt, At
    <3>2. CASE i \notin 1..Len(s)
      <4>1. ToUpper(0) = 0
        BY DEF ToUpper
      <4> QED BY <1>1, <1>4, <3>2, <4>1 DEF KeyAt, At
    <3> QED BY <3>1, <3>2
  <2> QED BY <2>2, <2>3, <2>4
<1> QED BY <1>3, <1>4

LEMMA AtIs ==
    ASSUME NEW a \in Seq(1..255), NEW i \in Spots
    PROVE  /\ At(a, i) \in 0..255 /\ (At(a, i) # 0 <=> i <= Len(a))
           /\ i <= Len(a) => At(a, i) = a[i]
<1>1. Len(a) \in Nat /\ DOMAIN a = 1..Len(a) /\ i \in Nat /\ i >= 1
  BY LenProperties DEF Spots
<1>2. CASE i <= Len(a)
  <2>1. i \in 1..Len(a)
    BY <1>1, <1>2
  <2>2. a[i] \in 1..255
    BY <2>1, ElementOfSeq
  <2>3. At(a, i) = a[i]
    BY <1>1, <2>1 DEF At
  <2>4. At(a, i) \in 1..255
    BY <2>2, <2>3
  <2> DEFINE x == At(a, i)
  <2>5. x \in 0..255 /\ x # 0
    <3>1. \A c \in 1..255 : c \in 0..255 /\ c # 0
      OBVIOUS
    <3> QED BY <2>4, <3>1, Zenon
  <2> HIDE DEF x
  <2>6. x \in 0..255 /\ (x # 0 <=> i <= Len(a))
    BY <1>2, <2>5
  <2> QED BY <2>3, <2>6 DEF x
<1>3. CASE ~(i <= Len(a))
  <2>1. i \notin DOMAIN a
    BY <1>1, <1>3
  <2> QED BY <1>3, <2>1 DEF At
<1> QED BY <1>2, <1>3

LEMMA CompareStepIs ==
    ASSUME NEW a \in Seq(1..255), NEW b \in Seq(1..255), NEW s, NEW t, NEW fold, NEW i \in Spots,
           KeyAt(s, i, fold) = At(a, i), KeyAt(t, i, fold) = At(b, i), NEW g
    PROVE  CompareStep(g, s, t, fold, i) =
               IF At(a, i) # At(b, i) \/ At(a, i) = 0 THEN Verdict(At(a, i), At(b, i))
               ELSE g[i + 1]
<1> DEFINE c == At(a, i)
           d == At(b, i)
<1>1. c \in 0..255 /\ d \in 0..255
  BY AtIs
<1>2. CompareStep(g, s, t, fold, i) =
          IF c # 0 /\ d # 0
          THEN IF c > d THEN 1 ELSE IF c < d THEN -1 ELSE g[i + 1]
          ELSE IF c = 0 /\ d = 0 THEN 0 ELSE IF c = 0 THEN -1 ELSE 1
  BY DEF CompareStep
<1> HIDE DEF c, d
<1>3. CompareStep(g, s, t, fold, i) = IF c # d \/ c = 0 THEN Verdict(c, d) ELSE g[i + 1]
  <2>1. CASE c = d /\ c # 0
    BY <1>1, <1>2, <2>1
  <2>2. CASE c = d /\ c = 0
    BY <1>1, <1>2, <2>2 DEF Verdict
  <2>3. CASE c < d
    BY <1>1, <1>2, <2>3 DEF Verdict
  <2>4. CASE c > d
    BY <1>1, <1>2, <2>4 DEF Verdict
  <2> QED BY <1>1, <2>1, <2>2, <2>3, <2>4
<1> QED BY <1>3 DEF c, d

(* The first place at which comparison ends. *)
Ends(a, b, p) ==
    /\ p \in Spots /\ (At(a, p) # At(b, p) \/ At(a, p) = 0)
    /\ \A j \in 1..(p - 1) : At(a, j) = At(b, j) /\ At(a, j) # 0

LEMMA CompareIs ==
    ASSUME NEW s \in Seq(1..255), NEW t \in Seq(1..255), NEW fold \in BOOLEAN
    PROVE  \E p : /\ Ends(Letters(s, fold), Letters(t, fold), p)
                  /\ strcmp(s, t, fold) =
                         Verdict(At(Letters(s, fold), p), At(Letters(t, fold), p))
<1> DEFINE V == {-1, 0, 1}
           u == Letters(s, fold)
           v == Letters(t, fold)
           T == {i \in Spots : At(u, i) # At(v, i) \/ At(u, i) = 0}
           m == [i \in Spots |-> IF i > Len(u) THEN 0 ELSE (Len(u) + 1) - i]
           b == [i \in Spots |-> Verdict(At(u, i), At(v, i))]
           n == [i \in Spots |-> i + 1]
           k == [i \in Spots |-> [x \in V |-> x]]
           Is(f) == f = [i \in Spots |-> CompareStep(f, s, t, fold, i)]
           G == CHOOSE f : Is(f)
<1>1. u \in Seq(1..255) /\ v \in Seq(1..255)
  BY KeysAre
<1>2. \A i \in Spots : KeyAt(s, i, fold) = At(u, i) /\ KeyAt(t, i, fold) = At(v, i)
  BY KeysAre
<1> HIDE DEF u, v
<1>3. Len(u) \in Nat /\ \A i \in Spots : i \in Nat /\ i >= 1 /\ i + 1 \in Spots
  BY <1>1, LenProperties DEF Spots
<1>4. m \in [Spots -> Nat] /\ T \in SUBSET Spots /\ n \in [Spots -> Spots]
  <2>1. ASSUME NEW i \in Spots, ~(i > Len(u)) PROVE (Len(u) + 1) - i \in Nat
    <3> DEFINE l == Len(u)
    <3>1. l \in Nat /\ i \in Nat /\ ~(i > l)
      BY <1>3, <2>1
    <3> HIDE DEF l
    <3>2. (l + 1) - i \in Nat
      BY <3>1
    <3> QED BY <3>2 DEF l
  <2>2. m \in [Spots -> Nat]
    BY <2>1
  <2>3. n \in [Spots -> Spots]
    BY <1>3
  <2> QED BY <2>2, <2>3
<1>5. b \in [Spots -> V] /\ k \in [Spots -> [V -> V]]
  BY DEF Verdict
<1>6. \A x \in Spots \ T : m[n[x]] < m[x]
  <2> SUFFICES ASSUME NEW x \in Spots, x \notin T PROVE m[n[x]] < m[x]
    OBVIOUS
  <2>1. x <= Len(u)
    BY <1>1, AtIs
  <2>2. n[x] = x + 1 /\ n[x] \in Spots
    BY <1>3
  <2> HIDE DEF n
  <2>3. m[n[x]] = IF x + 1 > Len(u) THEN 0 ELSE (Len(u) + 1) - (x + 1)
    BY <2>2
  <2>4. m[x] = (Len(u) + 1) - x
    <3> DEFINE l == Len(u)
    <3>2. l \in Nat /\ x \in Nat /\ x <= l
      BY <1>3, <2>1
    <3> HIDE DEF l
    <3>3. ~(x > l)
      BY <3>2
    <3>1. ~(x > Len(u))
      BY <3>3 DEF l
    <3> QED BY <3>1
  <2> HIDE DEF m
  <2> QED BY <1>3, <2>1, <2>3, <2>4
<1> HIDE DEF V, m, T, b, n, k
<1>7. PICK g \in [Spots -> V] : Told(g, Spots, T, b, k, n)
  BY <1>4, <1>5, <1>6, Recursion
<1>8. ASSUME NEW i \in Spots, NEW f
      PROVE  CompareStep(f, s, t, fold, i) = IF i \in T THEN b[i] ELSE f[i + 1]
  <2>1. CompareStep(f, s, t, fold, i) =
            IF At(u, i) # At(v, i) \/ At(u, i) = 0 THEN Verdict(At(u, i), At(v, i)) ELSE f[i + 1]
    BY <1>1, <1>2, CompareStepIs
  <2> QED BY <2>1 DEF T, b
<1>9. ASSUME NEW i \in Spots PROVE g[i] = CompareStep(g, s, t, fold, i)
  <2>1. g[i] = IF i \in T THEN b[i] ELSE k[i][g[n[i]]]
    BY <1>7 DEF Told
  <2>2. CASE i \in T
    BY <1>8, <2>1, <2>2
  <2>3. CASE i \notin T
    <3>1. n[i] = i + 1 /\ g[i + 1] \in V
      BY <1>3 DEF n
    <3>2. k[i][g[i + 1]] = g[i + 1]
      BY <3>1 DEF k
    <3> QED BY <1>8, <2>1, <2>3, <3>1, <3>2
  <2> QED BY <2>2, <2>3
<1>10. Is(G)
  <2>1. g = [i \in Spots |-> g[i]]
    OBVIOUS
  <2>2. g = [i \in Spots |-> CompareStep(g, s, t, fold, i)]
    BY <1>9, <2>1, Zenon
  <2>3. Is(g)
    BY <2>2
  <2> HIDE DEF Is
  <2> QED BY <2>3
<1>11. strcmp(s, t, fold) = G[1]
  BY DEF strcmp, CompareStep, KeyAt, Spots
<1> HIDE DEF G, Is
<1>12. ASSUME NEW i \in Spots PROVE G[i] = IF i \in T THEN b[i] ELSE G[i + 1]
  <2> DEFINE F(x) == CompareStep(G, s, t, fold, x)
  <2>1. G = [x \in Spots |-> F(x)]
    BY <1>10 DEF Is
  <2> HIDE DEF F
  <2>2. G[i] = F(i)
    BY <2>1, Zenon
  <2> QED BY <1>8, <2>2 DEF F
<1>13. PICK p \in T : \A j \in T : p <= j
  <2>1. Len(u) + 1 \in Spots
    BY <1>3 DEF Spots
  <2>2. At(u, Len(u) + 1) = 0
    <3>1. ~(Len(u) + 1 <= Len(u))
      BY <1>3
    <3> QED BY <1>1, <2>1, <3>1, AtIs
  <2>3. T # {} /\ T \in SUBSET Nat
    BY <1>3, <2>1, <2>2 DEF T
  <2> QED BY <2>3, LeastNatural
<1>14. p \in Spots /\ p \in Nat /\ p >= 1
  BY <1>3 DEF T
<1>15. \A j \in 1..(p - 1) : j \in Spots /\ j \notin T
  BY <1>13, <1>14 DEF Spots
<1> DEFINE P == {d \in 0..(p - 1) : G[1] = G[1 + d]}
<1>16. \A d \in 0..(p - 1) : d \in P
  <2>1. p - 1 \in Nat /\ 0 \in P
    BY <1>14
  <2>2. ASSUME NEW d \in 0..((p - 1) - 1), d \in P PROVE d + 1 \in P
    <3>1. d + 1 \in 1..(p - 1) /\ d + 1 \in 0..(p - 1) /\ 1 + d = d + 1 /\ 1 + (d + 1) = (d + 1) + 1
      BY <1>14
    <3>2. G[d + 1] = G[(d + 1) + 1]
      BY <1>12, <1>15, <3>1
    <3> QED BY <2>2, <3>1, <3>2
  <2> HIDE DEF P
  <2> QED BY <2>1, <2>2, Induct
<1>17. G[1] = G[p]
  <2>1. p - 1 \in 0..(p - 1) /\ 1 + (p - 1) = p
    BY <1>14
  <2>2. p - 1 \in P
    BY <1>16, <2>1
  <2> QED BY <2>1, <2>2
<1>18. G[p] = Verdict(At(u, p), At(v, p))
  BY <1>12, <1>14 DEF b
<1>19. Ends(u, v, p)
  <2>1. At(u, p) # At(v, p) \/ At(u, p) = 0
    BY <1>13 DEF T
  <2>2. \A j \in 1..(p - 1) : At(u, j) = At(v, j) /\ At(u, j) # 0
    BY <1>15 DEF T
  <2> QED BY <1>14, <2>1, <2>2 DEF Ends
<1> QED BY <1>11, <1>17, <1>18, <1>19 DEF u, v

LEMMA FrontEqual ==
    ASSUME NEW a \in Seq(1..255), NEW b \in Seq(1..255), NEW n \in Nat,
           n <= Len(a), n <= Len(b), \A i \in 1..n : a[i] = b[i]
    PROVE  SubSeq(a, 1, n) = SubSeq(b, 1, n)
<1>1. Len(a) \in Nat /\ Len(b) \in Nat
  BY LenProperties
<1>2. \A i \in 1..n : a[i] \in 1..255 /\ b[i] \in 1..255
  <2> SUFFICES ASSUME NEW i \in 1..n PROVE a[i] \in 1..255 /\ b[i] \in 1..255
    OBVIOUS
  <2>1. i \in 1..Len(a) /\ i \in 1..Len(b)
    BY <1>1
  <2> QED BY <2>1, ElementOfSeq
<1>3. SubSeq(a, 1, n) \in Seq(1..255) /\ SubSeq(b, 1, n) \in Seq(1..255)
  BY <1>2, SubSeqProperties
<1>4. Len(SubSeq(a, 1, n)) = n /\ \A i \in 1..n : SubSeq(a, 1, n)[i] = a[i]
  <2>1. Len(SubSeq(a, 1, n)) = IF 1 <= n THEN (n - 1) + 1 ELSE 0
    BY <1>2, SubSeqProperties
  <2>2. \A i \in 1..((n - 1) + 1) : SubSeq(a, 1, n)[i] = a[(1 + i) - 1]
    BY <1>2, SubSeqProperties
  <2> QED BY <2>1, <2>2
<1>5. Len(SubSeq(b, 1, n)) = n /\ \A i \in 1..n : SubSeq(b, 1, n)[i] = b[i]
  <2>1. Len(SubSeq(b, 1, n)) = IF 1 <= n THEN (n - 1) + 1 ELSE 0
    BY <1>2, SubSeqProperties
  <2>2. \A i \in 1..((n - 1) + 1) : SubSeq(b, 1, n)[i] = b[(1 + i) - 1]
    BY <1>2, SubSeqProperties
  <2> QED BY <2>1, <2>2
<1>6. \A i \in 1..n : SubSeq(a, 1, n)[i] = SubSeq(b, 1, n)[i]
  BY <1>4, <1>5
<1> DEFINE x == SubSeq(a, 1, n)
           y == SubSeq(b, 1, n)
<1> HIDE DEF x, y
<1>7. x \in Seq(1..255) /\ y \in Seq(1..255) /\ Len(x) = Len(y) /\ \A i \in 1..Len(x) : x[i] = y[i]
  BY <1>3, <1>4, <1>5, <1>6 DEF x, y
<1>8. x = y
  BY <1>7, SeqEqual
<1> QED BY <1>8 DEF x, y

LEMMA FrontSame ==
    ASSUME NEW a \in Seq(1..255), NEW b \in Seq(1..255), NEW n \in Nat,
           n <= Len(a), n <= Len(b), SubSeq(a, 1, n) = SubSeq(b, 1, n)
    PROVE  \A i \in 1..n : a[i] = b[i]
<1>1. Len(a) \in Nat /\ Len(b) \in Nat
  BY LenProperties
<1>2. \A i \in 1..n : a[i] \in 1..255 /\ b[i] \in 1..255
  <2> SUFFICES ASSUME NEW i \in 1..n PROVE a[i] \in 1..255 /\ b[i] \in 1..255
    OBVIOUS
  <2>1. i \in 1..Len(a) /\ i \in 1..Len(b)
    BY <1>1
  <2> QED BY <2>1, ElementOfSeq
<1>3. \A i \in 1..((n - 1) + 1) : SubSeq(a, 1, n)[i] = a[(1 + i) - 1]
  BY <1>2, SubSeqProperties
<1>4. \A i \in 1..((n - 1) + 1) : SubSeq(b, 1, n)[i] = b[(1 + i) - 1]
  BY <1>2, SubSeqProperties
<1>5. \A i \in 1..n : i \in 1..((n - 1) + 1) /\ (1 + i) - 1 = i
  OBVIOUS
<1> QED BY <1>3, <1>4, <1>5

LEMMA VerdictIs ==
    ASSUME NEW a \in Seq(1..255), NEW b \in Seq(1..255), NEW p, Ends(a, b, p)
    PROVE  Verdict(At(a, p), At(b, p)) = IF a = b THEN 0 ELSE IF Precedes(a, b) THEN -1 ELSE 1
<1> DEFINE c == At(a, p)
           d == At(b, p)
<1>1. p \in Spots /\ p \in Nat /\ p >= 1
  BY DEF Ends, Spots
<1>2. Len(a) \in Nat /\ Len(b) \in Nat
  BY LenProperties
<1>3. c \in 0..255 /\ d \in 0..255 /\ (c # d \/ c = 0)
  BY <1>1, AtIs DEF Ends
<1>4. ASSUME NEW j \in 1..(p - 1)
      PROVE  j <= Len(a) /\ j <= Len(b) /\ a[j] = b[j]
  <2>1. At(a, j) = At(b, j) /\ At(a, j) # 0 /\ j \in Spots
    BY DEF Ends, Spots
  <2>2. j <= Len(a) /\ At(a, j) = a[j]
    BY <2>1, AtIs
  <2>3. j <= Len(b) /\ At(b, j) = b[j]
    BY <2>1, AtIs
  <2> QED BY <2>1, <2>2, <2>3
<1>5. p - 1 <= Len(a) /\ p - 1 <= Len(b)
  <2>1. CASE p = 1
    BY <1>2, <2>1
  <2>2. CASE p # 1
    <3>1. p - 1 \in 1..(p - 1)
      BY <1>1, <2>2
    <3> QED BY <1>4, <3>1
  <2> QED BY <2>1, <2>2
<1>6. (c # 0 <=> p <= Len(a)) /\ (p <= Len(a) => c = a[p])
  BY <1>1, AtIs
<1>7. (d # 0 <=> p <= Len(b)) /\ (p <= Len(b) => d = b[p])
  BY <1>1, AtIs
<1>8. a = b => c = d
  OBVIOUS
<1> HIDE DEF c, d
<1>9. CASE c = 0 /\ d = 0
  <2>1. Len(a) = p - 1 /\ Len(b) = p - 1
    BY <1>1, <1>2, <1>5, <1>6, <1>7, <1>9
  <2>2. \A i \in 1..Len(a) : a[i] = b[i]
    BY <1>4, <2>1
  <2>3. a = b
    BY <2>1, <2>2, SeqEqual
  <2> QED BY <1>9, <2>3 DEF Verdict, c, d
<1>10. CASE c < d
  <2>1. c # d /\ d # 0
    BY <1>3, <1>10
  <2> DEFINE n == p - 1
  <2>2. n \in 0..Len(a) /\ n < Len(b) /\ n \in Nat /\ n <= Len(a) /\ n <= Len(b)
    BY <1>1, <1>2, <1>5, <1>7, <2>1
  <2>3. SubSeq(a, 1, n) = SubSeq(b, 1, n)
    <3>1. \A i \in 1..n : a[i] = b[i]
      BY <1>4
    <3> HIDE DEF n
    <3> QED BY <2>2, <3>1, FrontEqual
  <2>4. n = Len(a) \/ a[n + 1] < b[n + 1]
    <3>1. n + 1 = p
      BY <1>1
    <3>2. CASE c = 0
      BY <1>1, <1>2, <1>5, <1>6, <3>2
    <3>3. CASE c # 0
      BY <1>6, <1>7, <1>10, <2>1, <3>1, <3>3
    <3> QED BY <3>2, <3>3
  <2>5. Precedes(a, b)
    <3> HIDE DEF n
    <3> QED BY <2>2, <2>3, <2>4 DEF Precedes
  <2> QED BY <1>8, <1>10, <2>1, <2>5 DEF Verdict, c, d
<1>11. CASE c > d
  <2>1. c # d /\ c # 0 /\ p <= Len(a)
    BY <1>3, <1>6, <1>11
  <2>2. ~Precedes(a, b)
    <3> SUFFICES ASSUME Precedes(a, b) PROVE FALSE
      OBVIOUS
    <3>1. PICK n \in 0..Len(a) : /\ n < Len(b) /\ SubSeq(a, 1, n) = SubSeq(b, 1, n)
                                 /\ n = Len(a) \/ a[n + 1] < b[n + 1]
      BY DEF Precedes
    <3>2. n \in Nat /\ n <= Len(a) /\ n <= Len(b)
      BY <1>2, <3>1
    <3>3. \A i \in 1..n : a[i] = b[i]
      BY <3>1, <3>2, FrontSame
    <3>4. CASE n >= p
      <4>1. p \in 1..n /\ p <= Len(b)
        BY <1>1, <3>2, <3>4
      <4>2. a[p] = b[p]
        BY <3>3, <4>1
      <4> QED BY <1>6, <1>7, <2>1, <4>1, <4>2
    <3>5. CASE n < p
      <4>1. n # Len(a)
        BY <1>1, <1>2, <2>1, <3>2, <3>5
      <4>2. a[n + 1] < b[n + 1]
        BY <3>1, <4>1
      <4>3. CASE n + 1 < p
        <5>1. n + 1 \in 1..(p - 1)
          BY <1>1, <3>2, <4>3
        <5>2. a[n + 1] = b[n + 1] /\ n + 1 <= Len(a)
          BY <1>4, <5>1
        <5>3. n + 1 \in 1..Len(a)
          BY <3>2, <5>2
        <5>4. a[n + 1] \in 1..255
          BY <5>3, ElementOfSeq
        <5>5. a[n + 1] < a[n + 1]
          BY <4>2, <5>2
        <5> DEFINE x == a[n + 1]
        <5>6. x \in 1..255 /\ x < x
          BY <5>4, <5>5
        <5> HIDE DEF x
        <5> QED BY <5>6
      <4>4. CASE n + 1 = p
        <5>1. p <= Len(b)
          BY <1>2, <3>1, <3>2, <4>4
        <5>2. c < d
          BY <1>6, <1>7, <2>1, <4>2, <4>4, <5>1
        <5> QED BY <1>3, <1>11, <5>2
      <4> QED BY <1>1, <3>2, <3>5, <4>3, <4>4
    <3> QED BY <1>1, <3>2, <3>4, <3>5
  <2>3. ~(c < d)
    BY <1>3, <1>11
  <2> QED BY <1>8, <2>1, <2>2, <2>3 DEF Verdict, c, d
<1> QED BY <1>3, <1>9, <1>10, <1>11

-----------------------------------------------------------------------------
(* Splitting.  Pieces joined from the left, by a divider.                   *)
JoinedBy(x, t, d) == FoldLeft(LAMBDA r, piece : r \o d \o piece, x, t)
JoinFold(g, x, t, d, u) == IF u = {} THEN x ELSE g[u \ {Max(u)}] \o d \o t[Max(u)]
Joins(h, x, t, d, S) ==
    /\ h[0] = x /\ \A i \in 0..Len(t) : h[i] \in Seq(S)
    /\ \A i \in 1..Len(t) : h[i] = (h[i - 1] \o d) \o t[i]

LEMMA JoinIs ==
    ASSUME NEW S, NEW x \in Seq(S), NEW d \in Seq(S), NEW t \in Seq(Seq(S))
    PROVE  \E h : Joins(h, x, t, d, S) /\ JoinedBy(x, t, d) = h[Len(t)]
<1> DEFINE n == Len(t)
           V == Seq(S)
           k == [i \in 1..n |-> [v \in V |-> (v \o d) \o t[i]]]
           Is(f) == f = [u \in SUBSET (1..n) |-> JoinFold(f, x, t, d, u)]
           G == CHOOSE f : Is(f)
           h == [i \in 0..n |-> G[1..i]]
<1>1. n \in Nat /\ DOMAIN t = 1..n /\ (\A i \in 1..n : t[i] \in V) /\ x \in V /\ d \in V
  BY LenProperties, ElementOfSeq
<1>2. \A v \in V, w \in V : (v \o d) \o w \in V
  <2> SUFFICES ASSUME NEW v \in V, NEW w \in V PROVE (v \o d) \o w \in V
    OBVIOUS
  <2>1. v \o d \in V
    BY ConcatProperties
  <2> QED BY <2>1, ConcatProperties
<1>3. k \in [1..n -> [V -> V]]
  <2> HIDE DEF n, V
  <2>1. \A v \in V, i \in 1..n : (v \o d) \o t[i] \in V
    BY <1>1, <1>2
  <2> QED BY <2>1
<1>4. JoinedBy(x, t, d) = G[1..n]
  BY <1>1 DEF JoinedBy, FoldLeft, MapThenFoldSet, JoinFold
<1> HIDE DEF V
<1>5. PICK g \in [SUBSET (1..n) -> V] : Folds(g, n, x, k)
  <2> HIDE DEF n, k, Is, G, h
  <2> QED BY <1>1, <1>3, SetFold, Zenon
<1> HIDE DEF n
<1>6. ASSUME NEW u \in SUBSET (1..n) PROVE g[u] = JoinFold(g, x, t, d, u)
  <2>1. CASE u = {}
    BY <1>5, <2>1 DEF JoinFold, Folds
  <2>2. CASE u # {}
    <3>1. Max(u) \in 1..n
      BY <1>1, <2>2, MaxChosen
    <3>2. k[Max(u)] = [v \in V |-> (v \o d) \o t[Max(u)]]
      BY <3>1
    <3>3. g[u \ {Max(u)}] \in V
      OBVIOUS
    <3>4. g[u] = k[Max(u)][g[u \ {Max(u)}]]
      BY <1>5, <2>2 DEF Folds
    <3> QED BY <2>2, <3>2, <3>3, <3>4 DEF JoinFold
  <2> QED BY <2>1, <2>2
<1>7. Is(G)
  <2>1. g = [u \in SUBSET (1..n) |-> g[u]]
    OBVIOUS
  <2>2. g = [u \in SUBSET (1..n) |-> JoinFold(g, x, t, d, u)]
    BY <1>6, <2>1, Zenon
  <2>3. Is(g)
    BY <1>1, <2>2
  <2> HIDE DEF Is
  <2> QED BY <2>3
<1>8. ASSUME NEW u \in SUBSET (1..n) PROVE G[u] = JoinFold(G, x, t, d, u)
  <2> HIDE DEF G
  <2> DEFINE F(y) == JoinFold(G, x, t, d, y)
  <2>1. G = [y \in SUBSET (1..n) |-> F(y)]
    BY <1>1, <1>7
  <2> HIDE DEF F
  <2>2. G[u] = F(u)
    BY <2>1, Zenon
  <2> QED BY <2>2 DEF F
<1> HIDE DEF G, Is
<1>9. h[0] = x
  <2>1. 1..0 = {} /\ {} \in SUBSET (1..n) /\ 0 \in 0..n
    BY <1>1
  <2>2. G[{}] = x
    BY <1>8, <2>1 DEF JoinFold
  <2> QED BY <2>1, <2>2
<1>10. ASSUME NEW i \in 1..n PROVE h[i] = (h[i - 1] \o d) \o t[i]
  <2>1. 1..i \in SUBSET (1..n) /\ i \in 1..i /\ i \in 0..n /\ i - 1 \in 0..n
    BY <1>1
  <2>2. Max(1..i) = i /\ (1..i) \ {i} = 1..(i - 1)
    BY <1>1, MaxIs
  <2>3. G[1..i] = JoinFold(G, x, t, d, 1..i)
    BY <1>8, <2>1
  <2>4. G[1..i] = (G[1..(i - 1)] \o d) \o t[i]
    BY <2>1, <2>2, <2>3 DEF JoinFold
  <2> QED BY <2>1, <2>4
<1>11. h[n] = G[1..n]
  BY <1>1
<1> HIDE DEF h
<1>12. \A i \in 0..n : h[i] \in V
  <2> DEFINE P == {i \in 0..n : h[i] \in V}
  <2>1. 0 \in P
    BY <1>1, <1>9
  <2>2. ASSUME NEW i \in 0..(n - 1), i \in P PROVE i + 1 \in P
    <3>1. i + 1 \in 1..n /\ (i + 1) - 1 = i /\ i + 1 \in 0..n /\ h[i] \in V
      BY <1>1, <2>2
    <3> QED BY <1>1, <1>2, <1>10, <3>1
  <2> HIDE DEF P
  <2>3. \A i \in 0..n : i \in P
    BY <1>1, <2>1, <2>2, Induct
  <2> QED BY <2>3 DEF P
<1>13. Joins(h, x, t, d, S)
  BY <1>9, <1>10, <1>12 DEF Joins, n, V
<1> QED BY <1>4, <1>11, <1>13 DEF n

(* However sequences are joined, they give the same one. *)
JoinOf(a, b, d, S) ==
    /\ d \in Seq(S) /\ Len(d) = Len(a) + Len(b)
    /\ \A x \in 1..(Len(a) + Len(b)) : d[x] = IF x <= Len(a) THEN a[x] ELSE b[x - Len(a)]
LEMMA JoinHas ==
    ASSUME NEW S, NEW a \in Seq(S), NEW b \in Seq(S)
    PROVE  JoinOf(a, b, a \o b, S)
<1>1. a \o b \in Seq(S)
  BY ConcatProperties
<1>2. Len(a \o b) = Len(a) + Len(b)
  BY ConcatProperties
<1>3. \A x \in 1..(Len(a) + Len(b)) :
          (a \o b)[x] = IF x <= Len(a) THEN a[x] ELSE b[x - Len(a)]
  BY ConcatProperties
<1> QED BY <1>1, <1>2, <1>3 DEF JoinOf

Assoc(a, b, c) == a \o (b \o c) = (a \o b) \o c
LEMMA Associated ==
    ASSUME NEW S, NEW a \in Seq(S), NEW b \in Seq(S), NEW c \in Seq(S)
    PROVE  Assoc(a, b, c)
<1> DEFINE d == a \o b
           e == b \o c
           l == a \o e
           r == d \o c
           i == Len(a)
           j == Len(b)
           k == Len(c)
<1>1. i \in Nat /\ j \in Nat /\ k \in Nat
  BY LenProperties
<1>2. JoinOf(a, b, d, S) /\ JoinOf(b, c, e, S)
  BY JoinHas
<1>3. d \in Seq(S) /\ e \in Seq(S)
  BY <1>2 DEF JoinOf
<1> HIDE DEF d, e
<1>4. JoinOf(a, e, l, S) /\ JoinOf(d, c, r, S)
  BY <1>3, JoinHas
<1>5. l \in Seq(S) /\ r \in Seq(S)
  BY <1>4 DEF JoinOf
<1> HIDE DEF l, r
<1>6. Len(d) = i + j /\ Len(e) = j + k /\ Len(l) = i + (j + k) /\ Len(r) = (i + j) + k
  BY <1>2, <1>4 DEF JoinOf
<1>7. /\ \A x \in 1..(i + j) : d[x] = IF x <= i THEN a[x] ELSE b[x - i]
      /\ \A x \in 1..(j + k) : e[x] = IF x <= j THEN b[x] ELSE c[x - j]
      /\ \A x \in 1..(i + (j + k)) : l[x] = IF x <= i THEN a[x] ELSE e[x - i]
      /\ \A x \in 1..((i + j) + k) : r[x] = IF x <= i + j THEN d[x] ELSE c[x - (i + j)]
  BY <1>2, <1>4, <1>6 DEF JoinOf
<1> HIDE DEF i, j, k
<1>8. ASSUME NEW x \in 1..(i + (j + k)) PROVE l[x] = r[x]
  <2>1. /\ x \in 1..((i + j) + k) /\ x \in Nat /\ x >= 1 /\ x <= i + j + k
    BY ONLY <1>1, <1>8
  <2>2. CASE x <= i
    <3>1. x \in 1..(i + j) /\ x <= i + j
      BY ONLY <1>1, <2>1, <2>2
    <3>2. l[x] = a[x]
      BY ONLY <1>7, <1>8, <2>2
    <3>3. r[x] = d[x] /\ d[x] = a[x]
      BY ONLY <1>7, <2>1, <2>2, <3>1
    <3> QED BY ONLY <3>2, <3>3
  <2>3. CASE x > i /\ x <= i + j
    <3>1. /\ x \in 1..(i + j) /\ ~(x <= i) /\ x - i \in 1..(j + k) /\ x - i <= j
      BY ONLY <1>1, <2>1, <2>3
    <3>2. l[x] = e[x - i] /\ e[x - i] = b[x - i]
      BY ONLY <1>7, <1>8, <3>1
    <3>3. r[x] = d[x] /\ d[x] = b[x - i]
      BY ONLY <1>7, <2>1, <2>3, <3>1
    <3> QED BY ONLY <3>2, <3>3
  <2>4. CASE x > i + j
    <3>1. /\ ~(x <= i) /\ ~(x <= i + j) /\ x - i \in 1..(j + k) /\ ~(x - i <= j)
          /\ (x - i) - j = x - (i + j)
      BY ONLY <1>1, <2>1, <2>4
    <3>2. l[x] = e[x - i] /\ e[x - i] = c[(x - i) - j]
      BY ONLY <1>7, <1>8, <3>1
    <3>3. r[x] = c[x - (i + j)]
      BY ONLY <1>7, <2>1, <3>1
    <3> QED BY ONLY <3>1, <3>2, <3>3
  <2>5. x <= i \/ (x > i /\ x <= i + j) \/ x > i + j
    BY ONLY <1>1, <2>1
  <2> QED BY ONLY <2>2, <2>3, <2>4, <2>5
<1>9. Len(l) = Len(r) /\ \A x \in 1..Len(l) : l[x] = r[x]
  BY ONLY <1>1, <1>6, <1>8
<1>10. l = r
  BY <1>5, <1>9, SeqEqual
<1> QED BY <1>10 DEF l, r, d, e, Assoc

Regrouped(a, b, c, e) == ((a \o b) \o c) \o e = a \o ((b \o c) \o e)

LEMMA Regroup ==
    ASSUME NEW X, NEW a \in Seq(X), NEW b \in Seq(X), NEW c \in Seq(X), NEW e \in Seq(X)
    PROVE  Regrouped(a, b, c, e)
<1>1. Assoc(a, b, c)
  BY Associated
<1>2. b \o c \in Seq(X)
  BY ConcatProperties
<1> DEFINE f == b \o c
<1> HIDE DEF f
<1>3. f \in Seq(X)
  BY <1>2 DEF f
<1>4. Assoc(a, f, e)
  BY <1>3, Associated
<1> QED BY <1>1, <1>4, Zenon DEF f, Regrouped, Assoc

(* The first piece can be put in front last. *)
LEMMA JoinFirst ==
    ASSUME NEW S, NEW p \in Seq(S), NEW d \in Seq(S), NEW r \in Seq(Seq(S)), r # <<>>
    PROVE  /\ JoinedBy(p, r, d) = (p \o d) \o JoinedBy(r[1], Tail(r), d)
           /\ JoinedBy(r[1], Tail(r), d) \in Seq(S)
<1> DEFINE n == Len(r)
           t == Tail(r)
<1>1. n \in Nat /\ n >= 1 /\ 1 \in 1..n
  BY LenProperties, EmptySeq
<1>2. t \in Seq(Seq(S)) /\ Len(t) = n - 1 /\ \A i \in 1..Len(t) : t[i] = r[i + 1]
  BY HeadTailProperties
<1>3. \A i \in 1..n : r[i] \in Seq(S)
  BY ElementOfSeq
<1> HIDE DEF t
<1>4. PICK g : Joins(g, p, r, d, S) /\ JoinedBy(p, r, d) = g[n]
  BY JoinIs
<1>5. PICK h : Joins(h, r[1], t, d, S) /\ JoinedBy(r[1], t, d) = h[Len(t)]
  <2>1. r[1] \in Seq(S)
    BY <1>1, <1>3
  <2> DEFINE f == r[1]
  <2>2. f \in Seq(S) /\ t \in Seq(Seq(S))
    BY <1>2, <2>1
  <2> HIDE DEF f
  <2>3. \E h : Joins(h, f, t, d, S) /\ JoinedBy(f, t, d) = h[Len(t)]
    BY <2>2, JoinIs
  <2> QED BY <2>3 DEF f
<1> HIDE DEF n
<1>6. /\ g[0] = p /\ \A i \in 1..n : g[i] = (g[i - 1] \o d) \o r[i]
  BY <1>4 DEF Joins, n
<1>7. /\ h[0] = r[1] /\ (\A i \in 0..(n - 1) : h[i] \in Seq(S))
      /\ \A i \in 1..(n - 1) : h[i] = (h[i - 1] \o d) \o t[i]
  BY <1>2, <1>5 DEF Joins
<1> DEFINE P == {i \in 0..(n - 1) : g[i + 1] = (p \o d) \o h[i]}
<1>8. 0 \in P
  <2>1. g[1] = (g[0] \o d) \o r[1]
    <3>1. 1 - 1 = 0
      OBVIOUS
    <3> QED BY <1>1, <1>6, <3>1
  <2>2. 0 \in 0..(n - 1) /\ 0 + 1 = 1
    BY <1>1
  <2> QED BY <1>6, <1>7, <2>1, <2>2
<1>9. ASSUME NEW i \in 0..((n - 1) - 1), i \in P PROVE i + 1 \in P
  <2> DEFINE j == i + 1
  <2>1. /\ j \in 1..(n - 1) /\ j \in 0..(n - 1) /\ j - 1 = i /\ i \in 0..(n - 1)
        /\ j + 1 \in 1..n /\ (j + 1) - 1 = j
    BY <1>1
  <2>2. g[j] = (p \o d) \o h[i]
    BY <1>9
  <2>3. h[j] = (h[i] \o d) \o r[j + 1]
    BY <1>2, <1>7, <2>1
  <2>4. g[j + 1] = (g[j] \o d) \o r[j + 1]
    BY <1>6, <2>1
  <2> HIDE DEF j
  <2> DEFINE y == h[i]
             z == r[j + 1]
             q == p \o d
  <2>5. y \in Seq(S) /\ z \in Seq(S) /\ q \in Seq(S) /\ y \o d \in Seq(S)
    BY <1>3, <1>7, <2>1, ConcatProperties
  <2>6. g[j] = q \o y /\ h[j] = (y \o d) \o z /\ g[j + 1] = (g[j] \o d) \o z
    BY <2>2, <2>3, <2>4
  <2> HIDE DEF y, z, q
  <2>7. Regrouped(q, y, d, z)
    <3>1. y \in Seq(S) /\ z \in Seq(S) /\ q \in Seq(S) /\ d \in Seq(S)
      BY <2>5 DEF y, z, q
    <3> HIDE DEF P
    <3> QED BY <3>1, Regroup
  <2>10. g[j + 1] = q \o h[j]
    BY <2>6, <2>7, Zenon DEF Regrouped
  <2>8. g[j + 1] = (p \o d) \o h[j]
    BY <2>10 DEF q
  <2> QED BY <2>1, <2>8 DEF j
<1>10. \A i \in 0..(n - 1) : i \in P
  <2>1. n - 1 \in Nat
    BY <1>1
  <2> HIDE DEF P
  <2> QED BY <1>8, <1>9, <2>1, Induct
<1>11. n - 1 \in 0..(n - 1) /\ (n - 1) + 1 = n
  BY <1>1
<1>12. g[n] = (p \o d) \o h[n - 1]
  BY <1>10, <1>11
<1> QED BY <1>2, <1>4, <1>5, <1>7, <1>11, <1>12 DEF n, t

(* Where a divider is found. *)
Found(s, from, d) == {i \in from..((Len(s) - Len(d)) + 1) : SubSeq(s, i, i + (Len(d) - 1)) = d}

LEMMA strstrIs ==
    ASSUME NEW s \in Seq(Int), NEW from \in Nat, NEW d \in Seq(Int)
    PROVE  /\ strstr(s, from, d) \in Nat
           /\ strstr(s, from, d) # 0 =>
                  /\ d # <<>> /\ strstr(s, from, d) \in Found(s, from, d)
                  /\ \A j \in Found(s, from, d) : strstr(s, from, d) <= j
           /\ strstr(s, from, d) = 0 /\ d # <<>> /\ from >= 1 => Found(s, from, d) = {}
<1> DEFINE F == Found(s, from, d)
<1>1. strstr(s, from, d) =
          IF d = <<>> \/ F = {} THEN 0 ELSE CHOOSE i \in F : \A j \in F : i <= j
  BY DEF strstr, Found
<1>2. F \in SUBSET Nat /\ \A i \in F : i >= from
  BY LenProperties DEF Found
<1> HIDE DEF F
<1>3. CASE d = <<>> \/ F = {}
  BY <1>1, <1>3 DEF F
<1>4. CASE d # <<>> /\ F # {}
  <2>1. \E i \in F : \A j \in F : i <= j
    BY <1>2, <1>4, LeastNatural
  <2> DEFINE x == CHOOSE i \in F : \A j \in F : i <= j
  <2>2. x \in F /\ \A j \in F : x <= j
    BY <2>1
  <2>3. strstr(s, from, d) = x
    BY <1>1, <1>4
  <2> HIDE DEF x
  <2>4. x \in Nat /\ (from >= 1 => x # 0)
    BY <1>2, <2>2
  <2> QED BY <1>4, <2>2, <2>3, <2>4 DEF F
<1> QED BY <1>3, <1>4

(* A piece that ends before a divider could does not hold one. *)
LEMMA NoneWithin ==
    ASSUME NEW s \in Seq(Int), NEW from \in 1..(Len(s) + 1), NEW to \in Int,
           from - 1 <= to, to <= Len(s), NEW d \in Seq(Int), d # <<>>,
           \A j \in Found(s, from, d) : to < (j + Len(d)) - 1
    PROVE  strstr(SubSeq(s, from, to), 1, d) = 0
<1> DEFINE q == SubSeq(s, from, to)
           x == strstr(q, 1, d)
           l == Len(d)
           n == Len(s)
<1>1. n \in Nat /\ from \in Int /\ from >= 1 /\ from <= n + 1
  BY LenProperties
<1>2. l \in Nat /\ l >= 1
  BY LenProperties, EmptySeq
<1>3. \A i \in from..to : s[i] \in Int
  <2> SUFFICES ASSUME NEW i \in from..to PROVE s[i] \in Int
    OBVIOUS
  <2>1. i \in 1..Len(s)
    BY <1>1
  <2> QED BY <2>1, ElementOfSeq
<1>4. q \in Seq(Int) /\ Len(q) = IF from <= to THEN (to - from) + 1 ELSE 0
  BY <1>1, <1>3, SubSeqProperties
<1>5. Len(q) = (to - from) + 1 /\ Len(q) \in Nat
  BY <1>1, <1>4
<1> SUFFICES ASSUME x # 0 PROVE FALSE
  OBVIOUS
<1>6. x \in Found(q, 1, d)
  BY <1>4, strstrIs
<1>7. x \in Int /\ x >= 1 /\ (x + l) - 1 <= Len(q) /\ SubSeq(q, x, (x + l) - 1) = d
  <2>1. x \in 1..((Len(q) - l) + 1) /\ SubSeq(q, x, x + (l - 1)) = d
    BY <1>6 DEF Found
  <2> HIDE DEF x, q, l
  <2>2. x \in Int /\ x + (l - 1) = (x + l) - 1
    BY <1>2, <1>5, <2>1
  <2> QED BY <1>2, <1>5, <2>1, <2>2
<1> DEFINE y == (from + x) - 1
           z == (x + l) - 1
<1> HIDE DEF x, l, n
<1>8. /\ from \in 1..n /\ to \in 1..n /\ x \in 1..((to - from) + 1) /\ z \in 1..((to - from) + 1)
      /\ y = (from + x) - 1 /\ (from + z) - 1 = (y + l) - 1
  <2> HIDE DEF q
  <2> QED BY <1>1, <1>2, <1>5, <1>7 DEF n
<1>9. SubSeq(q, x, z) = SubSeq(s, (from + x) - 1, (from + z) - 1)
  <2> HIDE DEF y, z
  <2> QED BY <1>8, SubSeqOfSubSeq DEF n
<1>10. SubSeq(s, y, (y + l) - 1) = d
  <2>1. SubSeq(s, (from + x) - 1, (from + z) - 1) = d
    BY <1>7, <1>9
  <2> HIDE DEF q
  <2> QED BY <1>8, <2>1
<1>11. y \in from..((n - l) + 1) /\ ~(to < (y + l) - 1)
  <2> HIDE DEF q
  <2> QED BY <1>1, <1>2, <1>5, <1>7, <1>8 DEF n
<1>12. y \in Found(s, from, d)
  <2> HIDE DEF y, q
  <2>1. y + (l - 1) = (y + l) - 1
    BY <1>1, <1>2, <1>11
  <2>2. SubSeq(s, y, y + (l - 1)) = d
    BY <1>10, <2>1
  <2> QED BY <1>11, <2>2 DEF Found, n, l
<1> QED BY <1>11, <1>12 DEF l

(* A piece that ends where the next begins is put back with the divider.    *)
LEMMA PutBack ==
    ASSUME NEW s \in Seq(Int), NEW d \in Seq(Int), NEW from \in 1..(Len(s) + 1),
           NEW x \in Found(s, from, d)
    PROVE  /\ x \in from..(Len(s) + 1) /\ x + Len(d) \in from..(Len(s) + 1)
           /\ SubSeq(s, from, x - 1) \in Seq(Int)
           /\ (SubSeq(s, from, x - 1) \o d) \o SubSeq(s, x + Len(d), Len(s))
                  = SubSeq(s, from, Len(s))
<1> DEFINE n == Len(s)
           l == Len(d)
           y == x + l
<1>1. n \in Nat /\ l \in Nat /\ from \in Int /\ from >= 1
  BY LenProperties
<1>2. x \in from..((n - l) + 1) /\ SubSeq(s, x, x + (l - 1)) = d
  BY DEF Found
<1> HIDE DEF n, l
<1>3. /\ x \in Int /\ x >= from /\ y <= n + 1 /\ x + (l - 1) = y - 1
      /\ x \in 1..(n + 1) /\ x - 1 \in (from - 1)..n /\ y - 1 \in (x - 1)..n /\ (y - 1) + 1 = y
      /\ y - 1 \in (from - 1)..n /\ n \in (y - 1)..n /\ from \in 1..(n + 1) /\ (x - 1) + 1 = x
      /\ y - 1 \in (x - 1)..n
  BY <1>1, <1>2 DEF n
<1>4. x \in from..(n + 1) /\ y \in from..(n + 1)
  BY <1>1, <1>3
<1>5. \A i \in from..(x - 1) : s[i] \in Int
  <2> SUFFICES ASSUME NEW i \in from..(x - 1) PROVE s[i] \in Int
    OBVIOUS
  <2>1. i \in 1..Len(s)
    BY <1>1, <1>3 DEF n
  <2> QED BY <2>1, ElementOfSeq
<1>6. SubSeq(s, from, x - 1) \in Seq(Int)
  BY <1>1, <1>3, <1>5, SubSeqProperties
<1>7. SubSeq(s, from, x - 1) \o SubSeq(s, (x - 1) + 1, y - 1) = SubSeq(s, from, y - 1)
  <2> HIDE DEF y
  <2> QED BY <1>3, ConcatAdjacentSubSeq DEF n
<1>8. SubSeq(s, from, y - 1) \o SubSeq(s, (y - 1) + 1, n) = SubSeq(s, from, n)
  <2> HIDE DEF y
  <2> QED BY <1>3, ConcatAdjacentSubSeq DEF n
<1>9. SubSeq(s, (x - 1) + 1, y - 1) = d
  BY <1>2, <1>3
<1>10. (SubSeq(s, from, x - 1) \o d) \o SubSeq(s, y, n) = SubSeq(s, from, n)
  BY <1>3, <1>7, <1>8, <1>9
<1> QED BY <1>4, <1>6, <1>10 DEF n, l

(* Where a split is at. *)
Cuts == [pos : Nat, items : Nat \ {0}]
Cut(p, k) == [pos |-> p, items |-> k]
Final(s, d, at) == strstr(s, at.pos, d) = 0 \/ at.items = 1
Following(s, d, at) == Cut(strstr(s, at.pos, d) + Len(d), at.items - 1)
SplitStep(g, s, d, at) ==
    IF Final(s, d, at) THEN <<SubSeq(s, at.pos, Len(s))>>
    ELSE <<SubSeq(s, at.pos, strstr(s, at.pos, d) - 1)>> \o g[Following(s, d, at)]

LEMMA CutIs ==
    /\ \A p \in Nat, k \in Nat \ {0} :
           Cut(p, k) \in Cuts /\ Cut(p, k).pos = p /\ Cut(p, k).items = k
    /\ \A at \in Cuts : at.pos \in Nat /\ at.items \in Nat /\ at.items # 0
BY DEF Cut, Cuts

LEMMA FollowingIs ==
    ASSUME NEW s \in Seq(Int), NEW d \in Seq(Int), NEW at \in Cuts, ~Final(s, d, at)
    PROVE  /\ Following(s, d, at) \in Cuts
           /\ Following(s, d, at).pos = strstr(s, at.pos, d) + Len(d)
           /\ Following(s, d, at).items = at.items - 1
<1>1. at.pos \in Nat /\ at.items \in Nat /\ at.items # 0 /\ at.items # 1
  BY CutIs DEF Final
<1>2. strstr(s, at.pos, d) \in Nat /\ Len(d) \in Nat
  BY <1>1, strstrIs, LenProperties
<1>3. strstr(s, at.pos, d) + Len(d) \in Nat /\ at.items - 1 \in Nat \ {0}
  BY <1>1, <1>2
<1> QED BY <1>3, CutIs DEF Following

LEMMA SplitIs ==
    ASSUME NEW s \in Seq(Int), NEW d \in Seq(Int), NEW k \in Nat \ {0}
    PROVE  \E G : /\ \A at \in Cuts : G[at] = SplitStep(G, s, d, at)
                  /\ Split(s, d, k) = G[Cut(1, k)]
<1> DEFINE U == {s[i] : i \in Int}
           V == Seq(Seq(U))
           Piece(at) == SubSeq(s, at.pos, strstr(s, at.pos, d) - 1)
           T == {at \in Cuts : Final(s, d, at)}
           m == [at \in Cuts |-> at.items]
           b == [at \in Cuts |-> <<SubSeq(s, at.pos, Len(s))>>]
           n == [at \in Cuts |-> IF at \in T THEN at ELSE Following(s, d, at)]
           f == [at \in Cuts |-> [v \in V |-> <<Piece(at)>> \o v]]
           Is(h) == h = [at \in Cuts |-> SplitStep(h, s, d, at)]
           G == CHOOSE h : Is(h)
<1>1. \A p \in Int, q \in Int : SubSeq(s, p, q) \in Seq(U)
  <2> SUFFICES ASSUME NEW p \in Int, NEW q \in Int PROVE SubSeq(s, p, q) \in Seq(U)
    OBVIOUS
  <2>1. \A i \in p..q : s[i] \in U
    OBVIOUS
  <2> HIDE DEF U
  <2> QED BY <2>1, SubSeqProperties
<1>2. \A at \in Cuts : at.pos \in Int /\ strstr(s, at.pos, d) - 1 \in Int /\ Len(s) \in Int
  <2> SUFFICES ASSUME NEW at \in Cuts
               PROVE  at.pos \in Int /\ strstr(s, at.pos, d) - 1 \in Int /\ Len(s) \in Int
    OBVIOUS
  <2>1. at.pos \in Nat
    BY CutIs
  <2>2. strstr(s, at.pos, d) \in Nat
    BY <2>1, strstrIs
  <2> QED BY <2>1, <2>2, LenProperties
<1>3. ASSUME NEW at \in Cuts
      PROVE  Piece(at) \in Seq(U) /\ SubSeq(s, at.pos, Len(s)) \in Seq(U)
  BY <1>1, <1>2
<1> HIDE DEF U, Piece
<1>4. b \in [Cuts -> V]
  <2> SUFFICES ASSUME NEW at \in Cuts PROVE <<SubSeq(s, at.pos, Len(s))>> \in V
    OBVIOUS
  <2> DEFINE x == SubSeq(s, at.pos, Len(s))
             X == Seq(U)
  <2>1. x \in X
    BY <1>3
  <2> HIDE DEF x, X
  <2>2. <<x>> \in Seq(X)
    BY <2>1
  <2> QED BY <2>2 DEF x, X
<1>5. f \in [Cuts -> [V -> V]]
  <2> SUFFICES ASSUME NEW at \in Cuts, NEW v \in V PROVE <<Piece(at)>> \o v \in V
    OBVIOUS
  <2> DEFINE x == Piece(at)
             X == Seq(U)
  <2>1. x \in X /\ v \in Seq(X)
    BY <1>3
  <2> HIDE DEF x, X
  <2>2. <<x>> \in Seq(X)
    BY <2>1
  <2>3. <<x>> \o v \in Seq(X)
    BY <2>1, <2>2, ConcatProperties
  <2> QED BY <2>3 DEF x, X
<1>6. \A at \in Cuts : at \notin T => /\ Following(s, d, at) \in Cuts
                                      /\ Following(s, d, at).items = at.items - 1
  BY FollowingIs
<1>7. m \in [Cuts -> Nat] /\ T \in SUBSET Cuts /\ n \in [Cuts -> Cuts]
  <2>1. m \in [Cuts -> Nat]
    BY CutIs
  <2>2. n \in [Cuts -> Cuts]
    BY <1>6
  <2> QED BY <2>1, <2>2
<1>8. \A x \in Cuts \ T : m[n[x]] < m[x]
  <2> SUFFICES ASSUME NEW x \in Cuts, x \notin T PROVE m[n[x]] < m[x]
    OBVIOUS
  <2>1. n[x] = Following(s, d, x) /\ n[x] \in Cuts /\ n[x].items = x.items - 1
    BY <1>6
  <2> HIDE DEF n
  <2>2. m[n[x]] = x.items - 1 /\ m[x] = x.items
    BY <2>1
  <2>3. x.items \in Nat
    BY CutIs
  <2> QED BY <2>2, <2>3
<1> HIDE DEF V, T, m, b, n, f
<1>9. PICK g \in [Cuts -> V] : Told(g, Cuts, T, b, f, n)
  BY <1>4, <1>5, <1>7, <1>8, Recursion
<1>10. ASSUME NEW at \in Cuts PROVE g[at] = SplitStep(g, s, d, at)
  <2>1. g[at] = IF at \in T THEN b[at] ELSE f[at][g[n[at]]]
    BY <1>9 DEF Told
  <2>2. CASE at \in T
    BY <2>1, <2>2 DEF T, b, SplitStep
  <2>3. CASE at \notin T
    <3>1. n[at] = Following(s, d, at) /\ g[n[at]] \in V /\ ~Final(s, d, at)
      BY <1>6, <2>3 DEF n, T
    <3>2. f[at][g[n[at]]] = <<Piece(at)>> \o g[n[at]]
      BY <3>1 DEF f
    <3> QED BY <2>1, <2>3, <3>1, <3>2 DEF SplitStep, Piece
  <2> QED BY <2>2, <2>3
<1>11. Is(G)
  <2>1. g = [at \in Cuts |-> g[at]]
    OBVIOUS
  <2>2. g = [at \in Cuts |-> SplitStep(g, s, d, at)]
    BY <1>10, <2>1, Zenon
  <2>3. Is(g)
    BY <2>2
  <2> HIDE DEF Is
  <2> QED BY <2>3
<1>12. Split(s, d, k) = G[Cut(1, k)]
  BY DEF Split, SplitStep, Cuts, Cut, Final, Following
<1> HIDE DEF G, Is
<1>13. ASSUME NEW at \in Cuts PROVE G[at] = SplitStep(G, s, d, at)
  <2> DEFINE F(x) == SplitStep(G, s, d, x)
  <2>1. G = [x \in Cuts |-> F(x)]
    BY <1>11 DEF Is
  <2> HIDE DEF F
  <2>2. G[at] = F(at)
    BY <2>1, Zenon
  <2> QED BY <2>2 DEF F
<1> QED BY <1>12, <1>13

(* What a split from a place on gives. *)
Proper(r, s, d, at) ==
    /\ r \in Seq(Seq(Int)) /\ r # <<>> /\ Len(r) <= at.items
    /\ JoinedBy(r[1], Tail(r), d) = SubSeq(s, at.pos, Len(s))
    /\ \A i \in 1..Len(r) : strstr(r[i], 1, d) = 0 \/ i = at.items

LEMMA LastProper ==
    ASSUME NEW s \in Seq(Int), NEW d \in Seq(Int), NEW at \in Cuts,
           at.pos \in 1..(Len(s) + 1), Final(s, d, at)
    PROVE  Proper(<<SubSeq(s, at.pos, Len(s))>>, s, d, at)
<1> DEFINE p == at.pos
           q == SubSeq(s, p, Len(s))
           X == Seq(Int)
<1>1. p \in Nat /\ at.items \in Nat /\ at.items # 0 /\ Len(s) \in Nat /\ p >= 1
  BY CutIs, LenProperties
<1>2. q \in X
  <2>1. \A i \in p..Len(s) : s[i] \in Int
    <3> SUFFICES ASSUME NEW i \in p..Len(s) PROVE s[i] \in Int
      OBVIOUS
    <3>1. i \in 1..Len(s)
      BY <1>1
    <3> QED BY <3>1, ElementOfSeq
  <2> QED BY <1>1, <2>1, SubSeqProperties
<1>3. strstr(q, 1, d) = 0 \/ at.items = 1
  <2> SUFFICES ASSUME strstr(s, p, d) = 0 PROVE strstr(q, 1, d) = 0
    BY DEF Final
  <2>1. CASE d = <<>>
    BY <2>1 DEF strstr
  <2>2. CASE d # <<>>
    <3>1. Found(s, p, d) = {}
      BY <1>1, <2>2, strstrIs
    <3>2. Len(s) \in Int /\ p - 1 <= Len(s) /\ Len(s) <= Len(s)
      BY <1>1
    <3> QED BY <2>2, <3>1, <3>2, NoneWithin
  <2> QED BY <2>1, <2>2
<1> HIDE DEF q, p
<1> DEFINE r == <<q>>
           t == Tail(r)
<1>4. r \in Seq(X) /\ r # <<>> /\ Len(r) = 1 /\ r[1] = q /\ t = <<>>
  <2> HIDE DEF X
  <2> QED BY <1>2
<1> HIDE DEF r, t
<1>5. JoinedBy(q, t, d) = q
  <2>1. t \in Seq(Seq(Int)) /\ Len(t) = 0
    BY <1>4
  <2>2. PICK h : Joins(h, q, t, d, Int) /\ JoinedBy(q, t, d) = h[Len(t)]
    BY <1>2, <2>1, JoinIs
  <2>3. h[0] = q
    BY <2>2 DEF Joins
  <2> QED BY <2>1, <2>2, <2>3
<1>6. \A i \in 1..Len(r) : strstr(r[i], 1, d) = 0 \/ i = at.items
  <2> SUFFICES ASSUME NEW i \in 1..Len(r) PROVE strstr(r[i], 1, d) = 0 \/ i = at.items
    OBVIOUS
  <2>1. i = 1
    BY <1>4
  <2> QED BY <1>3, <1>4, <2>1
<1>7. JoinedBy(r[1], Tail(r), d) = SubSeq(s, at.pos, Len(s))
  BY <1>4, <1>5 DEF t, q, p
<1>8. Proper(r, s, d, at)
  BY <1>1, <1>4, <1>6, <1>7 DEF Proper
<1> QED BY <1>8 DEF r, q, p

LEMMA FollowingPlace ==
    ASSUME NEW s \in Seq(Int), NEW d \in Seq(Int), NEW at \in Cuts,
           at.pos \in 1..(Len(s) + 1), ~Final(s, d, at)
    PROVE  Following(s, d, at).pos \in 1..(Len(s) + 1)
<1>1. at.pos \in Nat /\ at.pos >= 1 /\ Len(s) \in Nat
  BY CutIs, LenProperties
<1>2. Following(s, d, at).pos = strstr(s, at.pos, d) + Len(d)
  BY FollowingIs
<1>3. strstr(s, at.pos, d) # 0
  BY DEF Final
<1>4. strstr(s, at.pos, d) \in Found(s, at.pos, d)
  BY <1>1, <1>3, strstrIs
<1>5. strstr(s, at.pos, d) + Len(d) \in at.pos..(Len(s) + 1)
  BY <1>4, PutBack
<1> QED BY <1>1, <1>2, <1>5

LEMMA MoreProper ==
    ASSUME NEW s \in Seq(Int), NEW d \in Seq(Int), NEW at \in Cuts,
           at.pos \in 1..(Len(s) + 1), ~Final(s, d, at),
           NEW r, Proper(r, s, d, Following(s, d, at))
    PROVE  Proper(<<SubSeq(s, at.pos, strstr(s, at.pos, d) - 1)>> \o r, s, d, at)
<1> DEFINE p == at.pos
           x == strstr(s, p, d)
           nx == Following(s, d, at)
           q == SubSeq(s, p, x - 1)
           X == Seq(Int)
<1>1. p \in Nat /\ at.items \in Nat /\ at.items # 0 /\ Len(s) \in Nat /\ p >= 1
  BY CutIs, LenProperties
<1>2. nx \in Cuts /\ nx.pos = x + Len(d) /\ nx.items = at.items - 1
  BY FollowingIs
<1>3. x # 0
  BY DEF Final
<1>4. d # <<>> /\ x \in Found(s, p, d) /\ \A j \in Found(s, p, d) : x <= j
  BY <1>1, <1>3, strstrIs
<1>5. /\ x \in p..(Len(s) + 1) /\ x + Len(d) \in p..(Len(s) + 1) /\ q \in X
      /\ (q \o d) \o SubSeq(s, x + Len(d), Len(s)) = SubSeq(s, p, Len(s))
  BY <1>4, PutBack
<1>7. Len(d) \in Nat /\ Len(d) >= 1
  BY <1>4, LenProperties, EmptySeq
<1>8. strstr(q, 1, d) = 0
  <2> HIDE DEF x, p
  <2>1. x - 1 \in Int /\ p - 1 <= x - 1 /\ x - 1 <= Len(s)
    BY <1>1, <1>5
  <2>2. ASSUME NEW j \in Found(s, p, d) PROVE x - 1 < (j + Len(d)) - 1
    <3>1. j \in Int /\ x <= j
      BY <1>1, <1>4, <1>7 DEF Found
    <3> QED BY <1>1, <1>5, <1>7, <3>1
  <2> QED BY <1>4, <2>1, <2>2, NoneWithin DEF p
<1>9. /\ r \in Seq(X) /\ r # <<>> /\ Len(r) <= at.items - 1
      /\ JoinedBy(r[1], Tail(r), d) = SubSeq(s, x + Len(d), Len(s))
      /\ \A i \in 1..Len(r) : strstr(r[i], 1, d) = 0 \/ i = at.items - 1
  BY <1>2 DEF Proper
<1> HIDE DEF nx
<1>10. JoinedBy(q, r, d) = SubSeq(s, p, Len(s))
  <2> DEFINE Y == Int
  <2>1. q \in Seq(Y) /\ d \in Seq(Y) /\ r \in Seq(Seq(Y)) /\ r # <<>>
    BY <1>5, <1>9
  <2> HIDE DEF q, Y
  <2>2. JoinedBy(q, r, d) = (q \o d) \o JoinedBy(r[1], Tail(r), d)
    BY ONLY <2>1, JoinFirst, ZenonT(30)
  <2> QED BY <1>5, <1>9, <2>2
<1> HIDE DEF q, x, p
<1> DEFINE a == <<q>>
           w == a \o r
<1>11. a \in Seq(X) /\ Len(a) = 1 /\ a[1] = q
  <2> HIDE DEF X
  <2> QED BY <1>5
<1>12. Len(r) \in Nat
  BY <1>9, LenProperties
<1> HIDE DEF a
<1>13. w \in Seq(X) /\ Len(w) = 1 + Len(r)
  <2>1. a \in Seq(X) /\ r \in Seq(X)
    BY <1>9, <1>11
  <2> HIDE DEF X
  <2>2. a \o r \in Seq(X) /\ Len(a \o r) = Len(a) + Len(r)
    BY <2>1, ConcatProperties
  <2> QED BY <1>11, <2>2
<1>14. \A i \in 1..(1 + Len(r)) : w[i] = IF i <= 1 THEN q ELSE r[i - 1]
  <2>1. \A i \in 1..(Len(a) + Len(r)) : w[i] = IF i <= Len(a) THEN a[i] ELSE r[i - Len(a)]
    <3>1. a \in Seq(X) /\ r \in Seq(X)
      BY <1>9, <1>11
    <3> HIDE DEF X
    <3>2. \A i \in 1..(Len(a) + Len(r)) :
              (a \o r)[i] = IF i <= Len(a) THEN a[i] ELSE r[i - Len(a)]
      BY <3>1, ConcatProperties
    <3> QED BY <3>2
  <2>2. ASSUME NEW i \in 1..(1 + Len(r)) PROVE w[i] = IF i <= 1 THEN q ELSE r[i - 1]
    <3>1. i \in 1..(Len(a) + Len(r)) /\ Len(a) = 1 /\ a[1] = q
      BY <1>11
    <3>2. w[i] = IF i <= 1 THEN a[i] ELSE r[i - 1]
      BY <2>1, <3>1
    <3>3. i <= 1 => i = 1
      BY <1>12
    <3> QED BY <3>1, <3>2, <3>3
  <2> QED BY <2>2
<1> HIDE DEF w
<1>15. w # <<>> /\ w[1] = q
  <2>1. 1 \in 1..(1 + Len(r))
    BY <1>12
  <2>2. w # <<>>
    BY <1>12, <1>13, EmptySeq
  <2> QED BY <1>14, <2>1, <2>2
<1>16. Tail(w) = r
  <2>1. Tail(w) \in Seq(X) /\ Len(Tail(w)) = Len(w) - 1
    <3> HIDE DEF X
    <3> QED BY <1>13, <1>15, HeadTailProperties
  <2>2. \A i \in 1..Len(Tail(w)) : Tail(w)[i] = w[i + 1]
    <3> HIDE DEF X
    <3> QED BY <1>13, <1>15, HeadTailProperties
  <2>3. Len(Tail(w)) = Len(r)
    BY <1>12, <1>13, <2>1
  <2>4. \A i \in 1..Len(r) : Tail(w)[i] = r[i]
    <3> SUFFICES ASSUME NEW i \in 1..Len(r) PROVE Tail(w)[i] = r[i]
      OBVIOUS
    <3>1. i + 1 \in 1..(1 + Len(r)) /\ ~(i + 1 <= 1) /\ (i + 1) - 1 = i
      BY <1>12
    <3> QED BY <1>14, <2>2, <2>3, <3>1
  <2> DEFINE z == Tail(w)
  <2>5. z \in Seq(X) /\ Len(z) = Len(r) /\ \A i \in 1..Len(z) : z[i] = r[i]
    BY <2>1, <2>3, <2>4
  <2> HIDE DEF z, X
  <2>6. z = r
    BY <1>9, <2>5, SeqEqual
  <2> QED BY <2>6 DEF z
<1>17. \A i \in 1..Len(w) : strstr(w[i], 1, d) = 0 \/ i = at.items
  <2> SUFFICES ASSUME NEW i \in 1..Len(w) PROVE strstr(w[i], 1, d) = 0 \/ i = at.items
    OBVIOUS
  <2>1. i \in 1..(1 + Len(r))
    BY <1>13
  <2>2. CASE i = 1
    BY <1>8, <1>15, <2>2
  <2>3. CASE i # 1
    <3>1. i - 1 \in 1..Len(r) /\ ~(i <= 1) /\ (i - 1 = at.items - 1 => i = at.items)
      <4> DEFINE l == Len(r)
                 k == at.items
      <4>1. i \in 1..(1 + l) /\ l \in Nat /\ k \in Nat /\ i # 1
        BY <1>1, <1>12, <2>1, <2>3
      <4> HIDE DEF l, k
      <4>2. i - 1 \in 1..l /\ ~(i <= 1) /\ (i - 1 = k - 1 => i = k)
        BY <4>1
      <4> QED BY <4>2 DEF l, k
    <3>2. w[i] = r[i - 1]
      BY <1>14, <2>1, <3>1
    <3> QED BY <1>9, <3>1, <3>2
  <2> QED BY <2>2, <2>3
<1>18. Len(w) <= at.items
  BY <1>1, <1>9, <1>12, <1>13
<1>19. Proper(w, s, d, at)
  BY <1>10, <1>13, <1>15, <1>16, <1>17, <1>18 DEF Proper, p
<1> QED BY <1>19 DEF w, a, q, x, p

LEMMA SplitProper ==
    ASSUME NEW s \in Seq(Int), NEW d \in Seq(Int), NEW k \in Nat \ {0}
    PROVE  Proper(Split(s, d, k), s, d, Cut(1, k))
<1>1. PICK G : /\ \A at \in Cuts : G[at] = SplitStep(G, s, d, at)
               /\ Split(s, d, k) = G[Cut(1, k)]
  BY SplitIs
<1> DEFINE Good(at) == at.pos \in 1..(Len(s) + 1) => Proper(G[at], s, d, at)
           P == {i \in Nat : \A at \in Cuts : at.items = i + 1 => Good(at)}
<1>2. ASSUME NEW at \in Cuts, Final(s, d, at) PROVE Good(at)
  <2>1. G[at] = <<SubSeq(s, at.pos, Len(s))>>
    BY <1>1, <1>2 DEF SplitStep
  <2> SUFFICES ASSUME at.pos \in 1..(Len(s) + 1) PROVE Proper(G[at], s, d, at)
    OBVIOUS
  <2>2. Proper(<<SubSeq(s, at.pos, Len(s))>>, s, d, at)
    BY <1>2, LastProper
  <2> QED BY <2>1, <2>2
<1>3. 0 \in P
  BY <1>2 DEF Final
<1>4. ASSUME NEW i \in 0..((k - 1) - 1), i \in P PROVE i + 1 \in P
  <2> SUFFICES ASSUME NEW at \in Cuts, at.items = (i + 1) + 1 PROVE Good(at)
    BY <1>4
  <2>1. CASE Final(s, d, at)
    BY <1>2, <2>1
  <2>2. CASE ~Final(s, d, at)
    <3> DEFINE nx == Following(s, d, at)
    <3>1. nx \in Cuts /\ nx.items = at.items - 1
      BY <2>2, FollowingIs
    <3>2. nx.items = i + 1
      BY <3>1
    <3>3. Good(nx)
      BY <1>4, <3>1, <3>2
    <3> SUFFICES ASSUME at.pos \in 1..(Len(s) + 1) PROVE Proper(G[at], s, d, at)
      OBVIOUS
    <3>4. nx.pos \in 1..(Len(s) + 1)
      BY <2>2, FollowingPlace
    <3>5. Proper(G[nx], s, d, nx)
      BY <3>3, <3>4
    <3>6. G[at] = <<SubSeq(s, at.pos, strstr(s, at.pos, d) - 1)>> \o G[nx]
      BY <1>1, <2>2 DEF SplitStep
    <3>7. Proper(<<SubSeq(s, at.pos, strstr(s, at.pos, d) - 1)>> \o G[nx], s, d, at)
      BY <2>2, <3>5, MoreProper
    <3> QED BY <3>6, <3>7
  <2> QED BY <2>1, <2>2
<1>5. k - 1 \in Nat /\ k - 1 \in 0..(k - 1) /\ (k - 1) + 1 = k
  OBVIOUS
<1>6. \A i \in 0..(k - 1) : i \in P
  <2> HIDE DEF P
  <2> QED BY <1>3, <1>4, <1>5, Induct
<1>7. k - 1 \in P
  BY <1>5, <1>6
<1>8. Cut(1, k) \in Cuts /\ Cut(1, k).items = k /\ Cut(1, k).pos = 1
  BY CutIs
<1>9. Good(Cut(1, k))
  BY <1>5, <1>7, <1>8
<1>10. 1 \in 1..(Len(s) + 1)
  BY LenProperties
<1> QED BY <1>1, <1>8, <1>9, <1>10

-----------------------------------------------------------------------------
(* What was called, and that its result is what it gives. *)
Gives(c, r) == call = c /\ result = r
Answered ==
    \/ call[1] \in {"none", "FormatNumber", "ffcw", "ffsw", "ToCalendar", "CSum", "Checksum"}
    \/ \E s \in Texts(Chars, MaxText) :
           Gives(<<"UrlEncode", s>>, UrlEncode(s)) \/ Gives(<<"UrlDecode", s>>, UrlDecode(s))
    \/ \E s \in Texts({37, 65}, MaxText + 2), d \in Texts({37, 65}, 2), k \in {1, 2, 9} :
           Gives(<<"Split", s, d, k>>, Split(s, d, k))
    \/ \E s \in Texts({52, 65, 97}, MaxText), t \in Texts({52, 65, 97}, MaxText),
          fold \in BOOLEAN : Gives(<<"strcmp", s, t, fold>>, strcmp(s, t, fold))

(* For texts of every length: encoding and decoding are inverse, a split    *)
(* loses nothing and finds every divider, and a comparison is decided by    *)
(* the first difference.                                                    *)
THEOREM TextExactHolds == UtilAssumption => (Spec => []TextExact)
<1> SUFFICES ASSUME UtilAssumption PROVE Spec => []TextExact
  OBVIOUS
<1> USE DEF UtilAssumption
<1>1. Init => Answered
  <2> SUFFICES ASSUME Init PROVE Answered
    OBVIOUS
  <2>1. call[1] = "none"
    BY DEF Init
  <2> QED BY <2>1 DEF Answered
<1>2. ASSUME NEW s \in Texts(Chars, MaxText)
      PROVE  s \in Seq(1..255) /\ s \in Seq(Int)
  <2>1. s \in Seq(Chars)
    BY TextsAre
  <2> DEFINE C == 1..255
             I == Int
  <2>2. Chars \subseteq C /\ Chars \subseteq I
    OBVIOUS
  <2> HIDE DEF C, I
  <2>3. s \in Seq(C) /\ s \in Seq(I)
    BY ONLY <2>1, <2>2, SeqLarger
  <2> QED BY <2>3 DEF C, I
<1>3. ASSUME NEW s \in Texts(Chars, MaxText),
             \/ Gives(<<"UrlEncode", s>>, UrlEncode(s))
             \/ Gives(<<"UrlDecode", s>>, UrlDecode(s))
      PROVE  TextExact
  <2>2. CASE Gives(<<"UrlEncode", s>>, UrlEncode(s))
    <3>1. call[1] = "UrlEncode" /\ call[2] = s /\ result = UrlEncode(s)
      BY <2>2 DEF Gives
    <3>2. UrlDecode(UrlEncode(s)) = s
      BY <1>2, DecodeEncoded
    <3>3. \A c \in Range(UrlEncode(s)) : c \in 33..126 /\ c \notin Reserved \ {37}
      BY <1>2, DecodeEncoded
    <3> QED BY <3>1, <3>2, <3>3 DEF TextExact
  <2>3. CASE Gives(<<"UrlDecode", s>>, UrlDecode(s))
    <3>1. call[1] = "UrlDecode" /\ call[2] = s /\ result = UrlDecode(s)
      BY <2>3 DEF Gives
    <3>2. Len(UrlDecode(s)) <= Len(s)
      BY <1>2, DecodeNotLonger
    <3> QED BY <3>1, <3>2 DEF TextExact
  <2> QED BY <1>3, <2>2, <2>3
<1>4. ASSUME NEW s \in Texts({37, 65}, MaxText + 2), NEW d \in Texts({37, 65}, 2),
             NEW k \in {1, 2, 9}, Gives(<<"Split", s, d, k>>, Split(s, d, k))
      PROVE  TextExact
  <2>2. s \in Seq(Int) /\ d \in Seq(Int)
    <3>1. s \in Seq({37, 65}) /\ d \in Seq({37, 65})
      BY TextsAre
    <3>2. {37, 65} \subseteq Int
      OBVIOUS
    <3>3. s \in Seq(Int)
      BY ONLY <3>1, <3>2, SeqLarger
    <3>4. d \in Seq(Int)
      BY ONLY <3>1, <3>2, SeqLarger
    <3> QED BY <3>3, <3>4
  <2>3. k \in Nat \ {0}
    OBVIOUS
  <2> DEFINE r == Split(s, d, k)
  <2>4. Proper(r, s, d, Cut(1, k))
    BY <2>2, <2>3, SplitProper
  <2>5. Cut(1, k).pos = 1 /\ Cut(1, k).items = k
    BY DEF Cut
  <2>6. /\ call[1] = "Split" /\ call[2] = s /\ call[3] = d /\ call[4] = k
        /\ result = r
    BY <1>4 DEF Gives
  <2> HIDE DEF r
  <2>7. Len(r) <= k /\ \A i \in 1..Len(r) : strstr(r[i], 1, d) = 0 \/ i = k
    BY <2>4, <2>5 DEF Proper
  <2>8. JoinedBy(r[1], Tail(r), d) = s
    <3>1. SubSeq(s, 1, Len(s)) = s
      BY <2>2, SubSeqFull
    <3> QED BY <2>4, <2>5, <3>1 DEF Proper
  <2>9. FoldLeft(LAMBDA x, piece : x \o call[3] \o piece, result[1], Tail(result)) = call[2]
    <3>1. JoinedBy(result[1], Tail(result), call[3]) = call[2]
      BY <2>6, <2>8
    <3> QED BY <3>1 DEF JoinedBy, FoldLeft, MapThenFoldSet
  <2> QED BY <2>6, <2>7, <2>9 DEF TextExact, FoldLeft, MapThenFoldSet
<1>5. ASSUME NEW s \in Texts({52, 65, 97}, MaxText), NEW t \in Texts({52, 65, 97}, MaxText),
             NEW fold \in BOOLEAN, Gives(<<"strcmp", s, t, fold>>, strcmp(s, t, fold))
      PROVE  TextExact
  <2>2. s \in Seq(1..255) /\ t \in Seq(1..255)
    <3>1. s \in Seq({52, 65, 97}) /\ t \in Seq({52, 65, 97})
      BY TextsAre
    <3>2. {52, 65, 97} \subseteq 1..255
      OBVIOUS
    <3> QED BY <3>1, <3>2, SeqLarger
  <2> DEFINE a == Letters(s, fold)
             b == Letters(t, fold)
  <2>3. PICK p : Ends(a, b, p) /\ strcmp(s, t, fold) = Verdict(At(a, p), At(b, p))
    BY <2>2, CompareIs
  <2>4. a \in Seq(1..255) /\ b \in Seq(1..255)
    BY <2>2, KeysAre
  <2>5. strcmp(s, t, fold) = IF a = b THEN 0 ELSE IF Precedes(a, b) THEN -1 ELSE 1
    <3> HIDE DEF a, b
    <3> QED BY <2>3, <2>4, VerdictIs
  <2>6. /\ call[1] = "strcmp" /\ call[2] = s /\ call[3] = t /\ call[4] = fold
        /\ result = strcmp(s, t, fold)
    BY <1>5 DEF Gives
  <2>7. a = (IF call[4] THEN [i \in DOMAIN call[2] |-> ToUpper(call[2][i])] ELSE call[2])
    BY <2>6 DEF Letters
  <2>8. b = (IF call[4] THEN [i \in DOMAIN call[3] |-> ToUpper(call[3][i])] ELSE call[3])
    BY <2>6 DEF Letters
  <2> HIDE DEF a, b
  <2> QED BY <2>5, <2>6, <2>7, <2>8 DEF TextExact, Precedes
<1>6. Answered => TextExact
  <2>1. ASSUME call[1] \in {"none", "FormatNumber", "ffcw", "ffsw", "ToCalendar", "CSum",
                             "Checksum"}
        PROVE  TextExact
    BY <2>1 DEF TextExact
  <2> QED BY <1>3, <1>4, <1>5, <2>1 DEF Answered
<1>7. Answered /\ [Next]_vars => Answered'
  <2> SUFFICES ASSUME Answered, [Next]_vars PROVE Answered'
    OBVIOUS
  <2>1. CASE UNCHANGED vars
    BY <2>1 DEF Answered, Gives, vars
  <2>2. CASE CallsNumber \/ CallsSearch \/ CallsCalendar \/ CallsSum \/ CallsCrc
    <3>1. call'[1] \in {"FormatNumber", "ffcw", "ffsw", "ToCalendar", "CSum", "Checksum"}
      BY <2>2 DEF CallsNumber, CallsSearch, CallsCalendar, CallsSum, CallsCrc, Called
    <3> QED BY <3>1 DEF Answered
  <2>3. CASE CallsEscape
    BY <2>3 DEF CallsEscape, Called, Answered, Gives
  <2>4. CASE CallsSplit
    BY <2>4 DEF CallsSplit, Called, Answered, Gives
  <2>5. CASE CallsCompare
    BY <2>5 DEF CallsCompare, Called, Answered, Gives
  <2> QED BY <2>1, <2>2, <2>3, <2>4, <2>5 DEF Next
<1> QED BY <1>1, <1>6, <1>7, PTL DEF Spec

===============================================================================
