-------------------------- MODULE RenderGateProofs --------------------------
(***************************************************************************)
(* The denominator of a board, for any declared tasks, lineages and        *)
(* replicates, any cells a driver brings, and any receipts of any number   *)
(* of calls: what plan_cells makes can be signed, what is signed is the    *)
(* whole product, and what is rendered is exactly what was signed.  A cell *)
(* of it has two trees only if run_gauntlet was called on it twice.        *)
(***************************************************************************)
EXTENDS RenderGate, FiniteSetTheorems, SequenceTheorems, TLAPS

-----------------------------------------------------------------------------
(* Positions and digits                                                    *)

\* Division with remainder.
LEMMA DivMod ==
    ASSUME NEW a \in Nat, NEW b \in Nat, b > 0
    PROVE  /\ a \div b \in Nat /\ a % b \in 0..(b - 1)
           /\ a = b * (a \div b) + (a % b)
  OBVIOUS

\* A multiple of at least b more makes another quotient.
LEMMA TimesGrows ==
    ASSUME NEW b \in Nat, NEW p \in Int, NEW q \in Int, p < q
    PROVE  b * p + b <= b * q
  <1>1. b * (q - p) >= b
    <2> DEFINE d == q - p
    <2>1. d \in Nat /\ d >= 1
      OBVIOUS
    <2> HIDE DEF d
    <2>2. b * d >= b
      BY <2>1
    <2> QED
      BY <2>2 DEF d
  <1> QED
    BY <1>1

\* Quotient and remainder are unique.
LEMMA DivModUnique ==
    ASSUME NEW b \in Nat, NEW p \in Nat, NEW r \in 0..(b - 1),
           NEW q \in Nat, NEW s \in 0..(b - 1), b * p + r = b * q + s
    PROVE  p = q /\ r = s
  <1>1. ~(p < q)
    <2> SUFFICES ASSUME p < q PROVE FALSE
      OBVIOUS
    <2>1. b * p + b <= b * q
      BY TimesGrows
    <2> QED
      BY <2>1
  <1>2. ~(q < p)
    <2> SUFFICES ASSUME q < p PROVE FALSE
      OBVIOUS
    <2>1. b * q + b <= b * p
      BY TimesGrows
    <2> QED
      BY <2>1
  <1> QED
    BY <1>1, <1>2

\* The next position, the last one's being the first.
LEMMA ModNext ==
    ASSUME NEW L \in Nat, NEW v \in 0..(L - 1)
    PROVE  (v + 1) % L = IF v + 1 = L THEN 0 ELSE v + 1
  <1> DEFINE q == (v + 1) \div L
             r == (v + 1) % L
  <1>1. q \in Nat /\ r \in 0..(L - 1) /\ v + 1 = L * q + r
    BY DivMod
  <1> HIDE DEF q, r
  <1>2. CASE v + 1 = L
    <2>1. L * q + r = L * 1 + 0 /\ 1 \in Nat /\ 0 \in 0..(L - 1)
      BY <1>1, <1>2
    <2>2. r = 0
      BY <1>1, <2>1, DivModUnique
    <2> QED
      BY <1>2, <2>2 DEF r
  <1>3. CASE v + 1 # L
    <2>1. L * q + r = L * 0 + (v + 1) /\ 0 \in Nat /\ v + 1 \in 0..(L - 1)
      BY <1>1, <1>3
    <2>2. r = v + 1
      BY <1>1, <2>1, DivModUnique
    <2> QED
      BY <1>3, <2>2 DEF r
  <1> QED
    BY <1>2, <1>3

\* A place by its digits of the bases any, L and n.
Place(L, n, a, b, c) == n * (L * a + b) + c

\* They are its digits, as plan_cells reads them.
HasDigits(x, L, n, a, b, c) == x \div (L * n) = a /\ (x \div n) % L = b /\ x % n = c

\* The digits plan_cells reads are digits, and those of the place.
Digited(x, T, L, n) ==
    /\ x = n * (L * (x \div (L * n)) + ((x \div n) % L)) + (x % n)
    /\ x \div (L * n) \in 0..(T - 1)
    /\ (x \div n) % L \in 0..(L - 1)
    /\ x % n \in 0..(n - 1)

\* A place of three digits is below the product of the bases.
LEMMA DigitsBound ==
    ASSUME NEW T \in Nat, NEW L \in Nat, NEW n \in Nat,
           NEW a \in 0..(T - 1), NEW b \in 0..(L - 1), NEW c \in 0..(n - 1)
    PROVE  /\ L * a + b \in Nat /\ n * (L * a + b) + c \in Nat
           /\ n * (L * a + b) + c < T * L * n
  <1> DEFINE y == L * a + b
  <1>1. L * a \in Nat /\ y \in Nat /\ L * T \in Nat
    OBVIOUS
  <1>2. y < L * T
    BY TimesGrows
  <1> HIDE DEF y
  <1>3. n * y + n <= n * (L * T)
    BY <1>1, <1>2, TimesGrows
  <1>4. n * (L * T) = T * L * n
    OBVIOUS
  <1>5. n * y \in Nat
    BY <1>1
  <1> QED
    BY <1>1, <1>3, <1>4, <1>5 DEF y

\* Every place below the product has digits.
LEMMA DigitsOf ==
    ASSUME NEW T \in Nat, NEW L \in Nat, NEW n \in Nat, L > 0, n > 0
    PROVE  \A x \in Nat : x < T * L * n => Digited(x, T, L, n)
  <1> TAKE x \in Nat
  <1> HAVE x < T * L * n
  <1> DEFINE y == x \div n
             a == y \div L
             b == y % L
             c == x % n
             W == L * n
             d == x \div W
             e == x % W
  <1>1. y \in Nat /\ c \in 0..(n - 1) /\ x = n * y + c
    BY DivMod
  <1>2. a \in Nat /\ b \in 0..(L - 1) /\ y = L * a + b
    BY <1>1, DivMod
  <1>3. W \in Nat /\ W > 0
    BY TimesGrows
  <1>4. d \in Nat /\ e \in 0..(W - 1) /\ x = W * d + e
    BY <1>3, DivMod
  <1> HIDE DEF y, a, b, c, d, e
  <1>5. n * b + c \in 0..(W - 1)
    <2>1. n * b + n <= n * L
      BY <1>2, TimesGrows
    <2>2. n * b \in Nat /\ n * L = W
      BY <1>2
    <2> QED
      BY <1>1, <2>1, <2>2, <1>3
  <1>6. x = W * a + (n * b + c)
    <2>1. n * (L * a + b) = (L * n) * a + n * b
      BY <1>2
    <2> QED
      BY <1>1, <1>2, <2>1
  <1> HIDE DEF W
  <1>7. d = a
    BY <1>2, <1>3, <1>4, <1>5, <1>6, DivModUnique
  <1>8. d < T
    <2> SUFFICES ASSUME T <= d PROVE FALSE
      BY <1>4
    <2>1. W * T <= W * d
      <3>1. CASE T = d
        BY <3>1, <1>3
      <3>2. CASE T < d
        <4>1. W * T + W <= W * d
          BY <1>3, <1>4, <3>2, TimesGrows
        <4> QED
          BY <4>1, <1>3, <1>4
      <3> QED
        BY <3>1, <3>2, <1>4
    <2>2. W * T = T * L * n
      BY DEF W
    <2>3. W * d \in Nat /\ W * T \in Nat
      BY <1>3, <1>4
    <2> QED
      BY <1>4, <2>1, <2>2, <2>3
  <1> QED
    <2>1. x = n * (L * d + b) + c
      BY <1>1, <1>2, <1>7
    <2>2. d \in 0..(T - 1)
      BY <1>4, <1>8
    <2> QED
      BY <1>1, <1>2, <2>1, <2>2, Zenon DEF y, b, c, d, W, Digited

\* And it has no others.
LEMMA DigitsUnique ==
    ASSUME NEW T \in Nat, NEW L \in Nat, NEW n \in Nat, L > 0, n > 0
    PROVE  \A a \in 0..(T - 1), b \in 0..(L - 1), c \in 0..(n - 1) :
             /\ Place(L, n, a, b, c) \in Nat /\ Place(L, n, a, b, c) < T * L * n
             /\ HasDigits(Place(L, n, a, b, c), L, n, a, b, c)
  <1> TAKE a \in 0..(T - 1), b \in 0..(L - 1), c \in 0..(n - 1)
  <1>0. PICK x \in Nat : x = n * (L * a + b) + c
    BY DigitsBound
  <1> DEFINE p == x \div (L * n)
             q == (x \div n) % L
             r == x % n
  <1>1. x < T * L * n
    BY <1>0, DigitsBound
  <1>2. x = n * (L * p + q) + r /\ p \in 0..(T - 1) /\ q \in 0..(L - 1) /\ r \in 0..(n - 1)
    <2>1. T \in Nat /\ L \in Nat /\ n \in Nat /\ L > 0 /\ n > 0
      OBVIOUS
    <2>2. \A z \in Nat : z < T * L * n => Digited(z, T, L, n)
      BY <2>1, DigitsOf, Zenon
    <2> QED
      BY <1>1, <2>2, Zenon DEF Digited
  <1> HIDE DEF p, q, r
  <1>3. L * a + b \in Nat /\ L * p + q \in Nat
    BY <1>2
  <1>4. L * a + b = L * p + q /\ c = r
    <2> DEFINE u == L * a + b
               v == L * p + q
    <2>1. u \in Nat /\ v \in Nat /\ n * u + c = n * v + r
      BY <1>0, <1>2, <1>3
    <2> HIDE DEF u, v
    <2>2. u = v /\ c = r
      BY <1>2, <2>1, DivModUnique
    <2> QED
      BY <2>2 DEF u, v
  <1>5. a = p /\ b = q
    BY <1>2, <1>4, DivModUnique
  <1>6. x = Place(L, n, a, b, c)
    BY <1>0 DEF Place
  <1>7. HasDigits(x, L, n, a, b, c)
    BY <1>4, <1>5 DEF p, q, r, HasDigits
  <1> QED
    BY <1>1, <1>6, <1>7, Zenon

-----------------------------------------------------------------------------
(* Laws of the schema                                                      *)

\* A cells list, as the builder gets it.
CellList(m) == Len(m.cells) \in Nat /\ DOMAIN m.cells = 1..Len(m.cells) /\ m.n \in Nat

\* Each cell of a valid manifest is a declared task's, a lineage's of the board,
\* one of the replicates; and each of these has its cell.
LEMMA CellsAreProduct ==
    ASSUME NEW m, ValidManifest(m)
    PROVE  {Slot(m.cells[k]) : k \in CellIndexes(m)}
             = TasksOf(m) \X LineagesOf(m) \X (0..(m.n - 1))
  <1>1. ASSUME NEW k \in CellIndexes(m)
        PROVE  Slot(m.cells[k]) \in TasksOf(m) \X LineagesOf(m) \X (0..(m.n - 1))
    <2>1. m.cells[k].task \in TasksOf(m) /\ m.cells[k].rep \in 0..(m.n - 1)
      BY DEF ValidManifest, CellDeclared, TasksOf
    <2>2. m.cells[k].id.lineage \in LineagesOf(m)
      BY DEF LineagesOf
    <2> QED
      BY <2>1, <2>2 DEF Slot
  <1>2. ASSUME NEW t \in TasksOf(m), NEW l \in LineagesOf(m), NEW r \in 0..(m.n - 1)
        PROVE  \E k \in CellIndexes(m) : Slot(m.cells[k]) = <<t, l, r>>
    <2>1. PICK k \in CellIndexes(m) : m.cells[k].task = t /\ m.cells[k].id.lineage = l
      BY <1>2 DEF ValidManifest, CompleteProduct, RepsOf
    <2>2. r \in RepsOf(m, t, l)
      BY <2>1 DEF ValidManifest, CompleteGroups
    <2>3. PICK j \in CellIndexes(m) : /\ m.cells[j].task = t /\ m.cells[j].id.lineage = l
                                      /\ m.cells[j].rep = r
      BY <2>2 DEF RepsOf
    <2> QED
      BY <2>3 DEF Slot
  <1> QED
    BY <1>1, <1>2

\* A list without repetitions has as many elements as positions.
LEMMA InjectiveList ==
    ASSUME NEW n \in Nat, NEW T, NEW f \in [1..n -> T],
           \A i, j \in 1..n : f[i] = f[j] => i = j,
           \A x \in T : \E i \in 1..n : f[i] = x
    PROVE  IsFiniteSet(T) /\ Cardinality(T) = n
  <1>1. f \in Bijection(1..n, T)
    BY DEF Bijection, Injection, Surjection, IsInjective
  <1>2. IsFiniteSet(1..n) /\ Cardinality(1..n) = n
    <2>1. 1 \in Int /\ n \in Int
      OBVIOUS
    <2>2. IsFiniteSet(1..n) /\ Cardinality(1..n) = IF 1 > n THEN 0 ELSE n - 1 + 1
      BY <2>1, FS_Interval, Zenon
    <2> QED
      BY <2>2
  <1> QED
    BY <1>1, <1>2, FS_Bijection DEF ExistsBijection

\* A signed denominator is the whole product, each cell under its own run.
LEMMA ValidIsComplete ==
    ASSUME NEW m, CellList(m), ValidManifest(m)
    PROVE  /\ Cardinality({Slot(m.cells[k]) : k \in CellIndexes(m)}) = Len(m.cells)
           /\ Cardinality(PlannedRuns(m)) = Len(m.cells)
  <1> DEFINE n == Len(m.cells)
             ids == [k \in 1..n |-> Slot(m.cells[k])]
             runs == [k \in 1..n |-> m.cells[k].run]
             Ids == {Slot(m.cells[k]) : k \in CellIndexes(m)}
  <1>1. n \in Nat /\ CellIndexes(m) = 1..n
    BY DEF CellList, CellIndexes
  <1>2. /\ ids \in [1..n -> Ids] /\ \A x \in Ids : \E k \in 1..n : ids[k] = x
        /\ \A j, k \in 1..n : ids[j] = ids[k] => j = k
    BY <1>1 DEF ValidManifest, UniqueCells
  <1>3. /\ runs \in [1..n -> PlannedRuns(m)]
        /\ \A x \in PlannedRuns(m) : \E k \in 1..n : runs[k] = x
        /\ \A j, k \in 1..n : runs[j] = runs[k] => j = k
    BY <1>1 DEF ValidManifest, UniqueCells, PlannedRuns
  <1> HIDE DEF ids, runs, Ids, n
  <1>4. Cardinality(Ids) = n /\ Cardinality(PlannedRuns(m)) = n
    BY <1>1, <1>2, <1>3, InjectiveList
  <1> QED
    BY <1>4 DEF Ids, n

-----------------------------------------------------------------------------
(* What plan_cells makes                                                   *)

\* Two lists about a separator, joined.
LEMMA Separated ==
    ASSUME NEW S, NEW s \in Seq(S), NEW k \in Seq(S), NEW x \in S
    PROVE  /\ Len(s \o <<x>> \o k) = Len(s) + 1 + Len(k)
           /\ \A i \in 1..Len(s) : (s \o <<x>> \o k)[i] = s[i]
           /\ (s \o <<x>> \o k)[Len(s) + 1] = x
           /\ \A i \in 1..Len(k) : (s \o <<x>> \o k)[Len(s) + 1 + i] = k[i]
  <1>0. s \o <<x>> \in Seq(S)
    OBVIOUS
  <1>1. PICK v \in Seq(S) : v = s \o <<x>>
    BY <1>0
  <1>2. /\ Len(v) = Len(s) + 1 /\ v[Len(s) + 1] = x
        /\ \A i \in 1..Len(s) : v[i] = s[i]
    BY <1>1
  <1>3. /\ Len(v \o k) = Len(v) + Len(k)
        /\ \A i \in 1..(Len(v) + Len(k)) :
             (v \o k)[i] = IF i <= Len(v) THEN v[i] ELSE k[i - Len(v)]
    BY ConcatProperties
  <1>4. /\ Len(v \o k) = Len(s) + 1 + Len(k)
        /\ \A i \in 1..Len(s) : (v \o k)[i] = s[i]
        /\ (v \o k)[Len(s) + 1] = x
        /\ \A i \in 1..Len(k) : (v \o k)[Len(s) + 1 + i] = k[i]
    <2>1. Len(s) \in Nat /\ Len(k) \in Nat
      OBVIOUS
    <2> QED
      BY <1>2, <1>3, <2>1
  <1> QED
    BY <1>1, <1>4

\* A list is split once at the x that is its first ...
LEMMA FirstSplit ==
    ASSUME NEW a \in Nat, NEW b \in Nat, NEW c \in Nat, NEW d \in Nat, NEW u, NEW x,
           a + 1 + c = b + 1 + d, u[a + 1] = x, u[b + 1] = x,
           \A i \in 1..a : u[i] # x, \A i \in 1..b : u[i] # x
    PROVE  a = b /\ c = d
  <1>1. ~(a < b) /\ ~(b < a)
    OBVIOUS
  <1> QED
    BY <1>1

\* There is no x among the n elements after the one at p.
NoneAfter(u, p, n, x) == \A i \in 1..n : u[p + i] # x

\* ... or its last.
LEMMA LastSplit ==
    ASSUME NEW a \in Nat, NEW b \in Nat, NEW c \in Nat, NEW d \in Nat, NEW u, NEW x,
           a + 1 + c = b + 1 + d, u[a + 1] = x, u[b + 1] = x,
           NoneAfter(u, a + 1, c, x), NoneAfter(u, b + 1, d, x)
    PROVE  a = b /\ c = d
  <1> USE DEF NoneAfter
  <1>1. ASSUME a < b PROVE FALSE
    <2>1. b - a \in 1..c /\ a + 1 + (b - a) = b + 1
      BY <1>1
    <2> QED
      BY <2>1
  <1>2. ASSUME b < a PROVE FALSE
    <2>1. a - b \in 1..d /\ b + 1 + (a - b) = a + 1
      BY <1>2
    <2> QED
      BY <2>1
  <1> QED
    BY <1>1, <1>2

\* x is not in the list.
Without(w, x) == \A i \in DOMAIN w : w[i] # x

\* A list and another, joined by x.
Joined(w, x, v) == w \o <<x>> \o v

\* The task and the lineage are read back from "task/lineage" by its first "/", where no
\* task has one, or by its last, where no lineage has.
LEMMA PathTellsApart ==
    ASSUME NEW S, NEW x,
           NEW s \in Seq(S), NEW t \in Seq(S), NEW k \in Seq(S), NEW l \in Seq(S),
           Joined(s, x, k) = Joined(t, x, l),
           (Without(s, x) /\ Without(t, x)) \/ (Without(k, x) /\ Without(l, x))
    PROVE  s = t /\ k = l
  <1>0. /\ s \in Seq(S \cup {x}) /\ t \in Seq(S \cup {x})
        /\ k \in Seq(S \cup {x}) /\ l \in Seq(S \cup {x}) /\ x \in S \cup {x}
    OBVIOUS
  <1>1. PICK u : u = s \o <<x>> \o k /\ u = t \o <<x>> \o l
    BY DEF Joined
  <1>2. /\ Len(u) = Len(s) + 1 + Len(k) /\ u[Len(s) + 1] = x
        /\ \A i \in 1..Len(s) : u[i] = s[i]
        /\ \A i \in 1..Len(k) : u[Len(s) + 1 + i] = k[i]
    BY <1>0, <1>1, Separated
  <1>3. /\ Len(u) = Len(t) + 1 + Len(l) /\ u[Len(t) + 1] = x
        /\ \A i \in 1..Len(t) : u[i] = t[i]
        /\ \A i \in 1..Len(l) : u[Len(t) + 1 + i] = l[i]
    <2>1. u = t \o <<x>> \o l
      BY <1>1
    <2> QED
      BY <1>0, <2>1, Separated
  <1>4. PICK a \in Nat, b \in Nat, c \in Nat, d \in Nat :
          /\ a = Len(s) /\ DOMAIN s = 1..a /\ b = Len(t) /\ DOMAIN t = 1..b
          /\ c = Len(k) /\ DOMAIN k = 1..c /\ d = Len(l) /\ DOMAIN l = 1..d
    OBVIOUS
  <1>5. a = b /\ c = d
    <2>1. a + 1 + c = b + 1 + d /\ u[a + 1] = x /\ u[b + 1] = x
      BY <1>2, <1>3, <1>4
    <2>2. CASE Without(s, x) /\ Without(t, x)
      <3>1. (\A i \in 1..a : u[i] # x) /\ (\A i \in 1..b : u[i] # x)
        BY <1>2, <1>3, <1>4, <2>2 DEF Without
      <3> QED
        BY <2>1, <3>1, FirstSplit
    <2>3. CASE Without(k, x) /\ Without(l, x)
      <3>1. \A i \in 1..c : u[a + 1 + i] = k[i] /\ k[i] # x
        BY <1>2, <1>4, <2>3 DEF Without
      <3>2. \A i \in 1..d : u[b + 1 + i] = l[i] /\ l[i] # x
        BY <1>3, <1>4, <2>3 DEF Without
      <3> QED
        <4>1. NoneAfter(u, a + 1, c, x) /\ NoneAfter(u, b + 1, d, x)
          BY <3>1, <3>2 DEF NoneAfter
        <4> QED
          BY <2>1, <4>1, LastSplit
    <2> QED
      BY <2>2, <2>3
  <1>6. \A i \in 1..a : s[i] = t[i]
    BY <1>2, <1>3, <1>4, <1>5
  <1>7. \A i \in 1..c : k[i] = l[i]
    BY <1>2, <1>3, <1>4, <1>5
  <1> QED
    BY <1>4, <1>5, <1>6, <1>7

\* So for the cell_ids that plan_cells gives.
LEMMA NamesTellApart ==
    ASSUME NEW s \in Seq(STRING), NEW t \in Seq(STRING), NEW k \in Seq(STRING), NEW l \in Seq(STRING),
           CellId(s, k, 0).path = CellId(t, l, 0).path,
           (Plan!NoSlash(s) /\ Plan!NoSlash(t)) \/ (Plan!NoSlash(k) /\ Plan!NoSlash(l))
    PROVE  s = t /\ k = l
  <1>1. PICK slash : slash = "/"
    OBVIOUS
  <1>2. \A w : Plan!NoSlash(w) => Without(w, slash)
    BY <1>1 DEF Plan!NoSlash, Without
  <1>3. (Without(s, slash) /\ Without(t, slash)) \/ (Without(k, slash) /\ Without(l, slash))
    BY <1>2
  <1>4. Joined(s, slash, k) = Joined(t, slash, l)
    BY <1>1 DEF CellId, Joined
  <1> QED
    BY <1>3, <1>4, PathTellsApart

\* Every lineage has cells in a plan.
LEMMA EveryLineagePlanned ==
    ASSUME NEW ts, NEW ls, NEW n \in Nat, Plannable(ls, n),
           NEW T \in Nat, T = Len(ts), T > 0, NEW L \in Nat, L = Len(ls),
           NEW m, m = [tasks |-> ts, n |-> n, cells |-> plan_cells(ts, ls, n)]
    PROVE  \A y \in 1..L : ls[y] \in LineagesOf(m)
  <1> TAKE y \in 1..L
  <1> DEFINE p == Place(L, n, 0, y - 1, 0)
  <1>1. n > 0 /\ L > 0
    BY DEF Plannable
  <1>2. 0 \in 0..(T - 1) /\ y - 1 \in 0..(L - 1) /\ 0 \in 0..(n - 1)
    BY <1>1
  <1>3. \A i \in 0..(T - 1), j \in 0..(L - 1), k \in 0..(n - 1) :
          /\ Place(L, n, i, j, k) \in Nat /\ Place(L, n, i, j, k) < T * L * n
          /\ HasDigits(Place(L, n, i, j, k), L, n, i, j, k)
    <2>1. T \in Nat /\ L \in Nat /\ n \in Nat /\ L > 0 /\ n > 0
      BY <1>1
    <2> QED
      BY <2>1, DigitsUnique, Zenon
  <1>4. p \in Nat /\ p < T * L * n /\ (p \div n) % L = y - 1
    <2>1. p \in Nat /\ p < T * L * n /\ HasDigits(p, L, n, 0, y - 1, 0)
      BY <1>2, <1>3, Zenon
    <2> HIDE DEF p
    <2> QED
      BY <2>1 DEF HasDigits
  <1> HIDE DEF p
  <1> DEFINE P == T * L * n
  <1>5. m.cells = [k \in 1..P |->
            LET t == ((k - 1) \div (Len(ls) * n)) + 1
                l == (((k - 1) \div n) % Len(ls)) + 1
            IN  Cell(k, ts[t].task_id, ls[l], ts[t].side, (k - 1) % n, NextLineage(ls, l))]
    BY DEF plan_cells
  <1>6. P \in Nat /\ p + 1 \in 1..P /\ (p + 1) - 1 = p
    <2>1. P \in Nat
      OBVIOUS
    <2> HIDE DEF P
    <2>2. p \in Nat /\ p < P
      BY <1>4 DEF P
    <2> QED
      BY <2>1, <2>2
  <1> HIDE DEF P
  <1>7. p + 1 \in CellIndexes(m) /\ m.cells[p + 1].id.lineage = ls[(y - 1) + 1]
    BY <1>4, <1>5, <1>6 DEF CellIndexes, Cell
  <1>8. (y - 1) + 1 = y
    OBVIOUS
  <1> QED
    BY <1>7, <1>8 DEF LineagesOf

\* No lineage is without a name, and no two (task, lineage) join to one path.
NamesServe(ts, ls, T, L) ==
    /\ \A y \in 1..L : ls[y] # << >>
    /\ \A x, u \in 1..T, y, v \in 1..L :
         CellId(ts[x].task_id, ls[y], 0).path = CellId(ts[u].task_id, ls[v], 0).path
           => x = u /\ y = v

\* With names of their own, distinct tasks have a plan that validate_manifest_payload
\* accepts.
LEMMA PlanSigns ==
    ASSUME NEW ts, NEW ls, NEW n \in Nat, Plannable(ls, n),
           NEW T \in Nat, T = Len(ts), T > 0, DOMAIN ts = 1..T,
           NEW L \in Nat, L = Len(ls), DOMAIN ls = 1..L,
           NEW m, m = [tasks |-> ts, n |-> n, cells |-> plan_cells(ts, ls, n)],
           UniqueTasks(m), NamedTasks(m),
           NamesServe(ts, ls, T, L)
    PROVE  ValidManifest(m)
  <1> DEFINE P == T * L * n
             a(k) == (k - 1) \div (L * n)
             b(k) == ((k - 1) \div n) % L
             c(k) == (k - 1) % n
             cell(k) == Cell(k, ts[a(k) + 1].task_id, ls[b(k) + 1], ts[a(k) + 1].side,
                             c(k), NextLineage(ls, b(k) + 1))
  <1>1. T \in Nat /\ T > 0 /\ L \in Nat /\ L >= 2 /\ n > 0 /\ P \in Nat
    BY DEF Plannable
  <1>2. /\ m.tasks = ts /\ m.n = n /\ m.cells = [k \in 1..P |-> cell(k)]
        /\ CellIndexes(m) = 1..P
    BY DEF plan_cells, CellIndexes
  <1>3. ASSUME NEW k \in 1..P
        PROVE  /\ k - 1 = n * (L * a(k) + b(k)) + c(k)
               /\ a(k) \in 0..(T - 1) /\ b(k) \in 0..(L - 1) /\ c(k) \in 0..(n - 1)
    <2>1. k - 1 \in Nat /\ k - 1 < T * L * n
      BY <1>1
    <2>2. T \in Nat /\ L \in Nat /\ n \in Nat /\ L > 0 /\ n > 0
      BY <1>1
    <2>3. \A x \in Nat : x < T * L * n => Digited(x, T, L, n)
      BY <2>2, DigitsOf, Zenon
    <2>4. Digited(k - 1, T, L, n)
      BY <2>1, <2>3, Zenon
    <2> QED
      BY <2>4 DEF Digited
  <1>4. ASSUME NEW x \in 0..(T - 1), NEW y \in 0..(L - 1), NEW z \in 0..(n - 1)
        PROVE  \E k \in 1..P : a(k) = x /\ b(k) = y /\ c(k) = z
    <2> DEFINE p == Place(L, n, x, y, z)
    <2>1. T \in Nat /\ L \in Nat /\ n \in Nat /\ L > 0 /\ n > 0
      BY <1>1
    <2>2. \A i \in 0..(T - 1), j \in 0..(L - 1), k \in 0..(n - 1) :
            /\ Place(L, n, i, j, k) \in Nat /\ Place(L, n, i, j, k) < T * L * n
            /\ HasDigits(Place(L, n, i, j, k), L, n, i, j, k)
      BY <2>1, DigitsUnique, Zenon
    <2>3. p \in Nat /\ p < P /\ HasDigits(p, L, n, x, y, z)
      BY <2>2, Zenon
    <2> HIDE DEF p, P
    <2>4. p + 1 \in 1..P /\ (p + 1) - 1 = p
      BY <1>1, <2>3
    <2>5. a(p + 1) = x /\ b(p + 1) = y /\ c(p + 1) = z
      BY <2>3, <2>4, Zenon DEF HasDigits
    <2> QED
      BY <2>4, <2>5, Zenon
  <1> HIDE DEF a, b, c, P
  <1>5. ASSUME NEW j \in 1..P, NEW k \in 1..P, a(j) = a(k), b(j) = b(k), c(j) = c(k)
        PROVE  j = k
    BY <1>3, <1>5
  <1>6. ASSUME NEW k \in 1..P
        PROVE  /\ m.cells[k].run = k
               /\ m.cells[k].task = ts[a(k) + 1].task_id
               /\ m.cells[k].id.side = ts[a(k) + 1].side
               /\ m.cells[k].id.lineage = ls[b(k) + 1]
               /\ m.cells[k].rep = c(k)
               /\ m.cells[k].id.cell_id = CellId(ts[a(k) + 1].task_id, ls[b(k) + 1], c(k))
               /\ m.cells[k].id.reviewer = NextLineage(ls, b(k) + 1)
    BY <1>2 DEF Cell
  <1> HIDE DEF cell
  <1>20. \A k \in 1..P : a(k) \in 0..(T - 1) /\ b(k) \in 0..(L - 1) /\ c(k) \in 0..(n - 1)
    BY <1>3, Zenon
  <1>21. m.tasks = ts /\ m.n = n /\ CellIndexes(m) = 1..P
    BY <1>2
  <1>7. \A x, y \in 0..(T - 1) : ts[x + 1].task_id = ts[y + 1].task_id => x = y
    BY <1>1, <1>2 DEF UniqueTasks
  <1>8. \A x, y \in 0..(L - 1) : ls[x + 1] = ls[y + 1] => x = y
    BY <1>1 DEF Plannable
  <1>9. UniqueCells(m)
    <2> SUFFICES ASSUME NEW j \in 1..P, NEW k \in 1..P, j # k
                 PROVE  /\ m.cells[j].run # m.cells[k].run
                        /\ m.cells[j].id.cell_id # m.cells[k].id.cell_id
                        /\ Slot(m.cells[j]) # Slot(m.cells[k])
      BY <1>2 DEF UniqueCells
    <2>0. /\ a(j) + 1 \in 1..T /\ b(j) + 1 \in 1..L /\ a(j) \in Nat /\ b(j) \in Nat
          /\ a(k) + 1 \in 1..T /\ b(k) + 1 \in 1..L /\ a(k) \in Nat /\ b(k) \in Nat
      <3>1. a(j) \in 0..(T - 1) /\ b(j) \in 0..(L - 1)
        BY <1>20, Zenon
      <3>2. a(k) \in 0..(T - 1) /\ b(k) \in 0..(L - 1)
        BY <1>20, Zenon
      <3>3. \A i \in Nat : \A z \in 0..(i - 1) : z + 1 \in 1..i /\ z \in Nat
        OBVIOUS
      <3> QED
        BY <1>1, <3>1, <3>2, <3>3, Zenon
    <2>1. CASE m.cells[j].id.cell_id = m.cells[k].id.cell_id
      <3>1. /\ CellId(ts[a(j) + 1].task_id, ls[b(j) + 1], 0).path
                 = CellId(ts[a(k) + 1].task_id, ls[b(k) + 1], 0).path
            /\ c(j) = c(k)
        <4>1. CellId(ts[a(j) + 1].task_id, ls[b(j) + 1], c(j))
                = CellId(ts[a(k) + 1].task_id, ls[b(k) + 1], c(k))
          BY <1>6, <2>1
        <4>2. \A t, l, r : /\ CellId(t, l, r).rep = r
                           /\ CellId(t, l, r).path = CellId(t, l, 0).path
          BY DEF CellId
        <4> QED
          BY <4>1, <4>2
      <3>2. a(j) + 1 = a(k) + 1 /\ b(j) + 1 = b(k) + 1
        BY <2>0, <3>1 DEF NamesServe
      <3>3. a(j) = a(k) /\ b(j) = b(k)
        BY <2>0, <3>2
      <3> QED
        BY <1>5, <3>1, <3>3
    <2>2. CASE Slot(m.cells[j]) = Slot(m.cells[k])
      <3>1. ts[a(j) + 1].task_id = ts[a(k) + 1].task_id
            /\ ls[b(j) + 1] = ls[b(k) + 1] /\ c(j) = c(k)
        BY <1>6, <2>2 DEF Slot
      <3>2. a(j) = a(k) /\ b(j) = b(k)
        BY <1>3, <1>7, <1>8, <3>1
      <3> QED
        BY <1>5, <3>1, <3>2
    <2> QED
      BY <1>6, <2>1, <2>2
  <1>10. ASSUME NEW k \in 1..P PROVE CellDeclared(m, m.cells[k])
    <2>1. a(k) + 1 \in 1..T /\ b(k) + 1 \in 1..L /\ c(k) \in 0..(n - 1)
      BY <1>1, <1>20
    <2>2. NextLineage(ls, b(k) + 1) # ls[b(k) + 1]
      <3> DEFINE next == (b(k) + 1) % L
      <3>1. next = (IF b(k) + 1 = L THEN 0 ELSE b(k) + 1) /\ b(k) \in 0..(L - 1)
        BY <1>1, <1>20, ModNext
      <3>3. next \in 0..(L - 1) /\ next # b(k)
        BY <1>1, <3>1
      <3> HIDE DEF next
      <3>2. ls[next + 1] # ls[b(k) + 1]
        BY <1>8, <3>1, <3>3
      <3> QED
        BY <3>2 DEF NextLineage, next
    <2>3. ls[b(k) + 1] # << >> /\ NextLineage(ls, b(k) + 1) # << >>
      <3> DEFINE next == (b(k) + 1) % L
      <3>1. next = (IF b(k) + 1 = L THEN 0 ELSE b(k) + 1) /\ b(k) \in 0..(L - 1)
        BY <1>1, <1>20, ModNext
      <3>4. next \in 0..(L - 1)
        BY <1>1, <3>1
      <3> HIDE DEF next
      <3>2. next + 1 \in 1..L
        BY <1>1, <3>4
      <3>3. ls[next + 1] # << >>
        BY <3>2 DEF NamesServe
      <3> QED
        BY <2>1, <3>3 DEF NextLineage, next, NamesServe
    <2> QED
      BY <1>21, <1>6, <2>1, <2>2, <2>3 DEF CellDeclared, ReviewerIndependent
  <1>11. ASSUME NEW x \in 0..(T - 1), NEW y \in 0..(L - 1)
         PROVE  RepsOf(m, ts[x + 1].task_id, ls[y + 1]) = 0..(n - 1)
    <2>1. ASSUME NEW k \in 1..P PROVE m.cells[k].rep \in 0..(n - 1)
      BY <1>20, <1>6
    <2>2. ASSUME NEW z \in 0..(n - 1)
          PROVE  \E k \in 1..P : /\ m.cells[k].task = ts[x + 1].task_id
                                 /\ m.cells[k].id.lineage = ls[y + 1]
                                 /\ m.cells[k].rep = z
      <3>1. PICK k \in 1..P : a(k) = x /\ b(k) = y /\ c(k) = z
        BY <1>4
      <3> QED
        BY <1>6, <3>1
    <2> DEFINE R == RepsOf(m, ts[x + 1].task_id, ls[y + 1])
    <2>3. \A z \in R : z \in 0..(n - 1)
      BY <1>21, <2>1, Zenon DEF RepsOf
    <2>4. \A z \in 0..(n - 1) : z \in R
      BY <1>21, <2>2, Zenon DEF RepsOf
    <2> HIDE DEF R
    <2>5. R = 0..(n - 1)
      BY <2>3, <2>4, Zenon
    <2> QED
      BY <2>5 DEF R
  <1>12. CompleteGroups(m)
    <2> SUFFICES ASSUME NEW k \in 1..P
                 PROVE  RepsOf(m, m.cells[k].task, m.cells[k].id.lineage) = 0..(m.n - 1)
      BY <1>21 DEF CompleteGroups
    <2>1. RepsOf(m, ts[a(k) + 1].task_id, ls[b(k) + 1]) = 0..(n - 1)
      BY <1>20, <1>11, Zenon
    <2> QED
      BY <1>21, <1>6, <2>1
  <1>13. CompleteProduct(m)
    <2>1. ASSUME NEW t \in TasksOf(m), NEW l \in LineagesOf(m)
          PROVE  \E x \in 0..(T - 1), y \in 0..(L - 1) :
                   t = ts[x + 1].task_id /\ l = ls[y + 1]
      <3>1. PICK i \in 1..T : t = ts[i].task_id
        BY <1>21 DEF TasksOf
      <3>2. PICK k \in 1..P : l = ls[b(k) + 1]
        <4>1. PICK k \in 1..P : l = m.cells[k].id.lineage
          BY <1>21 DEF LineagesOf
        <4>2. m.cells[k].id.lineage = ls[b(k) + 1]
          BY <1>6, Zenon
        <4> QED
          BY <4>1, <4>2, Zenon
      <3>3. i - 1 \in 0..(T - 1) /\ (i - 1) + 1 = i
        BY <1>1
      <3> QED
        BY <1>20, <3>1, <3>2, <3>3, Zenon
    <2>2. 0 \in 0..(n - 1)
      BY <1>1
    <2>3. ASSUME NEW t \in TasksOf(m), NEW l \in LineagesOf(m)
          PROVE  RepsOf(m, t, l) # {}
      <3>1. PICK x \in 0..(T - 1), y \in 0..(L - 1) : t = ts[x + 1].task_id /\ l = ls[y + 1]
        BY <2>1, Zenon
      <3>2. RepsOf(m, t, l) = 0..(n - 1)
        BY <1>11, <3>1, Zenon
      <3> QED
        BY <2>2, <3>2, Zenon
    <2> QED
      BY <2>3, Zenon DEF CompleteProduct
  <1>14. Len(m.cells) > 0
    <2>1. P > 0
      <3>1. \E k \in 1..P : a(k) = 0 /\ b(k) = 0 /\ c(k) = 0
        <4>1. 0 \in 0..(T - 1) /\ 0 \in 0..(L - 1) /\ 0 \in 0..(n - 1)
          BY <1>1
        <4> QED
          BY <1>4, <4>1, Zenon
      <3> QED
        BY <1>1, <3>1
    <2>2. Len(m.cells) = P
      BY <1>1, <1>2
    <2> QED
      BY <2>1, <2>2
  <1> QED
    BY <1>1, <1>2, <1>9, <1>10, <1>12, <1>13, <1>14 DEF ValidManifest

-----------------------------------------------------------------------------
(* The invariant                                                           *)

\* Where a payload comes from, and what its signature says of it.
PayloadKnown ==
    \/ payload = << >> /\ ~planned /\ ~minted
    \/ /\ payload # << >>
       /\ CellList(payload)
       /\ planned => \E ts \in TaskLists, ls \in LineageLists, n \in Replicates :
                        /\ Plannable(ls, n)
                        /\ payload = [tasks |-> ts, n |-> n,
                                      cells |-> plan_cells(ts, ls, n)]
       /\ minted => ValidManifest(payload)

\* What was rendered is a list the gate has admitted, against the signed payload.
BoardAdmitted ==
    Rendered =>
        /\ minted
        /\ Len(board) \in Nat /\ DOMAIN board = 1..Len(board)
        /\ assert_board_admissible(Manifest, board)

IInv == PayloadKnown /\ BoardAdmitted

\* A list has positions 1..Len, and it is empty only when it is << >>.
LEMMA ListFacts ==
    ASSUME NEW s, s \in Seq(Range(s))
    PROVE  /\ Len(s) \in Nat /\ DOMAIN s = 1..Len(s)
           /\ Len(s) = 0 => s = << >>
  OBVIOUS

\* A payload is a record, never the empty tuple.
LEMMA RecordIsNotEmpty ==
    ASSUME NEW ts, NEW n, NEW cs
    PROVE  [tasks |-> ts, n |-> n, cells |-> cs] # << >>
  <1>1. "tasks" \in DOMAIN [tasks |-> ts, n |-> n, cells |-> cs]
    OBVIOUS
  <1>2. DOMAIN << >> = {}
    OBVIOUS
  <1> QED
    BY <1>1, <1>2

\* The manifest's schema is the board's.
LEMMA SameSchema ==
    ASSUME NEW m
    PROVE  /\ Plan!ValidManifest(m) <=> ValidManifest(m)
           /\ Plan!UniqueTasks(m) <=> UniqueTasks(m)
           /\ Plan!CellIndexes(m) = CellIndexes(m)
           /\ Plan!TasksOf(m) = TasksOf(m) /\ Plan!LineagesOf(m) = LineagesOf(m)
           /\ Plan!PlannedRuns(m) = PlannedRuns(m)
           /\ {Plan!Slot(m.cells[k]) : k \in CellIndexes(m)}
                = {Slot(m.cells[k]) : k \in CellIndexes(m)}
           /\ \A S : Plan!Cardinality(S) = Cardinality(S)
  <1>1. Plan!CellIndexes(m) = CellIndexes(m)
    BY DEF CellIndexes, Plan!CellIndexes
  <1>2. Plan!TasksOf(m) = TasksOf(m) /\ Plan!LineagesOf(m) = LineagesOf(m)
    BY <1>1 DEF TasksOf, LineagesOf, Plan!TasksOf, Plan!LineagesOf
  <1>3. Plan!UniqueTasks(m) <=> UniqueTasks(m)
    BY DEF UniqueTasks, Plan!UniqueTasks
  <1>12. Plan!NamedTasks(m) <=> NamedTasks(m)
    BY DEF NamedTasks, Plan!NamedTasks
  <1>4. Plan!UniqueCells(m) <=> UniqueCells(m)
    BY DEF UniqueCells, Plan!UniqueCells, CellIndexes, Plan!CellIndexes, Slot, Plan!Slot
  <1>5. \A t, l : Plan!RepsOf(m, t, l) = RepsOf(m, t, l)
    BY <1>1 DEF RepsOf, Plan!RepsOf
  <1>6. Plan!CompleteGroups(m) <=> CompleteGroups(m)
    BY <1>1, <1>5 DEF CompleteGroups, Plan!CompleteGroups
  <1>7. Plan!CompleteProduct(m) <=> CompleteProduct(m)
    BY <1>2, <1>5 DEF CompleteProduct, Plan!CompleteProduct
  <1>8. Plan!PlannedRuns(m) = PlannedRuns(m)
    BY <1>1 DEF PlannedRuns, Plan!PlannedRuns
  <1>9. Plan!ValidManifest(m) <=> ValidManifest(m)
    <2>1. (\A k \in Plan!CellIndexes(m) : Plan!CellDeclared(m, m.cells[k]))
            <=> (\A k \in CellIndexes(m) : CellDeclared(m, m.cells[k]))
      BY DEF CellIndexes, Plan!CellIndexes, CellDeclared, Plan!CellDeclared, ReviewerIndependent,
             Plan!ReviewerIndependent
    <2> QED
      BY <1>12, <1>3, <1>4, <1>6, <1>7, <2>1 DEF ValidManifest, Plan!ValidManifest
  <1>10. {Plan!Slot(m.cells[k]) : k \in CellIndexes(m)}
           = {Slot(m.cells[k]) : k \in CellIndexes(m)}
    BY DEF Slot, Plan!Slot
  <1>11. \A S : Plan!Cardinality(S) = Cardinality(S)
    BY DEF Cardinality, Plan!Cardinality
  <1> QED
    BY <1>1, <1>2, <1>3, <1>8, <1>9, <1>10, <1>11

\* So is the plan.
LEMMA SamePlan ==
    ASSUME NEW ts, NEW ls, NEW n
    PROVE  /\ Plan!Plannable(ls, n) <=> Plannable(ls, n)
           /\ Plan!plan_cells(ts, ls, n) = plan_cells(ts, ls, n)
  BY DEF Plannable, plan_cells, Cell, CellId, NextLineage,
         Plan!Plannable, Plan!plan_cells, Plan!Cell, Plan!CellId, Plan!NextLineage

\* At the start there is neither payload nor board.
LEMMA InitIInv == Init => IInv
  BY DEF Init, Plan!Init, IInv, PayloadKnown, BoardAdmitted, Rendered

\* plan_cells makes a list of cells.
LEMMA PlanIsCellList ==
    ASSUME NEW ts \in TaskLists, NEW ls \in LineageLists, NEW n \in Replicates
    PROVE  CellList([tasks |-> ts, n |-> n, cells |-> plan_cells(ts, ls, n)])
  <1> DEFINE P == Len(ts) * Len(ls) * n
  <1>1. Len(ts) \in Nat /\ Len(ls) \in Nat /\ n \in Nat
    BY ListsAssumption, ListFacts
  <1>2. P \in Nat
    BY <1>1
  <1> HIDE DEF P
  <1>3. \E f : plan_cells(ts, ls, n) = [k \in 1..P |-> f[k]]
    <2> WITNESS plan_cells(ts, ls, n)
    <2> QED
      BY DEF plan_cells, P
  <1>4. Len(plan_cells(ts, ls, n)) = P /\ DOMAIN plan_cells(ts, ls, n) = 1..P
    BY <1>2, <1>3
  <1> QED
    BY <1>1, <1>2, <1>4 DEF CellList

\* Every step keeps the invariant.
LEMMA NextIInv == IInv /\ [Next]_vars => IInv'
  <1> SUFFICES ASSUME IInv, [Next]_vars PROVE IInv'
    OBVIOUS
  <1> USE DEF IInv
  <1>1. CASE Mint
    <2>0. UNCHANGED board
      BY <1>1 DEF Mint
    <2>1. CASE Plan!Plan
      <3>1. payload = << >> /\ ~minted /\ minted' = minted /\ ~Rendered /\ ~Rendered'
        BY <2>0, <2>1 DEF Plan!Plan, PayloadKnown, BoardAdmitted, Rendered
      <3>2. PICK ts \in TaskLists, ls \in LineageLists, n \in Replicates :
              /\ Plannable(ls, n)
              /\ payload' = [tasks |-> ts, n |-> n, cells |-> plan_cells(ts, ls, n)]
        BY <2>1, SamePlan DEF Plan!Plan
      <3>3. CellList(payload') /\ payload' # << >>
        BY <3>2, PlanIsCellList, RecordIsNotEmpty
      <3> QED
        BY <3>1, <3>2, <3>3 DEF PayloadKnown, BoardAdmitted
    <2>2. CASE Plan!Bring
      <3>1. payload = << >> /\ ~minted /\ ~planned /\ ~minted' /\ ~planned' /\ ~Rendered'
        BY <2>0, <2>2 DEF Plan!Bring, PayloadKnown, BoardAdmitted, Rendered
      <3>2. PICK ts \in TaskLists, n \in Replicates, cs \in CellLists :
              payload' = [tasks |-> ts, n |-> n, cells |-> cs]
        BY <2>2 DEF Plan!Bring
      <3>3. Len(cs) \in Nat /\ DOMAIN cs = 1..Len(cs) /\ n \in Nat
        BY ListsAssumption, ListFacts
      <3>4. CellList(payload') /\ payload' # << >>
        BY <3>2, <3>3, RecordIsNotEmpty DEF CellList
      <3> QED
        BY <3>1, <3>4 DEF PayloadKnown, BoardAdmitted
    <2>3. CASE Plan!build_manifest
      <3>1. /\ payload' = payload /\ planned' = planned /\ minted' /\ ~minted
            /\ payload # << >> /\ ValidManifest(payload) /\ ~Rendered'
        BY <2>0, <2>3, SameSchema DEF Plan!build_manifest, BoardAdmitted, Rendered
      <3> QED
        BY <3>1 DEF PayloadKnown, BoardAdmitted
    <2>4. CASE UNCHANGED manifest
      BY <2>0, <2>4 DEF manifest, PayloadKnown, BoardAdmitted, Rendered, Manifest
    <2>5. Plan!Refuse \/ Plan!Done => UNCHANGED manifest
      BY DEF Plan!Refuse, Plan!Done, Plan!vars, manifest
    <2> QED
      BY <1>1, <2>1, <2>2, <2>3, <2>4, <2>5 DEF Mint, Plan!Next
  <1>2. CASE UNCHANGED <<manifest, board>>
    BY <1>2 DEF manifest, PayloadKnown, BoardAdmitted, Rendered, Manifest
  <1>3. CASE Render
    <2>1. PICK rs : Verified(rs) /\ assert_board_admissible(Manifest, rs) /\ board' = rs
      BY <1>3 DEF Render
    <2>2. Len(rs) \in Nat /\ DOMAIN rs = 1..Len(rs)
      BY <2>1 DEF Verified
    <2>3. minted /\ payload' = payload /\ planned' = planned /\ minted' = minted
      BY <1>3 DEF Render, manifest
    <2>4. Manifest' = Manifest
      BY <2>3 DEF Manifest
    <2> QED
      BY <2>1, <2>2, <2>3, <2>4 DEF PayloadKnown, BoardAdmitted
  <1>4. RunGauntlet => UNCHANGED <<manifest, board>>
    BY DEF RunGauntlet
  <1>5. UNCHANGED vars => UNCHANGED <<manifest, board>>
    BY DEF vars
  <1> QED
    BY <1>1, <1>2, <1>3, <1>4, <1>5 DEF Next

\* It holds throughout.
THEOREM Inductive == Spec => []IInv
  BY InitIInv, NextIInv, PTL DEF Spec

-----------------------------------------------------------------------------
(* What it says                                                            *)

\* Every signed denominator is the whole product of the declared tasks, the lineages and
\* the replicates, and every rendered board is that denominator, each (cell, stage) once.
THEOREM WholeDenominator == Spec => []DenominatorExact
  <1>1. IInv => DenominatorExact
    <2> SUFFICES ASSUME IInv PROVE DenominatorExact
      OBVIOUS
    <2>1. Plan!SignedIsComplete
      <3> SUFFICES ASSUME minted PROVE Plan!SignedIsComplete
        BY DEF Plan!SignedIsComplete
      <3>1. CellList(payload) /\ ValidManifest(payload)
        BY DEF IInv, PayloadKnown
      <3>2. \A k \in CellIndexes(payload) :
                payload.cells[k].id.reviewer # payload.cells[k].id.lineage
        BY <3>1 DEF ValidManifest, CellDeclared, ReviewerIndependent
      <3> DEFINE ids == {Slot(payload.cells[k]) : k \in CellIndexes(payload)}
                 wanted == TasksOf(payload) \X LineagesOf(payload) \X (0..(payload.n - 1))
      <3>3. /\ ids = wanted /\ Cardinality(ids) = Len(payload.cells)
            /\ Cardinality(PlannedRuns(payload)) = Len(payload.cells)
        BY <3>1, CellsAreProduct, ValidIsComplete, Zenon
      <3>4. /\ {Plan!Slot(payload.cells[k]) : k \in Plan!CellIndexes(payload)} = ids
            /\ Plan!TasksOf(payload) \X Plan!LineagesOf(payload) \X (0..(payload.n - 1))
                 = wanted
            /\ Plan!CellIndexes(payload) = CellIndexes(payload)
            /\ Plan!PlannedRuns(payload) = PlannedRuns(payload)
            /\ Plan!Cardinality(wanted) = Cardinality(wanted)
            /\ Plan!Cardinality(PlannedRuns(payload)) = Cardinality(PlannedRuns(payload))
        <4>1. /\ Plan!CellIndexes(payload) = CellIndexes(payload)
              /\ Plan!TasksOf(payload) = TasksOf(payload)
              /\ Plan!LineagesOf(payload) = LineagesOf(payload)
              /\ Plan!PlannedRuns(payload) = PlannedRuns(payload)
              /\ {Plan!Slot(payload.cells[k]) : k \in CellIndexes(payload)} = ids
              /\ \A S : Plan!Cardinality(S) = Cardinality(S)
          BY SameSchema, Zenon
        <4> QED
          BY <4>1, Zenon
      <3> HIDE DEF ids, wanted
      <3> QED
        BY <3>2, <3>3, <3>4, Zenon DEF Plan!SignedIsComplete
    <2>2. ASSUME Rendered
          PROVE  LET pairs == {<<r.run, r.stage>> : r \in Rows}
                 IN  /\ pairs = PlannedRuns(Manifest) \X VALID_STAGES
                     /\ Len(board) = Cardinality(pairs)
      <3> DEFINE N == Len(board)
                 pairs == {<<r.run, r.stage>> : r \in Rows}
                 f == [i \in 1..N |-> <<board[i].run, board[i].stage>>]
      <3>1. N \in Nat /\ DOMAIN board = 1..N /\ assert_board_admissible(Manifest, board)
        BY <2>2 DEF IInv, BoardAdmitted
      <3>2. \A i \in 1..N :
                board[i].stage \in VALID_STAGES /\ board[i].run \in PlannedRuns(Manifest)
        BY <3>1 DEF assert_board_admissible, StageDenominatorComplete, ValidCellStage
      <3>3. \A run \in PlannedRuns(Manifest), s \in VALID_STAGES :
                \E i \in 1..N : board[i].run = run /\ board[i].stage = s
        BY <3>1 DEF assert_board_admissible, StageDenominatorComplete
      <3>4. \A i, j \in 1..N :
                board[i].run = board[j].run /\ board[i].stage = board[j].stage => i = j
        BY <3>1 DEF assert_board_admissible, StageDenominatorComplete
      <3>5. pairs = {<<board[i].run, board[i].stage>> : i \in 1..N}
        BY <3>1 DEF Rows
      <3> HIDE DEF pairs, N
      <3>6. pairs = PlannedRuns(Manifest) \X VALID_STAGES
        BY <3>2, <3>3, <3>5
      <3>7. /\ f \in [1..N -> pairs]
            /\ \A i, j \in 1..N : f[i] = f[j] => i = j
            /\ \A x \in pairs : \E i \in 1..N : f[i] = x
        BY <3>4, <3>5
      <3> HIDE DEF f
      <3>8. Cardinality(pairs) = N
        BY <3>1, <3>7, InjectiveList
      <3> QED
        BY <3>6, <3>8 DEF pairs, N
    <2> QED
      BY <2>1, <2>2 DEF DenominatorExact
  <1> QED
    BY <1>1, Inductive, PTL

\* Whatever the tasks, the lineages and the replicates, what plan_cells makes of distinct
\* tasks passes validate_manifest_payload, provided every name has a word and no task id, or
\* no lineage, has a "/" in it.
THEOREM PlansAreSignable == Spec => []PlanIsSignable
  <1>1. IInv => PlanIsSignable
    <2> DEFINE names == TasksOf(payload) \cup LineagesOf(payload)
    <2> SUFFICES ASSUME IInv, planned, payload.tasks # << >>, UniqueTasks(payload),
                        << >> \notin names,
                        \/ \A t \in TasksOf(payload) : Plan!NoSlash(t)
                        \/ \A l \in LineagesOf(payload) : Plan!NoSlash(l)
                 PROVE  ValidManifest(payload)
      BY SameSchema DEF PlanIsSignable, Plan!PlanIsSignable
    <2>1. PICK ts \in TaskLists, ls \in LineageLists, n \in Replicates :
            /\ Plannable(ls, n)
            /\ payload = [tasks |-> ts, n |-> n, cells |-> plan_cells(ts, ls, n)]
      BY DEF IInv, PayloadKnown
    <2>2. PICK T \in Nat, L \in Nat :
            /\ T = Len(ts) /\ DOMAIN ts = 1..T /\ (T = 0 => ts = << >>)
            /\ L = Len(ls) /\ DOMAIN ls = 1..L
      BY ListsAssumption, ListFacts
    <2>3. T > 0 /\ n \in Nat
      BY <2>1, <2>2, ListsAssumption
    <2>4. TasksOf(payload) = {ts[x].task_id : x \in 1..T}
      BY <2>1, <2>2 DEF TasksOf
    <2>5. \A y \in 1..L : ls[y] \in LineagesOf(payload)
      BY <2>1, <2>2, <2>3, EveryLineagePlanned
    <2>6. NamedTasks(payload) /\ \A y \in 1..L : ls[y] # << >>
      BY <2>1, <2>2, <2>4, <2>5 DEF NamedTasks
    <2>7. ASSUME NEW x \in 1..T, NEW u \in 1..T, NEW y \in 1..L, NEW v \in 1..L,
                 CellId(ts[x].task_id, ls[y], 0).path = CellId(ts[u].task_id, ls[v], 0).path
          PROVE  x = u /\ y = v
      <3>1. /\ ts[x].task_id \in Seq(STRING) /\ ts[u].task_id \in Seq(STRING)
            /\ ls[y] \in Seq(STRING) /\ ls[v] \in Seq(STRING)
        BY <2>2, ListsAssumption
      <3>2. \/ Plan!NoSlash(ts[x].task_id) /\ Plan!NoSlash(ts[u].task_id)
            \/ Plan!NoSlash(ls[y]) /\ Plan!NoSlash(ls[v])
        BY <2>4, <2>5
      <3>4. ts[x].task_id = ts[u].task_id /\ ls[y] = ls[v]
        BY <2>7, <3>1, <3>2, NamesTellApart
      <3>5. x = u
        BY <2>1, <2>2, <3>4 DEF UniqueTasks
      <3>6. y = v
        BY <2>1, <2>2, <3>4 DEF Plannable
      <3> QED
        BY <3>5, <3>6
    <2>8. NamesServe(ts, ls, T, L)
      BY <2>6, <2>7 DEF NamesServe
    <2> QED
      BY <2>1, <2>2, <2>3, <2>6, <2>8, PlanSigns
  <1> QED
    BY <1>1, Inductive, PTL

\* No row of a rendered board was signed for another board or another cell, and its
\* measured static rows ran under one toolchain.
THEOREM ComparableRows == Spec => []RowsAreComparable
  <1>1. IInv => RowsAreComparable
    <2> SUFFICES ASSUME IInv, Rendered PROVE RowsAreComparable
      BY DEF RowsAreComparable
    <2>1. /\ assert_board_admissible(Manifest, board)
          /\ Manifest.digest = payload /\ Manifest.cells = payload.cells
      BY DEF IInv, BoardAdmitted, Manifest
    <2>2. ASSUME NEW r \in Rows
          PROVE  \E k \in CellIndexes(Manifest) :
                   [anchor |-> r.anchor, run |-> r.run, id |-> r.id]
                   = [anchor |-> payload, run |-> payload.cells[k].run,
                      id |-> payload.cells[k].id]
      <3>1. PICK i \in DOMAIN board : r = board[i]
        BY DEF Rows
      <3>2. /\ Anchored(Manifest, r) /\ IdentityMatches(Manifest, r)
            /\ r.run \in PlannedRuns(Manifest)
        BY <2>1, <3>1 DEF assert_board_admissible, StageDenominatorComplete
      <3>3. PICK k \in CellIndexes(Manifest) : Manifest.cells[k].run = r.run
        BY <3>2 DEF PlannedRuns
      <3>4. Manifest.cells[k].id = r.id /\ r.anchor = payload
        BY <2>1, <3>2, <3>3 DEF Anchored, IdentityMatches
      <3> QED
        BY <2>1, <3>3, <3>4
    <2>3. ASSUME NEW r \in Rows, r.stage = "static", Measured(r)
          PROVE  r.obs.env_digest = Pin
      BY <2>1, <2>3 DEF assert_board_admissible, ToolchainPinned, Rows, Manifest
    <2> QED
      BY <2>2, <2>3 DEF RowsAreComparable
  <1> QED
    BY <1>1, Inductive, PTL
-----------------------------------------------------------------------------
(* The receipts of the calls                                               *)

\* The receipts of a call are at its time and over one digest.
OfCalls(S, n) ==
    \A r, s \in S : r.at \in 1..n /\ (r.at = s.at => r.digest = s.digest)

\* What the harness signed, and what is rendered of it.
CallsInv ==
    /\ attempts \in Nat
    /\ signed \in Seq(Range(signed)) /\ OfCalls(Range(signed), attempts)
    /\ Rendered => Rows \subseteq Range(signed)

\* A list and four more elements.
LEMMA FourMore ==
    ASSUME NEW s, s \in Seq(Range(s)), NEW t, Len(t) = 4, t \in Seq(Range(t))
    PROVE  /\ s \o t \in Seq(Range(s \o t))
           /\ \A x \in Range(s \o t) : x \in Range(s) \/ \E i \in 1..4 : x = t[i]
  <1> DEFINE S == Range(s) \cup Range(t)
             u == s \o t
  <1>1. s \in Seq(S) /\ t \in Seq(S)
    OBVIOUS
  <1>2. /\ u \in Seq(S) /\ Len(u) = Len(s) + Len(t)
        /\ \A i \in 1 .. (Len(s) + Len(t)) :
             u[i] = IF i <= Len(s) THEN s[i] ELSE t[i - Len(s)]
    BY <1>1, ConcatProperties
  <1> HIDE DEF u, S
  <1>3. /\ Len(s) \in Nat /\ DOMAIN s = 1..Len(s)
        /\ Len(u) = Len(s) + 4 /\ DOMAIN u = 1..Len(u)
    BY <1>1, <1>2
  <1>4. \A i \in DOMAIN u : u[i] \in Range(s) \/ \E j \in 1..4 : u[i] = t[j]
    <2> TAKE i \in DOMAIN u
    <2>1. CASE i <= Len(s)
      <3>1. i \in DOMAIN s /\ u[i] = s[i]
        BY <1>2, <1>3, <2>1
      <3> QED
        BY <3>1 DEF Range
    <2>2. CASE ~(i <= Len(s))
      <3>1. i - Len(s) \in 1..4 /\ u[i] = t[i - Len(s)]
        BY <1>2, <1>3, <2>2
      <3> QED
        BY <3>1
    <2> QED
      BY <2>1, <2>2
  <1>5. u \in Seq(Range(u))
    BY <1>2, <1>3 DEF Range
  <1>6. \A x \in Range(u) : x \in Range(s) \/ \E i \in 1..4 : x = t[i]
    <2> TAKE x \in Range(u)
    <2>1. PICK i \in DOMAIN u : x = u[i]
      BY DEF Range
    <2> QED
      BY <1>4, <2>1
  <1> QED
    BY <1>5, <1>6 DEF u

\* A call signs four receipts at its time, over one digest.
LEMMA CallSigns ==
    ASSUME RunGauntlet
    PROVE  \E t, d : /\ signed' = signed \o t /\ Len(t) = 4 /\ t \in Seq(Range(t))
                     /\ \A i \in 1..4 : t[i].at = attempts + 1 /\ t[i].digest = d
  <1>1. PICK ctx \in Contexts, tree \in Trees :
          \/ \E env \in Envs, ruff \in {0, 1} :
                 signed' = signed \o FullRow(ctx, tree, env, ruff)
          \/ \E d \in {tree, Unmeasurable} :
                 signed' = signed \o [i \in 1..4 |-> Failed(ctx, d, GAUNTLET_STAGES[i])]
    BY DEF RunGauntlet
  <1>2. ASSUME NEW env, NEW ruff, signed' = signed \o FullRow(ctx, tree, env, ruff)
        PROVE  \E t, d : /\ signed' = signed \o t /\ Len(t) = 4
                         /\ t \in Seq(Range(t))
                         /\ \A i \in 1..4 : t[i].at = attempts + 1 /\ t[i].digest = d
    <2> DEFINE t == FullRow(ctx, tree, env, ruff)
    <2>1. PICK a, b, c, e : t = <<a, b, c, e>>
      BY DEF FullRow
    <2>2. DOMAIN t = 1..4 /\ Len(t) = 4 /\ t \in Seq({a, b, c, e})
      BY <2>1
    <2>3. t[1] = a /\ t[2] = b /\ t[3] = c /\ t[4] = e
      BY <2>1
    <2>4. t \in Seq(Range(t))
      BY <2>2, <2>3 DEF Range
    <2>5. \A i \in 1..4 : t[i].at = attempts + 1 /\ t[i].digest = tree
      <3>1. /\ t[1].at = attempts + 1 /\ t[1].digest = tree
            /\ t[2].at = attempts + 1 /\ t[2].digest = tree
            /\ t[3].at = attempts + 1 /\ t[3].digest = tree
            /\ t[4].at = attempts + 1 /\ t[4].digest = tree
        BY DEF FullRow, Receipt
      <3> HIDE DEF t
      <3> QED
        BY <3>1
    <2> HIDE DEF t
    <2> QED
      BY <1>2, <2>2, <2>4, <2>5 DEF t
  <1>3. ASSUME NEW d, signed' = signed \o [i \in 1..4 |-> Failed(ctx, d, GAUNTLET_STAGES[i])]
        PROVE  \E t, e : /\ signed' = signed \o t /\ Len(t) = 4
                         /\ t \in Seq(Range(t))
                         /\ \A i \in 1..4 : t[i].at = attempts + 1 /\ t[i].digest = e
    <2> DEFINE t == [i \in 1..4 |-> Failed(ctx, d, GAUNTLET_STAGES[i])]
    <2>1. Len(t) = 4 /\ t \in Seq(Range(t))
      BY DEF Range
    <2>2. \A i \in 1..4 : t[i].at = attempts + 1 /\ t[i].digest = d
      BY DEF Failed, Receipt
    <2> HIDE DEF t
    <2> QED
      BY <1>3, <2>1, <2>2 DEF t
  <1> QED
    BY <1>1, <1>2, <1>3

\* Every step keeps what is known of the receipts.
LEMMA CallsStep == CallsInv /\ [Next]_vars => CallsInv'
  <1> SUFFICES ASSUME CallsInv, [Next]_vars PROVE CallsInv'
    OBVIOUS
  <1> USE DEF CallsInv
  <1>1. CASE RunGauntlet
    <2>1. PICK t, d : /\ signed' = signed \o t /\ Len(t) = 4 /\ t \in Seq(Range(t))
                      /\ \A i \in 1..4 : t[i].at = attempts + 1 /\ t[i].digest = d
      BY <1>1, CallSigns
    <2>2. attempts' = attempts + 1 /\ ~Rendered'
      BY <1>1 DEF RunGauntlet, Rendered
    <2>3. /\ signed' \in Seq(Range(signed'))
          /\ \A x \in Range(signed') : x \in Range(signed) \/ \E i \in 1..4 : x = t[i]
      <3>1. signed \in Seq(Range(signed)) /\ Len(t) = 4 /\ t \in Seq(Range(t))
        BY <2>1
      <3>2. /\ signed \o t \in Seq(Range(signed \o t))
            /\ \A x \in Range(signed \o t) :
                 x \in Range(signed) \/ \E i \in 1..4 : x = t[i]
        BY <3>1, FourMore
      <3> QED
        BY <2>1, <3>2
    <2>4. OfCalls(Range(signed'), attempts')
      <3>1. \A x \in Range(signed') :
              \/ x \in Range(signed) /\ x.at \in 1..attempts
              \/ x.at = attempts + 1 /\ x.digest = d
        BY <2>1, <2>3 DEF OfCalls
      <3> QED
        BY <2>2, <3>1 DEF OfCalls
    <2> QED
      BY <2>2, <2>3, <2>4
  <1>2. CASE Render
    <2>1. UNCHANGED <<attempts, signed>>
      BY <1>2 DEF Render
    <2>2. PICK rs \in Seq(Range(signed)) : board' = rs
      BY <1>2 DEF Render, Verified
    <2>3. Rows' \subseteq Range(signed)
      BY <2>2 DEF Rows
    <2> QED
      BY <2>1, <2>3
  <1>3. CASE UNCHANGED <<attempts, signed, board>>
    BY <1>3 DEF Rendered, Rows
  <1>4. Mint \/ UNCHANGED vars => UNCHANGED <<attempts, signed, board>>
    BY DEF Mint, vars
  <1> QED
    BY <1>1, <1>2, <1>3, <1>4 DEF Next

\* run_gauntlet was called at most once on each cell.
OneCallPerCell == \A r, s \in Range(signed) : r.run = s.run => r.at = s.at

\* A rendered cell whose rows are of two trees - OneTreePerCell, which the gate does
\* not check - is one that run_gauntlet was called on twice: with one call on each
\* cell, all its receipts are over one digest (run_gauntlet binds the seal it made).
THEOREM OneCallOneTree == Spec => [](OneCallPerCell => OneTreePerCell)
  <1>1. Init => CallsInv
    BY DEF Init, CallsInv, OfCalls, Rendered, Range
  <1>2. CallsInv => (OneCallPerCell => OneTreePerCell)
    BY DEF CallsInv, OfCalls, OneCallPerCell, OneTreePerCell
  <1> QED
    BY <1>1, <1>2, CallsStep, PTL DEF Spec
=============================================================================
