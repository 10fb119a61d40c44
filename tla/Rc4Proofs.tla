------------------------------ MODULE Rc4Proofs ------------------------------
(***************************************************************************)
(* Facts about the operators of Rc4, for every number of byte values N.    *)
(***************************************************************************)
EXTENDS Rc4, WellFoundedInduction, TLAPS

(* A number is a multiple of N and a remainder, in one way only.           *)
LEMMA DivMod ==
    ASSUME NEW p \in Int
    PROVE  /\ p \div N \in Int /\ p % N \in 0 .. N - 1
           /\ p = N * (p \div N) + (p % N)
  BY NAssumption

LEMMA NextMultiple ==
    ASSUME NEW a \in Int, NEW b \in Int, a >= b + 1
    PROVE  N * a >= N * b + N
  <1>1. PICK d \in Nat : a = b + 1 + d
    <2>1. a - b - 1 \in Nat
      OBVIOUS
    <2> QED
      BY <2>1
  <1>2. N * a = N * b + N + N * d
    BY <1>1, NAssumption
  <1>3. N * d >= 0 /\ N * d \in Int /\ N * b \in Int
    BY NAssumption
  <1> QED
    BY <1>2, <1>3, NAssumption

LEMMA RemainderUnique ==
    ASSUME NEW q \in Int, NEW r \in 0 .. N - 1,
           NEW s \in Int, NEW t \in 0 .. N - 1,
           N * q + r = N * s + t
    PROVE  r = t
  <1>1. N * q \in Int /\ N * s \in Int /\ N \in Int
    BY NAssumption
  <1>2. CASE q >= s + 1
    <2>1. N * q >= N * s + N
      BY <1>2, NextMultiple
    <2> QED
      BY <2>1, <1>1
  <1>3. CASE s >= q + 1
    <2>1. N * s >= N * q + N
      BY <1>3, NextMultiple
    <2> QED
      BY <2>1, <1>1
  <1>4. CASE q = s
    BY <1>4, <1>1
  <1> QED
    BY <1>2, <1>3, <1>4

(* Counting rounds modulo N one at a time is counting them modulo N.       *)
LEMMA ModSuccessor ==
    ASSUME NEW p \in Nat
    PROVE  ((p % N) + 1) % N = (p + 1) % N
  <1> DEFINE x == (p % N) + 1
  <1>1. /\ p \div N \in Int /\ p % N \in 0 .. N - 1
        /\ p = N * (p \div N) + (p % N)
    BY DivMod
  <1>2. /\ x \div N \in Int /\ x % N \in 0 .. N - 1
        /\ x = N * (x \div N) + (x % N)
    BY DivMod, <1>1, NAssumption
  <1>3. /\ (p + 1) \div N \in Int /\ (p + 1) % N \in 0 .. N - 1
        /\ p + 1 = N * ((p + 1) \div N) + ((p + 1) % N)
    BY DivMod
  <1>4. p + 1 = N * ((p \div N) + (x \div N)) + (x % N)
    <2> HIDE DEF x
    <2>1. p + 1 = N * (p \div N) + x
      BY <1>1, NAssumption DEF x
    <2>2. N * ((p \div N) + (x \div N)) = N * (p \div N) + N * (x \div N)
      <3>1. \A u, v \in Int : N * (u + v) = N * u + N * v
        BY NAssumption
      <3> QED
        BY <1>1, <1>2, <3>1
    <2>3. N * (p \div N) \in Int /\ N * (x \div N) \in Int
      BY <1>1, <1>2, NAssumption
    <2> QED
      BY <1>2, <2>1, <2>2, <2>3
  <1> QED
    BY <1>1, <1>2, <1>3, <1>4, RemainderUnique

(* Everything reduced modulo N indexes the S-box.                          *)
LEMMA ModIsByte ==
    ASSUME NEW x \in Int
    PROVE  x % N \in Byte
  BY NAssumption DEF Byte

LEMMA BytesAreNumbers == \A b \in Byte : b \in Int
  BY NAssumption DEF Byte

(* Exchanging two entries of an S-box gives an S-box.                      *)
LEMMA SwapType ==
    ASSUME NEW S \in [Byte -> Byte], NEW a \in Byte, NEW b \in Byte
    PROVE  Swap(S, a, b) \in [Byte -> Byte]
  BY DEF Swap

(* Exchanging two entries loses no byte value and repeats none.            *)
LEMMA SwapPermutes ==
    ASSUME NEW S \in [Byte -> Byte], NEW a \in Byte, NEW b \in Byte,
           IsPermutation(S)
    PROVE  IsPermutation(Swap(S, a, b))
  <1> DEFINE T == Swap(S, a, b)
             flip(x) == IF x = a THEN b ELSE IF x = b THEN a ELSE x
  <1>1. \A x \in Byte : T[x] = S[flip(x)] /\ flip(x) \in Byte
    BY DEF Swap
  <1>2. \A x, y \in Byte : T[x] = T[y] => x = y
    <2> SUFFICES ASSUME NEW x \in Byte, NEW y \in Byte, T[x] = T[y]
                 PROVE  x = y
      OBVIOUS
    <2>1. flip(x) = flip(y)
      BY <1>1 DEF IsPermutation
    <2> QED
      BY <2>1
  <1>3. \A v \in Byte : \E x \in Byte : T[x] = v
    <2> TAKE v \in Byte
    <2>1. PICK y \in Byte : S[y] = v
      BY DEF IsPermutation
    <2>2. flip(y) \in Byte /\ flip(flip(y)) = y
      BY <1>1
    <2>3. T[flip(y)] = v
      BY <1>1, <2>1, <2>2
    <2> QED
      BY <2>2, <2>3
  <1> QED
    BY <1>2, <1>3 DEF IsPermutation

(* The identity fill is a permutation.                                     *)
LEMMA IdentityPermutes ==
    Identity \in [Byte -> Byte] /\ IsPermutation(Identity)
  BY DEF Identity, IsPermutation

(* A round of the key schedule keeps an S-box an S-box, and a permutation  *)
(* a permutation.                                                          *)
LEMMA KsaRound ==
    ASSUME NEW S \in [Byte -> Byte], NEW j \in Byte, NEW k \in Byte,
           NEW key \in Seq(Byte), Len(key) > 0
    PROVE  /\ KsaIndex(S, j, key, k) \in Byte
           /\ KsaSwap(S, j, key, k) \in [Byte -> Byte]
           /\ IsPermutation(S) => IsPermutation(KsaSwap(S, j, key, k))
  <1>1. (k % Len(key)) + 1 \in 1 .. Len(key)
    BY DEF Byte
  <1>2. key[(k % Len(key)) + 1] \in Byte
    BY <1>1
  <1>3. KsaIndex(S, j, key, k) \in Byte
    <2>1. j \in Int /\ S[k] \in Int /\ key[(k % Len(key)) + 1] \in Int
      BY <1>2, BytesAreNumbers
    <2> QED
      BY <2>1, ModIsByte DEF KsaIndex
  <1> QED
    BY <1>3, SwapType, SwapPermutes DEF KsaSwap

(* A round of the generator keeps its state well formed, steps i by one    *)
(* modulo N and keeps a permutation a permutation; its output is a byte.   *)
LEMMA GeneratorRound ==
    ASSUME NEW g \in Generator
    PROVE  /\ NextGen(g) \in Generator
           /\ NextGen(g).i = (g.i + 1) % N
           /\ IsPermutation(g.S) => IsPermutation(NextGen(g).S)
  <1> DEFINE ni == (g.i + 1) % N
             nj == (g.j + g.S[ni]) % N
  <1>1. g.S \in [Byte -> Byte] /\ g.i \in Byte /\ g.j \in Byte
    BY DEF Generator
  <1>2. ni \in Byte
    BY <1>1, ModIsByte DEF Byte
  <1>3. nj \in Byte
    <2> HIDE DEF ni
    <2>1. g.S[ni] \in Int /\ g.j \in Int
      BY <1>1, <1>2, BytesAreNumbers
    <2> QED
      BY <2>1, ModIsByte
  <1>4. NextGen(g) = [S |-> Swap(g.S, ni, nj), i |-> ni, j |-> nj]
    BY DEF NextGen
  <1>5. Swap(g.S, ni, nj) \in [Byte -> Byte]
    BY <1>1, <1>2, <1>3, SwapType
  <1>6. IsPermutation(g.S) => IsPermutation(Swap(g.S, ni, nj))
    BY <1>1, <1>2, <1>3, SwapPermutes
  <1> HIDE DEF ni, nj
  <1>7. NextGen(g) \in Generator
    BY <1>2, <1>3, <1>4, <1>5 DEF Generator
  <1>8. NextGen(g).i = ni /\ NextGen(g).S = Swap(g.S, ni, nj)
    BY <1>4
  <1> QED
    BY <1>6, <1>7, <1>8 DEF ni

LEMMA OutputIsByte ==
    ASSUME NEW g \in Generator
    PROVE  OutByte(g) \in Byte
  <1>1. g.S \in [Byte -> Byte] /\ g.S[g.i] \in Byte /\ g.S[g.j] \in Byte
    BY DEF Generator
  <1>2. g.S[g.i] \in Int /\ g.S[g.j] \in Int
    BY <1>1, BytesAreNumbers
  <1>3. (g.S[g.i] + g.S[g.j]) % N \in Byte
    BY <1>2, ModIsByte
  <1> QED
    BY <1>1, <1>3 DEF OutByte

(* A start has i = 0 and leaves the S-box alone.                           *)
LEMMA StartedType ==
    ASSUME NEW S \in [Byte -> Byte]
    PROVE  Started(S) \in Generator /\ Started(S).i = 0 /\ Started(S).S = S
  BY NAssumption DEF Started, Generator, Byte

LEMMA ZerosType == Zeros \in [Byte -> Byte]
  BY NAssumption DEF Zeros, Byte

-----------------------------------------------------------------------------
(* Recursion.  The functions that Rc4 defines by recursion on the number   *)
(* of rounds exist because every finite run of rounds can be extended, and *)
(* are what they are because two runs of a length agree.                   *)

Run(V, v, F, n, h) ==
    /\ h \in [0 .. n -> V]
    /\ h[0] = v
    /\ \A k \in 0 .. n - 1 : h[k + 1] = F[k][h[k]]

Reaches(V, v, F, n, w) ==
    \E h \in [0 .. n -> V] : Run(V, v, F, n, h) /\ h[n] = w

(* A set of natural numbers that is not empty has a least element.         *)
LEMMA LeastNumber ==
    ASSUME NEW T \in SUBSET Nat, T # {}
    PROVE  \E x \in T : \A y \in T : x <= y
  <1> DEFINE R == {ss \in Nat \X Nat : ss[1] < ss[2]}
  <1>1. IsWellFoundedOn(R, Nat)
    BY NatLessThanWellFounded, Zenon DEF OpToRel
  <1>2. \A x, y \in Nat : y < x => <<y, x>> \in R
    OBVIOUS
  <1> HIDE DEF R
  <1>3. PICK x \in T : \A y \in T : ~ (<<y, x>> \in R)
    BY <1>1, WFMin
  <1>4. \A y \in T : ~ (y < x)
    BY <1>2, <1>3
  <1> QED
    BY <1>4

(* A property of numbers, given as a set, that holds of 0 and is passed on  *)
(* to the successor holds of all numbers.                                  *)
LEMMA Induction ==
    ASSUME NEW P, 0 \in P, \A n \in Nat : n \in P => n + 1 \in P
    PROVE  Nat \subseteq P
  <1> DEFINE T == Nat \ P
  <1>1. SUFFICES ASSUME T # {} PROVE FALSE
    OBVIOUS
  <1>2. PICK x \in T : \A y \in T : x <= y
    <2>1. T \in SUBSET Nat
      OBVIOUS
    <2> HIDE DEF T
    <2> QED
      BY <1>1, <2>1, LeastNumber
  <1>3. x # 0
    BY <1>2
  <1>4. x - 1 \in Nat /\ x - 1 \notin T /\ (x - 1) + 1 = x
    BY <1>2, <1>3
  <1>5. x - 1 \in P
    BY <1>4
  <1> QED
    BY <1>2, <1>4, <1>5

LEMMA RunStart ==
    ASSUME NEW V, NEW v \in V, NEW F
    PROVE  Reaches(V, v, F, 0, v)
  <1> DEFINE h == [k \in 0 .. 0 |-> v]
  <1>1. h \in [0 .. 0 -> V] /\ h[0] = v
    OBVIOUS
  <1>2. Run(V, v, F, 0, h)
    BY <1>1 DEF Run
  <1> QED
    BY <1>1, <1>2 DEF Reaches

LEMMA RunStep ==
    ASSUME NEW V, NEW v \in V, NEW F \in [Nat -> [V -> V]],
           NEW n \in Nat, NEW w, Reaches(V, v, F, n, w)
    PROVE  w \in V /\ Reaches(V, v, F, n + 1, F[n][w])
  <1>1. PICK h \in [0 .. n -> V] : Run(V, v, F, n, h) /\ h[n] = w
    BY DEF Reaches
  <1>2. w \in V
    BY <1>1
  <1>3. F[n][w] \in V
    BY <1>2
  <1> DEFINE e == [k \in 0 .. n + 1 |-> IF k = n + 1 THEN F[n][w] ELSE h[k]]
  <1>4. e \in [0 .. n + 1 -> V]
    BY <1>1, <1>3
  <1>5. e[0] = h[0] /\ e[n + 1] = F[n][w]
    OBVIOUS
  <1>6. ASSUME NEW k \in 0 .. (n + 1) - 1
        PROVE  e[k + 1] = F[k][e[k]]
    <2>1. CASE k = n
      BY <2>1, <1>1
    <2>2. CASE k # n
      <3>1. k \in 0 .. n - 1 /\ e[k] = h[k] /\ e[k + 1] = h[k + 1]
        BY <2>2
      <3> QED
        BY <3>1, <1>1 DEF Run
    <2> QED
      BY <2>1, <2>2
  <1> HIDE DEF e
  <1>7. Run(V, v, F, n + 1, e)
    BY <1>1, <1>4, <1>5, <1>6 DEF Run
  <1> QED
    BY <1>2, <1>4, <1>5, <1>7 DEF Reaches

LEMMA RunUnique ==
    ASSUME NEW V, NEW v, NEW F, NEW n \in Nat, NEW a, NEW b,
           Reaches(V, v, F, n, a), Reaches(V, v, F, n, b)
    PROVE  a = b
  <1>1. PICK f \in [0 .. n -> V] : Run(V, v, F, n, f) /\ f[n] = a
    BY DEF Reaches
  <1>2. PICK h \in [0 .. n -> V] : Run(V, v, F, n, h) /\ h[n] = b
    BY DEF Reaches
  <1> DEFINE P == {k \in Nat : k <= n => f[k] = h[k]}
  <1>3. 0 \in P
    BY <1>1, <1>2 DEF Run
  <1>4. ASSUME NEW k \in Nat, k \in P PROVE k + 1 \in P
    <2>1. CASE k + 1 <= n
      <3>1. k \in 0 .. n - 1 /\ f[k] = h[k]
        BY <1>4, <2>1
      <3>2. f[k + 1] = F[k][f[k]] /\ h[k + 1] = F[k][h[k]]
        BY <1>1, <1>2, <3>1 DEF Run
      <3> QED
        BY <3>1, <3>2
    <2> QED
      BY <2>1
  <1>5. Nat \subseteq P
    <2> HIDE DEF P
    <2> QED
      BY <1>3, <1>4, Induction
  <1> QED
    BY <1>1, <1>2, <1>5

LEMMA RecursionExists ==
    ASSUME NEW V, NEW v \in V, NEW F \in [Nat -> [V -> V]]
    PROVE  \E G \in [Nat -> V] :
              G[0] = v /\ \A n \in Nat : G[n + 1] = F[n][G[n]]
  <1> DEFINE P == {n \in Nat : \E w : Reaches(V, v, F, n, w)}
             G == [n \in Nat |-> CHOOSE w : Reaches(V, v, F, n, w)]
  <1>1. 0 \in P
    BY RunStart
  <1>2. \A n \in Nat : n \in P => n + 1 \in P
    BY RunStep
  <1>3. Nat \subseteq P
    <2> HIDE DEF P
    <2> QED
      BY <1>1, <1>2, Induction
  <1>4. \A n \in Nat : Reaches(V, v, F, n, G[n])
    BY <1>3
  <1>5. G = [n \in Nat |-> G[n]]
    OBVIOUS
  <1> HIDE DEF G
  <1>6. G[0] = v
    <2>1. Reaches(V, v, F, 0, G[0]) /\ Reaches(V, v, F, 0, v) /\ 0 \in Nat
      BY <1>4, RunStart
    <2> QED
      BY <2>1, RunUnique
  <1>7. ASSUME NEW n \in Nat PROVE G[n] \in V /\ G[n + 1] = F[n][G[n]]
    <2>1. G[n] \in V /\ Reaches(V, v, F, n + 1, F[n][G[n]])
      BY <1>4, RunStep
    <2>2. Reaches(V, v, F, n + 1, G[n + 1])
      BY <1>4
    <2> QED
      BY <2>1, <2>2, RunUnique
  <1> QED
    BY <1>5, <1>6, <1>7

-----------------------------------------------------------------------------
(* What the recursion of After computes: the start, and a round a step.    *)
LEMMA AfterRounds ==
    ASSUME NEW S \in [Byte -> Byte]
    PROVE  /\ After(S, 0) = Started(S)
           /\ \A n \in Nat : /\ After(S, n) \in Generator
                            /\ After(S, n + 1) = NextGen(After(S, n))
  <1> DEFINE F == [n \in Nat |-> [g \in Generator |-> NextGen(g)]]
             gen == CHOOSE gen : gen = [k \in Nat |->
                        IF k = 0 THEN Started(S) ELSE NextGen(gen[k - 1])]
  <1>1. F \in [Nat -> [Generator -> Generator]] /\ Started(S) \in Generator
    BY GeneratorRound, StartedType
  <1>2. \A n \in Nat : \A g \in Generator : F[n][g] = NextGen(g)
    OBVIOUS
  <1> HIDE DEF F
  <1>3. PICK G \in [Nat -> Generator] :
            G[0] = Started(S) /\ \A n \in Nat : G[n + 1] = F[n][G[n]]
    BY <1>1, RecursionExists
  <1>4. G = [k \in Nat |-> IF k = 0 THEN Started(S) ELSE NextGen(G[k - 1])]
    <2>1. ASSUME NEW k \in Nat, k # 0 PROVE G[k] = NextGen(G[k - 1])
      <3>1. k - 1 \in Nat /\ (k - 1) + 1 = k
        BY <2>1
      <3> QED
        BY <3>1, <1>2, <1>3
    <2>2. G = [k \in Nat |-> G[k]]
      BY <1>3
    <2> QED
      BY <1>3, <2>1, <2>2
  <1>5. gen = [k \in Nat |-> IF k = 0 THEN Started(S) ELSE NextGen(gen[k - 1])]
    BY <1>4
  <1>6. \A n : After(S, n) = gen[n]
    BY DEF After
  <1> HIDE DEF gen
  <1>7. After(S, 0) = Started(S)
    BY <1>5, <1>6
  <1>8. ASSUME NEW n \in Nat PROVE After(S, n + 1) = NextGen(After(S, n))
    <2>1. gen[n + 1] = NextGen(gen[(n + 1) - 1]) /\ (n + 1) - 1 = n
      BY <1>5
    <2> QED
      BY <1>6, <2>1
  <1> DEFINE P == {n \in Nat : After(S, n) \in Generator}
  <1>9. Nat \subseteq P
    <2>1. 0 \in P /\ \A n \in Nat : n \in P => n + 1 \in P
      BY <1>1, <1>7, <1>8, GeneratorRound
    <2> HIDE DEF P
    <2> QED
      BY <2>1, Induction
  <1> QED
    BY <1>7, <1>8, <1>9

(* The key schedule round by round: S-box and j after k rounds.            *)
KsaState == [S : [Byte -> Byte], j : Byte]

(* RecursionExists for the key schedule.                                   *)
LEMMA KsaRecursion ==
    ASSUME NEW w \in KsaState, NEW F \in [Nat -> [KsaState -> KsaState]]
    PROVE  \E G \in [Nat -> KsaState] :
              G[0] = w /\ \A n \in Nat : G[n + 1] = F[n][G[n]]
  BY RecursionExists, Z3T(30)

(* G is the key schedule of key, from the identity to the S-box it gives.  *)
KsaRun(key, G) ==
    /\ G \in [0 .. N -> KsaState]
    /\ G[0] = [S |-> Identity, j |-> 0]
    /\ \A k \in Byte :
          G[k + 1] = [S |-> KsaSwap(G[k].S, G[k].j, key, k),
                      j |-> KsaIndex(G[k].S, G[k].j, key, k)]
    /\ KeyedSBox(key) = G[N].S

LEMMA KeyedRounds ==
    ASSUME NEW key \in Seq(Byte), Len(key) > 0
    PROVE  \E G : KsaRun(key, G)
  <1> DEFINE step(p, k) == [S |-> KsaSwap(p.S, p.j, key, k),
                            j |-> KsaIndex(p.S, p.j, key, k)]
             F == [k \in Nat |-> [p \in KsaState |->
                      IF k \in Byte THEN step(p, k) ELSE p]]
             fresh == [S |-> Identity, j |-> 0]
  <1>1. \A p \in KsaState : \A k \in Byte : step(p, k) \in KsaState
    BY KsaRound DEF KsaState
  <1>2. fresh \in KsaState
    BY IdentityPermutes, NAssumption DEF KsaState, Byte
  <1>3. Byte = 0 .. N - 1 /\ N \in Nat \ {0}
    BY NAssumption DEF Byte
  <1> HIDE DEF fresh
  <1>5. F \in [Nat -> [KsaState -> KsaState]]
    BY <1>1
  <1>6. \A k \in Byte : \A p \in KsaState : F[k][p] = step(p, k)
    BY <1>3
  <1> HIDE DEF F, step
  <1>7. PICK H \in [Nat -> KsaState] :
            H[0] = fresh /\ \A n \in Nat : H[n + 1] = F[n][H[n]]
    BY <1>2, <1>5, KsaRecursion
  <1> DEFINE G == [k \in 0 .. N |-> H[k]]
             round == CHOOSE round : round = [k \in 0 .. N |->
                         IF k = 0 THEN fresh ELSE step(round[k - 1], k - 1)]
  <1>4. KeyedSBox(key) = round[N].S
    BY DEF KeyedSBox, step, fresh
  <1>8. \A k \in 0 .. N : G[k] = H[k] /\ G[k] \in KsaState
    BY <1>3, <1>7
  <1>9. G = [k \in 0 .. N |-> IF k = 0 THEN fresh ELSE step(G[k - 1], k - 1)]
    <2>1. ASSUME NEW k \in 0 .. N, k # 0 PROVE G[k] = step(G[k - 1], k - 1)
      <3>1. k - 1 \in Byte /\ k - 1 \in 0 .. N /\ (k - 1) + 1 = k /\ k - 1 \in Nat
        BY <1>3, <2>1
      <3>2. H[k] = F[k - 1][H[k - 1]] /\ G[k] = H[k] /\ G[k - 1] = H[k - 1]
        BY <1>7, <1>8, <3>1
      <3> QED
        BY <1>6, <1>8, <3>1, <3>2
    <2>2. G = [k \in 0 .. N |-> G[k]]
      OBVIOUS
    <2>3. 0 \in 0 .. N /\ G[0] = fresh
      BY <1>3, <1>7, <1>8
    <2> HIDE DEF G
    <2> QED
      BY <2>1, <2>2, <2>3
  <1>10. round = [k \in 0 .. N |-> IF k = 0 THEN fresh ELSE step(round[k - 1], k - 1)]
    <2> HIDE DEF G
    <2> QED
      BY <1>9
  <1> HIDE DEF round, G
  <1> DEFINE P == {k \in Nat : k <= N => round[k] = H[k]}
  <1>11. 0 \in P
    BY <1>3, <1>7, <1>10
  <1>12. ASSUME NEW k \in Nat, k \in P PROVE k + 1 \in P
    <2>1. CASE k + 1 <= N
      <3>1. k \in Byte /\ k + 1 \in 0 .. N /\ (k + 1) - 1 = k /\ k + 1 # 0
        BY <1>3, <2>1
      <3>2. round[k] = H[k]
        BY <1>3, <1>12, <2>1
      <3>4. round[k + 1] = step(round[k], k)
        <4> HIDE DEF P
        <4> QED
          BY <1>10, <3>1
      <3>3. H[k + 1] = step(H[k], k)
        BY <1>6, <1>7, <3>1
      <3> QED
        BY <3>2, <3>3, <3>4
    <2> QED
      BY <2>1
  <1>13. Nat \subseteq P
    <2> HIDE DEF P
    <2> QED
      BY <1>11, <1>12, Induction
  <1>14. KeyedSBox(key) = G[N].S
    BY <1>3, <1>4, <1>8, <1>13
  <1>15. \A k \in Byte : G[k + 1] = step(G[k], k)
    BY <1>3, <1>6, <1>7, <1>8
  <1>16. G \in [0 .. N -> KsaState] /\ G[0] = fresh
    BY <1>3, <1>7, <1>8 DEF G
  <1> QED
    BY <1>14, <1>15, <1>16 DEF step, fresh, KsaRun

(* After k rounds of the key schedule of key, S and j are what they are.   *)
KsaAt(key, k, S, j) ==
    \E G : KsaRun(key, G) /\ G[k] = [S |-> S, j |-> j]

LEMMA KsaAtStart ==
    ASSUME NEW key \in Seq(Byte), Len(key) > 0
    PROVE  KsaAt(key, 0, Identity, 0)
  BY KeyedRounds DEF KsaAt, KsaRun

LEMMA KsaAtStep ==
    ASSUME NEW key, NEW k \in Byte, NEW S, NEW j, KsaAt(key, k, S, j)
    PROVE  KsaAt(key, k + 1, KsaSwap(S, j, key, k), KsaIndex(S, j, key, k))
  <1>1. PICK G : KsaRun(key, G) /\ G[k] = [S |-> S, j |-> j]
    BY DEF KsaAt
  <1>2. G[k].S = S /\ G[k].j = j
    BY <1>1
  <1>3. G[k + 1] = [S |-> KsaSwap(G[k].S, G[k].j, key, k),
                    j |-> KsaIndex(G[k].S, G[k].j, key, k)]
    BY <1>1 DEF KsaRun
  <1> QED
    BY <1>1, <1>2, <1>3 DEF KsaAt

LEMMA KsaAtEnd ==
    ASSUME NEW key, NEW S, NEW j, KsaAt(key, N, S, j)
    PROVE  S = KeyedSBox(key)
  <1>1. PICK G : KsaRun(key, G) /\ G[N] = [S |-> S, j |-> j]
    BY DEF KsaAt
  <1>2. G[N].S = S
    BY <1>1
  <1>3. KeyedSBox(key) = G[N].S
    BY <1>1 DEF KsaRun
  <1> QED
    BY <1>2, <1>3

(* The S-box that a key gives is an S-box.                                 *)
LEMMA KeyedSBoxType ==
    ASSUME NEW key \in Seq(Byte), Len(key) > 0
    PROVE  KeyedSBox(key) \in [Byte -> Byte]
  <1>1. PICK G : KsaRun(key, G)
    BY KeyedRounds
  <1>2. G \in [0 .. N -> KsaState] /\ KeyedSBox(key) = G[N].S
    BY <1>1 DEF KsaRun
  <1>3. G[N] \in KsaState
    BY <1>2, NAssumption
  <1> QED
    BY <1>2, <1>3 DEF KsaState
=============================================================================
